------------------------------ MODULE TableIndex ------------------------------
(***************************************************************************)
(* The table node of dom.c / dom.h: an array of entries in insertion order *)
(* and an open-addressing index into it (linear probing, a power-of-two    *)
(* capacity, slot 0 = empty, slot e = the e-th entry).                     *)
(*                                                                         *)
(* Insertion is the only mutation.  It is split where the C code may       *)
(* return or loop: the load-factor test, the rebuild loop, the growth of   *)
(* the entry array, the store.  Nothing else runs between two of those     *)
(* steps: pc leaves "idle" when a caller has probed for a key and missed,  *)
(* and comes back when the insertion returns.                              *)
(***************************************************************************)
EXTENDS Integers, Sequences, FiniteSets

CONSTANTS
  Key, Value,
  KeyHash,      \* the hash of every key: any function at all
  IdxCap0,      \* first capacity of the index (16 in dom.c)
  EntCap0       \* first capacity of the entry array (8 in dom.c)

ASSUME NonEmpty == Key # {} /\ Value # {}
ASSUME KeyHashAssumption == KeyHash \in [Key -> Nat]
ASSUME CapAssumption == IdxCap0 \in Nat /\ IdxCap0 >= 2
                        /\ EntCap0 \in Nat /\ EntCap0 >= 1

NoSlot == -1    \* SIZE_MAX: no pre-resolved slot

VARIABLES
  entries,      \* <<[key, value, hash], ...>>
  cap,          \* capacity of the entry array
  index,        \* [0..idx_cap-1 -> 0..Len(entries)]
  idx_cap,
  pc,           \* where the running insertion is
  req,          \* its arguments: key, slot (as probed)
  todo,         \* i of index_rebuild's loop: entries re-indexed so far
  st            \* status of the last insertion

vars == <<entries, cap, index, idx_cap, pc, req, todo, st>>

Entry == [key : Key, value : Value, hash : Nat]

Keys == {entries[i].key : i \in DOMAIN entries}

-------------------------------------------------------------------------------
(***************************************************************************)
(* Probing.  (hash & mask), then (slot + 1) & mask, d times.               *)
(***************************************************************************)
SlotAt(h, d, n) == LET p == (h % n) + d IN IF p < n THEN p ELSE p - n

\* The walk for hash h first meets an empty slot after d steps.
FirstFree(idx, n, h, d) ==
  /\ idx[SlotAt(h, d, n)] = 0
  /\ \A c \in 0 .. d - 1 : idx[SlotAt(h, c, n)] # 0

\* A walk stops at an empty slot or at the entry of its key.
FindStops(k, d) ==
  LET e == index[SlotAt(KeyHash[k], d, idx_cap)]
  IN  IF e = 0 THEN TRUE ELSE entries[e].key = k

\* Mutant: equal hashes taken for equal keys.
ProbeStops_HashOnly(k, d) ==
  LET e == index[SlotAt(KeyHash[k], d, idx_cap)]
  IN  IF e = 0 THEN TRUE ELSE entries[e].hash = KeyHash[k]

\* teptris_dom_table_probe_slot compares the cached hash before the key.
ProbeStops(k, d) ==
  LET e == index[SlotAt(KeyHash[k], d, idx_cap)]
  IN  IF e = 0 THEN TRUE ELSE entries[e].hash = KeyHash[k] /\ entries[e].key = k

FindDist(k) ==
  CHOOSE d \in 0 .. idx_cap - 1 :
    FindStops(k, d) /\ \A c \in 0 .. d - 1 : ~FindStops(k, c)

ProbeDist(k) ==
  CHOOSE d \in 0 .. idx_cap - 1 :
    ProbeStops(k, d) /\ \A c \in 0 .. d - 1 : ~ProbeStops(k, c)

\* teptris_dom_table_find_h: the entry number of k, 0 for NULL.
Find(k) ==
  IF idx_cap = 0 THEN 0 ELSE index[SlotAt(KeyHash[k], FindDist(k), idx_cap)]

\* teptris_dom_table_probe_slot: the entry number and, on a miss, the empty
\* slot the walk stopped at.
Probe(k) ==
  IF idx_cap = 0 THEN [entry |-> 0, slot |-> NoSlot]
  ELSE LET s == SlotAt(KeyHash[k], ProbeDist(k), idx_cap)
       IN  [entry |-> index[s], slot |-> IF index[s] = 0 THEN s ELSE NoSlot]

-------------------------------------------------------------------------------
NoReq == [key |-> CHOOSE k \in Key : TRUE, value |-> CHOOSE v \in Value : TRUE,
          slot |-> NoSlot]

\* A table node is zeroed: no entries, no index.
Init ==
  /\ entries = << >> /\ cap = 0
  /\ index = [s \in {} |-> 0] /\ idx_cap = 0
  /\ pc = "idle" /\ req = NoReq /\ todo = 0 /\ st = "OK"

\* A caller probes for k, misses, and goes on to insert value v under k with
\* the slot it was given (headers and key/value lines of the parser).
ProbeMiss(k, v) ==
  /\ pc = "idle"
  /\ Probe(k).entry = 0
  /\ req' = [key |-> k, value |-> v, slot |-> Probe(k).slot]
  /\ pc' = "called"
  /\ UNCHANGED <<entries, cap, index, idx_cap, todo, st>>

\* Mutant: an insertion without the lookup before it.
FindMiss_Unchecked(k, v) ==
  /\ pc = "idle"
  /\ req' = [key |-> k, value |-> v, slot |-> NoSlot]
  /\ pc' = "called"
  /\ UNCHANGED <<entries, cap, index, idx_cap, todo, st>>

\* The same through find_h and insert_h: no slot (dotted keys, the builder).
FindMiss(k, v) ==
  /\ pc = "idle"
  /\ Find(k) = 0
  /\ req' = [key |-> k, value |-> v, slot |-> NoSlot]
  /\ pc' = "called"
  /\ UNCHANGED <<entries, cap, index, idx_cap, todo, st>>

\* Mutant: the index grows only when it is full.
Overloaded_WhenFull == Len(entries) + 1 > idx_cap

\* The load-factor test of teptris_dom_table_insert_slot.
Overloaded == (Len(entries) + 1) * 10 >= idx_cap * 7

LoadOk ==
  /\ pc = "called" /\ ~Overloaded
  /\ pc' = "grow"
  /\ UNCHANGED <<entries, cap, index, idx_cap, req, todo, st>>

\* Mutant: the caller's slot survives the rebuild.
RebuildBegin_KeepsSlot ==
  /\ pc = "called" /\ Overloaded
  /\ idx_cap' = IF idx_cap = 0 THEN IdxCap0 ELSE 2 * idx_cap
  /\ index' = [s \in 0 .. idx_cap' - 1 |-> 0]
  /\ todo' = 0
  /\ pc' = "rebuild"
  /\ UNCHANGED <<entries, cap, req, st>>

\* index_rebuild: a zeroed index of twice the size replaces the old one, and
\* the slot the caller resolved is forgotten.
RebuildBegin ==
  /\ pc = "called" /\ Overloaded
  /\ idx_cap' = IF idx_cap = 0 THEN IdxCap0 ELSE 2 * idx_cap
  /\ index' = [s \in 0 .. idx_cap' - 1 |-> 0]
  /\ req' = [req EXCEPT !.slot = NoSlot]
  /\ todo' = 0
  /\ pc' = "rebuild"
  /\ UNCHANGED <<entries, cap, st>>

\* Mutant: the home slot is overwritten.
IndexInsert_NoProbe(h, e) == index' = [index EXCEPT ![SlotAt(h, 0, idx_cap)] = e]

\* index_insert: entry number e goes to the first free slot of its walk.
IndexInsert(h, e) ==
  \E d \in 0 .. idx_cap - 1 :
    /\ FirstFree(index, idx_cap, h, d)
    /\ index' = [index EXCEPT ![SlotAt(h, d, idx_cap)] = e]

RebuildStep ==
  /\ pc = "rebuild" /\ todo < Len(entries)
  /\ IndexInsert(entries[todo + 1].hash, todo + 1)
  /\ todo' = todo + 1
  /\ UNCHANGED <<entries, cap, idx_cap, pc, req, st>>

\* Mutant: the loop's bound is one too large.
RebuildEnd_TooFar ==
  /\ pc = "rebuild" /\ todo > Len(entries)
  /\ pc' = "grow"
  /\ UNCHANGED <<entries, cap, index, idx_cap, req, todo, st>>

RebuildEnd ==
  /\ pc = "rebuild" /\ todo = Len(entries)
  /\ pc' = "grow"
  /\ UNCHANGED <<entries, cap, index, idx_cap, req, todo, st>>

\* The arena is exhausted: insert_slot returns before it touched anything but
\* a rebuilt index.
AllocFails ==
  /\ \/ pc = "called" /\ Overloaded
     \/ pc = "grow" /\ Len(entries) = cap
  /\ st' = "ERR_ALLOC" /\ pc' = "idle"
  /\ UNCHANGED <<entries, cap, index, idx_cap, req, todo>>

\* Room for the entry: grown in place or copied, the content is the same.
GrowEntries ==
  /\ pc = "grow"
  /\ cap' = IF Len(entries) = cap THEN (IF cap = 0 THEN EntCap0 ELSE 2 * cap)
                                  ELSE cap
  /\ pc' = "store"
  /\ UNCHANGED <<entries, index, idx_cap, req, todo, st>>

\* The entry is written and its number goes to the caller's slot when there is
\* one, else where a new walk ends.
Store ==
  /\ pc = "store"
  /\ LET h == KeyHash[req.key]
         n == Len(entries) + 1
     IN  /\ entries' = Append(entries, [key |-> req.key, value |-> req.value,
                                        hash |-> h])
         /\ IF req.slot # NoSlot
            THEN index' = [index EXCEPT ![req.slot] = n]
            ELSE IndexInsert(h, n)
  /\ pc' = "idle" /\ st' = "OK"
  /\ UNCHANGED <<cap, idx_cap, req, todo>>

InsertStep == LoadOk \/ RebuildBegin \/ RebuildStep \/ RebuildEnd \/ GrowEntries \/ Store

Next ==
  \/ \E k \in Key, v \in Value : ProbeMiss(k, v) \/ FindMiss(k, v)
  \/ AllocFails
  \/ InsertStep

Spec == Init /\ [][Next]_vars

\* A called insertion runs: the thread that called it executes nothing else.
FairSpec == Spec /\ WF_vars(InsertStep \/ AllocFails)

-------------------------------------------------------------------------------
(***************************************************************************)
(* Properties.                                                             *)
(***************************************************************************)
TypeOK ==
  /\ entries \in Seq(Entry)
  /\ cap \in Nat /\ Len(entries) <= cap
  /\ idx_cap \in Nat
  /\ index \in [0 .. idx_cap - 1 -> Nat]
  /\ pc \in {"idle", "called", "rebuild", "grow", "store"}
  /\ req \in [key : Key, value : Value, slot : {NoSlot} \cup Nat]
  /\ todo \in Nat
  /\ st \in {"OK", "ERR_ALLOC"}

\* How many entries the index must know: all, or those the rebuild has done.
Indexed == IF pc = "rebuild" THEN todo ELSE Len(entries)

\* Slots and the entries 1..len correspond one to one.
Exact(idx, n, len) ==
  /\ \A s \in 0 .. n - 1 : idx[s] <= len
  /\ \A e \in 1 .. len : \E s \in 0 .. n - 1 : idx[s] = e
  /\ \A s, t \in 0 .. n - 1 : idx[s] = idx[t] /\ idx[s] # 0 => s = t

\* Every slot between the home of an entry's hash and its own is taken.
Chained(idx, n, ents, len) ==
  \A e \in 1 .. len, d \in 0 .. n - 1 :
    idx[SlotAt(ents[e].hash, d, n)] = e =>
      \A c \in 0 .. d - 1 : idx[SlotAt(ents[e].hash, c, n)] # 0

\* Every indexed entry sits in exactly one slot and no slot points elsewhere
\* (a lost or doubled slot is a lost key or a phantom one).
IndexExact == Exact(index, idx_cap, Indexed)

\* No hole between the home slot of a hash and the slot of an entry with it:
\* what makes stopping at the first empty slot right.
NoHoles == Chained(index, idx_cap, entries, Indexed)

\* Every probing loop ends: the 7/10 load test keeps a slot empty, across
\* rebuilds and the early returns on allocation failure.
WalkEnds ==
  idx_cap > 0 => \E s \in 0 .. idx_cap - 1 : index[s] = 0

\* The slot a caller resolved is, when it is used, still the empty slot at the
\* end of that key's walk.
SlotStillFree ==
  pc # "idle" /\ req.slot # NoSlot =>
    \E d \in 0 .. idx_cap - 1 :
      /\ req.slot = SlotAt(KeyHash[req.key], d, idx_cap)
      /\ FirstFree(index, idx_cap, KeyHash[req.key], d)

\* A lookup between insertions returns the entry with that key and NULL when
\* there is none; the cached-hash probe of the header agrees with find_h.
FindIsLookup ==
  pc = "idle" =>
    \A k \in Key :
      /\ k \in Keys => /\ Find(k) \in 1 .. Len(entries)
                       /\ entries[Find(k)].key = k
      /\ k \notin Keys => Find(k) = 0
      /\ Probe(k).entry = Find(k)

\* No key is in the table twice.
KeysUnique ==
  \A i, j \in 1 .. Len(entries) : entries[i].key = entries[j].key => i = j

\* The hash kept with an entry, which rebuilds and probe_slot trust, is its
\* key's.
HashCached == \A i \in 1 .. Len(entries) : entries[i].hash = KeyHash[entries[i].key]

\* The key being inserted is not in the table.
ReqFresh == pc # "idle" => \A i \in 1 .. Len(entries) : entries[i].key # req.key

\* What the load test leaves behind: 10 * entries < 7 * slots, one entry more
\* while an insertion is past the test.
LoadBound ==
  /\ idx_cap = 0 => Len(entries) = 0 /\ req.slot = NoSlot
  /\ idx_cap # 0 => idx_cap >= 2 /\ Len(entries) * 10 < idx_cap * 7
  /\ pc \in {"rebuild", "grow", "store"} =>
        idx_cap # 0 /\ (Len(entries) + 1) * 10 < idx_cap * 7

RebuildInv == pc = "rebuild" => todo <= Len(entries) /\ req.slot = NoSlot

\* The entry about to be written has room.
RoomInv == pc = "store" => Len(entries) < cap

\* The inductive invariant of the proofs: the index is exact and has no holes,
\* also half way through a rebuild or after one step of an insertion failed.
IInv ==
  /\ TypeOK /\ LoadBound /\ RebuildInv /\ RoomInv /\ HashCached /\ KeysUnique /\ ReqFresh
  /\ IndexExact /\ NoHoles /\ SlotStillFree

\* The table is the ordered map its users see.
Pairs == [i \in 1 .. Len(entries) |-> <<entries[i].key, entries[i].value>>]

Map == INSTANCE OrderedMap WITH map <- Pairs

ImplementsMap == Map!Spec

\* Every insertion returns: no probing or rebuild loop runs forever.
InsertReturns == pc # "idle" ~> pc = "idle"
===============================================================================
