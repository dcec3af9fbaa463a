--------------------------- MODULE TableIndexProofs ---------------------------
(***************************************************************************)
(* The table of dom.c for every key set, every hash function and every     *)
(* first capacity: the index never loses an entry, every probing walk      *)
(* ends, lookups are right, and the table implements OrderedMap.           *)
(***************************************************************************)
EXTENDS TableIndex, NatRecursion, FiniteSetTheorems

-------------------------------------------------------------------------------
(***************************************************************************)
(* A walk of n steps visits every slot once.                               *)
(***************************************************************************)
LEMMA ModRange ==
  ASSUME NEW h \in Nat, NEW n \in Nat \ {0}
  PROVE  h % n \in 0 .. n - 1
OBVIOUS

\* A probe stays inside the index.
LEMMA SlotAtType ==
  ASSUME NEW h \in Nat, NEW n \in Nat \ {0}, NEW d \in 0 .. n - 1
  PROVE  SlotAt(h, d, n) \in 0 .. n - 1
BY ModRange DEF SlotAt

\* A walk of idx_cap steps meets every slot,
LEMMA SlotAtOnto ==
  ASSUME NEW h \in Nat, NEW n \in Nat \ {0}, NEW s \in 0 .. n - 1
  PROVE  \E d \in 0 .. n - 1 : SlotAt(h, d, n) = s
<1> DEFINE m == h % n
<1>1. m \in 0 .. n - 1 BY ModRange
<1> HIDE DEF m
<1>2. CASE s >= m
  <2>1. s - m \in 0 .. n - 1 /\ m + (s - m) = s BY <1>1, <1>2
  <2> QED BY <2>1 DEF SlotAt, m
<1>3. CASE s < m
  <2>1. s + n - m \in 0 .. n - 1 /\ m + (s + n - m) = s + n BY <1>1, <1>3
  <2>2. ~(s + n < n) /\ s + n - n = s OBVIOUS
  <2> QED BY <2>1, <2>2 DEF SlotAt, m
<1> QED BY <1>1, <1>2, <1>3

\* the ones of the current index in particular,
LEMMA SlotReached ==
  ASSUME idx_cap \in Nat \ {0}, NEW h \in Nat, NEW s \in 0 .. idx_cap - 1
  PROVE  \E d \in 0 .. idx_cap - 1 : SlotAt(h, d, idx_cap) = s
BY SlotAtOnto

\* and no slot twice.
LEMMA SlotAtInj ==
  ASSUME NEW h \in Nat, NEW n \in Nat \ {0},
         NEW c \in 0 .. n - 1, NEW d \in 0 .. n - 1,
         SlotAt(h, c, n) = SlotAt(h, d, n)
  PROVE  c = d
BY ModRange DEF SlotAt

-------------------------------------------------------------------------------
(***************************************************************************)
(* Putting entry number len + 1 into the first free slot of its walk keeps *)
(* the index exact and without holes: index_insert, and the store through  *)
(* a pre-resolved slot.                                                    *)
(***************************************************************************)
LEMMA PutKeeps ==
  ASSUME NEW n \in Nat \ {0}, NEW len \in Nat, NEW idx \in [0 .. n - 1 -> Nat],
         NEW ents \in Seq(Entry), len + 1 <= Len(ents),
         Exact(idx, n, len), Chained(idx, n, ents, len),
         NEW d \in 0 .. n - 1, FirstFree(idx, n, ents[len + 1].hash, d),
         NEW idx2, idx2 = [idx EXCEPT ![SlotAt(ents[len + 1].hash, d, n)] = len + 1]
  PROVE  /\ idx2 \in [0 .. n - 1 -> Nat]
         /\ Exact(idx2, n, len + 1)
         /\ Chained(idx2, n, ents, len + 1)
<1> DEFINE h == ents[len + 1].hash
           q == SlotAt(h, d, n)
<1>0. h \in Nat /\ \A e \in 1 .. len + 1 : ents[e].hash \in Nat
  <2>1. \A e \in 1 .. Len(ents) : ents[e] \in Entry OBVIOUS
  <2>2. \A e \in 1 .. len + 1 : e \in 1 .. Len(ents) OBVIOUS
  <2>3. \A e \in 1 .. len + 1 : ents[e] \in Entry BY <2>1, <2>2
  <2>4. \A x \in Entry : x.hash \in Nat BY DEF Entry
  <2>5. len + 1 \in 1 .. len + 1 OBVIOUS
  <2> QED BY <2>3, <2>4, <2>5
<1>1. q \in 0 .. n - 1
  BY <1>0, SlotAtType
<1>2. idx[q] = 0 /\ \A c \in 0 .. d - 1 : idx[SlotAt(h, c, n)] # 0
  BY DEF FirstFree
<1>3. idx2 = [idx EXCEPT ![q] = len + 1]
  OBVIOUS
<1> HIDE DEF q, h
<1>4. idx2 \in [0 .. n - 1 -> Nat] /\ idx2[q] = len + 1
      /\ \A s \in 0 .. n - 1 : s # q => idx2[s] = idx[s]
  <2>1. len + 1 \in Nat OBVIOUS
  <2> DEFINE S == 0 .. n - 1
  <2>2. idx \in [S -> Nat] /\ q \in S BY <1>1
  <2> HIDE DEF S
  <2>3. idx2 \in [S -> Nat] /\ idx2[q] = len + 1 /\ \A s \in S : s # q => idx2[s] = idx[s]
    BY <2>1, <2>2, <1>3
  <2> QED BY <2>3 DEF S
<1>5. Exact(idx2, n, len + 1)
  <2>1. \A s \in 0 .. n - 1 : idx2[s] <= len + 1
    BY <1>4 DEF Exact
  <2>2. ASSUME NEW e \in 1 .. len + 1
        PROVE  \E s \in 0 .. n - 1 : idx2[s] = e
    <3>1. CASE e = len + 1 BY <3>1, <1>1, <1>4
    <3>2. CASE e # len + 1
      <4>1. e \in 1 .. len BY <3>2
      <4>2. PICK s \in 0 .. n - 1 : idx[s] = e BY <4>1 DEF Exact
      <4>3. s # q BY <4>1, <4>2, <1>2
      <4> QED BY <4>2, <4>3, <1>4
    <3> QED BY <3>1, <3>2
  <2>3. ASSUME NEW s \in 0 .. n - 1, NEW t \in 0 .. n - 1, idx2[s] = idx2[t], idx2[s] # 0
        PROVE  s = t
    <3>1. idx[s] <= len /\ idx[t] <= len /\ idx[s] \in Nat /\ idx[t] \in Nat BY DEF Exact
    <3>2. (s = q) <=> (t = q) BY <2>3, <3>1, <1>4
    <3>3. CASE s # q /\ t # q
      BY <2>3, <3>3, <1>4 DEF Exact
    <3> QED BY <3>2, <3>3
  <2> QED BY <2>1, <2>2, <2>3 DEF Exact
<1>6. Chained(idx2, n, ents, len + 1)
  <2> SUFFICES ASSUME NEW e \in 1 .. len + 1, NEW b \in 0 .. n - 1,
                      idx2[SlotAt(ents[e].hash, b, n)] = e,
                      NEW c \in 0 .. b - 1
               PROVE  idx2[SlotAt(ents[e].hash, c, n)] # 0
    BY DEF Chained
  <2>1. c \in 0 .. n - 1 OBVIOUS
  <2>2. SlotAt(ents[e].hash, b, n) \in 0 .. n - 1 /\ SlotAt(ents[e].hash, c, n) \in 0 .. n - 1
    BY <1>0, <2>1, SlotAtType
  <2>3. idx[SlotAt(ents[e].hash, c, n)] # 0 => idx2[SlotAt(ents[e].hash, c, n)] # 0
    BY <2>2, <1>4
  <2>4. CASE e = len + 1
    <3>1. SlotAt(h, b, n) = q
      <4>1. SlotAt(h, b, n) \in 0 .. n - 1 /\ idx2[SlotAt(h, b, n)] = len + 1 BY <2>4, <2>2 DEF h
      <4>2. idx[SlotAt(h, b, n)] <= len /\ idx[SlotAt(h, b, n)] \in Nat BY <4>1 DEF Exact
      <4> QED BY SMTT(30), <4>1, <4>2, <1>4
    <3>2. b = d BY <3>1, <1>0, SlotAtInj DEF q
    <3> QED BY <3>2, <2>4, <2>3, <1>2 DEF h
  <2>5. CASE e # len + 1
    <3>1. e \in 1 .. len BY <2>5
    <3>2. SlotAt(ents[e].hash, b, n) # q BY <2>5, <1>4
    <3>3. idx[SlotAt(ents[e].hash, b, n)] = e BY <3>2, <2>2, <1>4
    <3>4. idx[SlotAt(ents[e].hash, c, n)] # 0 BY <3>1, <3>3 DEF Chained
    <3> QED BY <3>4, <2>3
  <2> QED BY <2>4, <2>5
<1> QED BY <1>4, <1>5, <1>6

(***************************************************************************)
(* With fewer entries than slots a slot is free (pigeonhole), and so a     *)
(* walk meets a first free slot.                                           *)
(***************************************************************************)
LEMMA SomeFree ==
  ASSUME NEW n \in Nat \ {0}, NEW len \in Nat, len < n,
         NEW idx \in [0 .. n - 1 -> Nat], Exact(idx, n, len)
  PROVE  \E s \in 0 .. n - 1 : idx[s] = 0
<1> SUFFICES ASSUME \A s \in 0 .. n - 1 : idx[s] # 0
             PROVE  FALSE
  OBVIOUS
<1>1. idx \in [0 .. n - 1 -> 1 .. len]
  BY DEF Exact
<1>2. /\ IsFiniteSet(0 .. n - 1) /\ Cardinality(0 .. n - 1) = n
      /\ IsFiniteSet(1 .. len) /\ Cardinality(1 .. len) = len
  <2>1. IsFiniteSet(0 .. n - 1) /\ Cardinality(0 .. n - 1) = IF 0 > n - 1 THEN 0 ELSE (n - 1) - 0 + 1
    BY FS_Interval
  <2>2. IsFiniteSet(1 .. len) /\ Cardinality(1 .. len) = IF 1 > len THEN 0 ELSE len - 1 + 1
    BY FS_Interval
  <2> QED BY <2>1, <2>2
<1>3. \E s, t \in 0 .. n - 1 : s # t /\ idx[s] = idx[t]
  <2> DEFINE S == 0 .. n - 1
             T == 1 .. len
  <2>1. IsFiniteSet(S) /\ IsFiniteSet(T) /\ Cardinality(T) < Cardinality(S) /\ idx \in [S -> T]
    BY <1>1, <1>2
  <2> HIDE DEF S, T
  <2>2. \E s, t \in S : s # t /\ idx[s] = idx[t]
    BY SMTT(30), <2>1, FS_PigeonHole
  <2> QED BY <2>2 DEF S
<1> QED BY <1>3 DEF Exact

-------------------------------------------------------------------------------
(***************************************************************************)
(* Lookups.  Between insertions both walks stop, and stop at the right     *)
(* place.                                                                  *)
(***************************************************************************)
LEMMA FreeExists ==
  ASSUME IInv, idx_cap # 0
  PROVE  /\ idx_cap \in Nat \ {0} /\ Indexed \in Nat /\ Indexed < idx_cap
         /\ \E s \in 0 .. idx_cap - 1 : index[s] = 0
<1>1. idx_cap \in Nat \ {0} BY DEF IInv, TypeOK
<1>2. Len(entries) \in Nat /\ Len(entries) < idx_cap BY <1>1 DEF IInv, TypeOK, LoadBound
<1>3. Indexed \in Nat /\ Indexed < idx_cap
  BY <1>1, <1>2 DEF IInv, Indexed, TypeOK, RebuildInv
<1>4. index \in [0 .. idx_cap - 1 -> Nat] /\ Exact(index, idx_cap, Indexed)
  BY DEF IInv, TypeOK, IndexExact
<1> QED BY <1>1, <1>3, <1>4, SomeFree

\* An entry's cached hash is the hash of its key.
LEMMA EntryFacts ==
  ASSUME IInv, NEW e \in 1 .. Len(entries)
  PROVE  /\ entries[e].key \in Key /\ entries[e].hash \in Nat
         /\ entries[e].hash = KeyHash[entries[e].key]
<1>1. entries[e] \in Entry BY DEF IInv, TypeOK
<1> QED BY <1>1 DEF Entry, IInv, HashCached

\* Every walk meets an empty slot: the load test leaves one.
LEMMA ReachFree ==
  ASSUME IInv, idx_cap # 0, NEW h \in Nat
  PROVE  \E d \in 0 .. idx_cap - 1 : index[SlotAt(h, d, idx_cap)] = 0
<1>1. PICK s \in 0 .. idx_cap - 1 : index[s] = 0 BY FreeExists
<1>2. PICK d \in 0 .. idx_cap - 1 : SlotAt(h, d, idx_cap) = s
  BY FreeExists, SlotAtOnto
<1> QED BY <1>1, <1>2

\* So it has a first one.
LEMMA FirstFreeExists ==
  ASSUME IInv, idx_cap # 0, NEW h \in Nat
  PROVE  \E d \in 0 .. idx_cap - 1 : FirstFree(index, idx_cap, h, d)
<1> DEFINE T == {d \in 0 .. idx_cap - 1 : index[SlotAt(h, d, idx_cap)] = 0}
<1>0. idx_cap \in Nat BY FreeExists
<1>1. T \in SUBSET Nat /\ T # {} BY <1>0, ReachFree
<1>2. PICK d \in T : \A c \in T : d <= c
  <2> HIDE DEF T
  <2> QED BY <1>1, LeastNat
<1>3. ASSUME NEW c \in 0 .. d - 1 PROVE index[SlotAt(h, c, idx_cap)] # 0
  <2>1. c \in 0 .. idx_cap - 1 /\ c < d BY <1>0, <1>2, <1>3
  <2> QED BY <2>1, <1>2
<1> QED BY <1>2, <1>3 DEF FirstFree

\* The loop of teptris_table_find stops.
LEMMA FindDistStops ==
  ASSUME IInv, idx_cap # 0, NEW k \in Key
  PROVE  /\ FindDist(k) \in 0 .. idx_cap - 1
         /\ FindStops(k, FindDist(k))
         /\ \A c \in 0 .. FindDist(k) - 1 : ~FindStops(k, c)
<1> DEFINE T == {d \in 0 .. idx_cap - 1 : FindStops(k, d)}
<1>0. idx_cap \in Nat /\ KeyHash[k] \in Nat BY FreeExists, KeyHashAssumption
<1>1. T \in SUBSET Nat /\ T # {} BY <1>0, ReachFree DEF FindStops
<1>2. PICK d \in T : \A c \in T : d <= c
  <2> HIDE DEF T
  <2> QED BY <1>1, LeastNat
<1>3. ASSUME NEW c \in 0 .. d - 1 PROVE ~FindStops(k, c)
  <2>1. c \in 0 .. idx_cap - 1 /\ c < d BY <1>0, <1>2, <1>3
  <2> QED BY <2>1, <1>2
<1> QED BY <1>2, <1>3 DEF FindDist

\* The loop of probe_slot stops.
LEMMA ProbeDistStops ==
  ASSUME IInv, idx_cap # 0, NEW k \in Key
  PROVE  /\ ProbeDist(k) \in 0 .. idx_cap - 1
         /\ ProbeStops(k, ProbeDist(k))
         /\ \A c \in 0 .. ProbeDist(k) - 1 : ~ProbeStops(k, c)
<1> DEFINE T == {d \in 0 .. idx_cap - 1 : ProbeStops(k, d)}
<1>0. idx_cap \in Nat /\ KeyHash[k] \in Nat BY FreeExists, KeyHashAssumption
<1>1. T \in SUBSET Nat /\ T # {} BY <1>0, ReachFree DEF ProbeStops
<1>2. PICK d \in T : \A c \in T : d <= c
  <2> HIDE DEF T
  <2> QED BY <1>1, LeastNat
<1>3. ASSUME NEW c \in 0 .. d - 1 PROVE ~ProbeStops(k, c)
  <2>1. c \in 0 .. idx_cap - 1 /\ c < d BY <1>0, <1>2, <1>3
  <2> QED BY <2>1, <1>2
<1> QED BY <1>2, <1>3 DEF ProbeDist

\* An entry is found before the walk of its key meets an empty slot.
LEMMA WalkMeets ==
  ASSUME IInv, pc = "idle", NEW k \in Key, NEW e \in 1 .. Len(entries),
         entries[e].key = k, NEW d \in 0 .. idx_cap - 1,
         index[SlotAt(KeyHash[k], d, idx_cap)] = 0
  PROVE  \E b \in 0 .. d - 1 : index[SlotAt(KeyHash[k], b, idx_cap)] = e
<1>0. idx_cap \in Nat \ {0} /\ KeyHash[k] \in Nat /\ Indexed = Len(entries)
  BY KeyHashAssumption DEF IInv, TypeOK, Indexed
<1>1. entries[e].hash = KeyHash[k] BY EntryFacts
<1>2. PICK s \in 0 .. idx_cap - 1 : index[s] = e
  BY <1>0 DEF IInv, IndexExact, Exact
<1>3. PICK b \in 0 .. idx_cap - 1 : SlotAt(KeyHash[k], b, idx_cap) = s
  BY <1>0, SlotReached
<1>4. \A c \in 0 .. b - 1 : index[SlotAt(KeyHash[k], c, idx_cap)] # 0
  BY <1>0, <1>1, <1>2, <1>3 DEF IInv, NoHoles, Chained
<1>5. b # d /\ d \notin 0 .. b - 1 BY <1>2, <1>3, <1>4
<1>6. b \in 0 .. d - 1 BY <1>0, <1>5
<1> QED BY <1>2, <1>3, <1>6

\* The index finds exactly the entries there are.
LEMMA FindCorrect ==
  ASSUME IInv, pc = "idle", NEW k \in Key
  PROVE  /\ \A e \in 1 .. Len(entries) : entries[e].key = k => Find(k) = e
         /\ k \notin Keys => Find(k) = 0
<1>1. CASE idx_cap = 0
  BY <1>1 DEF Find, IInv, LoadBound, TypeOK
<1>2. CASE idx_cap # 0
  <2> DEFINE d == FindDist(k)
             f == index[SlotAt(KeyHash[k], d, idx_cap)]
  <2>0. /\ idx_cap \in Nat \ {0} /\ KeyHash[k] \in Nat /\ Indexed = Len(entries)
        /\ Find(k) = f
    BY <1>2, FreeExists, KeyHashAssumption DEF IInv, TypeOK, Indexed, Find
  <2>1. d \in 0 .. idx_cap - 1 /\ FindStops(k, d) /\ \A c \in 0 .. d - 1 : ~FindStops(k, c)
    BY <1>2, FindDistStops
  <2> HIDE DEF d
  <2>2. f \in 0 .. Len(entries)
    <3>1. SlotAt(KeyHash[k], d, idx_cap) \in 0 .. idx_cap - 1 BY <2>0, <2>1, SlotAtType
    <3> QED BY <3>1, <2>0 DEF IInv, TypeOK, IndexExact, Exact
  <2>3. f = 0 \/ entries[f].key = k BY <2>1 DEF FindStops
  <2>4. ASSUME f = 0, NEW e \in 1 .. Len(entries), entries[e].key = k PROVE FALSE
    <3>1. PICK b \in 0 .. d - 1 : index[SlotAt(KeyHash[k], b, idx_cap)] = e
      BY <2>1, <2>4, WalkMeets
    <3>2. FindStops(k, b) BY <3>1, <2>4 DEF FindStops
    <3> QED BY <3>1, <3>2, <2>1
  <2>5. ASSUME f # 0, NEW e \in 1 .. Len(entries), entries[e].key = k PROVE f = e
    <3>1. f \in 1 .. Len(entries) /\ entries[f].key = k BY <2>2, <2>3, <2>5
    <3> HIDE DEF f
    <3> QED BY <3>1, <2>5 DEF IInv, KeysUnique
  <2>6. k \notin Keys => f = 0
    <3>1. f # 0 => f \in DOMAIN entries BY <2>2 DEF IInv, TypeOK
    <3> QED BY <3>1, <2>3 DEF Keys
  <2> QED BY <2>0, <2>4, <2>5, <2>6
<1> QED BY <1>1, <1>2

\* probe_slot agrees with find, and the slot of a miss is where the entry belongs.
LEMMA ProbeCorrect ==
  ASSUME IInv, pc = "idle", NEW k \in Key
  PROVE  /\ Probe(k).entry = Find(k)
         /\ Probe(k).slot \in {NoSlot} \cup Nat
         /\ idx_cap = 0 => Probe(k).slot = NoSlot
         /\ Probe(k).slot # NoSlot =>
              \E d \in 0 .. idx_cap - 1 :
                /\ Probe(k).slot = SlotAt(KeyHash[k], d, idx_cap)
                /\ FirstFree(index, idx_cap, KeyHash[k], d)
<1>1. CASE idx_cap = 0
  BY <1>1 DEF Probe, Find
<1>2. CASE idx_cap # 0
  <2> DEFINE d == ProbeDist(k)
             f == FindDist(k)
             q == SlotAt(KeyHash[k], d, idx_cap)
  <2>0. idx_cap \in Nat \ {0} /\ KeyHash[k] \in Nat /\ Indexed = Len(entries)
    BY <1>2, FreeExists, KeyHashAssumption DEF IInv, TypeOK, Indexed
  <2>1. d \in 0 .. idx_cap - 1 /\ ProbeStops(k, d) /\ \A c \in 0 .. d - 1 : ~ProbeStops(k, c)
    BY <1>2, ProbeDistStops
  <2>2. f \in 0 .. idx_cap - 1 /\ FindStops(k, f) /\ \A c \in 0 .. f - 1 : ~FindStops(k, c)
    BY <1>2, FindDistStops
  <2>3. Find(k) = index[SlotAt(KeyHash[k], f, idx_cap)] BY <1>2 DEF Find
  <2>4. Probe(k) = [entry |-> index[q], slot |-> IF index[q] = 0 THEN q ELSE NoSlot]
    BY <1>2 DEF Probe
  <2> HIDE DEF d, f
  <2>5. \A c \in 0 .. idx_cap - 1 : ProbeStops(k, c) <=> FindStops(k, c)
    <3> SUFFICES ASSUME NEW c \in 0 .. idx_cap - 1 PROVE ProbeStops(k, c) <=> FindStops(k, c)
      OBVIOUS
    <3> DEFINE e == index[SlotAt(KeyHash[k], c, idx_cap)]
    <3>1. SlotAt(KeyHash[k], c, idx_cap) \in 0 .. idx_cap - 1 BY <2>0, SlotAtType
    <3>2. e \in 0 .. Len(entries) BY <3>1, <2>0 DEF IInv, TypeOK, IndexExact, Exact
    <3>3. e # 0 => entries[e].hash = KeyHash[entries[e].key]
      <4>1. e # 0 => e \in 1 .. Len(entries) BY <3>2
      <4> HIDE DEF e
      <4> QED BY <4>1, EntryFacts
    <3> QED BY <3>3 DEF ProbeStops, FindStops
  <2>6. d = f
    <3>1. ~(d < f) BY <2>1, <2>2, <2>5
    <3>2. ~(f < d) BY <2>1, <2>2, <2>5
    <3> QED BY <3>1, <3>2, <2>0, <2>1, <2>2
  <2>7. q \in 0 .. idx_cap - 1 BY <2>0, <2>1, SlotAtType
  <2>8. index[q] = 0 => FirstFree(index, idx_cap, KeyHash[k], d)
    <3>1. \A c \in 0 .. d - 1 : index[SlotAt(KeyHash[k], c, idx_cap)] # 0
      BY <2>1 DEF ProbeStops
    <3> QED BY <3>1 DEF FirstFree
  <2>9. Probe(k).entry = Find(k) BY <2>3, <2>4, <2>6
  <2>10. /\ Probe(k).slot \in {NoSlot} \cup Nat
         /\ Probe(k).slot # NoSlot => index[q] = 0 /\ Probe(k).slot = q
    <3>1. Probe(k).slot = IF index[q] = 0 THEN q ELSE NoSlot BY <2>4
    <3>2. q \in Nat BY <2>7, <2>0
    <3> HIDE DEF q
    <3> QED BY <3>1, <3>2
  <2> QED BY <1>2, <2>1, <2>8, <2>9, <2>10
<1> QED BY <1>1, <1>2

-------------------------------------------------------------------------------
(***************************************************************************)
(* The properties the invariant implies.                                   *)
(***************************************************************************)
LEMMA IInvWalkEnds == IInv => WalkEnds
BY FreeExists DEF WalkEnds

\* FindIsLookup follows from the invariant.
LEMMA IInvFindIsLookup == IInv => FindIsLookup
<1> SUFFICES ASSUME IInv, pc = "idle", NEW k \in Key
             PROVE  /\ k \in Keys => /\ Find(k) \in 1 .. Len(entries)
                                     /\ entries[Find(k)].key = k
                    /\ k \notin Keys => Find(k) = 0
                    /\ Probe(k).entry = Find(k)
  BY DEF FindIsLookup
<1>1. k \notin Keys => Find(k) = 0 BY FindCorrect
<1>2. Probe(k).entry = Find(k) BY ProbeCorrect
<1>3. ASSUME k \in Keys
      PROVE  Find(k) \in 1 .. Len(entries) /\ entries[Find(k)].key = k
  <2>1. PICK e \in DOMAIN entries : entries[e].key = k BY <1>3 DEF Keys
  <2>2. e \in 1 .. Len(entries) BY <2>1 DEF IInv, TypeOK
  <2>3. Find(k) = e BY <2>1, <2>2, FindCorrect
  <2> QED BY <2>1, <2>2, <2>3
<1> QED BY <1>1, <1>2, <1>3

-------------------------------------------------------------------------------
(***************************************************************************)
(* The invariant is inductive: one lemma per action.                       *)
(***************************************************************************)
LEMMA InitInv == ASSUME Init PROVE IInv
<1>1. TypeOK
  BY NonEmpty DEF Init, TypeOK, NoReq, NoSlot
<1>2. Indexed = 0 /\ Len(entries) = 0 BY DEF Init, Indexed
<1>3. IndexExact /\ NoHoles
  BY <1>2 DEF Init, IndexExact, Exact, NoHoles, Chained
<1>4. LoadBound /\ RebuildInv /\ RoomInv /\ HashCached /\ KeysUnique /\ ReqFresh /\ SlotStillFree
  BY <1>2 DEF Init, LoadBound, RebuildInv, RoomInv, HashCached, KeysUnique, ReqFresh, SlotStillFree, NoReq
<1> QED BY <1>1, <1>3, <1>4 DEF IInv

\* A lookup that misses starts an insertion.
LEMMA MissInv ==
  ASSUME IInv, NEW k \in Key, NEW v \in Value, ProbeMiss(k, v) \/ FindMiss(k, v)
  PROVE  IInv'
<1>1. /\ pc = "idle" /\ pc' = "called" /\ Find(k) = 0
      /\ req'.key = k /\ req'.value = v
      /\ req'.slot = NoSlot \/ req'.slot = Probe(k).slot
      /\ req' \in [key : Key, value : Value, slot : {NoSlot} \cup Nat]
      /\ UNCHANGED <<entries, cap, index, idx_cap, todo, st>>
  <2>1. CASE ProbeMiss(k, v)
    BY <2>1, ProbeCorrect DEF ProbeMiss
  <2>2. CASE FindMiss(k, v)
    BY <2>2 DEF FindMiss
  <2> QED BY <2>1, <2>2
<1>2. TypeOK' BY <1>1 DEF IInv, TypeOK
<1>3. \A i \in 1 .. Len(entries) : entries[i].key # k
  <2>1. ASSUME NEW i \in 1 .. Len(entries), entries[i].key = k PROVE FALSE
    <3>1. Find(k) = i BY <1>1, <2>1, FindCorrect
    <3> QED BY <3>1, <1>1
  <2> QED BY <2>1
<1>4. ReqFresh' BY <1>1, <1>3 DEF ReqFresh
<1>5. SlotStillFree'
  BY <1>1, ProbeCorrect DEF SlotStillFree, FirstFree
<1>6. LoadBound' /\ RebuildInv' /\ RoomInv'
  BY <1>1, ProbeCorrect DEF IInv, LoadBound, RebuildInv, RoomInv
<1>7. HashCached' /\ KeysUnique' BY <1>1 DEF IInv, HashCached, KeysUnique
<1>8. Indexed' = Indexed BY <1>1 DEF Indexed
<1>9. IndexExact' /\ NoHoles'
  BY <1>1, <1>8 DEF IInv, IndexExact, NoHoles, Exact, Chained
<1> QED BY <1>2, <1>4, <1>5, <1>6, <1>7, <1>9 DEF IInv

\* The new index starts empty and large enough.
LEMMA RebuildBeginInv == ASSUME IInv, RebuildBegin PROVE IInv'
<1> DEFINE n == IF idx_cap = 0 THEN IdxCap0 ELSE 2 * idx_cap
<1>0. n \in Nat \ {0} /\ n >= 2
  BY CapAssumption DEF IInv, TypeOK, LoadBound
<1>1. /\ pc = "called" /\ pc' = "rebuild" /\ idx_cap' = n
      /\ index' = [s \in 0 .. n - 1 |-> 0]
      /\ req' = [req EXCEPT !.slot = NoSlot] /\ todo' = 0
      /\ UNCHANGED <<entries, cap, st>>
  BY DEF RebuildBegin
<1>2. (Len(entries) + 1) * 10 < n * 7
  <2>1. CASE idx_cap = 0
    BY <2>1, CapAssumption DEF IInv, LoadBound
  <2>2. CASE idx_cap # 0
    <3>1. idx_cap \in Nat /\ Len(entries) \in Nat /\ idx_cap >= 2 /\ Len(entries) * 10 < idx_cap * 7
      BY <2>2 DEF IInv, TypeOK, LoadBound
    <3> QED BY <3>1, <2>2
  <2> QED BY <2>1, <2>2
<1> HIDE DEF n
<1>3. req'.slot = NoSlot /\ req'.key = req.key
      /\ req' \in [key : Key, value : Value, slot : {NoSlot} \cup Nat]
  BY <1>1 DEF IInv, TypeOK
<1>4. TypeOK'
  BY <1>0, <1>1, <1>3 DEF IInv, TypeOK
<1>5. Len(entries) \in Nat /\ Indexed' = 0 BY <1>1 DEF Indexed, IInv, TypeOK
<1>6. IndexExact' /\ NoHoles'
  BY <1>0, <1>1, <1>5 DEF IndexExact, Exact, NoHoles, Chained
<1>7. LoadBound' /\ RebuildInv' /\ RoomInv'
  BY <1>0, <1>1, <1>2, <1>3, <1>5 DEF LoadBound, RebuildInv, RoomInv
<1>8. HashCached' /\ KeysUnique' /\ ReqFresh' /\ SlotStillFree'
  BY <1>1, <1>3 DEF IInv, HashCached, KeysUnique, ReqFresh, SlotStillFree
<1> QED BY <1>4, <1>6, <1>7, <1>8 DEF IInv

\* One entry is put back into the new index.
LEMMA RebuildStepInv == ASSUME IInv, RebuildStep PROVE IInv'
<1>1. /\ pc = "rebuild" /\ todo < Len(entries) /\ todo' = todo + 1
      /\ UNCHANGED <<entries, cap, idx_cap, pc, req, st>>
      /\ todo \in Nat /\ Len(entries) \in Nat
  BY DEF RebuildStep, IInv, TypeOK
<1>2. PICK d \in 0 .. idx_cap - 1 :
        /\ FirstFree(index, idx_cap, entries[todo + 1].hash, d)
        /\ index' = [index EXCEPT ![SlotAt(entries[todo + 1].hash, d, idx_cap)] = todo + 1]
  BY DEF RebuildStep, IndexInsert
<1>3. /\ idx_cap \in Nat \ {0} /\ index \in [0 .. idx_cap - 1 -> Nat]
      /\ entries \in Seq(Entry) /\ todo + 1 <= Len(entries)
      /\ Exact(index, idx_cap, todo) /\ Chained(index, idx_cap, entries, todo)
  BY <1>1 DEF IInv, TypeOK, LoadBound, IndexExact, NoHoles, Indexed
<1>4. /\ index' \in [0 .. idx_cap - 1 -> Nat]
      /\ Exact(index', idx_cap, todo + 1) /\ Chained(index', idx_cap, entries, todo + 1)
  BY <1>1, <1>2, <1>3, PutKeeps
<1>5. Indexed' = todo + 1 BY <1>1 DEF Indexed
<1>6. IndexExact' /\ NoHoles' BY <1>1, <1>4, <1>5 DEF IndexExact, NoHoles
<1>7. TypeOK' BY <1>1, <1>4 DEF IInv, TypeOK
<1>8. LoadBound' /\ RebuildInv' /\ RoomInv' /\ HashCached' /\ KeysUnique' /\ ReqFresh' /\ SlotStillFree'
  BY <1>1 DEF IInv, LoadBound, RebuildInv, RoomInv, HashCached, KeysUnique, ReqFresh, SlotStillFree
<1> QED BY <1>6, <1>7, <1>8 DEF IInv

\* The steps that leave entries and index alone.
LEMMA QuietInv ==
  ASSUME IInv, LoadOk \/ RebuildEnd \/ AllocFails \/ GrowEntries
  PROVE  IInv'
<1>1. /\ UNCHANGED <<entries, index, idx_cap, req, todo>>
      /\ cap' \in Nat /\ Len(entries) <= cap'
      /\ st' \in {"OK", "ERR_ALLOC"} /\ pc' \in {"idle", "grow", "store"}
      /\ pc' # "idle" => pc # "idle" /\ idx_cap # 0 /\ (Len(entries) + 1) * 10 < idx_cap * 7
      /\ pc = "rebuild" => todo = Len(entries)
      /\ pc' = "store" => Len(entries) < cap'
  <2>1. CASE LoadOk
    <3>1. Len(entries) \in Nat /\ idx_cap \in Nat /\ ~((Len(entries) + 1) * 10 >= idx_cap * 7)
      BY <2>1 DEF LoadOk, Overloaded, IInv, TypeOK
    <3>2. idx_cap # 0 /\ (Len(entries) + 1) * 10 < idx_cap * 7 BY <3>1
    <3> QED BY <2>1, <3>2 DEF LoadOk, IInv, TypeOK
  <2>2. CASE RebuildEnd BY <2>2 DEF RebuildEnd, IInv, TypeOK, LoadBound
  <2>3. CASE AllocFails BY <2>3 DEF AllocFails, IInv, TypeOK
  <2>4. CASE GrowEntries
    <3>1. cap' \in Nat /\ Len(entries) < cap' /\ Len(entries) <= cap'
      BY <2>4, CapAssumption DEF GrowEntries, IInv, TypeOK
    <3> QED BY <2>4, <3>1 DEF GrowEntries, IInv, TypeOK, LoadBound
  <2> QED BY <2>1, <2>2, <2>3, <2>4
<1>2. TypeOK' BY <1>1 DEF IInv, TypeOK
<1>3. Indexed' = Indexed BY <1>1 DEF Indexed
<1>4. IndexExact' /\ NoHoles' BY <1>1, <1>3 DEF IInv, IndexExact, NoHoles, Exact, Chained
<1>5. LoadBound' /\ RebuildInv' /\ RoomInv' BY <1>1 DEF IInv, LoadBound, RebuildInv, RoomInv
<1>6. HashCached' /\ KeysUnique' /\ ReqFresh' /\ SlotStillFree'
  BY <1>1 DEF IInv, HashCached, KeysUnique, ReqFresh, SlotStillFree, FirstFree
<1> QED BY <1>2, <1>4, <1>5, <1>6 DEF IInv

\* The entry is appended and its slot set.
LEMMA StoreInv == ASSUME IInv, Store PROVE IInv'
<1> DEFINE h == KeyHash[req.key]
           len == Len(entries)
           e == [key |-> req.key, value |-> req.value, hash |-> h]
<1>1. /\ pc = "store" /\ pc' = "idle" /\ st' = "OK"
      /\ entries' = Append(entries, e)
      /\ UNCHANGED <<cap, idx_cap, req, todo>>
  BY DEF Store
<1>2. /\ idx_cap \in Nat \ {0} /\ index \in [0 .. idx_cap - 1 -> Nat]
      /\ entries \in Seq(Entry) /\ len \in Nat /\ (len + 1) * 10 < idx_cap * 7
      /\ Exact(index, idx_cap, len) /\ Chained(index, idx_cap, entries, len)
  BY <1>1 DEF IInv, TypeOK, LoadBound, IndexExact, NoHoles, Indexed
<1>3. h \in Nat /\ e \in Entry /\ req.key \in Key
  BY KeyHashAssumption DEF IInv, TypeOK, Entry
<1>4. /\ entries' \in Seq(Entry) /\ Len(entries') = len + 1
      /\ entries'[len + 1] = e
      /\ \A i \in 1 .. len : entries'[i] = entries[i]
  <2> HIDE DEF e
  <2> QED BY <1>1, <1>2, <1>3
<1>5. e.hash = h /\ e.key = req.key OBVIOUS
<1>6. PICK d \in 0 .. idx_cap - 1 :
        /\ FirstFree(index, idx_cap, h, d)
        /\ index' = [index EXCEPT ![SlotAt(h, d, idx_cap)] = len + 1]
  <2>1. CASE req.slot # NoSlot
    <3>1. index' = [index EXCEPT ![req.slot] = len + 1] BY <2>1 DEF Store
    <3> QED BY <1>1, <2>1, <3>1 DEF IInv, SlotStillFree
  <2>2. CASE req.slot = NoSlot
    BY <2>2 DEF Store, IndexInsert
  <2> QED BY <2>1, <2>2
<1> HIDE DEF h, e
<1>7. Chained(index, idx_cap, entries', len)
  BY <1>2, <1>4 DEF Chained
<1>8. /\ index' \in [0 .. idx_cap - 1 -> Nat]
      /\ Exact(index', idx_cap, len + 1) /\ Chained(index', idx_cap, entries', len + 1)
  <2>1. FirstFree(index, idx_cap, entries'[len + 1].hash, d)
        /\ index' = [index EXCEPT ![SlotAt(entries'[len + 1].hash, d, idx_cap)] = len + 1]
    BY <1>4, <1>5, <1>6
  <2>2. len + 1 <= Len(entries') BY <1>2, <1>4
  <2> HIDE DEF len
  <2> QED BY <1>2, <1>4, <1>7, <2>1, <2>2, PutKeeps
<1>9. Indexed' = len + 1 BY <1>1, <1>4 DEF Indexed
<1>10. IndexExact' /\ NoHoles' BY <1>1, <1>8, <1>9 DEF IndexExact, NoHoles
<1>11. TypeOK'
  <2>1. len + 1 <= cap
    BY <1>1 DEF IInv, TypeOK, RoomInv
  <2> QED BY <1>1, <1>4, <1>8, <2>1 DEF IInv, TypeOK
<1>12. LoadBound' BY <1>1, <1>2, <1>4 DEF IInv, LoadBound
<1>13. RebuildInv' /\ RoomInv' /\ ReqFresh' /\ SlotStillFree' BY <1>1 DEF RebuildInv, RoomInv, ReqFresh, SlotStillFree
<1>14. HashCached'
  <2> SUFFICES ASSUME NEW i \in 1 .. len + 1
               PROVE  entries'[i].hash = KeyHash[entries'[i].key]
    BY <1>4 DEF HashCached
  <2>1. CASE i \in 1 .. len BY <2>1, <1>4 DEF IInv, HashCached
  <2>2. CASE i = len + 1 BY <2>2, <1>4, <1>5 DEF h
  <2> QED BY SMTT(30), <2>1, <2>2, <1>2
<1>15. KeysUnique'
  <2>1. \A i \in 1 .. len : entries'[i].key = entries[i].key /\ entries[i].key # req.key
    BY <1>1, <1>4 DEF IInv, ReqFresh
  <2>2. entries'[len + 1].key = req.key BY <1>4, <1>5
  <2>3. \A i \in 1 .. len + 1 : i \in 1 .. len \/ i = len + 1 BY <1>2
  <2>4. \A i, j \in 1 .. len : entries[i].key = entries[j].key => i = j BY DEF IInv, KeysUnique
  <2>5. \A i, j \in 1 .. len + 1 : entries'[i].key = entries'[j].key => i = j
    <3> HIDE DEF len
    <3> QED BY <2>1, <2>2, <2>3, <2>4
  <2> QED BY <2>5, <1>4 DEF KeysUnique
<1> QED BY <1>10, <1>11, <1>12, <1>13, <1>14, <1>15 DEF IInv

-------------------------------------------------------------------------------
\* Every step keeps the invariant.
LEMMA NextInv == ASSUME IInv, [Next]_vars PROVE IInv'
<1>1. CASE \E k \in Key, v \in Value : ProbeMiss(k, v) \/ FindMiss(k, v)
  BY <1>1, MissInv
<1>2. CASE RebuildBegin BY <1>2, RebuildBeginInv
<1>3. CASE RebuildStep BY <1>3, RebuildStepInv
<1>4. CASE LoadOk \/ RebuildEnd \/ AllocFails \/ GrowEntries
  BY <1>4, QuietInv
<1>5. CASE Store BY <1>5, StoreInv
<1>6. CASE UNCHANGED vars
  <2>1. UNCHANGED <<entries, cap, index, idx_cap, pc, req, todo, st>> BY <1>6 DEF vars
  <2>2. Indexed' = Indexed BY <2>1 DEF Indexed
  <2>3. IndexExact' /\ NoHoles' BY <2>1, <2>2 DEF IInv, IndexExact, NoHoles, Exact, Chained
  <2>4. TypeOK' /\ LoadBound' /\ RebuildInv' /\ RoomInv'
    BY <2>1 DEF IInv, TypeOK, LoadBound, RebuildInv, RoomInv
  <2>5. HashCached' /\ KeysUnique' /\ ReqFresh' /\ SlotStillFree'
    BY <2>1 DEF IInv, HashCached, KeysUnique, ReqFresh, SlotStillFree, FirstFree
  <2> QED BY <2>3, <2>4, <2>5 DEF IInv
<1> QED BY <1>1, <1>2, <1>3, <1>4, <1>5, <1>6 DEF Next, InsertStep

\* The index stays consistent with the entries: through every insertion, every
\* rebuild and every allocation failure of insert_slot.
THEOREM TableInvariant == Spec => []IInv
<1>1. Init => IInv BY InitInv
<1>2. IInv /\ [Next]_vars => IInv' BY NextInv
<1> QED BY <1>1, <1>2, PTL DEF Spec

\* The typing of the table's fields.
THEOREM TypeCorrect == Spec => []TypeOK
<1>1. IInv => TypeOK BY DEF IInv
<1> QED BY <1>1, TableInvariant, PTL

\* Every probing loop of dom.c finds an empty slot and ends, whatever the keys
\* hash to: the load test of insert_slot is enough.
THEOREM ProbingEnds == Spec => []WalkEnds
BY IInvWalkEnds, TableInvariant, PTL

\* The slot a caller got from probe_slot is still the right one when
\* insert_slot writes it, or has been dropped by the rebuild.
THEOREM SlotNeverStale == Spec => []SlotStillFree
<1>1. IInv => SlotStillFree BY DEF IInv
<1> QED BY <1>1, TableInvariant, PTL

\* find_h and probe_slot return the entry of the key, or NULL when the table
\* has none: for any hash function, however keys collide.
THEOREM LookupCorrect == Spec => []FindIsLookup
BY IInvFindIsLookup, TableInvariant, PTL

-------------------------------------------------------------------------------
(***************************************************************************)
(* Refinement.  Only Store changes what a user of the table sees.          *)
(***************************************************************************)
LEMMA StoreIsInsert ==
  ASSUME IInv, Store
  PROVE  Map!Insert(req.key, req.value)
<1> DEFINE e == [key |-> req.key, value |-> req.value, hash |-> KeyHash[req.key]]
           len == Len(entries)
<1>1. pc = "store" /\ entries' = Append(entries, e) BY DEF Store
<1>2. entries \in Seq(Entry) /\ len \in Nat /\ req.key \in Key /\ req.value \in Value
  BY DEF IInv, TypeOK
<1>3. e \in Entry BY <1>2, KeyHashAssumption DEF Entry
<1>4. /\ Len(entries') = len + 1 /\ entries'[len + 1] = e
      /\ \A i \in 1 .. len : entries'[i] = entries[i]
  <2> HIDE DEF e
  <2> QED BY <1>1, <1>2, <1>3
<1>5. e.key = req.key /\ e.value = req.value OBVIOUS
<1> HIDE DEF e
<1>6. Pairs \in Seq(Key \X Value) /\ Len(Pairs) = len
  <2>1. \A i \in 1 .. len : entries[i] \in Entry BY <1>2
  <2>2. \A x \in Entry : x.key \in Key /\ x.value \in Value BY DEF Entry
  <2>3. \A i \in 1 .. len : <<entries[i].key, entries[i].value>> \in Key \X Value
    BY <2>1, <2>2
  <2> QED BY <2>3, <1>2 DEF Pairs
<1>7. Pairs' = [i \in 1 .. len + 1 |-> <<entries'[i].key, entries'[i].value>>]
  BY <1>4 DEF Pairs
<1>8. Append(Pairs, <<req.key, req.value>>) =
        [i \in 1 .. len + 1 |-> IF i = len + 1 THEN <<req.key, req.value>> ELSE Pairs[i]]
  BY <1>2, <1>6
<1>9. \A i \in 1 .. len + 1 :
        <<entries'[i].key, entries'[i].value>> =
          IF i = len + 1 THEN <<req.key, req.value>> ELSE Pairs[i]
  <2> SUFFICES ASSUME NEW i \in 1 .. len + 1
               PROVE  <<entries'[i].key, entries'[i].value>> =
                        IF i = len + 1 THEN <<req.key, req.value>> ELSE Pairs[i]
    OBVIOUS
  <2>1. CASE i = len + 1 BY <2>1, <1>4, <1>5
  <2>2. CASE i # len + 1
    <3>1. i \in 1 .. len BY <2>2, <1>2
    <3>2. Pairs[i] = <<entries[i].key, entries[i].value>> BY <3>1 DEF Pairs
    <3> QED BY <2>2, <3>1, <3>2, <1>4
  <2> QED BY <2>1, <2>2
<1>10. Pairs' = Append(Pairs, <<req.key, req.value>>)
  BY <1>7, <1>8, <1>9
<1>11. req.key \notin Map!KeysOf(Pairs)
  <2> SUFFICES ASSUME NEW i \in DOMAIN Pairs, Pairs[i][1] = req.key PROVE FALSE
    BY DEF Map!KeysOf
  <2>1. i \in 1 .. len /\ entries[i].key = req.key BY DEF Pairs
  <2> QED BY <2>1, <1>1 DEF IInv, ReqFresh
<1> QED BY <1>10, <1>11 DEF Map!Insert

\* Only Store changes the map; every other step stutters.
LEMMA StepRefines ==
  ASSUME IInv, [Next]_vars
  PROVE  [Map!Next]_Pairs
<1>1. CASE Store
  <2>1. req.key \in Key /\ req.value \in Value BY DEF IInv, TypeOK
  <2> QED BY <1>1, <2>1, StoreIsInsert DEF Map!Next
<1>2. CASE UNCHANGED entries BY <1>2 DEF Pairs
<1>3. Store \/ UNCHANGED entries
  BY DEF Next, InsertStep, vars, ProbeMiss, FindMiss, AllocFails, LoadOk, RebuildBegin,
         RebuildStep, RebuildEnd, GrowEntries
<1> QED BY <1>1, <1>2, <1>3

\* The table of dom.c implements the ordered map: an insertion appends one
\* pair under a new key, and nothing else is ever visible.
THEOREM TableRefinesMap == Spec => ImplementsMap
<1>1. Init => Map!Init
  BY DEF Init, Map!Init, Pairs
<1>2. IInv /\ [Next]_vars => [Map!Next]_Pairs
  BY StepRefines
<1> QED BY <1>1, <1>2, TableInvariant, PTL DEF Spec, ImplementsMap, Map!Spec
===============================================================================
