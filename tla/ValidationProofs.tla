---------------------------- MODULE ValidationProofs ---------------------------
(***************************************************************************)
(* Proofs about what the validator runs on: DynamicScopes, for schemas and *)
(* instances of any size, and RegexSearch, for any automaton and any text. *)
(*                                                                         *)
(* The array of scope entries is cut in segments, one for each open val(): *)
(* the anchors of its object, or nothing once a reference of its own has   *)
(* come back.  Where every segment is whole and every resource was entered *)
(* at its root, the first segment with an entry of a resource holds all of *)
(* them, in document order; that is what scope_resolve relies on.  Calls   *)
(* that are no references go down the schema, so that between two          *)
(* references the numbers of the objects rise.                             *)
(***************************************************************************)
EXTENDS DynamicScopes, RegexSearch, NatRecursion, FiniteSetTheorems

Call == {"root", "member", "place", "trial", "ref", "dynref"}
Entry == [node : Object, res : Object, owner : Object]
TaskType == [call : {"member", "place", "ref", "dynref"}, n : 0 .. Size]
FrameType ==
  [n : Object, call : Call, base : Nat, saved : Nat, left : BOOLEAN, todo : Seq(TaskType)]
SegSet == {Seg(call, n) : call \in Call, n \in Object}

\* What an object's own scope holds: the anchors in and below it, in document
\* order, each with its resource.
OwnScope(s, n, own) ==
  /\ own \in Seq(Entry)
  /\ \A j \in 1 .. Len(own) : /\ own[j].node \in s.anchor /\ n \in Line(s.up, own[j].node)
                              /\ own[j].res = s.res_id[own[j].node] /\ own[j].owner = n
  /\ \A m \in s.anchor : n \in Line(s.up, m) => \E j \in 1 .. Len(own) : own[j].node = m
  /\ \A j, k \in 1 .. Len(own) : j < k => own[j].node < own[k].node

\* What compilation promises of a schema.  An object between a node and the
\* root of its resource is of that resource.
SchemaOK(s) ==
  /\ IsForest(Size, s.up)
  /\ s.anchor \subseteq Object /\ s.ref \in [Object -> 0 .. Size] /\ s.ref_only \in BOOLEAN
  /\ s.dyn # 0 => s.anchor # {}
  /\ s.res_id \in [Object -> Object]
  /\ \A n \in Object : s.res_id[n] \in Line(s.up, n) /\ s.res_id[s.res_id[n]] = s.res_id[n]
  /\ \A m, n \in Object : n \in Line(s.up, m) /\ s.res_id[m] < n => s.res_id[n] = s.res_id[m]
  /\ \A n \in Object : s.anchor # {} => s.dynamic_ref_target[n] \in Object
  /\ DOMAIN s.self_scope = Object
  /\ \A n \in Object : OwnScope(s, n, s.self_scope[n])

\* The tasks of object n: members and subschemas in place lie below it.
TaskOK(t, n) ==
  /\ t.call \in {"member", "place"} => t.n \in Object /\ n < t.n
  /\ t.call = "ref" => t.n \in Object
  /\ t.call = "dynref" => schema.anchor # {}

TasksFit(ts, n) == ts \in Seq(TaskType) /\ \A j \in 1 .. Len(ts) : TaskOK(ts[j], n)

FramesOK(stk) ==
  /\ stk \in Seq(FrameType)
  /\ \A i \in 1 .. Len(stk) : /\ TasksFit(stk[i].todo, stk[i].n)
                              /\ stk[i].call = "root" <=> i = 1

\* The references among the first i calls.
RefsUpTo(stk, i) == {j \in 1 .. i : IsRef(stk[j].call)}

\* References are counted; from one to the next the objects' numbers rise.
DepthOK(stk, d) ==
  /\ d = Cardinality(RefsUpTo(stk, Len(stk))) /\ d <= RefCap
  /\ \A i \in 1 .. Len(stk) : i <= Cardinality(RefsUpTo(stk, i)) * Size + stk[i].n

\* The segments of the scope entries.
EndOf(stk, sc, k) == IF k = Len(stk) THEN Len(sc) ELSE stk[k + 1].base
SegmentOK(stk, sc, k) ==
  IF stk[k].left THEN EndOf(stk, sc, k) = stk[k].base
  ELSE LET own == schema.self_scope[stk[k].n]
       IN  /\ EndOf(stk, sc, k) = stk[k].base + Len(own)
           /\ \A j \in 1 .. Len(own) : sc[stk[k].base + j] = own[j]
ScopesOK(stk, sc) ==
  /\ sc \in Seq(Entry)
  /\ stk = << >> => sc = << >>
  /\ stk # << >> => stk[1].base = 0
  /\ \A k \in 1 .. Len(stk) : SegmentOK(stk, sc, k)

\* The segments that are shown, or that a trial may show again, were written.
SlotsOK(stk, sl, d) ==
  /\ sl \in [1 .. SPathCap -> SegSet \cup {NoSeg}] /\ d \in 0 .. SPathCap
  /\ \A i \in 1 .. d : sl[i] \in SegSet
  /\ \A k \in 1 .. Len(stk) : /\ stk[k].saved \in 0 .. SPathCap
                              /\ \A i \in 1 .. stk[k].saved : sl[i] \in SegSet

\* Until the paths are cut, sdepth rises by one with a call that pushes.
SegsOf(call) == IF call \in {"root", "trial"} THEN 0 ELSE 1
ChainOK(stk, d) ==
  \A k \in 1 .. Len(stk) :
     stk[k].saved + SegsOf(stk[k].call) = IF k = Len(stk) THEN d ELSE stk[k + 1].saved

\* The paths.
PathsOK ==
  /\ path \in Seq(Object) /\ SlotsOK(stack, ssegs, sdepth) /\ PathUnlessCut
  /\ ~cut => ChainOK(stack, sdepth)

IInv ==
  /\ SchemaOK(schema) /\ cut \in BOOLEAN
  /\ FramesOK(stack) /\ DepthOK(stack, ref_depth) /\ ScopesOK(stack, scopes)
  /\ PathsOK

-------------------------------------------------------------------------------
(***************************************************************************)
(* Compilation.                                                            *)
(***************************************************************************)
\* Line is the line of a forest.
LEMMA LineIsAscent ==
  ASSUME NEW up, NEW i
  PROVE  Line(up, i) = Ascent(up, i)[Size]
BY DEF Line, Ascent, Ascends

\* The members of a set are listed in document order.
LEMMA InOrderLists ==
  ASSUME NEW S
  PROVE  Lists(InOrder(S), S, Size)
<1>1. Size \in Nat
  BY ScopeAssumption
<1>2. InOrder(S) = Ordered(S, Size)
  BY DEF InOrder, Ordered, Orders
<1> QED
  BY <1>1, <1>2, OrderedLists

\* The lines of a schema.
LEMMA LineOf ==
  ASSUME NEW up, IsForest(Size, up)
  PROVE  /\ \A i \in Object : Line(up, i) \subseteq Object /\ i \in Line(up, i)
         /\ \A i \in Object : \A m \in Line(up, i) : m <= i /\ Line(up, m) \subseteq Line(up, i)
         /\ \A i \in Object : \A m, k \in Line(up, i) : m <= k => m \in Line(up, k)
         /\ \A i \in Object : \E r \in Line(up, i) : up[r] = 0
<1>1. PICK L : L = [j \in 1 .. Size |-> Ascent(up, j)[Size]]
  OBVIOUS
<1>2. Size \in Nat
  BY ScopeAssumption
<1>3. \A i \in Object : Line(up, i) = L[i]
  BY <1>1, LineIsAscent DEF Object
<1>4. ASSUME NEW i \in 1 .. Size
      PROVE  /\ L[i] \subseteq 1 .. i /\ i \in L[i]
             /\ \A m \in L[i] : L[m] \subseteq L[i]
             /\ \A m, k \in L[i] : m <= k => m \in L[k]
             /\ \E r \in L[i] : up[r] = 0
  BY <1>1, <1>2, <1>4, LineFacts
<1>5. \A i \in Object : /\ L[i] \subseteq 1 .. i /\ i \in L[i]
                        /\ \A m \in L[i] : L[m] \subseteq L[i]
                        /\ \A m, k \in L[i] : m <= k => m \in L[k]
                        /\ \E r \in L[i] : up[r] = 0
  BY <1>4 DEF Object
<1>6. \A i \in Object : \A m \in L[i] : m <= i /\ m \in Object
  BY <1>2, <1>5 DEF Object
<1> QED
  BY <1>3, <1>5, <1>6

\* A document.
Document(d) ==
  /\ d.up \in Trees /\ d.id \subseteq Object /\ Root \in d.id /\ d.anchor \subseteq Object
  /\ d.ref \in [Object -> 0 .. Size] /\ d.ref_only \in BOOLEAN /\ (d.dyn # 0 => d.anchor # {})
  /\ d.anchor # {} => d.first \in d.anchor

\* In document order an object comes after the one above it.
LEMMA TreeIsForest ==
  ASSUME NEW up \in Trees
  PROVE  IsForest(Size, up) /\ \A i \in Object : up[i] = 0 <=> i = Root
<1>1. Size \in Nat /\ Size >= 1 /\ up \in [1 .. Size -> 0 .. Size - 1]
  BY ScopeAssumption DEF Trees, Object
<1>2. up \in [1 .. Size -> 0 .. Size]
  BY <1>1
<1>3. \A i \in 1 .. Size : IF i = Root THEN up[i] = 0 ELSE up[i] # 0 /\ up[i] < i
  BY DEF Trees, Object
<1>4. \A i \in 1 .. Size : up[i] < i
  BY <1>3 DEF Root
<1> QED
  BY <1>1, <1>2, <1>3, <1>4 DEF IsForest, Object

\* The resource of an object: the nearest $id on its line.
LEMMA ResIs ==
  ASSUME NEW up \in Trees, NEW id \in SUBSET Object, Root \in id, NEW res,
         res = [n \in Object |-> Greatest(Line(up, n) \cap id)]
  PROVE  /\ res \in [Object -> Object]
         /\ \A n \in Object : res[n] \in Line(up, n) \cap id
         /\ \A n \in Object : \A r \in Line(up, n) \cap id : r <= res[n]
<1>1. ASSUME NEW n \in Object
      PROVE  /\ res[n] \in Line(up, n) \cap id
             /\ \A r \in Line(up, n) \cap id : r <= res[n]
  <2>1. PICK S : S = Line(up, n) \cap id
    OBVIOUS
  <2>2. IsForest(Size, up) /\ \A i \in Object : up[i] = 0 <=> i = Root
    BY TreeIsForest
  <2>3. Line(up, n) \subseteq Object /\ \E r \in Line(up, n) : up[r] = 0
    BY <2>2, LineOf
  <2>4. Root \in Line(up, n)
    BY <2>2, <2>3
  <2>5. S \in SUBSET (1 .. Size) /\ S # {} /\ Size \in Nat
    BY <2>1, <2>4, ScopeAssumption DEF Object
  <2>6. \E x \in S : \A y \in S : y <= x
    BY <2>5, GreatestNat
  <2>7. res[n] = CHOOSE x \in S : \A y \in S : y <= x
    BY <2>1 DEF Greatest
  <2> QED
    BY <2>1, <2>6, <2>7
<1> QED
  BY <1>1

\* The entries for a list of objects.
Entries(nodes, res, n) ==
  [i \in 1 .. Len(nodes) |-> [node |-> nodes[i], res |-> res[nodes[i]], owner |-> n]]

\* There is one for each object.
LEMMA EntriesAre ==
  ASSUME NEW nodes \in Seq(Object), NEW res \in [Object -> Object], NEW n \in Object, NEW own,
         own = Entries(nodes, res, n)
  PROVE  /\ own \in Seq(Entry) /\ Len(own) = Len(nodes)
         /\ \A i \in 1 .. Len(nodes) :
              own[i].node = nodes[i] /\ own[i].res = res[nodes[i]] /\ own[i].owner = n
<1>1. PICK l \in Nat : l = Len(nodes)
  OBVIOUS
<1>2. PICK e : e = [i \in 1 .. l |-> [node |-> nodes[i], res |-> res[nodes[i]], owner |-> n]]
  OBVIOUS
<1>3. ASSUME NEW i \in 1 .. l PROVE e[i] \in Entry
  <2>1. nodes[i] \in Object
    BY <1>1
  <2> QED
    BY <1>2, <2>1 DEF Entry
<1>4. e \in Seq(Entry) /\ Len(e) = l
  BY <1>2, <1>3
<1>5. \A i \in 1 .. l : e[i].node = nodes[i] /\ e[i].res = res[nodes[i]] /\ e[i].owner = n
  BY <1>2
<1>6. own = e
  BY <1>1, <1>2 DEF Entries
<1> QED
  BY <1>1, <1>4, <1>5, <1>6

\* An own scope as compilation lists it.
LEMMA OwnScopeIs ==
  ASSUME NEW s, s.anchor \subseteq Object, NEW n \in Object, NEW S,
         S = {m \in s.anchor : n \in Line(s.up, m)}, NEW nodes, Lists(nodes, S, Size),
         NEW own \in Seq(Entry), Len(own) = Len(nodes),
         \A i \in 1 .. Len(nodes) :
           own[i].node = nodes[i] /\ own[i].res = s.res_id[nodes[i]] /\ own[i].owner = n
  PROVE  OwnScope(s, n, own)
<1>1. /\ nodes \in Seq(Object) /\ \A j \in 1 .. Len(nodes) : nodes[j] \in S
      /\ \A x \in Object : x \in S => \E j \in 1 .. Len(nodes) : nodes[j] = x
      /\ \A j, k \in 1 .. Len(nodes) : j < k => nodes[j] < nodes[k]
  BY DEF Lists, Object
<1> QED
  BY <1>1 DEF OwnScope

\* What compilation promises.
LEMMA CompiledIs ==
  ASSUME NEW d, Document(d)
  PROVE  SchemaOK(Compiled(d))
<1>1. PICK s : s = Compiled(d)
  OBVIOUS
<1>2. PICK up, id, res, anchor :
        /\ up = d.up /\ id = d.id /\ anchor = d.anchor
        /\ res = [n \in Object |-> Greatest(Line(d.up, n) \cap d.id)]
  OBVIOUS
<1>3. /\ s.up = up /\ s.anchor = anchor /\ s.ref = d.ref /\ s.ref_only = d.ref_only
      /\ s.dyn = d.dyn /\ s.res_id = res
  BY <1>1, <1>2 DEF Compiled
<1>4. /\ up \in Trees /\ id \in SUBSET Object /\ Root \in id /\ anchor \in SUBSET Object
      /\ s.ref \in [Object -> 0 .. Size] /\ s.ref_only \in BOOLEAN /\ (s.dyn # 0 => anchor # {})
  BY <1>2, <1>3 DEF Document
<1>5. IsForest(Size, up)
  BY <1>4, TreeIsForest
<1>6. /\ res \in [Object -> Object]
      /\ \A n \in Object : res[n] \in Line(up, n) \cap id
      /\ \A n \in Object : \A r \in Line(up, n) \cap id : r <= res[n]
  <2>1. res = [n \in Object |-> Greatest(Line(up, n) \cap id)]
    BY <1>2
  <2> QED
    BY <1>4, <2>1, ResIs
<1>7. /\ \A i \in Object : Line(up, i) \subseteq Object /\ i \in Line(up, i)
      /\ \A i \in Object : \A m \in Line(up, i) : m <= i /\ Line(up, m) \subseteq Line(up, i)
      /\ \A i \in Object : \A m, k \in Line(up, i) : m <= k => m \in Line(up, k)
  BY <1>5, LineOf
<1>8. Size \in Nat /\ \A n \in Object : n \in Nat
  BY ScopeAssumption DEF Object
<1>9. ASSUME NEW n \in Object PROVE res[n] \in Line(up, n) /\ res[res[n]] = res[n]
  <2>1. PICK r \in Object : r = res[n] /\ r \in Line(up, n) \cap id
    BY <1>6
  <2>2. r \in Line(up, r) \cap id
    BY <1>7, <2>1
  <2>3. PICK q \in Object : q = res[r] /\ q \in Line(up, r) /\ r <= q
    BY <1>6, <2>2
  <2>4. q <= r
    BY <1>7, <2>3
  <2>5. q = r
    BY <1>8, <2>3, <2>4
  <2> QED
    BY <2>1, <2>3, <2>5
<1>10. ASSUME NEW m \in Object, NEW n \in Object, n \in Line(up, m), res[m] < n
       PROVE  res[n] = res[m]
  <2>1. PICK r \in Object : r = res[m] /\ r \in Line(up, m) \cap id
    BY <1>6
  <2>2. r <= n
    BY <1>8, <1>10, <2>1
  <2>3. r \in Line(up, n) \cap id
    BY <1>7, <1>10, <2>1, <2>2
  <2>4. PICK q \in Object : q = res[n] /\ q \in Line(up, n) \cap id /\ r <= q
    BY <1>6, <2>3
  <2>5. q \in Line(up, m) \cap id
    BY <1>7, <1>10, <2>4
  <2>6. q <= r
    BY <1>6, <2>1, <2>5
  <2>7. q = r
    BY <1>8, <2>4, <2>6
  <2> QED
    BY <2>1, <2>4, <2>7
<1>11. ASSUME NEW n \in Object, anchor # {} PROVE s.dynamic_ref_target[n] \in Object
  <2>1. PICK F : F = {m \in anchor : res[n] \in Line(up, m)}
    OBVIOUS
  <2>2. s.dynamic_ref_target[n] = IF F # {} THEN Least(F) ELSE d.first
    BY <1>1, <1>2, <1>6, <2>1 DEF Compiled
  <2>3. F \in SUBSET Nat /\ F \subseteq Object
    BY <1>4, <1>8, <2>1
  <2>4. CASE F # {}
    <3>1. \E x \in F : \A y \in F : x <= y
      BY <2>3, <2>4, LeastNat
    <3>2. Least(F) \in F
      BY <3>1 DEF Least
    <3> QED
      BY <2>2, <2>3, <2>4, <3>2
  <2>5. CASE F = {}
    BY <1>2, <1>4, <1>11, <2>2, <2>5 DEF Document
  <2> QED
    BY <2>4, <2>5
<1>12. DOMAIN s.self_scope = Object
  BY <1>1 DEF Compiled
<1>13. ASSUME NEW n \in Object PROVE OwnScope(s, n, s.self_scope[n])
  <2>1. PICK S : S = {m \in anchor : n \in Line(up, m)}
    OBVIOUS
  <2>2. PICK nodes : nodes = InOrder(S) /\ Lists(nodes, S, Size)
    BY InOrderLists
  <2>3. nodes \in Seq(Object)
    BY <2>2 DEF Lists, Object
  <2>4. PICK own : own = s.self_scope[n]
    OBVIOUS
  <2>5. own = Entries(nodes, res, n)
    <3>1. {m \in d.anchor : n \in Line(d.up, m)} = S
      BY <1>2, <2>1
    <3> QED
      BY <1>1, <1>2, <1>13, <2>2, <2>4, <3>1 DEF Compiled, Entries
  <2>6. /\ own \in Seq(Entry) /\ Len(own) = Len(nodes)
        /\ \A i \in 1 .. Len(nodes) :
             own[i].node = nodes[i] /\ own[i].res = res[nodes[i]] /\ own[i].owner = n
    BY <1>6, <2>3, <2>5, EntriesAre
  <2>7. s.anchor \subseteq Object /\ S = {m \in s.anchor : n \in Line(s.up, m)}
    BY <1>3, <1>4, <2>1
  <2>8. \A i \in 1 .. Len(nodes) :
          own[i].node = nodes[i] /\ own[i].res = s.res_id[nodes[i]] /\ own[i].owner = n
    BY <1>3, <2>6
  <2>9. OwnScope(s, n, own)
    BY SMTT(30), <2>2, <2>6, <2>7, <2>8, OwnScopeIs
  <2> QED
    BY <2>4, <2>9
<1>14. s.res_id \in [Object -> Object]
  BY <1>3, <1>6
<1>15. SchemaOK(s)
  BY <1>3, <1>4, <1>5, <1>9, <1>10, <1>11, <1>12, <1>13, <1>14 DEF SchemaOK
<1> QED
  BY <1>1, <1>15

-------------------------------------------------------------------------------
(***************************************************************************)
(* The paths that open calls stand for.                                    *)
(***************************************************************************)
\* A walk over 1 .. n that takes what some of them give.
Collects(p, take, what, n) ==
  p = [i \in 0 .. n |-> IF i = 0 THEN << >>
                        ELSE IF take[i] THEN Append(p[i - 1], what[i]) ELSE p[i - 1]]

\* There is such a walk.
LEMMA CollectsExist ==
  ASSUME NEW n \in Nat, NEW X, NEW take \in [1 .. n -> BOOLEAN], NEW what,
         \A i \in 1 .. n : take[i] => what[i] \in X
  PROVE  \E p \in [0 .. n -> Seq(X)] : Collects(p, take, what, n)
<1> DEFINE F == [q \in Seq(X) \X Nat |->
                   IF q[2] \in 1 .. n /\ take[q[2]] THEN Append(q[1], what[q[2]]) ELSE q[1]]
<1>1. << >> \in Seq(X) /\ F \in [Seq(X) \X Nat -> Seq(X)]
  <2>1. ASSUME NEW q \in Seq(X) \X Nat
        PROVE  (IF q[2] \in 1 .. n /\ take[q[2]] THEN Append(q[1], what[q[2]]) ELSE q[1]) \in Seq(X)
    <3>1. q[1] \in Seq(X) /\ q[2] \in Nat
      OBVIOUS
    <3> QED
      BY <3>1
  <2> QED
    BY <2>1
<1>2. \A s \in Seq(X), i \in 1 .. n : F[<<s, i>>] = IF take[i] THEN Append(s, what[i]) ELSE s
  OBVIOUS
<1> HIDE DEF F
<1>3. PICK g \in [0 .. n -> Seq(X)] : IteratesUpTo(g, << >>, F, n)
  BY <1>1, RecursiveUpTo
<1>4. ASSUME NEW i \in 0 .. n
      PROVE  g[i] = IF i = 0 THEN << >> ELSE IF take[i] THEN Append(g[i - 1], what[i]) ELSE g[i - 1]
  <2>1. g = [k \in 0 .. n |-> IF k = 0 THEN << >> ELSE F[<<g[k - 1], k>>]]
    BY <1>3 DEF IteratesUpTo
  <2>2. g[i] = IF i = 0 THEN << >> ELSE F[<<g[i - 1], i>>]
    BY <2>1
  <2>3. i # 0 => i \in 1 .. n /\ i - 1 \in 0 .. n
    OBVIOUS
  <2>4. i # 0 => g[i - 1] \in Seq(X)
    BY <2>3
  <2>5. i # 0 => F[<<g[i - 1], i>>] = IF take[i] THEN Append(g[i - 1], what[i]) ELSE g[i - 1]
    BY <1>2, <2>3, <2>4
  <2> QED
    BY <2>2, <2>5
<1>5. g = [i \in 0 .. n |-> IF i = 0 THEN << >>
                            ELSE IF take[i] THEN Append(g[i - 1], what[i]) ELSE g[i - 1]]
  BY <1>4
<1> QED
  BY <1>5 DEF Collects

\* A walk is determined step by step.
LEMMA CollectsStep ==
  ASSUME NEW n \in Nat, NEW take, NEW what, NEW p, Collects(p, take, what, n)
  PROVE  /\ p[0] = << >>
         /\ \A i \in 1 .. n : p[i] = IF take[i] THEN Append(p[i - 1], what[i]) ELSE p[i - 1]
<1>1. \A i \in 0 .. n : p[i] = IF i = 0 THEN << >>
                               ELSE IF take[i] THEN Append(p[i - 1], what[i]) ELSE p[i - 1]
  <2>1. p = [i \in 0 .. n |-> IF i = 0 THEN << >>
                              ELSE IF take[i] THEN Append(p[i - 1], what[i]) ELSE p[i - 1]]
    BY DEF Collects
  <2> QED
    BY <2>1
<1>2. p[0] = << >>
  BY <1>1
<1>3. ASSUME NEW i \in 1 .. n PROVE p[i] = IF take[i] THEN Append(p[i - 1], what[i]) ELSE p[i - 1]
  <2>1. i \in 0 .. n /\ i # 0
    OBVIOUS
  <2> QED
    BY <1>1, <2>1
<1> QED
  BY <1>2, <1>3

\* Walks that begin alike are alike there.
LEMMA CollectsAgree ==
  ASSUME NEW n \in Nat, NEW take, NEW what, NEW p, Collects(p, take, what, n),
         NEW k \in Nat, NEW take2, NEW what2, NEW q, Collects(q, take2, what2, k),
         NEW m \in Nat, m <= n, m <= k,
         \A i \in 1 .. m : (take[i] <=> take2[i]) /\ what[i] = what2[i]
  PROVE  p[m] = q[m]
<1> DEFINE T == {i \in Nat : i <= m => p[i] = q[i]}
<1>1. /\ p[0] = << >>
      /\ \A i \in 1 .. n : p[i] = IF take[i] THEN Append(p[i - 1], what[i]) ELSE p[i - 1]
  BY CollectsStep
<1>2. /\ q[0] = << >>
      /\ \A i \in 1 .. k : q[i] = IF take2[i] THEN Append(q[i - 1], what2[i]) ELSE q[i - 1]
  BY CollectsStep
<1>3. 0 \in T
  BY <1>1, <1>2
<1>4. ASSUME NEW i \in T PROVE i + 1 \in T
  <2>1. i \in Nat /\ i + 1 \in Nat
    OBVIOUS
  <2>2. ASSUME i + 1 <= m PROVE p[i + 1] = q[i + 1]
    <3>1. PICK j \in 1 .. m : j = i + 1 /\ j - 1 = i
      BY <2>1, <2>2
    <3>2. j \in 1 .. n /\ j \in 1 .. k /\ p[i] = q[i]
      BY <2>1, <3>1
    <3>3. p[j] = IF take[j] THEN Append(p[i], what[j]) ELSE p[i]
      BY <1>1, <3>1, <3>2
    <3>4. q[j] = IF take2[j] THEN Append(q[i], what2[j]) ELSE q[i]
      BY <1>2, <3>1, <3>2
    <3> QED
      BY <3>1, <3>2, <3>3, <3>4
  <2> QED
    BY <2>1, <2>2
<1>5. T \in SUBSET Nat
  OBVIOUS
<1> HIDE DEF T
<1>6. T = Nat
  BY <1>3, <1>4, <1>5, InductiveSet
<1>7. m \in T /\ m <= m
  BY <1>6
<1> QED
  BY <1>7 DEF T

\* Which calls the instance path names, and how.
Takes(calls) == [i \in 1 .. Len(calls) |-> calls[i].call = "member"]
Gives(calls) == [i \in 1 .. Len(calls) |-> calls[i].n]

\* The instance path is such a walk.
LEMMA PathOfIs ==
  ASSUME NEW calls \in Seq(FrameType)
  PROVE  \E p : /\ Collects(p, Takes(calls), Gives(calls), Len(calls))
                /\ PathOf(calls) = p[Len(calls)] /\ p[Len(calls)] \in Seq(Object)
<1>1. PICK l \in Nat : l = Len(calls)
  OBVIOUS
<1>2. PICK take, what : take = Takes(calls) /\ what = Gives(calls)
  OBVIOUS
<1>3. take \in [1 .. l -> BOOLEAN] /\ \A i \in 1 .. l : take[i] => what[i] \in Object
  <2>1. \A i \in 1 .. l : calls[i] \in FrameType
    BY <1>1
  <2>2. \A i \in 1 .. l : calls[i].n \in Object /\ calls[i].call \in Call
    BY <2>1 DEF FrameType
  <2>3. /\ take = [i \in 1 .. l |-> calls[i].call = "member"]
        /\ what = [i \in 1 .. l |-> calls[i].n]
    BY <1>1, <1>2 DEF Takes, Gives
  <2> QED
    BY <2>2, <2>3 DEF SegSet
<1>4. PICK p0 \in [0 .. l -> Seq(Object)] : Collects(p0, take, what, l)
  BY <1>1, <1>3, CollectsExist
<1>5. \A p : Collects(p, take, what, l) <=>
             p = [i \in 0 .. l |-> IF i = 0 THEN << >>
                                   ELSE IF calls[i].call = "member" THEN Append(p[i - 1], calls[i].n) ELSE p[i - 1]]
  <2>1. ASSUME NEW i \in 0 .. l, i # 0
        PROVE  take[i] = (calls[i].call = "member") /\ what[i] = calls[i].n
    <3>1. i \in 1 .. l
      BY <2>1
    <3> QED
      BY <1>1, <1>2, <3>1 DEF Takes, Gives
  <2>2. ASSUME NEW p
        PROVE  [i \in 0 .. l |-> IF i = 0 THEN << >>
                                 ELSE IF take[i] THEN Append(p[i - 1], what[i]) ELSE p[i - 1]] =
               [i \in 0 .. l |-> IF i = 0 THEN << >>
                                 ELSE IF calls[i].call = "member" THEN Append(p[i - 1], calls[i].n) ELSE p[i - 1]]
    BY <2>1
  <2> QED
    BY <2>2 DEF Collects
<1>6. PICK p : Collects(p, take, what, l) /\ PathOf(calls) = p[l]
  BY <1>1, <1>4, <1>5 DEF PathOf
<1>7. p[l] = p0[l]
  BY <1>1, <1>4, <1>6, CollectsAgree
<1> QED
  BY <1>1, <1>2, <1>4, <1>6, <1>7

\* One more call.
LEMMA PathOfStep ==
  ASSUME NEW a \in Seq(FrameType), NEW b \in Seq(FrameType), NEW l \in Nat,
         Len(a) = l, Len(b) = l + 1, \A i \in 1 .. l : b[i].call = a[i].call /\ b[i].n = a[i].n
  PROVE  /\ PathOf(a) \in Seq(Object)
         /\ PathOf(b) = IF b[l + 1].call = "member" THEN Append(PathOf(a), b[l + 1].n) ELSE PathOf(a)
<1>1. PICK p : /\ Collects(p, Takes(a), Gives(a), l)
               /\ PathOf(a) = p[l] /\ p[l] \in Seq(Object)
  BY PathOfIs
<1>2. PICK q, m : m = l + 1 /\ Collects(q, Takes(b), Gives(b), m) /\ PathOf(b) = q[m]
  BY PathOfIs
<1>3. m \in Nat /\ l <= m /\ l <= l /\ m \in 1 .. m /\ m - 1 = l
  BY <1>2
<1>4. PICK ta, ga, tb, gb : /\ ta = Takes(a) /\ ga = Gives(a)
                            /\ tb = Takes(b) /\ gb = Gives(b)
  OBVIOUS
<1>5. \A i \in 1 .. l : (ta[i] <=> tb[i]) /\ ga[i] = gb[i]
  <2>1. \A i \in 1 .. l : i \in 1 .. m
    BY <1>2
  <2> QED
    BY <1>2, <1>4, <2>1 DEF Takes, Gives
<1>6. p[l] = q[l]
  BY <1>1, <1>2, <1>3, <1>4, <1>5, CollectsAgree
<1>7. q[m] = IF tb[m] THEN Append(q[l], gb[m]) ELSE q[l]
  BY <1>2, <1>3, <1>4, CollectsStep
<1>8. (tb[m] <=> b[l + 1].call = "member") /\ gb[m] = b[l + 1].n
  BY <1>2, <1>3, <1>4 DEF Takes, Gives
<1> QED
  BY <1>1, <1>2, <1>6, <1>7, <1>8

\* The same calls.
LEMMA PathOfSame ==
  ASSUME NEW a \in Seq(FrameType), NEW b \in Seq(FrameType), Len(a) = Len(b),
         \A i \in 1 .. Len(a) : b[i].call = a[i].call /\ b[i].n = a[i].n
  PROVE  PathOf(b) = PathOf(a)
<1>1. PICK l \in Nat : l = Len(a)
  OBVIOUS
<1>2. PICK p : Collects(p, Takes(a), Gives(a), l) /\ PathOf(a) = p[l]
  BY <1>1, PathOfIs
<1>3. PICK q : Collects(q, Takes(b), Gives(b), l) /\ PathOf(b) = q[l]
  BY <1>1, PathOfIs
<1>4. PICK ta, ga, tb, gb : /\ ta = Takes(a) /\ ga = Gives(a)
                            /\ tb = Takes(b) /\ gb = Gives(b)
  OBVIOUS
<1>5. \A i \in 1 .. l : (ta[i] <=> tb[i]) /\ ga[i] = gb[i]
  BY <1>1, <1>4 DEF Takes, Gives
<1>6. l <= l
  BY <1>1
<1>7. p[l] = q[l]
  BY <1>1, <1>2, <1>3, <1>4, <1>5, <1>6, CollectsAgree
<1> QED
  BY <1>2, <1>3, <1>7

\* No calls.
LEMMA PathOfEmpty ==
  ASSUME NEW a \in Seq(FrameType), Len(a) = 0
  PROVE  PathOf(a) = << >>
<1>1. PICK p : Collects(p, Takes(a), Gives(a), 0) /\ PathOf(a) = p[0]
  BY PathOfIs
<1>2. PICK ta, ga : ta = Takes(a) /\ ga = Gives(a)
  OBVIOUS
<1>3. 0 \in Nat /\ p[0] = << >>
  BY <1>1, <1>2, CollectsStep
<1> QED
  BY <1>1, <1>3

\* Which calls the schema path names, and how.
STakes(calls) == [i \in 1 .. Len(calls) |-> calls[i].call \notin {"root", "trial"}]
SGives(calls) == [i \in 1 .. Len(calls) |-> Seg(calls[i].call, calls[i].n)]

\* The schema path is such a walk.
LEMMA SPathOfIs ==
  ASSUME NEW calls \in Seq(FrameType)
  PROVE  \E p : /\ Collects(p, STakes(calls), SGives(calls), Len(calls))
                /\ SPathOf(calls) = p[Len(calls)] /\ p[Len(calls)] \in Seq(SegSet)
<1>1. PICK l \in Nat : l = Len(calls)
  OBVIOUS
<1>2. PICK take, what : take = STakes(calls) /\ what = SGives(calls)
  OBVIOUS
<1>3. take \in [1 .. l -> BOOLEAN] /\ \A i \in 1 .. l : take[i] => what[i] \in SegSet
  <2>1. \A i \in 1 .. l : calls[i] \in FrameType
    BY <1>1
  <2>2. \A i \in 1 .. l : calls[i].n \in Object /\ calls[i].call \in Call
    BY <2>1 DEF FrameType
  <2>3. /\ take = [i \in 1 .. l |-> calls[i].call \notin {"root", "trial"}]
        /\ what = [i \in 1 .. l |-> Seg(calls[i].call, calls[i].n)]
    BY <1>1, <1>2 DEF STakes, SGives
  <2> QED
    BY <2>2, <2>3 DEF SegSet
<1>4. PICK p0 \in [0 .. l -> Seq(SegSet)] : Collects(p0, take, what, l)
  BY <1>1, <1>3, CollectsExist
<1>5. \A p : Collects(p, take, what, l) <=>
             p = [i \in 0 .. l |-> IF i = 0 THEN << >>
                                   ELSE IF calls[i].call \notin {"root", "trial"} THEN Append(p[i - 1], Seg(calls[i].call, calls[i].n)) ELSE p[i - 1]]
  <2>1. ASSUME NEW i \in 0 .. l, i # 0
        PROVE  take[i] = (calls[i].call \notin {"root", "trial"}) /\ what[i] = Seg(calls[i].call, calls[i].n)
    <3>1. i \in 1 .. l
      BY <2>1
    <3> QED
      BY <1>1, <1>2, <3>1 DEF STakes, SGives
  <2>2. ASSUME NEW p
        PROVE  [i \in 0 .. l |-> IF i = 0 THEN << >>
                                 ELSE IF take[i] THEN Append(p[i - 1], what[i]) ELSE p[i - 1]] =
               [i \in 0 .. l |-> IF i = 0 THEN << >>
                                 ELSE IF calls[i].call \notin {"root", "trial"} THEN Append(p[i - 1], Seg(calls[i].call, calls[i].n)) ELSE p[i - 1]]
    BY <2>1
  <2> QED
    BY <2>2 DEF Collects
<1>6. PICK p : Collects(p, take, what, l) /\ SPathOf(calls) = p[l]
  BY <1>1, <1>4, <1>5 DEF SPathOf
<1>7. p[l] = p0[l]
  BY <1>1, <1>4, <1>6, CollectsAgree
<1> QED
  BY <1>1, <1>2, <1>4, <1>6, <1>7

\* One more call.
LEMMA SPathOfStep ==
  ASSUME NEW a \in Seq(FrameType), NEW b \in Seq(FrameType), NEW l \in Nat,
         Len(a) = l, Len(b) = l + 1, \A i \in 1 .. l : b[i].call = a[i].call /\ b[i].n = a[i].n
  PROVE  /\ SPathOf(a) \in Seq(SegSet)
         /\ SPathOf(b) = IF b[l + 1].call \notin {"root", "trial"} THEN Append(SPathOf(a), Seg(b[l + 1].call, b[l + 1].n)) ELSE SPathOf(a)
<1>1. PICK p : /\ Collects(p, STakes(a), SGives(a), l)
               /\ SPathOf(a) = p[l] /\ p[l] \in Seq(SegSet)
  BY SPathOfIs
<1>2. PICK q, m : m = l + 1 /\ Collects(q, STakes(b), SGives(b), m) /\ SPathOf(b) = q[m]
  BY SPathOfIs
<1>3. m \in Nat /\ l <= m /\ l <= l /\ m \in 1 .. m /\ m - 1 = l
  BY <1>2
<1>4. PICK ta, ga, tb, gb : /\ ta = STakes(a) /\ ga = SGives(a)
                            /\ tb = STakes(b) /\ gb = SGives(b)
  OBVIOUS
<1>5. \A i \in 1 .. l : (ta[i] <=> tb[i]) /\ ga[i] = gb[i]
  <2>1. \A i \in 1 .. l : i \in 1 .. m
    BY <1>2
  <2> QED
    BY <1>2, <1>4, <2>1 DEF STakes, SGives
<1>6. p[l] = q[l]
  BY <1>1, <1>2, <1>3, <1>4, <1>5, CollectsAgree
<1>7. q[m] = IF tb[m] THEN Append(q[l], gb[m]) ELSE q[l]
  BY <1>2, <1>3, <1>4, CollectsStep
<1>8. (tb[m] <=> b[l + 1].call \notin {"root", "trial"}) /\ gb[m] = Seg(b[l + 1].call, b[l + 1].n)
  BY <1>2, <1>3, <1>4 DEF STakes, SGives
<1> QED
  BY <1>1, <1>2, <1>6, <1>7, <1>8

\* The same calls.
LEMMA SPathOfSame ==
  ASSUME NEW a \in Seq(FrameType), NEW b \in Seq(FrameType), Len(a) = Len(b),
         \A i \in 1 .. Len(a) : b[i].call = a[i].call /\ b[i].n = a[i].n
  PROVE  SPathOf(b) = SPathOf(a)
<1>1. PICK l \in Nat : l = Len(a)
  OBVIOUS
<1>2. PICK p : Collects(p, STakes(a), SGives(a), l) /\ SPathOf(a) = p[l]
  BY <1>1, SPathOfIs
<1>3. PICK q : Collects(q, STakes(b), SGives(b), l) /\ SPathOf(b) = q[l]
  BY <1>1, SPathOfIs
<1>4. PICK ta, ga, tb, gb : /\ ta = STakes(a) /\ ga = SGives(a)
                            /\ tb = STakes(b) /\ gb = SGives(b)
  OBVIOUS
<1>5. \A i \in 1 .. l : (ta[i] <=> tb[i]) /\ ga[i] = gb[i]
  BY <1>1, <1>4 DEF STakes, SGives
<1>6. l <= l
  BY <1>1
<1>7. p[l] = q[l]
  BY <1>1, <1>2, <1>3, <1>4, <1>5, <1>6, CollectsAgree
<1> QED
  BY <1>2, <1>3, <1>7

\* No calls.
LEMMA SPathOfEmpty ==
  ASSUME NEW a \in Seq(FrameType), Len(a) = 0
  PROVE  SPathOf(a) = << >>
<1>1. PICK p : Collects(p, STakes(a), SGives(a), 0) /\ SPathOf(a) = p[0]
  BY SPathOfIs
<1>2. PICK ta, ga : ta = STakes(a) /\ ga = SGives(a)
  OBVIOUS
<1>3. 0 \in Nat /\ p[0] = << >>
  BY <1>1, <1>2, CollectsStep
<1> QED
  BY <1>1, <1>3

-------------------------------------------------------------------------------
(***************************************************************************)
(* References and the depth of the stack.                                  *)
(***************************************************************************)
\* The references among the first calls are counted one by one.
LEMMA RefsCount ==
  ASSUME NEW stk, NEW i \in Nat
  PROVE  /\ Cardinality(RefsUpTo(stk, 0)) = 0 /\ Cardinality(RefsUpTo(stk, i)) \in Nat
         /\ IsRef(stk[i + 1].call) =>
              Cardinality(RefsUpTo(stk, i + 1)) = Cardinality(RefsUpTo(stk, i)) + 1
         /\ ~IsRef(stk[i + 1].call) =>
              Cardinality(RefsUpTo(stk, i + 1)) = Cardinality(RefsUpTo(stk, i))
<1>1. RefsUpTo(stk, 0) = {}
  BY DEF RefsUpTo
<1>2. PICK R, R2 : R = RefsUpTo(stk, i) /\ R2 = RefsUpTo(stk, i + 1)
  OBVIOUS
<1>3. R \subseteq 1 .. i /\ i + 1 \notin R
  BY <1>2 DEF RefsUpTo
<1>4. IsFiniteSet(R)
  <2>1. IsFiniteSet(1 .. i)
    BY FS_Interval
  <2> QED
    BY <1>3, <2>1, FS_Subset
<1>5. R2 = IF IsRef(stk[i + 1].call) THEN R \cup {i + 1} ELSE R
  <2>1. \A j : j \in 1 .. i + 1 <=> j \in 1 .. i \/ j = i + 1
    OBVIOUS
  <2> QED
    BY <1>2, <2>1 DEF RefsUpTo
<1>6. Cardinality(R) \in Nat /\ Cardinality(R \cup {i + 1}) = Cardinality(R) + 1
  BY <1>3, <1>4, FS_CardinalityType, FS_AddElement
<1>7. Cardinality(RefsUpTo(stk, 0)) = 0
  BY <1>1, FS_EmptySet
<1> QED
  BY <1>2, <1>5, <1>6, <1>7

\* Only the calls matter.
LEMMA RefsAlike ==
  ASSUME NEW a, NEW b, NEW i \in Nat, \A j \in 1 .. i : b[j].call = a[j].call
  PROVE  RefsUpTo(b, i) = RefsUpTo(a, i)
BY DEF RefsUpTo

\* The calls and objects of the first l activations are the same.
SameCalls(a, b, l) ==
  \A i \in 1 .. l : b[i].call = a[i].call /\ b[i].n = a[i].n /\ b[i].saved = a[i].saved

\* The depth is kept by a stack with the same calls.
LEMMA DepthSame ==
  ASSUME NEW a \in Seq(FrameType), NEW b \in Seq(FrameType), Len(b) = Len(a),
         SameCalls(a, b, Len(a)), NEW d, DepthOK(a, d)
  PROVE  DepthOK(b, d)
<1>1. PICK l \in Nat : l = Len(a)
  OBVIOUS
<1>2. ASSUME NEW i \in 0 .. l PROVE RefsUpTo(b, i) = RefsUpTo(a, i)
  <2>1. i \in Nat /\ \A j \in 1 .. i : j \in 1 .. l
    OBVIOUS
  <2>2. \A j \in 1 .. i : b[j].call = a[j].call
    BY <1>1, <2>1 DEF SameCalls
  <2> QED
    BY <2>1, <2>2, RefsAlike
<1>3. RefsUpTo(b, l) = RefsUpTo(a, l)
  BY <1>2
<1>4. ASSUME NEW i \in 1 .. l
      PROVE  i <= Cardinality(RefsUpTo(b, i)) * Size + b[i].n
  <2>1. RefsUpTo(b, i) = RefsUpTo(a, i)
    BY <1>2
  <2>2. i <= Cardinality(RefsUpTo(a, i)) * Size + a[i].n
    BY <1>1 DEF DepthOK
  <2> QED
    BY <1>1, <2>1, <2>2 DEF SameCalls
<1> QED
  BY <1>1, <1>3, <1>4 DEF DepthOK

\* A call that is no reference goes down; a reference is counted.
LEMMA DepthPush ==
  ASSUME NEW a \in Seq(FrameType), NEW b \in Seq(FrameType), NEW l \in Nat, l >= 1,
         Len(a) = l, Len(b) = l + 1, SameCalls(a, b, l), NEW d \in Nat, DepthOK(a, d),
         IF IsRef(b[l + 1].call) THEN d < RefCap ELSE a[l].n < b[l + 1].n,
         NEW d2, d2 = IF IsRef(b[l + 1].call) THEN d + 1 ELSE d
  PROVE  DepthOK(b, d2)
<1>1. ASSUME NEW i \in 1 .. l
      PROVE  /\ RefsUpTo(b, i) = RefsUpTo(a, i)
             /\ i <= Cardinality(RefsUpTo(b, i)) * Size + b[i].n
  <2>1. i \in Nat /\ \A j \in 1 .. i : j \in 1 .. l
    OBVIOUS
  <2>2. \A j \in 1 .. i : b[j].call = a[j].call
    BY <2>1 DEF SameCalls
  <2>3. RefsUpTo(b, i) = RefsUpTo(a, i)
    BY <2>1, <2>2, RefsAlike
  <2>4. i <= Cardinality(RefsUpTo(a, i)) * Size + a[i].n
    BY DEF DepthOK
  <2> QED
    BY <2>3, <2>4 DEF SameCalls
<1>2. l \in 1 .. l /\ Size \in Nat /\ RefCap \in Nat
  BY ScopeAssumption
<1>3. /\ d = Cardinality(RefsUpTo(b, l)) /\ l <= d * Size + a[l].n /\ d <= RefCap
  BY <1>1, <1>2 DEF DepthOK, SameCalls
<1>4. PICK r : r = Cardinality(RefsUpTo(b, l + 1))
  OBVIOUS
<1>5. r = d2
  BY <1>3, <1>4, RefsCount
<1>6. b[l + 1] \in FrameType /\ a[l] \in FrameType
  BY <1>2
<1>7. b[l + 1].n \in 1 .. Size /\ a[l].n \in 1 .. Size
  BY <1>6 DEF FrameType, Object
<1>8. l + 1 <= r * Size + b[l + 1].n /\ r <= RefCap
  <2>1. PICK x \in Nat, y \in Nat, z \in Nat : x = d * Size /\ y = a[l].n /\ z = b[l + 1].n
    <3>1. d * Size \in Nat
      BY <1>2
    <3> QED
      BY <1>7, <3>1
  <2>2. CASE IsRef(b[l + 1].call)
    <3>1. r = d + 1 /\ r <= RefCap
      BY <1>2, <1>5, <2>2
    <3>2. (d + 1) * Size = x + Size
      BY <1>2, <2>1
    <3>3. y <= Size /\ z >= 1 /\ l <= x + y
      BY SMTT(30), <1>2, <1>3, <1>7, <2>1
    <3>4. l + 1 <= (x + Size) + z
      BY <1>2, <3>3
    <3> QED
      BY <2>1, <3>1, <3>2, <3>4
  <2>3. CASE ~IsRef(b[l + 1].call)
    <3>1. r = d /\ y < z /\ l <= x + y
      BY <1>3, <1>5, <2>1, <2>3
    <3>2. l + 1 <= x + z
      BY <3>1
    <3> QED
      BY <1>3, <2>1, <3>1, <3>2
  <2> QED
    BY <2>2, <2>3
<1>9. \A i \in 1 .. l + 1 : i \in 1 .. l \/ i = l + 1
  OBVIOUS
<1>10. \A i \in 1 .. l + 1 : i <= Cardinality(RefsUpTo(b, i)) * Size + b[i].n
  BY <1>1, <1>4, <1>8, <1>9
<1> QED
  BY <1>4, <1>5, <1>8, <1>10 DEF DepthOK

\* A reference that ends is uncounted.
LEMMA DepthPop ==
  ASSUME NEW a \in Seq(FrameType), NEW b \in Seq(FrameType), NEW l \in Nat,
         Len(a) = l + 1, Len(b) = l, SameCalls(a, b, l), NEW d \in Nat, DepthOK(a, d),
         NEW d2, d2 = IF IsRef(a[l + 1].call) THEN d - 1 ELSE d
  PROVE  DepthOK(b, d2) /\ d2 \in Nat
<1>1. ASSUME NEW i \in 0 .. l PROVE RefsUpTo(b, i) = RefsUpTo(a, i)
  <2>1. i \in Nat /\ \A j \in 1 .. i : j \in 1 .. l
    OBVIOUS
  <2>2. \A j \in 1 .. i : b[j].call = a[j].call
    BY <2>1 DEF SameCalls
  <2> QED
    BY <2>1, <2>2, RefsAlike
<1>2. PICK r \in Nat : r = Cardinality(RefsUpTo(a, l)) /\ r = Cardinality(RefsUpTo(b, l))
  <2>1. RefsUpTo(b, l) = RefsUpTo(a, l)
    BY <1>1
  <2> QED
    BY <2>1, RefsCount
<1>3. d = Cardinality(RefsUpTo(a, l + 1)) /\ d <= RefCap /\ RefCap \in Nat
  BY ScopeAssumption DEF DepthOK
<1>4. d = IF IsRef(a[l + 1].call) THEN r + 1 ELSE r
  <2>1. /\ IsRef(a[l + 1].call) =>
             Cardinality(RefsUpTo(a, l + 1)) = Cardinality(RefsUpTo(a, l)) + 1
        /\ ~IsRef(a[l + 1].call) =>
             Cardinality(RefsUpTo(a, l + 1)) = Cardinality(RefsUpTo(a, l))
    BY RefsCount
  <2> QED
    BY <1>2, <1>3, <2>1
<1>5. r = d2 /\ r <= RefCap
  BY <1>3, <1>4
<1>6. ASSUME NEW i \in 1 .. l PROVE i <= Cardinality(RefsUpTo(b, i)) * Size + b[i].n
  <2>1. i \in 0 .. l /\ i \in 1 .. l + 1
    OBVIOUS
  <2>2. i <= Cardinality(RefsUpTo(a, i)) * Size + a[i].n
    BY <2>1 DEF DepthOK
  <2> QED
    BY <1>1, <2>1, <2>2 DEF SameCalls
<1> QED
  BY <1>2, <1>5, <1>6 DEF DepthOK

-------------------------------------------------------------------------------
(***************************************************************************)
(* The segments of the scope.                                              *)
(***************************************************************************)
\* The first l activations have the same objects and segments.
SameBases(a, b, l) ==
  \A i \in 1 .. l : b[i].n = a[i].n /\ b[i].base = a[i].base /\ b[i].left = a[i].left

\* Segments follow one another.
LEMMA Segments ==
  ASSUME SchemaOK(schema), NEW stk \in Seq(FrameType), NEW sc, ScopesOK(stk, sc)
  PROVE  /\ \A k \in 1 .. Len(stk) : /\ stk[k].base \in 0 .. Len(sc)
                                     /\ EndOf(stk, sc, k) \in stk[k].base .. Len(sc)
         /\ \A j, k \in 1 .. Len(stk) : j < k => EndOf(stk, sc, j) <= stk[k].base
<1>1. PICK l \in Nat : l = Len(stk)
  OBVIOUS
<1>2. Len(sc) \in Nat
  BY DEF ScopesOK
<1>3. \A k \in 1 .. l : stk[k].base \in Nat /\ stk[k].n \in Object
  <2>1. \A k \in 1 .. l : stk[k] \in FrameType
    BY <1>1
  <2> QED
    BY <2>1 DEF FrameType
<1>4. ASSUME NEW k \in 1 .. l
      PROVE  EndOf(stk, sc, k) \in Nat /\ stk[k].base <= EndOf(stk, sc, k)
  <2>1. schema.self_scope[stk[k].n] \in Seq(Entry)
    BY <1>3 DEF SchemaOK, OwnScope
  <2>2. Len(schema.self_scope[stk[k].n]) \in Nat
    BY <2>1
  <2>3. SegmentOK(stk, sc, k) /\ stk[k].base \in Nat
    BY <1>1, <1>3 DEF ScopesOK
  <2>4. \/ EndOf(stk, sc, k) = stk[k].base
        \/ EndOf(stk, sc, k) = stk[k].base + Len(schema.self_scope[stk[k].n])
    BY <2>3 DEF SegmentOK
  <2>5. PICK x \in Nat, y \in Nat : x = stk[k].base /\ y = Len(schema.self_scope[stk[k].n])
    BY <2>2, <2>3
  <2>6. PICK e : e = EndOf(stk, sc, k)
    OBVIOUS
  <2>7. e = x \/ e = x + y
    BY <2>4, <2>5, <2>6
  <2>8. e \in Nat /\ x <= e
    BY <2>7
  <2> QED
    BY <2>5, <2>6, <2>8
<1>5. \A k \in 1 .. l : k + 1 <= l => EndOf(stk, sc, k) = stk[k + 1].base
  BY <1>1 DEF EndOf
<1> DEFINE T == {k \in Nat : k <= l => \A j \in 1 .. l : j < k => EndOf(stk, sc, j) <= stk[k].base}
<1>6. T \in SUBSET Nat
  OBVIOUS
<1>7. 0 \in T
  OBVIOUS
<1>8. ASSUME NEW k \in T PROVE k + 1 \in T
  <2>1. k \in Nat /\ k + 1 \in Nat /\ (k <= l => \A j \in 1 .. l : j < k => EndOf(stk, sc, j) <= stk[k].base)
    OBVIOUS
  <2> HIDE DEF T
  <2>2. ASSUME k + 1 <= l, NEW j \in 1 .. l, j < k + 1
        PROVE  EndOf(stk, sc, j) <= stk[k + 1].base
    <3>1. k \in 1 .. l /\ k <= l /\ (j < k \/ j = k)
      BY <2>1, <2>2
    <3>2. EndOf(stk, sc, k) = stk[k + 1].base
      BY <1>5, <2>2, <3>1
    <3>3. CASE j = k
      BY <1>4, <3>1, <3>2, <3>3
    <3>4. CASE j < k
      <4>1. EndOf(stk, sc, j) <= stk[k].base /\ stk[k].base <= EndOf(stk, sc, k)
        BY <1>4, <2>1, <3>1, <3>4
      <4>2. PICK x \in Nat, y \in Nat, z \in Nat :
              x = EndOf(stk, sc, j) /\ y = stk[k].base /\ z = EndOf(stk, sc, k)
        BY <1>3, <1>4, <3>1
      <4> QED
        BY <3>2, <4>1, <4>2
    <3> QED
      BY <3>1, <3>3, <3>4
  <2> QED
    BY <2>1, <2>2 DEF T
<1> HIDE DEF T
<1>9. T = Nat
  BY <1>6, <1>7, <1>8, InductiveSet
<1>10. ASSUME NEW j \in 1 .. l, NEW k \in 1 .. l, j < k PROVE EndOf(stk, sc, j) <= stk[k].base
  <2>1. k \in T /\ k <= l
    BY <1>9
  <2> QED
    BY <1>10, <2>1 DEF T
<1>11. ASSUME NEW k \in 1 .. l PROVE EndOf(stk, sc, k) <= Len(sc)
  <2>1. EndOf(stk, sc, l) = Len(sc)
    BY <1>1 DEF EndOf
  <2>2. CASE k = l
    BY <1>2, <2>1, <2>2
  <2>3. CASE k # l
    <3>1. l \in 1 .. l /\ k < l
      BY <2>3
    <3>2. EndOf(stk, sc, k) <= stk[l].base /\ stk[l].base <= Len(sc)
      BY <1>4, <1>10, <2>1, <3>1
    <3>3. PICK x \in Nat, y \in Nat, z \in Nat :
            x = EndOf(stk, sc, k) /\ y = stk[l].base /\ z = Len(sc)
      BY <1>2, <1>3, <1>4, <3>1
    <3> QED
      BY <3>2, <3>3
  <2> QED
    BY <2>2, <2>3
<1>12. ASSUME NEW k \in 1 .. l
       PROVE  stk[k].base \in 0 .. Len(sc) /\ EndOf(stk, sc, k) \in stk[k].base .. Len(sc)
  <2>1. PICK x \in Nat, y \in Nat, z \in Nat :
          x = EndOf(stk, sc, k) /\ y = stk[k].base /\ z = Len(sc)
    BY <1>2, <1>3, <1>4
  <2>2. y <= x /\ x <= z
    BY <1>4, <1>11, <2>1
  <2>3. y \in 0 .. z /\ x \in y .. z
    BY <2>2
  <2> QED
    BY <2>1, <2>3
<1> QED
  BY <1>1, <1>10, <1>12

\* The scope is right for a stack with the same segments.
LEMMA ScopesSame ==
  ASSUME NEW a \in Seq(FrameType), NEW b \in Seq(FrameType), Len(b) = Len(a),
         SameBases(a, b, Len(a)), NEW sc, ScopesOK(a, sc)
  PROVE  ScopesOK(b, sc)
<1>1. PICK l \in Nat : l = Len(a) /\ l = Len(b)
  OBVIOUS
<1>2. ASSUME NEW k \in 1 .. l PROVE SegmentOK(b, sc, k)
  <2>1. EndOf(b, sc, k) = EndOf(a, sc, k)
    <3>1. k = l \/ k + 1 \in 1 .. l
      OBVIOUS
    <3> QED
      BY <1>1, <3>1 DEF EndOf, SameBases
  <2>2. SegmentOK(a, sc, k)
    BY <1>1 DEF ScopesOK
  <2>3. b[k].n = a[k].n /\ b[k].base = a[k].base /\ b[k].left = a[k].left
    BY <1>1 DEF SameBases
  <2> QED
    BY <2>1, <2>2, <2>3 DEF SegmentOK
<1>3. (a = << >> <=> l = 0) /\ (b = << >> <=> l = 0)
  BY <1>1
<1>4. l # 0 => 1 \in 1 .. l
  OBVIOUS
<1>5. b # << >> => b[1].base = 0
  BY <1>1, <1>3, <1>4 DEF ScopesOK, SameBases
<1> QED
  BY <1>1, <1>2, <1>3, <1>5 DEF ScopesOK

\* A segment stays where the scope below its end does.
LEMMA SegmentKept ==
  ASSUME SchemaOK(schema), NEW a \in Seq(FrameType), NEW b, NEW sc, ScopesOK(a, sc),
         NEW k \in 1 .. Len(a), NEW sc2,
         b[k].n = a[k].n, b[k].base = a[k].base, b[k].left = a[k].left,
         EndOf(b, sc2, k) = EndOf(a, sc, k),
         \A i \in 1 .. EndOf(a, sc, k) : sc2[i] = sc[i]
  PROVE  SegmentOK(b, sc2, k)
<1>1. SegmentOK(a, sc, k)
  BY DEF ScopesOK
<1>2. CASE a[k].left
  BY <1>1, <1>2 DEF SegmentOK
<1>3. CASE ~a[k].left
  <2>1. PICK mine : mine = schema.self_scope[a[k].n]
    OBVIOUS
  <2>2. mine \in Seq(Entry) /\ a[k].base \in Nat
    <3>1. a[k] \in FrameType
      OBVIOUS
    <3>2. a[k].n \in Object /\ a[k].base \in Nat
      BY <3>1 DEF FrameType
    <3> QED
      BY <2>1, <3>2 DEF SchemaOK, OwnScope
  <2>3. PICK u \in Nat, x \in Nat, e \in {EndOf(a, sc, k)} : u = Len(mine) /\ x = a[k].base /\ e = EndOf(a, sc, k)
    BY <2>2
  <2>4. e = x + u /\ \A j \in 1 .. u : sc[x + j] = mine[j]
    BY <1>1, <1>3, <2>1, <2>3 DEF SegmentOK
  <2>5. \A j \in 1 .. u : sc2[x + j] = mine[j]
    <3>1. \A j \in 1 .. u : x + j \in 1 .. e
      BY <2>4
    <3> QED
      BY <2>3, <2>4, <3>1
  <2>6. EndOf(b, sc2, k) = x + u /\ b[k].base = x /\ ~b[k].left /\ b[k].n = a[k].n
    BY <1>3, <2>3, <2>4
  <2> QED
    BY <2>1, <2>3, <2>5, <2>6 DEF SegmentOK
<1> QED
  BY <1>2, <1>3

\* A call's anchors are added at the end.
LEMMA ScopesPush ==
  ASSUME SchemaOK(schema), NEW a \in Seq(FrameType), NEW b \in Seq(FrameType), NEW l \in Nat,
         l >= 1, Len(a) = l, Len(b) = l + 1, SameBases(a, b, l), NEW sc, ScopesOK(a, sc),
         b[l + 1].base = Len(sc), b[l + 1].left = FALSE, NEW sc2,
         sc2 = sc \o schema.self_scope[b[l + 1].n]
  PROVE  ScopesOK(b, sc2)
<1>1. PICK m \in Nat : m = l + 1 /\ m \in 1 .. m /\ m # l
  OBVIOUS
<1>2. PICK own : own = schema.self_scope[b[m].n]
  OBVIOUS
<1>3. own \in Seq(Entry)
  <2>1. b[m] \in FrameType
    BY <1>1
  <2>2. b[m].n \in Object
    BY <2>1 DEF FrameType
  <2> QED
    BY <1>2, <2>2 DEF SchemaOK, OwnScope
<1>4. sc \in Seq(Entry)
  BY DEF ScopesOK
<1>5. PICK s \in Nat, t \in Nat : s = Len(sc) /\ t = Len(own)
  BY <1>3, <1>4
<1>6. sc2 = sc \o own
  BY <1>1, <1>2
<1>7. /\ sc2 \in Seq(Entry) /\ Len(sc2) = s + t
      /\ \A i \in 1 .. s : sc2[i] = sc[i]
      /\ \A i \in 1 .. t : sc2[s + i] = own[i]
  <2>1. sc2 \in Seq(Entry) /\ Len(sc2) = s + t /\ \A i \in 1 .. s : sc2[i] = sc[i]
    BY <1>3, <1>4, <1>5, <1>6
  <2>2. ASSUME NEW i \in 1 .. t PROVE sc2[s + i] = own[i]
    <3>1. s + i \in 1 .. s + t /\ ~(s + i <= s) /\ (s + i) - s = i
      OBVIOUS
    <3> QED
      BY <1>3, <1>4, <1>5, <1>6, <3>1
  <2> QED
    BY <2>1, <2>2
<1>8. SegmentOK(b, sc2, m)
  <2>1. EndOf(b, sc2, m) = s + t
    BY <1>1, <1>7 DEF EndOf
  <2>2. b[m].left = FALSE /\ b[m].base = s
    BY <1>1, <1>5
  <2> QED
    BY <1>2, <1>5, <1>7, <2>1, <2>2 DEF SegmentOK
<1>9. ASSUME NEW k \in 1 .. l PROVE SegmentOK(b, sc2, k)
  <2>1. b[k].n = a[k].n /\ b[k].base = a[k].base /\ b[k].left = a[k].left
    BY DEF SameBases
  <2>2. EndOf(b, sc2, k) = EndOf(a, sc, k)
    <3>1. CASE k = l
      BY <1>1, <1>5, <3>1 DEF EndOf
    <3>2. CASE k # l
      <4>1. k + 1 \in 1 .. l /\ k # l + 1
        BY <3>2
      <4> QED
        BY <3>2, <4>1 DEF EndOf, SameBases
    <3> QED
      BY <3>1, <3>2
  <2>3. k \in 1 .. Len(a) /\ EndOf(a, sc, k) \in a[k].base .. Len(sc) /\ a[k].base \in 0 .. Len(sc)
    BY Segments
  <2>4. PICK e \in Nat : e = EndOf(a, sc, k) /\ e <= s
    BY <1>5, <2>3
  <2>5. \A i \in 1 .. e : sc2[i] = sc[i]
    <3>1. \A i \in 1 .. e : i \in 1 .. s
      BY <2>4
    <3> QED
      BY <1>7, <3>1
  <2> QED
    BY <2>1, <2>2, <2>3, <2>4, <2>5, SegmentKept
<1>10. \A k \in 1 .. m : k \in 1 .. l \/ k = m
  BY <1>1
<1>11. b # << >> /\ b[1].base = 0
  <2>1. a # << >> /\ 1 \in 1 .. l /\ b # << >>
    OBVIOUS
  <2> QED
    BY <2>1 DEF ScopesOK, SameBases
<1> QED
  BY <1>1, <1>7, <1>8, <1>9, <1>10, <1>11 DEF ScopesOK

\* A sequence cut at c.
LEMMA CutAt ==
  ASSUME NEW X, NEW s \in Seq(X), NEW c \in Nat, c <= Len(s)
  PROVE  /\ SubSeq(s, 1, c) \in Seq(X) /\ Len(SubSeq(s, 1, c)) = c
         /\ \A i \in 1 .. c : SubSeq(s, 1, c)[i] = s[i]
OBVIOUS

\* The scope is cut where a segment begins, and the segment's activation is
\* gone or has left; those below stay.
LEMMA ScopesCut ==
  ASSUME SchemaOK(schema), NEW a \in Seq(FrameType), NEW b \in Seq(FrameType), NEW l \in Nat,
         NEW m \in Nat, m + 1 \in 1 .. Len(a), SameBases(a, b, m), NEW sc, ScopesOK(a, sc),
         NEW sc2, sc2 = SubSeq(sc, 1, a[m + 1].base), Len(b) = l,
         \/ l = m
         \/ l = m + 1 /\ b[l].base = a[l].base /\ b[l].left = TRUE
  PROVE  ScopesOK(b, sc2)
<1>1. PICK n \in Nat : n = m + 1 /\ n \in 1 .. Len(a) /\ m < n
  OBVIOUS
<1>2. sc \in Seq(Entry) /\ Len(a) \in Nat
  BY DEF ScopesOK
<1>3. PICK s \in Nat, c \in Nat : s = Len(sc) /\ c = a[n].base /\ c <= s
  <2>1. a[n].base \in 0 .. Len(sc) /\ Len(sc) \in Nat
    BY <1>1, <1>2, Segments
  <2> QED
    BY <2>1
<1>4. sc2 = SubSeq(sc, 1, c)
  BY <1>1, <1>3
<1>5. sc2 \in Seq(Entry) /\ Len(sc2) = c /\ \A i \in 1 .. c : sc2[i] = sc[i]
  <2>1. PICK X, t : X = Entry /\ t = SubSeq(sc, 1, c)
    OBVIOUS
  <2>2. sc \in Seq(X) /\ c <= Len(sc)
    BY <1>2, <1>3, <2>1
  <2>3. t \in Seq(X) /\ Len(t) = c /\ \A i \in 1 .. c : t[i] = sc[i]
    BY <2>1, <2>2, CutAt
  <2> QED
    BY <1>4, <2>1, <2>3
<1>6. ASSUME NEW k \in 1 .. m PROVE SegmentOK(b, sc2, k)
  <2>1. b[k].n = a[k].n /\ b[k].base = a[k].base /\ b[k].left = a[k].left
    BY DEF SameBases
  <2>2. k \in 1 .. Len(a) /\ k < n /\ k # Len(a)
    BY <1>1, <1>2
  <2>3. EndOf(b, sc2, k) = EndOf(a, sc, k)
    <3>1. CASE k = m
      <4>1. EndOf(a, sc, k) = c
        BY <1>1, <1>3, <2>2, <3>1 DEF EndOf
      <4>2. l = m \/ (l = n /\ l # m /\ b[l].base = c)
        BY <1>1, <1>3
      <4> QED
        BY <1>1, <1>5, <3>1, <4>1, <4>2 DEF EndOf
    <3>2. CASE k # m
      <4>1. k + 1 \in 1 .. m /\ k # l
        BY <1>1, <3>2
      <4> QED
        BY <2>2, <4>1 DEF EndOf, SameBases
    <3> QED
      BY <3>1, <3>2
  <2>4. PICK e \in Nat : e = EndOf(a, sc, k) /\ e <= c
    <3>1. EndOf(a, sc, k) <= a[n].base
      BY <1>1, <2>2, Segments
    <3>2. a[k].base \in 0 .. Len(sc) /\ EndOf(a, sc, k) \in a[k].base .. Len(sc)
      BY <1>2, <2>2, Segments
    <3>3. EndOf(a, sc, k) \in Nat
      BY <3>2
    <3> QED
      BY <1>3, <3>1, <3>3
  <2>5. \A i \in 1 .. e : sc2[i] = sc[i]
    <3>1. \A i \in 1 .. e : i \in 1 .. c
      BY <2>4
    <3> QED
      BY <1>5, <3>1
  <2> QED
    BY <2>1, <2>2, <2>3, <2>4, <2>5, SegmentKept
<1>7. ASSUME l = n PROVE SegmentOK(b, sc2, n)
  <2>1. b[n].left = TRUE /\ b[n].base = c
    BY <1>1, <1>3, <1>7
  <2>2. EndOf(b, sc2, n) = c
    BY <1>5, <1>7 DEF EndOf
  <2> QED
    BY <2>1, <2>2 DEF SegmentOK
<1>8. \A k \in 1 .. l : k \in 1 .. m \/ (k = n /\ l = n)
  BY <1>1
<1>9. a[1].base = 0
  <2>1. a # << >>
    BY <1>1
  <2> QED
    BY <2>1 DEF ScopesOK
<1>10. b # << >> => b[1].base = 0
  <2>1. CASE m = 0
    <3>1. b # << >> => l # 0
      OBVIOUS
    <3> QED
      BY <1>1, <1>9, <2>1, <3>1
  <2>2. CASE m # 0
    <3>1. 1 \in 1 .. m
      BY <2>2
    <3> QED
      BY <1>9, <3>1 DEF SameBases
  <2> QED
    BY <2>1, <2>2
<1>11. b = << >> => sc2 = << >>
  <2>1. ASSUME b = << >> PROVE c = 0
    <3>1. l = 0 /\ m = 0
      BY <1>1, <2>1
    <3> QED
      BY <1>1, <1>3, <1>9, <3>1
  <2> QED
    BY <1>5, <2>1
<1> QED
  BY <1>5, <1>6, <1>7, <1>8, <1>10, <1>11 DEF ScopesOK

\* An entry of the segment of activation k.
LiesIn(stk, sc, i, k) == stk[k].base < i /\ i <= EndOf(stk, sc, k)

\* Every entry lies in a segment, of an object on its node's line.
LEMMA EntryLies ==
  ASSUME SchemaOK(schema), NEW stk \in Seq(FrameType), NEW sc, ScopesOK(stk, sc),
         NEW i \in 1 .. Len(sc)
  PROVE  \E k \in 1 .. Len(stk) :
           /\ LiesIn(stk, sc, i, k) /\ ~stk[k].left /\ sc[i].owner = stk[k].n
           /\ sc[i].node \in schema.anchor /\ stk[k].n \in Line(schema.up, sc[i].node)
           /\ sc[i].res = schema.res_id[sc[i].node]
<1>1. PICK l \in Nat : l = Len(stk)
  OBVIOUS
<1>2. sc \in Seq(Entry) /\ Len(sc) \in Nat /\ i \in Nat /\ i >= 1
  BY DEF ScopesOK
<1>3. l >= 1 /\ stk[1].base = 0
  <2>1. stk # << >>
    <3>1. sc # << >>
      BY <1>2
    <3> QED
      BY <3>1 DEF ScopesOK
  <2> QED
    BY <1>1, <2>1 DEF ScopesOK
<1> DEFINE S == {k \in 1 .. l : stk[k].base < i}
<1>4. 1 \in S /\ S \in SUBSET (1 .. l)
  BY <1>2, <1>3
<1>5. PICK k \in S : \A y \in S : y <= k
  <2> HIDE DEF S
  <2> QED
    BY <1>4, GreatestNat
<1>6. k \in 1 .. l /\ stk[k].base < i
  OBVIOUS
<1>7. /\ stk[k].base \in 0 .. Len(sc) /\ SegmentOK(stk, sc, k)
      /\ \A j \in 1 .. l : stk[j].base \in 0 .. Len(sc)
  BY <1>1, <1>6, Segments DEF ScopesOK
<1>8. PICK e : e = EndOf(stk, sc, k)
  OBVIOUS
<1>9. e \in Nat /\ i <= e
  <2>1. CASE k = l
    BY <1>1, <1>2, <1>8, <2>1 DEF EndOf
  <2>2. CASE k # l
    <3>1. k + 1 \in 1 .. l /\ e = stk[k + 1].base
      BY <1>1, <1>6, <1>8, <2>2 DEF EndOf
    <3>2. ~(k + 1 \in S)
      <4>1. ~(k + 1 <= k)
        BY <1>6
      <4> HIDE DEF S
      <4> QED
        BY <1>5, <4>1
    <3>3. ~(e < i)
      BY <3>1, <3>2
    <3>4. e \in Nat
      BY <1>7, <3>1
    <3> QED
      BY <1>2, <3>3, <3>4
  <2> QED
    BY <2>1, <2>2
<1>10. PICK x \in Nat : x = stk[k].base /\ x < i
  BY <1>6, <1>7
<1>11. ~stk[k].left
  <2>1. ~(e = x)
    BY <1>2, <1>9, <1>10
  <2> QED
    BY <1>7, <1>8, <1>10, <2>1 DEF SegmentOK
<1>12. PICK own : own = schema.self_scope[stk[k].n]
  OBVIOUS
<1>13. stk[k].n \in Object
  <2>1. stk[k] \in FrameType
    BY <1>1, <1>6
  <2> QED
    BY <2>1 DEF FrameType
<1>14. OwnScope(schema, stk[k].n, own)
  BY <1>12, <1>13 DEF SchemaOK
<1>15. PICK u \in Nat : u = Len(own)
  BY <1>14 DEF OwnScope
<1>16. e = x + u /\ \A j \in 1 .. u : sc[x + j] = own[j]
  BY <1>7, <1>8, <1>10, <1>11, <1>12, <1>15 DEF SegmentOK
<1>17. PICK j \in 1 .. u : i = x + j
  <2>1. PICK y \in Nat : y = i /\ x < y /\ y <= x + u
    BY <1>2, <1>9, <1>10, <1>16
  <2>2. y - x \in 1 .. u /\ y = x + (y - x)
    BY <2>1
  <2> QED
    BY <2>1, <2>2
<1>18. sc[i] = own[j]
  BY <1>16, <1>17
<1>19. /\ own[j].node \in schema.anchor /\ stk[k].n \in Line(schema.up, own[j].node)
       /\ own[j].res = schema.res_id[own[j].node] /\ own[j].owner = stk[k].n
  BY <1>14, <1>15, <1>17 DEF OwnScope
<1>20. LiesIn(stk, sc, i, k)
  BY <1>8, <1>9, <1>10 DEF LiesIn
<1> QED
  BY <1>1, <1>6, <1>11, <1>18, <1>19, <1>20

\* A segment that is whole holds all anchors under its object, in order.
LEMMA SegmentHolds ==
  ASSUME SchemaOK(schema), NEW stk \in Seq(FrameType), NEW sc, ScopesOK(stk, sc),
         NEW k \in 1 .. Len(stk), ~stk[k].left
  PROVE  /\ \A m \in schema.anchor : stk[k].n \in Line(schema.up, m) =>
              \E i \in 1 .. Len(sc) : /\ LiesIn(stk, sc, i, k) /\ sc[i].node = m
                                      /\ sc[i].owner = stk[k].n /\ sc[i].res = schema.res_id[m]
         /\ \A i, j \in 1 .. Len(sc) : LiesIn(stk, sc, i, k) /\ LiesIn(stk, sc, j, k) /\ i < j =>
              sc[i].node < sc[j].node
<1>1. sc \in Seq(Entry) /\ Len(sc) \in Nat
  BY DEF ScopesOK
<1>2. stk[k].n \in Object /\ stk[k].base \in Nat
  <2>1. stk[k] \in FrameType
    OBVIOUS
  <2> QED
    BY <2>1 DEF FrameType
<1>3. PICK own : own = schema.self_scope[stk[k].n]
  OBVIOUS
<1>4. OwnScope(schema, stk[k].n, own)
  BY <1>2, <1>3 DEF SchemaOK
<1>5. PICK u \in Nat, x \in Nat, e \in {EndOf(stk, sc, k)} : u = Len(own) /\ x = stk[k].base /\ e = EndOf(stk, sc, k)
  BY <1>2, <1>4 DEF OwnScope
<1>6. e = x + u /\ \A j \in 1 .. u : sc[x + j] = own[j]
  <2>1. SegmentOK(stk, sc, k)
    BY DEF ScopesOK
  <2> QED
    BY <1>3, <1>5, <2>1 DEF SegmentOK
<1>7. e <= Len(sc)
  <2>1. EndOf(stk, sc, k) \in stk[k].base .. Len(sc)
    BY Segments
  <2> QED
    BY <1>1, <1>5, <1>6, <2>1
<1>8. ASSUME NEW m \in schema.anchor, stk[k].n \in Line(schema.up, m)
      PROVE  \E i \in 1 .. Len(sc) : /\ LiesIn(stk, sc, i, k) /\ sc[i].node = m
                                     /\ sc[i].owner = stk[k].n /\ sc[i].res = schema.res_id[m]
  <2>1. PICK j \in 1 .. u : own[j].node = m
    BY <1>4, <1>5, <1>8 DEF OwnScope
  <2>2. own[j].owner = stk[k].n /\ own[j].res = schema.res_id[m]
    BY <1>4, <1>5, <2>1 DEF OwnScope
  <2>3. PICK i \in 1 .. Len(sc) : i = x + j /\ x < i /\ i <= e
    <3>1. x + j \in 1 .. Len(sc) /\ x < x + j /\ x + j <= e
      BY <1>1, <1>6, <1>7
    <3> QED
      BY <3>1
  <2>4. sc[i] = own[j] /\ LiesIn(stk, sc, i, k)
    BY <1>5, <1>6, <2>3 DEF LiesIn
  <2> QED
    BY <2>1, <2>2, <2>4
<1>9. ASSUME NEW i \in 1 .. Len(sc), NEW j \in 1 .. Len(sc),
             LiesIn(stk, sc, i, k), LiesIn(stk, sc, j, k), i < j
      PROVE  sc[i].node < sc[j].node
  <2>1. i \in Nat /\ j \in Nat /\ x < i /\ i <= e /\ x < j /\ j <= e
    BY <1>1, <1>5, <1>9 DEF LiesIn
  <2>2. PICK p \in 1 .. u, q \in 1 .. u : i = x + p /\ j = x + q /\ p < q
    <3>1. i - x \in 1 .. u /\ j - x \in 1 .. u /\ i = x + (i - x) /\ j = x + (j - x) /\ i - x < j - x
      BY <1>6, <1>9, <2>1
    <3> QED
      BY <3>1
  <2>3. sc[i] = own[p] /\ sc[j] = own[q]
    BY <1>6, <2>2
  <2>4. own[p].node < own[q].node
    BY <1>4, <1>5, <2>2 DEF OwnScope
  <2> QED
    BY <2>3, <2>4
<1> QED
  BY <1>8, <1>9

\* The least of a set of numbers.
LEMMA LeastIs ==
  ASSUME NEW S \in SUBSET Nat, S # {}
  PROVE  Least(S) \in S /\ \A x \in S : Least(S) <= x
<1>1. \E x \in S : \A y \in S : x <= y
  BY LeastNat
<1> QED
  BY <1>1 DEF Least

\* scope_resolve: nothing, or the node of the first entry of the first
\* resource, outermost owner first, that has one.
LEMMA ResolveIs ==
  ASSUME SchemaOK(schema), NEW stk \in Seq(FrameType), ScopesOK(stk, scopes)
  PROVE  /\ Owners \subseteq 1 .. Len(scopes)
         /\ Owners = {} => ScopeResolve = 0
         /\ Owners # {} =>
              \E g \in Owners : \E r, f :
                /\ \A i \in Owners : g <= i
                /\ r = schema.res_id[scopes[g].owner] /\ f \in EntriesOf(r)
                /\ \A j \in EntriesOf(r) : f <= j
                /\ ScopeResolve = scopes[f].node /\ scopes[f].node \in Object
<1>1. scopes \in Seq(Entry) /\ DOMAIN scopes = 1 .. Len(scopes) /\ Len(scopes) \in Nat
  BY DEF ScopesOK
<1>2. Owners \subseteq 1 .. Len(scopes) /\ \A r : EntriesOf(r) \subseteq 1 .. Len(scopes)
  BY <1>1 DEF Owners, EntriesOf
<1>3. 1 .. Len(scopes) \subseteq Nat
  BY <1>1
<1>4. ASSUME Owners # {}
      PROVE  \E g \in Owners : \E r, f :
               /\ \A i \in Owners : g <= i
               /\ r = schema.res_id[scopes[g].owner] /\ f \in EntriesOf(r)
               /\ \A j \in EntriesOf(r) : f <= j
               /\ ScopeResolve = scopes[f].node /\ scopes[f].node \in Object
  <2>1. Owners \in SUBSET Nat
    BY <1>2, <1>3
  <2>2. PICK g \in Owners : g = Least(Owners) /\ \A i \in Owners : g <= i
    BY <1>4, <2>1, LeastIs
  <2>3. PICK r : r = schema.res_id[scopes[g].owner]
    OBVIOUS
  <2>4. EntriesOf(r) # {} /\ EntriesOf(r) \in SUBSET Nat
    BY <1>2, <1>3, <2>3 DEF Owners
  <2>5. PICK f \in EntriesOf(r) : f = Least(EntriesOf(r)) /\ \A j \in EntriesOf(r) : f <= j
    BY <2>4, LeastIs
  <2>6. ScopeResolve = scopes[f].node
    BY <1>4, <2>2, <2>3, <2>5 DEF ScopeResolve, Resolved
  <2>7. scopes[f] \in Entry
    BY <1>1, <1>2
  <2>8. scopes[f].node \in Object
    BY <2>7 DEF Entry
  <2> QED
    BY <2>2, <2>3, <2>5, <2>6, <2>8
<1>5. Owners = {} => ScopeResolve = 0
  BY DEF ScopeResolve
<1> QED
  BY <1>2, <1>4, <1>5

\* A $dynamicRef has a target.
LEMMA TargetIs ==
  ASSUME SchemaOK(schema), schema.anchor # {}, NEW stk \in Seq(FrameType), ScopesOK(stk, scopes),
         NEW n \in Object
  PROVE  Target(n) \in Object
<1>1. ScopeResolve = 0 \/ ScopeResolve \in Object
  BY ResolveIs
<1>2. schema.dynamic_ref_target[n] \in Object
  BY DEF SchemaOK
<1> QED
  BY <1>1, <1>2 DEF Target

-------------------------------------------------------------------------------
(***************************************************************************)
(* Where a $dynamicRef goes.                                               *)
(***************************************************************************)
\* An anchor on the path: the segment of the outermost activation of a
\* resource with an anchor holds all anchors of that resource.
LEMMA OutermostIs ==
  ASSUME SchemaOK(schema), schema.anchor # {}, stack \in Seq(FrameType), stack # << >>,
         ScopesOK(stack, scopes), ScopeWhole
  PROVE  Target(Top.n) = Promised
<1>1. PICK l \in Nat : l = Len(stack) /\ l >= 1 /\ DOMAIN stack = 1 .. l
  <2>1. Len(stack) \in Nat /\ Len(stack) >= 1 /\ DOMAIN stack = 1 .. Len(stack)
    OBVIOUS
  <2> QED
    BY <2>1
<1>2. PICK res, up, anchor : res = schema.res_id /\ up = schema.up /\ anchor = schema.anchor
  OBVIOUS
<1>3. /\ res \in [Object -> Object] /\ anchor \subseteq Object
      /\ \A n \in Object : res[n] \in Line(up, n) /\ res[res[n]] = res[n]
      /\ \A m, n \in Object : n \in Line(up, m) /\ res[m] < n => res[n] = res[m]
      /\ IsForest(Size, up)
  BY <1>2 DEF SchemaOK
<1>4. \A k \in 1 .. l : stack[k].n \in Object /\ ~stack[k].left
  <2>1. \A k \in 1 .. l : stack[k] \in FrameType
    BY <1>1
  <2> QED
    BY <1>1, <2>1 DEF FrameType, ScopeWhole
<1>5. \A k \in 1 .. l : \E j \in 1 .. k : stack[j].n = res[stack[k].n]
  BY <1>1, <1>2 DEF ScopeWhole
<1>6. Size \in Nat /\ \A n \in Object : n \in Nat
  BY ScopeAssumption DEF Object
<1>7. PICK hits : hits = {i \in 1 .. l : AnchorsOf(res[stack[i].n]) # {}}
  OBVIOUS
<1>8. \A r : AnchorsOf(r) = {m \in anchor : res[m] = r}
  BY <1>2 DEF AnchorsOf
\* The owner of an entry that counts is a hit.
<1>9. ASSUME NEW i \in 1 .. Len(scopes)
      PROVE  /\ scopes[i].node \in anchor /\ scopes[i].res = res[scopes[i].node]
             /\ scopes[i].node \in AnchorsOf(scopes[i].res)
             /\ \E k \in 1 .. l : /\ LiesIn(stack, scopes, i, k) /\ scopes[i].owner = stack[k].n
                                  /\ stack[k].n \in Line(up, scopes[i].node)
  <2>1. PICK k \in 1 .. Len(stack) :
          /\ LiesIn(stack, scopes, i, k) /\ scopes[i].owner = stack[k].n
          /\ scopes[i].node \in schema.anchor /\ stack[k].n \in Line(schema.up, scopes[i].node)
          /\ scopes[i].res = schema.res_id[scopes[i].node]
    BY EntryLies
  <2> QED
    BY <1>1, <1>2, <1>8, <2>1
<1>10. /\ Owners \subseteq 1 .. Len(scopes)
       /\ \A i \in Owners : EntriesOf(res[scopes[i].owner]) # {}
       /\ \A i \in 1 .. Len(scopes) : EntriesOf(res[scopes[i].owner]) # {} => i \in Owners
       /\ \A r, j : j \in EntriesOf(r) <=> j \in 1 .. Len(scopes) /\ scopes[j].res = r
  <2>1. DOMAIN scopes = 1 .. Len(scopes)
    BY DEF ScopesOK
  <2> QED
    BY <1>2, <2>1 DEF Owners, EntriesOf
<1>11. ASSUME NEW i \in Owners, NEW k \in 1 .. l, scopes[i].owner = stack[k].n
       PROVE  k \in hits
  <2>1. PICK j : j \in EntriesOf(res[stack[k].n])
    BY <1>10, <1>11
  <2>2. j \in 1 .. Len(scopes) /\ scopes[j].res = res[stack[k].n]
    BY <1>10, <2>1
  <2>3. scopes[j].node \in AnchorsOf(res[stack[k].n])
    BY <1>9, <2>2
  <2> QED
    BY <1>7, <2>3
<1>12. CASE hits = {}
  <2>1. Owners = {}
    <3>1. ASSUME NEW i \in Owners PROVE FALSE
      <4>1. PICK k \in 1 .. l : scopes[i].owner = stack[k].n
        BY <1>9, <1>10
      <4> QED
        BY <1>11, <1>12, <4>1
    <3> QED
      BY <3>1
  <2>2. Target(Top.n) = schema.dynamic_ref_target[Top.n]
    BY <2>1 DEF Target, ScopeResolve
  <2>3. {i \in DOMAIN stack : AnchorsOf(schema.res_id[stack[i].n]) # {}} = {}
    BY <1>1, <1>2, <1>7, <1>12
  <2> QED
    BY <2>2, <2>3 DEF Promised, Definers
<1>13. CASE hits # {}
  <2>1. hits \subseteq 1 .. l /\ hits \in SUBSET Nat
    BY <1>7
  <2>2. PICK h \in hits : h = Least(hits) /\ \A x \in hits : h <= x
    BY <1>13, <2>1, LeastIs
  <2>3. PICK r : r = res[stack[h].n]
    OBVIOUS
  <2>4. h \in 1 .. l /\ AnchorsOf(r) # {} /\ r \in Object
    BY <1>3, <1>4, <1>7, <2>1, <2>3
  \* The resource was entered at its root.
  <2>5. stack[h].n = r
    <3>1. PICK j \in 1 .. h : stack[j].n = r
      BY <1>5, <2>3, <2>4
    <3>2. j \in 1 .. l /\ res[stack[j].n] = r
      BY <1>3, <1>4, <2>3, <2>4, <3>1
    <3>3. j \in hits
      BY <1>7, <2>4, <3>2
    <3>4. j = h
      <4>1. h <= j /\ j \in Nat /\ h \in Nat /\ j <= h
        BY <2>2, <2>4, <3>1, <3>3
      <4> QED
        BY <4>1
    <3> QED
      BY <3>1, <3>4
  \* So its segment holds every anchor of the resource.
  <2>6. ASSUME NEW m \in AnchorsOf(r)
        PROVE  \E i \in EntriesOf(r) : /\ LiesIn(stack, scopes, i, h) /\ scopes[i].node = m
                                       /\ i \in Owners
    <3>1. m \in anchor /\ res[m] = r /\ m \in Object
      BY <1>3, <1>8
    <3>2. stack[h].n \in Line(up, m)
      BY <1>3, <2>5, <3>1
    <3>3. PICK i \in 1 .. Len(scopes) :
            /\ LiesIn(stack, scopes, i, h) /\ scopes[i].node = m
            /\ scopes[i].owner = stack[h].n /\ scopes[i].res = res[m]
      BY <1>1, <1>2, <1>4, <2>4, <3>1, <3>2, SegmentHolds
    <3>4. i \in EntriesOf(r)
      BY <1>10, <3>1, <3>3
    <3>5. res[scopes[i].owner] = r
      BY <2>3, <3>3
    <3>6. i \in Owners
      BY <1>10, <3>4, <3>5
    <3> QED
      BY <3>3, <3>4, <3>6
  <2>7. PICK m0 \in AnchorsOf(r) : TRUE
    BY <2>4
  <2>8. PICK e \in EntriesOf(r) : LiesIn(stack, scopes, e, h) /\ e \in Owners
    BY <2>6, <2>7
  <2>9. e \in 1 .. Len(scopes) /\ Len(scopes) \in Nat
    BY <1>10, <2>8 DEF ScopesOK
  \* The entries of an activation above lie above.
  <2>10. ASSUME NEW k \in 1 .. l, h < k, NEW i \in 1 .. Len(scopes), LiesIn(stack, scopes, i, k)
         PROVE  e < i
    <3>1. EndOf(stack, scopes, h) <= stack[k].base
      BY <1>1, <2>4, <2>10, Segments
    <3>2. stack[k].base < i /\ e <= EndOf(stack, scopes, h)
      BY <2>8, <2>10 DEF LiesIn
    <3>3. PICK x \in Nat, y \in Nat : x = EndOf(stack, scopes, h) /\ y = stack[k].base
      <4>1. /\ EndOf(stack, scopes, h) \in stack[h].base .. Len(scopes)
            /\ stack[h].base \in 0 .. Len(scopes) /\ stack[k].base \in 0 .. Len(scopes)
        BY <1>1, <2>4, Segments
      <4>2. EndOf(stack, scopes, h) \in Nat /\ stack[k].base \in Nat
        BY <2>9, <4>1
      <4> QED
        BY <4>2
    <3>4. e \in Nat /\ i \in Nat
      BY <2>9
    <3> QED
      BY <3>1, <3>2, <3>3, <3>4
  <2>11. PICK g \in Owners : \E r2, f :
           /\ \A i \in Owners : g <= i
           /\ r2 = res[scopes[g].owner] /\ f \in EntriesOf(r2)
           /\ \A j \in EntriesOf(r2) : f <= j
           /\ ScopeResolve = scopes[f].node /\ scopes[f].node \in Object
    BY <1>2, <2>8, ResolveIs
  <2>12. PICK r2, f :
           /\ \A i \in Owners : g <= i
           /\ r2 = res[scopes[g].owner] /\ f \in EntriesOf(r2)
           /\ \A j \in EntriesOf(r2) : f <= j
           /\ ScopeResolve = scopes[f].node /\ scopes[f].node \in Object
    BY <2>11
  \* The outermost owner is the outermost hit.
  <2>13. r2 = r
    <3>1. g \in 1 .. Len(scopes)
      BY <1>10
    <3>2. PICK k \in 1 .. l : LiesIn(stack, scopes, g, k) /\ scopes[g].owner = stack[k].n
      BY <1>9, <3>1
    <3>3. k \in hits
      BY <1>11, <3>2
    <3>4. ~(h < k)
      <4>1. ~(e < g)
        BY <2>8, <2>9, <2>12, <3>1
      <4> QED
        BY <2>10, <3>1, <3>2, <4>1
    <3>5. k = h
      <4>1. h <= k /\ k \in Nat /\ h \in Nat
        BY <2>2, <2>4, <3>3
      <4> QED
        BY <3>4, <4>1
    <3> QED
      BY <2>3, <2>12, <3>2, <3>5
  \* The first entry lies in the segment of that hit or of an activation
  \* further out, at or above the root of the resource: all anchors follow.
  <2>14. ASSUME NEW m \in AnchorsOf(r) PROVE scopes[f].node <= m
    <3>1. f \in 1 .. Len(scopes) /\ scopes[f].res = r
      BY <1>10, <2>12, <2>13
    <3>2. PICK k \in 1 .. l : /\ LiesIn(stack, scopes, f, k) /\ scopes[f].owner = stack[k].n
                              /\ stack[k].n \in Line(up, scopes[f].node)
      BY <1>9, <3>1
    <3>3. scopes[f].node \in anchor /\ res[scopes[f].node] = r
      BY <1>9, <3>1
    <3>4. m \in anchor /\ m \in Object /\ res[m] = r
      BY <1>3, <1>8
    <3>5. PICK n \in Object, a \in Object : n = stack[k].n /\ a = scopes[f].node
      BY <1>3, <1>4, <3>3
    <3>6. n <= r
      <4>1. SUFFICES ASSUME ~(n <= r) PROVE FALSE
        OBVIOUS
      <4>2. r < n
        BY <1>6, <2>4, <4>1
      <4>3. res[n] = r
        BY <1>3, <3>2, <3>3, <3>5, <4>2
      <4>4. k \in hits
        BY <1>7, <2>4, <3>5, <4>3
      <4>5. h <= k /\ h \in Nat /\ k \in Nat
        BY <2>2, <2>4, <4>4
      <4>6. h # k
        BY <1>6, <2>4, <2>5, <3>5, <4>2
      <4>7. e < f
        <5>1. h < k
          BY <4>5, <4>6
        <5> QED
          BY <2>10, <3>1, <3>2, <5>1
      <4>8. f <= e
        BY <2>8, <2>12, <2>13
      <4> QED
        BY <2>9, <3>1, <4>7, <4>8
    <3>7. n \in Line(up, m)
      <4>1. r \in Line(up, a) /\ n \in Line(up, a)
        BY <1>3, <3>2, <3>3, <3>5
      <4>2. n \in Line(up, r)
        BY <1>3, <3>5, <3>6, <4>1, LineOf
      <4>3. r \in Line(up, m)
        BY <1>3, <3>4
      <4> QED
        BY <1>3, <3>4, <4>2, <4>3, LineOf
    <3>8. PICK i \in 1 .. Len(scopes) :
            /\ LiesIn(stack, scopes, i, k) /\ scopes[i].node = m /\ scopes[i].res = r
      BY <1>1, <1>2, <1>4, <3>4, <3>5, <3>7, SegmentHolds
    <3>9. f <= i
      BY <1>10, <2>12, <2>13, <3>8
    <3>10. CASE f = i
      BY <1>6, <3>4, <3>8, <3>10
    <3>11. CASE f # i
      <4>1. f < i
        BY <2>9, <3>1, <3>9, <3>11
      <4>2. scopes[f].node < scopes[i].node
        BY <1>1, <1>4, <3>1, <3>2, <3>8, <4>1, SegmentHolds
      <4> QED
        BY <1>6, <3>4, <3>5, <3>8, <4>2
    <3> QED
      BY <3>10, <3>11
  <2>15. scopes[f].node \in AnchorsOf(r)
    <3>1. f \in 1 .. Len(scopes) /\ scopes[f].res = r
      BY <1>10, <2>12, <2>13
    <3> QED
      BY <1>9, <3>1
  <2>16. scopes[f].node = Least(AnchorsOf(r))
    <3>1. AnchorsOf(r) \in SUBSET Nat
      BY <1>3, <1>6, <1>8
    <3>2. Least(AnchorsOf(r)) \in AnchorsOf(r) /\ \A x \in AnchorsOf(r) : Least(AnchorsOf(r)) <= x
      BY <2>4, <3>1, LeastIs
    <3>3. PICK x \in Nat, y \in Nat : x = scopes[f].node /\ y = Least(AnchorsOf(r))
      BY <2>15, <3>1, <3>2
    <3>4. x <= y /\ y <= x
      BY <2>14, <2>15, <3>2, <3>3
    <3> QED
      BY <3>3, <3>4
  <2>17. Target(Top.n) = Least(AnchorsOf(r))
    <3>1. ScopeResolve # 0
      BY <2>12 DEF Object
    <3> QED
      BY <2>12, <2>16, <3>1 DEF Target
  <2>18. {i \in DOMAIN stack : AnchorsOf(schema.res_id[stack[i].n]) # {}} = hits
    BY <1>1, <1>2, <1>7
  <2>19. Promised = Least(AnchorsOf(schema.res_id[stack[Least(hits)].n]))
    BY <1>13, <2>18 DEF Promised, Definers, AnchorAt
  <2>20. schema.res_id[stack[Least(hits)].n] = r
    BY <1>2, <2>2, <2>3
  <2> QED
    BY <2>17, <2>19, <2>20
<1> QED
  BY <1>12, <1>13

-------------------------------------------------------------------------------
(***************************************************************************)
(* Every step.                                                             *)
(***************************************************************************)
\* Lists of tasks are joined.
LEMMA TasksJoin ==
  ASSUME NEW n, NEW a, TasksFit(a, n), NEW b, TasksFit(b, n), NEW c, c = a \o b
  PROVE  TasksFit(c, n)
<1>1. PICK T : T = TaskType
  OBVIOUS
<1>2. a \in Seq(T) /\ b \in Seq(T)
  BY <1>1 DEF TasksFit
<1>3. PICK s \in Nat, t \in Nat : s = Len(a) /\ t = Len(b)
  BY <1>2
<1>4. c \in Seq(T) /\ Len(c) = s + t
  BY <1>2, <1>3
<1>5. ASSUME NEW j \in 1 .. s + t PROVE TaskOK(c[j], n)
  <2>1. CASE j <= s
    <3>1. j \in 1 .. s /\ c[j] = a[j]
      BY <1>2, <1>3, <2>1
    <3> QED
      BY <1>3, <3>1 DEF TasksFit
  <2>2. CASE ~(j <= s)
    <3>1. PICK i \in 1 .. t : i = j - s
      <4>1. j - s \in 1 .. t
        BY <2>2
      <4> QED
        BY <4>1
    <3>2. c[j] = b[i]
      BY <1>2, <1>3, <2>2, <3>1
    <3> QED
      BY <1>3, <3>2 DEF TasksFit
  <2> QED
    BY <2>1, <2>2
<1> QED
  BY <1>1, <1>4, <1>5 DEF TasksFit

\* A single task.
LEMMA TaskAlone ==
  ASSUME NEW n, NEW t \in TaskType, TaskOK(t, n)
  PROVE  TasksFit(<<t>>, n) /\ TasksFit(<< >>, n)
<1>1. <<t>> \in Seq(TaskType) /\ << >> \in Seq(TaskType) /\ Len(<<t>>) = 1 /\ Len(<< >>) = 0
  OBVIOUS
<1>2. \A j \in 1 .. 1 : <<t>>[j] = t
  OBVIOUS
<1>3. \A j \in 1 .. 0 : FALSE
  OBVIOUS
<1>4. TasksFit(<<t>>, n)
  BY <1>1, <1>2 DEF TasksFit
<1>5. TasksFit(<< >>, n)
  BY <1>1, <1>3 DEF TasksFit
<1> QED
  BY <1>4, <1>5

\* The subschemas lie below the object.
LEMMA AppliedFit ==
  ASSUME SchemaOK(schema), NEW n \in Object, NEW use \in {"member", "place"}
  PROVE  TasksFit(Applied(n, use), n)
<1>1. PICK S : S = {m \in Object : schema.up[m] = n /\ schema.use[m] = use}
  OBVIOUS
<1>2. PICK below : below = InOrder(S) /\ Lists(below, S, Size)
  BY InOrderLists
<1>3. PICK l \in Nat : /\ l = Len(below)
                       /\ \A j \in 1 .. l : below[j] \in S
  BY <1>2 DEF Lists
<1>4. \A m \in S : m \in Object /\ n < m
  <2>1. \A m \in 1 .. Size : schema.up[m] < m
    BY DEF SchemaOK, IsForest
  <2> QED
    BY <1>1, <2>1 DEF Object
<1>5. PICK ts : ts = [i \in 1 .. l |-> Task(use, below[i])]
  OBVIOUS
<1>6. \A i \in 1 .. l : ts[i] \in TaskType /\ TaskOK(ts[i], n)
  <2>1. ASSUME NEW i \in 1 .. l PROVE ts[i] \in TaskType /\ TaskOK(ts[i], n)
    <3>1. PICK m \in Object : m = below[i] /\ n < m
      BY <1>3, <1>4
    <3>2. ts[i] = [call |-> use, n |-> m]
      BY <1>5, <3>1 DEF Task
    <3>3. m \in 0 .. Size
      BY ScopeAssumption DEF Object
    <3>4. ts[i].call = use /\ ts[i].n = m /\ ts[i] \in TaskType
      BY <3>2, <3>3 DEF TaskType
    <3>5. use # "ref" /\ use # "dynref"
      OBVIOUS
    <3> QED
      BY <3>1, <3>4, <3>5 DEF TaskOK
  <2> QED
    BY <2>1
<1>7. ts \in Seq(TaskType) /\ Len(ts) = l
  BY <1>5, <1>6
<1>8. Applied(n, use) = ts
  BY <1>1, <1>2, <1>3, <1>5 DEF Applied
<1> QED
  BY <1>6, <1>7, <1>8 DEF TasksFit

\* The tasks of an object.
LEMMA TasksAre ==
  ASSUME SchemaOK(schema), NEW n \in Object
  PROVE  TasksFit(Tasks(n), n)
<1>1. TasksFit(Applied(n, "member"), n) /\ TasksFit(Applied(n, "place"), n)
  BY AppliedFit
<1>2. PICK ref : ref = IF schema.ref[n] # 0 THEN <<Task("ref", schema.ref[n])>> ELSE << >>
  OBVIOUS
<1>3. PICK dynref : dynref = IF schema.dyn = n THEN <<Task("dynref", 0)>> ELSE << >>
  OBVIOUS
<1>4. TasksFit(<< >>, n)
  BY DEF TasksFit
<1>5. Size \in Nat /\ \A m \in Object : m \in 0 .. Size /\ m # 0
  BY ScopeAssumption DEF Object
<1>6. TasksFit(ref, n)
  <2>1. CASE schema.ref[n] = 0
    BY <1>2, <1>4, <2>1
  <2>2. CASE schema.ref[n] # 0
    <3>1. PICK m \in 0 .. Size : m = schema.ref[n] /\ m \in Object
      BY <1>5, <2>2 DEF SchemaOK, Object
    <3>2. PICK t : t = Task("ref", m)
      OBVIOUS
    <3>3. t \in TaskType /\ t.call = "ref" /\ t.n = m
      BY <3>2 DEF Task, TaskType
    <3>4. TaskOK(t, n)
      BY <3>1, <3>3 DEF TaskOK
    <3>5. ref = <<t>>
      BY <1>2, <2>2, <3>1, <3>2
    <3> QED
      BY <3>3, <3>4, <3>5, TaskAlone
  <2> QED
    BY <2>1, <2>2
<1>7. TasksFit(dynref, n)
  <2>1. CASE schema.dyn # n
    BY <1>3, <1>4, <2>1
  <2>2. CASE schema.dyn = n
    <3>1. schema.anchor # {}
      BY <1>5, <2>2 DEF SchemaOK
    <3>2. PICK t : t = Task("dynref", 0)
      OBVIOUS
    <3>3. t \in TaskType /\ t.call = "dynref"
      BY <1>5, <3>2 DEF Task, TaskType
    <3>4. TaskOK(t, n)
      BY <3>1, <3>3 DEF TaskOK
    <3>5. dynref = <<t>>
      BY <1>3, <2>2, <3>2
    <3> QED
      BY <3>3, <3>4, <3>5, TaskAlone
  <2> QED
    BY <2>1, <2>2
<1>8. PICK a, b, c : a = dynref \o ref /\ b = a \o Applied(n, "member") /\ c = b \o Applied(n, "place")
  OBVIOUS
<1>9. TasksFit(a, n)
  BY <1>6, <1>7, <1>8, TasksJoin
<1>10. TasksFit(b, n)
  BY <1>1, <1>8, <1>9, TasksJoin
<1>11. TasksFit(c, n)
  BY <1>1, <1>8, <1>10, TasksJoin
<1>12. Tasks(n) = ref \/ Tasks(n) = c
  <2>1. Tasks(n) = IF schema.ref_only /\ ref # <<>> THEN ref
                   ELSE dynref \o ref \o Applied(n, "member") \o Applied(n, "place")
    BY <1>2, <1>3 DEF Tasks
  <2> QED
    BY <1>8, <2>1
<1> QED
  BY <1>6, <1>11, <1>12

\* A new activation.
IsNew(f, n, call, base, saved) ==
  /\ f \in FrameType /\ TasksFit(f.todo, f.n)
  /\ f.n = n /\ f.call = call /\ f.base = base /\ f.saved = saved /\ f.left = FALSE

\* An activation begins with its object's tasks.
LEMMA ActivationIs ==
  ASSUME SchemaOK(schema), NEW n \in Object, NEW call \in Call, NEW base \in Nat, NEW saved \in Nat
  PROVE  IsNew(Activation(n, call, base, saved), n, call, base, saved)
<1>0. PICK f : f = Activation(n, call, base, saved)
  OBVIOUS
<1>1. PICK ts : ts = Tasks(n) /\ TasksFit(ts, n) /\ ts \in Seq(TaskType)
  BY TasksAre DEF TasksFit
<1>2. f = [n |-> n, call |-> call, base |-> base, saved |-> saved, left |-> FALSE, todo |-> ts]
  BY <1>0, <1>1 DEF Activation
<1>3. f.n = n /\ f.call = call /\ f.base = base /\ f.saved = saved /\ f.left = FALSE /\ f.todo = ts
  BY <1>2
<1>4. f \in FrameType
  BY <1>1, <1>2 DEF FrameType
<1> QED
  BY <1>0, <1>1, <1>3, <1>4 DEF IsNew

\* The newest activation and its first task.
LEMMA TopIs ==
  ASSUME IInv, stack # << >>
  PROVE  /\ stack \in Seq(FrameType) /\ Len(stack) \in Nat /\ Len(stack) >= 1
         /\ Len(stack) \in 1 .. Len(stack)
         /\ Top = stack[Len(stack)] /\ Top \in FrameType /\ Top.n \in Object
         /\ Top.call \in Call /\ Top.base \in Nat /\ Top.todo \in Seq(TaskType)
         /\ TasksFit(Top.todo, Top.n) /\ ref_depth \in Nat
<1>1. stack \in Seq(FrameType)
  BY DEF IInv, FramesOK
<1>2. Len(stack) \in Nat /\ Len(stack) >= 1 /\ Len(stack) \in 1 .. Len(stack)
  BY <1>1
<1>3. Top = stack[Len(stack)] /\ Top \in FrameType
  BY <1>1, <1>2 DEF Top
<1>4. Top.n \in Object /\ Top.call \in Call /\ Top.base \in Nat /\ Top.todo \in Seq(TaskType)
  BY <1>3 DEF FrameType
<1>5. TasksFit(Top.todo, Top.n)
  BY <1>2, <1>3 DEF IInv, FramesOK
<1>6. ref_depth \in Nat
  BY <1>2, RefsCount DEF IInv, DepthOK
<1> QED
  BY <1>1, <1>2, <1>3, <1>4, <1>5, <1>6

\* A task is taken.
LEMMA TurnIs ==
  ASSUME IInv, stack # << >>, Top.todo # << >>, NEW stk, stk = Turned
  PROVE  /\ FramesOK(stk) /\ stk \in Seq(FrameType) /\ Len(stk) = Len(stack)
         /\ SameCalls(stack, stk, Len(stack)) /\ SameBases(stack, stk, Len(stack))
         /\ Head(Top.todo) \in TaskType /\ TaskOK(Head(Top.todo), Top.n)
<1>1. PICK l \in Nat : l = Len(stack) /\ l \in 1 .. l /\ stack \in Seq(FrameType)
  BY TopIs
<1>2. PICK f \in FrameType : f = stack[l] /\ f = Top
  BY <1>1, TopIs
<1>3. PICK ts : ts = f.todo /\ ts \in Seq(TaskType) /\ ts # << >> /\ TasksFit(ts, f.n)
  BY <1>2, TopIs
<1>4. PICK tl : tl = Tail(ts)
  OBVIOUS
<1>5. /\ tl \in Seq(TaskType) /\ Len(tl) = Len(ts) - 1
      /\ \A j \in 1 .. Len(tl) : tl[j] = ts[j + 1] /\ j + 1 \in 1 .. Len(ts)
      /\ Head(ts) = ts[1] /\ 1 \in 1 .. Len(ts) /\ Head(ts) \in TaskType
  <2>1. PICK T : T = TaskType
    OBVIOUS
  <2>2. ts \in Seq(T) /\ Len(ts) \in Nat /\ Len(ts) >= 1
    BY <1>3, <2>1
  <2>3. tl \in Seq(T) /\ Len(tl) = Len(ts) - 1
    BY <1>3, <1>4, <2>2
  <2>4. \A j \in 1 .. Len(tl) : tl[j] = ts[j + 1] /\ j + 1 \in 1 .. Len(ts)
    BY <1>3, <1>4, <2>2, <2>3
  <2>5. Head(ts) = ts[1] /\ 1 \in 1 .. Len(ts) /\ Head(ts) \in T
    BY <2>2
  <2> QED
    BY <2>1, <2>3, <2>4, <2>5
<1>6. TasksFit(tl, f.n) /\ TaskOK(Head(ts), f.n)
  BY <1>3, <1>5 DEF TasksFit
<1>7. PICK g : g = [f EXCEPT !.todo = tl]
  OBVIOUS
<1>8. /\ g \in FrameType /\ g.n = f.n /\ g.call = f.call /\ g.base = f.base
      /\ g.saved = f.saved /\ g.left = f.left /\ g.todo = tl
  BY <1>5, <1>7 DEF FrameType
<1>9. /\ stk \in Seq(FrameType) /\ Len(stk) = l /\ stk[l] = g
      /\ \A i \in 1 .. l : i # l => stk[i] = stack[i]
  <2>1. stk = [stack EXCEPT ![l] = g]
    BY <1>1, <1>2, <1>3, <1>4, <1>7 DEF Turned
  <2> QED
    BY <1>1, <1>8, <2>1
<1>10. \A i \in 1 .. l : /\ stk[i].n = stack[i].n /\ stk[i].call = stack[i].call
                         /\ stk[i].base = stack[i].base /\ stk[i].left = stack[i].left
                         /\ stk[i].saved = stack[i].saved
  BY <1>2, <1>8, <1>9
<1>11. ASSUME NEW i \in 1 .. l
       PROVE  TasksFit(stk[i].todo, stk[i].n) /\ (stk[i].call = "root" <=> i = 1)
  <2>1. TasksFit(stack[i].todo, stack[i].n) /\ (stack[i].call = "root" <=> i = 1)
    BY <1>1 DEF IInv, FramesOK
  <2>2. CASE i = l
    BY <1>6, <1>8, <1>9, <1>10, <2>1, <2>2
  <2>3. CASE i # l
    BY <1>9, <2>1, <2>3
  <2> QED
    BY <2>2, <2>3
<1>12. FramesOK(stk)
  BY <1>9, <1>11 DEF FramesOK
<1>13. SameCalls(stack, stk, l) /\ SameBases(stack, stk, l)
  BY <1>10 DEF SameCalls, SameBases
<1> QED
  BY <1>1, <1>2, <1>3, <1>5, <1>6, <1>9, <1>12, <1>13

\* The schema path is a sequence of segments.
LEMMA SPathIs ==
  ASSUME NEW X, NEW d \in Nat, NEW sl, \A i \in 1 .. d : sl[i] \in X,
         NEW s, s = [i \in 1 .. d |-> sl[i]]
  PROVE  s \in Seq(X) /\ Len(s) = d /\ \A i \in 1 .. d : s[i] = sl[i]
OBVIOUS

\* No segment is not a segment.
LEMMA NoSegIs == NoSeg \notin SegSet
<1>1. ASSUME NEW call, NEW n PROVE Seg(call, n) # << >>
  <2>1. <<call, n>> # << >> /\ <<call>> # << >>
    OBVIOUS
  <2> QED
    BY <2>1 DEF Seg
<1> QED
  BY <1>1 DEF NoSeg, SegSet

\* s is what the slots show, and sl2 is sl with a segment written.
Shows(s, sl, d) == s = [i \in 1 .. d |-> sl[i]]
Writes(sl, sl2, d, seg) == sl2 = [sl EXCEPT ![d + 1] = seg]

\* A segment is written where there is room, and shown.
LEMMA SPushIs ==
  ASSUME SPathCap \in Nat, NEW X, NEW stk, NEW sl, NEW d, SlotsOK(stk, sl, d), X = SegSet,
         NEW seg \in X, d < SPathCap, NEW sl2, Writes(sl, sl2, d, seg),
         NEW s, Shows(s, sl, d), NEW s2, Shows(s2, sl2, d + 1)
  PROVE  SlotsOK(stk, sl2, d + 1) /\ s2 = Append(s, seg)
<1>1. /\ d \in Nat /\ d + 1 \in 0 .. SPathCap /\ d + 1 \in 1 .. SPathCap
      /\ sl \in [1 .. SPathCap -> X \cup {NoSeg}] /\ \A i \in 1 .. d : sl[i] \in X /\ i # d + 1
      /\ \A i \in 1 .. d : i \in 1 .. SPathCap
      /\ \A i \in 1 .. d + 1 : i \in 1 .. d \/ i = d + 1
  BY DEF SlotsOK
<1>2. /\ sl2 \in [1 .. SPathCap -> X \cup {NoSeg}] /\ sl2[d + 1] = seg
      /\ \A i \in 1 .. d : sl2[i] = sl[i]
      /\ \A i \in 1 .. SPathCap : sl[i] \in X => sl2[i] \in X
  BY <1>1 DEF Writes
<1>3. \A i \in 1 .. d + 1 : sl2[i] \in X
  BY <1>1, <1>2
<1>4. ASSUME NEW k \in 1 .. Len(stk)
      PROVE  stk[k].saved \in 0 .. SPathCap /\ \A i \in 1 .. stk[k].saved : sl2[i] \in X
  <2>1. stk[k].saved \in 0 .. SPathCap /\ \A i \in 1 .. stk[k].saved : sl[i] \in X /\ i \in 1 .. SPathCap
    BY DEF SlotsOK
  <2> QED
    BY <1>2, <2>1
<1>5. SlotsOK(stk, sl2, d + 1)
  BY <1>1, <1>2, <1>3, <1>4 DEF SlotsOK
<1>6. s \in Seq(X) /\ Len(s) = d /\ \A i \in 1 .. d : s[i] = sl[i]
  BY <1>1, SPathIs DEF Shows
<1>7. s2 \in Seq(X) /\ Len(s2) = d + 1 /\ \A i \in 1 .. d + 1 : s2[i] = sl2[i]
  <2>1. PICK e \in Nat : e = d + 1
    BY <1>1
  <2> QED
    BY <1>3, <2>1, SPathIs DEF Shows
<1>8. PICK t : t = Append(s, seg) /\ t \in Seq(X) /\ Len(t) = d + 1 /\ t[d + 1] = seg /\ \A i \in 1 .. d : t[i] = s[i]
  <2>1. PICK t : t = Append(s, seg)
    OBVIOUS
  <2>2. t \in Seq(X) /\ Len(t) = Len(s) + 1 /\ t[Len(s) + 1] = seg /\ \A i \in 1 .. Len(s) : t[i] = s[i]
    BY <1>6, <2>1
  <2> QED
    BY <1>6, <2>1, <2>2
<1>9. \A i \in 1 .. d + 1 : s2[i] = t[i]
  BY <1>1, <1>2, <1>6, <1>7, <1>8
<1>10. s2 = t
  <2>1. PICK e \in Nat : e = d + 1
    BY <1>1
  <2>2. Len(s2) = e /\ Len(t) = e /\ \A i \in 1 .. e : s2[i] = t[i]
    BY <1>7, <1>8, <1>9, <2>1
  <2> QED
    BY <1>7, <1>8, <2>1, <2>2
<1> QED
  BY <1>5, <1>8, <1>10

\* What the calls have saved stays when their tasks are taken.
LEMMA PathsSame ==
  ASSUME NEW a \in Seq(FrameType), NEW b \in Seq(FrameType), Len(b) = Len(a),
         SameCalls(a, b, Len(a)), NEW sl, NEW d
  PROVE  /\ SlotsOK(a, sl, d) => SlotsOK(b, sl, d)
         /\ ChainOK(a, d) => ChainOK(b, d)
<1>1. PICK l \in Nat : l = Len(a) /\ l = Len(b)
  OBVIOUS
<1>2. \A k \in 1 .. l : b[k].saved = a[k].saved /\ b[k].call = a[k].call
  BY <1>1 DEF SameCalls
<1>3. SlotsOK(a, sl, d) => SlotsOK(b, sl, d)
  BY <1>1, <1>2 DEF SlotsOK
<1>4. ASSUME ChainOK(a, d) PROVE ChainOK(b, d)
  <2>1. \A k \in 1 .. l : k = l \/ k + 1 \in 1 .. l
    OBVIOUS
  <2> QED
    BY <1>1, <1>2, <1>4, <2>1 DEF ChainOK
<1> QED
  BY <1>3, <1>4

\* A task that is passed over changes nothing else.
LEMMA SkipIs ==
  ASSUME IInv, stack # << >>, Top.todo # << >>, Skip
  PROVE  IInv'
<1>1. PICK stk : stk = stack' /\ stk = Turned
  BY DEF Skip
<1>2. /\ FramesOK(stk) /\ stk \in Seq(FrameType) /\ Len(stk) = Len(stack)
      /\ SameCalls(stack, stk, Len(stack)) /\ SameBases(stack, stk, Len(stack))
  BY <1>1, TurnIs
<1>3. /\ schema' = schema /\ scopes' = scopes /\ path' = path /\ ssegs' = ssegs /\ sdepth' = sdepth
      /\ ref_depth' = ref_depth /\ cut' = cut
  BY DEF Skip
<1>4. stack \in Seq(FrameType) /\ Len(stack) \in Nat
  BY TopIs
<1>5. DepthOK(stk, ref_depth) /\ ScopesOK(stk, scopes)
  BY <1>2, <1>4, DepthSame, ScopesSame DEF IInv
<1>6. PathOf(stk) = PathOf(stack) /\ SPathOf(stk) = SPathOf(stack)
  <2>1. \A i \in 1 .. Len(stack) : stk[i].call = stack[i].call /\ stk[i].n = stack[i].n
    BY <1>2 DEF SameCalls
  <2> QED
    BY <1>2, <1>4, <2>1, PathOfSame, SPathOfSame
<1>7. PathsOK'
  <2>1. PathsOK
    BY DEF IInv
  <2>2. SlotsOK(stk, ssegs, sdepth) /\ (~cut => ChainOK(stk, sdepth))
    BY <1>2, <1>4, <2>1, PathsSame DEF PathsOK
  <2>3. SlotsOK(stack, ssegs, sdepth)' /\ (~cut => ChainOK(stack, sdepth))'
    BY <1>1, <1>3, <2>2 DEF SlotsOK, ChainOK
  <2>4. PathUnlessCut'
    BY <1>1, <1>3, <1>6, <2>1 DEF PathsOK, PathUnlessCut, spath
  <2> QED
    BY <1>3, <2>1, <2>3, <2>4 DEF PathsOK
<1>8. SchemaOK(schema)' /\ (cut \in BOOLEAN)'
  BY <1>3 DEF IInv
<1>9. FramesOK(stack)'
  BY <1>1, <1>2, <1>3 DEF FramesOK, TasksFit, TaskOK
<1>10. DepthOK(stack, ref_depth)'
  BY <1>1, <1>3, <1>5 DEF DepthOK
<1>11. ScopesOK(stack, scopes)'
  BY <1>1, <1>3, <1>5 DEF ScopesOK, SegmentOK, EndOf
<1> QED
  BY <1>7, <1>8, <1>9, <1>10, <1>11 DEF IInv

\* b is a with one more activation.
IsPushed(a, b, f, l) ==
  /\ FramesOK(b) /\ b \in Seq(FrameType) /\ Len(b) = l + 1 /\ b[l + 1] = f
  /\ SameCalls(a, b, l) /\ SameBases(a, b, l)

\* The stack grows by an activation.
LEMMA PushIs ==
  ASSUME NEW a \in Seq(FrameType), FramesOK(a), NEW l \in Nat, l >= 1, Len(a) = l,
         NEW f \in FrameType, TasksFit(f.todo, f.n), f.call # "root", NEW b, b = Append(a, f)
  PROVE  IsPushed(a, b, f, l)
<1>1. /\ b \in Seq(FrameType) /\ Len(b) = l + 1 /\ b[l + 1] = f
      /\ \A i \in 1 .. l : b[i] = a[i]
      /\ \A i \in 1 .. l + 1 : i \in 1 .. l \/ i = l + 1
  OBVIOUS
<1>2. ASSUME NEW i \in 1 .. l + 1
      PROVE  TasksFit(b[i].todo, b[i].n) /\ (b[i].call = "root" <=> i = 1)
  <2>1. CASE i \in 1 .. l
    BY <1>1, <2>1 DEF FramesOK
  <2>2. CASE i = l + 1
    <3>1. i # 1
      BY <2>2
    <3> QED
      BY <1>1, <2>2, <3>1
  <2> QED
    BY <1>1, <2>1, <2>2
<1>3. FramesOK(b)
  BY <1>1, <1>2 DEF FramesOK
<1>4. SameCalls(a, b, l) /\ SameBases(a, b, l)
  BY <1>1 DEF SameCalls, SameBases
<1> QED
  BY <1>1, <1>3, <1>4 DEF IsPushed

\* A segment is pushed where there is room.
LEMMA PushSegIs ==
  ASSUME NEW X, NEW s \in Seq(X), NEW x \in X, NEW cap \in Nat, Len(s) <= cap
  PROVE  /\ PushSeg(s, x, cap) \in Seq(X) /\ Len(PushSeg(s, x, cap)) <= cap
         /\ Len(s) < cap => PushSeg(s, x, cap) = Append(s, x)
<1>1. CASE Len(s) < cap
  <2>1. Append(s, x) \in Seq(X) /\ Len(Append(s, x)) = Len(s) + 1 /\ Len(s) \in Nat
    OBVIOUS
  <2>2. Len(s) + 1 <= cap
    BY <1>1, <2>1
  <2> QED
    BY <1>1, <2>1, <2>2 DEF PushSeg
<1>2. CASE ~(Len(s) < cap)
  BY <1>2 DEF PushSeg
<1> QED
  BY <1>1, <1>2

\* The paths of a call: what a segment adds is what the call stands for.
LEMMA EnterPaths ==
  ASSUME IInv, NEW n \in Object, NEW call \in Call, call # "root", Enter(n, call),
         NEW b \in Seq(FrameType), b = stack', NEW l \in Nat, Len(stack) = l, Len(b) = l + 1,
         stack \in Seq(FrameType), SameCalls(stack, b, l), b[l + 1].n = n, b[l + 1].call = call,
         b[l + 1].saved = sdepth
  PROVE  PathsOK'
<1>1. /\ path \in Seq(Object) /\ SlotsOK(stack, ssegs, sdepth) /\ Len(path) <= PathCap
      /\ ~cut => path = PathOf(stack) /\ spath = SPathOf(stack) /\ ChainOK(stack, sdepth)
  BY DEF IInv, PathsOK, PathUnlessCut
<1>2. PathCap \in Nat /\ SPathCap \in Nat /\ Len(path) \in Nat /\ sdepth \in 0 .. SPathCap
  BY <1>1, ScopeAssumption DEF SlotsOK
<1>3. \A i \in 1 .. l : b[i].call = stack[i].call /\ b[i].n = stack[i].n /\ b[i].saved = stack[i].saved
  BY DEF SameCalls
<1>4. PathOf(b) = IF call = "member" THEN Append(PathOf(stack), n) ELSE PathOf(stack)
  BY <1>3, PathOfStep
<1>5. SPathOf(b) = IF call # "trial" THEN Append(SPathOf(stack), Seg(call, n)) ELSE SPathOf(stack)
  <2>1. SPathOf(b) = IF b[l + 1].call \notin {"root", "trial"}
                     THEN Append(SPathOf(stack), Seg(b[l + 1].call, b[l + 1].n)) ELSE SPathOf(stack)
    BY <1>3, SPathOfStep
  <2> QED
    BY <2>1
<1>6. /\ path' = IF call = "member" THEN PushSeg(path, n, PathCap) ELSE path
      /\ IF call = "trial" THEN ssegs' = ssegs /\ sdepth' = sdepth ELSE SPush(Seg(call, n))
      /\ cut' = (cut \/ (call = "member" /\ Len(path) >= PathCap)
                     \/ (call # "trial" /\ sdepth >= SPathCap))
  BY DEF Enter
<1>7. PICK seg \in SegSet : seg = Seg(call, n)
  BY DEF SegSet
<1>8. /\ path' \in Seq(Object) /\ Len(path') <= PathCap
      /\ ~cut' => path' = PathOf(b)
  <2>1. CASE call = "member"
    <3>1. PICK p : p = PushSeg(path, n, PathCap)
      OBVIOUS
    <3>2. p \in Seq(Object) /\ Len(p) <= PathCap /\ (Len(path) < PathCap => p = Append(path, n))
      BY <1>1, <1>2, <3>1, PushSegIs
    <3>3. ASSUME ~cut' PROVE ~cut /\ Len(path) < PathCap
      <4>1. ~(Len(path) >= PathCap) /\ ~cut
        BY <1>6, <2>1, <3>3
      <4> QED
        BY <1>2, <4>1
    <3> QED
      BY <1>1, <1>4, <1>6, <2>1, <3>1, <3>2, <3>3
  <2>2. CASE call # "member"
    BY <1>1, <1>4, <1>6, <2>2
  <2> QED
    BY <2>1, <2>2
<1>9. PICK sl2, d2, p, q : /\ sl2 = ssegs' /\ d2 = sdepth' /\ p = spath /\ q = [i \in 1 .. d2 |-> sl2[i]]
                           /\ p = [i \in 1 .. sdepth |-> ssegs[i]] /\ q = spath'
  BY DEF spath
<1>10. /\ SlotsOK(stack, sl2, d2)
       /\ ~cut' => ~cut /\ d2 = sdepth + SegsOf(call) /\ q = SPathOf(b)
  <2>1. CASE call = "trial"
    <3>1. sl2 = ssegs /\ d2 = sdepth /\ q = p
      BY <1>6, <1>9, <2>1
    <3>2. ~cut' => ~cut /\ q = SPathOf(b)
      BY <1>1, <1>5, <1>6, <1>9, <2>1, <3>1
    <3>3. d2 = sdepth + SegsOf(call)
      BY <1>2, <2>1, <3>1 DEF SegsOf
    <3> QED
      BY <1>1, <3>1, <3>2, <3>3
  <2>2. CASE call # "trial" /\ sdepth >= SPathCap
    <3>1. sl2 = ssegs /\ d2 = sdepth /\ cut'
      BY <1>6, <1>9, <2>2 DEF SPush
    <3> QED
      BY <1>1, <3>1
  <2>3. CASE call # "trial" /\ ~(sdepth >= SPathCap)
    <3>1. sl2 = [ssegs EXCEPT ![sdepth + 1] = seg] /\ d2 = sdepth + 1 /\ sdepth < SPathCap
      BY <1>2, <1>6, <1>7, <1>9, <2>3 DEF SPush
    <3>2. PICK X : X = SegSet
      OBVIOUS
    <3>3. SlotsOK(stack, sl2, sdepth + 1) /\ q = Append(p, seg)
      <4>1. PICK d, sl : /\ d = sdepth /\ sl = ssegs /\ SlotsOK(stack, sl, d) /\ d < SPathCap
                         /\ Writes(sl, sl2, d, seg) /\ Shows(p, sl, d) /\ Shows(q, sl2, d + 1)
        BY <1>1, <1>9, <3>1 DEF Writes, Shows
      <4>2. seg \in X
        BY <3>2
      <4>3. SlotsOK(stack, sl2, d + 1) /\ q = Append(p, seg)
        BY <1>2, <3>2, <4>1, <4>2, SPushIs
      <4> QED
        BY <4>1, <4>3
    <3>4. ~cut' => ~cut /\ q = SPathOf(b)
      BY <1>1, <1>5, <1>6, <1>7, <1>9, <2>3, <3>3
    <3>5. SegsOf(call) = 1
      BY <2>3 DEF SegsOf
    <3> QED
      BY <3>1, <3>3, <3>4, <3>5
  <2> QED
    BY <2>1, <2>2, <2>3
<1>11. \A k \in 1 .. l + 1 : k \in 1 .. l \/ k = l + 1
  OBVIOUS
<1>12. SlotsOK(b, sl2, d2)
  <2>1. \A i \in 1 .. sdepth : sl2[i] \in SegSet
    <3>1. sdepth <= d2 /\ d2 \in Nat
      BY <1>2, <1>6, <1>9, <1>10 DEF SPush, SlotsOK
    <3>2. \A i \in 1 .. sdepth : i \in 1 .. d2
      BY <1>2, <3>1
    <3> QED
      BY <1>10, <3>2 DEF SlotsOK
  <2> QED
    BY <1>2, <1>3, <1>10, <1>11, <2>1 DEF SlotsOK
<1>13. ASSUME ~cut' PROVE ChainOK(b, d2)
  <2>1. ASSUME NEW k \in 1 .. l
        PROVE  b[k].saved + SegsOf(b[k].call) = b[k + 1].saved
    <3>1. k = l => b[k + 1].saved = sdepth
      OBVIOUS
    <3>2. k # l => k + 1 \in 1 .. l
      OBVIOUS
    <3>3. stack[k].saved + SegsOf(stack[k].call) = IF k = l THEN sdepth ELSE stack[k + 1].saved
      BY <1>1, <1>10, <1>13 DEF ChainOK
    <3> QED
      BY <1>3, <3>1, <3>2, <3>3
  <2>2. b[l + 1].saved + SegsOf(b[l + 1].call) = d2
    BY <1>10, <1>13
  <2>3. \A k \in 1 .. l : k # l + 1
    OBVIOUS
  <2> QED
    BY <1>11, <2>1, <2>2, <2>3 DEF ChainOK
<1>14. SlotsOK(stack, ssegs, sdepth)' /\ (~cut' => ChainOK(stack, sdepth)')
  BY <1>9, <1>12, <1>13 DEF SlotsOK, ChainOK
<1>15. sdepth' <= SPathCap /\ \A i \in 1 .. sdepth' : ssegs'[i] # NoSeg
  <2>1. d2 \in 0 .. SPathCap /\ \A i \in 1 .. d2 : sl2[i] \in SegSet
    BY <1>12 DEF SlotsOK
  <2> QED
    BY <1>2, <1>9, <2>1, NoSegIs
<1>16. PathUnlessCut'
  BY <1>8, <1>9, <1>10, <1>15 DEF PathUnlessCut
<1> QED
  BY <1>8, <1>14, <1>16 DEF PathsOK

\* A call of val().
LEMMA EnterIs ==
  ASSUME IInv, stack # << >>, Top.todo # << >>, NEW n \in Object, NEW call \in Call,
         call # "root", IF IsRef(call) THEN ref_depth < RefCap ELSE Top.n < n, Enter(n, call)
  PROVE  IInv'
<1>1. PICK l \in Nat : l = Len(stack) /\ l >= 1 /\ l \in 1 .. l /\ stack \in Seq(FrameType)
  BY TopIs
<1>2. PICK a : /\ a = Turned /\ FramesOK(a) /\ a \in Seq(FrameType) /\ Len(a) = l
               /\ SameCalls(stack, a, l) /\ SameBases(stack, a, l)
  BY <1>1, TurnIs
<1>3. SchemaOK(schema) /\ scopes \in Seq(Entry)
  BY DEF IInv, ScopesOK
<1>4. PICK base \in Nat : base = Len(scopes)
  BY <1>3
<1>4a. sdepth \in Nat
  BY DEF IInv, PathsOK, SlotsOK
<1>5. PICK f : f = Activation(n, call, base, sdepth) /\ IsNew(f, n, call, base, sdepth)
  BY <1>3, <1>4, <1>4a, ActivationIs
<1>6. /\ f \in FrameType /\ TasksFit(f.todo, f.n)
      /\ f.n = n /\ f.call = call /\ f.base = base /\ f.saved = sdepth /\ f.left = FALSE
  BY <1>5 DEF IsNew
<1>7. PICK b : b = stack' /\ b = Append(a, f)
  BY <1>2, <1>4, <1>5 DEF Enter
<1>8. /\ FramesOK(b) /\ b \in Seq(FrameType) /\ Len(b) = l + 1 /\ b[l + 1] = f
      /\ SameCalls(a, b, l) /\ SameBases(a, b, l)
  <2>1. f.call # "root"
    BY <1>6
  <2>2. IsPushed(a, b, f, l)
    BY <1>1, <1>2, <1>6, <1>7, <2>1, PushIs
  <2> QED
    BY <2>2 DEF IsPushed
<1>9. SameCalls(stack, b, l) /\ SameBases(stack, b, l)
  BY <1>2, <1>8 DEF SameCalls, SameBases
<1>10. /\ schema' = schema /\ scopes' = scopes \o schema.self_scope[n]
       /\ ref_depth' = IF IsRef(call) THEN ref_depth + 1 ELSE ref_depth
       /\ cut' \in BOOLEAN
  BY DEF Enter
<1>11. PICK d2, sc2 : d2 = ref_depth' /\ sc2 = scopes'
  OBVIOUS
<1>12. DepthOK(b, d2)
  <2>1. ref_depth \in Nat /\ DepthOK(stack, ref_depth) /\ Top = stack[l]
    BY <1>1, TopIs DEF IInv
  <2>2. IF IsRef(b[l + 1].call) THEN ref_depth < RefCap ELSE stack[l].n < b[l + 1].n
    BY <1>6, <1>8, <2>1
  <2>3. d2 = IF IsRef(b[l + 1].call) THEN ref_depth + 1 ELSE ref_depth
    BY <1>6, <1>8, <1>10, <1>11
  <2> QED
    BY <1>1, <1>8, <1>9, <2>1, <2>2, <2>3, DepthPush
<1>13. ScopesOK(b, sc2)
  <2>1. ScopesOK(stack, scopes)
    BY DEF IInv
  <2>2. b[l + 1].base = Len(scopes) /\ b[l + 1].left = FALSE
    BY <1>4, <1>6, <1>8
  <2>3. sc2 = scopes \o schema.self_scope[b[l + 1].n]
    BY <1>6, <1>8, <1>10, <1>11
  <2>4. PICK st, sc, sb, x :
          /\ st \in Seq(FrameType) /\ sb \in Seq(FrameType) /\ st = stack /\ sc = scopes /\ sb = b /\ Len(st) = l /\ Len(sb) = l + 1
          /\ SameBases(st, sb, l) /\ ScopesOK(st, sc)
          /\ sb[l + 1].base = Len(sc) /\ sb[l + 1].left = FALSE
          /\ x = schema.self_scope[sb[l + 1].n] /\ sc2 = sc \o x
    BY <1>1, <1>8, <1>9, <2>1, <2>2, <2>3
  <2>5. ScopesOK(sb, sc2)
    BY <1>1, <1>3, <2>4, ScopesPush
  <2> QED
    BY <2>4, <2>5
<1>14. PathsOK'
  BY <1>1, <1>6, <1>7, <1>8, <1>9, EnterPaths
<1>15. SchemaOK(schema)' /\ (cut \in BOOLEAN)'
  BY <1>3, <1>10
<1>16. FramesOK(stack)'
  BY <1>7, <1>8, <1>10 DEF FramesOK, TasksFit, TaskOK
<1>17. DepthOK(stack, ref_depth)'
  BY <1>7, <1>11, <1>12 DEF DepthOK
<1>18. ScopesOK(stack, scopes)'
  <2>1. b = stack' /\ sc2 = scopes' /\ schema' = schema
    BY <1>7, <1>10, <1>11
  <2>2. \A k : SegmentOK(b, sc2, k) => SegmentOK(stack, scopes, k)'
    BY <2>1 DEF SegmentOK, EndOf
  <2> QED
    BY <1>13, <2>1, <2>2 DEF ScopesOK
<1> QED
  BY <1>14, <1>15, <1>16, <1>17, <1>18 DEF IInv

\* A segment is popped; what was pushed last goes.
LEMMA PopSegIs ==
  ASSUME NEW X, NEW s \in Seq(X)
  PROVE  /\ PopSeg(s) \in Seq(X) /\ Len(PopSeg(s)) <= Len(s)
         /\ \A t \in Seq(X), x \in X : s = Append(t, x) => PopSeg(s) = t
<1>1. CASE s = << >>
  <2>1. PopSeg(s) = s
    BY <1>1 DEF PopSeg
  <2>2. ASSUME NEW t \in Seq(X), NEW x \in X, s = Append(t, x) PROVE FALSE
    <3>1. Len(Append(t, x)) = Len(t) + 1 /\ Len(t) \in Nat
      OBVIOUS
    <3>2. Len(s) = 0
      BY <1>1
    <3> QED
      BY <2>2, <3>1, <3>2
  <2> QED
    BY <2>1, <2>2
<1>2. CASE s # << >>
  <2>1. PICK l \in Nat : Len(s) = l + 1
    <3>1. Len(s) - 1 \in Nat /\ Len(s) = (Len(s) - 1) + 1
      BY <1>2
    <3> QED
      BY <3>1
  <2>2. PICK p : p = SubSeq(s, 1, l)
    OBVIOUS
  <2>3. PopSeg(s) = p
    BY <1>2, <2>1, <2>2 DEF PopSeg, Front
  <2>4. p \in Seq(X) /\ Len(p) = l /\ \A i \in 1 .. l : p[i] = s[i]
    BY <2>1, <2>2
  <2>5. ASSUME NEW t \in Seq(X), NEW x \in X, s = Append(t, x) PROVE p = t
    <3>1. Len(t) = l /\ \A i \in 1 .. l : t[i] = s[i]
      BY <2>1, <2>5
    <3> QED
      BY <2>4, <3>1
  <2> QED
    BY <2>1, <2>3, <2>4, <2>5
<1> QED
  BY <1>1, <1>2

\* The paths after a call: its own segment goes.
LEMMA ReturnPaths ==
  ASSUME IInv, stack # << >>, Return, NEW l \in Nat, Len(stack) = l + 1,
         stack \in Seq(FrameType), NEW b \in Seq(FrameType), b = stack', Len(b) = l,
         SameCalls(stack, b, l)
  PROVE  PathsOK'
<1>1. /\ path \in Seq(Object) /\ SlotsOK(stack, ssegs, sdepth) /\ Len(path) <= PathCap
      /\ ~cut => path = PathOf(stack) /\ spath = SPathOf(stack) /\ ChainOK(stack, sdepth)
  BY DEF IInv, PathsOK, PathUnlessCut
<1>2. PathCap \in Nat /\ SPathCap \in Nat /\ Len(path) \in Nat /\ sdepth \in 0 .. SPathCap
  BY <1>1, ScopeAssumption DEF SlotsOK
<1>3. \A i \in 1 .. l : stack[i].call = b[i].call /\ stack[i].n = b[i].n /\ stack[i].saved = b[i].saved
  BY DEF SameCalls
<1>4. PICK call \in Call, n \in Object : call = Top.call /\ n = Top.n
  BY TopIs
<1>5. stack[l + 1].call = call /\ stack[l + 1].n = n
  BY <1>4 DEF Top
<1>6. /\ PathOf(b) \in Seq(Object)
      /\ PathOf(stack) = IF call = "member" THEN Append(PathOf(b), n) ELSE PathOf(b)
  <2>1. /\ PathOf(b) \in Seq(Object)
        /\ PathOf(stack) = IF stack[l + 1].call = "member"
                           THEN Append(PathOf(b), stack[l + 1].n) ELSE PathOf(b)
    BY <1>3, PathOfStep
  <2> QED
    BY <1>5, <2>1
<1>7. PICK seg \in SegSet : seg = Seg(call, n)
  BY DEF SegSet
<1>8. /\ SPathOf(b) \in Seq(SegSet)
      /\ SPathOf(stack) = IF call \notin {"root", "trial"} THEN Append(SPathOf(b), seg) ELSE SPathOf(b)
  <2>1. /\ SPathOf(b) \in Seq(SegSet)
        /\ SPathOf(stack) = IF stack[l + 1].call \notin {"root", "trial"}
                            THEN Append(SPathOf(b), Seg(stack[l + 1].call, stack[l + 1].n))
                            ELSE SPathOf(b)
    BY <1>3, SPathOfStep
  <2> QED
    BY <1>5, <1>7, <2>1
<1>9. /\ path' = IF call = "member" THEN PopSeg(path) ELSE path
      /\ sdepth' \in SDepthAfter(call) /\ ssegs' = ssegs /\ cut' = cut
  BY <1>4 DEF Return
<1>10. /\ path' \in Seq(Object) /\ Len(path') <= PathCap
       /\ ~cut' => path' = PathOf(b)
  <2>1. CASE call = "member"
    <3>1. PICK p, t : p = PopSeg(path) /\ t = PathOf(b)
      OBVIOUS
    <3>2. p \in Seq(Object) /\ Len(p) <= Len(path)
      BY <1>1, <3>1, PopSegIs
    <3>3. ASSUME ~cut PROVE p = t
      <4>1. path = Append(t, n) /\ t \in Seq(Object)
        BY <1>1, <1>6, <2>1, <3>1, <3>3
      <4> QED
        BY <1>1, <3>1, <4>1, PopSegIs
    <3>4. Len(p) <= PathCap
      <4>1. Len(p) \in Nat
        BY <3>2
      <4> QED
        BY <1>1, <1>2, <3>2, <4>1
    <3> QED
      BY <1>9, <2>1, <3>1, <3>2, <3>3, <3>4
  <2>2. CASE call # "member"
    BY <1>1, <1>6, <1>9, <2>2
  <2> QED
    BY <2>1, <2>2
<1>11. PICK d2, saved : d2 = sdepth' /\ saved = stack[l + 1].saved /\ Top.saved = saved
  BY DEF Top
<1>12. /\ saved \in 0 .. SPathCap /\ \A i \in 1 .. saved : ssegs[i] \in SegSet
       /\ l + 1 \in 1 .. Len(stack)
  <2>1. l + 1 \in 1 .. Len(stack)
    OBVIOUS
  <2> QED
    BY <1>1, <1>11, <2>1 DEF SlotsOK
<1>13. /\ call = "root" => d2 = sdepth
       /\ call = "trial" => d2 = sdepth \/ d2 = saved
       /\ call \notin {"root", "trial"} => d2 = SPopped
  <2>1. CASE call = "root"
    BY <1>9, <1>11, <2>1 DEF SDepthAfter
  <2>2. CASE call = "trial"
    BY <1>9, <1>11, <2>2 DEF SDepthAfter
  <2>3. CASE call \notin {"root", "trial"}
    BY <1>9, <1>11, <2>3 DEF SDepthAfter
  <2> QED
    BY <2>1, <2>2, <2>3
<1>14. d2 \in 0 .. SPathCap /\ \A i \in 1 .. d2 : ssegs[i] \in SegSet
  <2>1. SPopped \in 0 .. sdepth
    BY <1>2 DEF SPopped
  <2>2. d2 = saved \/ d2 \in 0 .. sdepth
    BY <1>2, <1>13, <2>1
  <2>3. CASE d2 = saved
    BY <1>12, <2>3
  <2>4. CASE d2 \in 0 .. sdepth
    <3>1. \A i \in 1 .. d2 : i \in 1 .. sdepth
      BY <1>2, <2>4
    <3>2. \A i \in 1 .. sdepth : ssegs[i] \in SegSet
      BY <1>1 DEF SlotsOK
    <3>3. d2 \in 0 .. SPathCap
      BY <1>2, <2>4
    <3> QED
      BY <3>1, <3>2, <3>3
  <2> QED
    BY <2>2, <2>3, <2>4
<1>15. SlotsOK(b, ssegs, d2)
  <2>1. \A k \in 1 .. l : k \in 1 .. Len(stack)
    OBVIOUS
  <2> QED
    BY <1>1, <1>3, <1>14, <2>1 DEF SlotsOK
<1>16. ASSUME ~cut PROVE sdepth = saved + SegsOf(call) /\ d2 = saved
  <2>1. sdepth = saved + SegsOf(call)
    BY <1>1, <1>5, <1>11, <1>12, <1>16 DEF ChainOK
  <2>2. CASE call \in {"root", "trial"}
    BY <1>2, <1>12, <1>13, <2>1, <2>2 DEF SegsOf
  <2>3. CASE call \notin {"root", "trial"}
    <3>1. sdepth = saved + 1
      BY <2>1, <2>3 DEF SegsOf
    <3>2. SPopped = saved
      BY <1>12, <3>1 DEF SPopped
    <3> QED
      BY <1>13, <2>1, <2>3, <3>2
  <2> QED
    BY <2>1, <2>2, <2>3
<1>17. ASSUME ~cut PROVE ChainOK(b, d2)
  <2>1. ASSUME NEW k \in 1 .. l
        PROVE  b[k].saved + SegsOf(b[k].call) = IF k = l THEN d2 ELSE b[k + 1].saved
    <3>1. k # l + 1 /\ k \in 1 .. Len(stack) /\ (k # l => k + 1 \in 1 .. l)
      OBVIOUS
    <3>2. stack[k].saved + SegsOf(stack[k].call) = stack[k + 1].saved
      BY <1>1, <1>17, <3>1 DEF ChainOK
    <3> QED
      BY <1>3, <1>11, <1>16, <1>17, <3>1, <3>2
  <2> QED
    BY <2>1 DEF ChainOK
<1>18. PICK p, q, t, X : /\ p = spath /\ q = spath' /\ t = SPathOf(b) /\ X = SegSet
                        /\ p = [i \in 1 .. sdepth |-> ssegs[i]] /\ q = [i \in 1 .. d2 |-> ssegs[i]]
  BY <1>9, <1>11 DEF spath
<1>19. ASSUME ~cut PROVE q = t
  <2>1. CASE call \in {"root", "trial"}
    <3>1. d2 = sdepth
      BY <1>2, <1>12, <1>16, <1>19, <2>1 DEF SegsOf
    <3>2. p = t
      BY <1>1, <1>8, <1>18, <1>19, <2>1
    <3> QED
      BY <1>18, <3>1, <3>2
  <2>2. CASE call \notin {"root", "trial"}
    <3>1. sdepth = d2 + 1
      BY <1>16, <1>19, <2>2 DEF SegsOf
    <3>2. p = Append(t, seg) /\ t \in Seq(X) /\ seg \in X
      BY <1>1, <1>8, <1>18, <1>19, <2>2
    <3>3. d2 \in Nat /\ \A i \in 1 .. d2 : ssegs[i] \in X /\ i \in 1 .. d2 + 1
      BY <1>14, <1>18
    <3>4. q \in Seq(X) /\ Len(q) = d2 /\ \A i \in 1 .. d2 : q[i] = ssegs[i]
      BY <1>18, <3>3, SPathIs
    <3>5. PICK e \in Nat : e = sdepth /\ e = d2 + 1 /\ p = [i \in 1 .. e |-> ssegs[i]]
      BY <1>2, <1>18, <3>1
    <3>6. \A i \in 1 .. e : ssegs[i] \in X
      BY <1>1, <1>18, <3>5 DEF SlotsOK
    <3>7. p \in Seq(X) /\ Len(p) = e /\ \A i \in 1 .. e : p[i] = ssegs[i]
      <4>1. PICK sl : sl = ssegs /\ p = [i \in 1 .. e |-> sl[i]] /\ \A i \in 1 .. e : sl[i] \in X
        BY <3>5, <3>6
      <4>2. p \in Seq(X) /\ Len(p) = e /\ \A i \in 1 .. e : p[i] = sl[i]
        BY <4>1, SPathIs
      <4> QED
        BY <4>1, <4>2
    <3>8. Len(t) = d2 /\ \A i \in 1 .. d2 : p[i] = t[i]
      <4>1. Len(p) = Len(t) + 1 /\ Len(t) \in Nat /\ \A i \in 1 .. Len(t) : p[i] = t[i]
        BY <3>2
      <4>2. Len(t) = d2
        BY <3>3, <3>5, <3>7, <4>1
      <4> QED
        BY <4>1, <4>2
    <3>9. \A i \in 1 .. d2 : q[i] = t[i]
      BY <3>3, <3>4, <3>5, <3>7, <3>8
    <3> QED
      BY <3>2, <3>4, <3>8, <3>9
  <2> QED
    BY <2>1, <2>2
<1>20. SlotsOK(stack, ssegs, sdepth)' /\ (~cut' => ChainOK(stack, sdepth)')
  BY <1>9, <1>11, <1>15, <1>17 DEF SlotsOK, ChainOK
<1>21. sdepth' <= SPathCap /\ \A i \in 1 .. sdepth' : ssegs'[i] # NoSeg
  BY <1>2, <1>9, <1>11, <1>14, NoSegIs
<1>22. PathUnlessCut'
  BY <1>9, <1>10, <1>18, <1>19, <1>21 DEF PathUnlessCut
<1> QED
  BY <1>10, <1>20, <1>22 DEF PathsOK

\* b is a, or rather p, without the newest activation, the one below
\* perhaps marked.
IsPopped(a, b, p, l) ==
  /\ FramesOK(b) /\ b \in Seq(FrameType) /\ Len(b) = l /\ SameCalls(a, b, l)
  /\ b = p => SameBases(a, b, l)
  /\ b # p => l >= 1 /\ b[l].base = a[l].base /\ b[l].left = TRUE /\ SameBases(a, b, l - 1)

\* The stack loses its newest activation; the one below may have left.
LEMMA PopIs ==
  ASSUME NEW a \in Seq(FrameType), FramesOK(a), NEW l \in Nat, Len(a) = l + 1,
         NEW p, p = Front(a), NEW b,
         \/ b = p
         \/ l >= 1 /\ b = [p EXCEPT ![l].left = TRUE]
  PROVE  IsPopped(a, b, p, l)
<1>1. /\ p \in Seq(FrameType) /\ Len(p) = l /\ \A i \in 1 .. l : p[i] = a[i] /\ i \in 1 .. Len(a)
  BY DEF Front
<1>2. \A i \in 1 .. l : TasksFit(a[i].todo, a[i].n) /\ (a[i].call = "root" <=> i = 1)
  BY <1>1 DEF FramesOK
<1>3. CASE b = p
  <2>1. FramesOK(b)
    BY <1>1, <1>2, <1>3 DEF FramesOK
  <2> QED
    BY <1>1, <1>3, <2>1 DEF SameCalls, SameBases, IsPopped
<1>4. CASE b # p
  <2>1. l >= 1 /\ l \in 1 .. l /\ b = [p EXCEPT ![l].left = TRUE]
    BY <1>4
  <2>0. PICK f \in FrameType : f = p[l]
    BY <1>1, <2>1
  <2>2. PICK t \in BOOLEAN : t = TRUE /\ f = p[l]
    BY <2>0
  <2>3. PICK g : g = [f EXCEPT !.left = t]
    OBVIOUS
  <2>4. /\ g \in FrameType /\ g.n = f.n /\ g.call = f.call /\ g.base = f.base
        /\ g.saved = f.saved /\ g.left = t /\ g.todo = f.todo
    BY <2>3 DEF FrameType
  <2>5. b = [p EXCEPT ![l] = g]
    BY <1>1, <2>1, <2>2, <2>3
  <2>6. /\ b \in Seq(FrameType) /\ Len(b) = l /\ b[l] = g
        /\ \A i \in 1 .. l : i # l => b[i] = a[i]
    <3>1. PICK q : q = [p EXCEPT ![l] = g]
      OBVIOUS
    <3>2. /\ q \in Seq(FrameType) /\ Len(q) = l /\ q[l] = g
          /\ \A i \in 1 .. l : i # l => q[i] = p[i]
      BY <1>1, <2>1, <2>4, <3>1
    <3> QED
      BY <1>1, <2>5, <3>1, <3>2
  <2>7. f = a[l]
    BY <1>1, <2>1, <2>2
  <2>8. \A i \in 1 .. l : /\ b[i].n = a[i].n /\ b[i].call = a[i].call /\ b[i].todo = a[i].todo
                         /\ b[i].saved = a[i].saved
    BY <2>4, <2>6, <2>7
  <2>9. FramesOK(b)
    BY <1>2, <2>6, <2>8 DEF FramesOK
  <2>10. SameCalls(a, b, l)
    BY <2>8 DEF SameCalls
  <2>11. SameBases(a, b, l - 1)
    <3>1. \A i \in 1 .. l - 1 : i \in 1 .. l /\ i # l
      OBVIOUS
    <3> QED
      BY <2>6, <3>1 DEF SameBases
  <2>12. b[l].base = a[l].base /\ b[l].left = TRUE
    BY <2>2, <2>4, <2>6, <2>7
  <2> QED
    BY <1>4, <2>1, <2>6, <2>9, <2>10, <2>11, <2>12 DEF IsPopped
<1> QED
  BY <1>3, <1>4

\* A call of val() ends.
LEMMA ReturnIs ==
  ASSUME IInv, Return
  PROVE  IInv'
<1>1. stack # << >> /\ Top.todo = << >>
  BY DEF Return
<1>2. PICK l \in Nat : Len(stack) = l + 1 /\ stack \in Seq(FrameType)
  <2>1. stack \in Seq(FrameType) /\ Len(stack) - 1 \in Nat /\ Len(stack) = (Len(stack) - 1) + 1
    BY <1>1, TopIs
  <2> QED
    BY <2>1
<1>3. PICK call \in Call, p \in {Front(stack)} : call = Top.call /\ p = Front(stack) /\ Top = stack[l + 1]
  BY <1>1, <1>2, TopIs DEF Top
<1>4. IsRef(call) => l >= 1
  <2>1. call = "root" <=> l + 1 = 1
    <3>1. l + 1 \in 1 .. Len(stack)
      BY <1>2
    <3> QED
      BY <1>2, <1>3, <3>1 DEF IInv, FramesOK
  <2> QED
    BY <2>1 DEF IsRef
<1>5. PICK b, sc2, d2 : b = stack' /\ sc2 = scopes' /\ d2 = ref_depth'
  OBVIOUS
<1>6. /\ IsRef(call) => b = [p EXCEPT ![l].left = TRUE]
      /\ ~IsRef(call) => b = p
  <2>1. Len(stack) - 1 = l
    BY <1>2
  <2> QED
    BY <1>3, <1>5, <2>1 DEF Return
<1>7. b = p \/ (l >= 1 /\ b = [p EXCEPT ![l].left = TRUE])
  BY <1>4, <1>6
<1>8. FramesOK(stack) /\ SchemaOK(schema) /\ ScopesOK(stack, scopes) /\ DepthOK(stack, ref_depth)
  BY DEF IInv
<1>9. /\ FramesOK(b) /\ b \in Seq(FrameType) /\ Len(b) = l /\ SameCalls(stack, b, l)
      /\ b = p => SameBases(stack, b, l)
      /\ b # p => l >= 1 /\ b[l].base = stack[l].base /\ b[l].left = TRUE /\ SameBases(stack, b, l - 1)
  <2>1. IsPopped(stack, b, p, l)
    BY <1>2, <1>3, <1>7, <1>8, PopIs
  <2> QED
    BY <2>1 DEF IsPopped
<1>10. DepthOK(b, d2)
  <2>1. ref_depth \in Nat
    BY <1>1, TopIs
  <2>2. d2 = IF IsRef(stack[l + 1].call) THEN ref_depth - 1 ELSE ref_depth
    BY <1>3, <1>5 DEF Return
  <2> QED
    BY <1>2, <1>8, <1>9, <2>1, <2>2, DepthPop
<1>11. ScopesOK(b, sc2)
  <2>1. CASE IsRef(call)
    <3>1. PICK m \in Nat : l = m + 1 /\ m = l - 1
      <4>1. l - 1 \in Nat /\ l = (l - 1) + 1
        BY <1>4, <2>1
      <4> QED
        BY <4>1
    <3>2. sc2 = SubSeq(scopes, 1, stack[m + 1].base)
      <4>1. Len(stack) - 1 = l
        BY <1>2
      <4> QED
        BY <1>3, <1>5, <2>1, <3>1, <4>1 DEF Return, Caller
    <3>3. SameBases(stack, b, m) /\ b[l].base = stack[l].base /\ b[l].left = TRUE
      <4>1. CASE b = p
        <5>1. SameBases(stack, b, l) /\ b = [p EXCEPT ![l].left = TRUE] /\ l \in 1 .. l
          BY <1>4, <1>6, <1>9, <2>1, <4>1
        <5>2. p \in Seq(FrameType) /\ Len(p) = l
          BY <1>9, <4>1
        <5>3. b[l].left = TRUE
          <6>1. p[l] \in FrameType
            BY <5>1, <5>2
          <6>2. [p[l] EXCEPT !.left = TRUE].left = TRUE
            BY <6>1 DEF FrameType
          <6>3. b[l] = [p[l] EXCEPT !.left = TRUE]
            BY <5>1, <5>2
          <6> QED
            BY <6>2, <6>3
        <5>4. \A i \in 1 .. m : i \in 1 .. l
          BY <3>1
        <5> QED
          BY <5>1, <5>3, <5>4 DEF SameBases
      <4>2. CASE b # p
        BY <1>9, <3>1, <4>2
      <4> QED
        BY <4>1, <4>2
    <3>4. m + 1 \in 1 .. Len(stack)
      BY <1>2, <3>1
    <3>5. l = m \/ (l = m + 1 /\ b[l].base = stack[l].base /\ b[l].left = TRUE)
      BY <3>1, <3>3
    <3> QED
      BY <1>2, <1>8, <1>9, <3>2, <3>3, <3>4, <3>5, ScopesCut
  <2>2. CASE ~IsRef(call)
    <3>1. sc2 = SubSeq(scopes, 1, stack[l + 1].base) /\ SameBases(stack, b, l)
      BY <1>3, <1>5, <1>6, <1>9, <2>2 DEF Return
    <3>2. l + 1 \in 1 .. Len(stack)
      BY <1>2
    <3> QED
      BY <1>2, <1>8, <1>9, <3>1, <3>2, ScopesCut
  <2> QED
    BY <2>1, <2>2
<1>12. PathsOK'
  BY <1>1, <1>2, <1>5, <1>9, ReturnPaths
<1>13. schema' = schema /\ cut' = cut
  BY DEF Return
<1>14. SchemaOK(schema)' /\ (cut \in BOOLEAN)'
  BY <1>13 DEF IInv
<1>15. FramesOK(stack)'
  BY <1>5, <1>9, <1>13 DEF FramesOK, TasksFit, TaskOK
<1>16. DepthOK(stack, ref_depth)'
  BY <1>5, <1>10 DEF DepthOK
<1>17. ScopesOK(stack, scopes)'
  <2>1. \A k : SegmentOK(b, sc2, k) => SegmentOK(stack, scopes, k)'
    BY <1>5, <1>13 DEF SegmentOK, EndOf
  <2> QED
    BY <1>5, <1>11, <2>1 DEF ScopesOK
<1> QED
  BY <1>12, <1>14, <1>15, <1>16, <1>17 DEF IInv

\* The first call.
LEMMA InitIs ==
  ASSUME Init
  PROVE  IInv
<1>1. PICK d : Document(d) /\ schema = Compiled(d)
  <2>1. PICK up \in Trees, use \in {u \in [Object -> {"member", "place", "defs"}] : u[Root] = "place"},
             ids \in SUBSET (Object \ {Root}), anchor \in SUBSET Object,
             ref \in References, dyn \in 0 .. Size, ref_only \in BOOLEAN :
          /\ dyn # 0 <=> anchor # {}
          /\ dyn = 0 => ids = {}
          /\ ref_only => dyn = 0
          /\ \E first \in FirstCollected(up, anchor) :
               schema = Compiled([up |-> up, use |-> use, id |-> ids \cup {Root}, anchor |-> anchor,
                                  first |-> first, ref |-> ref, dyn |-> dyn, ref_only |-> ref_only])
    BY Zenon DEF Init
  <2>2. PICK first \in FirstCollected(up, anchor) :
          schema = Compiled([up |-> up, use |-> use, id |-> ids \cup {Root}, anchor |-> anchor,
                             first |-> first, ref |-> ref, dyn |-> dyn, ref_only |-> ref_only])
    BY <2>1
  <2>3. PICK d : d = [up |-> up, use |-> use, id |-> ids \cup {Root}, anchor |-> anchor,
                      first |-> first, ref |-> ref, dyn |-> dyn, ref_only |-> ref_only]
    OBVIOUS
  <2>4. /\ d.up = up /\ d.id = ids \cup {Root} /\ d.anchor = anchor /\ d.ref = ref /\ d.dyn = dyn
        /\ d.ref_only = ref_only /\ d.first = first
    BY <2>3
  <2>5. Root \in Object
    BY ScopeAssumption DEF Root, Object
  <2>6. ref \in [Object -> 0 .. Size]
    BY DEF References
  <2>7. anchor # {} => first \in anchor
    BY <2>2 DEF FirstCollected
  <2>8. Document(d)
    BY <2>1, <2>4, <2>5, <2>6, <2>7 DEF Document
  <2> QED
    BY <2>2, <2>3, <2>8
<1>2. SchemaOK(schema)
  BY <1>1, CompiledIs
<1>3. Root \in Object /\ 0 \in Nat /\ "root" \in Call /\ Root = 1
  BY ScopeAssumption DEF Root, Object, Call
<1>4. PICK f : f = Activation(Root, "root", 0, 0) /\ IsNew(f, Root, "root", 0, 0)
  BY <1>2, <1>3, ActivationIs
<1>5. /\ f \in FrameType /\ TasksFit(f.todo, f.n)
      /\ f.n = Root /\ f.call = "root" /\ f.base = 0 /\ f.saved = 0 /\ f.left = FALSE
  BY <1>4 DEF IsNew
<1>6. PICK b : b = stack /\ b = <<f>>
  BY <1>4 DEF Init
<1>7. b \in Seq(FrameType) /\ Len(b) = 1 /\ b[1] = f
  BY <1>5, <1>6
<1>8. FramesOK(b)
  <2>1. \A i \in 1 .. 1 : i = 1
    OBVIOUS
  <2> QED
    BY <1>5, <1>7, <2>1 DEF FramesOK
<1>9. /\ scopes = schema.self_scope[Root] /\ path = << >> /\ ref_depth = 0 /\ cut = FALSE
      /\ ssegs = [i \in 1 .. SPathCap |-> NoSeg] /\ sdepth = 0
  BY DEF Init
<1>10. DepthOK(b, 0)
  <2>1. Cardinality(RefsUpTo(b, 0)) = 0 /\ ~IsRef(b[0 + 1].call)
    BY <1>5, <1>7, RefsCount DEF IsRef
  <2>2. Cardinality(RefsUpTo(b, 0 + 1)) = Cardinality(RefsUpTo(b, 0))
    BY <1>3, <2>1, RefsCount
  <2>3. Cardinality(RefsUpTo(b, 1)) = 0
    BY <2>1, <2>2
  <2>4. \A i \in 1 .. 1 : i <= Cardinality(RefsUpTo(b, i)) * Size + b[i].n
    <3>1. 1 <= 0 * Size + 1
      BY ScopeAssumption
    <3>2. \A i \in 1 .. 1 : i = 1
      OBVIOUS
    <3> QED
      BY <1>3, <1>5, <1>7, <2>3, <3>1, <3>2
  <2>5. 0 <= RefCap
    BY ScopeAssumption
  <2> QED
    BY <1>7, <2>3, <2>4, <2>5 DEF DepthOK
<1>11. ScopesOK(b, scopes)
  <2>1. PICK sc : sc = scopes /\ sc = schema.self_scope[Root]
    BY <1>9
  <2>2. sc \in Seq(Entry)
    BY <1>2, <1>3, <2>1 DEF SchemaOK, OwnScope
  <2>3. PICK u \in Nat : u = Len(sc)
    BY <2>2
  <2>4. EndOf(b, sc, 1) = u
    BY <1>7, <2>3 DEF EndOf
  <2>5. \A j \in 1 .. u : 0 + j = j
    OBVIOUS
  <2>6. SegmentOK(b, sc, 1)
    BY <1>5, <1>7, <2>1, <2>3, <2>4, <2>5 DEF SegmentOK
  <2>7. b # << >> /\ \A k \in 1 .. 1 : k = 1
    BY <1>6
  <2> QED
    BY <1>5, <1>7, <2>1, <2>2, <2>6, <2>7 DEF ScopesOK
<1>12. PathsOK
  <2>1. PICK e : e = << >> /\ e \in Seq(FrameType) /\ Len(e) = 0
    <3>1. << >> \in Seq(FrameType) /\ Len(<< >>) = 0
      OBVIOUS
    <3> QED
      BY <3>1
  <2>2. PathOf(e) = << >> /\ SPathOf(e) = << >>
    BY <2>1, PathOfEmpty, SPathOfEmpty
  <2>3. \A i \in 1 .. 0 : b[i].call = e[i].call /\ b[i].n = e[i].n
    OBVIOUS
  <2>4. Len(b) = 0 + 1 /\ b[0 + 1].call = "root" /\ 0 \in Nat
    BY <1>5, <1>7
  <2>5. PathOf(b) = << >>
    <3>1. PathOf(b) = IF b[0 + 1].call = "member" THEN Append(PathOf(e), b[0 + 1].n) ELSE PathOf(e)
      BY <1>7, <2>1, <2>3, <2>4, PathOfStep
    <3> QED
      BY <2>2, <2>4, <3>1
  <2>6. SPathOf(b) = << >>
    <3>1. PICK z \in Nat : z = 0
      OBVIOUS
    <3>2. /\ e \in Seq(FrameType) /\ b \in Seq(FrameType) /\ Len(e) = z /\ Len(b) = z + 1
          /\ \A i \in 1 .. z : b[i].call = e[i].call /\ b[i].n = e[i].n
      BY <1>7, <2>1, <2>3, <2>4, <3>1
    <3>3. SPathOf(b) = IF b[z + 1].call \notin {"root", "trial"}
                       THEN Append(SPathOf(e), Seg(b[z + 1].call, b[z + 1].n)) ELSE SPathOf(e)
      BY <3>2, SPathOfStep
    <3> QED
      BY <2>2, <2>4, <3>1, <3>3
  <2>7. << >> \in Seq(Object) /\ Len(<< >>) = 0
    OBVIOUS
  <2>8. 0 <= PathCap /\ 0 <= SPathCap /\ SPathCap \in Nat /\ 0 \in 0 .. SPathCap
    BY ScopeAssumption
  <2>9. /\ \A k \in 1 .. 1 : k = 1
        /\ \A i \in 1 .. 0 : FALSE
    OBVIOUS
  <2>10. SlotsOK(b, ssegs, sdepth)
    BY <1>5, <1>7, <1>9, <2>8, <2>9 DEF SlotsOK
  <2>11. ChainOK(b, sdepth)
    BY <1>5, <1>7, <1>9, <2>9 DEF ChainOK, SegsOf
  <2>12. spath = << >>
    BY <1>9, <2>9 DEF spath
  <2> QED
    BY <1>6, <1>9, <2>5, <2>6, <2>7, <2>8, <2>9, <2>10, <2>11, <2>12 DEF PathsOK, PathUnlessCut
<1> QED
  BY <1>2, <1>6, <1>8, <1>9, <1>10, <1>11, <1>12 DEF IInv

\* Every step keeps the invariant.
LEMMA StepIs ==
  ASSUME IInv, [Next]_vars
  PROVE  IInv'
<1>1. CASE DynamicRef
  <2>1. PICK n : n = Target(Top.n) /\ Ready("dynref") /\ Reference("dynref", n)
    BY <1>1 DEF DynamicRef
  <2>2. stack # << >> /\ Top.todo # << >> /\ Head(Top.todo).call = "dynref"
    BY <2>1 DEF Ready
  <2>3. PICK t : t = Head(Top.todo) /\ TaskOK(t, Top.n)
    BY <2>2, TurnIs
  <2>4. schema.anchor # {}
    BY <2>2, <2>3 DEF TaskOK
  <2>5. n \in Object
    <3>1. stack \in Seq(FrameType) /\ Top.n \in Object
      BY <2>2, TopIs
    <3>2. SchemaOK(schema) /\ ScopesOK(stack, scopes)
      BY DEF IInv
    <3> QED
      BY <2>1, <2>4, <3>1, <3>2, TargetIs
  <2>6. ref_depth \in Nat /\ RefCap \in Nat
    BY <2>2, TopIs, ScopeAssumption
  <2>7. CASE ref_depth >= RefCap
    BY <2>1, <2>2, <2>7, SkipIs DEF Reference
  <2>8. CASE ~(ref_depth >= RefCap)
    <3>1. ref_depth < RefCap /\ Enter(n, "dynref")
      BY <2>1, <2>6, <2>8 DEF Reference
    <3>2. "dynref" \in Call /\ "dynref" # "root" /\ IsRef("dynref")
      BY DEF Call, IsRef
    <3> QED
      BY <2>2, <2>5, <3>1, <3>2, EnterIs
  <2> QED
    BY <2>7, <2>8
<1>2. CASE Ref
  <2>1. PICK n : n = Head(Top.todo).n /\ Ready("ref") /\ Reference("ref", n)
    BY <1>2 DEF Ref
  <2>2. stack # << >> /\ Top.todo # << >> /\ Head(Top.todo).call = "ref"
    BY <2>1 DEF Ready
  <2>3. PICK t : t = Head(Top.todo) /\ TaskOK(t, Top.n)
    BY <2>2, TurnIs
  <2>4. n \in Object
    BY <2>1, <2>2, <2>3 DEF TaskOK
  <2>5. ref_depth \in Nat /\ RefCap \in Nat
    BY <2>2, TopIs, ScopeAssumption
  <2>6. CASE ref_depth >= RefCap
    BY <2>1, <2>2, <2>6, SkipIs DEF Reference
  <2>7. CASE ~(ref_depth >= RefCap)
    <3>1. ref_depth < RefCap /\ Enter(n, "ref")
      BY <2>1, <2>5, <2>7 DEF Reference
    <3>2. "ref" \in Call /\ "ref" # "root" /\ IsRef("ref")
      BY DEF Call, IsRef
    <3> QED
      BY <2>2, <2>4, <3>1, <3>2, EnterIs
  <2> QED
    BY <2>6, <2>7
<1>3. CASE Member
  <2>1. stack # << >> /\ Top.todo # << >> /\ Head(Top.todo).call = "member"
    BY <1>3 DEF Member, Ready
  <2>2. PICK t, n : t = Head(Top.todo) /\ TaskOK(t, Top.n) /\ n = t.n
    BY <2>1, TurnIs
  <2>3. n \in Object /\ Top.n < n
    BY <2>1, <2>2 DEF TaskOK
  <2>4. CASE Skip
    BY <2>1, <2>4, SkipIs
  <2>5. CASE Enter(n, "member")
    <3>1. "member" \in Call /\ "member" # "root" /\ ~IsRef("member")
      BY DEF Call, IsRef
    <3> QED
      BY <2>1, <2>3, <2>5, <3>1, EnterIs
  <2> QED
    BY <1>3, <2>2, <2>4, <2>5 DEF Member
<1>4. CASE InPlace
  <2>1. stack # << >> /\ Top.todo # << >> /\ Head(Top.todo).call = "place"
    BY <1>4 DEF InPlace, Ready
  <2>2. PICK t, n : t = Head(Top.todo) /\ TaskOK(t, Top.n) /\ n = t.n
    BY <2>1, TurnIs
  <2>3. n \in Object /\ Top.n < n
    BY <2>1, <2>2 DEF TaskOK
  <2>4. CASE Skip
    BY <2>1, <2>4, SkipIs
  <2>5. ASSUME NEW call \in {"place", "trial"}, Enter(n, call) PROVE IInv'
    <3>1. call \in Call /\ call # "root" /\ ~IsRef(call)
      BY DEF Call, IsRef
    <3> QED
      BY <2>1, <2>3, <2>5, <3>1, EnterIs
  <2> QED
    BY <1>4, <2>2, <2>4, <2>5 DEF InPlace
<1>5. CASE Return
  BY <1>5, ReturnIs
<1>6. CASE UNCHANGED vars
  <2>1. /\ schema' = schema /\ stack' = stack /\ scopes' = scopes /\ path' = path /\ ssegs' = ssegs
        /\ sdepth' = sdepth /\ ref_depth' = ref_depth /\ cut' = cut
    BY <1>6 DEF vars
  <2>2. SchemaOK(schema)' /\ (cut \in BOOLEAN)' /\ PathsOK'
    BY <2>1 DEF IInv, PathsOK, PathUnlessCut, spath, SlotsOK, ChainOK
  <2>3. FramesOK(stack)' /\ DepthOK(stack, ref_depth)' /\ ScopesOK(stack, scopes)'
    <3>1. \A k : SegmentOK(stack, scopes, k) => SegmentOK(stack, scopes, k)'
      BY <2>1 DEF SegmentOK, EndOf
    <3> QED
      BY <2>1, <3>1 DEF IInv, FramesOK, TasksFit, TaskOK, DepthOK, ScopesOK
  <2> QED
    BY <2>2, <2>3 DEF IInv
<1> QED
  BY <1>1, <1>2, <1>3, <1>4, <1>5, <1>6 DEF Next

\* Schemas, frames, references, scope entries and paths are sound.
THEOREM ScopesInvariant == Spec => []IInv
<1>1. Init => IInv
  BY InitIs
<1>2. IInv /\ [Next]_vars => IInv'
  BY StepIs
<1> QED
  BY <1>1, <1>2, PTL DEF Spec

\* The C stack is bounded, whatever the references of the schema.
THEOREM StackIsBounded == Spec => []RecursionBounded
<1>1. IInv => RecursionBounded
  <2>1. SUFFICES ASSUME IInv PROVE RecursionBounded
    OBVIOUS
  <2>2. Size \in Nat /\ RefCap \in Nat
    BY ScopeAssumption
  <2>3. CASE stack = << >>
    <3>1. Len(stack) = 0 /\ (RefCap + 1) * Size \in Nat
      BY <2>2, <2>3
    <3> QED
      BY <3>1 DEF RecursionBounded
  <2>4. CASE stack # << >>
    <3>1. PICK l \in Nat : l = Len(stack) /\ l \in 1 .. l /\ stack[l].n \in Object
      BY <2>1, <2>4, TopIs
    <3>2. PICK d \in Nat : d = Cardinality(RefsUpTo(stack, l)) /\ d <= RefCap
      BY <2>1, <3>1, RefsCount DEF IInv, DepthOK
    <3>3. l <= d * Size + stack[l].n
      BY <2>1, <3>1, <3>2 DEF IInv, DepthOK
    <3>4. PICK x \in Nat, y \in Nat, n \in 1 .. Size :
            x = d * Size /\ y = RefCap * Size /\ n = stack[l].n
      <4>1. d * Size \in Nat /\ RefCap * Size \in Nat
        BY <2>2
      <4> QED
        BY <3>1, <4>1 DEF Object
    <3>5. x <= y
      <4>1. PICK c \in Nat : RefCap = d + c
        <5>1. RefCap - d \in Nat /\ RefCap = d + (RefCap - d)
          BY <2>2, <3>2
        <5> QED
          BY <5>1
      <4>2. (d + c) * Size = d * Size + c * Size /\ c * Size \in Nat
        BY <2>2
      <4> QED
        BY <3>4, <4>1, <4>2
    <3>6. (RefCap + 1) * Size = y + Size
      BY <2>2, <3>4
    <3>7. l <= y + Size
      BY <2>2, <3>3, <3>4, <3>5
    <3> QED
      BY <3>1, <3>6, <3>7 DEF RecursionBounded
  <2> QED
    BY <2>3, <2>4
<1> QED
  BY <1>1, ScopesInvariant, PTL

\* Until a path is cut, the paths are those of the open calls; the arrays never
\* overflow.
THEOREM PathsAreCalls == Spec => []PathUnlessCut
<1>1. IInv => PathUnlessCut
  BY DEF IInv, PathsOK
<1> QED
  BY <1>1, ScopesInvariant, PTL

\* Entries belong to open calls and a $dynamicRef goes to the outermost
\* resource of the path with an anchor.
THEOREM TargetsAreOutermost == Spec => []TargetUnlessLeft
<1>1. IInv => TargetUnlessLeft
  <2>1. SUFFICES ASSUME IInv PROVE TargetUnlessLeft
    OBVIOUS
  <2>2. /\ SchemaOK(schema) /\ stack \in Seq(FrameType) /\ ScopesOK(stack, scopes)
        /\ DepthOK(stack, ref_depth) /\ FramesOK(stack) /\ scopes \in Seq(Entry)
    BY <2>1 DEF IInv, FramesOK, ScopesOK
  <2>3. DOMAIN stack = 1 .. Len(stack) /\ DOMAIN scopes = 1 .. Len(scopes)
    BY <2>2
  <2>4. ref_depth = Cardinality({i \in DOMAIN stack : IsRef(stack[i].call)})
    BY <2>2, <2>3 DEF DepthOK, RefsUpTo
  <2>5. \A i \in DOMAIN scopes : \E k \in DOMAIN stack : stack[k].n = scopes[i].owner
    <3>1. ASSUME NEW i \in 1 .. Len(scopes)
          PROVE  \E k \in 1 .. Len(stack) : stack[k].n = scopes[i].owner
      <4>1. \E k \in 1 .. Len(stack) :
              /\ LiesIn(stack, scopes, i, k) /\ ~stack[k].left /\ scopes[i].owner = stack[k].n
              /\ scopes[i].node \in schema.anchor /\ stack[k].n \in Line(schema.up, scopes[i].node)
              /\ scopes[i].res = schema.res_id[scopes[i].node]
        BY <2>2, EntryLies
      <4> QED
        BY <4>1
    <3> QED
      BY <2>3, <3>1
  <2>6. ASSUME ScopeWhole, Ready("dynref") PROVE Target(Top.n) = Promised
    <3>1. stack # << >> /\ Top.todo # << >> /\ Head(Top.todo).call = "dynref"
      BY <2>6 DEF Ready
    <3>2. PICK t : t = Head(Top.todo) /\ TaskOK(t, Top.n)
      BY <2>1, <3>1, TurnIs
    <3>3. schema.anchor # {}
      BY <3>1, <3>2 DEF TaskOK
    <3> QED
      BY <2>2, <2>6, <3>1, <3>3, OutermostIs
  <2> QED
    BY <2>4, <2>5, <2>6 DEF TargetUnlessLeft, TargetIsOutermost
<1> QED
  BY <1>1, ScopesInvariant, PTL

-------------------------------------------------------------------------------
(***************************************************************************)
(* The search of a pattern, for any automaton and any text.  Every stamp   *)
(* lies between the generation and its negation, so that the next one is   *)
(* of nobody; and there are no more generations than pairs of places.      *)
(***************************************************************************)
States == DOMAIN re.ns

\* What closure and the loop over the states look up are states.
LEMMA TargetsIn ==
  ASSUME NEW i, NEW t, NEW p
  PROVE  Targets(i, t, p) \subseteq States
<1>1. \A slots : Leads(i, slots) \subseteq States
  BY DEF Leads, States
<1>2. Targets(i, t, p) \in {Leads(i, {"a", "b"}), Leads(i, {"a"}), {}}
  BY DEF Targets
<1> QED
  BY <1>1, <1>2

LEMMA OnwardIn ==
  ASSUME NEW S, NEW c
  PROVE  Onward(S, c) \in SUBSET States
<1>1. \A i : Leads(i, {"a"}) \subseteq States
  BY DEF Leads, States
<1> QED
  BY <1>1 DEF Onward

\* The states take their turns one after the other.
Turns(f, S, c) ==
  f = [i \in 0 .. Len(re.ns) |-> IF i = 0 THEN {} ELSE Turn(f[i - 1], S, i, c)]

LEMMA CountOfStates ==
  ASSUME IsAutomaton(re)
  PROVE  \E N \in Nat : N = Len(re.ns) /\ States = 1 .. N
<1>1. PICK R : re.ns \in Seq(R)
  BY DEF IsAutomaton
<1> QED
  BY <1>1 DEF States

TakesTurns(f, N, S, c) ==
  /\ f \in [0 .. N -> SUBSET States]
  /\ f[0] = {} /\ \A i \in 1 .. N : f[i] = Turn(f[i - 1], S, i, c)
  /\ Consumed(S, c) = f[N]

LEMMA ConsumedIs ==
  ASSUME NEW N \in Nat, N = Len(re.ns), NEW S, NEW c
  PROVE  \E f : TakesTurns(f, N, S, c)
<1> DEFINE V == SUBSET States
           F == [q \in V \X Nat |-> Turn(q[1], S, q[2], c)]
<1>1. F \in [V \X Nat -> V]
  <2>1. \A i : Leads(i, {"a"}) \subseteq States
    BY DEF Leads, States
  <2> QED
    BY <2>1 DEF Turn
<1>2. \A s \in V, n \in Nat : F[<<s, n>>] = Turn(s, S, n, c)
  OBVIOUS
<1> HIDE DEF F
<1>3. PICK g \in [0 .. N -> V] : IteratesUpTo(g, {}, F, N)
  <2>1. {} \in V
    OBVIOUS
  <2> QED
    BY <1>1, <2>1, RecursiveUpTo
<1>4. ASSUME NEW n \in 0 .. N
      PROVE  g[n] = IF n = 0 THEN {} ELSE Turn(g[n - 1], S, n, c)
  <2>1. g = [i \in 0 .. N |-> IF i = 0 THEN {} ELSE F[<<g[i - 1], i>>]]
    BY <1>3 DEF IteratesUpTo
  <2>2. CASE n = 0
    BY <2>1, <2>2
  <2>3. CASE n # 0
    <3>1. n - 1 \in 0 .. N /\ n \in Nat
      BY <2>3
    <3>2. g[n - 1] \in V
      BY <3>1
    <3>3. g[n] = F[<<g[n - 1], n>>]
      BY <2>1, <2>3
    <3> QED
      BY <1>2, <2>3, <3>1, <3>2, <3>3
  <2> QED
    BY <2>2, <2>3
<1>5. g = [n \in 0 .. N |-> IF n = 0 THEN {} ELSE Turn(g[n - 1], S, n, c)]
  <2>1. g = [n \in 0 .. N |-> g[n]]
    OBVIOUS
  <2> QED
    BY <1>4, <2>1
<1>6. PICK f : f = CHOOSE h : Turns(h, S, c)
  OBVIOUS
<1>7. f = [n \in 0 .. N |-> IF n = 0 THEN {} ELSE Turn(f[n - 1], S, n, c)]
  BY <1>5, <1>6 DEF Turns
<1>8. Consumed(S, c) = f[N]
  BY <1>6 DEF Consumed, Turns
<1> DEFINE T == {n \in Nat : n <= N => f[n] = g[n]}
<1>9. 0 \in T
  BY <1>4, <1>7
<1>10. ASSUME NEW n \in T PROVE n + 1 \in T
  <2>1. n \in Nat /\ n + 1 \in Nat
    OBVIOUS
  <2>2. ASSUME n + 1 <= N PROVE f[n + 1] = g[n + 1]
    <3>1. f[n] = g[n] /\ n + 1 \in 0 .. N /\ n + 1 # 0 /\ (n + 1) - 1 = n
      BY <2>1, <2>2
    <3> QED
      BY <1>4, <1>7, <3>1
  <2> QED
    BY <2>1, <2>2
<1>11. T \in SUBSET Nat
  OBVIOUS
<1> HIDE DEF T
<1>12. T = Nat
  BY <1>9, <1>10, <1>11, InductiveSet
<1>13. f[N] = g[N]
  BY <1>12 DEF T
<1>14. g[0] = {} /\ \A i \in 1 .. N : g[i] = Turn(g[i - 1], S, i, c)
  BY <1>4
<1> QED
  BY <1>3, <1>8, <1>13, <1>14 DEF TakesTurns

\* A turn adds what the state leads to, or is missed.
LEMMA ConsumedIsOnward ==
  ASSUME IsAutomaton(re), NEW S \in SUBSET States, NEW c
  PROVE  /\ Consumed(S, c) \in SUBSET States
         /\ Consumed(S, c) \subseteq Onward(S, c)
         /\ ~Misses(S, c) => Consumed(S, c) = Onward(S, c)
<1>1. PICK N \in Nat : N = Len(re.ns) /\ States = 1 .. N
  BY CountOfStates
<1>2. PICK f \in [0 .. N -> SUBSET States] :
        /\ f[0] = {} /\ \A i \in 1 .. N : f[i] = Turn(f[i - 1], S, i, c)
        /\ Consumed(S, c) = f[N]
  <2>1. PICK f : TakesTurns(f, N, S, c)
    BY <1>1, ConsumedIs
  <2> QED
    BY <2>1 DEF TakesTurns
<1> DEFINE Taker(j) == j \in S /\ Consumes(j, c)
           T == {n \in Nat : n <= N => \A x \in f[n] : \E j \in 1 .. n : Taker(j) /\ x \in Leads(j, {"a"})}
           U == {n \in Nat : n <= N => \A j \in 1 .. n : Taker(j) => Leads(j, {"a"}) \subseteq f[n]}
<1>3. T = Nat
  <2>1. 0 \in T
    BY <1>2
  <2>2. ASSUME NEW n \in T PROVE n + 1 \in T
    <3>1. n \in Nat /\ n + 1 \in Nat
      OBVIOUS
    <3>2. ASSUME n + 1 <= N, NEW x \in f[n + 1]
          PROVE  \E j \in 1 .. n + 1 : Taker(j) /\ x \in Leads(j, {"a"})
      <4>1. n + 1 \in 1 .. N /\ (n + 1) - 1 = n /\ n <= N
        BY <3>1, <3>2
      <4>2. f[n + 1] = Turn(f[n], S, n + 1, c)
        BY <1>2, <4>1
      <4>3. CASE x \in f[n]
        <5>1. PICK j \in 1 .. n : Taker(j) /\ x \in Leads(j, {"a"})
          BY <3>1, <4>1, <4>3
        <5>2. j \in 1 .. n + 1
          BY <3>1
        <5> QED
          BY <5>1, <5>2
      <4>4. CASE x \notin f[n]
        <5>1. Taker(n + 1) /\ x \in Leads(n + 1, {"a"})
          BY <3>2, <4>2, <4>4 DEF Turn
        <5>2. n + 1 \in 1 .. n + 1
          BY <3>1
        <5> QED
          BY <5>1, <5>2
      <4> QED
        BY <4>3, <4>4
    <3> QED
      BY <3>1, <3>2
  <2>3. T \in SUBSET Nat
    OBVIOUS
  <2> HIDE DEF T
  <2> QED
    BY <2>1, <2>2, <2>3, InductiveSet
<1>4. ASSUME NEW x \in f[N]
      PROVE  \E j \in 1 .. N : Taker(j) /\ x \in Leads(j, {"a"})
  <2>1. N \in T /\ N <= N
    BY <1>3
  <2> QED
    BY <2>1
<1>5. Consumed(S, c) \subseteq Onward(S, c)
  BY <1>2, <1>4 DEF Onward
<1>6. ASSUME ~Misses(S, c) PROVE Onward(S, c) \subseteq Consumed(S, c)
  <2>1. 0 \in U
    OBVIOUS
  <2>2. ASSUME NEW n \in U PROVE n + 1 \in U
    <3>1. n \in Nat /\ n + 1 \in Nat
      OBVIOUS
    <3>2. ASSUME n + 1 <= N, NEW j \in 1 .. n + 1, Taker(j)
          PROVE  Leads(j, {"a"}) \subseteq f[n + 1]
      <4>1. n + 1 \in 1 .. N /\ (n + 1) - 1 = n /\ n <= N
        BY <3>1, <3>2
      <4>2. f[n + 1] = Turn(f[n], S, n + 1, c)
        BY <1>2, <4>1
      <4>3. CASE j # n + 1
        <5>1. j \in 1 .. n
          BY <3>1, <4>3
        <5>2. Leads(j, {"a"}) \subseteq f[n]
          BY <3>1, <3>2, <4>1, <5>1
        <5> QED
          BY <4>2, <5>2 DEF Turn
      <4>4. CASE j = n + 1
        <5>1. j \notin f[n]
          <6>1. SUFFICES ASSUME j \in f[n] PROVE FALSE
            OBVIOUS
          <6>2. n \in T
            BY <1>3, <3>1
          <6>3. PICK k \in 1 .. n : Taker(k) /\ j \in Leads(k, {"a"})
            BY <4>1, <6>1, <6>2
          <6>4. k < j
            BY <3>1, <4>4
          <6> QED
            BY <1>6, <3>2, <6>3, <6>4 DEF Misses
        <5> QED
          BY <3>2, <4>2, <4>4, <5>1 DEF Turn
      <4> QED
        BY <4>3, <4>4
    <3> QED
      BY <3>1, <3>2
  <2>3. U \in SUBSET Nat
    OBVIOUS
  <2> HIDE DEF U
  <2>4. N \in U /\ N <= N
    BY <2>1, <2>2, <2>3, InductiveSet
  <2>5. \A j \in 1 .. N : Taker(j) => Leads(j, {"a"}) \subseteq f[N]
    BY <2>4 DEF U
  <2> HIDE DEF T
  <2>6. ASSUME NEW i \in {j \in S : Consumes(j, c)}
        PROVE  Leads(i, {"a"}) \subseteq Consumed(S, c)
    <3>1. i \in 1 .. N /\ Taker(i)
      BY <1>1
    <3> QED
      BY <1>2, <2>5, <3>1
  <2> QED
    BY <2>6 DEF Onward
<1>7. Consumed(S, c) \in SUBSET States
  BY <1>2
<1> QED
  BY <1>5, <1>6, <1>7

LEMMA OnwardGrows ==
  ASSUME NEW S, NEW T, S \subseteq T, NEW c
  PROVE  Onward(S, c) \subseteq Onward(T, c)
BY DEF Onward

LEMMA GrownIn ==
  ASSUME NEW S \in SUBSET States, NEW closed, NEW t, NEW p
  PROVE  Grown(S, closed, t, p) \in SUBSET States
BY TargetsIn DEF Grown

\* The rounds of a closure.
Grows(f, open, closed, t, p) ==
  f = [n \in 0 .. Len(re.ns) |-> IF n = 0 THEN open ELSE Grown(f[n - 1], closed, t, p)]

Closes(f, N, open, closed, t, p) ==
  /\ f \in [0 .. N -> SUBSET States]
  /\ f[0] = open /\ \A i \in 1 .. N : f[i] = Grown(f[i - 1], closed, t, p)
  /\ Closure(open, closed, t, p) = closed \cup f[N]

LEMMA ClosureIs ==
  ASSUME NEW N \in Nat, N = Len(re.ns), NEW open \in SUBSET States, NEW closed, NEW t, NEW p
  PROVE  \E f : Closes(f, N, open, closed, t, p)
<1> DEFINE S == SUBSET States
           F == [q \in S \X Nat |-> Grown(q[1], closed, t, p)]
<1>2. F \in [S \X Nat -> S]
  <2>1. \A q \in S \X Nat : q[1] \in S
    OBVIOUS
  <2> QED
    BY <2>1, GrownIn
<1>3. \A s \in S, n \in Nat : F[<<s, n>>] = Grown(s, closed, t, p)
  OBVIOUS
<1> HIDE DEF F
<1>4. PICK g \in [0 .. N -> S] : IteratesUpTo(g, open, F, N)
  BY <1>2, RecursiveUpTo
<1>5. \E f : Grows(f, open, closed, t, p)
  <2>1. g = [n \in 0 .. N |-> IF n = 0 THEN open ELSE F[<<g[n - 1], n>>]]
    BY <1>4 DEF IteratesUpTo
  <2>2. ASSUME NEW n \in 0 .. N
        PROVE  g[n] = IF n = 0 THEN open ELSE Grown(g[n - 1], closed, t, p)
    <3>1. CASE n = 0
      BY <2>1, <3>1
    <3>2. CASE n # 0
      <4>1. n - 1 \in 0 .. N /\ n \in Nat
        BY <3>2
      <4>2. g[n - 1] \in S
        BY <4>1
      <4>3. g[n] = F[<<g[n - 1], n>>]
        BY <2>1, <3>2
      <4> QED
        BY <1>3, <3>2, <4>1, <4>2, <4>3
    <3> QED
      BY <3>1, <3>2
  <2>3. g = [n \in 0 .. N |-> g[n]]
    OBVIOUS
  <2>4. g = [n \in 0 .. N |-> IF n = 0 THEN open ELSE Grown(g[n - 1], closed, t, p)]
    BY <2>2, <2>3
  <2> QED
    BY <2>4 DEF Grows
<1>6. PICK f : f = CHOOSE h : Grows(h, open, closed, t, p)
  OBVIOUS
<1>7. f = [n \in 0 .. N |-> IF n = 0 THEN open ELSE Grown(f[n - 1], closed, t, p)]
  BY <1>5, <1>6 DEF Grows
<1>8. Closure(open, closed, t, p) = closed \cup f[N]
  BY <1>6 DEF Closure, Grows
<1> DEFINE T == {n \in Nat : n <= N => f[n] \in S}
<1>9. 0 \in T
  BY <1>7
<1>10. ASSUME NEW n \in T PROVE n + 1 \in T
  <2>1. n \in Nat /\ n + 1 \in Nat
    OBVIOUS
  <2>2. ASSUME n + 1 <= N PROVE f[n + 1] \in S
    <3>1. f[n] \in S /\ n + 1 \in 0 .. N /\ n + 1 # 0 /\ (n + 1) - 1 = n
      BY <2>1, <2>2
    <3>2. f[n + 1] = Grown(f[n], closed, t, p)
      BY <1>7, <3>1
    <3> QED
      BY <3>1, <3>2, GrownIn
  <2> QED
    BY <2>1, <2>2
<1>11. T \in SUBSET Nat
  OBVIOUS
<1> HIDE DEF T
<1>12. \A n \in 0 .. N : f[n] \in S
  <2>1. T = Nat
    BY <1>9, <1>10, <1>11, InductiveSet
  <2> QED
    BY <2>1 DEF T
<1>13. f \in [0 .. N -> S] /\ f[0] = open
  BY <1>7, <1>12
<1>14. \A i \in 1 .. N : f[i] = Grown(f[i - 1], closed, t, p)
  BY <1>7
<1> QED
  BY <1>8, <1>13, <1>14 DEF Closes

LEMMA ClosureIn ==
  ASSUME IsAutomaton(re), NEW open \in SUBSET States, NEW closed \in SUBSET States, NEW t, NEW p
  PROVE  Closure(open, closed, t, p) \in SUBSET States
<1>1. PICK N \in Nat : N = Len(re.ns)
  BY CountOfStates
<1>2. PICK f : Closes(f, N, open, closed, t, p)
  BY <1>1, ClosureIs
<1> QED
  BY <1>2 DEF Closes

\* More open states reach more.
LEMMA ClosureGrows ==
  ASSUME IsAutomaton(re), NEW A \in SUBSET States, NEW B \in SUBSET States, A \subseteq B, NEW t, NEW p
  PROVE  Closure(A, {}, t, p) \subseteq Closure(B, {}, t, p)
<1>1. PICK N \in Nat : N = Len(re.ns)
  BY CountOfStates
<1>2. PICK f : Closes(f, N, A, {}, t, p)
  BY <1>1, ClosureIs
<1>3. PICK g : Closes(g, N, B, {}, t, p)
  BY <1>1, ClosureIs
<1> DEFINE T == {n \in Nat : n <= N => f[n] \subseteq g[n]}
<1>4. 0 \in T
  BY <1>2, <1>3 DEF Closes
<1>5. ASSUME NEW n \in T PROVE n + 1 \in T
  <2>1. n \in Nat /\ n + 1 \in Nat
    OBVIOUS
  <2>2. ASSUME n + 1 <= N PROVE f[n + 1] \subseteq g[n + 1]
    <3>1. f[n] \subseteq g[n] /\ n + 1 \in 1 .. N /\ (n + 1) - 1 = n
      BY <2>1, <2>2
    <3>2. f[n + 1] = Grown(f[n], {}, t, p) /\ g[n + 1] = Grown(g[n], {}, t, p)
      BY <1>2, <1>3, <3>1 DEF Closes
    <3> QED
      BY <3>1, <3>2 DEF Grown
  <2> QED
    BY <2>1, <2>2
<1>6. T \in SUBSET Nat
  OBVIOUS
<1> HIDE DEF T
<1>7. N \in T /\ N <= N
  BY <1>4, <1>5, <1>6, InductiveSet
<1>8. f[N] \subseteq g[N]
  BY <1>7 DEF T
<1> QED
  BY <1>2, <1>3, <1>8 DEF Closes

\* The sets of states along the text.
Follows(f, s) ==
  f = [n \in 0 .. Len(text) |->
         IF n = 0 THEN Closure({re.start}, {}, text, s)
         ELSE Closure(Onward(f[n - 1], text[s + n]), {}, text, s + n)]

\* Reached is one closure after another.
LEMMA ReachedIs ==
  ASSUME IsAutomaton(re), NEW N \in Nat, N = Len(text), NEW s \in Nat
  PROVE  /\ Reached(s, s) = Closure({re.start}, {}, text, s)
         /\ \A p \in s .. s + N - 1 :
              Reached(s, p + 1) = Closure(Onward(Reached(s, p), text[p + 1]), {}, text, p + 1)
<1> DEFINE S == SUBSET States
           F == [q \in S \X Nat |-> Closure(Onward(q[1], text[s + q[2]]), {}, text, s + q[2])]
<1>1. PICK c \in S : c = Closure({re.start}, {}, text, s)
  <2>1. {re.start} \in S /\ {} \in S
    BY DEF IsAutomaton, States
  <2> QED
    BY <2>1, ClosureIn
<1>2. F \in [S \X Nat -> S]
  <2>1. ASSUME NEW q \in S \X Nat
        PROVE  Closure(Onward(q[1], text[s + q[2]]), {}, text, s + q[2]) \in S
    <3>1. Onward(q[1], text[s + q[2]]) \in S /\ {} \in S
      BY OnwardIn
    <3> QED
      BY <3>1, ClosureIn
  <2> QED
    BY <2>1
<1>3. \A v \in S, n \in Nat :
        F[<<v, n>>] = Closure(Onward(v, text[s + n]), {}, text, s + n)
  OBVIOUS
<1> HIDE DEF F
<1>4. PICK g \in [0 .. N -> S] : IteratesUpTo(g, c, F, N)
  BY <1>2, RecursiveUpTo
<1>5. \E f : Follows(f, s)
  <2>1. g = [n \in 0 .. N |-> IF n = 0 THEN c ELSE F[<<g[n - 1], n>>]]
    BY <1>4 DEF IteratesUpTo
  <2>2. ASSUME NEW n \in 0 .. N
        PROVE  g[n] = IF n = 0 THEN c
                      ELSE Closure(Onward(g[n - 1], text[s + n]), {}, text, s + n)
    <3>1. CASE n = 0
      BY <2>1, <3>1
    <3>2. CASE n # 0
      <4>1. n - 1 \in 0 .. N /\ n \in Nat
        BY <3>2
      <4>2. g[n - 1] \in S
        BY <4>1
      <4>3. g[n] = F[<<g[n - 1], n>>]
        BY <2>1, <3>2
      <4> QED
        BY <1>3, <3>2, <4>1, <4>2, <4>3
    <3> QED
      BY <3>1, <3>2
  <2>3. g = [n \in 0 .. N |-> g[n]]
    OBVIOUS
  <2>4. g = [n \in 0 .. N |-> IF n = 0 THEN c
                              ELSE Closure(Onward(g[n - 1], text[s + n]), {}, text, s + n)]
    BY <2>2, <2>3
  <2> QED
    BY <1>1, <2>4 DEF Follows
<1>6. PICK f : f = CHOOSE h : Follows(h, s)
  OBVIOUS
<1>7. f = [n \in 0 .. N |-> IF n = 0 THEN c
                            ELSE Closure(Onward(f[n - 1], text[s + n]), {}, text, s + n)]
  BY <1>1, <1>5, <1>6 DEF Follows
<1>8. \A p : Reached(s, p) = f[p - s]
  BY <1>6 DEF Reached, Follows
<1>9. Reached(s, s) = c
  <2>1. s - s = 0 /\ f[0] = c
    BY <1>7
  <2> QED
    BY <1>8, <2>1
<1>10. ASSUME NEW p \in s .. s + N - 1
       PROVE  Reached(s, p + 1) = Closure(Onward(Reached(s, p), text[p + 1]), {}, text, p + 1)
  <2>1. PICK n \in 0 .. N : n = p - s + 1 /\ n # 0
    OBVIOUS
  <2>2. (p + 1) - s = n /\ p - s = n - 1 /\ s + n = p + 1
    BY <2>1
  <2>3. f[n] = Closure(Onward(f[n - 1], text[s + n]), {}, text, s + n)
    BY <1>7, <2>1
  <2>4. Reached(s, p + 1) = f[n] /\ Reached(s, p) = f[n - 1]
    BY <1>8, <2>2
  <2> QED
    BY <2>2, <2>3, <2>4
<1> QED
  BY <1>1, <1>9, <1>10

-------------------------------------------------------------------------------
\* The text is too short for the generations to wrap.
Short == (Len(text) + 1) * (Len(text) + 1) <= MaxGen

\* Every stamp is of this generation or of one before it, open or closed.
Within(g) == \A i \in DOMAIN mark : mark[i] \in Int /\ -g <= mark[i] /\ mark[i] <= g

\* start rounds of the outer loop are over, each with at most Len(text) + 1
\* generations, and so many of this one.
Counted(n) == gen \in Nat /\ gen <= start * (Len(text) + 1) + n

\* The stamped states are those the automaton may be in.
Current ==
  /\ Stamped(gen) \subseteq Reached(start, pos)
  /\ Stamped(gen) = Reached(start, pos) \/ TurnMissed(start, pos)

Searched ==
  /\ IsAutomaton(re) /\ text \in Seq(CodePoint) /\ DOMAIN mark = States
  /\ start \in 0 .. Len(text) + 1
  /\ pc = "start" /\ Short => Counted(0) /\ Within(gen)
  /\ pc = "scan" => /\ start <= Len(text) /\ pos \in start .. Len(text)
                    /\ Short => Counted(pos - start + 1) /\ Within(gen) /\ Current
RInv == /\ pc \in {"idle", "compiled", "failed", "start", "scan", "done"}
        /\ pc = "compiled" => IsAutomaton(re)
        /\ pc \in {"start", "scan"} => Searched

LEMMA NegatedIs ==
  ASSUME NEW g \in Nat
  PROVE  Negated(g) = -g
BY GenAssumption DEF Negated

\* A generation that no stamp is of is the set of states that are stamped.
LEMMA StampIs ==
  ASSUME IsAutomaton(re), DOMAIN mark = States, NEW g \in Nat, g # 0, Within(g - 1),
         NEW S \in SUBSET States, NEW p, mark' = Stamp(S, g, p)
  PROVE  /\ DOMAIN mark' = States /\ Within(g)'
         /\ Stamped(g)' = Closure(S, {}, text, p)
<1>1. Negated(g) = -g
  BY NegatedIs
<1>2. ASSUME NEW i \in DOMAIN mark
      PROVE  mark[i] \in Int /\ mark[i] # g /\ mark[i] # -g /\ -g <= mark[i] /\ mark[i] <= g
  BY <1>2 DEF Within
<1>3. {i \in DOMAIN mark : mark[i] = -g} = {} /\ {i \in DOMAIN mark : mark[i] = g} = {}
  BY <1>2
<1>4. PICK all : all = Closure(S, {}, text, p)
  OBVIOUS
<1>5. all \in SUBSET States
  BY <1>4, ClosureIn, {} \in SUBSET States
<1>6. (S \cup {}) \ {} = S
  OBVIOUS
<1>7. mark' = [i \in DOMAIN mark |-> IF i \in all THEN -g ELSE mark[i]]
  BY <1>1, <1>3, <1>4, <1>6 DEF Stamp
<1>8. DOMAIN mark' = States
  BY <1>7
<1>9. \A i \in States : mark'[i] \in {g, -g} <=> i \in all
  BY <1>2, <1>7
<1>10. Within(g)'
  BY <1>2, <1>7 DEF Within
<1>11. Stamped(g)' = {i \in States : mark'[i] \in {g, -g}}
  BY <1>1, <1>8 DEF Stamped, Negated
<1>12. Stamped(g)' = all
  BY <1>5, <1>9, <1>11
<1> QED
  BY <1>4, <1>8, <1>10, <1>12

\* While the search goes on, what may be reached stays.
LEMMA ReachedStays ==
  ASSUME re' = re, text' = text
  PROVE  \A s, p : Reached(s, p)' = Reached(s, p) /\ TurnMissed(s, p)' = TurnMissed(s, p)
<1>1. \A i, slots : Leads(i, slots)' = Leads(i, slots)
  BY DEF Leads
<1>2. \A i, t, p : Targets(i, t, p)' = Targets(i, t, p)
  BY <1>1 DEF Targets
<1>3. \A S, closed, t, p : Grown(S, closed, t, p)' = Grown(S, closed, t, p)
  BY <1>2 DEF Grown
<1>4. \A open, closed, t, p : Closure(open, closed, t, p)' = Closure(open, closed, t, p)
  BY <1>3 DEF Closure
<1>5. \A i, c : Consumes(i, c)' = Consumes(i, c)
  BY DEF Consumes, ClsMatch
<1>6. \A S, c : Onward(S, c)' = Onward(S, c) /\ Misses(S, c)' = Misses(S, c)
  BY <1>1, <1>5 DEF Onward, Misses
<1>7. \A s, p : Reached(s, p)' = Reached(s, p)
  BY <1>4, <1>6 DEF Reached
<1> QED
  BY <1>6, <1>7 DEF TurnMissed

\* A generation is left before the last place.
LEMMA Room ==
  ASSUME NEW n \in Nat, NEW s \in Nat, NEW k \in Nat, s <= n, k <= n,
         NEW g \in Nat, g <= s * (n + 1) + k, (n + 1) * (n + 1) <= MaxGen
  PROVE  g # MaxGen /\ g < MaxGen
<1>1. PICK m \in Nat : m = n + 1 /\ s <= m - 1
  OBVIOUS
<1>2. s * m <= (m - 1) * m
  BY <1>1
<1>3. (m - 1) * m = m * m - m
  BY <1>1
<1>4. PICK x \in Int, y \in Int : x = s * m /\ y = m * m
  BY <1>1
<1>5. x <= y - m /\ g <= x + k /\ y <= MaxGen
  BY <1>1, <1>2, <1>3, <1>4
<1> QED
  BY <1>1, <1>4, <1>5, GenAssumption

\* A search that starts has no stamps.
LEMMA SearchStep ==
  ASSUME RInv, NEW t \in Seq(CodePoint), Search(t)
  PROVE  RInv'
<1>1. IsAutomaton(re)'
  BY DEF RInv, Search, IsAutomaton
<1>2. PICK n \in Nat : n = Len(text') /\ text' = t
  BY DEF Search
<1>3. pc' = "start" /\ text' \in Seq(CodePoint) /\ start' = 0 /\ gen' = 0 /\ DOMAIN mark' = States'
  BY DEF Search, States
<1>4. start' \in 0 .. Len(text') + 1
  BY <1>2, <1>3
<1>5. Within(gen)'
  BY DEF Search, Within
<1>6. Counted(0)'
  BY <1>2, <1>3 DEF Counted
<1> QED
  BY <1>1, <1>3, <1>4, <1>5, <1>6 DEF RInv, Searched

LEMMA BeginStep ==
  ASSUME RInv, Begin
  PROVE  RInv'
<1>1. pc = "start" /\ Searched
  BY DEF RInv, Begin
<1>2. re' = re /\ text' = text /\ start' = start
  BY DEF Begin
<1>3. PICK n \in Nat : n = Len(text)
  BY <1>1 DEF Searched
<1>4. CASE start > Len(text)
  <2>1. pc' = "done"
    BY <1>4 DEF Begin
  <2> QED
    BY <2>1 DEF RInv
<1>5. CASE ~(start > Len(text))
  <2>1. start \in Nat /\ start <= n
    BY <1>1, <1>3, <1>5 DEF Searched
  <2>2. pc' = "scan" /\ pos' = start /\ gen' = NextGen /\ mark' = Stamp({re.start}, gen', start)
    BY <1>5 DEF Begin
  <2>3. IsAutomaton(re)' /\ text' \in Seq(CodePoint) /\ start' \in 0 .. Len(text') + 1 /\ Len(text') = n
    BY <1>1, <1>2, <1>3 DEF Searched, IsAutomaton
  <2>4. start' <= Len(text') /\ pos' \in start' .. Len(text')
    BY <1>2, <2>1, <2>2, <2>3
  <2>5. DOMAIN mark' = States'
    BY <1>1, <1>2, <2>2 DEF Searched, Stamp, States
  <2>6. ASSUME Short'
        PROVE  Counted(pos - start + 1)' /\ Within(gen)' /\ Current'
    <3>1. Short
      BY <1>2, <2>6 DEF Short
    <3>2. Counted(0) /\ Within(gen)
      BY <1>1, <3>1 DEF Searched
    <3>3. gen \in Nat /\ gen <= start * (n + 1) + 0 /\ (n + 1) * (n + 1) <= MaxGen
      BY <1>3, <2>1, <3>1, <3>2 DEF Counted, Short
    <3>4. gen # MaxGen
      BY <2>1, <3>3, Room
    <3>5. PICK g \in Nat : g = gen' /\ g = gen + 1 /\ g # 0 /\ gen = g - 1
      BY <2>2, <3>3, <3>4 DEF NextGen
    <3>6. Within(g - 1)
      BY <3>2, <3>5
    <3>7. {re.start} \in SUBSET States
      BY <1>1 DEF Searched, IsAutomaton, States
    <3>8. mark' = Stamp({re.start}, g, start)
      BY <2>2, <3>5
    <3>9. Within(g)' /\ Stamped(g)' = Closure({re.start}, {}, text, start)
      BY <1>1, <3>5, <3>6, <3>7, <3>8, StampIs DEF Searched
    <3>10. Stamped(g)' = Reached(start, start)
      BY <1>1, <1>3, <2>1, <3>9, ReachedIs DEF Searched
    <3>11. Current'
      <4>1. PICK s \in Nat : s = start /\ s = start' /\ s = pos'
        BY <1>2, <2>1, <2>2
      <4>2. Reached(s, s)' = Reached(s, s)
        BY <1>2, ReachedStays
      <4>3. Stamped(gen)' = Stamped(g)'
        BY <3>5 DEF Stamped, Negated
      <4>4. Reached(start, pos)' = Reached(s, s)'
        BY <4>1 DEF Reached
      <4> QED
        BY <3>10, <4>1, <4>2, <4>3, <4>4 DEF Current
    <3>12. Within(gen)'
      BY <3>5, <3>9 DEF Within
    <3>13. Counted(pos - start + 1)'
      <4>1. PICK k \in Int : k = start * (n + 1)
        BY <2>1
      <4>2. gen' \in Nat /\ gen' <= k + 1 /\ pos' - start' + 1 = 1
        BY <1>2, <2>1, <2>2, <3>3, <3>5, <4>1
      <4>3. start' * (Len(text') + 1) = k
        BY <1>2, <2>3, <4>1
      <4> QED
        BY <4>1, <4>2, <4>3 DEF Counted
    <3> QED
      BY <3>11, <3>12, <3>13
  <2> QED
    BY <2>2, <2>3, <2>4, <2>5, <2>6 DEF RInv, Searched
<1> QED
  BY <1>4, <1>5

LEMMA ScanStep ==
  ASSUME RInv, Scan
  PROVE  RInv'
<1>1. pc = "scan" /\ Searched
  BY DEF RInv, Scan
<1>2. re' = re /\ text' = text
  BY DEF Scan
<1>3. PICK n \in Nat : n = Len(text)
  BY <1>1 DEF Searched
<1>4. start \in Nat /\ start <= n /\ pos \in Nat /\ start <= pos /\ pos <= n
  BY <1>1, <1>3 DEF Searched
<1>5. IsAutomaton(re)' /\ text' \in Seq(CodePoint) /\ Len(text') = n
  BY <1>1, <1>2, <1>3 DEF Searched, IsAutomaton
<1>6. PICK k \in Int : k = start * (n + 1)
  BY <1>4
<1>7. CASE re.match \in Stamped(gen)
  <2>1. pc' = "done"
    BY <1>7 DEF Scan
  <2> QED
    BY <2>1 DEF RInv
<1>8. CASE re.match \notin Stamped(gen) /\ pos >= Len(text)
  <2>1. start' = start + 1 /\ pc' = "start" /\ gen' = gen /\ mark' = mark
    BY <1>8 DEF Scan
  <2>2. start' \in 0 .. Len(text') + 1
    BY <1>4, <1>5, <2>1
  <2>3. DOMAIN mark' = States'
    BY <1>1, <1>2, <2>1 DEF Searched, States
  <2>4. ASSUME Short'
        PROVE  Counted(0)' /\ Within(gen)'
    <3>1. Short
      BY <1>2, <2>4 DEF Short
    <3>2. Counted(pos - start + 1) /\ Within(gen)
      BY <1>1, <3>1 DEF Searched
    <3>3. Within(gen)'
      BY <2>1, <3>2 DEF Within
    <3>4. (start + 1) * (n + 1) = k + (n + 1)
      BY <1>4, <1>6
    <3>5. gen \in Nat /\ gen <= k + (pos - start + 1)
      BY <1>3, <1>6, <3>2 DEF Counted
    <3>6. gen <= k + (n + 1)
      BY <1>4, <3>5
    <3>7. start' * (Len(text') + 1) + 0 = k + (n + 1)
      BY <1>5, <2>1, <3>4
    <3> QED
      BY <2>1, <3>3, <3>5, <3>6, <3>7 DEF Counted
  <2> QED
    BY <1>5, <2>1, <2>2, <2>3, <2>4 DEF RInv, Searched
<1>9. CASE re.match \notin Stamped(gen) /\ ~(pos >= Len(text))
  <2>1. start' = start /\ pc' = "scan" /\ pos' = pos + 1 /\ gen' = NextGen
    BY <1>1, <1>9 DEF Scan
  <2>2. mark' = Stamp(Consumed(Stamped(gen), text[pos + 1]), gen', pos')
    BY <1>9 DEF Scan
  <2>3. pos + 1 <= n /\ pos \in start .. start + n - 1
    BY <1>3, <1>4, <1>9
  <2>4. start' \in 0 .. Len(text') + 1 /\ start' <= Len(text') /\ pos' \in start' .. Len(text')
    BY <1>4, <1>5, <2>1, <2>3
  <2>5. DOMAIN mark' = States'
    BY <1>1, <1>2, <2>2 DEF Searched, Stamp, States
  <2>6. ASSUME Short'
        PROVE  Counted(pos - start + 1)' /\ Within(gen)' /\ Current'
    <3>1. Short
      BY <1>2, <2>6 DEF Short
    <3>2. Counted(pos - start + 1) /\ Within(gen) /\ Current
      BY <1>1, <3>1 DEF Searched
    <3>3. PICK d \in Nat : d = pos - start + 1 /\ d <= n
      BY <1>4, <2>3
    <3>4. gen \in Nat /\ gen <= start * (n + 1) + d /\ (n + 1) * (n + 1) <= MaxGen
      BY <1>3, <3>1, <3>2, <3>3 DEF Counted, Short
    <3>5. gen # MaxGen
      BY <1>4, <3>3, <3>4, Room
    <3>6. PICK g \in Nat : g = gen' /\ g = gen + 1 /\ g # 0 /\ gen = g - 1
      BY <2>1, <3>4, <3>5 DEF NextGen
    <3>7. Within(g - 1)
      BY <3>2, <3>6
    <3>8. PICK c : c = text[pos + 1]
      OBVIOUS
    <3>9. PICK R : R = Reached(start, pos)
      OBVIOUS
    <3>10. PICK S \in SUBSET States :
             /\ S = Consumed(Stamped(gen), c) /\ S \subseteq Onward(R, c)
             /\ S = Onward(R, c) \/ TurnMissed(start, pos) \/ Misses(R, c)
      <4>1. Stamped(gen) \in SUBSET States
        BY <1>1 DEF Searched, Stamped
      <4>2. /\ Consumed(Stamped(gen), c) \in SUBSET States
            /\ Consumed(Stamped(gen), c) \subseteq Onward(Stamped(gen), c)
            /\ ~Misses(Stamped(gen), c) => Consumed(Stamped(gen), c) = Onward(Stamped(gen), c)
        BY <1>1, <4>1, ConsumedIsOnward DEF Searched
      <4>3. Stamped(gen) \subseteq R /\ (Stamped(gen) = R \/ TurnMissed(start, pos))
        BY <3>2, <3>9 DEF Current
      <4>4. Onward(Stamped(gen), c) \subseteq Onward(R, c)
        BY <4>3, OnwardGrows
      <4> QED
        BY <4>2, <4>3, <4>4
    <3>11. Within(g)' /\ Stamped(g)' = Closure(S, {}, text, pos + 1)
      <4>1. mark' = Stamp(S, g, pos + 1)
        BY <2>1, <2>2, <3>6, <3>8, <3>10
      <4>2. IsAutomaton(re) /\ DOMAIN mark = States
        BY <1>1 DEF Searched
      <4> QED
        BY <3>6, <3>7, <4>1, <4>2, StampIs
    <3>12. Current'
      <4>1. PICK q \in Nat, s \in Nat : q = pos + 1 /\ q = pos' /\ s = start /\ s = start'
        BY <1>4, <2>1
      <4>2. Reached(s, q) = Closure(Onward(R, c), {}, text, q)
        BY <1>1, <1>3, <2>3, <3>8, <3>9, <4>1, ReachedIs DEF Searched
      <4>3. Stamped(g)' \subseteq Reached(s, q)
        BY <1>1, <3>10, <3>11, <4>1, <4>2, OnwardIn, ClosureGrows DEF Searched
      <4>4. Stamped(g)' = Reached(s, q) \/ TurnMissed(s, q)
        <5>1. Misses(R, c) => TurnMissed(s, q)
          <6>1. pos \in s .. q - 1
            BY <1>4, <4>1
          <6> QED
            BY <3>8, <3>9, <4>1, <6>1 DEF TurnMissed
        <5>2. TurnMissed(start, pos) => TurnMissed(s, q)
          <6>1. \A r \in start .. pos - 1 : r \in s .. q - 1
            BY <1>4, <4>1
          <6> QED
            BY <4>1, <6>1 DEF TurnMissed
        <5> QED
          BY <3>10, <3>11, <4>1, <4>2, <5>1, <5>2
      <4>5. Stamped(gen)' = Stamped(g)'
        BY <3>6 DEF Stamped, Negated
      <4>6. /\ Reached(s, q)' = Reached(s, q)
            /\ TurnMissed(s, q)' = TurnMissed(s, q)
        BY <1>2, ReachedStays
      <4>7. Reached(start, pos)' = Reached(s, q)' /\ TurnMissed(start, pos)' = TurnMissed(s, q)'
        BY <4>1 DEF Reached, TurnMissed
      <4> QED
        BY <4>3, <4>4, <4>5, <4>6, <4>7 DEF Current
    <3>13. Within(gen)'
      BY <3>6, <3>11 DEF Within
    <3>14. Counted(pos - start + 1)'
      <4>1. gen' \in Nat /\ gen' <= k + d + 1 /\ pos' - start' + 1 = d + 1
        BY <1>4, <1>6, <2>1, <3>3, <3>4, <3>6
      <4>2. start' * (Len(text') + 1) = k
        BY <1>5, <1>6, <2>1
      <4> QED
        BY <1>6, <3>3, <4>1, <4>2 DEF Counted
    <3> QED
      BY <3>12, <3>13, <3>14
  <2> QED
    BY <1>5, <2>1, <2>4, <2>5, <2>6 DEF RInv, Searched
<1> QED
  BY <1>7, <1>8, <1>9

LEMMA StutterSearch ==
  ASSUME RInv, UNCHANGED searchVars
  PROVE  RInv'
<1>1. pc' = pc /\ re' = re /\ text' = text /\ start' = start /\ pos' = pos /\ gen' = gen /\ mark' = mark
  BY DEF searchVars
<1>2. \A s, p : Reached(s, p)' = Reached(s, p) /\ TurnMissed(s, p)' = TurnMissed(s, p)
  BY <1>1, ReachedStays
<1>3. Stamped(gen)' = Stamped(gen) /\ Within(gen)' = Within(gen)
  BY <1>1 DEF Stamped, Within, Negated
<1>4. \A m : Counted(m)' = Counted(m)
  BY <1>1 DEF Counted
<1>5. Current' = Current
  <2>1. /\ Reached(start, pos)' = Reached(start, pos)
        /\ TurnMissed(start, pos)' = TurnMissed(start, pos)
    <3>1. PICK s, p : s = start /\ s = start' /\ p = pos /\ p = pos'
      BY <1>1
    <3>2. Reached(start, pos)' = Reached(s, p)' /\ TurnMissed(start, pos)' = TurnMissed(s, p)'
      BY <3>1 DEF Reached, TurnMissed
    <3> QED
      BY <1>2, <3>1, <3>2
  <2> QED
    BY <1>3, <2>1 DEF Current
<1>6. Counted(0)' = Counted(0) /\ Counted(pos - start + 1)' = Counted(pos - start + 1)
  BY <1>1 DEF Counted
<1>7. IsAutomaton(re)' = IsAutomaton(re) /\ States' = States /\ Short' = Short
  BY <1>1 DEF IsAutomaton, States, Short
<1>8. Searched' = Searched
  BY <1>1, <1>3, <1>5, <1>6, <1>7 DEF Searched
<1> QED
  BY <1>1, <1>7, <1>8 DEF RInv

\* sch_regex_search, on every automaton and every text: the stamps are those
\* of the generations so far, and the current one is of the states that the
\* automaton may be in.
THEOREM SearchInvariant == SearchSpec => []RInv
<1>1. SearchInit => RInv
  BY DEF SearchInit, RInv
<1>2. RInv /\ [SearchNext]_searchVars => RInv'
  <2> SUFFICES ASSUME RInv, [SearchNext]_searchVars
               PROVE  RInv'
    OBVIOUS
  <2>1. ASSUME NEW a, IsAutomaton(a) \/ a = NoRegex, Load(a)
        PROVE  RInv'
    <3>1. a # NoRegex => IsAutomaton(a)
      BY <2>1
    <3>2. re' = a /\ pc' = IF a = NoRegex THEN "failed" ELSE "compiled"
      BY <2>1 DEF Load
    <3> QED
      BY <3>1, <3>2 DEF RInv, IsAutomaton
  <2> QED
    BY <2>1, SearchStep, BeginStep, ScanStep, StutterSearch DEF SearchNext
<1> QED
  BY <1>1, <1>2, PTL DEF SearchSpec

\* One array of stamps serves all the generations: as long as they do not
\* wrap, none of an earlier one passes for a state of the current set.
THEOREM StampsHold == SearchSpec => []StampsAreFresh
<1>1. RInv => StampsAreFresh
  BY DEF RInv, Searched, Current, Short, StampsAreFresh
<1> QED
  BY <1>1, SearchInvariant, PTL
===============================================================================
