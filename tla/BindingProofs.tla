---------------------------- MODULE BindingProofs -----------------------------
(***************************************************************************)
(* The two interfaces made for language bindings: the descriptor plans of  *)
(* plan/plan.c and the streaming writer of emit/writer.c.                  *)
(*                                                                         *)
(* The depth gate of teptris_plan_build for any number of sub-plans and    *)
(* rows and any limit.  The one pass leaves a depth at which two local     *)
(* facts hold: a sub-plan lies deeper than every plan that refers to it,   *)
(* and exactly one deeper than one of them, unless its depth is 0.  The    *)
(* first makes every chain of references climb, the second finds a chain   *)
(* as long as a depth.                                                     *)
(*                                                                         *)
(* The walk of a plan over any documents, and the views of its result: a   *)
(* view is the walk of the place it stands for (Viewed), and one row of it *)
(* is one unfolding of the walk.                                           *)
(*                                                                         *)
(* The writer for any keys, any number of nodes and any depth.  Its frames *)
(* are the way from the root of what was described to the container that   *)
(* is open (Chained), the values among them are the innermost (Layered),   *)
(* their marks say where lines may still be written (Marked), and a reader *)
(* of the text so far has open exactly the brackets of those values        *)
(* (Mirrors).                                                              *)
(***************************************************************************)
EXTENDS Plan, Writer, NatRecursion, SequenceTheorems

Typed == /\ spec \in [Plans -> Seq(Row)]
         /\ cur \in Plans
         /\ built \in {"no", "yes", "refused"}

\* What teptris_plan_build returned is still what it would return.
Standing == built # "no" => (built = "refused" <=> BadRow \/ TooDeep)

GInv == Typed /\ Standing

Nested(p, i) == i \in DOMAIN spec[p] /\ spec[p][i].kind = "NESTED"
Sub(p, i) == spec[p][i].sub

\* What a nested row refers to.
LEMMA Rows ==
  ASSUME Typed, NEW p \in Plans
  PROVE  /\ \A i : Nested(p, i) => Sub(p, i) \in 0 .. PlanCount
         /\ \A q : Refers(p, q) <=> \E i : Nested(p, i) /\ Sub(p, i) = q
         /\ ~BadRow => \A i : Nested(p, i) => Sub(p, i) \in Plans
<1>1. spec[p] \in Seq(Row) /\ PlanCount \in Nat
  BY PlanAssumption DEF Typed
<1>2. \A r \in Row : r.kind = "NESTED" => r.sub \in 0 .. PlanCount
  BY DEF Row
<1>3. ASSUME NEW i, Nested(p, i) PROVE Sub(p, i) \in 0 .. PlanCount
  <2>1. i \in DOMAIN spec[p] /\ spec[p][i] \in Row
    BY <1>1, <1>3 DEF Nested
  <2> QED
    BY <1>2, <1>3, <2>1 DEF Nested, Sub
<1>4. \A q : Refers(p, q) <=> \E i : Nested(p, i) /\ Sub(p, i) = q
  BY DEF Refers, Nested, Sub
<1>5. ASSUME ~BadRow, NEW i, Nested(p, i) PROVE Sub(p, i) \in Plans
  <2>1. ~(Sub(p, i) >= PlanCount)
    BY <1>5 DEF BadRow, Nested, Sub
  <2> QED
    BY <1>1, <1>3, <1>5, <2>1 DEF Plans
<1> QED
  BY <1>3, <1>4, <1>5

\* What the rows of p up to n have made of the depths d.
Raised(e, d, p, n) ==
  /\ e \in [Plans -> Nat]
  /\ \A q \in Plans : e[q] >= d[q]
  /\ \A q \in Plans : e[q] # d[q] => Refers(p, q) /\ e[q] = d[p] + 1
  /\ \A i \in 1 .. n : Nested(p, i) => e[Sub(p, i)] >= d[p] + 1

\* One row relaxes one depth.
LEMMA RowRaises ==
  ASSUME Typed, ~BadRow, Forward, NEW p \in Plans, NEW d \in [Plans -> Nat], NEW n \in Nat,
         NEW e, Raised(e, d, p, n),
         NEW f, f = IF Nested(p, n + 1) THEN Relaxed(e, p, Sub(p, n + 1)) ELSE e
  PROVE  Raised(f, d, p, n + 1)
<1>1. e \in [Plans -> Nat] /\ \A q \in Plans : d[q] \in Nat /\ e[q] \in Nat /\ e[q] >= d[q]
  BY DEF Raised
<1>2. e[p] = d[p]
  <2>1. ~(p < p)
    BY DEF Plans
  <2> QED
    BY <2>1 DEF Raised, Forward
<1>3. CASE ~Nested(p, n + 1)
  <2>1. \A i \in 1 .. n + 1 : Nested(p, i) => i \in 1 .. n
    BY <1>3
  <2> QED
    BY <1>3, <2>1 DEF Raised
<1>4. CASE Nested(p, n + 1)
  <2>1. PICK s : s = Sub(p, n + 1)
    OBVIOUS
  <2>2. s \in Plans /\ Refers(p, s)
    BY <1>4, <2>1, Rows
  <2>3. f = IF e[s] <= d[p] + 1 THEN [e EXCEPT ![s] = d[p] + 1] ELSE e
    BY <1>2, <1>4, <2>1 DEF Relaxed
  <2>4. f \in [Plans -> Nat] /\ f[s] >= d[p] + 1 /\ f[s] >= e[s]
    BY <1>1, <2>2, <2>3
  <2>5. \A q \in Plans : q # s => f[q] = e[q]
    BY <1>1, <2>3
  <2>6. f[s] # e[s] => f[s] = d[p] + 1
    BY <1>1, <2>2, <2>3
  <2>7. \A q \in Plans : f[q] \in Nat /\ f[q] >= e[q] /\ f[q] >= d[q]
    BY <1>1, <2>4, <2>5
  <2>8. ASSUME NEW q \in Plans, f[q] # d[q] PROVE Refers(p, q) /\ f[q] = d[p] + 1
    <3>1. CASE f[q] = e[q]
      BY <2>8, <3>1 DEF Raised
    <3>2. CASE f[q] # e[q]
      BY <2>2, <2>5, <2>6, <3>2
    <3> QED
      BY <3>1, <3>2
  <2>9. ASSUME NEW i \in 1 .. n + 1, Nested(p, i) PROVE f[Sub(p, i)] >= d[p] + 1
    <3>1. CASE i = n + 1
      BY <2>1, <2>4, <3>1
    <3>2. CASE i # n + 1
      <4>1. i \in 1 .. n /\ Sub(p, i) \in Plans
        BY <2>9, <3>2, Rows
      <4>2. e[Sub(p, i)] >= d[p] + 1
        BY <2>9, <4>1 DEF Raised
      <4>3. PICK q \in Plans : q = Sub(p, i)
        BY <4>1
      <4> QED
        BY <1>1, <2>7, <4>2, <4>3
    <3> QED
      BY <3>1, <3>2
  <2> QED
    BY <2>4, <2>7, <2>8, <2>9 DEF Raised
<1> QED
  BY <1>3, <1>4

\* The definition local to RelaxedBy.
RowByRow(e, d, p) ==
  e = [n \in 0 .. Len(spec[p]) |->
         IF n = 0 THEN d
         ELSE IF spec[p][n].kind = "NESTED" THEN Relaxed(e[n - 1], p, spec[p][n].sub)
         ELSE e[n - 1]]

\* All the rows of a sub-plan.
LEMMA PlanRaises ==
  ASSUME Typed, ~BadRow, Forward, NEW p \in Plans, NEW d \in [Plans -> Nat]
  PROVE  Raised(RelaxedBy(spec[p], d, p), d, p, Len(spec[p]))
<1>1. PICK L \in Nat : L = Len(spec[p]) /\ DOMAIN spec[p] = 1 .. L
  BY DEF Typed
<1> DEFINE F == [x \in [Plans -> Nat] \X Nat |->
                   IF Nested(p, x[2]) THEN Relaxed(x[1], p, Sub(p, x[2])) ELSE x[1]]
<1>2. F \in [[Plans -> Nat] \X Nat -> [Plans -> Nat]]
  <2>1. ASSUME NEW g \in [Plans -> Nat], NEW s PROVE Relaxed(g, p, s) \in [Plans -> Nat]
    <3>1. PICK v \in Nat : v = g[p] + 1
      OBVIOUS
    <3>2. [g EXCEPT ![s] = v] \in [Plans -> Nat]
      OBVIOUS
    <3>3. Relaxed(g, p, s) = IF g[s] <= v THEN [g EXCEPT ![s] = v] ELSE g
      BY <3>1 DEF Relaxed
    <3> QED
      BY <3>2, <3>3
  <2>2. ASSUME NEW x \in [Plans -> Nat] \X Nat
        PROVE  (IF Nested(p, x[2]) THEN Relaxed(x[1], p, Sub(p, x[2])) ELSE x[1]) \in [Plans -> Nat]
    BY <2>1
  <2> QED
    BY <2>2
<1>3. \A g \in [Plans -> Nat], i \in Nat :
        F[<<g, i>>] = IF Nested(p, i) THEN Relaxed(g, p, Sub(p, i)) ELSE g
  OBVIOUS
<1> HIDE DEF F
<1>4. PICK h \in [0 .. L -> [Plans -> Nat]] : IteratesUpTo(h, d, F, L)
  BY <1>2, RecursiveUpTo
<1>5. RowByRow(h, d, p)
  <2>1. h = [i \in 0 .. L |-> IF i = 0 THEN d ELSE F[<<h[i - 1], i>>]]
    BY <1>4 DEF IteratesUpTo
  <2>2. ASSUME NEW i \in 0 .. L, i # 0
        PROVE  h[i] = IF spec[p][i].kind = "NESTED" THEN Relaxed(h[i - 1], p, spec[p][i].sub)
                      ELSE h[i - 1]
    <3>1. i \in Nat /\ i - 1 \in 0 .. L /\ i \in DOMAIN spec[p]
      BY <1>1, <2>2
    <3>2. h[i - 1] \in [Plans -> Nat]
      BY <3>1
    <3>3. h[i] = F[<<h[i - 1], i>>]
      BY <2>1, <2>2
    <3>4. F[<<h[i - 1], i>>] = IF Nested(p, i) THEN Relaxed(h[i - 1], p, Sub(p, i)) ELSE h[i - 1]
      BY <1>3, <3>1, <3>2
    <3>5. Nested(p, i) <=> spec[p][i].kind = "NESTED"
      BY <3>1 DEF Nested
    <3> QED
      BY <3>3, <3>4, <3>5 DEF Sub
  <2>3. h[0] = d
    BY <2>1
  <2>4. h = [i \in 0 .. L |-> IF i = 0 THEN d
                              ELSE IF spec[p][i].kind = "NESTED" THEN Relaxed(h[i - 1], p, spec[p][i].sub)
                              ELSE h[i - 1]]
    BY <2>2, <2>3
  <2> QED
    BY <1>1, <2>4 DEF RowByRow
<1>6. PICK e : RowByRow(e, d, p) /\ RelaxedBy(spec[p], d, p) = e[L]
  BY <1>1, <1>5 DEF RelaxedBy, RowByRow
<1>7. e[0] = d
  BY <1>1, <1>6 DEF RowByRow
<1>8. ASSUME NEW i \in 0 .. L, i # 0
      PROVE  e[i] = IF Nested(p, i) THEN Relaxed(e[i - 1], p, Sub(p, i)) ELSE e[i - 1]
  <2>1. i \in DOMAIN spec[p]
    BY <1>1, <1>8
  <2>2. e[i] = IF spec[p][i].kind = "NESTED" THEN Relaxed(e[i - 1], p, spec[p][i].sub) ELSE e[i - 1]
    BY <1>1, <1>6, <1>8 DEF RowByRow
  <2> QED
    BY <2>1, <2>2 DEF Nested, Sub
<1> DEFINE T == {n \in Nat : n <= L => Raised(e[n], d, p, n)}
<1>9. 0 \in T
  BY <1>7 DEF Raised
<1>10. ASSUME NEW n \in T PROVE n + 1 \in T
  <2>1. n \in Nat /\ n + 1 \in Nat /\ n + 1 # 0
    OBVIOUS
  <2>2. SUFFICES ASSUME n + 1 <= L PROVE Raised(e[n + 1], d, p, n + 1)
    BY <2>1
  <2>3. Raised(e[n], d, p, n) /\ n + 1 \in 0 .. L
    BY <2>1, <2>2
  <2>4. e[n + 1] = IF Nested(p, n + 1) THEN Relaxed(e[n], p, Sub(p, n + 1)) ELSE e[n]
    BY <1>8, <2>1, <2>3, (n + 1) - 1 = n
  <2>5. PICK g, f : g = e[n] /\ f = e[n + 1]
    OBVIOUS
  <2> HIDE DEF T
  <2> QED
    BY <2>1, <2>3, <2>4, <2>5, RowRaises
<1>11. T \in SUBSET Nat
  OBVIOUS
<1> HIDE DEF T
<1>12. T = Nat
  BY <1>9, <1>10, <1>11, InductiveSet
<1>13. L \in T /\ L <= L
  BY <1>12
<1> QED
  BY <1>1, <1>6, <1>13 DEF T

\* What the pass has found after the plans below n: a depth that is not 0 is
\* one more than that of a parent, and none is less than that.
Deep(d, n) ==
  /\ d \in [Plans -> Nat]
  /\ \A q \in Plans : d[q] > 0 =>
       \E p \in Plans : p < n /\ Refers(p, q) /\ d[q] = d[p] + 1
  /\ \A p \in Plans, q \in Plans : p < n /\ Refers(p, q) => d[q] >= d[p] + 1

\* The rows of plan n change only what lies behind it.
LEMMA DeepStep ==
  ASSUME Typed, ~BadRow, Forward, NEW n \in Plans, NEW d, Deep(d, n),
         NEW e, e = RelaxedBy(spec[n], d, n)
  PROVE  Deep(e, n + 1)
<1>1. d \in [Plans -> Nat] /\ n \in Nat /\ \A q \in Plans : q \in Nat /\ d[q] \in Nat
  BY PlanAssumption DEF Deep, Plans
<1>2. PICK L \in Nat : L = Len(spec[n]) /\ DOMAIN spec[n] = 1 .. L
  BY DEF Typed
<1>3. Raised(e, d, n, L)
  BY <1>1, <1>2, PlanRaises
<1>4. e \in [Plans -> Nat] /\ \A q \in Plans : e[q] \in Nat /\ e[q] >= d[q]
  BY <1>3 DEF Raised
<1>5. \A q \in Plans : q <= n => e[q] = d[q]
  <2>1. \A q \in Plans : q <= n => ~(n < q)
    BY <1>1
  <2> QED
    BY <1>3, <2>1 DEF Raised, Forward
<1>6. ASSUME NEW q \in Plans, e[q] > 0
      PROVE  \E p \in Plans : p < n + 1 /\ Refers(p, q) /\ e[q] = e[p] + 1
  <2>1. CASE e[q] = d[q]
    <3>1. PICK p \in Plans : p < n /\ Refers(p, q) /\ d[q] = d[p] + 1
      BY <1>6, <2>1 DEF Deep
    <3>2. e[p] = d[p] /\ p < n + 1
      BY <1>1, <1>5, <3>1
    <3> QED
      BY <2>1, <3>1, <3>2
  <2>2. CASE e[q] # d[q]
    <3>1. Refers(n, q) /\ e[q] = d[n] + 1
      BY <1>3, <2>2 DEF Raised
    <3>2. e[n] = d[n] /\ n < n + 1
      BY <1>1, <1>5
    <3> QED
      BY <3>1, <3>2
  <2> QED
    BY <2>1, <2>2
<1>7. ASSUME NEW p \in Plans, NEW q \in Plans, p < n + 1, Refers(p, q)
      PROVE  e[q] >= e[p] + 1
  <2>1. e[p] = d[p] /\ (p = n \/ p < n)
    BY <1>1, <1>5, <1>7
  <2>2. CASE p = n
    <3>1. PICK i : Nested(n, i) /\ Sub(n, i) = q
      BY <1>7, <2>2, Rows
    <3>2. i \in 1 .. L
      BY <1>2, <3>1 DEF Nested
    <3> QED
      BY <1>3, <2>1, <2>2, <3>1, <3>2 DEF Raised
  <2>3. CASE p < n
    <3>1. d[q] >= d[p] + 1
      BY <1>7, <2>3 DEF Deep
    <3> QED
      BY <1>1, <1>4, <2>1, <3>1
  <2> QED
    BY <2>1, <2>2, <2>3
<1> QED
  BY <1>4, <1>6, <1>7 DEF Deep

\* The definition local to Depths.
PlanByPlan(d) ==
  d = [n \in 0 .. PlanCount |->
         IF n = 0 THEN [p \in Plans |-> 0]
         ELSE RelaxedBy(spec[n - 1], d[n - 1], n - 1)]

\* The depths of the whole pass.
LEMMA DepthsAreDeep ==
  ASSUME Typed, ~BadRow, Forward
  PROVE  Deep(Depths(spec), PlanCount)
<1>1. PlanCount \in Nat
  BY PlanAssumption
<1> DEFINE Zero == [p \in Plans |-> 0]
           F == [x \in [Plans -> Nat] \X Nat |->
                   IF x[2] - 1 \in Plans THEN RelaxedBy(spec[x[2] - 1], x[1], x[2] - 1) ELSE x[1]]
<1>2. F \in [[Plans -> Nat] \X Nat -> [Plans -> Nat]] /\ Zero \in [Plans -> Nat]
  <2>1. ASSUME NEW g \in [Plans -> Nat], NEW p \in Plans PROVE RelaxedBy(spec[p], g, p) \in [Plans -> Nat]
    BY <2>1, PlanRaises DEF Raised
  <2>2. ASSUME NEW x \in [Plans -> Nat] \X Nat
        PROVE  (IF x[2] - 1 \in Plans THEN RelaxedBy(spec[x[2] - 1], x[1], x[2] - 1) ELSE x[1]) \in [Plans -> Nat]
    BY <2>1
  <2> QED
    BY <2>2
<1>3. \A g \in [Plans -> Nat], i \in Nat :
        F[<<g, i>>] = IF i - 1 \in Plans THEN RelaxedBy(spec[i - 1], g, i - 1) ELSE g
  OBVIOUS
<1> HIDE DEF F
<1>4. PICK h \in [0 .. PlanCount -> [Plans -> Nat]] : IteratesUpTo(h, Zero, F, PlanCount)
  BY <1>1, <1>2, RecursiveUpTo
<1>5. PlanByPlan(h)
  <2>1. h = [i \in 0 .. PlanCount |-> IF i = 0 THEN Zero ELSE F[<<h[i - 1], i>>]]
    BY <1>4 DEF IteratesUpTo
  <2>2. ASSUME NEW i \in 0 .. PlanCount, i # 0 PROVE h[i] = RelaxedBy(spec[i - 1], h[i - 1], i - 1)
    <3>1. i \in Nat /\ i - 1 \in 0 .. PlanCount /\ i - 1 \in Plans
      BY <1>1, <2>2 DEF Plans
    <3>2. h[i - 1] \in [Plans -> Nat]
      BY <3>1
    <3>3. h[i] = F[<<h[i - 1], i>>]
      BY <2>1, <2>2
    <3> QED
      BY <1>3, <3>1, <3>2, <3>3
  <2>3. h[0] = Zero
    BY <1>1, <2>1
  <2>4. h = [i \in 0 .. PlanCount |-> IF i = 0 THEN Zero ELSE RelaxedBy(spec[i - 1], h[i - 1], i - 1)]
    BY <2>2, <2>3
  <2> QED
    BY <2>4 DEF PlanByPlan
<1>6. PICK d : PlanByPlan(d) /\ Depths(spec) = d[PlanCount]
  BY <1>5 DEF Depths, PlanByPlan
<1>7. d[0] = Zero
  BY <1>1, <1>6 DEF PlanByPlan
<1>8. ASSUME NEW i \in 0 .. PlanCount, i # 0 PROVE d[i] = RelaxedBy(spec[i - 1], d[i - 1], i - 1)
  BY <1>6, <1>8 DEF PlanByPlan
<1> DEFINE T == {n \in Nat : n <= PlanCount => Deep(d[n], n)}
<1>9. 0 \in T
  <2>1. ASSUME NEW p \in Plans PROVE ~(p < 0)
    BY DEF Plans
  <2>2. \A q \in Plans : ~(Zero[q] > 0)
    OBVIOUS
  <2>3. Deep(Zero, 0)
    BY <1>2, <2>1, <2>2 DEF Deep
  <2> QED
    BY <1>7, <2>3
<1>10. ASSUME NEW n \in T PROVE n + 1 \in T
  <2>1. n \in Nat /\ n + 1 \in Nat /\ n + 1 # 0 /\ (n + 1) - 1 = n
    OBVIOUS
  <2>2. SUFFICES ASSUME n + 1 <= PlanCount PROVE Deep(d[n + 1], n + 1)
    BY <2>1
  <2>3. Deep(d[n], n) /\ n + 1 \in 0 .. PlanCount /\ n \in Plans
    BY <1>1, <2>1, <2>2 DEF Plans
  <2>4. d[n + 1] = RelaxedBy(spec[n], d[n], n)
    BY <1>8, <2>1, <2>3
  <2>5. PICK g, f : g = d[n] /\ f = d[n + 1]
    OBVIOUS
  <2> HIDE DEF T
  <2> QED
    BY <2>3, <2>4, <2>5, DeepStep
<1>11. T \in SUBSET Nat
  OBVIOUS
<1> HIDE DEF T
<1>12. T = Nat
  BY <1>9, <1>10, <1>11, InductiveSet
<1>13. PlanCount \in T /\ PlanCount <= PlanCount
  BY <1>1, <1>12
<1> QED
  BY <1>6, <1>13 DEF T

-------------------------------------------------------------------------------
\* A chain of k references.
Chain(c, k) == c \in [0 .. k -> Plans] /\ \A i \in 0 .. k - 1 : Refers(c[i], c[i + 1])

\* A plan as deep as k ends a chain of k references.
LEMMA DepthsHaveChains ==
  ASSUME NEW d, Deep(d, PlanCount), NEW k \in Nat, NEW q \in Plans, d[q] >= k
  PROVE  \E c : Chain(c, k)
<1>1. d \in [Plans -> Nat]
  BY DEF Deep
<1> DEFINE T == {n \in Nat : \A p \in Plans : d[p] >= n => \E c : Chain(c, n) /\ c[n] = p}
<1>2. 0 \in T
  <2>1. ASSUME NEW p \in Plans PROVE \E c : Chain(c, 0) /\ c[0] = p
    <3>1. PICK c : c = [i \in 0 .. 0 |-> p]
      OBVIOUS
    <3>2. 0 .. 0 - 1 = {} /\ 0 \in 0 .. 0
      OBVIOUS
    <3> QED
      BY <3>1, <3>2 DEF Chain
  <2> QED
    BY <2>1
<1>3. ASSUME NEW n \in T PROVE n + 1 \in T
  <2>1. n \in Nat /\ n + 1 \in Nat
    OBVIOUS
  <2>2. SUFFICES ASSUME NEW p \in Plans, d[p] >= n + 1
                 PROVE  \E c : Chain(c, n + 1) /\ c[n + 1] = p
    BY <2>1
  <2>3. d[p] > 0
    BY <1>1, <2>1, <2>2
  <2>4. PICK r \in Plans : Refers(r, p) /\ d[p] = d[r] + 1
    BY <2>3 DEF Deep
  <2>5. d[r] >= n
    BY <1>1, <2>1, <2>2, <2>4
  <2>6. PICK c : Chain(c, n) /\ c[n] = r
    BY <2>5
  <2>7. PICK b : b = [i \in 0 .. n + 1 |-> IF i = n + 1 THEN p ELSE c[i]]
    OBVIOUS
  <2>8. b \in [0 .. n + 1 -> Plans] /\ b[n + 1] = p /\ \A i \in 0 .. n : b[i] = c[i]
    BY <2>1, <2>6, <2>7 DEF Chain
  <2>9. ASSUME NEW i \in 0 .. (n + 1) - 1 PROVE Refers(b[i], b[i + 1])
    <3>1. CASE i = n
      BY <2>1, <2>4, <2>6, <2>8, <3>1
    <3>2. CASE i # n
      <4>1. i \in 0 .. n /\ i + 1 \in 0 .. n /\ i \in 0 .. n - 1
        BY <2>1, <2>9, <3>2
      <4>2. b[i] = c[i] /\ b[i + 1] = c[i + 1]
        BY <2>8, <4>1
      <4>3. Refers(c[i], c[i + 1])
        BY <2>6, <4>1 DEF Chain
      <4> QED
        BY <4>2, <4>3
    <3> QED
      BY <3>1, <3>2
  <2> QED
    BY <2>8, <2>9 DEF Chain
<1>4. T \in SUBSET Nat
  OBVIOUS
<1> HIDE DEF T
<1>5. T = Nat
  BY <1>2, <1>3, <1>4, InductiveSet
<1> QED
  BY <1>5 DEF T

\* A chain of k references ends in a plan as deep as k.
LEMMA ChainsAreDeep ==
  ASSUME NEW d, Deep(d, PlanCount), NEW k \in Nat, NEW c, Chain(c, k)
  PROVE  \E q \in Plans : d[q] >= k
<1>1. d \in [Plans -> Nat] /\ PlanCount \in Nat /\ \A p \in Plans : p \in Nat /\ p < PlanCount
  BY PlanAssumption DEF Deep, Plans
<1> DEFINE T == {n \in Nat : n <= k => c[n] \in Plans /\ d[c[n]] >= n}
<1>2. 0 \in T
  <2>1. c[0] \in Plans
    BY DEF Chain
  <2> QED
    BY <1>1, <2>1
<1>3. ASSUME NEW n \in T PROVE n + 1 \in T
  <2>1. n \in Nat /\ n + 1 \in Nat
    OBVIOUS
  <2>2. SUFFICES ASSUME n + 1 <= k PROVE c[n + 1] \in Plans /\ d[c[n + 1]] >= n + 1
    BY <2>1
  <2>3. n \in 0 .. k - 1 /\ n + 1 \in 0 .. k /\ c[n] \in Plans /\ d[c[n]] >= n
    BY <2>1, <2>2
  <2>4. PICK p, q \in Plans : p = c[n] /\ q = c[n + 1]
    BY <2>3 DEF Chain
  <2>5. Refers(p, q)
    BY <2>3, <2>4 DEF Chain
  <2>6. d[q] >= d[p] + 1
    BY <1>1, <2>3, <2>4, <2>5 DEF Deep
  <2> QED
    BY <1>1, <2>1, <2>3, <2>4, <2>6
<1>4. T \in SUBSET Nat
  OBVIOUS
<1> HIDE DEF T
<1>5. T = Nat
  BY <1>2, <1>3, <1>4, InductiveSet
<1>6. k \in T /\ k <= k
  BY <1>5
<1> QED
  BY <1>6 DEF T

\* The pure content of the gate.
LEMMA GateExact ==
  ASSUME Typed, ~BadRow, Forward
  PROVE  TooDeep <=> \E c \in [0 .. MaxDepth + 1 -> Plans] :
                       \A i \in 0 .. MaxDepth : Refers(c[i], c[i + 1])
<1>1. MaxDepth \in Nat /\ MaxDepth + 1 \in Nat /\ (MaxDepth + 1) - 1 = MaxDepth
  BY PlanAssumption
<1>2. PICK d : d = Depths(spec)
  OBVIOUS
<1>3. Deep(d, PlanCount) /\ \A q \in Plans : d[q] \in Nat
  BY <1>2, DepthsAreDeep DEF Deep
<1>4. \A c : Chain(c, MaxDepth + 1) <=> /\ c \in [0 .. MaxDepth + 1 -> Plans]
                                        /\ \A i \in 0 .. MaxDepth : Refers(c[i], c[i + 1])
  BY <1>1 DEF Chain
<1>5. TooDeep <=> \E q \in Plans : d[q] >= MaxDepth + 1
  BY <1>1, <1>2, <1>3 DEF TooDeep
<1>6. ASSUME NEW q \in Plans, d[q] >= MaxDepth + 1 PROVE \E c : Chain(c, MaxDepth + 1)
  BY <1>1, <1>3, <1>6, DepthsHaveChains
<1>7. ASSUME NEW c, Chain(c, MaxDepth + 1) PROVE \E q \in Plans : d[q] >= MaxDepth + 1
  BY <1>1, <1>3, <1>7, ChainsAreDeep
<1> QED
  BY <1>4, <1>5, <1>6, <1>7

-------------------------------------------------------------------------------
LEMMA GInit == BuildInit => GInv
<1> SUFFICES ASSUME BuildInit PROVE GInv
  OBVIOUS
<1>1. 0 \in Plans /\ << >> \in Seq(Row)
  BY PlanAssumption DEF Plans
<1> QED
  BY <1>1 DEF BuildInit, GInv, Typed, Standing

LEMMA GateStays ==
  ASSUME spec' = spec
  PROVE  BadRow' = BadRow /\ TooDeep' = TooDeep
<1>1. BadRow' = BadRow
  BY DEF BadRow, Plans
<1>2. TooDeep' = TooDeep
  BY DEF TooDeep, Plans
<1> QED
  BY <1>1, <1>2

LEMMA GNext == GInv /\ [BuildNext]_buildVars => GInv'
<1> SUFFICES ASSUME GInv, [BuildNext]_buildVars PROVE GInv'
  OBVIOUS
<1>1. PlanCount \in Nat \ {0}
  BY PlanAssumption
<1>2. CASE AddRow
  <2>1. PICK r \in Row : spec' = [spec EXCEPT ![cur] = Append(spec[cur], r)]
    BY <1>2 DEF AddRow
  <2>2. Append(spec[cur], r) \in Seq(Row)
    BY DEF GInv, Typed
  <2>3. spec' \in [Plans -> Seq(Row)]
    BY <2>1, <2>2 DEF GInv, Typed
  <2> QED
    BY <1>2, <2>3 DEF AddRow, GInv, Typed, Standing, Plans
<1>3. CASE NextPlan
  <2>1. cur + 1 \in Plans
    BY <1>1, <1>3 DEF NextPlan, GInv, Typed, Plans
  <2> QED
    BY <1>3, <2>1 DEF NextPlan, GInv, Typed, Standing, Plans
<1>4. CASE Build
  <2>1. Typed'
    BY <1>4 DEF Build, GInv, Typed, Plans
  <2>2. spec' = spec /\ built' = IF BadRow \/ TooDeep THEN "refused" ELSE "yes"
    BY <1>4 DEF Build
  <2>3. BadRow' = BadRow /\ TooDeep' = TooDeep
    BY <2>2, GateStays
  <2> QED
    BY <2>1, <2>2, <2>3 DEF GInv, Standing
<1>5. CASE UNCHANGED buildVars
  <2>1. spec' = spec /\ built' = built /\ cur' = cur
    BY <1>5 DEF buildVars
  <2>2. BadRow' = BadRow /\ TooDeep' = TooDeep
    BY <2>1, GateStays
  <2> QED
    BY <2>1, <2>2 DEF GInv, Typed, Standing, Plans
<1> QED
  BY <1>2, <1>3, <1>4, <1>5 DEF BuildNext

LEMMA GateFollows == GInv => GateIsDepth
<1> SUFFICES ASSUME GInv, built # "no", Forward
             PROVE  built = "refused" <=>
                      \/ \E p \in Plans : Refers(p, PlanCount)
                      \/ \E c \in [0 .. MaxDepth + 1 -> Plans] :
                           \A i \in 0 .. MaxDepth : Refers(c[i], c[i + 1])
  BY DEF GateIsDepth
<1>1. Typed /\ (built = "refused" <=> BadRow \/ TooDeep)
  BY DEF GInv, Standing
<1>2. BadRow <=> \E p \in Plans : Refers(p, PlanCount)
  <2>1. PlanCount \in Nat
    BY PlanAssumption
  <2>2. BadRow <=> \E p \in Plans : \E i : Nested(p, i) /\ Sub(p, i) >= PlanCount
    BY DEF BadRow, Nested, Sub
  <2>3. ASSUME NEW p \in Plans, NEW i, Nested(p, i)
        PROVE  Sub(p, i) >= PlanCount <=> Sub(p, i) = PlanCount
    BY <1>1, <2>1, <2>3, Rows
  <2> QED
    BY <1>1, <2>2, <2>3, Rows
<1> QED
  BY <1>1, <1>2, GateExact

\* The inductive invariant: a plan that was built or refused stays as the gate
\* saw it.
THEOREM PlanInvariant == BuildSpec => []GInv
<1> QED
  BY GInit, GNext, PTL DEF BuildSpec

\* However many sub-plans and rows a plan has, and whatever the limit: when its
\* references point to later sub-plans, teptris_plan_build refuses it exactly
\* when a row names a sub-plan that does not exist or a chain of references is
\* longer than the limit.
THEOREM GateIsExact == BuildSpec => []GateIsDepth
<1> QED
  BY PlanInvariant, GateFollows, PTL

-------------------------------------------------------------------------------
(***************************************************************************)
(* The walk of a document.  walk_table asks for nodes below its own only,  *)
(* so the walks of ever higher nodes can be listed (Solved), whatever the  *)
(* sub-plans refer to: their references may be circular.                   *)
(***************************************************************************)
NodeKinds == {"scalar", "array", "table"}

\* What a node of a document may be.
LEMMA NodeIs ==
  ASSUME NEW n \in Node
  PROVE  /\ n.k \in NodeKinds /\ n # Absent
         /\ n.k = "array" => /\ n.items \in Seq(Node)
                             /\ \A i \in DOMAIN n.items :
                                  n.items[i] \in Node /\ Height[n.items[i]] < Height[n]
         /\ n.k = "table" => \A name \in DOMAIN n.get :
                               n.get[name] \in Node /\ Height[n.get[name]] < Height[n]
<1>1. /\ n.k \in NodeKinds
      /\ n.k = "array" => n.items \in Seq(Node)
      /\ \A c \in Children(n) : c \in Node /\ Height[c] < Height[n]
  BY NodeAssumption DEF NodeKinds
<1>2. n # Absent
  <2>1. Absent.k = "absent"
    BY DEF Absent
  <2> QED
    BY <1>1, <2>1 DEF NodeKinds
<1>3. ASSUME n.k = "array", NEW i \in DOMAIN n.items PROVE n.items[i] \in Children(n)
  BY <1>3 DEF Children
<1>4. ASSUME n.k = "table", NEW name \in DOMAIN n.get PROVE n.get[name] \in Children(n)
  BY <1>4 DEF Children
<1> QED
  BY <1>1, <1>2, <1>3, <1>4

\* teptris_node_table_get finds a node below the table, or nothing.
LEMMA GetIs ==
  ASSUME NEW t \in Node, NEW name
  PROVE  \/ Get(t, name) = Absent
         \/ /\ t.k = "table" /\ Get(t, name) \in Node /\ Get(t, name) # Absent
            /\ Height[Get(t, name)] < Height[t]
<1>1. CASE t.k = "table" /\ name \in DOMAIN t.get
  <2>1. Get(t, name) = t.get[name]
    BY <1>1 DEF Get
  <2>2. t.get[name] \in Node /\ Height[t.get[name]] < Height[t]
    BY <1>1, NodeIs
  <2>3. t.get[name] # Absent
    BY <2>2, NodeIs
  <2> QED
    BY <1>1, <2>1, <2>2, <2>3
<1>2. CASE ~(t.k = "table" /\ name \in DOMAIN t.get)
  BY <1>2 DEF Get
<1> QED
  BY <1>1, <1>2

\* Two walks that agree on a node and on what lies below it.
AgreeOn(w, v, n) == w[n] = v[n] /\ \A c \in Node : Height[c] < Height[n] => w[c] = v[c]

\* The walk of a value depends on no more than that.
LEMMA ValueLocal ==
  ASSUME NEW w, NEW v, NEW plan, NEW row \in Row, NEW n \in Node, AgreeOn(w, v, n)
  PROVE  WalkValue(w, plan, row, n) = WalkValue(v, plan, row, n)
<1>1. row.kind \in {"SCALAR", "COLLECTION", "RAW", "NESTED"}
  BY DEF Row
<1>2. CASE row.kind # "NESTED"
  BY <1>1, <1>2 DEF WalkValue
<1>3. CASE row.kind = "NESTED"
  <2>1. CASE n.k = "table"
    BY <1>3, <2>1 DEF WalkValue, AgreeOn
  <2>2. CASE n.k = "array"
    <3> DEFINE Nest(x, item) == IF item.k = "table" THEN x[item][ItemPlan(plan, row)] ELSE Missing
    <3>1. ASSUME NEW x PROVE WalkValue(x, plan, row, n)
                               = Rnode("ARRAY", n, [i \in DOMAIN n.items |-> Nest(x, n.items[i])])
      BY <1>3, <2>2 DEF WalkValue
    <3>2. ASSUME NEW i \in DOMAIN n.items PROVE Nest(w, n.items[i]) = Nest(v, n.items[i])
      <4>1. n.items[i] \in Node /\ Height[n.items[i]] < Height[n]
        BY <2>2, NodeIs
      <4>2. w[n.items[i]] = v[n.items[i]]
        BY <4>1 DEF AgreeOn
      <4> QED
        BY <4>2
    <3> HIDE DEF Nest
    <3>3. [i \in DOMAIN n.items |-> Nest(w, n.items[i])] = [i \in DOMAIN n.items |-> Nest(v, n.items[i])]
      BY <3>2
    <3> QED
      BY <3>1, <3>3
  <2>3. CASE n.k = "scalar"
    BY <1>3, <2>3 DEF WalkValue
  <2> QED
    BY <2>1, <2>2, <2>3, NodeIs DEF NodeKinds
<1> QED
  BY <1>2, <1>3

\* What a table holds for a row.
OfRow(w, plan, t, row) ==
  IF Get(t, row.name) = Absent THEN Missing ELSE WalkValue(w, plan, row, Get(t, row.name))

\* walk_table, row by row.
LEMMA TableIs ==
  ASSUME NEW w, NEW plan, NEW t
  PROVE  WalkTable(w, plan, t) =
           IF t.k # "table" THEN Missing
           ELSE Rnode("TABLE", t, [i \in DOMAIN spec[plan] |-> OfRow(w, plan, t, spec[plan][i])])
BY DEF WalkTable, OfRow

\* The walk of a table depends on the walks of what lies below it.
LEMMA TableLocal ==
  ASSUME Typed, NEW w, NEW v, NEW plan \in Plans, NEW t \in Node,
         \A c \in Node : Height[c] < Height[t] => w[c] = v[c]
  PROVE  WalkTable(w, plan, t) = WalkTable(v, plan, t)
<1>1. ASSUME NEW i \in DOMAIN spec[plan]
      PROVE  OfRow(w, plan, t, spec[plan][i]) = OfRow(v, plan, t, spec[plan][i])
  <2>1. PICK row \in Row : row = spec[plan][i]
    <3>1. spec[plan] \in Seq(Row)
      BY DEF Typed
    <3>2. spec[plan][i] \in Row
      BY <3>1
    <3> QED
      BY <3>2
  <2>2. PICK n : n = Get(t, row.name)
    OBVIOUS
  <2>3. CASE n = Absent
    BY <2>1, <2>2, <2>3 DEF OfRow
  <2>4. CASE n # Absent
    <3>1. n \in Node /\ Height[n] < Height[t]
      BY <2>2, <2>4, GetIs
    <3>2. AgreeOn(w, v, n)
      <4>1. ASSUME NEW c \in Node, Height[c] < Height[n] PROVE Height[c] < Height[t]
        <5>1. Height[c] \in Int /\ Height[n] \in Int /\ Height[t] \in Int
          BY <3>1, NodeAssumption
        <5> QED
          BY <3>1, <4>1, <5>1
      <4> QED
        BY <3>1, <4>1 DEF AgreeOn
    <3>3. WalkValue(w, plan, row, n) = WalkValue(v, plan, row, n)
      BY <3>1, <3>2, ValueLocal
    <3> QED
      BY <2>1, <2>2, <3>3 DEF OfRow
  <2> QED
    BY <2>3, <2>4
<1>2. [i \in DOMAIN spec[plan] |-> OfRow(w, plan, t, spec[plan][i])]
        = [i \in DOMAIN spec[plan] |-> OfRow(v, plan, t, spec[plan][i])]
  BY <1>1
<1> QED
  BY <1>2, TableIs

\* The walks of the nodes of D.
Solved(w, D) == w = [t \in D |-> [plan \in Plans |-> WalkTable(w, plan, t)]]
Below(k) == {n \in Node : Height[n] < k}

\* There are walks of all nodes.
LEMMA WalksExist ==
  ASSUME Typed
  PROVE  Solved(Walked, Node)
<1> DEFINE T == {k \in Nat : \E w : Solved(w, Below(k))}
<1>0. \A n \in Node : Height[n] \in Nat /\ Height[n] <= MaxHeight
  BY NodeAssumption
<1>1. 0 \in T
  <2>1. Below(0) = {}
    BY <1>0 DEF Below
  <2>2. PICK w : w = [t \in Below(0) |-> 0]
    OBVIOUS
  <2>3. w = [t \in Below(0) |-> [plan \in Plans |-> WalkTable(w, plan, t)]]
    BY <2>1, <2>2
  <2> QED
    BY <2>3 DEF Solved
<1>2. ASSUME NEW k \in T PROVE k + 1 \in T
  <2>1. PICK w : Solved(w, Below(k))
    OBVIOUS
  <2>2. k \in Nat /\ k + 1 \in Nat
    OBVIOUS
  <2>3. PICK v : v = [t \in Below(k + 1) |-> [plan \in Plans |-> WalkTable(w, plan, t)]]
    OBVIOUS
  <2>4. ASSUME NEW c \in Below(k) PROVE w[c] = v[c]
    <3>1. c \in Below(k + 1)
      BY <1>0, <2>2 DEF Below
    <3>2. w[c] = [plan \in Plans |-> WalkTable(w, plan, c)]
      BY <2>1 DEF Solved
    <3> QED
      BY <2>3, <3>1, <3>2
  <2>5. ASSUME NEW t \in Below(k + 1), NEW plan \in Plans
        PROVE  WalkTable(w, plan, t) = WalkTable(v, plan, t)
    <3>1. t \in Node
      BY DEF Below
    <3>2. ASSUME NEW c \in Node, Height[c] < Height[t] PROVE c \in Below(k)
      <4>1. Height[c] \in Nat /\ Height[t] \in Nat /\ Height[t] < k + 1
        BY <1>0, <3>1 DEF Below
      <4> QED
        BY <2>2, <3>2, <4>1 DEF Below
    <3>3. \A c \in Node : Height[c] < Height[t] => w[c] = v[c]
      BY <2>4, <3>2
    <3> QED
      BY <3>1, <3>3, TableLocal
  <2>6. v = [t \in Below(k + 1) |-> [plan \in Plans |-> WalkTable(v, plan, t)]]
    BY <2>3, <2>5
  <2> QED
    BY <2>2, <2>6 DEF Solved
<1>3. T \in SUBSET Nat
  OBVIOUS
<1> HIDE DEF T
<1>4. T = Nat
  BY <1>1, <1>2, <1>3, InductiveSet
<1>5. MaxHeight + 1 \in T
  BY <1>4, NodeAssumption
<1>6. Below(MaxHeight + 1) = Node
  <2>1. MaxHeight \in Nat
    BY NodeAssumption
  <2> QED
    BY <1>0, <2>1 DEF Below
<1>7. \E w : Solved(w, Node)
  BY <1>5, <1>6 DEF T
<1>8. Walked = CHOOSE w : Solved(w, Node)
  BY DEF Walked, Solved
<1> QED
  BY <1>7, <1>8

\* And so each is one call of walk_table.
LEMMA WalkedIs ==
  ASSUME Typed, NEW t \in Node, NEW plan \in Plans
  PROVE  Walked[t][plan] = WalkTable(Walked, plan, t)
<1>1. PICK w : w = Walked
  OBVIOUS
<1>2. w = [x \in Node |-> [p \in Plans |-> WalkTable(w, p, x)]]
  BY <1>1, WalksExist DEF Solved
<1>3. w[t] = [p \in Plans |-> WalkTable(w, p, t)]
  BY <1>2
<1>4. w[t][plan] = WalkTable(w, plan, t)
  BY <1>3
<1> QED
  BY <1>1, <1>4

-------------------------------------------------------------------------------
\* The view is the walk of the place it stands for, under a plan that was
\* accepted.
Viewed == view.kind = "TABLE" => /\ where.node \in Node /\ where.node.k = "table"
                                 /\ where.plan \in Plans
                                 /\ view = WalkTable(Walked, where.plan, where.node)
VInv == GInv /\ (view # NoView => built = "yes") /\ Viewed

\* How many elements a list made element by element has.
LEMMA LenOf ==
  ASSUME NEW S, NEW s \in Seq(S), NEW e, e = [i \in DOMAIN s |-> e[i]]
  PROVE  Len(e) = Len(s) /\ DOMAIN e = 1 .. Len(s)
<1>1. PICK n \in Nat : n = Len(s) /\ DOMAIN s = 1 .. n
  OBVIOUS
<1>2. PICK R : \A i \in 1 .. n : e[i] \in R
  <2>1. \A i \in 1 .. n : e[i] \in {e[j] : j \in 1 .. n}
    OBVIOUS
  <2> QED
    BY <2>1
<1>3. e = [i \in 1 .. n |-> e[i]]
  BY <1>1
<1>4. e \in [1 .. n -> R]
  BY <1>2, <1>3
<1>5. e \in Seq(R)
  BY <1>4
<1>6. DOMAIN e = 1 .. n /\ DOMAIN e = 1 .. Len(e) /\ Len(e) \in Nat
  BY <1>4, <1>5
<1> QED
  BY <1>1, <1>6

\* An element of an array that a plan asks for.
Entry(plan, row, item) ==
  IF row.kind = "COLLECTION" THEN IF IsScalar(item) THEN Rnode("SCALAR", item, << >>) ELSE Missing
  ELSE IF item.k = "table" THEN WalkTable(Walked, row.sub, item) ELSE Missing

\* What the walk makes of a value that is there.
Made(r, plan, row, v) ==
  /\ row.kind = "SCALAR" => r = IF v.k = "scalar" THEN Rnode("SCALAR", v, << >>) ELSE Missing
  /\ row.kind = "RAW" => r = Rnode("RAW", v, << >>)
  /\ row.kind \in {"COLLECTION", "NESTED"} /\ v.k = "array" =>
       r = Rnode("ARRAY", v, [j \in DOMAIN v.items |-> Entry(plan, row, v.items[j])])
  /\ row.kind = "COLLECTION" /\ v.k # "array" => r = Missing
  /\ row.kind = "NESTED" /\ v.k = "table" => r = WalkTable(Walked, row.sub, v)
  /\ row.kind = "NESTED" /\ v.k = "scalar" => r = Missing

\* walk_value, kind by kind.
LEMMA ValueIs ==
  ASSUME Typed, NEW plan, NEW row \in Row, row.kind = "NESTED" => row.sub \in Plans, NEW v \in Node
  PROVE  Made(WalkValue(Walked, plan, row, v), plan, row, v)
<1>1. PICK r : r = WalkValue(Walked, plan, row, v)
  OBVIOUS
<1>2. v.k \in NodeKinds
  BY NodeIs
<1>3. CASE row.kind \in {"SCALAR", "RAW"}
  BY <1>1, <1>3 DEF WalkValue, Made, IsScalar
<1>4. CASE row.kind = "COLLECTION"
  <2>1. CASE v.k # "array"
    BY <1>1, <1>4, <2>1 DEF WalkValue, Made
  <2>2. CASE v.k = "array"
    <3>1. r = Rnode("ARRAY", v, [j \in DOMAIN v.items |->
               IF IsScalar(v.items[j]) THEN Rnode("SCALAR", v.items[j], << >>) ELSE Missing])
      BY <1>1, <1>4, <2>2 DEF WalkValue
    <3>2. \A item : Entry(plan, row, item) = IF IsScalar(item) THEN Rnode("SCALAR", item, << >>) ELSE Missing
      BY <1>4 DEF Entry
    <3>3. r = Rnode("ARRAY", v, [j \in DOMAIN v.items |-> Entry(plan, row, v.items[j])])
      BY <3>1, <3>2
    <3> QED
      BY <1>1, <1>4, <2>2, <3>3 DEF Made
  <2> QED
    BY <2>1, <2>2
<1>5. CASE row.kind = "NESTED"
  <2>1. CASE v.k = "table"
    <3>1. r = Walked[v][row.sub]
      BY <1>1, <1>5, <2>1 DEF WalkValue
    <3>2. r = WalkTable(Walked, row.sub, v)
      BY <1>5, <3>1, WalkedIs
    <3> QED
      BY <1>1, <1>5, <2>1, <3>2 DEF Made
  <2>2. CASE v.k = "array"
    <3>1. r = Rnode("ARRAY", v, [j \in DOMAIN v.items |->
               IF v.items[j].k = "table" THEN Walked[v.items[j]][row.sub] ELSE Missing])
      BY <1>1, <1>5, <2>2 DEF WalkValue, ItemPlan
    <3>2. ASSUME NEW j \in DOMAIN v.items
          PROVE  Entry(plan, row, v.items[j])
                   = IF v.items[j].k = "table" THEN Walked[v.items[j]][row.sub] ELSE Missing
      <4>1. PICK item \in Node : item = v.items[j]
        BY <2>2, NodeIs
      <4>2. Walked[item][row.sub] = WalkTable(Walked, row.sub, item)
        BY <1>5, WalkedIs
      <4> QED
        BY <1>5, <4>1, <4>2 DEF Entry
    <3>3. r = Rnode("ARRAY", v, [j \in DOMAIN v.items |-> Entry(plan, row, v.items[j])])
      BY <3>1, <3>2
    <3> QED
      BY <1>1, <1>5, <2>2, <3>3 DEF Made
  <2>3. CASE v.k = "scalar"
    BY <1>1, <1>5, <2>3 DEF WalkValue, Made
  <2> QED
    BY <1>2, <2>1, <2>2, <2>3 DEF NodeKinds
<1> QED
  BY <1>3, <1>4, <1>5 DEF Row

\* Rows of the view are what the table at its place holds for them.
LEMMA ChildIs ==
  ASSUME VInv, view.kind = "TABLE", NEW i
  PROVE  /\ DOMAIN view.kids = DOMAIN spec[where.plan]
         /\ i \notin DOMAIN spec[where.plan] => ChildOf(i) = Missing
         /\ i \in DOMAIN spec[where.plan] =>
              LET row == spec[where.plan][i]
                  v == Get(where.node, row.name)
              IN  /\ row \in Row
                  /\ row.kind = "NESTED" => row.sub \in Plans
                  /\ v = Absent => ChildOf(i) = Missing
                  /\ v # Absent => v \in Node /\ Made(ChildOf(i), where.plan, row, v)
<1>1. PICK p, t : p = where.plan /\ t = where.node
  OBVIOUS
<1>2. p \in Plans /\ t \in Node /\ t.k = "table" /\ view = WalkTable(Walked, p, t)
  BY <1>1 DEF VInv, Viewed
<1>3. Typed /\ ~BadRow
  <2>1. view # NoView
    BY DEF NoView, Rnode
  <2> QED
    BY <2>1 DEF VInv, GInv, Standing
<1>4. view = Rnode("TABLE", t, [j \in DOMAIN spec[p] |-> OfRow(Walked, p, t, spec[p][j])])
  BY <1>2, TableIs
<1>5. view.kids = [j \in DOMAIN spec[p] |-> OfRow(Walked, p, t, spec[p][j])]
  BY <1>4 DEF Rnode
<1>6. ASSUME i \in DOMAIN spec[p]
      PROVE  LET row == spec[p][i]
                 v == Get(t, row.name)
             IN  /\ row \in Row
                 /\ row.kind = "NESTED" => row.sub \in Plans
                 /\ v = Absent => ChildOf(i) = Missing
                 /\ v # Absent => v \in Node /\ Made(ChildOf(i), p, row, v)
  <2>1. PICK row \in Row : row = spec[p][i]
    <3>1. spec[p] \in Seq(Row)
      BY <1>2, <1>3 DEF Typed
    <3>2. spec[p][i] \in Row
      BY <1>6, <3>1
    <3> QED
      BY <3>2
  <2>2. row.kind = "NESTED" => row.sub \in Plans
    <3>1. row.kind = "NESTED" => Nested(p, i) /\ Sub(p, i) = row.sub
      BY <1>6, <2>1 DEF Nested, Sub
    <3> QED
      BY <1>2, <1>3, <3>1, Rows
  <2>3. PICK v : v = Get(t, row.name)
    OBVIOUS
  <2>4. ChildOf(i) = OfRow(Walked, p, t, row)
    BY <1>5, <1>6, <2>1 DEF ChildOf
  <2>5. v = Absent => ChildOf(i) = Missing
    BY <2>3, <2>4 DEF OfRow
  <2>6. ASSUME v # Absent PROVE v \in Node /\ Made(ChildOf(i), p, row, v)
    <3>1. v \in Node
      BY <1>2, <2>3, <2>6, GetIs
    <3>2. ChildOf(i) = WalkValue(Walked, p, row, v)
      BY <2>3, <2>4, <2>6 DEF OfRow
    <3>3. Made(WalkValue(Walked, p, row, v), p, row, v)
      BY <1>3, <2>2, <3>1, ValueIs
    <3> QED
      BY <3>1, <3>2, <3>3
  <2> QED
    BY <2>1, <2>2, <2>3, <2>5, <2>6
<1>7. i \notin DOMAIN spec[p] => ChildOf(i) = Missing
  BY <1>5 DEF ChildOf
<1> QED
  BY <1>1, <1>5, <1>6, <1>7

\* A node that is made is of its kind.
LEMMA RnodeIs ==
  ASSUME NEW kind, NEW src, NEW kids
  PROVE  /\ Rnode(kind, src, kids).kind = kind /\ Rnode(kind, src, kids).src = src
         /\ Rnode(kind, src, kids).kids = kids
BY DEF Rnode

\* The walk is a table exactly of a table.
LEMMA WalkKind ==
  ASSUME NEW w, NEW plan, NEW t
  PROVE  WalkTable(w, plan, t).kind = IF t.k = "table" THEN "TABLE" ELSE "MISSING"
<1>1. CASE t.k = "table"
  <2>1. PICK e : WalkTable(w, plan, t) = Rnode("TABLE", t, e)
    BY <1>1, TableIs
  <2> QED
    BY <1>1, <2>1, RnodeIs
<1>2. CASE t.k # "table"
  <2>1. WalkTable(w, plan, t) = Missing
    BY <1>2, TableIs
  <2> QED
    BY <1>2, <2>1, RnodeIs DEF Missing
<1> QED
  BY <1>1, <1>2

\* What the accessors say of a row that made r of v.
Answers(r, row, v) ==
  /\ (IF r.kind = "SCALAR" THEN r.src ELSE Absent) = IF row.kind = "SCALAR" /\ IsScalar(v) THEN v ELSE Absent
  /\ (IF r.kind = "RAW" THEN r.src ELSE Absent) = IF row.kind = "RAW" THEN v ELSE Absent
  /\ r.kind = "TABLE" <=> row.kind = "NESTED" /\ v.k = "table"
  /\ r.kind = "ARRAY" <=> row.kind \in {"COLLECTION", "NESTED"} /\ v.k = "array"

\* Of a value that is there.
LEMMA MadeAnswers ==
  ASSUME NEW r, NEW plan, NEW row \in Row, NEW v \in Node, Made(r, plan, row, v)
  PROVE  Answers(r, row, v)
<1>1. v.k \in NodeKinds /\ row.kind \in {"SCALAR", "RAW", "COLLECTION", "NESTED"}
  BY NodeIs DEF Row
<1>2. Missing.kind = "MISSING"
  BY RnodeIs DEF Missing
<1>3. CASE row.kind = "SCALAR"
  BY <1>1, <1>2, <1>3, RnodeIs DEF Made, Answers, IsScalar
<1>4. CASE row.kind = "RAW"
  BY <1>1, <1>4, RnodeIs DEF Made, Answers
<1>5. CASE row.kind = "COLLECTION"
  <2>1. CASE v.k = "array"
    <3>1. r.kind = "ARRAY"
      BY <1>5, <2>1, RnodeIs DEF Made
    <3> QED
      BY <1>5, <2>1, <3>1 DEF Answers
  <2>2. CASE v.k # "array"
    BY <1>2, <1>5, <2>2 DEF Made, Answers
  <2> QED
    BY <2>1, <2>2
<1>6. CASE row.kind = "NESTED"
  <2>1. CASE v.k = "array"
    <3>1. r.kind = "ARRAY"
      BY <1>6, <2>1, RnodeIs DEF Made
    <3> QED
      BY <1>6, <2>1, <3>1 DEF Answers
  <2>2. CASE v.k = "table"
    <3>1. r.kind = "TABLE"
      BY <1>6, <2>2, WalkKind DEF Made
    <3> QED
      BY <1>6, <2>2, <3>1 DEF Answers
  <2>3. CASE v.k = "scalar"
    BY <1>2, <1>6, <2>3 DEF Made, Answers
  <2> QED
    BY <1>1, <2>1, <2>2, <2>3 DEF NodeKinds
<1> QED
  BY <1>1, <1>3, <1>4, <1>5, <1>6

\* Of one that is not.
LEMMA NoneAnswers ==
  ASSUME NEW row \in Row
  PROVE  Answers(Missing, row, Absent)
<1>1. Missing.kind = "MISSING"
  BY RnodeIs DEF Missing
<1>2. Absent.k = "absent"
  BY DEF Absent
<1> QED
  BY <1>1, <1>2 DEF Answers, IsScalar

\* The elements of an array that a row asks for.
Listed(kids, plan, row, items) ==
  /\ Len(kids) = Len(items) /\ DOMAIN items = 1 .. Len(items)
  /\ \A j \in DOMAIN items : items[j] \in Node /\ kids[j] = Entry(plan, row, items[j])

\* One for each element.
LEMMA MadeEntries ==
  ASSUME NEW r, NEW plan, NEW row \in Row, NEW v \in Node, Made(r, plan, row, v),
         row.kind \in {"COLLECTION", "NESTED"}, v.k = "array"
  PROVE  Listed(r.kids, plan, row, v.items)
<1>1. PICK e : e = [j \in DOMAIN v.items |-> Entry(plan, row, v.items[j])]
  OBVIOUS
<1>2. r = Rnode("ARRAY", v, e)
  BY <1>1 DEF Made
<1>3. r.kids = e
  BY <1>2, RnodeIs
<1>4. v.items \in Seq(Node) /\ \A j \in DOMAIN v.items : v.items[j] \in Node
  BY NodeIs
<1>5. e = [j \in DOMAIN v.items |-> e[j]]
  BY <1>1
<1>6. Len(e) = Len(v.items)
  BY <1>4, <1>5, LenOf
<1>7. DOMAIN v.items = 1 .. Len(v.items)
  BY <1>4
<1> QED
  BY <1>1, <1>3, <1>4, <1>6, <1>7 DEF Listed

\* What the accessors say of an element.
LEMMA EntryKind ==
  ASSUME NEW plan, NEW row, NEW item \in Node, row.kind \in {"COLLECTION", "NESTED"}
  PROVE  /\ Entry(plan, row, item).kind = "TABLE" <=> row.kind = "NESTED" /\ item.k = "table"
         /\ (IF Entry(plan, row, item).kind = "SCALAR" THEN Entry(plan, row, item).src ELSE Absent)
              = IF row.kind = "COLLECTION" /\ IsScalar(item) THEN item ELSE Absent
         /\ Entry(plan, row, item).kind = "TABLE" =>
              Entry(plan, row, item) = WalkTable(Walked, row.sub, item)
<1>1. PICK r : r = Entry(plan, row, item)
  OBVIOUS
<1>2. Missing.kind = "MISSING"
  BY RnodeIs DEF Missing
<1>3. CASE row.kind = "COLLECTION"
  <2>1. r = IF IsScalar(item) THEN Rnode("SCALAR", item, << >>) ELSE Missing
    BY <1>1, <1>3 DEF Entry
  <2>2. IsScalar(item) => r.kind = "SCALAR" /\ r.src = item
    BY <2>1, RnodeIs
  <2>3. ~IsScalar(item) => r.kind = "MISSING"
    BY <1>2, <2>1
  <2> QED
    BY <1>1, <1>3, <2>2, <2>3
<1>4. CASE row.kind = "NESTED"
  <2>1. r = IF item.k = "table" THEN WalkTable(Walked, row.sub, item) ELSE Missing
    BY <1>1, <1>4 DEF Entry
  <2>2. item.k = "table" => r.kind = "TABLE" /\ r = WalkTable(Walked, row.sub, item)
    BY <2>1, WalkKind
  <2>3. item.k # "table" => r.kind = "MISSING"
    BY <1>2, <2>1
  <2> QED
    BY <1>1, <1>4, <2>2, <2>3
<1> QED
  BY <1>3, <1>4

\* A row of the view: what it asks for, what there is, and what it shows.
LEMMA RowShows ==
  ASSUME VInv, view.kind = "TABLE", NEW i \in DOMAIN spec[where.plan],
         NEW row, row = spec[where.plan][i], NEW v, v = Get(where.node, row.name)
  PROVE  /\ row \in Row /\ (row.kind = "NESTED" => row.sub \in Plans)
         /\ v.k \in {"scalar", "array", "table"} => v \in Node /\ Made(ChildOf(i), where.plan, row, v)
         /\ Answers(ChildOf(i), row, v)
<1>1. /\ row \in Row /\ (row.kind = "NESTED" => row.sub \in Plans)
      /\ v = Absent => ChildOf(i) = Missing
      /\ v # Absent => v \in Node /\ Made(ChildOf(i), where.plan, row, v)
  BY ChildIs
<1>2. Absent.k = "absent"
  BY DEF Absent
<1>3. Answers(ChildOf(i), row, v)
  BY <1>1, MadeAnswers, NoneAnswers
<1> QED
  BY <1>1, <1>2, <1>3

\* So the invariant says what the property says.
LEMMA RowsFollow == VInv => RowsAreDocument
<1> SUFFICES ASSUME VInv, view.kind = "TABLE", NEW i \in 1 .. MaxRows PROVE RowIsDocument(i)
  BY DEF RowsAreDocument
<1> PICK row, v, listed, p :
      /\ row = spec[where.plan][i] /\ v = Get(where.node, row.name) /\ p = where.plan
      /\ listed = (v.k = "array" /\ row.kind \in {"COLLECTION", "NESTED"})
  OBVIOUS
<1>1. CASE i \notin DOMAIN spec[p]
  <2>1. ChildOf(i) = Missing
    BY <1>1, ChildIs
  <2>2. KindAt(i) = "MISSING"
    BY <2>1, RnodeIs DEF KindAt, Missing
  <2> QED
    BY <1>1, <2>2 DEF RowIsDocument
<1>2. CASE i \in DOMAIN spec[p]
  <2>1. /\ row \in Row
        /\ v.k \in {"scalar", "array", "table"} => v \in Node /\ Made(ChildOf(i), p, row, v)
        /\ Answers(ChildOf(i), row, v)
    BY <1>2, RowShows
  <2>2. PICK r : r = ChildOf(i)
    OBVIOUS
  <2>3. where.node.k = "table"
    BY DEF VInv, Viewed
  <2>4. ScalarAt(i) = IF row.kind = "SCALAR" /\ IsScalar(v) THEN v ELSE Absent
    BY <2>1 DEF Answers, ScalarAt
  <2>5. RawAt(i) = IF row.kind = "RAW" THEN v ELSE Absent
    BY <2>1 DEF Answers, RawAt
  <2>6. KindAt(i) = "TABLE" <=> row.kind = "NESTED" /\ v.k = "table"
    BY <2>1 DEF Answers, KindAt
  <2>7. ChildOf(i).kind = "ARRAY" <=> listed
    BY <2>1 DEF Answers
  <2>8. CASE ~listed
    <3>1. ArrayLenAt(i) = 0
      BY <2>7, <2>8 DEF ArrayLenAt
    <3> QED
      BY <1>2, <2>3, <2>4, <2>5, <2>6, <2>8, <3>1 DEF RowIsDocument
  <2>9. CASE listed
    <3>1. row \in Row /\ v \in Node /\ Made(r, p, row, v) /\ v.k = "array" /\ row.kind \in {"COLLECTION", "NESTED"}
      BY <2>1, <2>2, <2>9
    <3>2. /\ Len(r.kids) = Len(v.items) /\ DOMAIN v.items = 1 .. Len(v.items)
          /\ \A j \in DOMAIN v.items : v.items[j] \in Node /\ r.kids[j] = Entry(p, row, v.items[j])
      <4>1. Listed(r.kids, p, row, v.items)
        BY <3>1, MadeEntries
      <4> QED
        BY <4>1 DEF Listed
    <3>3. ArrayLenAt(i) = Len(v.items)
      BY <2>2, <2>7, <2>9, <3>2 DEF ArrayLenAt
    <3>4. ASSUME NEW j \in DOMAIN v.items
          PROVE  /\ ArrayScalarAt(i, j) = IF row.kind = "COLLECTION" /\ IsScalar(v.items[j])
                                          THEN v.items[j] ELSE Absent
                 /\ ArrayChild(i, j).kind = "TABLE" <=> row.kind = "NESTED" /\ v.items[j].k = "table"
      <4>1. PICK item \in Node : item = v.items[j]
        BY <3>2
      <4>2. ArrayChild(i, j) = Entry(p, row, item)
        BY <2>2, <3>2, <3>3, <4>1 DEF ArrayChild
      <4>3. PICK e : e = Entry(p, row, item)
        OBVIOUS
      <4>4. /\ e.kind = "TABLE" <=> row.kind = "NESTED" /\ item.k = "table"
            /\ (IF e.kind = "SCALAR" THEN e.src ELSE Absent)
                 = IF row.kind = "COLLECTION" /\ IsScalar(item) THEN item ELSE Absent
        BY <3>1, <4>3, EntryKind
      <4> QED
        BY <4>1, <4>2, <4>3, <4>4 DEF ArrayScalarAt
    <3> QED
      BY <1>2, <2>3, <2>4, <2>5, <2>6, <2>9, <3>3, <3>4 DEF RowIsDocument
  <2> QED
    BY <2>8, <2>9
<1> QED
  BY <1>1, <1>2

-------------------------------------------------------------------------------
\* Nothing is viewed yet.
LEMMA VInit == PlanInit => VInv
<1> SUFFICES ASSUME PlanInit PROVE VInv
  OBVIOUS
<1>1. GInv /\ view = NoView
  BY GInit DEF PlanInit
<1>2. NoView.kind = "NONE"
  BY RnodeIs DEF NoView
<1> QED
  BY <1>1, <1>2 DEF VInv, Viewed

\* While the plan stays, so do its walks.
LEMMA WalkStays ==
  ASSUME spec' = spec
  PROVE  Walked' = Walked /\ \A w, plan, t : WalkTable(w, plan, t)' = WalkTable(w, plan, t)
<1>1. \A w, plan, t : WalkTable(w, plan, t)' = WalkTable(w, plan, t)
  BY DEF WalkTable
<1>2. Walked' = Walked
  BY <1>1 DEF Walked, Plans
<1> QED
  BY <1>1, <1>2

\* A view that is a table was got from a plan that was accepted.
LEMMA ViewedStays ==
  ASSUME VInv, spec' = spec, view' = view, where' = where
  PROVE  Viewed'
<1>1. PICK n, p, r : n = where.node /\ p = where.plan /\ r = view
  OBVIOUS
<1>2. Viewed <=> (r.kind = "TABLE" => n \in Node /\ n.k = "table" /\ p \in Plans /\ r = WalkTable(Walked, p, n))
  BY <1>1 DEF Viewed
<1>3. where'.node = n /\ where'.plan = p /\ view' = r
  BY <1>1
<1>4. Viewed' <=> (r.kind = "TABLE" => n \in Node /\ n.k = "table" /\ p \in Plans
                                       /\ r = WalkTable(Walked, p, n)')
  BY <1>3 DEF Viewed, Plans
<1>5. WalkTable(Walked, p, n)' = WalkTable(Walked, p, n)
  BY WalkStays DEF WalkTable
<1> QED
  BY <1>2, <1>4, <1>5 DEF VInv

\* The view of a place is what the walk of that place is.
LEMMA PlaceViewed ==
  ASSUME spec' = spec, NEW n \in Node, NEW p \in Plans, NEW r,
         view' = r, where' = [node |-> n, plan |-> p],
         r.kind = "TABLE" => r = WalkTable(Walked, p, n)
  PROVE  Viewed'
<1>1. where'.node = n /\ where'.plan = p
  OBVIOUS
<1>2. r.kind = "TABLE" => n.k = "table"
  BY WalkKind
<1>3. WalkTable(Walked, p, n)' = WalkTable(Walked, p, n)
  BY WalkStays DEF WalkTable
<1>4. Viewed' <=> (r.kind = "TABLE" => n \in Node /\ n.k = "table" /\ p \in Plans
                                       /\ r = WalkTable(Walked, p, n)')
  BY <1>1 DEF Viewed, Plans
<1> QED
  BY <1>2, <1>3, <1>4

\* Every walk and every view keeps the invariant.
LEMMA VNext == VInv /\ [PlanNext]_planVars => VInv'
<1> SUFFICES ASSUME VInv, [PlanNext]_planVars PROVE VInv'
  OBVIOUS
<1>1. GInv'
  <2>1. [BuildNext]_buildVars
    BY DEF PlanNext, ListAndBuild, Walk, RowView, EntryView, planVars, buildVars
  <2> QED
    BY <2>1, GNext DEF VInv
<1>2. CASE ListAndBuild
  <2>1. view' = view /\ where' = where
    BY <1>2 DEF ListAndBuild
  <2>2. CASE view = NoView
    <3>1. view'.kind # "TABLE"
      BY <2>1, <2>2, RnodeIs DEF NoView
    <3> QED
      BY <1>1, <2>1, <2>2, <3>1 DEF VInv, Viewed, NoView
  <2>3. CASE view # NoView
    <3>1. built = "yes"
      BY <2>3 DEF VInv
    <3>2. FALSE
      BY <1>2, <3>1 DEF ListAndBuild, BuildNext, AddRow, NextPlan, Build
    <3> QED
      BY <3>2
  <2> QED
    BY <2>2, <2>3
<1>3. CASE Walk
  <2>1. PICK n \in Node : view' = Walked[n][0] /\ where' = [node |-> n, plan |-> 0]
    BY <1>3 DEF Walk
  <2>2. 0 \in Plans /\ Typed /\ built = "yes" /\ spec' = spec /\ built' = built
    BY <1>3, PlanAssumption DEF Plans, VInv, GInv, Walk, buildVars
  <2>3. Walked[n][0] = WalkTable(Walked, 0, n)
    BY <2>2, WalkedIs
  <2>4. PICK r : r = Walked[n][0]
    OBVIOUS
  <2>5. Viewed'
    BY <2>1, <2>2, <2>3, <2>4, PlaceViewed
  <2> QED
    BY <1>1, <2>2, <2>5 DEF VInv
<1>4. CASE RowView
  <2>1. PICK i \in DOMAIN view.kids :
               /\ KindAt(i) = "TABLE" /\ view' = ChildOf(i)
               /\ where' = [node |-> Get(where.node, spec[where.plan][i].name), plan |-> spec[where.plan][i].sub]
    BY <1>4 DEF RowView
  <2>2. view # NoView /\ built = "yes" /\ spec' = spec /\ built' = built
    BY <1>4 DEF RowView, VInv, buildVars
  <2>3. view.kind = "TABLE"
    <3>1. Missing.kind = "MISSING"
      BY RnodeIs DEF Missing
    <3> QED
      BY <2>1, <3>1 DEF KindAt, ChildOf
  <2>4. i \in DOMAIN spec[where.plan]
    BY <2>1, <2>3, ChildIs
  <2>5. PICK row, v : row = spec[where.plan][i] /\ v = Get(where.node, row.name)
    OBVIOUS
  <2>6. /\ row \in Row /\ (row.kind = "NESTED" => row.sub \in Plans)
        /\ v.k \in {"scalar", "array", "table"} => v \in Node /\ Made(ChildOf(i), where.plan, row, v)
        /\ Answers(ChildOf(i), row, v)
    BY <2>3, <2>4, <2>5, RowShows
  <2>7. row.kind = "NESTED" /\ v.k = "table"
    BY <2>1, <2>6 DEF Answers, KindAt
  <2>8. v \in Node /\ row.sub \in Plans /\ ChildOf(i) = WalkTable(Walked, row.sub, v)
    BY <2>6, <2>7 DEF Made
  <2>9. PICK r, q : r = ChildOf(i) /\ q = row.sub
    OBVIOUS
  <2>10. Viewed'
    <3>1. q \in Plans /\ view' = r /\ where' = [node |-> v, plan |-> q] /\ r = WalkTable(Walked, q, v)
      BY <2>1, <2>5, <2>8, <2>9
    <3> QED
      BY <2>2, <2>8, <3>1, PlaceViewed
  <2> QED
    BY <1>1, <2>2, <2>10 DEF VInv
<1>5. CASE EntryView
  <2>1. PICK i \in DOMAIN view.kids : \E j \in 1 .. ArrayLenAt(i) :
               /\ view' = ArrayChild(i, j)
               /\ where' = [node |-> Get(where.node, spec[where.plan][i].name).items[j],
                            plan |-> spec[where.plan][i].sub]
    BY <1>5 DEF EntryView
  <2>2. PICK j \in 1 .. ArrayLenAt(i) :
               /\ view' = ArrayChild(i, j)
               /\ where' = [node |-> Get(where.node, spec[where.plan][i].name).items[j],
                            plan |-> spec[where.plan][i].sub]
    BY <2>1
  <2>3. view # NoView /\ built = "yes" /\ spec' = spec /\ built' = built
    BY <1>5 DEF EntryView, VInv, buildVars
  <2>4. ChildOf(i).kind = "ARRAY" /\ ArrayLenAt(i) = Len(ChildOf(i).kids)
    BY <2>2 DEF ArrayLenAt
  <2>5. view.kind = "TABLE"
    <3>1. Missing.kind = "MISSING"
      BY RnodeIs DEF Missing
    <3> QED
      BY <2>4, <3>1 DEF ChildOf
  <2>6. i \in DOMAIN spec[where.plan]
    BY <2>1, <2>5, ChildIs
  <2>7. PICK row, v, r, p : /\ row = spec[where.plan][i] /\ v = Get(where.node, row.name)
                            /\ r = ChildOf(i) /\ p = where.plan
    OBVIOUS
  <2>8. /\ row \in Row /\ (row.kind = "NESTED" => row.sub \in Plans)
        /\ v.k \in {"scalar", "array", "table"} => v \in Node /\ Made(r, p, row, v)
        /\ Answers(r, row, v)
    BY <2>5, <2>6, <2>7, RowShows
  <2>9. row.kind \in {"COLLECTION", "NESTED"} /\ v.k = "array"
    BY <2>4, <2>7, <2>8 DEF Answers
  <2>10. v \in Node /\ Made(r, p, row, v)
    BY <2>8, <2>9
  <2>11. Listed(r.kids, p, row, v.items)
    BY <2>8, <2>9, <2>10, MadeEntries
  <2>12. j \in DOMAIN v.items
    BY <2>2, <2>4, <2>7, <2>11 DEF Listed
  <2>13. PICK item \in Node : item = v.items[j] /\ r.kids[j] = Entry(p, row, item)
    BY <2>11, <2>12 DEF Listed
  <2>14. PICK e, q : e = Entry(p, row, item) /\ q = row.sub
    OBVIOUS
  <2>15. view' = e /\ where' = [node |-> item, plan |-> q]
    BY <2>2, <2>7, <2>13, <2>14 DEF ArrayChild
  <2>16. e.kind = "TABLE" => row.kind = "NESTED" /\ e = WalkTable(Walked, q, item)
    BY <2>9, <2>14, EntryKind
  <2>17. Viewed'
    <3>1. CASE e.kind = "TABLE"
      <4>1. q \in Plans
        BY <2>8, <2>14, <2>16, <3>1
      <4> QED
        BY <2>3, <2>15, <2>16, <4>1, PlaceViewed
    <3>2. CASE e.kind # "TABLE"
      BY <2>15, <3>2 DEF Viewed
    <3> QED
      BY <3>1, <3>2
  <2> QED
    BY <1>1, <2>3, <2>17 DEF VInv
<1>6. CASE UNCHANGED planVars
  <2>1. spec' = spec /\ built' = built /\ view' = view /\ where' = where
    BY <1>6 DEF planVars, buildVars
  <2>2. Viewed'
    BY <2>1, ViewedStays
  <2>3. view' # NoView' => built' = "yes"
    BY <2>1 DEF VInv, NoView
  <2> QED
    BY <1>1, <2>2, <2>3 DEF VInv
<1> QED
  BY <1>2, <1>3, <1>4, <1>5, <1>6 DEF PlanNext

\* The inductive invariant of a plan that is built, walked and read.
THEOREM ViewInvariant == PlanSpec => []VInv
<1> QED
  BY VInit, VNext, PTL DEF PlanSpec

\* However many sub-plans refer to one another, in whatever order or circle,
\* and whatever the documents: through any chain of row views and array
\* entries, teptris_plan_walk and the accessors show in every row what the
\* document holds there, if it is of the kind the row asks for.
THEOREM RowsHold == PlanSpec => []RowsAreDocument
<1> QED
  BY ViewInvariant, RowsFollow, PTL

-------------------------------------------------------------------------------
(***************************************************************************)
(* The streaming writer.  First, how a text is read: one token after       *)
(* another.                                                                *)
(***************************************************************************)
Toks == {"nl", "header", "aot", "key", "[", "{", "]", "}", ",", "scalar"}
TokenType == [tok : Toks, path : Seq(Key)]
Texts == Seq(TokenType)
Nows == {"line", "header", "key", "open", "comma", "value", "error"}
Brackets == {"[", "{"}
Readings == [now : Nows, open : Seq(Brackets)]

\* One token leads from a reading to a reading.
LEMMA ReadTokenReads ==
  ASSUME NEW r \in Readings, NEW tok \in Toks
  PROVE  ReadToken(r, tok) \in Readings
<1>1. PICK o \in Seq(Brackets) : o = r.open
  BY DEF Readings
<1>2. Misread \in Readings
  <2>1. << >> \in Seq(Brackets) /\ "error" \in Nows
    BY DEF Nows
  <2> QED
    BY <2>1 DEF Readings, Misread
<1>3. Class(tok) \in Nows
  BY DEF Class, Toks, Nows
<1>4. ASSUME tok \in {"[", "{"} PROVE Append(o, tok) \in Seq(Brackets)
  <2>1. tok \in Brackets
    BY <1>4 DEF Brackets
  <2> QED
    BY <2>1
<1>5. ASSUME tok \in {"]", "}"}, tok \in MayFollow(r) PROVE SubSeq(o, 1, Len(o) - 1) \in Seq(Brackets)
  <2>1. PICK L \in Nat : L = Len(o)
    OBVIOUS
  <2>2. CASE L = 0
    <3>1. SubSeq(o, 1, L - 1) = << >>
      BY <2>1, <2>2
    <3> QED
      BY <2>1, <3>1
  <2>3. \A i \in 1 .. L - 1 : o[i] \in Brackets
    BY <2>1
  <2> QED
    BY <2>1, <2>2, <2>3
<1>6. CASE tok \notin MayFollow(r)
  BY <1>2, <1>6 DEF ReadToken
<1>7. CASE tok \in MayFollow(r)
  <2>1. PICK p : p = CASE tok \in {"[", "{"} -> Append(o, tok)
                       [] tok \in {"]", "}"} -> SubSeq(o, 1, Len(o) - 1)
                       [] OTHER -> o
    OBVIOUS
  <2>2. p \in Seq(Brackets)
    BY <1>4, <1>5, <1>7, <2>1
  <2>3. ReadToken(r, tok) = [now |-> Class(tok), open |-> p]
    BY <1>1, <1>7, <2>1 DEF ReadToken
  <2> QED
    BY <1>3, <2>2, <2>3 DEF Readings
<1> QED
  BY <1>6, <1>7

\* The definition local to Reading.
Reads(r, text) ==
  r = [n \in 0 .. Len(text) |-> IF n = 0 THEN AtLine ELSE ReadToken(r[n - 1], text[n].tok)]

\* Two readings of texts that begin alike agree so far.
LEMMA ReadsAgree ==
  ASSUME NEW text \in Texts, NEW h \in [0 .. Len(text) -> Readings], Reads(h, text),
         NEW other \in Texts, NEW g, Reads(g, other), Len(text) <= Len(other),
         \A i \in 1 .. Len(text) : other[i] = text[i]
  PROVE  \A n \in 0 .. Len(text) : g[n] = h[n]
<1>1. PICK L \in Nat : L = Len(text)
  OBVIOUS
<1>2. PICK M \in Nat : M = Len(other) /\ L <= M
  BY <1>1
<1> DEFINE T == {n \in Nat : n <= L => g[n] = h[n]}
<1>3. 0 \in T
  BY <1>1, <1>2 DEF Reads
<1>4. ASSUME NEW n \in T PROVE n + 1 \in T
  <2>1. n \in Nat /\ n + 1 \in Nat /\ n + 1 # 0 /\ (n + 1) - 1 = n
    OBVIOUS
  <2>2. SUFFICES ASSUME n + 1 <= L PROVE g[n + 1] = h[n + 1]
    BY <2>1
  <2>3. n + 1 \in 0 .. L /\ n + 1 \in 0 .. M /\ n + 1 \in 1 .. L /\ g[n] = h[n]
    BY <1>2, <2>1, <2>2
  <2>4. h[n + 1] = ReadToken(h[n], text[n + 1].tok)
    BY <1>1, <2>1, <2>3 DEF Reads
  <2>5. g[n + 1] = ReadToken(g[n], other[n + 1].tok)
    BY <1>2, <2>1, <2>3 DEF Reads
  <2> QED
    BY <1>1, <2>3, <2>4, <2>5
<1>5. T \in SUBSET Nat
  OBVIOUS
<1> HIDE DEF T
<1>6. T = Nat
  BY <1>3, <1>4, <1>5, InductiveSet
<1> QED
  BY <1>1, <1>6 DEF T

\* Every text is read to its end.
LEMMA ReadingIs ==
  ASSUME NEW text \in Texts
  PROVE  \E r \in [0 .. Len(text) -> Readings] : Reads(r, text) /\ Reading(text) = r[Len(text)]
<1>1. PICK L \in Nat : L = Len(text) /\ DOMAIN text = 1 .. L
  BY DEF Texts
<1> DEFINE F == [x \in Readings \X Nat |->
                   IF x[2] \in 1 .. L THEN ReadToken(x[1], text[x[2]].tok) ELSE x[1]]
<1>2. F \in [Readings \X Nat -> Readings]
  <2>1. ASSUME NEW x \in Readings \X Nat
        PROVE  (IF x[2] \in 1 .. L THEN ReadToken(x[1], text[x[2]].tok) ELSE x[1]) \in Readings
    <3>1. CASE x[2] \in 1 .. L
      <4>1. text[x[2]] \in TokenType
        BY <1>1, <3>1 DEF Texts
      <4>2. text[x[2]].tok \in Toks
        BY <4>1 DEF TokenType
      <4> QED
        BY <3>1, <4>2, ReadTokenReads
    <3> QED
      BY <3>1
  <2> QED
    BY <2>1
<1>3. \A r \in Readings, i \in 1 .. L : F[<<r, i>>] = ReadToken(r, text[i].tok)
  OBVIOUS
<1>4. AtLine \in Readings
  <2>1. << >> \in Seq(Brackets) /\ "line" \in Nows
    BY DEF Nows
  <2> QED
    BY <2>1 DEF Readings, AtLine
<1> HIDE DEF F
<1>5. PICK h \in [0 .. L -> Readings] : IteratesUpTo(h, AtLine, F, L)
  BY <1>2, <1>4, RecursiveUpTo
<1>6. Reads(h, text)
  <2>1. h = [i \in 0 .. L |-> IF i = 0 THEN AtLine ELSE F[<<h[i - 1], i>>]]
    BY <1>5 DEF IteratesUpTo
  <2>2. ASSUME NEW i \in 0 .. L, i # 0 PROVE h[i] = ReadToken(h[i - 1], text[i].tok)
    <3>1. i \in 1 .. L /\ h[i - 1] \in Readings
      BY <2>2
    <3>2. h[i] = F[<<h[i - 1], i>>]
      BY <2>1, <2>2
    <3> QED
      BY <1>3, <3>1, <3>2
  <2>3. h[0] = AtLine
    BY <2>1
  <2>4. h = [i \in 0 .. L |-> IF i = 0 THEN AtLine ELSE ReadToken(h[i - 1], text[i].tok)]
    BY <2>2, <2>3
  <2> QED
    BY <1>1, <2>4 DEF Reads
<1>7. PICK g : Reads(g, text) /\ Reading(text) = g[L]
  BY <1>1, <1>6 DEF Reading, Reads
<1>8. g[L] = h[L]
  BY <1>1, <1>6, <1>7, ReadsAgree
<1> QED
  BY <1>1, <1>6, <1>7, <1>8

\* One more token.
LEMMA ReadingAppend ==
  ASSUME NEW text \in Texts, NEW t \in TokenType
  PROVE  /\ Reading(text) \in Readings /\ Append(text, t) \in Texts
         /\ Reading(Append(text, t)) = ReadToken(Reading(text), t.tok)
<1>1. PICK L \in Nat : L = Len(text)
  BY DEF Texts
<1>2. PICK u \in Texts : u = Append(text, t)
  <2>1. Append(text, t) \in Texts
    BY DEF Texts
  <2> QED
    BY <2>1
<1>3. /\ Len(u) = L + 1 /\ u[L + 1] = t
      /\ \A i \in 1 .. L : u[i] = text[i]
  BY <1>1, <1>2 DEF Texts
<1>4. PICK h \in [0 .. L -> Readings] : Reads(h, text) /\ Reading(text) = h[L]
  BY <1>1, ReadingIs
<1>5. PICK g \in [0 .. L + 1 -> Readings] : Reads(g, u) /\ Reading(u) = g[L + 1]
  BY <1>3, ReadingIs
<1>6. g[L] = h[L]
  BY <1>1, <1>3, <1>4, <1>5, ReadsAgree
<1>7. g[L + 1] = ReadToken(g[L], u[L + 1].tok)
  <2>1. L + 1 \in 0 .. Len(u) /\ L + 1 # 0 /\ (L + 1) - 1 = L
    BY <1>3
  <2> QED
    BY <1>5, <2>1 DEF Reads
<1> QED
  BY <1>2, <1>3, <1>4, <1>5, <1>6, <1>7

\* No token at all.
LEMMA ReadingEmpty == Reading(<< >>) = AtLine
<1>1. << >> \in Texts /\ Len(<< >>) = 0
  BY DEF Texts
<1>2. PICK h : Reads(h, << >>) /\ Reading(<< >>) = h[0]
  BY <1>1, ReadingIs
<1> QED
  BY <1>1, <1>2 DEF Reads

-------------------------------------------------------------------------------
Keys == Key \cup {NoKey}
Kinds == {"table", "array", "aot", "itab"}
FrameType == [kind : Kinds, key : Keys, first : BOOLEAN, sub : BOOLEAN, node : Nat]
Frames == Seq(FrameType)
NodeType == [kind : {"table", "array", "scalar"}, flag : {"explicit", "none", "inline", "plain", "aot"},
             up : Nat, key : Keys]
Docs == Seq(NodeType)

\* The keys of a list that are there, in order: what both PathOf and KeysOf do.
Collects(f, ks) ==
  f = [i \in 0 .. Len(ks) |-> IF i = 0 THEN << >>
                             ELSE IF ks[i] = NoKey THEN f[i - 1] ELSE Append(f[i - 1], ks[i])]

\* Such a list is there.
LEMMA Collection ==
  ASSUME NEW ks \in Seq(Keys)
  PROVE  \E f \in [0 .. Len(ks) -> Seq(Key)] : Collects(f, ks)
<1>1. PICK L \in Nat : L = Len(ks) /\ DOMAIN ks = 1 .. L
  OBVIOUS
<1> DEFINE F == [x \in Seq(Key) \X Nat |->
                   IF x[2] \in 1 .. L /\ ks[x[2]] # NoKey THEN Append(x[1], ks[x[2]]) ELSE x[1]]
<1>2. F \in [Seq(Key) \X Nat -> Seq(Key)]
  <2>1. ASSUME NEW x \in Seq(Key) \X Nat
        PROVE  (IF x[2] \in 1 .. L /\ ks[x[2]] # NoKey THEN Append(x[1], ks[x[2]]) ELSE x[1]) \in Seq(Key)
    <3>1. CASE x[2] \in 1 .. L /\ ks[x[2]] # NoKey
      <4>1. ks[x[2]] \in Key
        BY <1>1, <3>1 DEF Keys
      <4> QED
        BY <3>1, <4>1
    <3> QED
      BY <3>1
  <2> QED
    BY <2>1
<1>3. \A s \in Seq(Key), i \in 1 .. L : F[<<s, i>>] = IF ks[i] = NoKey THEN s ELSE Append(s, ks[i])
  OBVIOUS
<1>4. << >> \in Seq(Key)
  OBVIOUS
<1> HIDE DEF F
<1>5. PICK h \in [0 .. L -> Seq(Key)] : IteratesUpTo(h, << >>, F, L)
  BY <1>2, <1>4, RecursiveUpTo
<1>6. h = [i \in 0 .. L |-> IF i = 0 THEN << >> ELSE F[<<h[i - 1], i>>]]
  BY <1>5 DEF IteratesUpTo
<1>7. ASSUME NEW i \in 0 .. L, i # 0
      PROVE  h[i] = IF ks[i] = NoKey THEN h[i - 1] ELSE Append(h[i - 1], ks[i])
  <2>1. i \in 1 .. L /\ h[i - 1] \in Seq(Key)
    BY <1>7
  <2>2. h[i] = F[<<h[i - 1], i>>]
    BY <1>6, <1>7
  <2> QED
    BY <1>3, <2>1, <2>2
<1>8. h[0] = << >>
  BY <1>6
<1>9. h = [i \in 0 .. L |-> IF i = 0 THEN << >>
                            ELSE IF ks[i] = NoKey THEN h[i - 1] ELSE Append(h[i - 1], ks[i])]
  BY <1>7, <1>8
<1> QED
  BY <1>1, <1>9 DEF Collects

\* Two collections agree as long as their lists do.
LEMMA CollectionsAgree ==
  ASSUME NEW ks \in Seq(Keys), NEW f, Collects(f, ks),
         NEW ls \in Seq(Keys), NEW g, Collects(g, ls), Len(ks) <= Len(ls),
         \A i \in 1 .. Len(ks) : ls[i] = ks[i]
  PROVE  f[Len(ks)] = g[Len(ks)]
<1>1. PICK L \in Nat : L = Len(ks)
  OBVIOUS
<1>2. PICK M \in Nat : M = Len(ls) /\ L <= M
  BY <1>1
<1> DEFINE T == {n \in Nat : n <= L => f[n] = g[n]}
<1>3. 0 \in T
  BY <1>1, <1>2 DEF Collects
<1>4. ASSUME NEW n \in T PROVE n + 1 \in T
  <2>1. n \in Nat /\ n + 1 \in Nat /\ n + 1 # 0 /\ (n + 1) - 1 = n
    OBVIOUS
  <2>2. SUFFICES ASSUME n + 1 <= L PROVE f[n + 1] = g[n + 1]
    BY <2>1
  <2>3. n + 1 \in 0 .. L /\ n + 1 \in 0 .. M /\ n + 1 \in 1 .. L /\ f[n] = g[n]
    BY <1>2, <2>1, <2>2
  <2>4. f[n + 1] = IF ks[n + 1] = NoKey THEN f[n] ELSE Append(f[n], ks[n + 1])
    BY <1>1, <2>1, <2>3 DEF Collects
  <2>5. g[n + 1] = IF ls[n + 1] = NoKey THEN g[n] ELSE Append(g[n], ls[n + 1])
    BY <1>2, <2>1, <2>3 DEF Collects
  <2> QED
    BY <1>1, <2>3, <2>4, <2>5
<1>5. T \in SUBSET Nat
  OBVIOUS
<1> HIDE DEF T
<1>6. L \in T
  BY <1>3, <1>4, <1>5, InductiveSet
<1> QED
  BY <1>1, <1>6 DEF T

\* What PathOf collects, and KeysOf.
PathKeys(fs) ==
  [i \in 1 .. Len(fs) |->
     IF Len(fs) - i < PathFrames /\ fs[i].kind \in {"table", "aot"} THEN fs[i].key ELSE NoKey]
NodeKeys(d, nodes) == [i \in 1 .. Len(nodes) |-> d[nodes[i]].key]
Paths(p, fs) ==
  p = [i \in 0 .. Len(fs) |->
         IF i = 0 THEN << >>
         ELSE IF Len(fs) - i < PathFrames /\ fs[i].kind \in {"table", "aot"} /\ fs[i].key # NoKey
         THEN Append(p[i - 1], fs[i].key)
         ELSE p[i - 1]]
Spells(p, d, nodes) ==
  p = [i \in 0 .. Len(nodes) |->
         IF i = 0 THEN << >>
         ELSE IF d[nodes[i]].key = NoKey THEN p[i - 1]
         ELSE Append(p[i - 1], d[nodes[i]].key)]

\* PathOf collects the keys of the frames that w_path looks at.
LEMMA PathKeysCollected ==
  ASSUME NEW fs \in Frames
  PROVE  /\ PathKeys(fs) \in Seq(Keys) /\ Len(PathKeys(fs)) = Len(fs)
         /\ \E f \in [0 .. Len(fs) -> Seq(Key)] : Collects(f, PathKeys(fs)) /\ PathOf(fs) = f[Len(fs)]
<1>1. PICK L \in Nat : L = Len(fs) /\ DOMAIN fs = 1 .. L
  BY DEF Frames
<1>2. PICK ks \in [1 .. L -> Keys] : ks = PathKeys(fs)
  <2>1. ASSUME NEW i \in 1 .. L PROVE fs[i].key \in Keys
    <3>1. fs[i] \in FrameType
      BY <1>1 DEF Frames
    <3> QED
      BY <3>1 DEF FrameType
  <2>2. \A i \in 1 .. L : (IF L - i < PathFrames /\ fs[i].kind \in {"table", "aot"} THEN fs[i].key ELSE NoKey) \in Keys
    BY <2>1 DEF Keys
  <2> QED
    BY <1>1, <2>2 DEF PathKeys
<1>3. ks \in Seq(Keys) /\ Len(ks) = L
  BY <1>2
<1>4. PICK h \in [0 .. L -> Seq(Key)] : Collects(h, ks)
  BY <1>3, Collection
<1>5. \A p : Paths(p, fs) <=> Collects(p, ks)
  <2>1. TAKE p
  <2>2. ASSUME NEW i \in 0 .. L, i # 0
        PROVE  /\ (ks[i] # NoKey) <=> (L - i < PathFrames /\ fs[i].kind \in {"table", "aot"} /\ fs[i].key # NoKey)
               /\ ks[i] # NoKey => ks[i] = fs[i].key
    BY <1>1, <1>2, <2>2 DEF PathKeys
  <2>3. ASSUME NEW i \in 0 .. L
        PROVE  (IF i = 0 THEN << >>
                ELSE IF L - i < PathFrames /\ fs[i].kind \in {"table", "aot"} /\ fs[i].key # NoKey
                THEN Append(p[i - 1], fs[i].key)
                ELSE p[i - 1])
               = IF i = 0 THEN << >> ELSE IF ks[i] = NoKey THEN p[i - 1] ELSE Append(p[i - 1], ks[i])
    BY <2>2
  <2> QED
    BY <1>1, <1>3, <2>3 DEF Paths, Collects
<1>6. PICK g : Paths(g, fs) /\ PathOf(fs) = g[L]
  BY <1>1, <1>4, <1>5 DEF PathOf, Paths
<1>7. h[L] = g[L]
  BY <1>3, <1>4, <1>5, <1>6, CollectionsAgree
<1> QED
  BY <1>1, <1>2, <1>3, <1>4, <1>6, <1>7

\* KeysOf collects the keys of the nodes.
LEMMA NodeKeysCollected ==
  ASSUME NEW d \in Docs, NEW nodes \in Seq(DOMAIN d)
  PROVE  /\ NodeKeys(d, nodes) \in Seq(Keys) /\ Len(NodeKeys(d, nodes)) = Len(nodes)
         /\ \E f \in [0 .. Len(nodes) -> Seq(Key)] :
              Collects(f, NodeKeys(d, nodes)) /\ KeysOf(d, nodes) = f[Len(nodes)]
<1>1. PICK L \in Nat : L = Len(nodes) /\ DOMAIN nodes = 1 .. L
  OBVIOUS
<1>2. PICK ks \in [1 .. L -> Keys] : ks = NodeKeys(d, nodes)
  <2>1. ASSUME NEW i \in DOMAIN d PROVE d[i].key \in Keys
    <3>1. d[i] \in NodeType
      BY DEF Docs
    <3> QED
      BY <3>1 DEF NodeType
  <2>2. \A i \in 1 .. L : nodes[i] \in DOMAIN d
    BY <1>1
  <2>3. \A i \in 1 .. L : d[nodes[i]].key \in Keys
    BY <2>1, <2>2
  <2> QED
    BY <1>1, <2>3 DEF NodeKeys
<1>3. ks \in Seq(Keys) /\ Len(ks) = L
  BY <1>2
<1>4. PICK h \in [0 .. L -> Seq(Key)] : Collects(h, ks)
  BY <1>3, Collection
<1>5. \A p : Spells(p, d, nodes) <=> Collects(p, ks)
  <2>1. TAKE p
  <2>2. \A i \in 0 .. L : i # 0 => ks[i] = d[nodes[i]].key
    BY <1>1, <1>2 DEF NodeKeys
  <2>3. ASSUME NEW i \in 0 .. L
        PROVE  (IF i = 0 THEN << >> ELSE IF d[nodes[i]].key = NoKey THEN p[i - 1]
                ELSE Append(p[i - 1], d[nodes[i]].key))
               = IF i = 0 THEN << >> ELSE IF ks[i] = NoKey THEN p[i - 1] ELSE Append(p[i - 1], ks[i])
    BY <2>2
  <2> QED
    BY <1>1, <1>3, <2>3 DEF Spells, Collects
<1>6. PICK g : Spells(g, d, nodes) /\ KeysOf(d, nodes) = g[L]
  BY <1>1, <1>4, <1>5 DEF KeysOf, Spells
<1>7. h[L] = g[L]
  BY <1>3, <1>4, <1>5, <1>6, CollectionsAgree
<1> QED
  BY <1>1, <1>2, <1>3, <1>4, <1>6, <1>7

-------------------------------------------------------------------------------
\* The frames are a way from the root of what was described so far.
Chained(fs, d) ==
  /\ fs # << >> /\ fs[1].node = Root /\ d # << >> /\ d[Root].up = 0
  /\ \A i \in 1 .. Len(fs) : i <= fs[i].node /\ fs[i].node <= Len(d)
  /\ \A i \in 1 .. Len(fs) - 1 : d[fs[i + 1].node].up = fs[i].node
  /\ \A i \in 1 .. Len(fs) : fs[i].kind \in {"table", "aot"} => d[fs[i].node].key = fs[i].key

NodesOf(fs) == [i \in 1 .. Len(fs) |-> fs[i].node]

\* The last j of a list.
LastOf(ns, j) == [k \in 1 .. j |-> ns[Len(ns) - j + k]]

\* One more from the end.
LEMMA TailStep ==
  ASSUME NEW ns \in Seq(Nat), NEW j \in Nat, j < Len(ns)
  PROVE  /\ LastOf(ns, j) \in Seq(Nat) /\ Len(LastOf(ns, j)) = j
         /\ LastOf(ns, j + 1) = <<ns[Len(ns) - j]>> \o LastOf(ns, j)
<1>1. PICK H \in Nat : H = Len(ns) /\ j < H
  OBVIOUS
<1>2. PICK s \in [1 .. j -> Nat] : s = LastOf(ns, j)
  <2>1. \A k \in 1 .. j : ns[H - j + k] \in Nat
    BY <1>1
  <2> QED
    BY <1>1, <2>1 DEF LastOf
<1>3. PICK t \in [1 .. j + 1 -> Nat] : t = LastOf(ns, j + 1)
  <2>1. \A k \in 1 .. j + 1 : ns[H - (j + 1) + k] \in Nat
    BY <1>1
  <2> QED
    BY <1>1, <2>1 DEF LastOf
<1>4. s \in Seq(Nat) /\ Len(s) = j
  BY <1>2
<1>5. t \in Seq(Nat) /\ Len(t) = j + 1
  BY <1>3
<1>6. PICK u \in Seq(Nat) : u = <<ns[H - j]>> \o s /\ Len(u) = j + 1
  <2> DEFINE w == ns[H - j]
  <2>0. w \in Nat
    BY <1>1
  <2> HIDE DEF w
  <2>1. PICK v \in Nat : v = w
    BY <2>0
  <2>2. <<v>> \o s \in Seq(Nat) /\ Len(<<v>> \o s) = Len(<<v>>) + Len(s) /\ Len(<<v>>) = 1
    BY <1>4
  <2>3. PICK u \in Seq(Nat) : u = <<w>> \o s /\ Len(u) = j + 1
    <3>1. 1 + Len(s) = j + 1
      BY <1>4
    <3> QED
      BY <2>1, <2>2, <3>1
  <2> QED
    BY <2>3 DEF w
<1>7. ASSUME NEW k \in 1 .. j + 1 PROVE t[k] = u[k]
  <2>1. t[k] = ns[H - (j + 1) + k]
    BY <1>1, <1>3 DEF LastOf
  <2>2. CASE k = 1
    <3>1. u[1] = ns[H - j]
      BY <1>1, <1>4, <1>6
    <3>2. H - (j + 1) + 1 = H - j
      BY <1>1
    <3> QED
      BY <2>1, <2>2, <3>1, <3>2
  <2>3. CASE k # 1
    <3>1. PICK m \in Nat : k = m + 1 /\ m \in 1 .. j
      BY <2>3
    <3>2. u[k] = s[m]
      BY <1>4, <1>6, <3>1
    <3>3. s[m] = ns[H - j + m] /\ H - j + m = H - (j + 1) + k
      BY <1>1, <1>2, <3>1 DEF LastOf
    <3> QED
      BY <2>1, <3>2, <3>3
  <2> QED
    BY <2>2, <2>3
<1>8. t = u
  BY <1>5, <1>6, <1>7, SeqEqual
<1> QED
  BY <1>1, <1>2, <1>3, <1>4, <1>6, <1>8

\* The definition local to LineOf.
Climbs(line, d, n) ==
  line = [i \in 0 .. Len(d) |->
            IF i = 0 THEN <<n>>
            ELSE IF d[line[i - 1][1]].up = 0 THEN line[i - 1]
            ELSE <<d[line[i - 1][1]].up>> \o line[i - 1]]

\* The line of the innermost frame is the frames.
LEMMA LineIsFrames ==
  ASSUME NEW fs \in Frames, NEW d \in Docs, Chained(fs, d)
  PROVE  LineOf(d, fs[Len(fs)].node) = NodesOf(fs)
<1>1. PICK H \in Nat : H = Len(fs) /\ DOMAIN fs = 1 .. H /\ H # 0
  BY DEF Frames, Chained
<1>2. PICK D \in Nat : D = Len(d) /\ DOMAIN d = 1 .. D
  BY DEF Docs
<1>3. PICK ns \in [1 .. H -> Nat] : ns = NodesOf(fs)
  <2>1. ASSUME NEW i \in 1 .. H PROVE fs[i].node \in Nat
    <3>1. fs[i] \in FrameType
      BY <1>1 DEF Frames
    <3> QED
      BY <3>1 DEF FrameType
  <2> QED
    BY <1>1, <2>1 DEF NodesOf
<1>4. ns \in Seq(Nat) /\ Len(ns) = H /\ \A i \in 1 .. H : ns[i] = fs[i].node
  BY <1>1, <1>3 DEF NodesOf
<1>5. H <= D /\ ns[1] = Root /\ d[ns[1]].up = 0
  <2>1. H <= ns[H] /\ ns[H] <= D /\ ns[H] \in Nat
    BY <1>1, <1>2, <1>4 DEF Chained
  <2> QED
    BY <1>1, <1>2, <1>4, <2>1 DEF Chained
<1>6. ASSUME NEW i \in 1 .. H - 1 PROVE d[ns[i + 1]].up = ns[i] /\ ns[i] # 0
  <2>1. i \in 1 .. H /\ i + 1 \in 1 .. H /\ d[fs[i + 1].node].up = fs[i].node /\ i <= fs[i].node
    BY <1>1, <1>6 DEF Chained
  <2> QED
    BY <1>4, <2>1
<1> DEFINE h == [i \in 0 .. D |-> IF i < H THEN LastOf(ns, i + 1) ELSE ns]
<1>7. LastOf(ns, H) = ns
  <2>1. \A k \in 1 .. H : ns[H - H + k] = ns[k]
    OBVIOUS
  <2> QED
    BY <1>4, <2>1 DEF LastOf
<1>8. \A i \in 0 .. D : /\ i < H => h[i] = LastOf(ns, i + 1)
                        /\ i >= H => h[i] = ns
  BY <1>1
<1>9. h = [i \in 0 .. D |-> h[i]]
  OBVIOUS
<1> HIDE DEF h
<1>10. h[0] = <<ns[H]>>
  <2>1. 0 < H /\ 0 \in 0 .. D /\ H - 0 = H
    BY <1>1
  <2>2. LastOf(ns, 0 + 1) = <<ns[H - 0]>> \o LastOf(ns, 0) /\ LastOf(ns, 0) \in Seq(Nat) /\ Len(LastOf(ns, 0)) = 0
    BY <1>4, <2>1, TailStep
  <2>3. LastOf(ns, 0) = << >>
    BY <2>2
  <2>4. <<ns[H]>> \o << >> = <<ns[H]>>
    BY <1>1
  <2> QED
    BY <1>8, <2>1, <2>2, <2>3, <2>4
<1>11. ASSUME NEW i \in 0 .. D, i # 0
       PROVE  h[i] = IF d[h[i - 1][1]].up = 0 THEN h[i - 1] ELSE <<d[h[i - 1][1]].up>> \o h[i - 1]
  <2>1. i \in Nat /\ i - 1 \in Nat /\ i - 1 \in 0 .. D /\ (i - 1) + 1 = i
    BY <1>11
  <2>2. CASE i < H
    <3>1. h[i] = LastOf(ns, i + 1) /\ h[i - 1] = LastOf(ns, i)
      BY <1>8, <2>1, <2>2
    <3>2. LastOf(ns, i + 1) = <<ns[H - i]>> \o LastOf(ns, i)
      BY <1>4, <2>1, <2>2, TailStep
    <3>3. LastOf(ns, i)[1] = ns[H - i + 1]
      BY <1>4, <1>11, <2>1, <2>2 DEF LastOf
    <3>4. H - i \in 1 .. H - 1
      BY <1>1, <1>11, <2>2
    <3>5. d[ns[H - i + 1]].up = ns[H - i] /\ ns[H - i] # 0
      BY <1>6, <3>4
    <3> QED
      BY <3>1, <3>2, <3>3, <3>5
  <2>3. CASE ~(i < H)
    <3>1. h[i] = ns
      BY <1>8, <2>1, <2>3
    <3>2. h[i - 1] = ns
      <4>1. CASE i = H
        BY <1>7, <1>8, <2>1, <4>1
      <4>2. CASE i # H
        BY <1>8, <2>1, <2>3, <4>2
      <4> QED
        BY <4>1, <4>2
    <3> QED
      BY <1>5, <3>1, <3>2
  <2> QED
    BY <2>2, <2>3
<1>12. Climbs(h, d, ns[H])
  BY <1>2, <1>9, <1>10, <1>11 DEF Climbs
<1>13. PICK g : Climbs(g, d, ns[H]) /\ LineOf(d, ns[H]) = g[D]
  BY <1>2, <1>12 DEF LineOf, Climbs
<1> DEFINE T == {n \in Nat : n <= D => g[n] = h[n]}
<1>14. 0 \in T
  BY <1>2, <1>10, <1>13 DEF Climbs
<1>15. ASSUME NEW n \in T PROVE n + 1 \in T
  <2>1. n \in Nat /\ n + 1 \in Nat /\ n + 1 # 0 /\ (n + 1) - 1 = n
    OBVIOUS
  <2>2. SUFFICES ASSUME n + 1 <= D PROVE g[n + 1] = h[n + 1]
    BY <2>1
  <2>3. n + 1 \in 0 .. D /\ g[n] = h[n]
    BY <2>1, <2>2
  <2>4. h[n + 1] = IF d[h[n][1]].up = 0 THEN h[n] ELSE <<d[h[n][1]].up>> \o h[n]
    BY <1>11, <2>1, <2>3
  <2>5. g[n + 1] = IF d[g[n][1]].up = 0 THEN g[n] ELSE <<d[g[n][1]].up>> \o g[n]
    BY <1>2, <1>13, <2>1, <2>3 DEF Climbs
  <2> QED
    BY <2>3, <2>4, <2>5
<1>16. T \in SUBSET Nat
  OBVIOUS
<1> HIDE DEF T
<1>17. D \in T
  BY <1>14, <1>15, <1>16, InductiveSet
<1>18. g[D] = h[D]
  BY <1>17 DEF T
<1>19. h[D] = ns
  <2>1. CASE D = H
    BY <1>8, <2>1
  <2>2. CASE D # H
    BY <1>5, <1>8, <2>2
  <2> QED
    BY <2>1, <2>2
<1> QED
  BY <1>1, <1>3, <1>4, <1>13, <1>18, <1>19

\* The same frames, whatever has been marked in them.
Alike(fs, gs) ==
  \A i \in 1 .. Len(fs) : gs[i].kind = fs[i].kind /\ gs[i].key = fs[i].key /\ gs[i].node = fs[i].node

Sectional(fs) == \A i \in 1 .. Len(fs) : fs[i].kind \in {"table", "aot"}

\* The place of a frame that is begun: the path of the frames below, and its
\* own key if it has one.
LEMMA PlaceIsPath ==
  ASSUME NEW fs \in Frames, NEW gs \in Frames, NEW d \in Docs, Len(gs) = Len(fs) + 1,
         Alike(fs, gs), Sectional(gs), Chained(gs, d), Len(fs) <= PathFrames,
         NEW k, k = gs[Len(fs) + 1].key
  PROVE  PlaceOf(d, gs[Len(fs) + 1].node) = IF k = NoKey THEN PathOf(fs) ELSE Append(PathOf(fs), k)
<1>1. PICK H \in Nat : H = Len(fs) /\ DOMAIN fs = 1 .. H /\ Len(gs) = H + 1 /\ DOMAIN gs = 1 .. H + 1
  BY DEF Frames
<1>2. PICK D \in Nat : D = Len(d) /\ DOMAIN d = 1 .. D
  BY DEF Docs
<1>3. PICK ns \in [1 .. H + 1 -> DOMAIN d] : ns = NodesOf(gs)
  <2>1. ASSUME NEW i \in 1 .. H + 1 PROVE gs[i].node \in DOMAIN d
    <3>1. gs[i] \in FrameType
      BY <1>1 DEF Frames
    <3>2. gs[i].node \in Nat
      BY <3>1 DEF FrameType
    <3>3. i <= gs[i].node /\ gs[i].node <= D
      BY <1>1, <1>2 DEF Chained
    <3> QED
      BY <1>2, <3>2, <3>3
  <2> QED
    BY <1>1, <2>1 DEF NodesOf
<1>4. ns \in Seq(DOMAIN d) /\ Len(ns) = H + 1 /\ \A i \in 1 .. H + 1 : ns[i] = gs[i].node
  BY <1>1, <1>3 DEF NodesOf
<1>5. PICK ls \in Seq(Keys) : ls = NodeKeys(d, ns) /\ Len(ls) = H + 1
  BY <1>4, NodeKeysCollected
<1>6. PICK f \in [0 .. H + 1 -> Seq(Key)] : Collects(f, ls) /\ KeysOf(d, ns) = f[H + 1]
  BY <1>4, <1>5, NodeKeysCollected
<1>7. PICK ks \in Seq(Keys) : ks = PathKeys(fs) /\ Len(ks) = H
  BY <1>1, PathKeysCollected
<1>8. PICK e \in [0 .. H -> Seq(Key)] : Collects(e, ks) /\ PathOf(fs) = e[H]
  BY <1>1, <1>7, PathKeysCollected
<1>9. \A i \in 1 .. H + 1 : ls[i] = gs[i].key
  BY <1>1, <1>4, <1>5 DEF NodeKeys, Chained, Sectional
<1>10. ASSUME NEW i \in 1 .. H PROVE ks[i] = ls[i]
  <2>1. H - i < PathFrames /\ i \in 1 .. H + 1
    BY <1>1, WriterAssumption
  <2>2. i \in 1 .. Len(gs) /\ gs[i].kind \in {"table", "aot"} /\ gs[i].kind = fs[i].kind /\ gs[i].key = fs[i].key
    BY <1>1 DEF Alike, Sectional
  <2>3. ks[i] = fs[i].key
    BY <1>1, <1>7, <2>1, <2>2 DEF PathKeys
  <2> QED
    BY <1>9, <2>1, <2>2, <2>3
<1>11. e[H] = f[H]
  <2>1. Len(ks) <= Len(ls) /\ \A i \in 1 .. Len(ks) : ls[i] = ks[i]
    BY <1>5, <1>7, <1>10
  <2>2. e[Len(ks)] = f[Len(ks)]
    BY <1>6, <1>8, <2>1, CollectionsAgree
  <2> QED
    BY <1>7, <2>2
<1>12. f[H + 1] = IF k = NoKey THEN f[H] ELSE Append(f[H], k)
  <2>1. H + 1 \in 0 .. Len(ls) /\ H + 1 # 0 /\ (H + 1) - 1 = H /\ ls[H + 1] = k
    BY <1>1, <1>5, <1>9
  <2> QED
    BY <1>6, <2>1 DEF Collects
<1>13. LineOf(d, gs[H + 1].node) = ns
  BY <1>1, <1>3, LineIsFrames
<1> QED
  BY <1>1, <1>6, <1>8, <1>11, <1>12, <1>13 DEF PlaceOf

-------------------------------------------------------------------------------
WTyped ==
  /\ key \in Keys /\ lost \in BOOLEAN /\ finished \in BOOLEAN
  /\ st \in {"OK", "ARG", "STATE", "ALLOC"}
  /\ slips \subseteq {"key in array", "value in aot", "long path"}
  /\ frames \in Frames /\ frames # << >> /\ out \in Texts /\ doc \in Docs

\* Inside a value there are only values.
Layered(fs) ==
  \A i, j \in 1 .. Len(fs) :
    i <= j /\ fs[i].kind \in {"array", "itab"} => fs[j].kind \in {"array", "itab"}

\* Lines are still written to a table only if no section was begun in it.
Marked(fs, sec) ==
  /\ \A i \in 1 .. Len(fs) : fs[i].kind = "table" /\ ~fs[i].sub => sec = fs[i].node
  /\ \A i \in 1 .. Len(fs) - 1 :
       fs[i].kind = "table" /\ fs[i + 1].kind \in {"table", "aot"} => fs[i].sub

Shaped(fs, d, sec) == Chained(fs, d) /\ Layered(fs) /\ Marked(fs, sec) /\ fs[1].kind = "table"

\* The open brackets are those of the values that are open, h the innermost
\* frame that is none.
Bracket(kind) == IF kind = "array" THEN "[" ELSE "{"
Mirrors(fs, h, open) ==
  /\ h \in 1 .. Len(fs) /\ open \in Seq(Brackets) /\ Len(open) = Len(fs) - h
  /\ \A i \in 1 .. h : fs[i].kind \in {"table", "aot"}
  /\ h < Len(fs) => fs[h].kind = "table"
  /\ \A i \in 1 .. Len(fs) - h :
       fs[h + i].kind \in {"array", "itab"} /\ open[i] = Bracket(fs[h + i].kind)
  /\ \A i \in 1 .. Len(fs) - 1 : i > h => fs[i].first

\* What the last token was when f is open.
LastRead(f) == CASE f.kind \in {"table", "aot"} -> "line"
                 [] f.kind \notin {"table", "aot"} /\ f.first -> "value"
                 [] OTHER -> "open"

Grammatical(fs, text) ==
  \E h \in 1 .. Len(fs) : /\ Mirrors(fs, h, Reading(text).open)
                          /\ Reading(text).now = LastRead(fs[Len(fs)])

WInv == /\ WTyped /\ Shaped(frames, doc, section)
        /\ "value in aot" \notin slips => Grammatical(frames, out)
        /\ finished => Len(frames) = 1

\* What may follow, case by case, and what comes of it.
LEMMA Following ==
  ASSUME NEW r
  PROVE  /\ r.now = "line" => MayFollow(r) = {"header", "aot", "key"}
         /\ r.now = "header" => MayFollow(r) = {"nl"}
         /\ r.now = "key" => MayFollow(r) = Value
         /\ r.now = "open" => MayFollow(r) = IF Inside(r) = "[" THEN Value \cup {"]"} ELSE {"key", "}"}
         /\ r.now = "comma" => MayFollow(r) = IF Inside(r) = "[" THEN Value ELSE {"key"}
         /\ r.now = "value" /\ Inside(r) = "[" => MayFollow(r) = {",", "]"}
         /\ r.now = "value" /\ Inside(r) = "{" => MayFollow(r) = {",", "}"}
         /\ r.now = "value" /\ Inside(r) = "line" => MayFollow(r) = {"nl"}
  BY DEF MayFollow

\* What comes of a token that may follow.
LEMMA Reads1 ==
  ASSUME NEW r
  PROVE  /\ "nl" \in MayFollow(r) => ReadToken(r, "nl") = [now |-> "line", open |-> r.open]
         /\ "header" \in MayFollow(r) => ReadToken(r, "header") = [now |-> "header", open |-> r.open]
         /\ "aot" \in MayFollow(r) => ReadToken(r, "aot") = [now |-> "header", open |-> r.open]
         /\ "key" \in MayFollow(r) => ReadToken(r, "key") = [now |-> "key", open |-> r.open]
         /\ "," \in MayFollow(r) => ReadToken(r, ",") = [now |-> "comma", open |-> r.open]
         /\ "scalar" \in MayFollow(r) => ReadToken(r, "scalar") = [now |-> "value", open |-> r.open]
         /\ "[" \in MayFollow(r) => ReadToken(r, "[") = [now |-> "open", open |-> Append(r.open, "[")]
         /\ "{" \in MayFollow(r) => ReadToken(r, "{") = [now |-> "open", open |-> Append(r.open, "{")]
         /\ "]" \in MayFollow(r) =>
              ReadToken(r, "]") = [now |-> "value", open |-> SubSeq(r.open, 1, Len(r.open) - 1)]
         /\ "}" \in MayFollow(r) =>
              ReadToken(r, "}") = [now |-> "value", open |-> SubSeq(r.open, 1, Len(r.open) - 1)]
  BY DEF ReadToken, Class

\* One token written, as the writer writes them.
LEMMA ReadOne ==
  ASSUME NEW text \in Texts, NEW t \in TokenType
  PROVE  text \o <<t>> \in Texts /\ Reading(text \o <<t>>) = ReadToken(Reading(text), t.tok)
<1>1. text \o <<t>> = Append(text, t)
  BY DEF Texts
<1> QED
  BY <1>1, ReadingAppend

\* A token is what it is made of.
LEMMA TokenIs ==
  ASSUME NEW tok \in Toks, NEW path \in Seq(Key)
  PROVE  Token(tok, path) \in TokenType /\ Token(tok, path).tok = tok /\ Token(tok, path).path = path
<1>1. PICK t : t = Token(tok, path)
  OBVIOUS
<1>2. t = [tok |-> tok, path |-> path]
  BY <1>1 DEF Token
<1>3. t \in TokenType
  BY <1>2 DEF TokenType
<1> QED
  BY <1>1, <1>2, <1>3

\* A mark is one token.
LEMMA MarkIs ==
  ASSUME NEW tok \in Toks
  PROVE  Mark(tok) \in Texts /\ Len(Mark(tok)) = 1 /\ Mark(tok)[1].tok = tok
<1>1. << >> \in Seq(Key)
  OBVIOUS
<1>2. PICK t \in TokenType : t = Token(tok, << >>) /\ t.tok = tok
  BY <1>1, TokenIs
<1>3. Mark(tok) = <<t>>
  BY <1>2 DEF Mark
<1>4. <<t>> \in Texts
  BY DEF Texts
<1> QED
  BY <1>2, <1>3, <1>4

\* Three texts, and four.
Joins(a, b, c) == a \o (b \o c) = (a \o b) \o c

\* Texts are joined in any order.
LEMMA TextsJoin ==
  ASSUME NEW a \in Texts, NEW b \in Texts, NEW c \in Texts
  PROVE  Joins(a, b, c)
  BY DEF Texts, Joins

JoinsAll(text, p, v, e) == text \o p \o v \o e = text \o (p \o (v \o e))

\* Four of them.
LEMMA WriteJoin ==
  ASSUME NEW text \in Texts, NEW p \in Texts, NEW v \in Texts, NEW e \in Texts
  PROVE  JoinsAll(text, p, v, e)
<1>1. PICK a \in Texts, b \in Texts : a = text \o p /\ b = v \o e
  <2>1. text \o p \in Texts
    BY DEF Texts
  <2>2. v \o e \in Texts
    BY DEF Texts
  <2> QED
    BY <2>1, <2>2
<1>2. Joins(a, v, e) /\ Joins(text, p, b)
  BY TextsJoin
<1> QED
  BY <1>1, <1>2 DEF Joins, JoinsAll

\* A separator is a text.
LEMMA SepIs ==
  ASSUME NEW f PROVE SepVal(f) \in Texts
<1>1. Mark(",") \in Texts
  BY MarkIs DEF Toks
<1>2. << >> \in Texts
  BY DEF Texts
<1> QED
  BY <1>1, <1>2 DEF SepVal

\* A mark is read like any token.
LEMMA ReadMark ==
  ASSUME NEW text \in Texts, NEW tok \in Toks
  PROVE  text \o Mark(tok) \in Texts /\ Reading(text \o Mark(tok)) = ReadToken(Reading(text), tok)
<1>1. PICK t \in TokenType : t = Token(tok, << >>) /\ t.tok = tok
  <2>1. << >> \in Seq(Key)
    OBVIOUS
  <2> QED
    BY <2>1, TokenIs
<1> QED
  BY <1>1, ReadOne DEF Mark

InsideOf(kind) == CASE kind = "array" -> "[" [] kind = "itab" -> "{" [] OTHER -> "line"

\* A text read up to a frame that is open.
At(text, f, open) ==
  /\ text \in Texts /\ open \in Seq(Brackets) /\ Reading(text) = [now |-> LastRead(f), open |-> open]
  /\ Inside(Reading(text)) = InsideOf(f.kind)

\* A text after which a value may come.
Ready(text, f, open) ==
  /\ text \in Texts /\ open \in Seq(Brackets) /\ Reading(text).open = open
  /\ Value \subseteq MayFollow(Reading(text)) /\ Inside(Reading(text)) = InsideOf(f.kind)

\* What precedes a value leaves room for one.
LEMMA PrefixReads ==
  ASSUME NEW f \in FrameType, f.kind # "aot", key \in Keys, PrefixStatus(f) = "OK",
         NEW text, NEW open, At(text, f, open)
  PROVE  Ready(text \o KeyedPrefix(f), f, open)
<1>1. text \in Texts /\ open \in Seq(Brackets) /\ Reading(text) = [now |-> LastRead(f), open |-> open]
      /\ Inside(Reading(text)) = InsideOf(f.kind)
  BY DEF At
<1>2. f.kind \in {"table", "array", "itab"} /\ f.first \in BOOLEAN
  BY DEF FrameType, Kinds
<1>3. ASSUME NEW x, NEW r, r = [now |-> x, open |-> open] PROVE Inside(r) = InsideOf(f.kind)
  BY <1>1, <1>3 DEF Inside
<1>4. PICK s : s = text \o SepVal(f)
  OBVIOUS
<1>5. PICK r : r = Reading(s)
  OBVIOUS
<1>6. s \in Texts /\ r.open = open /\ r.now \in {"line", "comma", "open"} /\ (f.kind = "table" <=> r.now = "line")
      /\ r = [now |-> r.now, open |-> open]
  <2>1. CASE Separated(f)
    <3>1. s = text \o Mark(",") /\ LastRead(f) = "value" /\ f.kind \in {"array", "itab"}
      BY <1>4, <2>1 DEF SepVal, Separated, LastRead
    <3>2. "," \in Toks /\ s \in Texts /\ r = ReadToken(Reading(text), ",")
      BY <1>1, <1>5, <3>1, ReadMark DEF Toks
    <3>3. PICK q : q = Reading(text) /\ q.now = "value" /\ q.open = open /\ Inside(q) \in {"[", "{"}
      BY <1>1, <3>1 DEF InsideOf
    <3>4. "," \in MayFollow(q)
      BY <3>3, Following
    <3>5. ReadToken(q, ",") = [now |-> "comma", open |-> open]
      BY <3>3, <3>4, Reads1
    <3>6. r = [now |-> "comma", open |-> open]
      BY <3>2, <3>3, <3>5
    <3>7. r.open = open /\ r.now = "comma"
      BY <3>6
    <3>8. r = [now |-> r.now, open |-> open]
      BY <3>6, <3>7
    <3> QED
      BY <3>1, <3>2, <3>7, <3>8
  <2>2. CASE ~Separated(f)
    <3>1. s = text
      <4>1. text \o << >> = text
        BY <1>1 DEF Texts
      <4> QED
        BY <1>4, <2>2, <4>1 DEF SepVal
    <3>2. r = [now |-> LastRead(f), open |-> open]
      BY <1>1, <1>5, <3>1
    <3>3. LastRead(f) \in {"line", "open"} /\ (f.kind = "table" <=> LastRead(f) = "line")
      BY <1>2, <2>2 DEF LastRead, Separated
    <3> QED
      BY <1>1, <3>1, <3>2, <3>3
  <2> QED
    BY <2>1, <2>2
<1>7. CASE f.kind = "array"
  <2>1. text \o KeyedPrefix(f) = s
    <3>1. SepVal(f) \in Texts
      BY SepIs
    <3>2. SepVal(f) \o << >> = SepVal(f)
      BY <3>1 DEF Texts
    <3> QED
      BY <1>4, <1>7, <3>2 DEF KeyedPrefix
  <2>2. Inside(r) = "[" /\ r.now \in {"comma", "open"}
    BY <1>3, <1>6, <1>7 DEF InsideOf
  <2>3. Value \subseteq MayFollow(r)
    BY <2>2, Following
  <2> QED
    BY <1>1, <1>3, <1>5, <1>6, <2>1, <2>3 DEF Ready
<1>8. CASE f.kind # "array"
  <2>1. key \in Key
    BY <1>8 DEF PrefixStatus, Keys
  <2>2. PICK t \in TokenType : t = Token("key", <<key>>) /\ t.tok = "key"
    <3>1. <<key>> \in Seq(Key) /\ "key" \in Toks
      BY <2>1 DEF Toks
    <3>2. Token("key", <<key>>) \in TokenType /\ Token("key", <<key>>).tok = "key"
      BY <3>1, TokenIs
    <3> QED
      BY <3>2
  <2>3. text \o KeyedPrefix(f) = s \o <<t>>
    <3>1. SepVal(f) \in Texts
      BY SepIs
    <3>2. PICK v \in Texts : v = SepVal(f)
      BY <3>1
    <3>3. KeyedPrefix(f) = v \o <<t>>
      BY <1>8, <2>2, <3>2 DEF KeyedPrefix
    <3>4. PICK w \in Texts : w = <<t>>
      <4>1. <<t>> \in Texts
        BY DEF Texts
      <4> QED
        BY <4>1
    <3>5. Joins(text, v, w)
      BY <1>1, TextsJoin
    <3> QED
      BY <1>4, <3>2, <3>3, <3>4, <3>5 DEF Joins
  <2>4. s \o <<t>> \in Texts /\ Reading(s \o <<t>>) = ReadToken(r, "key")
    BY <1>5, <1>6, <2>2, ReadOne
  <2>5. Inside(r) # "["
    BY <1>2, <1>3, <1>6, <1>8 DEF InsideOf
  <2>6. "key" \in MayFollow(r)
    BY <1>6, <2>5, Following
  <2>7. ReadToken(r, "key") = [now |-> "key", open |-> open]
    BY <1>6, <2>6, Reads1
  <2>8. Value \subseteq MayFollow(ReadToken(r, "key"))
    <3>1. PICK q : q = ReadToken(r, "key") /\ q.now = "key"
      BY <2>7
    <3>2. MayFollow(q) = Value
      BY <3>1, Following
    <3> QED
      BY <3>1, <3>2
  <2> QED
    BY <1>1, <1>3, <2>3, <2>4, <2>7, <2>8 DEF Ready
<1> QED
  BY <1>7, <1>8

\* A text after a value.
Done(text, f, open) ==
  /\ text \in Texts /\ open \in Seq(Brackets) /\ Reading(text) = [now |-> "value", open |-> open]
  /\ Inside(Reading(text)) = InsideOf(f.kind)

\* Only the open brackets tell where a reader is.
LEMMA InsideOpen ==
  ASSUME NEW r, NEW q, r.open = q.open PROVE Inside(r) = Inside(q)
  BY DEF Inside

\* A scalar where a value may come.
LEMMA ScalarReads ==
  ASSUME NEW s, NEW f, NEW open, Ready(s, f, open)
  PROVE  Done(s \o Mark("scalar"), f, open)
<1>1. PICK r : r = Reading(s)
  OBVIOUS
<1>2. s \in Texts /\ open \in Seq(Brackets) /\ r.open = open /\ "scalar" \in MayFollow(r)
      /\ Inside(r) = InsideOf(f.kind)
  BY <1>1 DEF Ready, Value
<1>3. s \o Mark("scalar") \in Texts /\ Reading(s \o Mark("scalar")) = ReadToken(r, "scalar")
  BY <1>1, <1>2, ReadMark DEF Toks
<1>4. ReadToken(r, "scalar") = [now |-> "value", open |-> open]
  BY <1>2, Reads1
<1>5. Inside(ReadToken(r, "scalar")) = Inside(r)
  <2>1. ReadToken(r, "scalar").open = r.open
    BY <1>2, <1>4
  <2> QED
    BY <2>1, InsideOpen
<1> QED
  BY <1>2, <1>3, <1>4, <1>5 DEF Done

\* A bracket opens.
LEMMA OpenReads ==
  ASSUME NEW s, NEW f, NEW open, Ready(s, f, open), NEW b \in Brackets
  PROVE  /\ s \o Mark(b) \in Texts /\ Append(open, b) \in Seq(Brackets)
         /\ Reading(s \o Mark(b)) = [now |-> "open", open |-> Append(open, b)]
         /\ Inside(Reading(s \o Mark(b))) = b
<1>1. PICK r : r = Reading(s)
  OBVIOUS
<1>2. s \in Texts /\ open \in Seq(Brackets) /\ r.open = open /\ "[" \in MayFollow(r) /\ "{" \in MayFollow(r)
  BY <1>1 DEF Ready, Value
<1>3. s \o Mark(b) \in Texts /\ Reading(s \o Mark(b)) = ReadToken(r, b)
  <2>1. b \in Toks
    BY DEF Brackets, Toks
  <2> QED
    BY <1>1, <1>2, <2>1, ReadMark
<1>4. ReadToken(r, b) = [now |-> "open", open |-> Append(open, b)]
  <2>1. CASE b = "["
    BY <1>2, <2>1, Reads1
  <2>2. CASE b = "{"
    BY <1>2, <2>2, Reads1
  <2> QED
    BY <2>1, <2>2 DEF Brackets
<1>5. PICK o : o = Append(open, b)
  OBVIOUS
<1>6. o \in Seq(Brackets) /\ o # << >> /\ o[Len(o)] = b
  <2>0. open \in Seq(Brackets)
    BY DEF Ready
  <2>1. PICK L \in Nat : L = Len(open)
    BY <2>0
  <2>2. Append(open, b) \in Seq(Brackets) /\ Len(Append(open, b)) = L + 1 /\ Append(open, b)[L + 1] = b
    BY <2>0, <2>1
  <2> QED
    BY <1>5, <2>1, <2>2
<1>7. Inside(ReadToken(r, b)) = b
  <2>1. PICK q : q = ReadToken(r, b) /\ q.open = o
    BY <1>4, <1>5
  <2> QED
    BY <1>6, <2>1 DEF Inside
<1> QED
  BY <1>3, <1>4, <1>5, <1>6, <1>7

Closer(b) == IF b = "[" THEN "]" ELSE "}"

\* The last open bracket is one.
LEMMA LastBracket ==
  ASSUME NEW o \in Seq(Brackets), o # << >> PROVE o[Len(o)] \in Brackets
<1>1. PICK L \in Nat : L = Len(o) /\ L # 0
  OBVIOUS
<1> QED
  BY <1>1

\* A bracket was opened and is not closed yet.
Opened(s, open) == Reading(s).open = open /\ Reading(s).now \in {"open", "value"}
\* It closes.
LEMMA CloseReads ==
  ASSUME NEW s \in Texts, NEW open \in Seq(Brackets), open # << >>, Opened(s, open),
         NEW c \in {"]", "}"}, c = Closer(open[Len(open)])
  PROVE  /\ s \o Mark(c) \in Texts
         /\ Reading(s \o Mark(c)) = [now |-> "value", open |-> SubSeq(open, 1, Len(open) - 1)]
<1>1. PICK r : r = Reading(s)
  OBVIOUS
<1>2. PICK b \in Brackets : b = open[Len(open)]
  BY LastBracket
<1>3. r.open = open /\ r.now \in {"open", "value"} /\ Inside(r) = b
  BY <1>1, <1>2 DEF Inside, Opened
<1>4. c \in MayFollow(r)
  <2>1. CASE b = "["
    BY <1>2, <1>3, <2>1, Following DEF Closer
  <2>2. CASE b = "{"
    BY <1>2, <1>3, <2>2, Following DEF Closer
  <2> QED
    BY <2>1, <2>2 DEF Brackets
<1>5. ReadToken(r, c) = [now |-> "value", open |-> SubSeq(open, 1, Len(open) - 1)]
  <2>1. CASE c = "]"
    BY <1>3, <1>4, <2>1, Reads1
  <2>2. CASE c = "}"
    BY <1>3, <1>4, <2>2, Reads1
  <2> QED
    BY <2>1, <2>2
<1>6. s \o Mark(c) \in Texts /\ Reading(s \o Mark(c)) = ReadToken(r, c)
  <2>1. c \in Toks
    BY DEF Toks
  <2> QED
    BY <1>1, <2>1, ReadMark
<1> QED
  BY <1>5, <1>6

\* An empty table or array is a value.
LEMMA EmptyReads ==
  ASSUME NEW s, NEW f, NEW open, Ready(s, f, open), NEW b \in Brackets, NEW c, c = Closer(b)
  PROVE  Done(s \o (Mark(b) \o Mark(c)), f, open)
<1>1. PICK t \in Texts : t = s \o Mark(b)
  BY OpenReads
<1>2. PICK o \in Seq(Brackets) : o = Append(open, b) /\ Reading(t) = [now |-> "open", open |-> o]
  <2>1. Append(open, b) \in Seq(Brackets) /\ Reading(t) = [now |-> "open", open |-> Append(open, b)]
    BY <1>1, OpenReads
  <2> QED
    BY <2>1
<1>3. s \in Texts /\ open \in Seq(Brackets) /\ Inside(Reading(s)) = InsideOf(f.kind) /\ Reading(s).open = open
  BY DEF Ready
<1>4. o # << >> /\ o[Len(o)] = b /\ SubSeq(o, 1, Len(o) - 1) = open
  <2>1. PICK L \in Nat : L = Len(open)
    BY <1>3
  <2>2. Len(o) = L + 1 /\ o[L + 1] = b /\ \A i \in 1 .. L : o[i] = open[i]
    BY <1>2, <1>3, <2>1
  <2>3. SubSeq(o, 1, L) = open
    BY <1>2, <1>3, <2>1, <2>2
  <2> QED
    BY <2>1, <2>2, <2>3
<1>5. c \in {"]", "}"} /\ c \in Toks
  BY DEF Closer, Toks
<1>6. PICK u \in Texts : u = t \o Mark(c) /\ Reading(u) = [now |-> "value", open |-> open]
  <2>1. Reading(t).open = o /\ Reading(t).now \in {"open", "value"}
    BY <1>2
  <2>2. t \o Mark(c) \in Texts
        /\ Reading(t \o Mark(c)) = [now |-> "value", open |-> SubSeq(o, 1, Len(o) - 1)]
    BY <1>4, <1>5, <2>1, CloseReads DEF Opened
  <2> QED
    BY <1>4, <2>2
<1>7. s \o (Mark(b) \o Mark(c)) = u
  <2>1. PICK v \in Texts, w \in Texts : v = Mark(b) /\ w = Mark(c)
    <3>1. b \in Toks
      BY DEF Brackets, Toks
    <3> QED
      BY <1>5, <3>1, MarkIs
  <2>2. Joins(s, v, w)
    BY <1>3, TextsJoin
  <2> QED
    BY <1>1, <1>6, <2>1, <2>2 DEF Joins
<1>8. Inside(Reading(u)) = InsideOf(f.kind)
  <2>1. Reading(u).open = Reading(s).open
    BY <1>3, <1>6
  <2> QED
    BY <1>3, <2>1, InsideOpen
<1> QED
  BY <1>3, <1>6, <1>7, <1>8 DEF Done

\* The line ends if there is one.
LEMMA EndReads ==
  ASSUME NEW f \in FrameType, f.kind # "aot", NEW s, NEW open, Done(s, f, open),
         NEW g, g.kind = f.kind, f.kind # "table" => g.first = TRUE
  PROVE  At(s \o EndLine(f), g, open)
<1>1. PICK r : r = Reading(s)
  OBVIOUS
<1>2. s \in Texts /\ open \in Seq(Brackets) /\ r = [now |-> "value", open |-> open]
      /\ r.now = "value" /\ r.open = open /\ Inside(r) = InsideOf(f.kind)
  BY <1>1 DEF Done
<1>3. CASE f.kind = "table"
  <2>1. EndLine(f) = Mark("nl") /\ "nl" \in Toks
    BY <1>3 DEF EndLine, Toks
  <2>2. s \o Mark("nl") \in Texts /\ Reading(s \o Mark("nl")) = ReadToken(r, "nl")
    BY <1>1, <1>2, <2>1, ReadMark
  <2>3. "nl" \in MayFollow(r)
    BY <1>2, <1>3, Following DEF InsideOf
  <2>4. ReadToken(r, "nl") = [now |-> "line", open |-> open]
    BY <1>2, <2>3, Reads1
  <2>5. LastRead(g) = "line"
    BY <1>3 DEF LastRead
  <2>6. Inside(ReadToken(r, "nl")) = Inside(r)
    <3>1. ReadToken(r, "nl").open = r.open
      BY <1>2, <2>4
    <3> QED
      BY <3>1, InsideOpen
  <2> QED
    BY <1>2, <2>1, <2>2, <2>4, <2>5, <2>6 DEF At
<1>4. CASE f.kind # "table"
  <2>1. EndLine(f) = << >> /\ s \o << >> = s
    BY <1>2, <1>4 DEF EndLine, Texts
  <2>2. LastRead(g) = "value"
    <3>1. f.kind \in {"array", "itab"}
      BY <1>4 DEF FrameType, Kinds
    <3> QED
      BY <1>4, <3>1 DEF LastRead
  <2> QED
    BY <1>1, <1>2, <2>1, <2>2 DEF At
<1> QED
  BY <1>3, <1>4

-------------------------------------------------------------------------------
\* Only the innermost frame is marked, and no mark is taken away.
Touched(fs, gs) ==
  /\ fs \in Frames /\ gs \in Frames /\ Len(gs) = Len(fs) /\ Alike(fs, gs)
  /\ \A i \in 1 .. Len(fs) : fs[i].sub => gs[i].sub
  /\ \A i \in 1 .. Len(fs) - 1 : gs[i] = fs[i]

\* A frame on top.
Pushed(gs, hs, kind, k, node) ==
  /\ gs \in Frames /\ hs \in Frames /\ Len(hs) = Len(gs) + 1
  /\ \A i \in 1 .. Len(gs) : hs[i] = gs[i]
  /\ hs[Len(gs) + 1].kind = kind /\ hs[Len(gs) + 1].key = k /\ hs[Len(gs) + 1].node = node
  /\ hs[Len(gs) + 1].sub = FALSE /\ hs[Len(gs) + 1].first = FALSE

\* A node more.
Grown(d, e, up, k) ==
  /\ d \in Docs /\ e \in Docs /\ Len(e) = Len(d) + 1
  /\ \A i \in 1 .. Len(d) : e[i] = d[i]
  /\ e[Len(d) + 1].up = up /\ e[Len(d) + 1].key = k

WithFrame(fs, H, g) == [fs EXCEPT ![H] = g]

\* One frame in place of another.
LEMMA Replaced ==
  ASSUME NEW fs \in Frames, NEW H \in 1 .. Len(fs), NEW g \in FrameType
  PROVE  /\ WithFrame(fs, H, g) \in Frames /\ Len(WithFrame(fs, H, g)) = Len(fs) /\ WithFrame(fs, H, g)[H] = g
         /\ \A i \in 1 .. Len(fs) : i # H => WithFrame(fs, H, g)[i] = fs[i]
<1>1. PICK L \in Nat : L = Len(fs) /\ DOMAIN fs = 1 .. L
  BY DEF Frames
<1>2. [fs EXCEPT ![H] = g] \in Frames
  BY <1>1 DEF Frames
<1> QED
  BY <1>1, <1>2 DEF Frames, WithFrame

WithFirst(fs) == [fs EXCEPT ![Len(fs)].first = TRUE]

\* The mark of a container that is no longer empty.
LEMMA FirstMarked ==
  ASSUME NEW fs \in Frames, fs # << >>
  PROVE  Touched(fs, WithFirst(fs)) /\ WithFirst(fs)[Len(fs)].first = TRUE /\ WithFirst(fs)[Len(fs)].sub = fs[Len(fs)].sub
<1>1. PICK H \in Nat : H = Len(fs) /\ H # 0 /\ DOMAIN fs = 1 .. H
  BY DEF Frames
<1>2. PICK f \in FrameType : f = fs[H]
  BY <1>1 DEF Frames
<1>3. PICK g : g = [f EXCEPT !.first = TRUE]
  OBVIOUS
<1>4. g \in FrameType /\ g.kind = f.kind /\ g.key = f.key /\ g.node = f.node /\ g.sub = f.sub /\ g.first = TRUE
  BY <1>3 DEF FrameType
<1>5. PICK gs : gs = WithFirst(fs)
  OBVIOUS
<1>6. gs \in Frames /\ Len(gs) = H /\ gs[H] = g /\ \A i \in 1 .. H : i # H => gs[i] = fs[i]
  <2>1. H \in 1 .. Len(fs)
    BY <1>1
  <2>2. PICK x \in Frames : /\ x = WithFrame(fs, H, g) /\ Len(x) = H /\ x[H] = g
                            /\ \A i \in 1 .. H : i # H => x[i] = fs[i]
    <3>1. WithFrame(fs, H, g) \in Frames /\ Len(WithFrame(fs, H, g)) = Len(fs) /\ WithFrame(fs, H, g)[H] = g
          /\ \A i \in 1 .. Len(fs) : i # H => WithFrame(fs, H, g)[i] = fs[i]
      BY <1>4, <2>1, Replaced
    <3> QED
      BY <1>1, <3>1
  <2>3. gs = x
    BY <1>1, <1>2, <1>3, <1>5, <2>2 DEF WithFirst, WithFrame
  <2> QED
    BY <2>2, <2>3
<1> QED
  BY <1>1, <1>2, <1>4, <1>5, <1>6 DEF Touched, Alike

WithSub(fs) == [fs EXCEPT ![Len(fs)].sub = TRUE]

\* The mark of a table whose lines are over.
LEMMA SubMarked ==
  ASSUME NEW fs \in Frames, fs # << >>
  PROVE  Touched(fs, WithSub(fs)) /\ WithSub(fs)[Len(fs)].sub = TRUE
<1>1. PICK H \in Nat : H = Len(fs) /\ H # 0 /\ DOMAIN fs = 1 .. H
  BY DEF Frames
<1>2. PICK f \in FrameType : f = fs[H]
  BY <1>1 DEF Frames
<1>3. PICK g : g = [f EXCEPT !.sub = TRUE]
  OBVIOUS
<1>4. g \in FrameType /\ g.kind = f.kind /\ g.key = f.key /\ g.node = f.node /\ g.sub = TRUE
  BY <1>3 DEF FrameType
<1>5. PICK gs : gs = WithSub(fs)
  OBVIOUS
<1>6. gs \in Frames /\ Len(gs) = H /\ gs[H] = g /\ \A i \in 1 .. H : i # H => gs[i] = fs[i]
  <2>1. H \in 1 .. Len(fs)
    BY <1>1
  <2>2. PICK x \in Frames : /\ x = WithFrame(fs, H, g) /\ Len(x) = H /\ x[H] = g
                            /\ \A i \in 1 .. H : i # H => x[i] = fs[i]
    <3>1. WithFrame(fs, H, g) \in Frames /\ Len(WithFrame(fs, H, g)) = Len(fs) /\ WithFrame(fs, H, g)[H] = g
          /\ \A i \in 1 .. Len(fs) : i # H => WithFrame(fs, H, g)[i] = fs[i]
      BY <1>4, <2>1, Replaced
    <3> QED
      BY <1>1, <3>1
  <2>3. gs = x
    BY <1>1, <1>2, <1>3, <1>5, <2>2 DEF WithSub, WithFrame
  <2> QED
    BY <2>2, <2>3
<1> QED
  BY <1>1, <1>2, <1>4, <1>5, <1>6 DEF Touched, Alike

\* w_push: one frame more, and nothing marked in it.
LEMMA PushIs ==
  ASSUME NEW gs \in Frames, NEW kind \in Kinds, NEW k \in Keys, NEW node \in Nat,
         NEW hs, hs = Append(gs, Frame(kind, k, node))
  PROVE  Pushed(gs, hs, kind, k, node)
<1>1. PICK H \in Nat : H = Len(gs)
  BY DEF Frames
<1>2. PICK g : g = Frame(kind, k, node)
  OBVIOUS
<1>3. g \in FrameType /\ g.kind = kind /\ g.key = k /\ g.node = node /\ g.sub = FALSE /\ g.first = FALSE
  BY <1>2 DEF Frame, FrameType
<1>4. hs \in Frames /\ Len(hs) = H + 1 /\ hs[H + 1] = g /\ \A i \in 1 .. H : hs[i] = gs[i]
  BY <1>1, <1>2, <1>3 DEF Frames
<1> QED
  BY <1>1, <1>3, <1>4 DEF Pushed

\* One node more.
LEMMA GrowIs ==
  ASSUME NEW d \in Docs, NEW n \in NodeType, NEW e, e = Append(d, n)
  PROVE  Grown(d, e, n.up, n.key)
<1>1. PICK D \in Nat : D = Len(d)
  BY DEF Docs
<1>2. e \in Docs /\ Len(e) = D + 1 /\ e[D + 1] = n /\ \A i \in 1 .. D : e[i] = d[i]
  BY <1>1 DEF Docs
<1> QED
  BY <1>1, <1>2 DEF Grown

\* Marks and new nodes leave the way as it is.
LEMMA ChainKept ==
  ASSUME NEW fs, NEW d \in Docs, Chained(fs, d), NEW gs, Touched(fs, gs),
         NEW e, e = d \/ \E up, k : Grown(d, e, up, k)
  PROVE  Chained(gs, e)
<1>1. PICK H \in Nat : H = Len(fs) /\ Len(gs) = H /\ H # 0 /\ DOMAIN fs = 1 .. H
  BY DEF Frames, Touched, Chained
<1>2. PICK D \in Nat : D = Len(d) /\ D # 0
  BY DEF Docs, Chained
<1>3. e \in Docs /\ e # << >> /\ Len(e) \in Nat /\ D <= Len(e) /\ \A i \in 1 .. D : e[i] = d[i]
  <2>1. CASE e = d
    BY <1>2, <2>1 DEF Chained
  <2>2. CASE e # d
    <3>1. PICK up, k : Grown(d, e, up, k)
      BY <2>2
    <3>2. e \in Docs /\ Len(e) = D + 1 /\ \A i \in 1 .. D : e[i] = d[i]
      BY <1>2, <3>1 DEF Grown
    <3> QED
      BY <1>2, <3>2 DEF Docs
  <2> QED
    BY <2>1, <2>2
<1>4. ASSUME NEW i \in 1 .. H
      PROVE  /\ gs[i].kind = fs[i].kind /\ gs[i].key = fs[i].key /\ gs[i].node = fs[i].node
             /\ i <= fs[i].node /\ fs[i].node <= D /\ fs[i].node \in 1 .. D /\ e[fs[i].node] = d[fs[i].node]
  <2>1. fs[i] \in FrameType
    BY <1>1 DEF Touched, Frames
  <2>2. fs[i].node \in Nat
    BY <2>1 DEF FrameType
  <2>3. i <= fs[i].node /\ fs[i].node <= D
    BY <1>1, <1>2 DEF Chained
  <2> QED
    BY <1>1, <1>3, <2>2, <2>3 DEF Touched, Alike
<1>5. gs # << >> /\ gs[1].node = Root /\ e[Root].up = 0
  BY <1>1, <1>2, <1>3, <1>4 DEF Chained, Root
<1>6. \A i \in 1 .. Len(gs) : i <= gs[i].node /\ gs[i].node <= Len(e)
  <2>1. SUFFICES ASSUME NEW i \in 1 .. H PROVE i <= gs[i].node /\ gs[i].node <= Len(e)
    BY <1>1
  <2>2. gs[i].node = fs[i].node /\ i <= fs[i].node /\ fs[i].node \in 1 .. D
    BY <1>4
  <2>3. PICK x \in 1 .. D : x = fs[i].node
    BY <2>2
  <2> QED
    BY <1>3, <2>2, <2>3
<1>7. \A i \in 1 .. Len(gs) - 1 : e[gs[i + 1].node].up = gs[i].node
  <2>1. SUFFICES ASSUME NEW i \in 1 .. H - 1 PROVE e[gs[i + 1].node].up = gs[i].node
    BY <1>1
  <2>2. i \in 1 .. H /\ i + 1 \in 1 .. H
    BY <1>1
  <2>3. d[fs[i + 1].node].up = fs[i].node
    BY <1>1 DEF Chained
  <2> QED
    BY <1>4, <2>2, <2>3
<1>8. \A i \in 1 .. Len(gs) : gs[i].kind \in {"table", "aot"} => e[gs[i].node].key = gs[i].key
  <2>1. SUFFICES ASSUME NEW i \in 1 .. H, gs[i].kind \in {"table", "aot"}
                 PROVE  e[gs[i].node].key = gs[i].key
    BY <1>1
  <2>2. d[fs[i].node].key = fs[i].key
    BY <1>1, <1>4, <2>1 DEF Chained
  <2> QED
    BY <1>4, <2>2
<1> QED
  BY <1>3, <1>5, <1>6, <1>7, <1>8 DEF Chained

\* A new frame for the new node lengthens it.
LEMMA ChainPushed ==
  ASSUME NEW fs, NEW d \in Docs, Chained(fs, d), NEW gs, Touched(fs, gs),
         NEW kind, NEW k, NEW nk, NEW e, Grown(d, e, fs[Len(fs)].node, nk),
         NEW hs, Pushed(gs, hs, kind, k, Len(d) + 1), kind \in {"table", "aot"} => nk = k
  PROVE  Chained(hs, e)
<1>0. Chained(gs, e)
  BY ChainKept
<1>1. PICK H \in Nat : H = Len(gs) /\ Len(fs) = H /\ Len(hs) = H + 1 /\ H # 0
  BY DEF Frames, Pushed, Chained, Touched
<1>2. PICK D \in Nat : D = Len(d) /\ Len(e) = D + 1
  BY DEF Docs, Grown
<1>3. \A i \in 1 .. H : hs[i] = gs[i]
  BY <1>1 DEF Pushed
<1>4. hs[H + 1].kind = kind /\ hs[H + 1].key = k /\ hs[H + 1].node = D + 1
      /\ e[D + 1].up = fs[H].node /\ e[D + 1].key = nk
  BY <1>1, <1>2 DEF Pushed, Grown
<1>5. fs[H].node = gs[H].node
  BY <1>1 DEF Touched, Alike
<1>6. H + 1 <= D + 1
  <2>1. PICK x \in Nat : x = fs[H].node
    <3>1. fs[H] \in FrameType
      BY <1>1 DEF Touched, Frames
    <3> QED
      BY <3>1 DEF FrameType
  <2>2. H <= x /\ x <= D
    BY <1>1, <1>2, <2>1 DEF Chained
  <2> QED
    BY <2>2
<1>7. hs # << >> /\ hs[1].node = Root /\ e # << >> /\ e[Root].up = 0
  BY <1>0, <1>1, <1>3 DEF Chained
<1>8. \A i \in 1 .. H + 1 : i <= hs[i].node /\ hs[i].node <= D + 1
  <2>1. SUFFICES ASSUME NEW i \in 1 .. H + 1 PROVE i <= hs[i].node /\ hs[i].node <= D + 1
    OBVIOUS
  <2>2. CASE i = H + 1
    BY <1>4, <1>6, <2>2
  <2>3. CASE i # H + 1
    <3>1. i \in 1 .. H
      BY <2>3
    <3> QED
      BY <1>0, <1>1, <1>2, <1>3, <3>1 DEF Chained
  <2> QED
    BY <2>2, <2>3
<1>9. ASSUME NEW i \in 1 .. H PROVE e[hs[i + 1].node].up = hs[i].node
  <2>2. CASE i = H
    BY <1>3, <1>4, <1>5, <2>2
  <2>3. CASE i # H
    <3>1. i \in 1 .. H - 1 /\ i + 1 \in 1 .. H
      BY <2>3
    <3> QED
      BY <1>0, <1>1, <1>3, <3>1 DEF Chained
  <2> QED
    BY <2>2, <2>3
<1>10. \A i \in 1 .. H + 1 : hs[i].kind \in {"table", "aot"} => e[hs[i].node].key = hs[i].key
  <2>1. SUFFICES ASSUME NEW i \in 1 .. H + 1, hs[i].kind \in {"table", "aot"}
                 PROVE  e[hs[i].node].key = hs[i].key
    OBVIOUS
  <2>2. CASE i = H + 1
    BY <1>4, <2>1, <2>2
  <2>3. CASE i # H + 1
    <3>1. i \in 1 .. H
      BY <2>3
    <3> QED
      BY <1>0, <1>1, <1>3, <2>1, <3>1 DEF Chained
  <2> QED
    BY <2>2, <2>3
<1>11. \A i \in 1 .. (H + 1) - 1 : e[hs[i + 1].node].up = hs[i].node
  <2>1. (H + 1) - 1 = H
    OBVIOUS
  <2> QED
    BY <1>9, <2>1
<1> QED
  BY <1>1, <1>2, <1>7, <1>8, <1>10, <1>11 DEF Chained

\* Marks leave the layers and the sections as they are.
LEMMA ShapeKept ==
  ASSUME NEW fs, NEW d \in Docs, NEW sec, Shaped(fs, d, sec), NEW gs, Touched(fs, gs),
         NEW e, e = d \/ \E up, k : Grown(d, e, up, k)
  PROVE  Shaped(gs, e, sec)
<1>1. PICK H \in Nat : H = Len(fs) /\ Len(gs) = H /\ H # 0
  BY DEF Frames, Touched, Shaped, Chained
<1>2. Chained(gs, e)
  BY ChainKept DEF Shaped
<1>3. \A i \in 1 .. H : /\ gs[i].kind = fs[i].kind /\ gs[i].node = fs[i].node
                        /\ fs[i].sub => gs[i].sub
  BY <1>1 DEF Touched, Alike
<1>4. Layered(gs) /\ gs[1].kind = "table"
  BY <1>1, <1>3 DEF Shaped, Layered
<1>5. \A i \in 1 .. Len(gs) : gs[i].kind = "table" /\ ~gs[i].sub => sec = gs[i].node
  BY <1>1, <1>3 DEF Shaped, Marked
<1>6. ASSUME NEW i \in 1 .. H - 1, gs[i].kind = "table", gs[i + 1].kind \in {"table", "aot"} PROVE gs[i].sub
  <2>1. i \in 1 .. H /\ i + 1 \in 1 .. H
    BY <1>1
  <2> QED
    BY <1>1, <1>3, <1>6, <2>1 DEF Shaped, Marked
<1> QED
  BY <1>1, <1>2, <1>4, <1>5, <1>6 DEF Shaped, Marked

\* A value is begun.
LEMMA ShapeValue ==
  ASSUME NEW fs, NEW d \in Docs, NEW sec, Shaped(fs, d, sec), NEW gs, Touched(fs, gs),
         NEW kind \in {"array", "itab"}, NEW k, NEW nk, NEW e, Grown(d, e, fs[Len(fs)].node, nk),
         NEW hs, Pushed(gs, hs, kind, k, Len(d) + 1)
  PROVE  Shaped(hs, e, sec)
<1>1. PICK H \in Nat : H = Len(gs) /\ Len(hs) = H + 1 /\ H # 0
  BY DEF Frames, Pushed, Chained, Touched, Shaped
<1>2. Chained(hs, e)
  BY ChainPushed DEF Shaped
<1>3. Shaped(gs, e, sec)
  BY ShapeKept
<1>4. \A i \in 1 .. H : hs[i] = gs[i]
  BY <1>1 DEF Pushed
<1>5. hs[H + 1].kind = kind
  BY <1>1 DEF Pushed
<1>6. Layered(hs)
  <2>1. SUFFICES ASSUME NEW i \in 1 .. H + 1, NEW j \in 1 .. H + 1, i <= j, hs[i].kind \in {"array", "itab"}
                 PROVE  hs[j].kind \in {"array", "itab"}
    BY <1>1 DEF Layered
  <2>2. CASE j = H + 1
    BY <1>5, <2>2
  <2>3. CASE j # H + 1
    <3>1. i \in 1 .. H /\ j \in 1 .. H
      BY <2>1, <2>3
    <3> QED
      BY <1>1, <1>3, <1>4, <2>1, <3>1 DEF Shaped, Layered
  <2> QED
    BY <2>2, <2>3
<1>7. \A i \in 1 .. H + 1 : hs[i].kind = "table" /\ ~hs[i].sub => sec = hs[i].node
  <2>1. SUFFICES ASSUME NEW i \in 1 .. H + 1, hs[i].kind = "table", ~hs[i].sub PROVE sec = hs[i].node
    OBVIOUS
  <2>2. i \in 1 .. H
    BY <1>5, <2>1
  <2> QED
    BY <1>1, <1>3, <1>4, <2>1, <2>2 DEF Shaped, Marked
<1>8. ASSUME NEW i \in 1 .. (H + 1) - 1, hs[i].kind = "table", hs[i + 1].kind \in {"table", "aot"} PROVE hs[i].sub
  <2>1. i # H
    BY <1>5, <1>8
  <2>2. i \in 1 .. H - 1 /\ i \in 1 .. H /\ i + 1 \in 1 .. H
    BY <2>1
  <2> QED
    BY <1>1, <1>3, <1>4, <1>8, <2>2 DEF Shaped, Marked
<1> QED
  BY <1>1, <1>2, <1>3, <1>4, <1>6, <1>7, <1>8 DEF Shaped, Marked

\* A section is begun in a table or an array of tables.
LEMMA ShapeSection ==
  ASSUME NEW fs, NEW d \in Docs, NEW sec, Shaped(fs, d, sec), NEW gs, Touched(fs, gs),
         fs[Len(fs)].kind \in {"table", "aot"}, fs[Len(fs)].kind = "table" => gs[Len(fs)].sub,
         NEW kind \in {"table", "aot"}, NEW k, NEW e, Grown(d, e, fs[Len(fs)].node, k),
         NEW hs, Pushed(gs, hs, kind, k, Len(d) + 1),
         NEW new, kind = "table" => new = Len(d) + 1
  PROVE  Shaped(hs, e, new) /\ Sectional(hs)
<1>1. PICK H \in Nat : H = Len(gs) /\ Len(hs) = H + 1 /\ H # 0 /\ Len(fs) = H
  BY DEF Frames, Pushed, Chained, Touched, Shaped
<1>2. Chained(hs, e)
  BY ChainPushed DEF Shaped
<1>3. Shaped(gs, e, sec)
  BY ShapeKept
<1>4. \A i \in 1 .. H : hs[i] = gs[i]
  BY <1>1 DEF Pushed
<1>5. hs[H + 1].kind = kind /\ hs[H + 1].node = Len(d) + 1
  BY <1>1 DEF Pushed
<1>6. gs[H].kind \in {"table", "aot"} /\ (gs[H].kind = "table" => gs[H].sub)
  BY <1>1 DEF Touched, Alike
<1>7. ASSUME NEW i \in 1 .. H PROVE gs[i].kind \in {"table", "aot"}
  <2>1. gs[i].kind \in Kinds
    <3>1. gs[i] \in FrameType
      BY <1>1 DEF Touched, Frames
    <3> QED
      BY <3>1 DEF FrameType
  <2>2. gs[i].kind \in {"array", "itab"} => gs[H].kind \in {"array", "itab"}
    BY <1>1, <1>3 DEF Shaped, Layered
  <2> QED
    BY <1>6, <2>1, <2>2 DEF Kinds
<1>8. \A i \in 1 .. H + 1 : hs[i].kind \in {"table", "aot"}
  <2>1. SUFFICES ASSUME NEW i \in 1 .. H + 1 PROVE hs[i].kind \in {"table", "aot"}
    OBVIOUS
  <2>2. CASE i = H + 1
    BY <1>5, <2>2
  <2>3. CASE i # H + 1
    <3>1. i \in 1 .. H
      BY <2>3
    <3> QED
      BY <1>4, <1>7, <3>1
  <2> QED
    BY <2>2, <2>3
<1>9. ASSUME NEW i \in 1 .. H, hs[i].kind = "table" PROVE hs[i].sub
  <2>1. CASE i = H
    BY <1>4, <1>6, <1>9, <2>1
  <2>2. CASE i # H
    <3>1. i \in 1 .. H - 1 /\ i + 1 \in 1 .. H
      BY <2>2
    <3>2. gs[i + 1].kind \in {"table", "aot"} /\ gs[i].kind = "table"
      BY <1>4, <1>7, <1>9, <3>1
    <3>3. gs[i].sub
      BY <1>1, <1>3, <3>1, <3>2 DEF Shaped, Marked
    <3> QED
      BY <1>4, <3>3
  <2> QED
    BY <2>1, <2>2
<1>10. ASSUME NEW i \in 1 .. H + 1, hs[i].kind = "table", ~hs[i].sub PROVE new = hs[i].node
  <2>1. i = H + 1
    BY <1>9, <1>10
  <2> QED
    BY <1>5, <1>10, <2>1
<1>11. hs[1].kind = "table"
  BY <1>1, <1>3, <1>4 DEF Shaped
<1>12. Layered(hs) /\ Sectional(hs)
  BY <1>1, <1>8 DEF Layered, Sectional
<1>13. Marked(hs, new)
  BY <1>1, <1>9, <1>10 DEF Marked
<1> QED
  BY <1>2, <1>11, <1>12, <1>13 DEF Shaped

\* The innermost frame is closed.
Popped(fs) == SubSeq(fs, 1, Len(fs) - 1)

\* What is left is still the way to a node.
LEMMA ShapeClosed ==
  ASSUME NEW fs \in Frames, NEW d, NEW sec, Shaped(fs, d, sec), Len(fs) # 1
  PROVE  /\ Shaped(Popped(fs), d, sec) /\ Popped(fs) \in Frames /\ Len(Popped(fs)) = Len(fs) - 1
         /\ \A i \in 1 .. Len(fs) - 1 : Popped(fs)[i] = fs[i]
<1>1. PICK H \in Nat : Len(fs) = H + 1 /\ H # 0
  <2>0. fs # << >>
    BY DEF Shaped, Chained
  <2>1. PICK L \in Nat : Len(fs) = L /\ L # 0 /\ L # 1
    BY <2>0 DEF Frames
  <2>2. L - 1 \in Nat /\ L - 1 # 0 /\ L = (L - 1) + 1
    BY <2>1
  <2> QED
    BY <2>1, <2>2
<1>2. PICK hs \in Frames : hs = Popped(fs) /\ Len(hs) = H /\ \A i \in 1 .. H : hs[i] = fs[i]
  <2>1. SubSeq(fs, 1, H) \in Frames /\ Len(SubSeq(fs, 1, H)) = H
        /\ \A i \in 1 .. H : SubSeq(fs, 1, H)[i] = fs[i]
    BY <1>1 DEF Frames
  <2>2. Popped(fs) = SubSeq(fs, 1, H)
    BY <1>1 DEF Popped
  <2> QED
    BY <2>1, <2>2
<1>3. Chained(hs, d)
  <2>1. Chained(fs, d)
    BY DEF Shaped
  <2>2. hs # << >> /\ hs[1].node = Root /\ d # << >> /\ d[Root].up = 0
    BY <1>1, <1>2, <2>1 DEF Chained
  <2>3. \A i \in 1 .. H : i <= hs[i].node /\ hs[i].node <= Len(d)
    BY <1>1, <1>2, <2>1 DEF Chained
  <2>4. \A i \in 1 .. H - 1 : d[hs[i + 1].node].up = hs[i].node
    BY <1>1, <1>2, <2>1 DEF Chained
  <2>5. \A i \in 1 .. H : hs[i].kind \in {"table", "aot"} => d[hs[i].node].key = hs[i].key
    BY <1>1, <1>2, <2>1 DEF Chained
  <2> QED
    BY <1>2, <2>2, <2>3, <2>4, <2>5 DEF Chained
<1>4. Layered(hs) /\ Marked(hs, sec) /\ hs[1].kind = "table"
  BY <1>1, <1>2 DEF Shaped, Layered, Marked
<1> QED
  BY <1>1, <1>2, <1>3, <1>4 DEF Shaped

-------------------------------------------------------------------------------
\* Where the frames end tells what is open.
LEMMA TopInside ==
  ASSUME NEW fs \in Frames, fs # << >>, NEW h, NEW open, Mirrors(fs, h, open), NEW r, r.open = open
  PROVE  /\ Inside(r) = InsideOf(fs[Len(fs)].kind)
         /\ fs[Len(fs)].kind \in {"table", "aot"} => h = Len(fs)
         /\ fs[Len(fs)].kind \in {"array", "itab"} =>
              /\ h < Len(fs) /\ open # << >> /\ open[Len(open)] = Bracket(fs[Len(fs)].kind)
<1>1. PICK H \in Nat : H = Len(fs) /\ H # 0
  BY DEF Frames
<1>2. PICK m \in Nat : m = H - h /\ h \in Nat /\ h <= H /\ H = h + m
  <2>1. h \in 1 .. H
    BY <1>1 DEF Mirrors
  <2>2. h \in Nat /\ h <= H
    BY <1>1, <2>1
  <2>3. H - h \in Nat /\ H = h + (H - h)
    BY <1>1, <2>2
  <2> QED
    BY <2>2, <2>3
<1>3. open \in Seq(Brackets) /\ Len(open) = m
  BY <1>1, <1>2 DEF Mirrors
<1>4. CASE m = 0
  <2>0. open = << >>
    BY <1>3, <1>4
  <2>1. h = H /\ H \in 1 .. h
    BY <1>1, <1>2, <1>4
  <2>2. fs[H].kind \in {"table", "aot"}
    BY <2>1 DEF Mirrors
  <2>3. Inside(r) = "line"
    BY <2>0 DEF Inside
  <2>4. Inside(r) = InsideOf(fs[H].kind)
    BY <2>2, <2>3 DEF InsideOf
  <2>5. ~(fs[H].kind \in {"array", "itab"})
    BY <2>2
  <2> QED
    BY <1>1, <2>1, <2>4, <2>5
<1>5. CASE m # 0
  <2>1. m \in 1 .. Len(fs) - h /\ h + m = H
    BY <1>1, <1>2, <1>5
  <2>2. fs[H].kind \in {"array", "itab"} /\ open[m] = Bracket(fs[H].kind)
    BY <2>1 DEF Mirrors
  <2>3. open # << >>
    BY <1>3, <1>5
  <2>4. Inside(r) = Bracket(fs[H].kind)
    BY <1>3, <2>2, <2>3 DEF Inside
  <2>5. Inside(r) = InsideOf(fs[H].kind)
    BY <2>2, <2>4 DEF Bracket, InsideOf
  <2> QED
    BY <1>1, <1>2, <1>3, <1>5, <2>2, <2>3, <2>5
<1> QED
  BY <1>4, <1>5

\* Marks change no bracket.
LEMMA MirrorsKept ==
  ASSUME NEW fs, NEW h, NEW open, Mirrors(fs, h, open), NEW gs, Touched(fs, gs)
  PROVE  Mirrors(gs, h, open)
<1>1. PICK H \in Nat : H = Len(fs) /\ Len(gs) = H
  BY DEF Touched, Frames
<1>2. h \in 1 .. H
  BY <1>1 DEF Mirrors
<1>3. \A i \in 1 .. H : gs[i].kind = fs[i].kind
  BY <1>1 DEF Touched, Alike
<1>4. \A i \in 1 .. h : gs[i].kind \in {"table", "aot"}
  <2>1. \A i \in 1 .. h : i \in 1 .. H /\ fs[i].kind \in {"table", "aot"}
    BY <1>1, <1>2 DEF Mirrors
  <2> QED
    BY <1>3, <2>1
<1>5. h < H => gs[h].kind = "table"
  BY <1>1, <1>2, <1>3 DEF Mirrors
<1>6. ASSUME NEW i \in 1 .. H - h
      PROVE  gs[h + i].kind \in {"array", "itab"} /\ open[i] = Bracket(gs[h + i].kind)
  <2>1. h + i \in 1 .. H
    BY <1>2
  <2> QED
    BY <1>1, <1>3, <2>1 DEF Mirrors
<1>7. \A i \in 1 .. H - 1 : i > h => gs[i].first
  BY <1>1 DEF Mirrors, Touched
<1>8. open \in Seq(Brackets) /\ Len(open) = H - h
  BY <1>1 DEF Mirrors
<1> QED
  BY <1>1, <1>2, <1>4, <1>5, <1>6, <1>7, <1>8 DEF Mirrors

\* A value more, and a bracket.
LEMMA MirrorsValue ==
  ASSUME NEW gs, NEW h, NEW open, Mirrors(gs, h, open), gs[Len(gs)].kind # "aot", gs[Len(gs)].first,
         NEW kind \in {"array", "itab"}, NEW k, NEW node, NEW hs, Pushed(gs, hs, kind, k, node)
  PROVE  Mirrors(hs, h, Append(open, Bracket(kind)))
<1>1. PICK H \in Nat : H = Len(gs) /\ Len(hs) = H + 1
  BY DEF Pushed, Frames
<1>2. h \in 1 .. H /\ h \in 1 .. H + 1
  BY <1>1 DEF Mirrors
<1>3. (\A i \in 1 .. H : hs[i] = gs[i]) /\ hs[H + 1].kind = kind
  BY <1>1 DEF Pushed
<1>4. PICK m \in Nat : m = H - h /\ H = h + m
  BY <1>2
<1>5. open \in Seq(Brackets) /\ Len(open) = m
  BY <1>1, <1>4 DEF Mirrors
<1>6. PICK o \in Seq(Brackets) : /\ o = Append(open, Bracket(kind)) /\ Len(o) = m + 1 /\ o[m + 1] = Bracket(kind)
                               /\ \A i \in 1 .. m : o[i] = open[i]
  <2>1. PICK b \in Brackets : b = Bracket(kind)
    BY DEF Bracket, Brackets
  <2>2. Append(open, b) \in Seq(Brackets) /\ Len(Append(open, b)) = m + 1 /\ Append(open, b)[m + 1] = b
        /\ \A i \in 1 .. m : Append(open, b)[i] = open[i]
    BY <1>5
  <2> QED
    BY <2>1, <2>2
<1>7. \A i \in 1 .. h : hs[i].kind \in {"table", "aot"}
  <2>1. \A i \in 1 .. h : i \in 1 .. H /\ gs[i].kind \in {"table", "aot"}
    BY <1>1, <1>2 DEF Mirrors
  <2> QED
    BY <1>3, <2>1
<1>8. hs[h].kind = "table"
  <2>1. gs[h].kind \in {"table", "aot"} /\ (h < H => gs[h].kind = "table")
    BY <1>1, <1>2 DEF Mirrors
  <2>2. h = H => gs[h].kind # "aot"
    BY <1>1
  <2> QED
    BY <1>2, <1>3, <2>1, <2>2
<1>9. ASSUME NEW i \in 1 .. (H + 1) - h
      PROVE  hs[h + i].kind \in {"array", "itab"} /\ o[i] = Bracket(hs[h + i].kind)
  <2>1. CASE i = m + 1
    <3>1. h + i = H + 1
      BY <1>2, <1>4, <2>1
    <3> QED
      BY <1>3, <1>6, <2>1, <3>1
  <2>2. CASE i # m + 1
    <3>1. i \in 1 .. m /\ i \in 1 .. H - h /\ h + i \in 1 .. H
      BY <1>2, <1>4, <2>2
    <3>2. gs[h + i].kind \in {"array", "itab"} /\ open[i] = Bracket(gs[h + i].kind)
      BY <1>1, <3>1 DEF Mirrors
    <3> QED
      BY <1>3, <1>6, <3>1, <3>2
  <2> QED
    BY <2>1, <2>2
<1>10. ASSUME NEW i \in 1 .. (H + 1) - 1, i > h PROVE hs[i].first
  <2>1. CASE i = H
    BY <1>1, <1>3, <2>1
  <2>2. CASE i # H
    <3>1. i \in 1 .. H - 1 /\ i \in 1 .. H
      BY <2>2
    <3>2. gs[i].first
      BY <1>1, <1>10, <3>1 DEF Mirrors
    <3> QED
      BY <1>3, <3>1, <3>2
  <2> QED
    BY <2>1, <2>2
<1>11. Len(o) = (H + 1) - h
  BY <1>2, <1>4, <1>6
<1> QED
  BY <1>1, <1>2, <1>6, <1>7, <1>8, <1>9, <1>10, <1>11 DEF Mirrors

\* Outside values no bracket is open.
LEMMA MirrorsSections ==
  ASSUME NEW hs \in Frames, hs # << >>, Sectional(hs)
  PROVE  Mirrors(hs, Len(hs), << >>)
<1>1. PICK H \in Nat : H = Len(hs) /\ H # 0
  BY DEF Frames
<1>2. << >> \in Seq(Brackets) /\ Len(<< >>) = H - H /\ H \in 1 .. H /\ ~(H < H)
  BY <1>1
<1>3. \A i \in 1 .. H : hs[i].kind \in {"table", "aot"}
  BY <1>1 DEF Sectional
<1>4. \A i \in 1 .. H - H : FALSE
  BY <1>1
<1>5. \A i \in 1 .. H - 1 : ~(i > H)
  BY <1>1
<1> QED
  BY <1>1, <1>2, <1>3, <1>4, <1>5 DEF Mirrors

\* A value is closed, and its bracket.
LEMMA MirrorsClosed ==
  ASSUME NEW fs \in Frames, NEW h, NEW open, Mirrors(fs, h, open), h < Len(fs),
         NEW hs \in Frames, Len(hs) = Len(fs) - 1, \A i \in 1 .. Len(fs) - 1 : hs[i] = fs[i]
  PROVE  Mirrors(hs, h, SubSeq(open, 1, Len(open) - 1))
<1>1. PICK H \in Nat : Len(hs) = H /\ Len(fs) = H + 1
  BY DEF Frames
<1>2. h \in 1 .. H /\ h \in Nat
  BY <1>1 DEF Mirrors
<1>3. PICK m \in Nat : m = H - h /\ H = h + m
  BY <1>2
<1>4. open \in Seq(Brackets) /\ Len(open) = m + 1
  BY <1>1, <1>2, <1>3 DEF Mirrors
<1>5. PICK o \in Seq(Brackets) : o = SubSeq(open, 1, Len(open) - 1) /\ Len(o) = m /\ \A i \in 1 .. m : o[i] = open[i]
  <2>1. SubSeq(open, 1, m) \in Seq(Brackets) /\ Len(SubSeq(open, 1, m)) = m
        /\ \A i \in 1 .. m : SubSeq(open, 1, m)[i] = open[i]
    BY <1>4
  <2>2. Len(open) - 1 = m
    BY <1>4
  <2>3. SubSeq(open, 1, Len(open) - 1) = SubSeq(open, 1, m)
    BY <2>2
  <2> QED
    BY <2>1, <2>3
<1>6. \A i \in 1 .. H : hs[i] = fs[i]
  BY <1>1
<1>7. \A i \in 1 .. h : hs[i].kind \in {"table", "aot"}
  <2>1. \A i \in 1 .. h : i \in 1 .. H /\ fs[i].kind \in {"table", "aot"}
    BY <1>2 DEF Mirrors
  <2> QED
    BY <1>6, <2>1
<1>8. hs[h].kind = "table"
  BY <1>2, <1>6 DEF Mirrors
<1>9. ASSUME NEW i \in 1 .. H - h
      PROVE  hs[h + i].kind \in {"array", "itab"} /\ o[i] = Bracket(hs[h + i].kind)
  <2>1. i \in 1 .. m /\ i \in 1 .. (H + 1) - h /\ h + i \in 1 .. H
    BY <1>2, <1>3
  <2>2. fs[h + i].kind \in {"array", "itab"} /\ open[i] = Bracket(fs[h + i].kind)
    BY <1>1, <2>1 DEF Mirrors
  <2> QED
    BY <1>5, <1>6, <2>1, <2>2
<1>10. ASSUME NEW i \in 1 .. H - 1, i > h PROVE hs[i].first
  <2>1. i \in 1 .. (H + 1) - 1 /\ i \in 1 .. H
    BY <1>10
  <2> QED
    BY <1>1, <1>6, <1>10, <2>1 DEF Mirrors
<1> QED
  BY <1>1, <1>2, <1>3, <1>5, <1>7, <1>8, <1>9, <1>10 DEF Mirrors

-------------------------------------------------------------------------------
\* The frame that is open.
LEMMA TopIs ==
  ASSUME WInv
  PROVE  /\ Here \in Nat /\ Here # 0 /\ Top \in FrameType /\ Top.kind \in Kinds /\ Top.node \in Nat
         /\ Top.first \in BOOLEAN /\ Top.sub \in BOOLEAN /\ Top.key \in Keys /\ Top = frames[Len(frames)]
<1>0. PICK fs \in Frames : fs = frames /\ fs # << >>
  BY DEF WInv, WTyped
<1>1. PICK H \in Nat : H = Len(fs) /\ H # 0
  BY <1>0 DEF Frames
<1>2. fs[H] \in FrameType
  BY <1>1 DEF Frames
<1>3. PICK f \in FrameType : f = Top
  BY <1>0, <1>1, <1>2 DEF Top, Here
<1>4. f.kind \in Kinds /\ f.node \in Nat /\ f.first \in BOOLEAN /\ f.sub \in BOOLEAN /\ f.key \in Keys
  BY DEF FrameType
<1> QED
  BY <1>0, <1>1, <1>3, <1>4 DEF Top, Here

\* What a text begins with.
LEMMA HeadOf ==
  ASSUME NEW v \in Texts, NEW w \in Texts
  PROVE  /\ v \o w \in Texts /\ Len(v \o w) = Len(v) + Len(w)
         /\ Len(v) # 0 => (v \o w)[1] = v[1]
         /\ Len(v) = 0 => v \o w = w
<1>1. PICK n \in Nat, m \in Nat : n = Len(v) /\ m = Len(w)
  BY DEF Texts
<1>2. v \o w \in Texts /\ Len(v \o w) = n + m
  BY <1>1 DEF Texts
<1>3. CASE n # 0
  <2>1. 1 \in 1 .. n
    BY <1>3
  <2> QED
    BY <1>1, <1>2, <1>3, <2>1 DEF Texts
<1>4. CASE n = 0
  <2>1. v = << >>
    BY <1>1, <1>4, EmptySeq DEF Texts
  <2>2. << >> \o w = w
    BY DEF Texts
  <2> QED
    BY <1>1, <1>2, <1>4, <2>1, <2>2
<1> QED
  BY <1>3, <1>4

FirstTok(text) == text[1].tok
Starters == {",", "key"}

\* What is written is made of tokens.
LEMMA PrefixIs ==
  ASSUME NEW f, f.kind \in Kinds, key \in Keys, PrefixStatus(f) = "OK"
  PROVE  /\ KeyedPrefix(f) \in Texts
         /\ Len(KeyedPrefix(f)) # 0 => FirstTok(KeyedPrefix(f)) \in Starters
<1>1. PICK v \in Texts : v = SepVal(f)
  BY SepIs
<1>2. v = << >> \/ (Len(v) = 1 /\ FirstTok(v) \in Starters)
  BY <1>1, MarkIs DEF SepVal, Toks, FirstTok, Starters
<1>3. CASE f.kind = "array"
  <2>1. v \o << >> = v
    BY DEF Texts
  <2>2. KeyedPrefix(f) = v
    BY <1>1, <1>3, <2>1 DEF KeyedPrefix
  <2> QED
    BY <1>2, <2>2
<1>4. CASE f.kind # "array"
  <2>1. key \in Key
    BY <1>4 DEF PrefixStatus, Keys
  <2>2. PICK t \in TokenType : t = Token("key", <<key>>) /\ t.tok = "key"
    <3>1. <<key>> \in Seq(Key) /\ "key" \in Toks
      BY <2>1 DEF Toks
    <3>2. Token("key", <<key>>) \in TokenType /\ Token("key", <<key>>).tok = "key"
      BY <3>1, TokenIs
    <3> QED
      BY <3>2
  <2>3. KeyedPrefix(f) = v \o <<t>>
    BY <1>1, <1>4, <2>2 DEF KeyedPrefix
  <2>4. v \o <<t>> \in Texts
    BY DEF Texts
  <2>5. FirstTok(v \o <<t>>) \in Starters
    <3>1. CASE v = << >>
      <4>1. (<< >> \o <<t>>)[1] = t
        OBVIOUS
      <4> QED
        BY <2>2, <3>1, <4>1 DEF FirstTok, Starters
    <3>2. CASE Len(v) = 1 /\ FirstTok(v) \in Starters
      <4>1. PICK w \in Texts : w = <<t>>
        <5>1. <<t>> \in Texts
          BY DEF Texts
        <5> QED
          BY <5>1
      <4>2. Len(v) # 0
        BY <3>2 DEF Texts
      <4>3. (v \o w)[1] = v[1]
        BY <4>2, HeadOf
      <4> QED
        BY <3>2, <4>1, <4>3 DEF FirstTok, Starters
    <3> QED
      BY <1>2, <3>1, <3>2
  <2> QED
    BY <2>3, <2>4, <2>5
<1> QED
  BY <1>3, <1>4

\* The end of a line is a text.
LEMMA EndIs ==
  ASSUME NEW f PROVE EndLine(f) \in Texts
<1>1. Mark("nl") \in Texts
  BY MarkIs DEF Toks
<1>2. << >> \in Texts
  BY DEF Texts
<1> QED
  BY <1>1, <1>2 DEF EndLine

\* A node is described in the container that is open.
LEMMA DescribedIs ==
  ASSUME WInv, NEW kind \in {"table", "array", "scalar"},
         NEW flag \in {"explicit", "none", "inline", "plain", "aot"}, Described(kind, flag)
  PROVE  doc' \in Docs /\ Grown(doc, doc', Top.node, IF Keyless THEN NoKey ELSE key)
<1>1. PICK n : n = [kind |-> kind, flag |-> flag, up |-> Top.node, key |-> IF Keyless THEN NoKey ELSE key]
  OBVIOUS
<1>2. (IF Keyless THEN NoKey ELSE key) \in Keys
  BY DEF WInv, WTyped, Keys
<1>3. n \in NodeType /\ n.up = Top.node /\ n.key = IF Keyless THEN NoKey ELSE key
  BY <1>1, <1>2, TopIs DEF NodeType
<1>4. PICK d \in Docs : d = doc
  BY DEF WInv, WTyped
<1>5. PICK e : e = doc'
  OBVIOUS
<1>6. e = Append(d, n)
  BY <1>1, <1>4, <1>5 DEF Described
<1>7. Grown(d, e, n.up, n.key)
  BY <1>3, <1>6, GrowIs
<1> QED
  BY <1>3, <1>4, <1>5, <1>7 DEF Grown

\* A text that ends where the frames do.
LEMMA GramAt ==
  ASSUME NEW fs \in Frames, fs # << >>, NEW text \in Texts, Grammatical(fs, text)
  PROVE  \E h, open : Mirrors(fs, h, open) /\ At(text, fs[Len(fs)], open)
<1>1. PICK h : Mirrors(fs, h, Reading(text).open) /\ Reading(text).now = LastRead(fs[Len(fs)])
  BY DEF Grammatical
<1>2. PICK r \in Readings : r = Reading(text)
  <2>1. << >> \in Seq(Key) /\ "nl" \in Toks
    BY DEF Toks
  <2>2. Token("nl", << >>) \in TokenType
    BY <2>1, TokenIs
  <2> QED
    BY <2>2, ReadingAppend
<1>3. PICK open : open = r.open
  OBVIOUS
<1>4. r = [now |-> LastRead(fs[Len(fs)]), open |-> open]
  BY <1>1, <1>2, <1>3 DEF Readings
<1>5. open \in Seq(Brackets)
  BY <1>3 DEF Readings
<1>6. Mirrors(fs, h, open)
  BY <1>1, <1>2, <1>3
<1>7. Inside(r) = InsideOf(fs[Len(fs)].kind)
  BY <1>3, <1>6, TopInside
<1> QED
  BY <1>2, <1>4, <1>5, <1>6, <1>7 DEF At

\* And the other way round.
LEMMA AtGram ==
  ASSUME NEW fs, NEW text, NEW h, NEW open, Mirrors(fs, h, open), At(text, fs[Len(fs)], open)
  PROVE  Grammatical(fs, text)
<1>1. Reading(text) = [now |-> LastRead(fs[Len(fs)]), open |-> open]
  BY DEF At
<1>2. Reading(text).open = open /\ Reading(text).now = LastRead(fs[Len(fs)])
  BY <1>1
<1>3. h \in 1 .. Len(fs)
  BY DEF Mirrors
<1> QED
  BY <1>2, <1>3 DEF Grammatical

\* A refused operation.
LEMMA RefuseKeeps ==
  ASSUME WInv, NEW code \in {"ARG", "STATE", "ALLOC"}, Refuse(code)
  PROVE  WInv'
  BY DEF WInv, WTyped, Refuse

\* What is written in place of a value.
ValueTokens(tokens) ==
  tokens \in Texts /\ \A s, f, open : Ready(s, f, open) => Done(s \o tokens, f, open)

\* A value is written at once: scalars, empty tables and empty arrays.
LEMMA PutKeeps ==
  ASSUME WInv, NEW kind \in {"table", "array", "scalar"},
         NEW flag \in {"explicit", "none", "inline", "plain", "aot"},
         NEW tokens, ValueTokens(tokens), Put(kind, flag, tokens)
  PROVE  WInv'
<1>1. CASE PrefixStatus(Top) # "OK"
  <2>1. PrefixStatus(Top) \in {"OK", "ARG", "STATE"}
    BY DEF PrefixStatus
  <2>2. PICK code \in {"ARG", "STATE", "ALLOC"} : Refuse(code)
    BY <1>1, <2>1 DEF Put
  <2> QED
    BY <2>2, RefuseKeeps
<1>2. CASE PrefixStatus(Top) = "OK"
  <2>1. /\ Described(kind, flag) /\ out' = out \o KeyedPrefix(Top) \o tokens \o EndLine(Top)
        /\ key' = KeyAfter(Top) /\ frames' = Begun /\ Slip(Stray) /\ ~finished
        /\ UNCHANGED <<lost, st, finished, section>>
    BY <1>2 DEF Put, Fed
  <2>2. doc' \in Docs /\ Grown(doc, doc', Top.node, IF Keyless THEN NoKey ELSE key)
    BY <2>1, DescribedIs
  <2>3. PICK fs \in Frames : fs = frames /\ fs # << >> /\ Shaped(fs, doc, section) /\ Top = fs[Len(fs)]
    BY TopIs DEF WInv, WTyped
  <2>4. PICK gs : gs = WithFirst(fs)
    OBVIOUS
  <2>5. Touched(fs, gs) /\ gs[Len(fs)].first = TRUE
    BY <2>3, <2>4, FirstMarked
  <2>6. frames' = gs /\ gs \in Frames /\ Len(gs) = Len(fs) /\ gs # << >>
    <3>1. frames' = gs
      BY <2>1, <2>3, <2>4 DEF Begun, WithFirst, Here
    <3>2. gs \in Frames /\ Len(gs) = Len(fs)
      BY <2>5 DEF Touched
    <3>3. Len(fs) # 0
      BY <2>3 DEF Frames
    <3> QED
      BY <3>1, <3>2, <3>3
  <2>7. Shaped(gs, doc', section)
    BY <2>2, <2>3, <2>5, ShapeKept DEF WInv, WTyped
  <2>8. PICK p \in Texts, v \in Texts, e \in Texts, o \in Texts :
          p = KeyedPrefix(Top) /\ v = tokens /\ e = EndLine(Top) /\ o = out
    <3>1. KeyedPrefix(Top) \in Texts
      BY <1>2, TopIs, PrefixIs DEF WInv, WTyped
    <3>2. tokens \in Texts /\ EndLine(Top) \in Texts /\ out \in Texts
      BY EndIs DEF ValueTokens, WInv, WTyped
    <3> QED
      BY <3>1, <3>2
  <2>9. out' = (o \o p \o v) \o e /\ (o \o p \o v) \o e \in Texts
    BY <2>1, <2>8 DEF Texts
  <2>10. WTyped'
    <3>1. key' \in Keys
      BY <2>1 DEF KeyAfter, WInv, WTyped, Keys
    <3>2. slips' \subseteq {"key in array", "value in aot", "long path"}
      BY <2>1 DEF Slip, Stray, WInv, WTyped
    <3> QED
      BY <2>1, <2>2, <2>6, <2>9, <3>1, <3>2 DEF WInv, WTyped
  <2>11. ASSUME "value in aot" \notin slips' PROVE Grammatical(gs, out')
    <3>1. Top.kind # "aot" /\ "value in aot" \notin slips
      BY <2>1, <2>11 DEF Slip, Stray
    <3>2. Grammatical(fs, o)
      BY <2>3, <2>8, <3>1 DEF WInv
    <3>3. PICK h, open : Mirrors(fs, h, open) /\ At(o, Top, open)
      BY <2>3, <3>2, GramAt
    <3>4. Ready(o \o p, Top, open)
      BY <1>2, <2>8, <3>1, <3>3, TopIs, PrefixReads DEF WInv, WTyped
    <3>5. Done(o \o p \o v, Top, open)
      BY <2>8, <3>4 DEF ValueTokens
    <3>6. gs[Len(gs)].kind = Top.kind /\ gs[Len(gs)].first = TRUE
      <4>1. Len(fs) \in 1 .. Len(fs)
        BY <2>3 DEF Frames
      <4> QED
        BY <2>3, <2>5, <2>6, <4>1 DEF Touched, Alike
    <3>7. At((o \o p \o v) \o e, gs[Len(gs)], open)
      BY <2>8, <3>1, <3>5, <3>6, TopIs, EndReads
    <3>8. Mirrors(gs, h, open)
      BY <2>5, <3>3, MirrorsKept
    <3> QED
      BY <2>9, <3>7, <3>8, AtGram
  <2> QED
    BY <2>1, <2>6, <2>7, <2>10, <2>11 DEF WInv
<1> QED
  BY <1>1, <1>2

\* What is described so far.
LEMMA DocIs ==
  ASSUME WInv PROVE doc \in Docs /\ Len(doc) \in Nat /\ Len(doc) + 1 \in Nat
<1>1. PICK d \in Docs : d = doc
  BY DEF WInv, WTyped
<1>2. Len(d) \in Nat /\ Len(d) + 1 \in Nat
  BY DEF Docs
<1> QED
  BY <1>1, <1>2

\* A value is begun.
LEMMA BeginKeeps ==
  ASSUME WInv, NEW kind \in {"array", "itab"}, NEW node \in {"table", "array", "scalar"},
         NEW flag \in {"explicit", "none", "inline", "plain", "aot"},
         NEW mark, mark = Bracket(kind), ~finished, BeginValue(kind, node, flag, mark)
  PROVE  WInv'
<1>1. CASE PrefixStatus(Top) # "OK"
  <2>1. PrefixStatus(Top) \in {"OK", "ARG", "STATE"}
    BY DEF PrefixStatus
  <2>2. PICK code \in {"ARG", "STATE", "ALLOC"} : Refuse(code)
    BY <1>1, <2>1 DEF BeginValue
  <2> QED
    BY <2>2, RefuseKeeps
<1>2. CASE PrefixStatus(Top) = "OK"
  <2>1. /\ Described(node, flag) /\ out' = out \o KeyedPrefix(Top) \o Mark(mark)
        /\ key' = KeyAfter(Top) /\ frames' = Push(Begun, kind, NoKey) /\ Slip(Stray)
        /\ UNCHANGED <<lost, st, finished, section>>
    BY <1>2 DEF BeginValue
  <2>2. doc' \in Docs /\ Grown(doc, doc', Top.node, IF Keyless THEN NoKey ELSE key)
    BY <2>1, DescribedIs
  <2>3. PICK fs \in Frames : fs = frames /\ fs # << >> /\ Shaped(fs, doc, section) /\ Top = fs[Len(fs)]
    BY TopIs DEF WInv, WTyped
  <2>4. PICK gs : gs = WithFirst(fs)
    OBVIOUS
  <2>5. Touched(fs, gs) /\ gs[Len(fs)].first = TRUE
    BY <2>3, <2>4, FirstMarked
  <2>6. gs \in Frames /\ Len(gs) = Len(fs) /\ gs[Len(gs)].kind = Top.kind
    <3>1. gs \in Frames /\ Len(gs) = Len(fs)
      BY <2>5 DEF Touched
    <3>2. Len(fs) \in 1 .. Len(fs)
      BY <2>3 DEF Frames
    <3> QED
      BY <2>3, <2>5, <3>1, <3>2 DEF Touched, Alike
  <2>7. PICK hs : hs = frames'
    OBVIOUS
  <2>8. Pushed(gs, hs, kind, NoKey, Len(doc) + 1)
    <3>1. hs = Append(gs, Frame(kind, NoKey, Len(doc) + 1))
      BY <2>1, <2>3, <2>4, <2>7 DEF Push, Begun, WithFirst, Here
    <3>2. Len(doc) + 1 \in Nat
      BY DocIs
    <3> QED
      BY <2>6, <3>1, <3>2, PushIs DEF Kinds, Keys
  <2>9. Shaped(hs, doc', section)
    <3>1. Grown(doc, doc', fs[Len(fs)].node, IF Keyless THEN NoKey ELSE key) /\ Shaped(fs, doc, section)
      BY <2>2, <2>3
    <3> QED
      BY <2>5, <2>8, <3>1, DocIs, ShapeValue
  <2>10. hs \in Frames /\ hs # << >> /\ Len(hs) = Len(gs) + 1
    BY <2>8, <2>9 DEF Pushed, Shaped, Chained
  <2>11. mark \in Brackets /\ mark \in Toks
    BY DEF Bracket, Brackets, Toks
  <2>12. PICK p \in Texts, v \in Texts, o \in Texts : p = KeyedPrefix(Top) /\ v = Mark(mark) /\ o = out
    <3>1. KeyedPrefix(Top) \in Texts
      BY <1>2, TopIs, PrefixIs DEF WInv, WTyped
    <3>2. Mark(mark) \in Texts /\ out \in Texts
      BY <2>11, MarkIs DEF WInv, WTyped
    <3> QED
      BY <3>1, <3>2
  <2>13. out' = o \o p \o v /\ o \o p \o v \in Texts
    BY <2>1, <2>12 DEF Texts
  <2>14. WTyped'
    <3>1. key' \in Keys
      BY <2>1 DEF KeyAfter, WInv, WTyped, Keys
    <3>2. slips' \subseteq {"key in array", "value in aot", "long path"}
      BY <2>1 DEF Slip, Stray, WInv, WTyped
    <3> QED
      BY <2>1, <2>2, <2>7, <2>10, <2>13, <3>1, <3>2 DEF WInv, WTyped
  <2>15. ASSUME "value in aot" \notin slips' PROVE Grammatical(hs, out')
    <3>1. Top.kind # "aot" /\ "value in aot" \notin slips
      BY <2>1, <2>15 DEF Slip, Stray
    <3>2. Grammatical(fs, o)
      BY <2>3, <2>12, <3>1 DEF WInv
    <3>3. PICK h, open : Mirrors(fs, h, open) /\ At(o, Top, open)
      BY <2>3, <3>2, GramAt
    <3>4. Ready(o \o p, Top, open)
      BY <1>2, <2>12, <3>1, <3>3, TopIs, PrefixReads DEF WInv, WTyped
    <3>5. /\ o \o p \o v \in Texts /\ Append(open, mark) \in Seq(Brackets)
          /\ Reading(o \o p \o v) = [now |-> "open", open |-> Append(open, mark)]
          /\ Inside(Reading(o \o p \o v)) = mark
      BY <2>11, <2>12, <3>4, OpenReads
    <3>6. Mirrors(hs, h, Append(open, mark))
      <4>1. Mirrors(gs, h, open)
        BY <2>5, <3>3, MirrorsKept
      <4> QED
        BY <2>5, <2>6, <2>8, <3>1, <4>1, MirrorsValue
    <3>7. LastRead(hs[Len(hs)]) = "open" /\ InsideOf(hs[Len(hs)].kind) = mark
      <4>1. hs[Len(hs)].kind = kind /\ hs[Len(hs)].first = FALSE
        BY <2>8, <2>10 DEF Pushed
      <4> QED
        BY <4>1 DEF LastRead, InsideOf, Bracket
    <3>8. At(o \o p \o v, hs[Len(hs)], Append(open, mark))
      BY <3>5, <3>7 DEF At
    <3> QED
      BY <2>13, <3>6, <3>8, AtGram
  <2> QED
    BY <2>1, <2>7, <2>9, <2>14, <2>15 DEF WInv
<1> QED
  BY <1>1, <1>2

\* A section is begun.
LEMMA SectionBegun ==
  ASSUME WInv, Top.kind \in {"table", "aot"}, NEW node \in {"table", "array", "scalar"},
         NEW flag \in {"explicit", "none", "inline", "plain", "aot"}, Described(node, flag),
         NEW gs, Touched(frames, gs), Top.kind = "table" => gs[Len(frames)].sub,
         NEW kind \in {"table", "aot"}, NEW k \in Keys, k = IF Keyless THEN NoKey ELSE key,
         frames' = Append(gs, Frame(kind, k, Len(doc) + 1)),
         kind = "table" => section' = Len(doc) + 1
  PROVE  /\ Shaped(frames', doc', section') /\ frames' \in Frames /\ frames' # << >> /\ doc' \in Docs
         /\ Sectional(frames') /\ Pushed(gs, frames', kind, k, Len(doc) + 1)
<1>1. PICK e \in Docs : e = doc' /\ Grown(doc, e, Top.node, k)
  BY DescribedIs
<1>2. PICK fs \in Frames : fs = frames /\ fs # << >> /\ Shaped(fs, doc, section) /\ Top = fs[Len(fs)]
  BY TopIs DEF WInv, WTyped
<1>3. PICK hs : hs = frames'
  OBVIOUS
<1>4. PICK d \in Docs : d = doc /\ Len(d) + 1 \in Nat
  BY DocIs
<1>5. PICK sec, new : sec = section /\ new = section'
  OBVIOUS
<1>6. Pushed(gs, hs, kind, k, Len(d) + 1)
  <2>1. kind \in Kinds
    BY DEF Kinds
  <2>2. gs \in Frames
    BY DEF Touched
  <2> QED
    BY <1>3, <1>4, <2>1, <2>2, PushIs
<1>7. Shaped(hs, e, new) /\ Sectional(hs)
  <2>1. Shaped(fs, d, sec) /\ Touched(fs, gs) /\ Grown(d, e, fs[Len(fs)].node, k)
    BY <1>1, <1>2, <1>4, <1>5
  <2>2. fs[Len(fs)].kind \in {"table", "aot"} /\ (fs[Len(fs)].kind = "table" => gs[Len(fs)].sub)
    BY <1>2
  <2>3. kind = "table" => new = Len(d) + 1
    BY <1>4, <1>5
  <2> QED
    BY <1>6, <2>1, <2>2, <2>3, ShapeSection
<1>8. hs \in Frames /\ hs # << >>
  BY <1>6, <1>7 DEF Pushed, Shaped, Chained
<1> QED
  BY <1>1, <1>3, <1>4, <1>5, <1>6, <1>7, <1>8

\* While a section is open, whole lines have been read.
LEMMA SectionAt ==
  ASSUME WInv, Top.kind \in {"table", "aot"}, Grammatical(frames, out)
  PROVE  Reading(out) = AtLine
<1>1. PICK fs \in Frames : fs = frames /\ fs # << >> /\ Top = fs[Len(fs)]
  BY TopIs DEF WInv, WTyped
<1>2. PICK h, open : Mirrors(fs, h, open) /\ At(out, Top, open)
  BY <1>1, GramAt DEF WInv, WTyped
<1>3. h = Len(fs)
  <2>1. PICK r : r = [now |-> "line", open |-> open]
    OBVIOUS
  <2>2. r.open = open
    BY <2>1
  <2> QED
    BY <1>1, <1>2, <2>2, TopInside
<1>4. open = << >>
  <2>0. PICK H \in Nat : H = Len(fs)
    BY DEF Frames
  <2>1. open \in Seq(Brackets) /\ Len(open) = H - H
    BY <1>2, <1>3, <2>0 DEF Mirrors
  <2>2. Len(open) = 0
    BY <2>0, <2>1
  <2> QED
    BY <2>1, <2>2, EmptySeq
<1>5. LastRead(Top) = "line"
  BY DEF LastRead
<1> QED
  BY <1>2, <1>4, <1>5 DEF At, AtLine

\* A section is open, and the text is read to the end of a line.
LEMMA AtSection ==
  ASSUME NEW hs \in Frames, hs # << >>, Sectional(hs), NEW text \in Texts, Reading(text) = AtLine
  PROVE  Grammatical(hs, text)
<1>1. Mirrors(hs, Len(hs), << >>)
  BY MirrorsSections
<1>2. PICK H \in Nat : H = Len(hs) /\ H # 0
  BY DEF Frames
<1>3. LastRead(hs[Len(hs)]) = "line"
  <2>1. hs[H].kind \in {"table", "aot"}
    BY <1>2 DEF Sectional
  <2> QED
    BY <1>2, <2>1 DEF LastRead
<1>4. Reading(text).open = << >> /\ Reading(text).now = "line"
  BY DEF AtLine
<1>5. Len(hs) \in 1 .. Len(hs)
  BY <1>2
<1> QED
  BY <1>1, <1>3, <1>4, <1>5 DEF Grammatical

\* A header is a line.
LEMMA HeaderReads ==
  ASSUME NEW text \in Texts, NEW tok \in {"header", "aot"}, NEW path \in Seq(Key)
  PROVE  /\ text \o HeaderLine(tok, path) \in Texts
         /\ Reading(text) = AtLine => Reading(text \o HeaderLine(tok, path)) = AtLine
<1>1. PICK t \in TokenType : t = Token(tok, path) /\ t.tok = tok
  <2>1. tok \in Toks
    BY DEF Toks
  <2>2. Token(tok, path) \in TokenType /\ Token(tok, path).tok = tok
    BY <2>1, TokenIs
  <2> QED
    BY <2>2
<1>2. PICK u \in Texts : u = text \o <<t>> /\ Reading(u) = ReadToken(Reading(text), tok)
  <2>1. text \o <<t>> \in Texts /\ Reading(text \o <<t>>) = ReadToken(Reading(text), t.tok)
    BY ReadOne
  <2> QED
    BY <1>1, <2>1
<1>3. u \o Mark("nl") \in Texts /\ Reading(u \o Mark("nl")) = ReadToken(Reading(u), "nl")
  BY ReadMark DEF Toks
<1>4. text \o HeaderLine(tok, path) = u \o Mark("nl")
  <2>1. PICK w \in Texts, m \in Texts : w = <<t>> /\ m = Mark("nl")
    <3>1. <<t>> \in Texts
      BY DEF Texts
    <3>2. "nl" \in Toks
      BY DEF Toks
    <3>3. Mark("nl") \in Texts
      BY <3>2, MarkIs
    <3> QED
      BY <3>1, <3>3
  <2>2. HeaderLine(tok, path) = w \o m
    BY <1>1, <2>1 DEF HeaderLine
  <2>3. Joins(text, w, m)
    BY TextsJoin
  <2> QED
    BY <1>2, <2>1, <2>2, <2>3 DEF Joins
<1>5. ASSUME Reading(text) = AtLine PROVE Reading(u \o Mark("nl")) = AtLine
  <2>1. PICK r : r = AtLine
    OBVIOUS
  <2>2. r.now = "line" /\ r.open = << >>
    BY <2>1 DEF AtLine
  <2>3. tok \in MayFollow(r)
    BY <2>2, Following
  <2>4. ReadToken(r, tok) = [now |-> "header", open |-> << >>]
    BY <2>2, <2>3, Reads1
  <2>5. PICK q : q = Reading(u) /\ q.now = "header" /\ q.open = << >>
    BY <1>2, <1>5, <2>1, <2>4
  <2>6. "nl" \in MayFollow(q)
    BY <2>5, Following
  <2>7. ReadToken(q, "nl") = [now |-> "line", open |-> << >>]
    BY <2>5, <2>6, Reads1
  <2> QED
    BY <1>3, <2>5, <2>7 DEF AtLine
<1> QED
  BY <1>3, <1>4, <1>5

\* A path is made of keys.
LEMMA PathIs ==
  ASSUME NEW fs \in Frames PROVE PathOf(fs) \in Seq(Key)
<1>1. PICK H \in Nat : H = Len(fs)
  BY DEF Frames
<1>2. PICK f \in [0 .. H -> Seq(Key)] : PathOf(fs) = f[H]
  BY <1>1, PathKeysCollected
<1>3. H \in 0 .. H
  BY <1>1
<1> QED
  BY <1>2, <1>3

\* Frames marked with nothing.
LEMMA Untouched ==
  ASSUME WInv PROVE Touched(frames, frames)
<1>1. PICK fs \in Frames : fs = frames
  BY DEF WInv, WTyped
<1>2. Touched(fs, fs)
  BY DEF Touched, Alike
<1> QED
  BY <1>1, <1>2

\* A table with its mark.
LEMMA SectionedIs ==
  ASSUME WInv
  PROVE  Touched(frames, Sectioned) /\ Sectioned[Len(frames)].sub
<1>1. PICK fs \in Frames : fs = frames /\ fs # << >>
  BY DEF WInv, WTyped
<1>2. Touched(fs, WithSub(fs)) /\ WithSub(fs)[Len(fs)].sub = TRUE
  BY <1>1, SubMarked
<1>3. Sectioned = WithSub(fs)
  BY <1>1 DEF Sectioned, WithSub, Here
<1> QED
  BY <1>1, <1>2, <1>3

\* What the slips of a section say of those before it.
LEMMA SlipsKept ==
  ASSUME WInv, slips' = slips \/ Slip(LongPath)
  PROVE  /\ slips' \subseteq {"key in array", "value in aot", "long path"}
         /\ "value in aot" \notin slips' => Grammatical(frames, out)
  BY DEF WInv, WTyped, Slip, LongPath

\* A section is open in a text that was not broken before it.
LEMMA SectionKeeps ==
  ASSUME WInv, Top.kind \in {"table", "aot"}, ~finished,
         Shaped(frames', doc', section'), frames' \in Frames, frames' # << >>, doc' \in Docs, Sectional(frames'),
         key' = NoKey, UNCHANGED <<lost, st, finished>>, slips' = slips \/ Slip(LongPath),
         out' \in Texts, Reading(out) = AtLine => Reading(out') = AtLine
  PROVE  WInv'
<1>1. slips' \subseteq {"key in array", "value in aot", "long path"}
  BY SlipsKept
<1>2. WTyped'
  BY <1>1 DEF WInv, WTyped, Keys
<1>3. ASSUME Grammatical(frames, out) PROVE Grammatical(frames', out')
  <2>1. PICK hs \in Frames, text \in Texts : hs = frames' /\ text = out'
    OBVIOUS
  <2>2. Reading(text) = AtLine
    BY <1>3, <2>1, SectionAt
  <2> QED
    BY <2>1, <2>2, AtSection
<1>4. "value in aot" \notin slips' => Grammatical(frames', out')
  BY <1>3, SlipsKept
<1> QED
  BY <1>2, <1>4 DEF WInv

\* A table is begun: the frames, and the line its header is.
Headed(tok, path) ==
  /\ out' = out \o HeaderLine(tok, path) /\ tok \in {"header", "aot"} /\ path \in Seq(Key)
  /\ \E gs : /\ Touched(frames, gs) /\ Pushed(gs, frames', "table", frames'[Len(gs) + 1].key, section')
             /\ path = IF frames'[Len(gs) + 1].key = NoKey THEN PathOf(frames)
                       ELSE Append(PathOf(frames), frames'[Len(gs) + 1].key)
  /\ Slip(LongPath) /\ Sectional(frames')

\* The header of the table is its place.
LEMMA TableBegun ==
  ASSUME WInv, BeginTable, ~(\E code \in {"ARG", "STATE", "ALLOC"} : Refuse(code))
  PROVE  WInv' /\ \E tok, path : Headed(tok, path)
<1>1. Top.kind \in {"table", "aot"} /\ ~finished /\ (Top.kind = "table" => key # NoKey)
  BY TopIs DEF BeginTable, Fed, Kinds
<1>2. PathOf(frames) \in Seq(Key)
  BY PathIs DEF WInv, WTyped
<1>3. CASE Top.kind = "aot"
  <2>1. /\ Described("table", "explicit") /\ out' = out \o HeaderLine("aot", PathOf(frames))
        /\ key' = NoKey /\ frames' = Push(frames, "table", NoKey) /\ Slip(LongPath)
        /\ section' = Len(doc) + 1 /\ UNCHANGED <<lost, st, finished>>
    BY <1>3 DEF BeginTable
  <2>2. frames' = Append(frames, Frame("table", NoKey, Len(doc) + 1))
    BY <2>1 DEF Push
  <2>3. NoKey = IF Keyless THEN NoKey ELSE key
    BY <1>3 DEF Keyless
  <2>4. /\ Shaped(frames', doc', section') /\ frames' \in Frames /\ frames' # << >> /\ doc' \in Docs
        /\ Sectional(frames') /\ Pushed(frames, frames', "table", NoKey, Len(doc) + 1)
    BY <1>3, <2>1, <2>2, <2>3, Untouched, SectionBegun DEF Keys
  <2>5. out \o HeaderLine("aot", PathOf(frames)) \in Texts
        /\ (Reading(out) = AtLine => Reading(out \o HeaderLine("aot", PathOf(frames))) = AtLine)
    BY <1>2, HeaderReads DEF WInv, WTyped
  <2>6. WInv'
    BY <1>1, <2>1, <2>4, <2>5, SectionKeeps
  <2>7. frames'[Len(frames) + 1].key = NoKey
    BY <2>4 DEF Pushed
  <2>8. Headed("aot", PathOf(frames))
    BY <1>2, <2>1, <2>4, <2>7, Untouched DEF Headed
  <2> QED
    BY <2>6, <2>8
<1>4. CASE Top.kind = "table"
  <2>1. /\ Described("table", "explicit") /\ out' = out \o HeaderLine("header", Append(PathOf(frames), key))
        /\ key' = NoKey /\ frames' = Push(Sectioned, "table", key) /\ Slip(LongPath)
        /\ section' = Len(doc) + 1 /\ UNCHANGED <<lost, st, finished>>
    BY <1>1, <1>4 DEF BeginTable
  <2>2. frames' = Append(Sectioned, Frame("table", key, Len(doc) + 1))
    BY <2>1 DEF Push
  <2>3. key = IF Keyless THEN NoKey ELSE key
    BY <1>4 DEF Keyless
  <2>4. key \in Keys /\ key \in Key /\ Append(PathOf(frames), key) \in Seq(Key)
    <3>1. key \in Keys /\ key \in Key
      BY <1>1, <1>4 DEF WInv, WTyped, Keys
    <3>2. Append(PathOf(frames), key) \in Seq(Key)
      <4>1. PICK p \in Seq(Key), k \in Key : p = PathOf(frames) /\ k = key
        BY <1>2, <3>1
      <4> QED
        BY <4>1
    <3> QED
      BY <3>1, <3>2
  <2>5. /\ Shaped(frames', doc', section') /\ frames' \in Frames /\ frames' # << >> /\ doc' \in Docs
        /\ Sectional(frames') /\ Pushed(Sectioned, frames', "table", key, Len(doc) + 1)
    BY <1>4, <2>1, <2>2, <2>3, <2>4, SectionedIs, SectionBegun
  <2>6. out \o HeaderLine("header", Append(PathOf(frames), key)) \in Texts
        /\ (Reading(out) = AtLine => Reading(out \o HeaderLine("header", Append(PathOf(frames), key))) = AtLine)
    BY <2>4, HeaderReads DEF WInv, WTyped
  <2>7. WInv'
    BY <1>1, <2>1, <2>5, <2>6, SectionKeeps
  <2>8. frames'[Len(Sectioned) + 1].key = key
    BY <2>5 DEF Pushed
  <2>9. Headed("header", Append(PathOf(frames), key))
    BY <1>1, <1>4, <2>1, <2>4, <2>5, <2>8, SectionedIs DEF Headed
  <2> QED
    BY <2>7, <2>9
<1> QED
  BY <1>1, <1>3, <1>4

\* An array of tables is begun, and nothing written.
LEMMA AotBegun ==
  ASSUME WInv, BeginAot PROVE WInv'
<1>1. CASE key = NoKey \/ Top.kind # "table"
  BY <1>1, RefuseKeeps DEF BeginAot
<1>2. CASE key # NoKey /\ Top.kind = "table"
  <2>1. /\ Described("array", "aot") /\ key' = NoKey /\ frames' = Push(Sectioned, "aot", key) /\ ~finished
        /\ UNCHANGED <<out, lost, st, finished, section, slips>>
    BY <1>2 DEF BeginAot, Fed
  <2>2. frames' = Append(Sectioned, Frame("aot", key, Len(doc) + 1))
    BY <2>1 DEF Push
  <2>3. key = IF Keyless THEN NoKey ELSE key
    BY <1>2 DEF Keyless
  <2>4. key \in Keys /\ out \in Texts
    BY DEF WInv, WTyped
  <2>5. /\ Shaped(frames', doc', section') /\ frames' \in Frames /\ frames' # << >> /\ doc' \in Docs
        /\ Sectional(frames')
    BY <1>2, <2>1, <2>2, <2>3, <2>4, SectionedIs, SectionBegun
  <2> QED
    BY <1>2, <2>1, <2>4, <2>5, SectionKeeps
<1> QED
  BY <1>1, <1>2

\* The frame below a value that is open.
LEMMA BelowIs ==
  ASSUME NEW fs \in Frames, Len(fs) # 1, fs # << >>, NEW h, NEW open, Mirrors(fs, h, open), h < Len(fs)
  PROVE  /\ Len(fs) - 1 \in 1 .. Len(fs) /\ fs[Len(fs) - 1] \in FrameType /\ fs[Len(fs) - 1].kind # "aot"
         /\ fs[Len(fs) - 1].kind # "table" => fs[Len(fs) - 1].first = TRUE
<1>1. PICK H \in Nat : Len(fs) = H + 1 /\ H # 0
  <2>0. PICK N \in Nat : N = Len(fs) /\ N # 0
    BY DEF Frames
  <2>1. PICK L \in Nat : L = Len(fs) /\ L # 0 /\ L # 1
    BY <2>0
  <2>2. L - 1 \in Nat /\ L = (L - 1) + 1 /\ L - 1 # 0
    BY <2>1
  <2> QED
    BY <2>1, <2>2
<1>2. H \in 1 .. H + 1 /\ (H + 1) - 1 = H
  BY <1>1
<1>3. PICK f \in FrameType : f = fs[H]
  BY <1>1, <1>2 DEF Frames
<1>4. h \in 1 .. H + 1
  BY <1>1 DEF Mirrors
<1>5. CASE h = H
  <2>1. fs[H].kind = "table"
    BY <1>1, <1>5 DEF Mirrors
  <2> QED
    BY <1>1, <1>2, <1>3, <2>1
<1>6. CASE h # H
  <2>1. h < H /\ H - h \in 1 .. (H + 1) - h /\ h + (H - h) = H /\ H \in 1 .. (H + 1) - 1
    BY <1>1, <1>4, <1>6
  <2>2. fs[H].kind \in {"array", "itab"} /\ fs[H].first
    BY <1>1, <2>1 DEF Mirrors
  <2>3. f.first \in BOOLEAN
    BY DEF FrameType
  <2>4. f.first = TRUE
    BY <1>3, <2>2, <2>3
  <2> QED
    BY <1>1, <1>2, <1>3, <2>2, <2>4
<1> QED
  BY <1>5, <1>6

\* What is written when a frame is closed.
LEMMA ClosingIs ==
  ASSUME NEW f, NEW below, f.kind \in Kinds
  PROVE  /\ Closing(f, below) \in Texts
         /\ f.kind \in {"table", "aot"} => Closing(f, below) = << >>
         /\ f.kind \in {"array", "itab"} => Closing(f, below) = Mark(Closer(Bracket(f.kind))) \o EndLine(below)
<1>1. Mark("]") \in Texts /\ Mark("}") \in Texts /\ EndLine(below) \in Texts
  BY MarkIs, EndIs DEF Toks
<1>2. << >> \in Texts
  BY DEF Texts
<1>3. Mark("]") \o EndLine(below) \in Texts /\ Mark("}") \o EndLine(below) \in Texts
  BY <1>1, HeadOf
<1>4. CASE f.kind = "array"
  BY <1>3, <1>4 DEF Closing, Closer, Bracket
<1>5. CASE f.kind = "itab"
  BY <1>3, <1>5 DEF Closing, Closer, Bracket
<1>6. CASE f.kind \in {"table", "aot"}
  BY <1>2, <1>6 DEF Closing
<1> QED
  BY <1>4, <1>5, <1>6 DEF Kinds

\* The text after the innermost frame is closed.
LEMMA ClosedReads ==
  ASSUME NEW fs \in Frames, Len(fs) # 1, fs # << >>, NEW text \in Texts, NEW h, NEW open,
         Mirrors(fs, h, open), At(text, fs[Len(fs)], open), fs[Len(fs)].kind \in {"array", "itab"}
  PROVE  Grammatical(Popped(fs), text \o Closing(fs[Len(fs)], fs[Len(fs) - 1]))
<1>1. PICK H \in Nat : Len(fs) = H + 1 /\ H # 0
  <2>0. PICK N \in Nat : N = Len(fs) /\ N # 0
    BY DEF Frames
  <2>1. PICK L \in Nat : L = Len(fs) /\ L # 0 /\ L # 1
    BY <2>0
  <2>2. L - 1 \in Nat /\ L = (L - 1) + 1 /\ L - 1 # 0
    BY <2>1
  <2> QED
    BY <2>1, <2>2
<1>2. PICK hs \in Frames : hs = Popped(fs) /\ Len(hs) = H /\ \A i \in 1 .. H : hs[i] = fs[i]
  <2>1. SubSeq(fs, 1, H) \in Frames /\ Len(SubSeq(fs, 1, H)) = H /\ \A i \in 1 .. H : SubSeq(fs, 1, H)[i] = fs[i]
    BY <1>1 DEF Frames
  <2>2. Popped(fs) = SubSeq(fs, 1, H)
    <3>1. Len(fs) - 1 = H
      BY <1>1
    <3> QED
      BY <3>1 DEF Popped
  <2> QED
    BY <2>1, <2>2
<1>3. PICK f : f = fs[Len(fs)]
  OBVIOUS
<1>4. h < Len(fs) /\ open # << >> /\ open[Len(open)] = Bracket(f.kind) /\ open \in Seq(Brackets)
  <2>1. PICK r : r = [now |-> "line", open |-> open]
    OBVIOUS
  <2>2. r.open = open
    BY <2>1
  <2>3. open \in Seq(Brackets)
    BY DEF Mirrors
  <2> QED
    BY <1>3, <2>2, <2>3, TopInside
<1>5. PICK below \in FrameType : below = fs[Len(fs) - 1] /\ below.kind # "aot" /\ (below.kind # "table" => below.first = TRUE)
  BY <1>4, BelowIs
<1>6. hs[Len(hs)] = below /\ hs # << >>
  <2>1. H \in 1 .. H /\ (H + 1) - 1 = H
    BY <1>1
  <2>2. hs[H] = fs[H]
    BY <1>2, <2>1
  <2>3. Len(fs) - 1 = H
    BY <1>1
  <2>4. hs # << >>
    BY <1>1, <1>2
  <2> QED
    BY <1>2, <1>5, <2>2, <2>3, <2>4
<1>7. PICK o : o = SubSeq(open, 1, Len(open) - 1)
  OBVIOUS
<1>8. Mirrors(hs, h, o)
  <2>1. Len(hs) = Len(fs) - 1 /\ \A i \in 1 .. Len(fs) - 1 : hs[i] = fs[i]
    BY <1>1, <1>2
  <2> QED
    BY <1>4, <1>7, <2>1, MirrorsClosed
<1>9. PICK c : c = Closer(Bracket(f.kind)) /\ c \in {"]", "}"}
  BY DEF Closer
<1>10. Opened(text, open)
  <2>1. Reading(text) = [now |-> LastRead(f), open |-> open]
    BY <1>3 DEF At
  <2>2. LastRead(f) \in {"open", "value"}
    BY <1>3 DEF LastRead
  <2> QED
    BY <2>1, <2>2 DEF Opened
<1>11. PICK s \in Texts : s = text \o Mark(c) /\ Reading(s) = [now |-> "value", open |-> o]
  <2>1. c = Closer(open[Len(open)])
    BY <1>4, <1>9
  <2>2. text \o Mark(c) \in Texts
        /\ Reading(text \o Mark(c)) = [now |-> "value", open |-> SubSeq(open, 1, Len(open) - 1)]
    BY <1>4, <1>9, <1>10, <2>1, CloseReads
  <2> QED
    BY <1>7, <2>2
<1>12. Done(s, below, o)
  <2>1. Reading(s).open = o
    BY <1>11
  <2>2. Inside(Reading(s)) = InsideOf(below.kind)
    BY <1>6, <1>8, <2>1, TopInside
  <2>3. o \in Seq(Brackets)
    BY <1>8 DEF Mirrors
  <2> QED
    BY <1>11, <2>2, <2>3 DEF Done
<1>13. At(s \o EndLine(below), below, o)
  BY <1>5, <1>12, EndReads
<1>14. text \o Closing(f, below) = s \o EndLine(below)
  <2>1. PICK m \in Texts, e \in Texts : m = Mark(c) /\ e = EndLine(below)
    <3>1. c \in Toks
      BY <1>9 DEF Toks
    <3> QED
      BY <3>1, MarkIs, EndIs
  <2>2. Closing(f, below) = m \o e
    <3>1. f.kind \in Kinds
      BY <1>3 DEF Kinds
    <3> QED
      BY <1>3, <1>9, <2>1, <3>1, ClosingIs
  <2>3. Joins(text, m, e)
    BY TextsJoin
  <2> QED
    BY <1>11, <2>1, <2>2, <2>3 DEF Joins
<1>15. Grammatical(hs, s \o EndLine(below))
  BY <1>6, <1>8, <1>13, AtGram
<1> QED
  BY <1>2, <1>3, <1>5, <1>14, <1>15

\* A frame is closed.
LEMMA CloseKeeps ==
  ASSUME WInv, FeedClose PROVE WInv'
<1>1. CASE Here = 1
  BY <1>1, RefuseKeeps DEF FeedClose
<1>2. CASE Here # 1
  <2>1. /\ frames' = SubSeq(frames, 1, Here - 1) /\ out' = out \o Closing(Top, frames[Here - 1]) /\ ~finished
        /\ UNCHANGED <<key, lost, st, finished, doc, section, slips>>
    BY <1>2 DEF FeedClose, Fed
  <2>2. PICK fs \in Frames : fs = frames /\ fs # << >> /\ Top = fs[Len(fs)] /\ Len(fs) # 1 /\ Shaped(fs, doc, section)
    BY <1>2, TopIs DEF WInv, WTyped, Here
  <2>3. PICK hs : hs = Popped(fs)
    OBVIOUS
  <2>4. frames' = hs
    BY <2>1, <2>2, <2>3 DEF Popped, Here
  <2>5. Shaped(hs, doc, section) /\ hs \in Frames /\ Len(hs) = Len(fs) - 1 /\ \A i \in 1 .. Len(fs) - 1 : hs[i] = fs[i]
    BY <2>2, <2>3, ShapeClosed
  <2>6. PICK text \in Texts, c \in Texts : text = out /\ c = Closing(Top, frames[Here - 1])
    BY TopIs, ClosingIs DEF WInv, WTyped
  <2>7. out' = text \o c /\ text \o c \in Texts
    BY <2>1, <2>6, HeadOf
  <2>8. WTyped'
    BY <2>1, <2>4, <2>5, <2>7 DEF WInv, WTyped, Shaped, Chained
  <2>9. ASSUME Grammatical(fs, text) PROVE Grammatical(hs, text \o c)
    <3>1. PICK h, open : Mirrors(fs, h, open) /\ At(text, fs[Len(fs)], open)
      BY <2>2, <2>9, GramAt
    <3>2. CASE Top.kind \in {"array", "itab"}
      <4>1. c = Closing(fs[Len(fs)], fs[Len(fs) - 1])
        BY <2>2, <2>6 DEF Here
      <4> QED
        BY <2>2, <2>3, <3>1, <3>2, <4>1, ClosedReads
    <3>3. CASE Top.kind \in {"table", "aot"}
      <4>1. c = << >>
        BY <2>6, <3>3, TopIs, ClosingIs
      <4>2. text \o c = text
        BY <4>1 DEF Texts
      <4>3. Reading(text) = AtLine
        BY <2>2, <2>6, <2>9, <3>3, SectionAt
      <4>4. h = Len(fs)
        <5>1. PICK r : r = [now |-> "line", open |-> open]
          OBVIOUS
        <5>2. r.open = open
          BY <5>1
        <5> QED
          BY <2>2, <3>1, <3>3, <5>2, TopInside
      <4>5. Sectional(hs)
        <5>1. PICK L \in Nat : L = Len(fs)
          BY DEF Frames
        <5>2. \A i \in 1 .. L : fs[i].kind \in {"table", "aot"}
          BY <3>1, <4>4, <5>1 DEF Mirrors
        <5>3. \A i \in 1 .. L - 1 : i \in 1 .. L /\ hs[i] = fs[i]
          BY <2>5, <5>1
        <5> QED
          BY <2>5, <5>1, <5>2, <5>3 DEF Sectional
      <4>6. hs # << >>
        BY <2>5 DEF Shaped, Chained
      <4> QED
        BY <2>5, <4>2, <4>3, <4>5, <4>6, AtSection
    <3> QED
      BY <3>2, <3>3, TopIs DEF Kinds
  <2> QED
    BY <2>1, <2>2, <2>4, <2>5, <2>6, <2>7, <2>8, <2>9 DEF WInv
<1> QED
  BY <1>1, <1>2

-------------------------------------------------------------------------------
\* The values that are written at once.
LEMMA ScalarTokens == ValueTokens(Mark("scalar"))
<1>1. Mark("scalar") \in Texts
  BY MarkIs DEF Toks
<1> QED
  BY <1>1, ScalarReads DEF ValueTokens

\* An empty pair of brackets.
LEMMA EmptyTokens ==
  ASSUME NEW b \in Brackets, NEW c, c = Closer(b)
  PROVE  ValueTokens(Mark(b) \o Mark(c)) /\ Len(Mark(b)) = 1 /\ Mark(b) \in Texts /\ Mark(c) \in Texts
<1>1. b \in Toks /\ c \in Toks
  BY DEF Toks, Brackets, Closer
<1>2. Mark(b) \in Texts /\ Mark(c) \in Texts /\ Len(Mark(b)) = 1
  BY <1>1, MarkIs
<1>3. Mark(b) \o Mark(c) \in Texts
  BY <1>2, HeadOf
<1> QED
  BY <1>2, <1>3, EmptyReads DEF ValueTokens

\* Both pairs.
LEMMA EmptyPairs ==
  /\ ValueTokens(Mark("{") \o Mark("}")) /\ Len(Mark("{")) = 1 /\ Mark("{") \in Texts /\ Mark("}") \in Texts
  /\ ValueTokens(Mark("[") \o Mark("]")) /\ Len(Mark("[")) = 1 /\ Mark("[") \in Texts /\ Mark("]") \in Texts
<1>1. "{" \in Brackets /\ "[" \in Brackets /\ "}" = Closer("{") /\ "]" = Closer("[")
  BY DEF Brackets, Closer
<1> QED
  BY <1>1, EmptyTokens

\* The frames at first, and what has been read.
LEMMA WInit == ASSUME Init PROVE WInv
<1>1. PICK f : f = Frame("table", NoKey, Root)
  OBVIOUS
<1>2. f \in FrameType /\ f.kind = "table" /\ f.key = NoKey /\ f.node = 1 /\ f.first = FALSE /\ f.sub = FALSE
  BY <1>1 DEF Frame, FrameType, Kinds, Keys, Root
<1>3. PICK n : n = [kind |-> "table", flag |-> "explicit", up |-> 0, key |-> NoKey]
  OBVIOUS
<1>4. n \in NodeType /\ n.up = 0 /\ n.key = NoKey
  BY <1>3 DEF NodeType, Keys
<1>5. PICK fs \in Frames : fs = <<f>> /\ fs # << >> /\ Len(fs) = 1 /\ fs[1] = f
  <2>1. <<f>> \in Frames
    BY <1>2 DEF Frames
  <2>2. <<f>> # << >> /\ Len(<<f>>) = 1 /\ <<f>>[1] = f
    OBVIOUS
  <2> QED
    BY <2>1, <2>2
<1>6. PICK d \in Docs : d = <<n>> /\ d # << >> /\ Len(d) = 1 /\ d[1] = n
  <2>1. <<n>> \in Docs
    BY <1>4 DEF Docs
  <2>2. <<n>> # << >> /\ Len(<<n>>) = 1 /\ <<n>>[1] = n
    OBVIOUS
  <2> QED
    BY <2>1, <2>2
<1>7. Chained(fs, d)
  BY <1>2, <1>4, <1>5, <1>6 DEF Chained, Root
<1>8. Layered(fs) /\ Marked(fs, 1) /\ fs[1].kind = "table"
  BY <1>2, <1>5 DEF Layered, Marked
<1>9. Shaped(fs, d, 1)
  BY <1>7, <1>8 DEF Shaped
<1>10. Sectional(fs)
  BY <1>2, <1>5 DEF Sectional
<1>11. << >> \in Texts
  BY DEF Texts
<1>12. Grammatical(fs, << >>)
  BY <1>5, <1>10, <1>11, ReadingEmpty, AtSection
<1>13. frames = fs /\ doc = d /\ section = 1 /\ out = << >> /\ finished = FALSE
  BY <1>1, <1>3, <1>5, <1>6 DEF Init, Root
<1>14. WTyped
  BY <1>5, <1>6, <1>11, <1>13 DEF WTyped, Init, Keys
<1> QED
  BY <1>9, <1>12, <1>13, <1>14 DEF WInv

\* Every operation keeps the invariant.
LEMMA WNext == ASSUME WInv, [Next]_vars PROVE WInv'
<1>1. ASSUME NEW k \in Key, FeedKey(k) PROVE WInv'
  <2>1. k \in Keys /\ key' = k /\ UNCHANGED <<frames, out, lost, st, finished, doc, section, slips>>
    BY <1>1 DEF FeedKey, Keys
  <2> QED
    BY <2>1 DEF WInv, WTyped
<1>2. CASE FeedScalar
  BY <1>2, ScalarTokens, PutKeeps DEF FeedScalar
<1>3. CASE FeedEmpty
  BY <1>3, EmptyPairs, PutKeeps DEF FeedEmpty
<1>4. CASE BeginArray
  <2>1. CASE Top.kind = "aot"
    BY <1>4, <2>1, RefuseKeeps DEF BeginArray
  <2>2. CASE Top.kind # "aot"
    <3>1. BeginValue("array", "array", "plain", Bracket("array")) /\ ~finished
      BY <1>4, <2>2 DEF BeginArray, Fed, Bracket
    <3> QED
      BY <3>1, BeginKeeps
  <2> QED
    BY <2>1, <2>2
<1>5. CASE BeginInlineTable
  <2>1. CASE Top.kind = "array" /\ key # NoKey
    BY <1>5, <2>1, RefuseKeeps DEF BeginInlineTable
  <2>2. CASE ~(Top.kind = "array" /\ key # NoKey)
    <3>1. BeginValue("itab", "table", "inline", Bracket("itab")) /\ ~finished
      BY <1>5, <2>2 DEF BeginInlineTable, Fed, Bracket
    <3> QED
      BY <3>1, BeginKeeps
  <2> QED
    BY <2>1, <2>2
<1>6. CASE BeginTable
  BY <1>6, TableBegun, RefuseKeeps
<1>7. CASE BeginAot
  BY <1>7, AotBegun
<1>8. CASE FeedClose
  BY <1>8, CloseKeeps
<1>9. CASE FeedFails
  BY <1>9, RefuseKeeps DEF FeedFails
<1>10. CASE OutFails
  BY <1>10 DEF OutFails, WInv, WTyped
<1>11. CASE Finish
  <2>1. Len(frames) = 1 /\ finished' = TRUE /\ UNCHANGED <<key, frames, out, lost, st, doc, section, slips>>
    BY <1>11 DEF Finish, Here
  <2> QED
    BY <2>1 DEF WInv, WTyped
<1>12. CASE UNCHANGED vars
  BY <1>12 DEF vars, WInv, WTyped
<1> QED
  BY <1>1, <1>2, <1>3, <1>4, <1>5, <1>6, <1>7, <1>8, <1>9, <1>10, <1>11, <1>12 DEF Next

\* The frames are the way to what is described, the marks say where lines are
\* written, and the text ends where the frames do.
THEOREM WriterInvariant == Spec => []WInv
  BY WInit, WNext, PTL DEF Spec

\* TypeOK of Writer.
THEOREM WriterIsTyped == Spec => []TypeOK
<1>1. ASSUME WInv PROVE TypeOK
  <2>1. PICK fs \in Frames : fs = frames /\ fs # << >> /\ Chained(fs, doc)
    BY <1>1 DEF WInv, WTyped, Shaped
  <2>2. PICK H \in Nat : H = Len(fs) /\ DOMAIN fs = 1 .. H
    BY DEF Frames
  <2>3. PICK d \in Docs, D \in Nat : d = doc /\ D = Len(d) /\ DOMAIN d = 1 .. D
    <3>1. PICK d \in Docs : d = doc
      BY <1>1, DocIs
    <3> QED
      BY <3>1 DEF Docs
  <2>4. ASSUME NEW i \in DOMAIN fs
        PROVE  fs[i].kind \in Kinds /\ fs[i].key \in Keys /\ fs[i].node \in DOMAIN d
    <3>1. fs[i] \in FrameType
      BY <2>2 DEF Frames
    <3>2. fs[i].kind \in Kinds /\ fs[i].key \in Keys /\ fs[i].node \in Nat
      BY <3>1 DEF FrameType
    <3>3. i \in Nat /\ 1 <= i /\ i <= fs[i].node /\ fs[i].node <= D
      BY <2>1, <2>2, <2>3 DEF Chained
    <3>4. fs[i].node \in 1 .. D
      BY <3>2, <3>3
    <3> QED
      BY <2>3, <3>2, <3>4
  <2> QED
    BY <1>1, <2>1, <2>3, <2>4 DEF WInv, WTyped, TypeOK, Kinds, Keys
<1> QED
  BY <1>1, WriterInvariant, PTL

\* Whatever operations were accepted, what is handed over is TOML's grammar
\* of lines, brackets and separators (TextIsWellFormed).
THEOREM WrittenIsWellFormed == Spec => []TextIsWellFormed
<1>1. ASSUME WInv PROVE TextIsWellFormed
  <2>1. ASSUME finished, "value in aot" \notin slips PROVE Grammatical(frames, out) /\ Len(frames) = 1
    BY <1>1, <2>1 DEF WInv
  <2>2. ASSUME Grammatical(frames, out), Len(frames) = 1 PROVE Reading(out) = AtLine
    <3>1. Top.kind \in {"table", "aot"}
      BY <1>1, <2>2 DEF WInv, Shaped, Top, Here
    <3> QED
      BY <1>1, <2>2, <3>1, SectionAt
  <2> QED
    BY <2>1, <2>2, ReadingEmpty DEF TextIsWellFormed, Text
<1> QED
  BY <1>1, WriterInvariant, PTL

-------------------------------------------------------------------------------
\* What LinesInPlace says of one token.
Placed(new) ==
  /\ new.tok \in {"header", "aot"} /\ "long path" \notin slips' => new.path = PlaceOf(doc', section')
  /\ new.tok = "key" /\ Top.kind = "table" => section = Top.node

Headers == {"header", "aot"}

\* The first token that is new.
LEMMA FirstNew ==
  ASSUME NEW text \in Texts, NEW v \in Texts, Len(v) # 0
  PROVE  (text \o v)[Len(text) + 1] = v[1]
<1>1. PICK n \in Nat, m \in Nat : n = Len(text) /\ m = Len(v) /\ m # 0
  BY DEF Texts
<1>2. n + 1 \in 1 .. n + m /\ n + 1 > n /\ (n + 1) - n = 1
  BY <1>1
<1> QED
  BY <1>1, <1>2 DEF Texts

\* Only whole tokens are written.
LEMMA NotLonger == ASSUME WInv, out' = out PROVE ~(Len(out') > Len(out))
<1>1. PICK text \in Texts : text = out
  BY DEF WInv, WTyped
<1>2. PICK n \in Nat : n = Len(text)
  BY DEF Texts
<1> QED
  BY <1>1, <1>2

\* Lines go to the table whose header was the last.
LEMMA ItemPlaced ==
  ASSUME WInv, PrefixStatus(Top) = "OK", NEW v \in Texts, Len(v) # 0, FirstTok(v) \notin Headers,
         out' = out \o (KeyedPrefix(Top) \o v)
  PROVE  Placed(out'[Len(out) + 1])
<1>1. PICK p \in Texts : p = KeyedPrefix(Top) /\ (Len(p) # 0 => FirstTok(p) \in Starters)
  BY TopIs, PrefixIs DEF WInv, WTyped
<1>2. p \o v \in Texts /\ Len(p \o v) # 0 /\ FirstTok(p \o v) \notin Headers
  <2>1. PICK n \in Nat, m \in Nat : n = Len(p) /\ m = Len(v) /\ m # 0
    BY DEF Texts
  <2>2. p \o v \in Texts /\ Len(p \o v) = n + m
    BY <2>1, HeadOf
  <2>3. n + m # 0
    BY <2>1
  <2>4. CASE n = 0
    <3>1. p \o v = v
      BY <2>1, <2>4, HeadOf
    <3> QED
      BY <2>2, <2>3, <3>1
  <2>5. CASE n # 0
    <3>1. (p \o v)[1] = p[1]
      BY <2>1, <2>5, HeadOf
    <3>2. FirstTok(p) \notin Headers
      BY <1>1, <2>1, <2>5 DEF Starters, Headers
    <3> QED
      BY <2>2, <2>3, <3>1, <3>2 DEF FirstTok
  <2> QED
    BY <2>4, <2>5
<1>3. PICK text \in Texts : text = out
  BY DEF WInv, WTyped
<1>4. out'[Len(out) + 1] = (p \o v)[1]
  BY <1>1, <1>2, <1>3, FirstNew
<1>5. out'[Len(out) + 1].tok \notin Headers
  BY <1>2, <1>4 DEF FirstTok
<1>6. ASSUME Top.kind = "table" PROVE section = Top.node
  <2>1. ~Top.sub
    BY <1>6 DEF PrefixStatus
  <2>2. PICK fs \in Frames : fs = frames /\ fs # << >> /\ Top = fs[Len(fs)] /\ Marked(fs, section)
    BY TopIs DEF WInv, WTyped, Shaped
  <2>3. Len(fs) \in 1 .. Len(fs)
    <3>1. PICK H \in Nat : H = Len(fs) /\ H # 0
      BY <2>2 DEF Frames
    <3> QED
      BY <3>1
  <2> QED
    BY <1>6, <2>1, <2>2, <2>3 DEF Marked
<1> QED
  BY <1>5, <1>6 DEF Placed, Headers

\* A value that is written at once is in its place.
LEMMA PutPlaced ==
  ASSUME WInv, NEW kind, NEW flag, NEW tokens \in Texts, Len(tokens) # 0, FirstTok(tokens) \notin Headers,
         Put(kind, flag, tokens), Len(out') > Len(out)
  PROVE  Placed(out'[Len(out) + 1])
<1>1. PrefixStatus(Top) = "OK"
  BY NotLonger DEF Put, Refuse
<1>2. out' = out \o KeyedPrefix(Top) \o tokens \o EndLine(Top)
  BY <1>1 DEF Put
<1>3. PICK text \in Texts, p \in Texts, e \in Texts : text = out /\ p = KeyedPrefix(Top) /\ e = EndLine(Top)
  BY <1>1, TopIs, PrefixIs, EndIs DEF WInv, WTyped
<1>4. JoinsAll(text, p, tokens, e)
  BY WriteJoin
<1>5. tokens \o e \in Texts /\ Len(tokens \o e) # 0 /\ FirstTok(tokens \o e) \notin Headers
  <2>1. PICK n \in Nat, m \in Nat : n = Len(tokens) /\ m = Len(e) /\ n # 0
    BY DEF Texts
  <2>2. n + m # 0
    BY <2>1
  <2>3. Len(tokens \o e) = n + m /\ (tokens \o e)[1] = tokens[1] /\ tokens \o e \in Texts
    BY <2>1, HeadOf
  <2> QED
    BY <2>2, <2>3 DEF FirstTok
<1>6. out' = out \o (KeyedPrefix(Top) \o (tokens \o e))
  BY <1>2, <1>3, <1>4 DEF JoinsAll
<1> QED
  BY <1>1, <1>5, <1>6, ItemPlaced

\* A value that is begun is in its place.
LEMMA BeginPlaced ==
  ASSUME WInv, NEW kind, NEW node, NEW flag, NEW mark \in Brackets,
         BeginValue(kind, node, flag, mark), Len(out') > Len(out)
  PROVE  Placed(out'[Len(out) + 1])
<1>1. PrefixStatus(Top) = "OK"
  BY NotLonger DEF BeginValue, Refuse
<1>2. out' = out \o KeyedPrefix(Top) \o Mark(mark)
  BY <1>1 DEF BeginValue
<1>3. mark \in Toks /\ mark \notin Headers
  BY DEF Brackets, Toks, Headers
<1>4. PICK v \in Texts : v = Mark(mark) /\ Len(v) # 0 /\ FirstTok(v) \notin Headers
  BY <1>3, MarkIs DEF FirstTok
<1>5. PICK text \in Texts, p \in Texts : text = out /\ p = KeyedPrefix(Top)
  BY <1>1, TopIs, PrefixIs DEF WInv, WTyped
<1>6. Joins(text, p, v)
  BY TextsJoin
<1>7. out' = out \o (KeyedPrefix(Top) \o v)
  BY <1>2, <1>4, <1>5, <1>6 DEF Joins
<1> QED
  BY <1>1, <1>4, <1>7, ItemPlaced

\* A header spells the way to its table.
LEMMA HeaderPlaced ==
  ASSUME WInv, WInv', NEW tok, NEW path, Headed(tok, path)
  PROVE  Placed(out'[Len(out) + 1])
<1>1. PICK gs : /\ Touched(frames, gs) /\ Pushed(gs, frames', "table", frames'[Len(gs) + 1].key, section')
                /\ path = IF frames'[Len(gs) + 1].key = NoKey THEN PathOf(frames)
                          ELSE Append(PathOf(frames), frames'[Len(gs) + 1].key)
  BY DEF Headed
<1>2. PICK fs \in Frames, hs \in Frames : fs = frames /\ hs = frames' /\ fs # << >>
  BY DEF WInv, WTyped
<1>3. PICK H \in Nat : Len(fs) = H /\ Len(gs) = H
  BY <1>1, <1>2 DEF Touched, Frames
<1>4. Len(hs) = H + 1 /\ hs[H + 1].node = section' /\ Alike(fs, hs)
  BY <1>1, <1>2, <1>3 DEF Pushed, Touched, Alike
<1>5. PICK d \in Docs : d = doc'
  BY DEF WInv, WTyped
<1>6. Sectional(hs) /\ Chained(hs, d)
  BY <1>2, <1>5 DEF Headed, WInv, Shaped
<1>7. PICK k : k = hs[H + 1].key
  OBVIOUS
<1>8. ASSUME "long path" \notin slips' PROVE H <= PathFrames
  <2>1. ~(Len(frames) > PathFrames)
    BY <1>8 DEF Headed, Slip, LongPath
  <2> QED
    BY <1>2, <1>3, <2>1, WriterAssumption
<1>9. ASSUME H <= PathFrames PROVE PlaceOf(doc', section') = path
  <2>1. PlaceOf(d, hs[Len(fs) + 1].node) = IF k = NoKey THEN PathOf(fs) ELSE Append(PathOf(fs), k)
    BY <1>3, <1>4, <1>6, <1>7, <1>9, PlaceIsPath
  <2> QED
    BY <1>1, <1>2, <1>3, <1>4, <1>5, <1>7, <2>1
<1>10. tok \in Toks /\ tok \in Headers /\ path \in Seq(Key)
  BY DEF Headed, Toks, Headers
<1>11. PICK t \in TokenType : t = Token(tok, path) /\ t.tok = tok /\ t.path = path
  BY <1>10, TokenIs
<1>12. out'[Len(out) + 1] = t
  <2>1. PICK text \in Texts, w \in Texts, m \in Texts : text = out /\ w = <<t>> /\ m = Mark("nl")
    <3>1. <<t>> \in Texts
      BY DEF Texts
    <3>2. "nl" \in Toks
      BY DEF Toks
    <3>3. Mark("nl") \in Texts
      BY <3>2, MarkIs
    <3>4. out \in Texts
      BY DEF WInv, WTyped
    <3> QED
      BY <3>1, <3>3, <3>4
  <2>2. out' = text \o (w \o m)
    BY <1>11, <2>1 DEF Headed, HeaderLine
  <2>3. Len(w) # 0 /\ w[1] = t
    BY <2>1
  <2>4. w \o m \in Texts /\ (w \o m)[1] = t /\ Len(w \o m) # 0
    <3>1. PICK i \in Nat, j \in Nat : i = Len(w) /\ j = Len(m) /\ i # 0
      BY <2>3 DEF Texts
    <3>2. i + j # 0
      BY <3>1
    <3> QED
      BY <2>3, <3>1, <3>2, HeadOf
  <2> QED
    BY <2>1, <2>2, <2>4, FirstNew
<1>13. tok # "key"
  BY <1>10 DEF Headers
<1> QED
  BY <1>8, <1>9, <1>11, <1>12, <1>13 DEF Placed

\* What is closed is closed by a bracket.
LEMMA ClosePlaced ==
  ASSUME WInv, FeedClose, Len(out') > Len(out)
  PROVE  Placed(out'[Len(out) + 1])
<1>1. Here # 1
  BY NotLonger DEF FeedClose, Refuse
<1>2. PICK below : out' = out \o Closing(Top, below)
  BY <1>1 DEF FeedClose
<1>3. PICK text \in Texts : text = out
  BY DEF WInv, WTyped
<1>4. Top.kind \in {"array", "itab"}
  <2>1. ASSUME Top.kind \in {"table", "aot"} PROVE FALSE
    <3>1. Closing(Top, below) = << >>
      BY <2>1, TopIs, ClosingIs
    <3>2. text \o << >> = text
      BY DEF Texts
    <3> QED
      BY <1>2, <1>3, <3>1, <3>2, NotLonger
  <2> QED
    BY <2>1, TopIs DEF Kinds
<1>5. PICK c : c = Closer(Bracket(Top.kind)) /\ c \in Toks /\ c \notin Headers
  <2>1. Closer(Bracket(Top.kind)) \in {"]", "}"}
    BY DEF Closer
  <2>2. {"]", "}"} \subseteq Toks
    BY DEF Toks
  <2>3. \A c \in {"]", "}"} : c \notin Headers
    BY DEF Headers
  <2> QED
    BY <2>1, <2>2, <2>3
<1>6. PICK m \in Texts, e \in Texts : m = Mark(c) /\ e = EndLine(below) /\ Len(m) = 1 /\ FirstTok(m) = c
  BY <1>5, MarkIs, EndIs DEF FirstTok
<1>7. Closing(Top, below) = m \o e
  BY <1>4, <1>5, <1>6, TopIs, ClosingIs
<1>8. m \o e \in Texts /\ Len(m \o e) # 0 /\ (m \o e)[1] = m[1]
  <2>1. PICK j \in Nat : j = Len(e)
    BY DEF Texts
  <2>2. Len(m) # 0 /\ Len(m) + j # 0
    BY <1>6, <2>1
  <2> QED
    BY <2>1, <2>2, HeadOf
<1>9. out'[Len(out) + 1] = m[1]
  BY <1>2, <1>3, <1>7, <1>8, FirstNew
<1>10. out'[Len(out) + 1].tok \notin Headers
  BY <1>5, <1>6, <1>9 DEF FirstTok
<1>11. Top.kind # "table"
  BY <1>4
<1> QED
  BY <1>10, <1>11 DEF Placed, Headers

\* Every step puts what it writes in its place.
LEMMA StepPlaced ==
  ASSUME WInv, WInv', [Next]_vars, Len(out') > Len(out)
  PROVE  Placed(out'[Len(out) + 1])
<1>1. CASE \E k \in Key : FeedKey(k)
  BY <1>1, NotLonger DEF FeedKey
<1>2. CASE FeedScalar
  <2>1. PICK v \in Texts : v = Mark("scalar") /\ Len(v) # 0 /\ FirstTok(v) \notin Headers
    <3>1. "scalar" \in Toks /\ "scalar" \notin Headers
      BY DEF Toks, Headers
    <3> QED
      BY <3>1, MarkIs DEF FirstTok
  <2>2. Put("scalar", "none", v)
    BY <1>2, <2>1 DEF FeedScalar
  <2> QED
    BY <2>1, <2>2, PutPlaced
<1>3. CASE FeedEmpty
  <2>1. ASSUME NEW b \in Brackets, NEW c \in Toks
        PROVE  /\ Mark(b) \o Mark(c) \in Texts /\ Len(Mark(b) \o Mark(c)) # 0
               /\ FirstTok(Mark(b) \o Mark(c)) \notin Headers
    <3>1. b \in Toks /\ b \notin Headers
      BY DEF Brackets, Toks, Headers
    <3>2. PICK v \in Texts, w \in Texts : v = Mark(b) /\ w = Mark(c) /\ Len(v) = 1 /\ FirstTok(v) = b
      BY <3>1, MarkIs DEF FirstTok
    <3>3. PICK j \in Nat : j = Len(w)
      BY DEF Texts
    <3>4. Len(v) # 0 /\ Len(v) + j # 0
      BY <3>2, <3>3
    <3>5. v \o w \in Texts /\ Len(v \o w) # 0 /\ (v \o w)[1] = v[1]
      BY <3>3, <3>4, HeadOf
    <3> QED
      BY <3>1, <3>2, <3>5 DEF FirstTok
  <2>2. \E kind, flag : \E b \in Brackets : \E c \in Toks : Put(kind, flag, Mark(b) \o Mark(c))
    <3>1. Closer("{") = "}" /\ Closer("[") = "]" /\ "{" \in Brackets /\ "[" \in Brackets
          /\ "}" \in Toks /\ "]" \in Toks
      BY DEF Closer, Brackets, Toks
    <3> QED
      BY <1>3, <3>1 DEF FeedEmpty
  <2> QED
    BY <2>1, <2>2, PutPlaced
<1>4. CASE BeginArray \/ BeginInlineTable
  <2>1. ASSUME NEW code, Refuse(code) PROVE FALSE
    BY <2>1, NotLonger DEF Refuse
  <2>2. \E kind, node, flag : \E mark \in Brackets : BeginValue(kind, node, flag, mark)
    BY <1>4, <2>1 DEF BeginArray, BeginInlineTable, Brackets
  <2> QED
    BY <2>2, BeginPlaced
<1>5. CASE BeginTable
  <2>1. ASSUME NEW code, Refuse(code) PROVE FALSE
    BY <2>1, NotLonger DEF Refuse
  <2>2. \E tok, path : Headed(tok, path)
    BY <1>5, <2>1, TableBegun
  <2> QED
    BY <2>2, HeaderPlaced
<1>6. CASE BeginAot
  BY <1>6, NotLonger DEF BeginAot, Refuse
<1>7. CASE FeedClose
  BY <1>7, ClosePlaced
<1>8. CASE FeedFails
  BY <1>8, NotLonger DEF FeedFails, Refuse
<1>9. CASE OutFails
  BY <1>9, NotLonger DEF OutFails
<1>10. CASE Finish
  BY <1>10, NotLonger DEF Finish
<1>11. CASE UNCHANGED vars
  BY <1>11, NotLonger DEF vars
<1> QED
  BY <1>1, <1>2, <1>3, <1>4, <1>5, <1>6, <1>7, <1>8, <1>9, <1>10, <1>11 DEF Next

\* No line is written to another table than the one that is open
\* (LinesInPlace): headers spell the way, and marks keep values out of tables
\* whose lines are over.
THEOREM WrittenInPlace == Spec => LinesInPlace
<1>1. ASSUME WInv, WInv', [Next]_vars, Len(out') > Len(out) PROVE Placed(out'[Len(out) + 1])
  BY <1>1, StepPlaced
<1>2. WInv /\ WInv' /\ [Next]_vars =>
      [Len(out') > Len(out) =>
         LET new == out'[Len(out) + 1] IN
         /\ new.tok \in {"header", "aot"} /\ "long path" \notin slips' => new.path = PlaceOf(doc', section')
         /\ new.tok = "key" /\ Top.kind = "table" => section = Top.node]_vars
  BY <1>1 DEF Placed
<1> QED
  BY <1>2, WriterInvariant, PTL DEF Spec, LinesInPlace
===============================================================================
