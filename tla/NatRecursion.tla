----------------------------- MODULE NatRecursion -----------------------------
(***************************************************************************)
(* Induction and recursion over the naturals in a form that needs no       *)
(* operator as a parameter: a predicate is the set of its arguments, a     *)
(* recursive definition the function that computes one step of it.         *)
(***************************************************************************)
EXTENDS Integers, Sequences, WellFoundedInduction, TLAPS

\* A set of naturals that is not empty has a least element: where a walk
\* stops first, where a claim fails first.
LEMMA LeastNat ==
  ASSUME NEW T \in SUBSET Nat, T # {}
  PROVE  \E x \in T : \A y \in T : x <= y
<1> DEFINE R == {p \in Nat \X Nat : p[1] < p[2]}
<1>1. IsWellFoundedOn(R, Nat)
  BY NatLessThanWellFounded DEF OpToRel
<1> HIDE DEF R
<1>2. PICK x \in T : \A y \in T : ~(<<y, x>> \in R)
  BY <1>1, WFMin
<1>3. ASSUME NEW y \in T PROVE x <= y
  <2>1. <<y, x>> \notin R BY <1>2, <1>3
  <2>2. x \in Nat /\ y \in Nat BY <1>2, <1>3
  <2>3. y < x => <<y, x>> \in R BY <2>2 DEF R
  <2> QED BY <2>1, <2>2, <2>3
<1> QED BY <1>3

\* What holds of 0, and of n + 1 whenever it holds of n, holds of all.
LEMMA InductiveSet ==
  ASSUME NEW T \in SUBSET Nat, 0 \in T, \A n \in T : n + 1 \in T
  PROVE  T = Nat
<1>1. SUFFICES ASSUME Nat \ T # {} PROVE FALSE
  OBVIOUS
<1>2. PICK x \in Nat \ T : \A y \in Nat \ T : x <= y
  BY <1>1, LeastNat, Nat \ T \in SUBSET Nat
<1>3. x # 0 /\ x - 1 \in Nat /\ ~(x <= x - 1)
  BY <1>2
<1>4. x - 1 \in T
  BY <1>2, <1>3
<1> QED
  BY <1>2, <1>3, <1>4, (x - 1) + 1 = x

\* f begins with c and goes on with F.
Iterates(f, c, F) == f[0] = c /\ \A n \in Nat : f[n + 1] = F[<<f[n], n + 1>>]

\* Such a function exists.
LEMMA RecursiveFunction ==
  ASSUME NEW S, NEW c \in S, NEW F \in [S \X Nat -> S]
  PROVE  \E f \in [Nat -> S] : Iterates(f, c, F)
<1> DEFINE Part(n, g) == /\ g \in [0 .. n -> S] /\ g[0] = c
                         /\ \A m \in 0 .. n - 1 : g[m + 1] = F[<<g[m], m + 1>>]
           T == {n \in Nat : \E g \in [0 .. n -> S] : Part(n, g)}
           U == {k \in Nat : \A n, m \in Nat : \A g \in [0 .. n -> S], h \in [0 .. m -> S] :
                   Part(n, g) /\ Part(m, h) /\ k <= n /\ k <= m => g[k] = h[k]}
<1>1. T = Nat
  <2>1. 0 \in T
    <3>1. Part(0, [i \in 0 .. 0 |-> c])
      OBVIOUS
    <3> QED
      BY <3>1
  <2>2. ASSUME NEW n \in T PROVE n + 1 \in T
    <3>1. PICK g \in [0 .. n -> S] : Part(n, g)
      BY <2>2
    <3>2. n \in Nat /\ n + 1 \in Nat /\ g[n] \in S /\ F[<<g[n], n + 1>>] \in S
      BY <3>1
    <3> DEFINE h == [i \in 0 .. n + 1 |-> IF i = n + 1 THEN F[<<g[n], n + 1>>] ELSE g[i]]
    <3>3. h \in [0 .. n + 1 -> S] /\ h[0] = c
      BY <3>1, <3>2
    <3>4. ASSUME NEW m \in 0 .. (n + 1) - 1 PROVE h[m + 1] = F[<<h[m], m + 1>>]
      <4>1. m \in Nat /\ n \in Nat /\ m <= n /\ m \in 0 .. n + 1 /\ m + 1 \in 0 .. n + 1
        BY <2>2, <3>4
      <4>2. h[m] = g[m]
        BY <4>1
      <4>3. CASE m = n
        <5>1. h[m + 1] = F[<<g[n], n + 1>>]
          BY <4>1, <4>3
        <5> QED
          BY <5>1, <4>2, <4>3
      <4>4. CASE m # n
        <5>1. m \in 0 .. n - 1 /\ m + 1 # n + 1
          BY <4>1, <4>4
        <5>2. h[m + 1] = g[m + 1]
          BY <4>1, <5>1
        <5>3. g[m + 1] = F[<<g[m], m + 1>>]
          BY <3>1, <5>1
        <5> QED
          BY <4>2, <5>2, <5>3
      <4> QED
        BY <4>3, <4>4
    <3>5. Part(n + 1, h)
      BY <3>3, <3>4
    <3> QED
      BY <3>2, <3>3, <3>5
  <2> HIDE DEF Part
  <2>3. T \in SUBSET Nat
    OBVIOUS
  <2> QED
    BY <2>1, <2>2, <2>3, InductiveSet
<1>2. U = Nat
  <2>1. 0 \in U
    OBVIOUS
  <2> HIDE DEF Part
  <2>2. ASSUME NEW k \in U PROVE k + 1 \in U
    <3>1. k \in Nat
      BY <2>2
    <3>2. SUFFICES ASSUME NEW n \in Nat, NEW m \in Nat, NEW g \in [0 .. n -> S],
                          NEW h \in [0 .. m -> S], Part(n, g), Part(m, h),
                          k + 1 <= n, k + 1 <= m
                   PROVE  g[k + 1] = h[k + 1]
      BY <3>1
    <3>3. g[k] = h[k]
      BY SMTT(30), <2>2, <3>1, <3>2
    <3>4. k \in 0 .. n - 1 /\ k \in 0 .. m - 1
      BY <3>1, <3>2
    <3>5. g[k + 1] = F[<<g[k], k + 1>>]
      BY <3>2, <3>4 DEF Part
    <3>6. h[k + 1] = F[<<h[k], k + 1>>]
      BY <3>2, <3>4 DEF Part
    <3> QED
      BY <3>3, <3>5, <3>6
  <2>3. U \in SUBSET Nat
    OBVIOUS
  <2> QED
    BY <2>1, <2>2, <2>3, InductiveSet
<1> DEFINE G(n) == CHOOSE g \in [0 .. n -> S] : Part(n, g)
           f == [n \in Nat |-> G(n)[n]]
<1>3. ASSUME NEW n \in Nat PROVE G(n) \in [0 .. n -> S] /\ Part(n, G(n))
  <2>1. \E g \in [0 .. n -> S] : Part(n, g)
    BY <1>1
  <2> HIDE DEF Part
  <2> QED
    BY <2>1
<1>4. f \in [Nat -> S] /\ f[0] = c
  <2> HIDE DEF G
  <2> QED
    BY <1>3
<1>5. ASSUME NEW n \in Nat PROVE f[n + 1] = F[<<f[n], n + 1>>]
  <2> HIDE DEF G
  <2>1. n + 1 \in Nat /\ n <= n /\ n <= n + 1 /\ n \in 0 .. (n + 1) - 1
    OBVIOUS
  <2>2. Part(n, G(n)) /\ Part(n + 1, G(n + 1))
    BY <1>3, <2>1
  <2>3. G(n)[n] = G(n + 1)[n]
    <3> HIDE DEF Part
    <3>1. n \in U
      BY <1>2
    <3> QED
      BY <3>1, <2>1, <2>2, <1>3
  <2>4. G(n + 1)[n + 1] = F[<<G(n + 1)[n], n + 1>>]
    BY <2>1, <2>2
  <2> QED
    BY <2>1, <2>3, <2>4
<1> QED
  BY <1>4, <1>5 DEF Iterates

\* The same up to n: the form in which a definition local to an operator
\* walks over a sequence.
IteratesUpTo(f, c, F, n) == f = [i \in 0 .. n |-> IF i = 0 THEN c ELSE F[<<f[i - 1], i>>]]

\* It has a solution too.
LEMMA RecursiveUpTo ==
  ASSUME NEW S, NEW c \in S, NEW F \in [S \X Nat -> S], NEW n \in Nat
  PROVE  \E f \in [0 .. n -> S] : IteratesUpTo(f, c, F, n)
<1>1. PICK g \in [Nat -> S] : Iterates(g, c, F)
  BY RecursiveFunction
<1> DEFINE f == [i \in 0 .. n |-> g[i]]
<1>2. f \in [0 .. n -> S] /\ \A i \in 0 .. n : f[i] = g[i]
  OBVIOUS
<1>3. ASSUME NEW i \in 0 .. n PROVE f[i] = IF i = 0 THEN c ELSE F[<<f[i - 1], i>>]
  <2>1. CASE i = 0
    BY <1>1, <1>2, <2>1 DEF Iterates
  <2>2. CASE i # 0
    <3>1. PICK j \in Nat : i = j + 1 /\ j \in 0 .. n /\ i - 1 = j
      BY <2>2
    <3>2. g[j + 1] = F[<<g[j], j + 1>>]
      BY <1>1 DEF Iterates
    <3> QED
      BY <1>2, <2>2, <3>1, <3>2
  <2> QED
    BY <2>1, <2>2
<1> HIDE DEF f
<1>4. f = [i \in 0 .. n |-> IF i = 0 THEN c ELSE F[<<f[i - 1], i>>]]
  BY <1>2, <1>3
<1> QED
  BY <1>2, <1>4 DEF IteratesUpTo

-------------------------------------------------------------------------------
(***************************************************************************)
(* Forests on 1 .. N, where up[i] is the parent of i and 0 that of a root: *)
(* a node's line is what climbing from it meets, in the form in which an   *)
(* operator defines it, by a number of steps that is large enough.         *)
(***************************************************************************)
Ascends(a, up, i) ==
  a = [n \in Nat |-> IF n = 0 THEN {i} ELSE a[n - 1] \cup ({up[j] : j \in a[n - 1]} \ {0})]
Ascent(up, i) == CHOOSE a : Ascends(a, up, i)

\* What climbing from i has met after each number of steps.
LEMMA AscentSteps ==
  ASSUME NEW N \in Nat, NEW up \in [1 .. N -> 0 .. N], NEW i \in 1 .. N,
         NEW a, a = Ascent(up, i)
  PROVE  /\ a \in [Nat -> SUBSET (1 .. N)] /\ a[0] = {i}
         /\ \A n \in Nat : a[n + 1] = a[n] \cup ({up[j] : j \in a[n]} \ {0})
<1> DEFINE S == SUBSET (1 .. N)
           Up(s) == s \cup ({up[j] : j \in s} \ {0})
           F == [p \in S \X Nat |-> Up(p[1])]
<1>1. {i} \in S /\ F \in [S \X Nat -> S]
  <2>1. ASSUME NEW s \in S PROVE Up(s) \in S
    <3>1. ASSUME NEW j \in s, up[j] # 0 PROVE up[j] \in 1 .. N
      <4>1. j \in 1 .. N
        OBVIOUS
      <4>2. up[j] \in 0 .. N
        BY <4>1
      <4> QED
        BY <3>1, <4>2
    <3> QED
      BY <3>1
  <2>2. \A p \in S \X Nat : p[1] \in S
    OBVIOUS
  <2> HIDE DEF Up
  <2> QED
    BY <2>1, <2>2
<1>2. \A s \in S, n \in Nat : F[<<s, n>>] = Up(s)
  OBVIOUS
<1> HIDE DEF F
<1>3. PICK g \in [Nat -> S] : Iterates(g, {i}, F)
  BY <1>1, RecursiveFunction
<1>4. g[0] = {i} /\ \A n \in Nat : g[n + 1] = Up(g[n])
  <2>1. ASSUME NEW n \in Nat PROVE g[n + 1] = Up(g[n])
    <3>1. g[n + 1] = F[<<g[n], n + 1>>]
      BY <1>3 DEF Iterates
    <3>2. g[n] \in S /\ n + 1 \in Nat
      OBVIOUS
    <3> HIDE DEF Up, S
    <3> QED
      BY <1>2, <3>1, <3>2
  <2> QED
    BY <1>3, <2>1 DEF Iterates
<1>5. \E b : Ascends(b, up, i)
  <2>1. ASSUME NEW n \in Nat
        PROVE  g[n] = IF n = 0 THEN {i} ELSE g[n - 1] \cup ({up[j] : j \in g[n - 1]} \ {0})
    <3>1. CASE n = 0
      BY <1>4, <3>1
    <3>2. CASE n # 0
      <4>1. PICK m \in Nat : n = m + 1 /\ n - 1 = m
        BY <3>2
      <4>2. g[m + 1] = Up(g[m])
        BY <1>4
      <4> QED
        BY <3>2, <4>1, <4>2
    <3> QED
      BY <3>1, <3>2
  <2>2. g = [n \in Nat |-> IF n = 0 THEN {i}
                           ELSE g[n - 1] \cup ({up[j] : j \in g[n - 1]} \ {0})]
    BY <2>1
  <2> QED
    BY <2>2 DEF Ascends
<1>6. Ascends(a, up, i)
  BY <1>5 DEF Ascent
<1>7. a[0] = {i} /\ \A n \in Nat : a[n + 1] = Up(a[n])
  <2>1. a = [n \in Nat |-> IF n = 0 THEN {i}
                           ELSE a[n - 1] \cup ({up[j] : j \in a[n - 1]} \ {0})]
    BY <1>6 DEF Ascends
  <2>2. ASSUME NEW n \in Nat PROVE a[n + 1] = Up(a[n])
    <3>1. n + 1 \in Nat /\ n + 1 # 0 /\ (n + 1) - 1 = n
      OBVIOUS
    <3> QED
      BY <2>1, <3>1
  <2> QED
    BY <2>1, <2>2
<1> DEFINE T == {n \in Nat : a[n] \in S}
<1>8. T = Nat
  <2>1. 0 \in T
    BY <1>1, <1>7
  <2>2. ASSUME NEW n \in T PROVE n + 1 \in T
    <3>1. a[n] \in S /\ n \in Nat /\ n + 1 \in Nat
      OBVIOUS
    <3>2. F[<<a[n], n>>] \in S
      BY <1>1, <3>1
    <3>3. a[n + 1] \in S
      <4> HIDE DEF Up, S
      <4> QED
        BY <1>2, <1>7, <3>1, <3>2
    <3> QED
      BY <3>1, <3>3
  <2>3. T \in SUBSET Nat
    OBVIOUS
  <2> HIDE DEF T
  <2> QED
    BY <2>1, <2>2, <2>3, InductiveSet
<1>9. a \in [Nat -> S]
  <2>1. \E h : a = [n \in Nat |-> h[n]]
    BY <1>6 DEF Ascends
  <2> QED
    BY <1>8, <2>1
<1> QED
  BY <1>7, <1>9

\* Where parents come before their children up to i, the line of i ends at i.
LEMMA AscentBelow ==
  ASSUME NEW N \in Nat, NEW up \in [1 .. N -> 0 .. N], NEW i \in 1 .. N,
         \A j \in 1 .. i : up[j] < j, NEW n \in Nat
  PROVE  Ascent(up, i)[n] \subseteq 1 .. i /\ i \in Ascent(up, i)[n]
<1>1. PICK a : a = Ascent(up, i)
  OBVIOUS
<1>2. /\ a[0] = {i}
      /\ \A m \in Nat : a[m + 1] = a[m] \cup ({up[j] : j \in a[m]} \ {0})
  BY SMTT(30), <1>1, AscentSteps
<1> DEFINE T == {m \in Nat : a[m] \subseteq 1 .. i /\ i \in a[m]}
<1>3. 0 \in T
  BY <1>2
<1>4. ASSUME NEW m \in T PROVE m + 1 \in T
  <2>1. m \in Nat /\ m + 1 \in Nat /\ a[m] \subseteq 1 .. i /\ i \in a[m]
    OBVIOUS
  <2>2. ASSUME NEW j \in a[m], up[j] # 0 PROVE up[j] \in 1 .. i
    <3>1. j \in 1 .. i /\ j \in 1 .. N
      BY <2>1
    <3>2. up[j] \in 0 .. N /\ up[j] < j
      BY <3>1
    <3> QED
      BY <2>2, <3>1, <3>2
  <2>3. a[m + 1] \subseteq 1 .. i /\ i \in a[m + 1]
    BY SMTT(30), <1>2, <2>1, <2>2
  <2> QED
    BY <2>1, <2>3
<1>5. T \in SUBSET Nat
  OBVIOUS
<1> HIDE DEF T
<1>6. T = Nat
  BY <1>3, <1>4, <1>5, InductiveSet
<1> QED
  BY <1>1, <1>6 DEF T

\* One step less from the parent: what climbing from i meets beside i.
Shifts(up, i, n) ==
  /\ up[i] = 0 => Ascent(up, i)[n] = {i}
  /\ up[i] # 0 => Ascent(up, i)[n + 1] = {i} \cup Ascent(up, up[i])[n]

\* So does every climb.
LEMMA AscentShift ==
  ASSUME NEW N \in Nat, NEW up \in [1 .. N -> 0 .. N], NEW i \in 1 .. N, NEW n \in Nat
  PROVE  Shifts(up, i, n)
<1>1. PICK a : a = Ascent(up, i)
  OBVIOUS
<1>2. /\ a[0] = {i}
      /\ \A m \in Nat : a[m + 1] = a[m] \cup ({up[j] : j \in a[m]} \ {0})
  BY SMTT(30), <1>1, AscentSteps
<1>3. ASSUME up[i] = 0 PROVE a[n] = {i}
  <2> DEFINE T == {m \in Nat : a[m] = {i}}
  <2>1. 0 \in T
    BY <1>2
  <2>2. ASSUME NEW m \in T PROVE m + 1 \in T
    <3>1. m \in Nat /\ m + 1 \in Nat /\ a[m] = {i}
      OBVIOUS
    <3>2. a[m + 1] = {i}
      <4>1. a[m + 1] = {i} \cup ({up[j] : j \in {i}} \ {0})
        BY <1>2, <3>1
      <4>2. {up[j] : j \in {i}} = {0}
        BY <1>3
      <4> QED
        BY <4>1, <4>2
    <3> QED
      BY <3>1, <3>2
  <2>3. T \in SUBSET Nat
    OBVIOUS
  <2> HIDE DEF T
  <2>4. T = Nat
    BY <2>1, <2>2, <2>3, InductiveSet
  <2> QED
    BY <2>4 DEF T
<1>4. ASSUME up[i] # 0 PROVE a[n + 1] = {i} \cup Ascent(up, up[i])[n]
  <2>1. PICK p \in 1 .. N : p = up[i]
    <3>1. up[i] \in 0 .. N
      OBVIOUS
    <3> QED
      BY <1>4, <3>1
  <2>2. PICK b : b = Ascent(up, p)
    OBVIOUS
  <2>3. /\ b[0] = {p}
        /\ \A m \in Nat : b[m + 1] = b[m] \cup ({up[j] : j \in b[m]} \ {0})
    BY SMTT(30), <2>2, AscentSteps
  <2> DEFINE T == {m \in Nat : a[m + 1] = {i} \cup b[m] /\ p \in b[m]}
  <2>4. 0 \in T
    <3>1. a[0 + 1] = a[0] \cup ({up[j] : j \in a[0]} \ {0})
      BY <1>2
    <3>2. a[0 + 1] = {i} \cup {p}
      BY <1>2, <2>1, <3>1
    <3> QED
      BY <2>3, <3>2
  <2>5. ASSUME NEW m \in T PROVE m + 1 \in T
    <3>1. m \in Nat /\ m + 1 \in Nat /\ a[m + 1] = {i} \cup b[m] /\ p \in b[m]
      OBVIOUS
    <3>2. a[(m + 1) + 1] = a[m + 1] \cup ({up[j] : j \in a[m + 1]} \ {0})
      BY <1>2, <3>1
    <3>3. b[m + 1] = b[m] \cup ({up[j] : j \in b[m]} \ {0})
      BY <2>3, <3>1
    <3>4. {up[j] : j \in {i} \cup b[m]} = {p} \cup {up[j] : j \in b[m]}
      BY <2>1
    <3>5. a[(m + 1) + 1] = {i} \cup b[m + 1] /\ p \in b[m + 1]
      BY <2>1, <3>1, <3>2, <3>3, <3>4
    <3> QED
      BY <3>1, <3>5
  <2>6. T \in SUBSET Nat
    OBVIOUS
  <2> HIDE DEF T
  <2>7. T = Nat
    BY <2>4, <2>5, <2>6, InductiveSet
  <2> QED
    BY <2>1, <2>2, <2>7 DEF T
<1> QED
  BY <1>1, <1>3, <1>4 DEF Shifts

\* Forests whose nodes come after their parents.
IsForest(N, up) == N \in Nat /\ up \in [1 .. N -> 0 .. N] /\ \A i \in 1 .. N : up[i] < i

\* After i - 1 steps the line of i is complete.
LEMMA AscentEnds ==
  ASSUME NEW N, NEW up, IsForest(N, up), NEW i \in 1 .. N, NEW n \in Nat, i <= n + 1
  PROVE  Ascent(up, i)[n + 1] = Ascent(up, i)[n]
<1> DEFINE Done(j) == \A m \in Nat : j <= m + 1 => Ascent(up, j)[m + 1] = Ascent(up, j)[m]
           T == {k \in Nat : \A j \in 1 .. N : j <= k => Done(j)}
<1>1. N \in Nat /\ up \in [1 .. N -> 0 .. N] /\ \A j \in 1 .. N : up[j] < j
  BY DEF IsForest
<1>2. 0 \in T
  OBVIOUS
<1>3. ASSUME NEW k \in T PROVE k + 1 \in T
  <2>1. k \in Nat /\ \A j \in 1 .. N : j <= k => Done(j)
    OBVIOUS
  <2>2. ASSUME NEW j \in 1 .. N, j <= k + 1, NEW m \in Nat, j <= m + 1
        PROVE  Ascent(up, j)[m + 1] = Ascent(up, j)[m]
    <3>1. CASE up[j] = 0
      <4>1. PICK x \in Nat : x = m + 1
        OBVIOUS
      <4>2. Shifts(up, j, x) /\ Shifts(up, j, m)
        BY <1>1, AscentShift
      <4>3. Ascent(up, j)[x] = {j} /\ Ascent(up, j)[m] = {j}
        BY <3>1, <4>2 DEF Shifts
      <4> QED
        BY <4>1, <4>3
    <3>2. CASE up[j] # 0
      <4>1. PICK p \in 0 .. N : p = up[j] /\ p < j /\ p # 0
        BY <1>1, <3>2
      <4>2. p \in 1 .. N /\ p <= k /\ p <= m
        <5>1. p \in Nat /\ j \in Nat /\ k \in Nat /\ m \in Nat /\ N \in Nat
          BY <1>1, <2>1
        <5> HIDE DEF T, Done
        <5> QED
          BY <2>2, <4>1, <5>1
      <4>3. PICK l \in Nat : m = l + 1
        <5>1. m - 1 \in Nat /\ m = (m - 1) + 1
          BY <4>2
        <5> QED
          BY <5>1
      <4>4. Ascent(up, p)[l + 1] = Ascent(up, p)[l]
        <5>1. Done(p) /\ p <= l + 1
          BY <2>1, <4>2, <4>3
        <5> QED
          BY <5>1
      <4>5. /\ Ascent(up, j)[l + 1] = {j} \cup Ascent(up, p)[l]
            /\ Ascent(up, j)[m + 1] = {j} \cup Ascent(up, p)[m]
        <5> HIDE DEF T, Done
        <5>1. ASSUME NEW x \in Nat PROVE Ascent(up, j)[x + 1] = {j} \cup Ascent(up, up[j])[x]
          <6>1. Shifts(up, j, x)
            BY <1>1, AscentShift
          <6> QED
            BY <3>2, <6>1 DEF Shifts
        <5> QED
          BY <4>1, <5>1
      <4> QED
        BY <4>3, <4>4, <4>5
    <3> QED
      BY <3>1, <3>2
  <2>3. k + 1 \in Nat
    BY <2>1
  <2> QED
    BY <2>2, <2>3
<1>4. T \in SUBSET Nat
  OBVIOUS
<1> HIDE DEF T
<1>5. T = Nat
  BY <1>2, <1>3, <1>4, InductiveSet
<1>6. i \in T /\ i <= i
  BY <1>1, <1>5
<1> QED
  BY <1>6 DEF T

\* The line of a node: itself, and the line of its parent.
LEMMA LineIs ==
  ASSUME NEW N, NEW up, IsForest(N, up), NEW i \in 1 .. N
  PROVE  /\ up[i] = 0 => Ascent(up, i)[N] = {i}
         /\ up[i] # 0 => Ascent(up, i)[N] = {i} \cup Ascent(up, up[i])[N]
<1>1. N \in Nat /\ up \in [1 .. N -> 0 .. N] /\ \A j \in 1 .. N : up[j] < j
  BY DEF IsForest
<1>2. Shifts(up, i, N)
  BY <1>1, AscentShift
<1>3. up[i] = 0 => Ascent(up, i)[N] = {i}
  BY <1>2 DEF Shifts
<1>4. ASSUME up[i] # 0 PROVE Ascent(up, i)[N] = {i} \cup Ascent(up, up[i])[N]
  <2>1. Ascent(up, i)[N + 1] = {i} \cup Ascent(up, up[i])[N]
    BY <1>4, <1>2 DEF Shifts
  <2>2. Ascent(up, i)[N + 1] = Ascent(up, i)[N]
    <3>1. i <= N + 1
      BY <1>1
    <3> QED
      BY <1>1, <3>1, AscentEnds
  <2> QED
    BY <2>1, <2>2
<1> QED
  BY <1>3, <1>4

\* A set of nodes of a forest to which a node belongs if all before it do is
\* the set of all nodes.
LEMMA ForestInduction ==
  ASSUME NEW N \in Nat, NEW P \in SUBSET (1 .. N),
         \A i \in 1 .. N : (\A j \in 1 .. N : j < i => j \in P) => i \in P
  PROVE  P = 1 .. N
<1> DEFINE T == {k \in Nat : \A j \in 1 .. N : j <= k => j \in P}
<1>1. 0 \in T
  OBVIOUS
<1>2. ASSUME NEW k \in T PROVE k + 1 \in T
  <2>1. k \in Nat /\ k + 1 \in Nat /\ \A j \in 1 .. N : j <= k => j \in P
    OBVIOUS
  <2>2. ASSUME NEW j \in 1 .. N, j <= k + 1 PROVE j \in P
    <3>1. \A l \in 1 .. N : l < j => l <= k
      BY <2>1, <2>2
    <3> QED
      BY <2>1, <3>1
  <2> QED
    BY <2>1, <2>2
<1>3. T \in SUBSET Nat
  OBVIOUS
<1> HIDE DEF T
<1>4. T = Nat
  BY <1>1, <1>2, <1>3, InductiveSet
<1>5. N \in T
  BY <1>4
<1>6. \A j \in 1 .. N : j \in P
  BY <1>5 DEF T
<1> QED
  BY <1>6

\* Lines: a line ends at its node; it holds the lines of its nodes, and of two
\* of its nodes the lesser is in the line of the other.
LEMMA LineFacts ==
  ASSUME NEW N, NEW up, IsForest(N, up), NEW L, L = [i \in 1 .. N |-> Ascent(up, i)[N]]
  PROVE  /\ \A i \in 1 .. N : L[i] \subseteq 1 .. i /\ i \in L[i]
         /\ \A i \in 1 .. N : \A m \in L[i] : L[m] \subseteq L[i]
         /\ \A i \in 1 .. N : \A m, k \in L[i] : m <= k => m \in L[k]
         /\ \A i \in 1 .. N : \E r \in L[i] : up[r] = 0
<1>1. N \in Nat /\ up \in [1 .. N -> 0 .. N] /\ \A j \in 1 .. N : up[j] < j
  BY DEF IsForest
<1>2. ASSUME NEW i \in 1 .. N PROVE L[i] \subseteq 1 .. i /\ i \in L[i]
  <2>1. \A j \in 1 .. i : up[j] < j
    BY <1>1
  <2> QED
    BY <1>1, <2>1, AscentBelow
<1>3. ASSUME NEW i \in 1 .. N
      PROVE  /\ up[i] = 0 => L[i] = {i}
             /\ up[i] # 0 => up[i] \in 1 .. N /\ up[i] < i /\ L[i] = {i} \cup L[up[i]]
  <2>1. up[i] \in 0 .. N /\ up[i] < i
    BY <1>1
  <2>2. up[i] # 0 => up[i] \in 1 .. N
    BY <2>1
  <2> QED
    BY <2>1, <2>2, LineIs
<1> DEFINE P == {i \in 1 .. N : \A m \in L[i] : L[m] \subseteq L[i]}
           Q == {i \in 1 .. N : \A m, k \in L[i] : m <= k => m \in L[k]}
           R == {i \in 1 .. N : \E r \in L[i] : up[r] = 0}
<1> HIDE DEF P, Q, R
<1>4. P = 1 .. N
  <2>1. ASSUME NEW i \in 1 .. N, \A j \in 1 .. N : j < i => j \in P PROVE i \in P
    <3>1. CASE up[i] = 0
      BY <1>3, <3>1 DEF P
    <3>2. CASE up[i] # 0
      <4>1. PICK p \in 1 .. N : p = up[i] /\ p < i /\ L[i] = {i} \cup L[p]
        BY <1>3, <3>2
      <4>2. p \in P
        BY <2>1, <4>1
      <4> QED
        BY <4>1, <4>2 DEF P
    <3> QED
      BY <3>1, <3>2
  <2>2. P \in SUBSET (1 .. N)
    BY DEF P
  <2> QED
    BY <1>1, <2>1, <2>2, ForestInduction
<1>5. Q = 1 .. N
  <2>1. ASSUME NEW i \in 1 .. N, \A j \in 1 .. N : j < i => j \in Q PROVE i \in Q
    <3>1. CASE up[i] = 0
      BY <1>2, <1>3, <3>1 DEF Q
    <3>2. CASE up[i] # 0
      <4>1. PICK p \in 1 .. N : p = up[i] /\ p < i /\ L[i] = {i} \cup L[p]
        BY <1>3, <3>2
      <4>2. p \in Q /\ L[p] \subseteq 1 .. p
        BY <1>2, <2>1, <4>1
      <4>3. ASSUME NEW m \in L[i], NEW k \in L[i], m <= k PROVE m \in L[k]
        <5>1. CASE k = i
          BY <5>1
        <5>2. CASE k # i
          <6>1. k \in L[p] /\ k \in 1 .. p
            BY <4>1, <4>2, <5>2
          <6>2. m # i
            BY <1>1, <4>1, <4>3, <6>1
          <6>3. m \in L[p]
            BY <4>1, <6>2
          <6> QED
            BY <4>2, <4>3, <6>1, <6>3 DEF Q
        <5> QED
          BY <5>1, <5>2
      <4> QED
        BY <4>3 DEF Q
    <3> QED
      BY <3>1, <3>2
  <2>2. Q \in SUBSET (1 .. N)
    BY DEF Q
  <2> QED
    BY <1>1, <2>1, <2>2, ForestInduction
<1>6. R = 1 .. N
  <2>1. ASSUME NEW i \in 1 .. N, \A j \in 1 .. N : j < i => j \in R PROVE i \in R
    <3>1. CASE up[i] = 0
      BY <1>3, <3>1 DEF R
    <3>2. CASE up[i] # 0
      <4>1. PICK p \in 1 .. N : p = up[i] /\ p < i /\ L[i] = {i} \cup L[p]
        BY <1>3, <3>2
      <4>2. p \in R
        BY <2>1, <4>1
      <4> QED
        BY <4>1, <4>2 DEF R
    <3> QED
      BY <3>1, <3>2
  <2>2. R \in SUBSET (1 .. N)
    BY DEF R
  <2> QED
    BY <1>1, <2>1, <2>2, ForestInduction
<1> QED
  BY <1>2, <1>4, <1>5, <1>6 DEF P, Q, R

-------------------------------------------------------------------------------
(***************************************************************************)
(* The members of a set in order, in the form in which an operator defines *)
(* the sequence: a walk over 1 .. n that takes the members it meets.       *)
(***************************************************************************)
Orders(f, S, n) ==
  f = [i \in 0 .. n |-> IF i = 0 THEN << >>
                        ELSE IF i \in S THEN Append(f[i - 1], i) ELSE f[i - 1]]
Ordered(S, n) == (CHOOSE f : Orders(f, S, n))[n]

\* s lists the members of S up to n, in order.
Lists(s, S, n) ==
  /\ s \in Seq(1 .. n)
  /\ \A j \in 1 .. Len(s) : s[j] \in S
  /\ \A x \in 1 .. n : x \in S => \E j \in 1 .. Len(s) : s[j] = x
  /\ \A j, k \in 1 .. Len(s) : j < k => s[j] < s[k]

\* One step of the walk.
LEMMA ListsStep ==
  ASSUME NEW S, NEW n \in Nat, NEW s, Lists(s, S, n), NEW t,
         t = IF n + 1 \in S THEN Append(s, n + 1) ELSE s
  PROVE  Lists(t, S, n + 1)
<1>1. s \in Seq(1 .. n) /\ Len(s) \in Nat
  BY DEF Lists
<1>2. PICK m \in Nat : m = n + 1 /\ 1 .. n \subseteq 1 .. m /\ m \in 1 .. m
                       /\ \A x \in 1 .. m : x = m \/ x \in 1 .. n
  OBVIOUS
<1>3. \A j \in 1 .. Len(s) : s[j] \in 1 .. n
  BY <1>1
<1>4. s \in Seq(1 .. m)
  BY <1>1, <1>2
<1>5. CASE m \notin S
  BY <1>2, <1>4, <1>5 DEF Lists
<1>6. CASE m \in S
  <2>1. PICK l \in Nat : l = Len(s)
    BY <1>1
  <2>2. /\ t = Append(s, m) /\ t \in Seq(1 .. m) /\ Len(t) = l + 1 /\ t[l + 1] = m
        /\ \A j \in 1 .. l : t[j] = s[j]
    BY <1>2, <1>4, <1>6, <2>1
  <2>3. \A j \in 1 .. l + 1 : j = l + 1 \/ j \in 1 .. l
    OBVIOUS
  <2>4. \A j \in 1 .. l + 1 : t[j] \in S
    BY <1>6, <2>1, <2>2, <2>3 DEF Lists
  <2>5. ASSUME NEW x \in 1 .. m, x \in S PROVE \E j \in 1 .. l + 1 : t[j] = x
    <3>1. CASE x = m
      <4>1. l + 1 \in 1 .. l + 1
        OBVIOUS
      <4> QED
        BY <2>2, <3>1, <4>1
    <3>2. CASE x # m
      <4>1. PICK j \in 1 .. l : s[j] = x
        BY <1>2, <2>1, <2>5, <3>2 DEF Lists
      <4>2. j \in 1 .. l + 1
        OBVIOUS
      <4> QED
        BY <2>2, <4>1, <4>2
    <3> QED
      BY <3>1, <3>2
  <2>6. ASSUME NEW j \in 1 .. l + 1, NEW k \in 1 .. l + 1, j < k PROVE t[j] < t[k]
    <3>1. j \in 1 .. l
      BY <2>6
    <3>2. CASE k \in 1 .. l
      BY <2>1, <2>2, <2>6, <3>1, <3>2 DEF Lists
    <3>3. CASE k = l + 1
      <4>1. s[j] \in 1 .. n
        BY <1>3, <2>1, <3>1
      <4>2. s[j] < m
        BY <1>2, <4>1
      <4> QED
        BY <2>2, <3>1, <3>3, <4>2
    <3> QED
      BY <2>3, <3>2, <3>3
  <2> QED
    BY <1>2, <2>2, <2>4, <2>5, <2>6 DEF Lists
<1> QED
  BY <1>5, <1>6

\* The walk lists the members in order.
LEMMA OrderedLists ==
  ASSUME NEW S, NEW n \in Nat
  PROVE  Lists(Ordered(S, n), S, n)
<1> DEFINE F == [p \in Seq(Nat) \X Nat |-> IF p[2] \in S THEN Append(p[1], p[2]) ELSE p[1]]
<1>1. << >> \in Seq(Nat) /\ F \in [Seq(Nat) \X Nat -> Seq(Nat)]
  <2>1. ASSUME NEW p \in Seq(Nat) \X Nat
        PROVE  (IF p[2] \in S THEN Append(p[1], p[2]) ELSE p[1]) \in Seq(Nat)
    <3>1. p[1] \in Seq(Nat) /\ p[2] \in Nat
      OBVIOUS
    <3> QED
      BY <3>1
  <2> QED
    BY <2>1
<1>2. \A s \in Seq(Nat), i \in Nat : F[<<s, i>>] = IF i \in S THEN Append(s, i) ELSE s
  OBVIOUS
<1> HIDE DEF F
<1>3. PICK g \in [0 .. n -> Seq(Nat)] : IteratesUpTo(g, << >>, F, n)
  BY <1>1, RecursiveUpTo
<1>4. Orders(g, S, n)
  <2>1. ASSUME NEW i \in 0 .. n
        PROVE  g[i] = IF i = 0 THEN << >> ELSE IF i \in S THEN Append(g[i - 1], i) ELSE g[i - 1]
    <3>1. g = [k \in 0 .. n |-> IF k = 0 THEN << >> ELSE F[<<g[k - 1], k>>]]
      BY <1>3 DEF IteratesUpTo
    <3>2. g[i] = IF i = 0 THEN << >> ELSE F[<<g[i - 1], i>>]
      BY <3>1
    <3>3. i # 0 => i \in Nat /\ i - 1 \in 0 .. n
      OBVIOUS
    <3>4. i # 0 => g[i - 1] \in Seq(Nat)
      BY <3>3
    <3>5. i # 0 => F[<<g[i - 1], i>>] = IF i \in S THEN Append(g[i - 1], i) ELSE g[i - 1]
      BY <1>2, <3>3, <3>4
    <3> QED
      BY <3>2, <3>5
  <2>2. g = [i \in 0 .. n |-> IF i = 0 THEN << >>
                              ELSE IF i \in S THEN Append(g[i - 1], i) ELSE g[i - 1]]
    BY <2>1
  <2> QED
    BY <2>2 DEF Orders
<1>5. PICK f : Orders(f, S, n) /\ Ordered(S, n) = f[n]
  BY <1>4 DEF Ordered
<1>6. \A i \in 0 .. n : f[i] = IF i = 0 THEN << >>
                               ELSE IF i \in S THEN Append(f[i - 1], i) ELSE f[i - 1]
  <2>1. f = [i \in 0 .. n |-> IF i = 0 THEN << >>
                              ELSE IF i \in S THEN Append(f[i - 1], i) ELSE f[i - 1]]
    BY <1>5 DEF Orders
  <2> QED
    BY <2>1
<1> DEFINE T == {i \in Nat : i <= n => Lists(f[i], S, i)}
<1>7. 0 \in T
  <2>1. f[0] = << >>
    BY <1>6
  <2>2. Lists(<< >>, S, 0)
    BY DEF Lists
  <2> QED
    BY <2>1, <2>2
<1>8. ASSUME NEW i \in T PROVE i + 1 \in T
  <2>1. i \in Nat /\ i + 1 \in Nat
    OBVIOUS
  <2>2. ASSUME i + 1 <= n PROVE Lists(f[i + 1], S, i + 1)
    <3>1. Lists(f[i], S, i)
      BY <2>2
    <3>2. i + 1 \in 0 .. n /\ i + 1 # 0 /\ (i + 1) - 1 = i
      BY <2>1, <2>2
    <3>3. f[i + 1] = IF i + 1 \in S THEN Append(f[i], i + 1) ELSE f[i]
      BY <1>6, <3>2
    <3>4. PICK s, t : s = f[i] /\ t = f[i + 1]
      OBVIOUS
    <3> HIDE DEF T
    <3> QED
      BY <2>1, <3>1, <3>3, <3>4, ListsStep
  <2> QED
    BY <2>1, <2>2
<1>9. T \in SUBSET Nat
  OBVIOUS
<1> HIDE DEF T
<1>10. T = Nat
  BY <1>7, <1>8, <1>9, InductiveSet
<1>11. n \in T /\ n <= n
  BY <1>10
<1> QED
  BY <1>5, <1>11 DEF T

\* A set of numbers up to n that is not empty has a greatest element.
LEMMA GreatestNat ==
  ASSUME NEW n \in Nat, NEW S \in SUBSET (1 .. n), S # {}
  PROVE  \E x \in S : \A y \in S : y <= x
<1> DEFINE T == {k \in Nat : n - k \in S}
<1>1. T \in SUBSET Nat
  OBVIOUS
<1>2. T # {}
  <2>1. PICK x \in S : TRUE
    OBVIOUS
  <2>2. PICK k \in Nat : k = n - x /\ n - k = x
    <3>1. x \in 1 .. n
      OBVIOUS
    <3>2. n - x \in Nat /\ n - (n - x) = x
      BY <3>1
    <3> QED
      BY <3>2
  <2>3. k \in T
    BY <2>2
  <2> QED
    BY <2>3
<1>3. PICK k \in T : \A l \in T : k <= l
  <2> HIDE DEF T
  <2> QED
    BY <1>1, <1>2, LeastNat
<1>4. n - k \in S /\ k \in Nat
  OBVIOUS
<1>5. ASSUME NEW y \in S PROVE y <= n - k
  <2>1. y \in 1 .. n
    OBVIOUS
  <2>2. PICK l \in Nat : l = n - y /\ n - l = y
    <3>1. n - y \in Nat /\ n - (n - y) = y
      BY <2>1
    <3> QED
      BY <3>1
  <2>3. l \in T
    BY <2>2
  <2>4. k <= l
    BY <1>3, <2>3
  <2> HIDE DEF T
  <2> QED
    BY <1>4, <2>1, <2>2, <2>4
<1> QED
  BY <1>4, <1>5

\* Two lists that are the same below k.
AgreeBelow(u, w, k) == \A j \in Nat : j >= 1 /\ j < k => j <= Len(u) /\ u[j] = w[j]

\* If two such lists agree below k, the second has an element there, which is
\* no greater.
LEMMA ListsAgree ==
  ASSUME NEW S, NEW n \in Nat, NEW u, Lists(u, S, n), NEW w, Lists(w, S, n),
         NEW k \in Nat, k >= 1, k <= Len(u), AgreeBelow(u, w, k)
  PROVE  k <= Len(w) /\ w[k] <= u[k] /\ u[k] \in Nat /\ w[k] \in Nat
<1>1. u \in Seq(1 .. n) /\ w \in Seq(1 .. n)
  BY DEF Lists
<1>2. PICK lu \in Nat, lw \in Nat : lu = Len(u) /\ lw = Len(w)
  BY <1>1
<1>3. /\ \A j \in 1 .. lu : u[j] \in 1 .. n
      /\ \A j \in 1 .. lw : w[j] \in 1 .. n
  <2>1. PICK T : T = 1 .. n
    OBVIOUS
  <2>2. u \in Seq(T) /\ w \in Seq(T)
    BY <1>1, <2>1
  <2>3. (\A j \in 1 .. lu : u[j] \in T) /\ (\A j \in 1 .. lw : w[j] \in T)
    BY <1>2, <2>2
  <2> QED
    BY <2>1, <2>3
<1>4. k \in 1 .. lu
  BY <1>2
<1>5. PICK j \in 1 .. lw : w[j] = u[k]
  BY <1>2, <1>3, <1>4 DEF Lists
<1>6. k <= j
  <2>1. SUFFICES ASSUME j < k PROVE FALSE
    OBVIOUS
  <2>2. j \in Nat /\ j >= 1 /\ j < k
    BY <2>1
  <2>3. j \in 1 .. lu /\ u[j] = w[j]
    BY <1>2, <2>2 DEF AgreeBelow
  <2>4. u[j] < u[k]
    BY <1>2, <1>4, <2>2, <2>3 DEF Lists
  <2>5. u[j] \in Nat /\ u[k] \in Nat
    BY <1>3, <1>4, <2>3
  <2> QED
    BY <1>5, <2>3, <2>4, <2>5
<1>7. k \in 1 .. lw
  BY <1>4, <1>6
<1>8. k = j \/ w[k] < w[j]
  BY <1>2, <1>6, <1>7 DEF Lists
<1>9. u[k] \in Nat /\ w[k] \in Nat
  BY <1>3, <1>4, <1>7
<1> QED
  BY <1>2, <1>5, <1>7, <1>8, <1>9

\* There is one such list.
LEMMA ListsUnique ==
  ASSUME NEW S, NEW n \in Nat, NEW s, Lists(s, S, n), NEW t, Lists(t, S, n)
  PROVE  s = t
<1>1. s \in Seq(1 .. n) /\ t \in Seq(1 .. n)
  BY DEF Lists
<1>2. PICK ls \in Nat, lt \in Nat : ls = Len(s) /\ lt = Len(t)
  BY <1>1
<1> DEFINE Same(k) == (k <= ls => k <= lt /\ s[k] = t[k]) /\ (k <= lt => k <= ls /\ s[k] = t[k])
           U == {k \in Nat : \A j \in 1 .. k : Same(j)}
<1>3. 0 \in U
  OBVIOUS
<1>4. ASSUME NEW k \in U PROVE k + 1 \in U
  <2>1. k \in Nat /\ \A j \in 1 .. k : Same(j)
    OBVIOUS
  <2>2. PICK m \in Nat : m = k + 1 /\ m >= 1
    BY <2>1
  <2>3. \A j \in Nat : j >= 1 /\ j < m => j \in 1 .. k
    BY <2>1, <2>2
  <2> HIDE DEF U
  <2>4. ASSUME m <= ls PROVE m <= lt /\ t[m] <= s[m] /\ s[m] \in Nat /\ t[m] \in Nat
    <3>1. ASSUME NEW j \in Nat, j >= 1, j < m PROVE j <= Len(s) /\ s[j] = t[j]
      <4>1. j \in 1 .. k /\ j <= ls
        BY <2>3, <2>4, <3>1
      <4>2. Same(j)
        BY <2>1, <4>1
      <4> QED
        BY <1>2, <4>1, <4>2
    <3>2. m <= Len(s) /\ AgreeBelow(s, t, m)
      BY <1>2, <2>4, <3>1 DEF AgreeBelow
    <3> HIDE DEF Same
    <3>3. m <= Len(t) /\ t[m] <= s[m] /\ s[m] \in Nat /\ t[m] \in Nat
      BY <2>2, <3>2, ListsAgree
    <3> QED
      BY <1>2, <3>3
  <2>5. ASSUME m <= lt PROVE m <= ls /\ s[m] <= t[m] /\ s[m] \in Nat /\ t[m] \in Nat
    <3>1. ASSUME NEW j \in Nat, j >= 1, j < m PROVE j <= Len(t) /\ t[j] = s[j]
      <4>1. j \in 1 .. k /\ j <= lt
        BY <2>3, <2>5, <3>1
      <4>2. Same(j)
        BY <2>1, <4>1
      <4> QED
        BY <1>2, <4>1, <4>2
    <3>2. m <= Len(t) /\ AgreeBelow(t, s, m)
      BY <1>2, <2>5, <3>1 DEF AgreeBelow
    <3> HIDE DEF Same
    <3>3. m <= Len(s) /\ s[m] <= t[m] /\ s[m] \in Nat /\ t[m] \in Nat
      BY <2>2, <3>2, ListsAgree
    <3> QED
      BY <1>2, <3>3
  <2>6. Same(m)
    BY <2>4, <2>5
  <2>7. ASSUME NEW j \in 1 .. m PROVE Same(j)
    <3>1. j = m \/ j \in 1 .. k
      BY <2>1, <2>2
    <3> HIDE DEF Same
    <3> QED
      BY <2>1, <2>6, <3>1
  <2> HIDE DEF Same
  <2> QED
    BY <2>2, <2>7 DEF U
<1>5. U \in SUBSET Nat
  OBVIOUS
<1> HIDE DEF U, Same
<1>6. U = Nat
  BY <1>3, <1>4, <1>5, InductiveSet
<1>7. ASSUME NEW k \in Nat, k >= 1 PROVE Same(k)
  <2>1. k \in U /\ k \in 1 .. k
    BY <1>6, <1>7
  <2> QED
    BY <2>1 DEF U
<1>8. ls = lt
  <2>1. ls >= 1 => ls <= lt
    BY <1>7 DEF Same
  <2>2. lt >= 1 => lt <= ls
    BY <1>7 DEF Same
  <2> QED
    BY <2>1, <2>2
<1>9. \A k \in 1 .. ls : s[k] = t[k]
  BY <1>7 DEF Same
<1>10. s = [k \in 1 .. ls |-> s[k]] /\ t = [k \in 1 .. lt |-> t[k]]
  BY <1>1, <1>2
<1>11. [k \in 1 .. ls |-> s[k]] = [k \in 1 .. lt |-> t[k]]
  BY <1>8, <1>9
<1> QED
  BY <1>10, <1>11
===============================================================================
