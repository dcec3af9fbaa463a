--------------------------- MODULE EvalFramesProofs ---------------------------
(***************************************************************************)
(* Proofs about EvalFrames, for every set of members, every hash function  *)
(* and every first size of the index and of the array of frames.           *)
(*                                                                         *)
(* Two arguments meet.  The first is about one frame: as long as its list  *)
(* was not cut, every probing loop ends at the key it looks for, or at a   *)
(* free slot when the key is not listed (IndexOK).  The second is about    *)
(* the frames together: what an application found when it began is kept by *)
(* the frame below until it returns (Linked), so that the error signal,    *)
(* the list and the mute level can be split between the open applications. *)
(***************************************************************************)
EXTENDS EvalFrames, NatRecursion, FiniteSetTheorems

SlotType == [key : Key \cup {NoKey}, stamp : Int]
FrameType ==
  [inst : {"table", "member"}, mode : {"plain", "trial", "free"}, key : Key \cup {NoKey},
   p0 : Nat, n0 : Nat, keys : Seq(Key), hash : Seq(SlotType), step : 1 .. 4,
   left : SUBSET Key, ptr : Nat, real : SUBSET Key, real0 : SUBSET Key,
   bad : BOOLEAN, cut : BOOLEAN]

Listed(keys, k) == \E j \in 1 .. Len(keys) : keys[j] = k

\* A probing loop for k ends at k.
Reached(h, k) ==
  \E i \in 0 .. Len(h) - 1 :
    /\ h[Slot(h, k, i)].key = k /\ h[Slot(h, k, i)].stamp # -1
    /\ \A j \in 0 .. i - 1 : h[Slot(h, k, j)].stamp # -1

\* Every slot is of the list, and current.
Current(h, keys) ==
  \A s \in 1 .. Len(h) :
    h[s].stamp # -1 => h[s].stamp \in 0 .. Len(keys) - 1 /\ Listed(keys, h[s].key)

IndexOK(h, keys) ==
  \/ h = << >> /\ keys = << >>
  \/ h # << >> /\ Current(h, keys) /\ \A k \in Key : Listed(keys, k) => Reached(h, k)

\* The list is what the standard says; only trials, step 3, cut it.
FrameOK(f) ==
  /\ \A k \in Key : Listed(f.keys, k) <=> k \in f.real
  /\ f.cut => f.step >= 3
  /\ f.step = 4 => f.inst = "table"
  /\ ~f.cut => IndexOK(f.hash, f.keys)

\* What the application g found in the frame f below it when it began.
Linked(f, g) ==
  /\ f.bad <=> g.p0 > f.p0
  /\ g.n0 = Len(f.keys) /\ g.real0 = f.real
  /\ g.key = NoKey => g.inst = f.inst
  /\ g.key # NoKey =>
       /\ g.inst = "member" /\ f.inst = "table" /\ g.mode = "plain"
       /\ f.step = 2 \/ ~Seen(f, g.key)
  /\ g.mode # "plain" => f.step = 3

\* Errors are reported for applications inside no trial.
Trials(fs) == {i \in 1 .. Len(fs) : fs[i].mode # "plain"}
Open(fs, i) == \A j \in 1 .. i : fs[j].mode = "plain"
Reports(fs, e) == e = 0 <=> \A i \in 1 .. Len(fs) : Open(fs, i) => ~fs[i].bad

Walk(fs) ==
  /\ fs \in Seq(FrameType) /\ Len(fs) >= 1 /\ fs[1].mode = "plain"
  /\ \A i \in 1 .. Len(fs) : FrameOK(fs[i])
  /\ \A i \in 1 .. Len(fs) - 1 : Linked(fs[i], fs[i + 1])
  /\ \A i, j \in 1 .. Len(fs) : i <= j => fs[i].p0 <= fs[j].p0

IInv ==
  /\ Walk(frames)
  /\ pings \in Nat /\ pings >= Top.p0 /\ (Top.bad <=> pings > Top.p0)
  /\ mute = Cardinality(Trials(frames))
  /\ errs \in Nat /\ Reports(frames, errs)
  /\ cap \in Nat /\ Len(frames) <= cap /\ moved \in Nat
  /\ pc \in {"run", "spin", "done"} /\ (pc = "done" => Len(frames) = 1)

-------------------------------------------------------------------------------
(***************************************************************************)
(* One frame's index.  A probing loop visits every slot.                   *)
(***************************************************************************)
LEMMA SlotRange ==
  ASSUME NEW h \in Seq(SlotType), h # << >>, NEW k \in Key, NEW i \in Nat
  PROVE  Slot(h, k, i) \in 1 .. Len(h)
<1>1. PICK n \in Nat : n = Len(h) /\ n > 0
  OBVIOUS
<1>2. PICK x \in Nat : x = Hash[k]
  BY EvalAssumption
<1>3. (x + i) % n \in 0 .. n - 1
  <2>1. PICK y \in Nat : y = x + i
    OBVIOUS
  <2> QED
    BY <1>1, <2>1
<1> QED
  BY SMTT(30), <1>1, <1>2, <1>3 DEF Slot

\* A remainder is determined by any quotient that leaves one.
LEMMA ModUnique ==
  ASSUME NEW n \in Nat, n > 0, NEW q \in Int, NEW t \in 0 .. n - 1, NEW y \in Nat, y = q * n + t
  PROVE  y % n = t
<1>1. PICK d, m \in Int : d = y \div n /\ m = y % n
  OBVIOUS
<1>2. y = d * n + m /\ 0 <= m /\ m < n
  BY <1>1
<1>3. CASE d > q
  <2>1. PICK e \in Nat : d = q + 1 + e
    <3>1. d - q - 1 \in Nat /\ d = q + 1 + (d - q - 1)
      BY <1>3
    <3> QED
      BY <3>1
  <2>2. d * n = q * n + n + e * n /\ e * n >= 0
    BY <2>1
  <2> QED
    BY <1>2, <2>2
<1>4. CASE d < q
  <2>1. PICK e \in Nat : q = d + 1 + e
    <3>1. q - d - 1 \in Nat /\ q = d + 1 + (q - d - 1)
      BY <1>4
    <3> QED
      BY <3>1
  <2>2. q * n = d * n + n + e * n /\ e * n >= 0
    BY <2>1
  <2> QED
    BY <1>2, <2>2
<1>5. CASE d = q
  BY <1>1, <1>2, <1>5
<1> QED
  BY <1>3, <1>4, <1>5

\* Every slot is met within Len(h) steps.
LEMMA SlotMet ==
  ASSUME NEW h \in Seq(SlotType), h # << >>, NEW k \in Key, NEW s \in 1 .. Len(h)
  PROVE  \E i \in 0 .. Len(h) - 1 : Slot(h, k, i) = s
<1>1. PICK n \in Nat : n = Len(h) /\ n > 0
  OBVIOUS
<1>2. PICK x \in Nat : x = Hash[k]
  BY EvalAssumption
<1>3. PICK q, r \in Int : x = q * n + r /\ 0 <= r /\ r < n
  <2>1. PICK d, m \in Int : d = x \div n /\ m = x % n
    BY <1>1
  <2>2. x = d * n + m /\ 0 <= m /\ m < n
    BY <1>1, <2>1
  <2> QED
    BY <2>2
<1>4. PICK t \in 0 .. n - 1 : s = t + 1
  <2>1. s - 1 \in 0 .. n - 1 /\ s = (s - 1) + 1
    BY <1>1
  <2> QED
    BY <2>1
<1>5. CASE t >= r
  <2>1. PICK i \in 0 .. n - 1 : i = t - r
    BY <1>1, <1>3, <1>4, <1>5
  <2>2. PICK y \in Nat : y = x + i
    OBVIOUS
  <2>3. y = q * n + t
    BY <1>3, <2>1, <2>2
  <2>4. y % n = t
    BY SMTT(30), <1>1, <2>3, ModUnique
  <2> QED
    BY <1>1, <1>2, <1>4, <2>2, <2>4 DEF Slot
<1>6. CASE t < r
  <2>1. PICK i \in 0 .. n - 1 : i = t - r + n
    <3>1. t - r + n \in 0 .. n - 1
      BY <1>1, <1>3, <1>4, <1>6
    <3> QED
      BY <3>1
  <2>2. PICK y \in Nat : y = x + i
    OBVIOUS
  <2>3. PICK p \in Int : p = q + 1
    OBVIOUS
  <2>4. y = p * n + t
    <3>1. p * n = q * n + n
      BY <2>3
    <3> QED
      BY <1>3, <2>1, <2>2, <3>1
  <2>5. y % n = t
    BY SMTT(30), <1>1, <2>4, ModUnique
  <2> QED
    BY <1>1, <1>2, <1>4, <2>2, <2>5 DEF Slot
<1> QED
  BY <1>3, <1>4, <1>5, <1>6

\* The loop that fills a slot ends at the first free one.
LEMMA FreeFound ==
  ASSUME NEW h \in Seq(SlotType), NEW k \in Key, ~Full(h)
  PROVE  \E i \in 0 .. Len(h) - 1 :
           /\ FirstFree(h, k) = Slot(h, k, i) /\ h[Slot(h, k, i)].stamp = -1
           /\ \A j \in 0 .. i - 1 : h[Slot(h, k, j)].stamp # -1
<1> DEFINE P(i) == /\ h[Slot(h, k, i)].stamp = -1
                   /\ \A j \in 0 .. i - 1 : h[Slot(h, k, j)].stamp # -1
           T == {i \in 0 .. Len(h) - 1 : h[Slot(h, k, i)].stamp = -1}
<1>1. PICK s \in 1 .. Len(h) : h[s].stamp = -1
  BY DEF Full
<1>2. h # << >>
  BY <1>1
<1>3. PICK x \in 0 .. Len(h) - 1 : Slot(h, k, x) = s
  BY <1>2, SlotMet
<1>4. T \in SUBSET Nat /\ T # {}
  BY <1>1, <1>3
<1>5. PICK i \in T : \A j \in T : i <= j
  <2> HIDE DEF T
  <2> QED
    BY <1>4, LeastNat
<1>6. ASSUME NEW j \in 0 .. i - 1 PROVE h[Slot(h, k, j)].stamp # -1
  <2>1. j \in 0 .. Len(h) - 1 /\ ~(i <= j)
    <3>1. i \in 0 .. Len(h) - 1 /\ Len(h) \in Nat
      OBVIOUS
    <3> HIDE DEF T
    <3> QED
      BY <3>1
  <2> QED
    BY <1>5, <2>1
<1>7. i \in 0 .. Len(h) - 1 /\ P(i)
  BY <1>5, <1>6
<1>8. PICK c : c = (CHOOSE d \in 0 .. Len(h) - 1 : P(d))
  OBVIOUS
<1>9. c \in 0 .. Len(h) - 1 /\ P(c)
  <2> HIDE DEF P
  <2> QED
    BY <1>7, <1>8
<1>10. FirstFree(h, k) = Slot(h, k, c)
  BY <1>8 DEF FirstFree
<1> QED
  BY <1>9, <1>10

\* Filling a slot hides no key from the loops that end at it.
LEMMA PlaceFacts ==
  ASSUME NEW h \in Seq(SlotType), NEW k \in Key, ~Full(h), NEW stamp \in Nat,
         NEW p, p = Place(h, k, stamp)
  PROVE  /\ p \in Seq(SlotType) /\ p # << >> /\ Len(p) = Len(h) /\ Reached(p, k)
         /\ \A k2 \in Key : Reached(h, k2) => Reached(p, k2)
         /\ \E f \in 1 .. Len(h) : /\ h[f].stamp = -1 /\ p[f] = [key |-> k, stamp |-> stamp]
                                   /\ \A s \in 1 .. Len(h) : s # f => p[s] = h[s]
<1>1. PICK i \in 0 .. Len(h) - 1 :
        /\ FirstFree(h, k) = Slot(h, k, i) /\ h[Slot(h, k, i)].stamp = -1
        /\ \A j \in 0 .. i - 1 : h[Slot(h, k, j)].stamp # -1
  BY FreeFound
<1>2. h # << >> /\ Len(h) \in Nat /\ i \in Nat
  BY <1>1
<1>3. PICK f \in 1 .. Len(h) : f = Slot(h, k, i)
  BY <1>2, SlotRange
<1>4. PICK new \in SlotType : new = [key |-> k, stamp |-> stamp]
  <2>1. stamp \in Int /\ k \in Key \cup {NoKey}
    OBVIOUS
  <2>2. [key |-> k, stamp |-> stamp] \in SlotType
    BY <2>1 DEF SlotType
  <2> QED
    BY <2>2
<1>5. p = [h EXCEPT ![f] = new]
  BY <1>1, <1>3, <1>4 DEF Place
<1>6. /\ p \in Seq(SlotType) /\ Len(p) = Len(h) /\ p[f] = new
      /\ \A s \in 1 .. Len(h) : s # f => p[s] = h[s]
  BY <1>3, <1>4, <1>5
<1>7. \A k2, j : Slot(p, k2, j) = Slot(h, k2, j)
  BY <1>6 DEF Slot
<1>8. new.key = k /\ new.stamp # -1 /\ h[f].stamp = -1
  BY <1>1, <1>3, <1>4
<1>9. ASSUME NEW s \in 1 .. Len(h), h[s].stamp # -1 PROVE p[s] = h[s] /\ p[s].stamp # -1
  BY <1>6, <1>8, <1>9
<1>10. Reached(p, k)
  <2>1. ASSUME NEW j \in 0 .. i - 1 PROVE p[Slot(p, k, j)].stamp # -1
    <3>1. j \in Nat
      BY <1>2
    <3>2. Slot(h, k, j) \in 1 .. Len(h)
      BY <1>2, <3>1, SlotRange
    <3> QED
      BY <1>1, <1>7, <1>9, <3>2
  <2>2. p[Slot(p, k, i)] = new
    BY <1>3, <1>6, <1>7
  <2>3. i \in 0 .. Len(p) - 1
    BY <1>6
  <2> QED
    BY <1>8, <2>1, <2>2, <2>3 DEF Reached
<1>11. ASSUME NEW k2 \in Key, Reached(h, k2) PROVE Reached(p, k2)
  <2>1. PICK x \in 0 .. Len(h) - 1 :
          /\ h[Slot(h, k2, x)].key = k2 /\ h[Slot(h, k2, x)].stamp # -1
          /\ \A j \in 0 .. x - 1 : h[Slot(h, k2, j)].stamp # -1
    BY <1>11 DEF Reached
  <2>2. ASSUME NEW j \in 0 .. x PROVE Slot(h, k2, j) \in 1 .. Len(h)
    <3>1. j \in Nat
      BY <1>2, <2>1
    <3> QED
      BY <1>2, <3>1, SlotRange
  <2>3. x \in 0 .. x /\ 0 .. x - 1 \subseteq 0 .. x /\ x \in 0 .. Len(p) - 1
    BY <1>2, <1>6
  <2>4. p[Slot(p, k2, x)].key = k2 /\ p[Slot(p, k2, x)].stamp # -1
    BY <1>7, <1>9, <2>1, <2>2, <2>3
  <2>5. ASSUME NEW j \in 0 .. x - 1 PROVE p[Slot(p, k2, j)].stamp # -1
    BY <1>7, <1>9, <2>1, <2>2, <2>3
  <2> QED
    BY <2>3, <2>4, <2>5 DEF Reached
<1>12. p # << >>
  BY <1>2, <1>6
<1> QED
  BY <1>4, <1>6, <1>8, <1>10, <1>11, <1>12

\* A slot for a listed key, with a stamp of now, keeps the index current.
LEMMA PlaceCurrent ==
  ASSUME NEW h \in Seq(SlotType), NEW k \in Key, ~Full(h), NEW keys \in Seq(Key),
         NEW stamp \in 0 .. Len(keys) - 1, NEW p, p = Place(h, k, stamp),
         Current(h, keys), Listed(keys, k)
  PROVE  Current(p, keys)
<1>1. stamp \in Nat
  OBVIOUS
<1>2. PICK f \in 1 .. Len(h) : /\ p[f] = [key |-> k, stamp |-> stamp] /\ Len(p) = Len(h)
                               /\ \A s \in 1 .. Len(h) : s # f => p[s] = h[s]
  BY <1>1, PlaceFacts
<1>3. ASSUME NEW s \in 1 .. Len(p), p[s].stamp # -1
      PROVE  p[s].stamp \in 0 .. Len(keys) - 1 /\ Listed(keys, p[s].key)
  <2>1. CASE s = f
    BY <1>2, <2>1
  <2>2. CASE s # f
    BY <1>2, <1>3, <2>2 DEF Current
  <2> QED
    BY <2>1, <2>2
<1> QED
  BY <1>3 DEF Current

-------------------------------------------------------------------------------
(***************************************************************************)
(* frame_khash_build.  The doubling loop ends, with room for every key.    *)
(***************************************************************************)
Small(c, m) == (c * 7) \div 10 < m + 1

\* What the loop returns from c on, as a function of c.
IsSize(g, m) == g = [c \in Nat |-> IF Small(c, m) THEN g[2 * c] ELSE c]

\* The recursion that Build states has a solution,
LEMMA SizeExists ==
  ASSUME NEW m \in Nat
  PROVE  \E g : IsSize(g, m)
<1> DEFINE S == [Nat -> Nat]
           id == [c \in Nat |-> c]
           F == [p \in S \X Nat |-> [c \in Nat |-> IF Small(c, m) THEN p[1][2 * c] ELSE c]]
           B == 2 * m + 4
<1>1. \A c \in Nat : c >= B => ~Small(c, m)
  BY DEF Small
<1>2. id \in S /\ F \in [S \X Nat -> S] /\ B \in Nat
  <2>1. ASSUME NEW p \in S \X Nat
        PROVE  [c \in Nat |-> IF Small(c, m) THEN p[1][2 * c] ELSE c] \in S
    <3>1. p[1] \in [Nat -> Nat]
      OBVIOUS
    <3>2. \A c \in Nat : 2 * c \in Nat
      OBVIOUS
    <3> QED
      BY <3>1, <3>2
  <2> QED
    BY <2>1
<1>3. \A g \in S, n \in Nat, c \in Nat : F[<<g, n>>][c] = IF Small(c, m) THEN g[2 * c] ELSE c
  OBVIOUS
<1> HIDE DEF F, B
<1>4. PICK f \in [Nat -> S] : Iterates(f, id, F)
  BY <1>2, RecursiveFunction
<1>5. /\ \A c \in Nat : f[0][c] = c
      /\ \A n, c \in Nat : f[n + 1][c] = IF Small(c, m) THEN f[n][2 * c] ELSE c
  <2>1. f[0] = id
    BY <1>4 DEF Iterates
  <2>2. ASSUME NEW n \in Nat, NEW c \in Nat
        PROVE  f[n + 1][c] = IF Small(c, m) THEN f[n][2 * c] ELSE c
    <3>1. f[n + 1] = F[<<f[n], n + 1>>]
      BY <1>4 DEF Iterates
    <3>2. f[n] \in S /\ n + 1 \in Nat
      OBVIOUS
    <3> HIDE DEF S
    <3>3. F[<<f[n], n + 1>>][c] = IF Small(c, m) THEN f[n][2 * c] ELSE c
      BY <1>3, <3>2
    <3> QED
      BY <3>1, <3>3
  <2> QED
    BY <2>1, <2>2
<1> DEFINE T == {n \in Nat : \A c \in Nat : c >= 1 /\ n + c >= B => f[n + 1][c] = f[n][c]}
<1>6. T = Nat
  <2>1. 0 \in T
    <3>1. ASSUME NEW c \in Nat, 0 + c >= B PROVE f[0 + 1][c] = f[0][c]
      <4>1. ~Small(c, m)
        BY <1>1, <1>2, <3>1
      <4>2. f[0 + 1][c] = c
        BY <1>5, <4>1
      <4> QED
        BY <1>5, <4>2
    <3> QED
      BY <3>1
  <2>2. ASSUME NEW n \in T PROVE n + 1 \in T
    <3>1. ASSUME NEW c \in Nat, c >= 1, (n + 1) + c >= B
          PROVE  f[(n + 1) + 1][c] = f[n + 1][c]
      <4>1. n \in Nat /\ n + 1 \in Nat /\ 2 * c \in Nat /\ 2 * c >= 1 /\ n + 2 * c >= B
        BY <1>2, <3>1
      <4>2. f[n + 1][2 * c] = f[n][2 * c]
        BY <4>1
      <4>3. /\ f[n + 1][c] = IF Small(c, m) THEN f[n][2 * c] ELSE c
            /\ f[(n + 1) + 1][c] = IF Small(c, m) THEN f[n + 1][2 * c] ELSE c
        BY <1>5, <4>1
      <4> QED
        BY <4>2, <4>3
    <3> QED
      BY <3>1
  <2>3. T \in SUBSET Nat
    OBVIOUS
  <2> HIDE DEF T
  <2> QED
    BY <2>1, <2>2, <2>3, InductiveSet
<1> DEFINE g == f[B]
<1>7. ASSUME NEW c \in Nat PROVE g[c] = IF Small(c, m) THEN g[2 * c] ELSE c
  <2>1. CASE c = 0
    <3>1. Small(c, m) /\ 2 * c = c
      BY <2>1 DEF Small
    <3> QED
      BY <3>1
  <2>2. CASE c # 0
    <3>1. c >= 1 /\ B + c >= B
      BY <1>2, <2>2
    <3>2. f[B + 1][c] = f[B][c]
      <4>1. B \in T
        BY <1>2, <1>6
      <4> QED
        BY <3>1, <4>1
    <3>3. f[B + 1][c] = IF Small(c, m) THEN f[B][2 * c] ELSE c
      BY <1>2, <1>5
    <3> QED
      BY <3>2, <3>3
  <2> QED
    BY <2>1, <2>2
<1>8. g \in [Nat -> Nat]
  BY <1>2
<1> HIDE DEF g
<1>9. g = [c \in Nat |-> IF Small(c, m) THEN g[2 * c] ELSE c]
  BY <1>7, <1>8
<1> QED
  BY <1>9 DEF IsSize

\* and each solution is a number of slots that the list fits into.
LEMMA SizeFacts ==
  ASSUME NEW m \in Nat, NEW g, IsSize(g, m), NEW c0 \in Nat, c0 > 0
  PROVE  g[c0] \in Nat /\ g[c0] > m /\ ~Small(g[c0], m)
<1> DEFINE B == 2 * m + 4
           T == {n \in Nat : \A c \in Nat : c >= 1 /\ n + c >= B => g[c] \in Nat /\ ~Small(g[c], m)}
<1>1. \A c \in Nat : g[c] = IF Small(c, m) THEN g[2 * c] ELSE c
  BY DEF IsSize
<1>2. \A c \in Nat : c >= B => ~Small(c, m)
  BY DEF Small
<1>3. B \in Nat
  OBVIOUS
<1> HIDE DEF B
<1>4. T = Nat
  <2>1. 0 \in T
    BY <1>1, <1>2, <1>3
  <2>2. ASSUME NEW n \in T PROVE n + 1 \in T
    <3>1. ASSUME NEW c \in Nat, c >= 1, (n + 1) + c >= B PROVE g[c] \in Nat /\ ~Small(g[c], m)
      <4>1. 2 * c \in Nat /\ 2 * c >= 1 /\ n + 2 * c >= B
        BY <1>3, <3>1
      <4>2. g[2 * c] \in Nat /\ ~Small(g[2 * c], m)
        BY <4>1
      <4> QED
        BY <1>1, <4>2
    <3> QED
      BY <3>1
  <2>3. T \in SUBSET Nat
    OBVIOUS
  <2> HIDE DEF T
  <2> QED
    BY <2>1, <2>2, <2>3, InductiveSet
<1>5. g[c0] \in Nat /\ ~Small(g[c0], m)
  <2>1. B \in T /\ c0 >= 1 /\ B + c0 >= B
    BY <1>3, <1>4
  <2> QED
    BY <2>1
<1>6. g[c0] > m
  <2>1. PICK n \in Nat : n = g[c0]
    BY <1>5
  <2> QED
    BY <1>5, <2>1 DEF Small
<1> QED
  BY <1>5, <1>6

\* A filled slot is of the type of slots, wherever it is.
LEMMA PlaceType ==
  ASSUME NEW n \in Nat, NEW h \in [1 .. n -> SlotType], NEW k \in Key, NEW stamp \in Int
  PROVE  Place(h, k, stamp) \in [1 .. n -> SlotType]
<1>1. [key |-> k, stamp |-> stamp] \in SlotType
  BY DEF SlotType
<1> QED
  BY <1>1 DEF Place

\* Build places the keys of the list one by one in an empty index.
BuiltBy(keys, n, f) ==
  /\ n \in Nat /\ n > Len(keys) /\ ~Small(n, Len(keys))
  /\ f \in [0 .. Len(keys) -> [1 .. n -> SlotType]]
  /\ f[0] = [s \in 1 .. n |-> Free]
  /\ \A i \in 1 .. Len(keys) : f[i] = Place(f[i - 1], keys[i], i - 1)

\* frame_khash_build is such a sequence of stores.
LEMMA BuildIs ==
  ASSUME NEW keys \in Seq(Key)
  PROVE  \E n, f : BuiltBy(keys, n, f) /\ Build(keys) = f[Len(keys)]
<1> DEFINE L == Len(keys)
           size == CHOOSE g : g = [c \in Nat |-> IF (c * 7) \div 10 < L + 1 THEN g[2 * c] ELSE c]
           n == size[Cap0]
           put == CHOOSE p : p = [i \in 0 .. L |-> IF i = 0 THEN [s \in 1 .. n |-> Free]
                                                   ELSE Place(p[i - 1], keys[i], i - 1)]
           S == [1 .. n -> SlotType]
           F == [p \in S \X Nat |-> IF p[2] \in 1 .. L THEN Place(p[1], keys[p[2]], p[2] - 1) ELSE p[1]]
           empty == [s \in 1 .. n |-> Free]
<1>1. Build(keys) = put[L]
  BY DEF Build
<1>2. L \in Nat /\ \A i \in 1 .. L : keys[i] \in Key
  OBVIOUS
<1>3. n \in Nat /\ n > L /\ ~Small(n, L)
  <2>1. IsSize(size, L)
    <3>1. \E g : IsSize(g, L)
      BY <1>2, SizeExists
    <3> QED
      BY <3>1 DEF IsSize, Small
  <2> HIDE DEF size
  <2> QED
    BY <1>2, <2>1, SizeFacts, EvalAssumption
<1> HIDE DEF size, n, L
<1>4. F \in [S \X Nat -> S]
  <2>1. ASSUME NEW h \in S, NEW i \in 1 .. L PROVE Place(h, keys[i], i - 1) \in S
    <3>1. keys[i] \in Key /\ i - 1 \in Int
      BY <1>2
    <3>2. PICK k, st : k = keys[i] /\ st = i - 1
      OBVIOUS
    <3>3. Place(h, k, st) \in S
      BY <1>3, <3>1, <3>2, PlaceType
    <3> QED
      BY <3>2, <3>3
  <2>2. ASSUME NEW p \in S \X Nat
        PROVE  (IF p[2] \in 1 .. L THEN Place(p[1], keys[p[2]], p[2] - 1) ELSE p[1]) \in S
    <3>1. p[1] \in S
      OBVIOUS
    <3> HIDE DEF S
    <3> QED
      BY <2>1, <3>1
  <2> HIDE DEF S
  <2> QED
    BY <2>2
<1>5. empty \in S
  <2>1. Free \in SlotType
    BY DEF Free, SlotType
  <2> QED
    BY <2>1
<1>6. \A h \in S, i \in 1 .. L : F[<<h, i>>] = Place(h, keys[i], i - 1)
  <2> HIDE DEF S
  <2>1. ASSUME NEW h \in S, NEW i \in 1 .. L PROVE F[<<h, i>>] = Place(h, keys[i], i - 1)
    <3>1. <<h, i>> \in S \X Nat
      BY <1>2
    <3> QED
      BY <3>1
  <2> QED
    BY <2>1
<1> HIDE DEF F, S, empty
<1>7. PICK f \in [0 .. L -> S] : f = [i \in 0 .. L |-> IF i = 0 THEN empty ELSE F[<<f[i - 1], i>>]]
  <2>1. \E f \in [0 .. L -> S] : IteratesUpTo(f, empty, F, L)
    BY <1>2, <1>4, <1>5, RecursiveUpTo
  <2> QED
    BY <2>1 DEF IteratesUpTo
<1>8. ASSUME NEW i \in 0 .. L
      PROVE  f[i] = IF i = 0 THEN empty ELSE Place(f[i - 1], keys[i], i - 1)
  <2>1. f[i] = IF i = 0 THEN empty ELSE F[<<f[i - 1], i>>]
    BY <1>7
  <2>2. i # 0 => i \in 1 .. L /\ i - 1 \in 0 .. L
    BY <1>2
  <2>3. i # 0 => f[i - 1] \in S
    BY <2>2
  <2> QED
    BY <1>6, <2>1, <2>2, <2>3
<1>9. f = [i \in 0 .. L |-> IF i = 0 THEN empty ELSE Place(f[i - 1], keys[i], i - 1)]
  BY <1>7, <1>8
<1>10. put = [i \in 0 .. L |-> IF i = 0 THEN empty ELSE Place(put[i - 1], keys[i], i - 1)]
  BY <1>9 DEF empty
<1> HIDE DEF put
<1>11. put \in [0 .. L -> S]
  <2> DEFINE T == {i \in Nat : i <= L => put[i] \in S}
  <2>1. 0 \in T
    BY <1>2, <1>5, <1>10
  <2>2. ASSUME NEW i \in T PROVE i + 1 \in T
    <3>1. ASSUME i + 1 <= L PROVE put[i + 1] \in S
      <4>1. i + 1 \in 0 .. L /\ i + 1 # 0 /\ (i + 1) - 1 = i /\ i <= L /\ i + 1 \in 1 .. L
        BY <1>2, <3>1
      <4>2. put[i + 1] = Place(put[i], keys[i + 1], i)
        BY <1>10, <4>1
      <4>3. put[i] \in S
        BY <4>1
      <4>4. F[<<put[i], i + 1>>] = Place(put[i], keys[i + 1], (i + 1) - 1)
        BY <1>6, <4>1, <4>3
      <4>5. F[<<put[i], i + 1>>] \in S
        BY <1>4, <4>3
      <4> QED
        BY <4>1, <4>2, <4>4, <4>5
    <3> QED
      BY <3>1
  <2>3. T \in SUBSET Nat
    OBVIOUS
  <2> HIDE DEF T
  <2>4. T = Nat
    BY <2>1, <2>2, <2>3, InductiveSet
  <2>5. \A i \in 0 .. L : put[i] \in S
    BY <1>2, <2>4 DEF T
  <2> QED
    BY <1>10, <2>5
<1>12. put[0] = empty /\ \A i \in 1 .. L : put[i] = Place(put[i - 1], keys[i], i - 1)
  <2>1. 0 \in 0 .. L /\ \A i \in 1 .. L : i \in 0 .. L /\ i # 0
    BY <1>2
  <2> QED
    BY <1>10, <2>1
<1>13. BuiltBy(keys, n, put)
  BY <1>3, <1>11, <1>12 DEF BuiltBy, L, S, empty
<1> QED
  BY <1>1, <1>13 DEF L

Filled(h) == {s \in 1 .. Len(h) : h[s].stamp # -1}

\* An index with fewer keys than slots has a free one.
LEMMA NotFull ==
  ASSUME NEW h \in Seq(SlotType), Cardinality(Filled(h)) < Len(h)
  PROVE  ~Full(h)
<1> SUFFICES ASSUME Full(h) PROVE FALSE
  OBVIOUS
<1>1. Filled(h) = 1 .. Len(h)
  BY DEF Full, Filled
<1>2. PICK n \in Nat : n = Len(h)
  OBVIOUS
<1>3. Cardinality(1 .. n) = n
  <2>1. Cardinality(1 .. n) = IF 1 > n THEN 0 ELSE n - 1 + 1
    BY FS_Interval
  <2> QED
    BY <2>1
<1> QED
  BY <1>1, <1>2, <1>3

\* Each insertion fills one slot.
LEMMA PlaceFills ==
  ASSUME NEW h \in Seq(SlotType), NEW k \in Key, ~Full(h), NEW stamp \in Nat,
         NEW p, p = Place(h, k, stamp)
  PROVE  Cardinality(Filled(p)) = Cardinality(Filled(h)) + 1
<1>1. PICK f \in 1 .. Len(h) :
        /\ h[f].stamp = -1 /\ p[f] = [key |-> k, stamp |-> stamp] /\ Len(p) = Len(h)
        /\ \A s \in 1 .. Len(h) : s # f => p[s] = h[s]
  BY PlaceFacts
<1>2. p[f].stamp # -1
  BY <1>1
<1>3. f \notin Filled(h) /\ Filled(p) = Filled(h) \cup {f}
  BY <1>1, <1>2 DEF Filled
<1>4. IsFiniteSet(Filled(h))
  <2>1. Filled(h) \in SUBSET (1 .. Len(h)) /\ Len(h) \in Int
    BY DEF Filled
  <2>2. IsFiniteSet(1 .. Len(h))
    BY <2>1, FS_Interval
  <2> QED
    BY <2>1, <2>2, FS_Subset
<1> QED
  BY <1>3, <1>4, FS_AddElement

\* A new index answers for every key of the list.
LEMMA BuildFacts ==
  ASSUME NEW keys \in Seq(Key), NEW b, b = Build(keys)
  PROVE  /\ b \in Seq(SlotType) /\ b # << >> /\ Current(b, keys)
         /\ \A k \in Key : Listed(keys, k) => Reached(b, k)
<1>1. PICK n, f : BuiltBy(keys, n, f) /\ b = f[Len(keys)]
  BY BuildIs
<1>2. PICK L \in Nat : L = Len(keys)
  OBVIOUS
<1>3. n \in Nat /\ n > L
  BY <1>1, <1>2 DEF BuiltBy
<1>4. ASSUME NEW i \in 0 .. L PROVE f[i] \in Seq(SlotType) /\ Len(f[i]) = n
  <2>1. f[i] \in [1 .. n -> SlotType]
    BY <1>1, <1>2 DEF BuiltBy
  <2> QED
    BY <1>3, <2>1
<1> DEFINE Good(i) == /\ Cardinality(Filled(f[i])) = i /\ Current(f[i], keys)
                      /\ \A j \in 1 .. i : Reached(f[i], keys[j])
           T == {i \in Nat : i <= L => Good(i)}
<1>5. 0 \in T
  <2>1. Len(f[0]) = n /\ f[0] = [s \in 1 .. n |-> Free]
    <3>1. 0 \in 0 .. L
      BY <1>2
    <3> QED
      BY <1>1, <1>4, <3>1 DEF BuiltBy
  <2>2. \A s \in 1 .. n : f[0][s].stamp = -1
    BY <2>1 DEF Free
  <2>3. Filled(f[0]) = {}
    BY <2>1, <2>2 DEF Filled
  <2>4. Cardinality(Filled(f[0])) = 0
    BY <2>3, FS_EmptySet
  <2>5. Current(f[0], keys)
    BY <2>1, <2>2 DEF Current
  <2> QED
    BY <2>4, <2>5
<1>6. ASSUME NEW i \in T PROVE i + 1 \in T
  <2> SUFFICES ASSUME i + 1 <= L PROVE Good(i + 1)
    OBVIOUS
  <2>1. i \in Nat /\ i \in 0 .. L /\ i + 1 \in 0 .. L /\ i + 1 \in 1 .. L /\ (i + 1) - 1 = i /\ i <= L
        /\ i \in 0 .. L - 1
    BY <1>2
  <2>2. PICK h : h = f[i]
    OBVIOUS
  <2>3. h \in Seq(SlotType) /\ Len(h) = n /\ Good(i)
    BY <1>4, <2>1, <2>2
  <2>4. ~Full(h)
    <3>1. i < n
      BY <1>3, <2>1
    <3> QED
      BY <2>2, <2>3, <3>1, NotFull
  <2>5. PICK k \in Key : k = keys[i + 1]
    BY <1>2, <2>1
  <2>6. PICK p : p = f[i + 1]
    OBVIOUS
  <2>7. p = Place(h, k, i)
    <3>1. f[i + 1] = Place(f[(i + 1) - 1], keys[i + 1], (i + 1) - 1)
      BY <1>1, <1>2, <2>1 DEF BuiltBy
    <3> QED
      BY <2>1, <2>2, <2>5, <2>6, <3>1
  <2>8. Listed(keys, k)
    BY <1>2, <2>1, <2>5 DEF Listed
  <2>9. Cardinality(Filled(p)) = i + 1
    BY <2>1, <2>2, <2>3, <2>4, <2>7, PlaceFills
  <2>10. Current(p, keys)
    <3>1. Current(h, keys) /\ i \in 0 .. Len(keys) - 1
      BY <1>2, <2>1, <2>2, <2>3
    <3> QED
      BY <2>3, <2>4, <2>7, <2>8, <3>1, PlaceCurrent
  <2>11. Reached(p, k) /\ \A k2 \in Key : Reached(h, k2) => Reached(p, k2)
    BY <2>1, <2>3, <2>4, <2>7, PlaceFacts
  <2>12. ASSUME NEW j \in 1 .. i + 1 PROVE Reached(p, keys[j])
    <3>1. CASE j = i + 1
      BY <2>5, <2>11, <3>1
    <3>2. CASE j # i + 1
      <4>1. j \in 1 .. i /\ j \in 1 .. L
        BY <2>1, <3>2
      <4>2. keys[j] \in Key /\ Reached(h, keys[j])
        BY <1>2, <2>2, <2>3, <4>1
      <4> QED
        BY <2>11, <4>2
    <3> QED
      BY <3>1, <3>2
  <2> QED
    BY <2>6, <2>9, <2>10, <2>12
<1>7. T \in SUBSET Nat
  OBVIOUS
<1> HIDE DEF T
<1>8. T = Nat
  BY <1>5, <1>6, <1>7, InductiveSet
<1>9. Good(L)
  BY <1>8 DEF T
<1>10. b \in Seq(SlotType) /\ Len(b) = n /\ b # << >>
  <2>1. L \in 0 .. L
    OBVIOUS
  <2>2. b \in Seq(SlotType) /\ Len(b) = n
    BY <1>1, <1>2, <1>4, <2>1
  <2> QED
    BY <1>3, <2>2
<1> QED
  BY <1>1, <1>2, <1>9, <1>10 DEF Listed

-------------------------------------------------------------------------------
(***************************************************************************)
(* Insertions: frame_add_key, and the merge of a list into another.        *)
(***************************************************************************)
\* One turn of the loop that Inserted describes.
InsertStep(h, keys, ks, i) ==
  IF i > 1 /\ h = << >> THEN << >>
  ELSE LET p == Prepared(h, keys)
       IN  IF Full(p) THEN << >> ELSE Place(p, ks[i], Len(keys) - 1)

InsertedBy(hash, keys, ks, f) ==
  /\ f \in [0 .. Len(ks) -> Seq(SlotType)] /\ f[0] = hash
  /\ \A i \in 1 .. Len(ks) : f[i] = InsertStep(f[i - 1], keys, ks, i)

\* A turn leaves an index.
LEMMA InsertStepType ==
  ASSUME NEW h \in Seq(SlotType), NEW keys \in Seq(Key), NEW ks \in Seq(Key), NEW i \in 1 .. Len(ks)
  PROVE  InsertStep(h, keys, ks, i) \in Seq(SlotType)
<1>1. PICK p : p = Prepared(h, keys)
  OBVIOUS
<1>2. p \in Seq(SlotType)
  BY <1>1, BuildFacts DEF Prepared
<1>3. PICK k \in Key, st \in Int : k = ks[i] /\ st = Len(keys) - 1
  OBVIOUS
<1>4. Place(p, k, st) \in Seq(SlotType)
  <2>1. PICK n \in Nat : n = Len(p) /\ p \in [1 .. n -> SlotType]
    BY <1>2
  <2>2. Place(p, k, st) \in [1 .. n -> SlotType]
    BY <2>1, PlaceType
  <2> QED
    BY <2>2
<1>5. << >> \in Seq(SlotType)
  OBVIOUS
<1> QED
  BY <1>1, <1>3, <1>4, <1>5 DEF InsertStep

\* Inserted is the last of these turns.
LEMMA InsertedIs ==
  ASSUME NEW hash \in Seq(SlotType), NEW keys \in Seq(Key), NEW ks \in Seq(Key)
  PROVE  \E f : InsertedBy(hash, keys, ks, f) /\ Inserted(hash, keys, ks) = f[Len(ks)]
<1> DEFINE L == Len(ks)
           S == Seq(SlotType)
           step(h, i) == InsertStep(h, keys, ks, i)
           F == [p \in S \X Nat |-> IF p[2] \in 1 .. L THEN step(p[1], p[2]) ELSE p[1]]
           put == CHOOSE g : g = [i \in 0 .. L |-> IF i = 0 THEN hash ELSE step(g[i - 1], i)]
<1>1. Inserted(hash, keys, ks) = put[L]
  BY DEF Inserted, InsertStep
<1>2. L \in Nat
  OBVIOUS
<1>3. \A h \in S, i \in 1 .. L : step(h, i) \in S
  BY InsertStepType
<1> HIDE DEF L, S, step
<1>4. F \in [S \X Nat -> S]
  BY <1>3
<1>5. ASSUME NEW h \in S, NEW i \in 1 .. L PROVE F[<<h, i>>] = step(h, i)
  <2>1. <<h, i>> \in S \X Nat
    BY <1>2
  <2> QED
    BY <2>1
<1>6. hash \in S
  BY DEF S
<1> HIDE DEF F
<1>7. PICK f \in [0 .. L -> S] : f = [i \in 0 .. L |-> IF i = 0 THEN hash ELSE F[<<f[i - 1], i>>]]
  <2>1. \E f \in [0 .. L -> S] : IteratesUpTo(f, hash, F, L)
    BY <1>2, <1>4, <1>6, RecursiveUpTo
  <2> QED
    BY <2>1 DEF IteratesUpTo
<1>8. ASSUME NEW i \in 0 .. L PROVE f[i] = IF i = 0 THEN hash ELSE step(f[i - 1], i)
  <2>1. f[i] = IF i = 0 THEN hash ELSE F[<<f[i - 1], i>>]
    BY <1>7
  <2>2. i # 0 => i \in 1 .. L /\ i - 1 \in 0 .. L
    BY <1>2
  <2>3. i # 0 => f[i - 1] \in S
    BY <2>2
  <2> QED
    BY <1>5, <2>1, <2>2, <2>3
<1>9. f = [i \in 0 .. L |-> IF i = 0 THEN hash ELSE step(f[i - 1], i)]
  BY <1>7, <1>8
<1>10. put = [i \in 0 .. L |-> IF i = 0 THEN hash ELSE step(put[i - 1], i)]
  BY <1>9
<1> HIDE DEF put
<1>11. put \in [0 .. L -> S]
  <2> DEFINE T == {i \in Nat : i <= L => put[i] \in S}
  <2>1. 0 \in T
    BY <1>2, <1>6, <1>10
  <2>2. ASSUME NEW i \in T PROVE i + 1 \in T
    <3>1. ASSUME i + 1 <= L PROVE put[i + 1] \in S
      <4>1. i + 1 \in 0 .. L /\ i + 1 # 0 /\ (i + 1) - 1 = i /\ i <= L /\ i + 1 \in 1 .. L
        BY <1>2, <3>1
      <4>2. put[i + 1] = step(put[i], i + 1)
        BY <1>10, <4>1
      <4>3. put[i] \in S
        BY <4>1
      <4> QED
        BY <1>3, <4>1, <4>2, <4>3
    <3> QED
      BY <3>1
  <2>3. T \in SUBSET Nat
    OBVIOUS
  <2> HIDE DEF T
  <2>4. T = Nat
    BY <2>1, <2>2, <2>3, InductiveSet
  <2>5. \A i \in 0 .. L : put[i] \in S
    BY <1>2, <2>4 DEF T
  <2> QED
    BY <1>10, <2>5
<1>12. put[0] = hash /\ \A i \in 1 .. L : put[i] = step(put[i - 1], i)
  <2>1. 0 \in 0 .. L /\ \A i \in 1 .. L : i \in 0 .. L /\ i # 0
    BY <1>2
  <2> QED
    BY <1>10, <2>1
<1>13. InsertedBy(hash, keys, ks, put)
  BY <1>11, <1>12 DEF InsertedBy, L, S, step
<1> QED
  BY <1>1, <1>13 DEF L

\* Whatever an index holds, inserting leaves an index.
LEMMA InsertedType ==
  ASSUME NEW hash \in Seq(SlotType), NEW keys \in Seq(Key), NEW ks \in Seq(Key)
  PROVE  Inserted(hash, keys, ks) \in Seq(SlotType)
<1>1. PICK f : InsertedBy(hash, keys, ks, f) /\ Inserted(hash, keys, ks) = f[Len(ks)]
  BY InsertedIs
<1>2. Len(ks) \in 0 .. Len(ks)
  OBVIOUS
<1> QED
  BY <1>1, <1>2 DEF InsertedBy

\* A turn adds its key, and keeps what the loops could reach: the index may be
\* built anew, with every key of the list, before the key is placed.
LEMMA InsertStepFacts ==
  ASSUME NEW h \in Seq(SlotType), NEW keys \in Seq(Key), keys # << >>, NEW ks \in Seq(Key),
         NEW i \in 1 .. Len(ks), Listed(keys, ks[i]), h # << >> => Current(h, keys),
         NEW r, r = InsertStep(h, keys, ks, i), r # << >>
  PROVE  /\ Current(r, keys) /\ Reached(r, ks[i])
         /\ \A k \in Key : Listed(keys, k) /\ (h # << >> => Reached(h, k)) => Reached(r, k)
<1>1. PICK p : p = Prepared(h, keys)
  OBVIOUS
<1>2. PICK L \in Nat : L = Len(keys) /\ L > 0
  OBVIOUS
<1>3. PICK k \in Key, st \in 0 .. L - 1 : k = ks[i] /\ st = L - 1
  BY <1>2
<1>4. ~Full(p) /\ r = Place(p, k, st)
  BY <1>1, <1>2, <1>3 DEF InsertStep
<1>5. /\ p \in Seq(SlotType) /\ Current(p, keys)
      /\ \A k2 \in Key : Listed(keys, k2) /\ (h # << >> => Reached(h, k2)) => Reached(p, k2)
  <2>1. CASE p = Build(keys)
    BY <2>1, BuildFacts
  <2>2. CASE p # Build(keys)
    <3>1. p = h /\ ~(L + 1 > (Len(h) * 7) \div 10)
      BY <1>1, <1>2, <2>2 DEF Prepared
    <3>2. h # << >>
      <4>1. h = << >> => Len(h) = 0
        OBVIOUS
      <4>2. (0 * 7) \div 10 = 0 /\ L + 1 > 0
        BY <1>2
      <4> QED
        BY <3>1, <4>1, <4>2
    <3> QED
      BY <3>1, <3>2
  <2> QED
    BY <2>1, <2>2
<1>6. st \in Nat
  OBVIOUS
<1>7. Reached(r, k) /\ \A k2 \in Key : Reached(p, k2) => Reached(r, k2)
  <2>1. p \in Seq(SlotType) /\ ~Full(p) /\ st \in Nat /\ r = Place(p, k, st)
    BY <1>4, <1>5, <1>6
  <2>2. Reached(r, k)
    BY <2>1, PlaceFacts
  <2>3. ASSUME NEW k2 \in Key, Reached(p, k2) PROVE Reached(r, k2)
    BY <2>1, <2>3, PlaceFacts
  <2> QED
    BY <2>2, <2>3
<1>8. Current(r, keys)
  BY <1>2, <1>3, <1>4, <1>5, PlaceCurrent
<1> QED
  BY <1>3, <1>5, <1>7, <1>8

\* What is listed in a list and its continuation.
LEMMA ListedConcat ==
  ASSUME NEW old \in Seq(Key), NEW ks \in Seq(Key), NEW k
  PROVE  Listed(old \o ks, k) <=> Listed(old, k) \/ Listed(ks, k)
<1>1. PICK n, m \in Nat : n = Len(old) /\ m = Len(ks) /\ Len(old \o ks) = n + m
  OBVIOUS
<1>2. /\ \A j \in 1 .. n : (old \o ks)[j] = old[j]
      /\ \A j \in 1 .. m : (old \o ks)[n + j] = ks[j]
  BY <1>1
<1>3. ASSUME Listed(old \o ks, k) PROVE Listed(old, k) \/ Listed(ks, k)
  <2>1. PICK j \in 1 .. n + m : (old \o ks)[j] = k
    BY <1>1, <1>3 DEF Listed
  <2>2. CASE j <= n
    BY <1>1, <1>2, <2>1, <2>2 DEF Listed
  <2>3. CASE j > n
    <3>1. j - n \in 1 .. m /\ n + (j - n) = j
      BY <2>3
    <3> QED
      BY <1>1, <1>2, <2>1, <3>1 DEF Listed
  <2> QED
    BY <2>2, <2>3
<1>4. ASSUME Listed(old, k) PROVE Listed(old \o ks, k)
  <2>1. PICK j \in 1 .. n : old[j] = k
    BY <1>1, <1>4 DEF Listed
  <2>2. j \in 1 .. n + m
    OBVIOUS
  <2> QED
    BY <1>1, <1>2, <2>1, <2>2 DEF Listed
<1>5. ASSUME Listed(ks, k) PROVE Listed(old \o ks, k)
  <2>1. PICK j \in 1 .. m : ks[j] = k
    BY <1>1, <1>5 DEF Listed
  <2>2. n + j \in 1 .. n + m
    OBVIOUS
  <2> QED
    BY <1>1, <1>2, <2>1, <2>2 DEF Listed
<1> QED
  BY <1>3, <1>4, <1>5

\* An index that answered for a list answers for its continuation, unless a
\* loop does not end: after any number of rebuilds and duplicates.
LEMMA InsertedFacts ==
  ASSUME NEW hash \in Seq(SlotType), NEW old \in Seq(Key), NEW ks \in Seq(Key), ks # << >>,
         IndexOK(hash, old), NEW keys, keys = old \o ks,
         NEW r, r = Inserted(hash, keys, ks), r # << >>
  PROVE  IndexOK(r, keys)
<1>1. PICK f : InsertedBy(hash, keys, ks, f) /\ r = f[Len(ks)]
  <2>1. keys \in Seq(Key)
    OBVIOUS
  <2> QED
    BY ZenonT(40), <2>1, InsertedIs
<1>2. PICK L \in Nat : L = Len(ks) /\ L > 0
  OBVIOUS
<1>3. keys \in Seq(Key) /\ keys # << >> /\ Len(keys) \in Nat /\ Len(old) \in Nat /\ Len(old) < Len(keys)
  OBVIOUS
<1>4. \A k : Listed(keys, k) <=> Listed(old, k) \/ Listed(ks, k)
  BY ListedConcat
<1>5. \A i \in 0 .. L : f[i] \in Seq(SlotType)
  BY <1>1, <1>2 DEF InsertedBy
<1> DEFINE Good(i) == i >= 1 /\ f[i] # << >> =>
                        /\ Current(f[i], keys)
                        /\ \A k \in Key : Listed(old, k) => Reached(f[i], k)
                        /\ \A j \in 1 .. i : Reached(f[i], ks[j])
           T == {i \in Nat : i <= L => Good(i)}
<1>6. 0 \in T
  OBVIOUS
<1>7. ASSUME NEW i \in T PROVE i + 1 \in T
  <2> SUFFICES ASSUME i + 1 <= L, f[i + 1] # << >>
               PROVE  /\ Current(f[i + 1], keys)
                      /\ \A k \in Key : Listed(old, k) => Reached(f[i + 1], k)
                      /\ \A j \in 1 .. i + 1 : Reached(f[i + 1], ks[j])
    OBVIOUS
  <2>1. i \in Nat /\ i \in 0 .. L /\ i + 1 \in 0 .. L /\ i + 1 \in 1 .. L /\ (i + 1) - 1 = i /\ i <= L
    BY <1>2
  <2>2. PICK h, c : h = f[i] /\ c = f[i + 1]
    OBVIOUS
  <2>3. PICK m : m = i + 1
    OBVIOUS
  <2>4. c = InsertStep(h, keys, ks, m)
    <3>1. f[i + 1] = InsertStep(f[(i + 1) - 1], keys, ks, i + 1)
      BY <1>1, <1>2, <2>1 DEF InsertedBy
    <3> QED
      BY <2>1, <2>2, <2>3, <3>1
  <2>5. h \in Seq(SlotType) /\ m \in 1 .. Len(ks) /\ ks[m] \in Key /\ Listed(ks, ks[m])
    BY <1>2, <1>5, <2>1, <2>2, <2>3 DEF Listed
  <2>6. Listed(keys, ks[m])
    BY <1>4, <2>5
  <2>7. /\ h # << >> => Current(h, keys)
        /\ h # << >> => \A k \in Key : Listed(old, k) => Reached(h, k)
        /\ h # << >> => \A j \in 1 .. i : Reached(h, ks[j])
        /\ i >= 1 => h # << >>
    <3>1. CASE i = 0
      <4>1. h = hash
        BY <1>1, <2>2, <3>1 DEF InsertedBy
      <4>2. h # << >> => Current(h, old)
        BY <4>1 DEF IndexOK
      <4>3. Current(h, old) => Current(h, keys)
        BY <1>3, <1>4 DEF Current
      <4>4. h # << >> => \A k \in Key : Listed(old, k) => Reached(h, k)
        BY <4>1 DEF IndexOK
      <4> QED
        BY <3>1, <4>2, <4>3, <4>4
    <3>2. CASE i >= 1
      <4>1. Good(i)
        BY <2>1
      <4>2. h # << >>
        <5>1. h = << >> => c = << >>
          <6>1. m > 1
            BY <2>1, <2>3, <3>2
          <6> QED
            BY <2>4, <6>1 DEF InsertStep
        <5> QED
          BY <2>2, <5>1
      <4> QED
        BY <2>2, <3>2, <4>1, <4>2
    <3> QED
      BY <2>1, <3>1, <3>2
  <2>8. /\ Current(c, keys) /\ Reached(c, ks[m])
        /\ \A k \in Key : Listed(keys, k) /\ (h # << >> => Reached(h, k)) => Reached(c, k)
    BY <1>3, <2>2, <2>4, <2>5, <2>6, <2>7, InsertStepFacts
  <2>9. \A k \in Key : Listed(old, k) => Reached(c, k)
    BY <1>4, <2>7, <2>8
  <2>10. ASSUME NEW j \in 1 .. i + 1 PROVE Reached(c, ks[j])
    <3>1. CASE j = m
      BY <2>8, <3>1
    <3>2. CASE j # m
      <4>1. j \in 1 .. i /\ j \in 1 .. L
        BY <2>1, <2>3, <3>2
      <4>2. ks[j] \in Key /\ Listed(ks, ks[j])
        BY <1>2, <4>1 DEF Listed
      <4> QED
        BY <1>4, <2>7, <2>8, <4>1, <4>2
    <3> QED
      BY <3>1, <3>2
  <2> QED
    BY <2>2, <2>8, <2>9, <2>10
<1>8. T \in SUBSET Nat
  OBVIOUS
<1> HIDE DEF T
<1>9. T = Nat
  BY <1>6, <1>7, <1>8, InductiveSet
<1>10. Good(L)
  BY <1>9 DEF T
<1>11. /\ Current(r, keys) /\ \A k \in Key : Listed(old, k) => Reached(r, k)
       /\ \A j \in 1 .. L : Reached(r, ks[j])
  BY <1>1, <1>2, <1>10
<1>12. \A k \in Key : Listed(keys, k) => Reached(r, k)
  <2> SUFFICES ASSUME NEW k \in Key, Listed(keys, k) PROVE Reached(r, k)
    OBVIOUS
  <2>1. CASE Listed(old, k)
    BY <1>11, <2>1
  <2>2. CASE Listed(ks, k)
    <3>1. PICK j \in 1 .. L : ks[j] = k
      BY <1>2, <2>2 DEF Listed
    <3> QED
      BY <1>11, <3>1
  <2> QED
    BY <1>4, <2>1, <2>2
<1> QED
  BY <1>11, <1>12 DEF IndexOK

-------------------------------------------------------------------------------
(***************************************************************************)
(* What the functions on frames do to one.                                 *)
(***************************************************************************)
\* An index that is sound answers with the list.
LEMMA SeenIsListed ==
  ASSUME NEW f \in FrameType, IndexOK(f.hash, f.keys), NEW k \in Key
  PROVE  Seen(f, k) <=> Listed(f.keys, k)
<1>1. PICK h, keys : h = f.hash /\ keys = f.keys
  OBVIOUS
<1>2. h \in Seq(SlotType) /\ keys \in Seq(Key)
  BY <1>1 DEF FrameType
<1>3. CASE h = << >>
  BY <1>1, <1>3 DEF IndexOK, Seen, Listed
<1>4. CASE h # << >>
  <2>1. Current(h, keys) /\ (Listed(keys, k) => Reached(h, k))
    BY <1>1, <1>4 DEF IndexOK
  <2>2. Seen(f, k) <=>
          \E i \in 0 .. Len(h) - 1 :
            /\ h[Slot(h, k, i)].key = k /\ h[Slot(h, k, i)].stamp < Len(keys)
            /\ h[Slot(h, k, i)].stamp # -1
            /\ \A j \in 0 .. i - 1 : h[Slot(h, k, j)].stamp # -1
    BY <1>1, <1>4 DEF Seen, SeenAt
  <2>3. ASSUME NEW i \in 0 .. Len(h) - 1, h[Slot(h, k, i)].stamp # -1
        PROVE  h[Slot(h, k, i)].stamp < Len(keys) /\ Listed(keys, h[Slot(h, k, i)].key)
    <3>1. PICK s : s = Slot(h, k, i)
      OBVIOUS
    <3>2. s \in 1 .. Len(h)
      <4>1. i \in Nat
        OBVIOUS
      <4> QED
        BY <1>2, <1>4, <3>1, <4>1, SlotRange
    <3>3. h[s].stamp \in 0 .. Len(keys) - 1 /\ Listed(keys, h[s].key)
      BY <2>1, <2>3, <3>1, <3>2 DEF Current
    <3> QED
      BY <1>2, <3>1, <3>3
  <2>4. Reached(h, k) => Seen(f, k)
    BY <2>2, <2>3 DEF Reached
  <2> QED
    BY <1>1, <2>1, <2>2, <2>3, <2>4
<1> QED
  BY <1>3, <1>4

\* Only the list and its index differ.
SameButList(q, f) ==
  /\ q.inst = f.inst /\ q.mode = f.mode /\ q.key = f.key /\ q.p0 = f.p0 /\ q.n0 = f.n0
  /\ q.step = f.step /\ q.left = f.left /\ q.ptr = f.ptr /\ q.real = f.real /\ q.real0 = f.real0
  /\ q.bad = f.bad /\ q.cut = f.cut

\* A list that is replaced, with its index.
Relisted(q, f, keys, hash) ==
  q \in FrameType /\ SameButList(q, f) /\ q.keys = keys /\ q.hash = hash

\* It leaves a frame.
LEMMA ListReplaced ==
  ASSUME NEW f \in FrameType, NEW keys \in Seq(Key), NEW hash \in Seq(SlotType),
         NEW q, q = [f EXCEPT !.keys = keys, !.hash = hash]
  PROVE  Relisted(q, f, keys, hash)
BY DEF FrameType, SameButList, Relisted

\* A key that is not seen is appended.
LEMMA AddKeyFacts ==
  ASSUME NEW f \in FrameType, NEW k \in Key, ~AddKeySpins(f, k), NEW q, q = AddKey(f, k)
  PROVE  /\ q \in FrameType /\ SameButList(q, f)
         /\ Seen(f, k) => q = f
         /\ ~Seen(f, k) => /\ \A k2 : Listed(q.keys, k2) <=> Listed(f.keys, k2) \/ k2 = k
                           /\ IndexOK(f.hash, f.keys) => IndexOK(q.hash, q.keys)
<1>1. CASE Seen(f, k)
  BY <1>1 DEF AddKey, SameButList
<1>2. CASE ~Seen(f, k)
  <2>1. PICK old, hash, ks : old = f.keys /\ hash = f.hash /\ ks = <<k>>
    OBVIOUS
  <2>2. old \in Seq(Key) /\ hash \in Seq(SlotType) /\ ks \in Seq(Key) /\ ks # << >>
    BY <2>1 DEF FrameType
  <2>3. PICK keys : keys = Append(old, k)
    OBVIOUS
  <2>4. keys \in Seq(Key) /\ keys = old \o ks
    BY <2>1, <2>2, <2>3
  <2>5. PICK r : r = Inserted(hash, keys, ks)
    OBVIOUS
  <2>6. r \in Seq(SlotType)
    BY <2>2, <2>4, <2>5, InsertedType
  <2>7. q = [f EXCEPT !.keys = keys, !.hash = r]
    BY <1>2, <2>1, <2>3, <2>5 DEF AddKey
  <2>8. q \in FrameType /\ SameButList(q, f) /\ q.keys = keys /\ q.hash = r
    <3>1. Relisted(q, f, keys, r)
      BY <2>4, <2>6, <2>7, ListReplaced
    <3> QED
      BY <3>1 DEF Relisted
  <2>9. r # << >>
    BY <1>2, <2>8 DEF AddKeySpins
  <2>10. IndexOK(hash, old) => IndexOK(r, keys)
    BY <2>2, <2>4, <2>5, <2>9, InsertedFacts
  <2>11. ASSUME NEW k2 PROVE Listed(keys, k2) <=> Listed(old, k2) \/ k2 = k
    <3>1. Listed(keys, k2) <=> Listed(old, k2) \/ Listed(ks, k2)
      BY <2>2, <2>4, ListedConcat
    <3>2. Listed(ks, k2) <=> k2 = k
      BY <2>1 DEF Listed
    <3> QED
      BY <3>1, <3>2
  <2> QED
    BY <1>2, <2>1, <2>8, <2>10, <2>11
<1> QED
  BY <1>1, <1>2

\* A list is appended to that of the same instance.
LEMMA MergeFacts ==
  ASSUME NEW p \in FrameType, NEW f \in FrameType, ~MergeSpins(p, f), NEW q, q = MergeUp(p, f)
  PROVE  /\ q \in FrameType /\ SameButList(q, p)
         /\ IndexOK(p.hash, p.keys) => IndexOK(q.hash, q.keys)
         /\ p.inst # f.inst => q = p
         /\ p.inst = f.inst => q.keys = p.keys \o f.keys
<1>1. CASE p.inst # f.inst
  BY <1>1 DEF MergeUp, SameButList
<1>2. CASE p.inst = f.inst /\ f.keys = << >>
  <2>1. q = p /\ p.keys \in Seq(Key)
    BY <1>2 DEF MergeUp, FrameType
  <2>2. p.keys \o << >> = p.keys
    BY <2>1
  <2> QED
    BY <1>2, <2>1, <2>2 DEF SameButList
<1>3. CASE p.inst = f.inst /\ f.keys # << >>
  <2>1. PICK old, hash, ks : old = p.keys /\ hash = p.hash /\ ks = f.keys
    OBVIOUS
  <2>2. old \in Seq(Key) /\ hash \in Seq(SlotType) /\ ks \in Seq(Key) /\ ks # << >>
    BY <1>3, <2>1 DEF FrameType
  <2>3. PICK keys : keys = old \o ks
    OBVIOUS
  <2>4. keys \in Seq(Key)
    BY <2>2, <2>3
  <2>5. PICK r : r = Inserted(hash, keys, ks)
    OBVIOUS
  <2>6. r \in Seq(SlotType)
    BY <2>2, <2>4, <2>5, InsertedType
  <2>7. q = [p EXCEPT !.keys = keys, !.hash = r]
    BY <1>3, <2>1, <2>3, <2>5 DEF MergeUp
  <2>8. q \in FrameType /\ SameButList(q, p) /\ q.keys = keys /\ q.hash = r
    <3>1. Relisted(q, p, keys, r)
      BY <2>4, <2>6, <2>7, ListReplaced
    <3> QED
      BY <3>1 DEF Relisted
  <2>9. r # << >>
    BY <1>3, <2>8 DEF MergeSpins
  <2>10. IndexOK(hash, old) => IndexOK(r, keys)
    BY <2>2, <2>3, <2>5, <2>9, InsertedFacts
  <2> QED
    BY <1>3, <2>1, <2>3, <2>8, <2>10
<1> QED
  BY <1>1, <1>2, <1>3

\* A cut keeps the list as it was when there were n keys.
LEMMA TruncateFacts ==
  ASSUME NEW p \in FrameType, NEW n \in Nat, n <= Len(p.keys), NEW q, q = Truncate(p, n)
  PROVE  /\ q \in FrameType /\ q.keys = SubSeq(p.keys, 1, n) /\ q.hash = p.hash
         /\ SameButList(q, [p EXCEPT !.cut = q.cut])
         /\ q.cut \/ q = p
<1>1. PICK keys : keys = SubSeq(p.keys, 1, n)
  OBVIOUS
<1>2. p.keys \in Seq(Key) /\ Len(p.keys) \in Nat
  BY DEF FrameType
<1>3. CASE Len(p.keys) > n
  <2>1. q = [p EXCEPT !.keys = keys, !.cut = TRUE]
    BY <1>1, <1>3 DEF Truncate
  <2>2. keys \in Seq(Key)
    BY <1>1, <1>2, <1>3
  <2> QED
    BY <1>1, <2>1, <2>2 DEF FrameType, SameButList
<1>4. CASE Len(p.keys) = n
  <2>1. q = p
    BY <1>2, <1>4 DEF Truncate
  <2>2. keys = p.keys
    BY <1>1, <1>2, <1>4
  <2> QED
    BY <1>1, <2>1, <2>2 DEF FrameType, SameButList
<1> QED
  BY <1>2, <1>3, <1>4

-------------------------------------------------------------------------------
(***************************************************************************)
(* How the frames change: the newest one, one more, one less.              *)
(***************************************************************************)
\* What the frame below has to do with.
SameBase(q, f) ==
  /\ q.inst = f.inst /\ q.mode = f.mode /\ q.key = f.key /\ q.p0 = f.p0 /\ q.n0 = f.n0
  /\ q.real0 = f.real0

\* gs is fs up to n, where another frame stands for the same application.
Replaced(fs, gs, n) ==
  /\ gs \in Seq(FrameType) /\ n \in 1 .. Len(fs) /\ Len(gs) = n
  /\ \A i \in 1 .. n - 1 : gs[i] = fs[i]
  /\ SameBase(gs[n], fs[n])

\* The newest frame left may change its list, its step and its verdict.
LEMMA WalkTop ==
  ASSUME NEW fs, Walk(fs), NEW gs, NEW n, Replaced(fs, gs, n), FrameOK(gs[n])
  PROVE  Walk(gs)
<1>1. /\ fs \in Seq(FrameType) /\ gs \in Seq(FrameType) /\ n \in 1 .. Len(fs) /\ Len(gs) = n
      /\ Len(fs) \in Nat /\ n \in Nat /\ n >= 1
  BY DEF Walk, Replaced
<1>2. ASSUME NEW i \in 1 .. n PROVE SameBase(gs[i], fs[i]) /\ FrameOK(gs[i])
  <2>1. CASE i = n
    BY <2>1 DEF Replaced
  <2>2. CASE i # n
    <3>1. i \in 1 .. n - 1 /\ i \in 1 .. Len(fs)
      BY <1>1, <2>2
    <3> QED
      BY <3>1 DEF Replaced, Walk, SameBase
  <2> QED
    BY <2>1, <2>2
<1>3. ASSUME NEW i \in 1 .. n - 1 PROVE Linked(gs[i], gs[i + 1])
  <2>1. i \in 1 .. Len(fs) - 1 /\ i + 1 \in 1 .. n
    BY <1>1
  <2>2. gs[i] = fs[i] /\ Linked(fs[i], fs[i + 1])
    BY <2>1 DEF Replaced, Walk
  <2>3. SameBase(gs[i + 1], fs[i + 1])
    BY <1>2, <2>1
  <2> QED
    BY <2>2, <2>3 DEF Linked, SameBase
<1>4. gs[1].mode = "plain"
  <2>1. 1 \in 1 .. n
    BY <1>1
  <2> QED
    BY <1>2, <2>1 DEF SameBase, Walk
<1>5. ASSUME NEW i \in 1 .. n, NEW j \in 1 .. n, i <= j PROVE gs[i].p0 <= gs[j].p0
  <2>1. gs[i].p0 = fs[i].p0 /\ gs[j].p0 = fs[j].p0
    BY <1>2 DEF SameBase
  <2>2. i \in 1 .. Len(fs) /\ j \in 1 .. Len(fs)
    BY <1>1
  <2> QED
    BY <1>5, <2>1, <2>2 DEF Walk
<1> QED
  BY <1>1, <1>2, <1>3, <1>4, <1>5 DEF Walk

\* A new application remembers what the frame below it holds.
LEMMA WalkPush ==
  ASSUME NEW fs, Walk(fs), NEW n, n = Len(fs), NEW g \in FrameType, FrameOK(g),
         Linked(fs[n], g), fs[n].p0 <= g.p0, NEW gs, gs = Append(fs, g)
  PROVE  Walk(gs)
<1>1. fs \in Seq(FrameType) /\ n \in Nat /\ n >= 1
  BY DEF Walk
<1>2. gs \in Seq(FrameType) /\ Len(gs) = n + 1 /\ gs[n + 1] = g /\ \A i \in 1 .. n : gs[i] = fs[i]
  BY <1>1
<1>3. ASSUME NEW i \in 1 .. n + 1 PROVE FrameOK(gs[i])
  BY <1>1, <1>2 DEF Walk
<1>4. ASSUME NEW i \in 1 .. (n + 1) - 1 PROVE Linked(gs[i], gs[i + 1])
  <2>1. CASE i = n
    BY <1>1, <1>2, <2>1
  <2>2. CASE i # n
    <3>1. i \in 1 .. Len(fs) - 1 /\ i \in 1 .. n /\ i + 1 \in 1 .. n
      BY <1>1, <2>2
    <3> QED
      BY <1>2, <3>1 DEF Walk
  <2> QED
    BY <2>1, <2>2
<1>5. ASSUME NEW i \in 1 .. n + 1, NEW j \in 1 .. n + 1, i <= j PROVE gs[i].p0 <= gs[j].p0
  <2>1. CASE j <= n
    <3>1. i \in 1 .. n /\ j \in 1 .. n
      BY <1>1, <1>5, <2>1
    <3> QED
      BY <1>2, <1>5, <3>1 DEF Walk
  <2>2. CASE j = n + 1
    <3>1. CASE i = n + 1
      <4>1. g.p0 \in Nat
        BY DEF FrameType
      <4> QED
        BY <1>2, <2>2, <3>1, <4>1
    <3>2. CASE i # n + 1
      <4>1. i \in 1 .. n /\ n \in 1 .. n /\ i <= n
        BY <1>1, <3>2
      <4>2. fs[i].p0 <= fs[n].p0
        BY <4>1 DEF Walk
      <4>3. fs[i].p0 \in Nat /\ fs[n].p0 \in Nat /\ g.p0 \in Nat
        <5>1. fs[i] \in FrameType /\ fs[n] \in FrameType
          BY <1>1, <4>1
        <5> QED
          BY <5>1 DEF FrameType
      <4> QED
        BY <1>2, <2>2, <4>1, <4>2, <4>3
    <3> QED
      BY <3>1, <3>2
  <2> QED
    BY <1>1, <2>1, <2>2
<1>6. gs[1].mode = "plain"
  BY <1>1, <1>2 DEF Walk
<1> QED
  BY <1>1, <1>2, <1>3, <1>4, <1>5, <1>6 DEF Walk

\* The trials are finitely many.
LEMMA TrialsFinite ==
  ASSUME NEW fs \in Seq(FrameType)
  PROVE  IsFiniteSet(Trials(fs)) /\ Cardinality(Trials(fs)) \in Nat
<1>1. Trials(fs) \in SUBSET (1 .. Len(fs)) /\ Len(fs) \in Int
  BY DEF Trials
<1>2. IsFiniteSet(1 .. Len(fs))
  BY <1>1, FS_Interval
<1>3. IsFiniteSet(Trials(fs))
  BY <1>1, <1>2, FS_Subset
<1> QED
  BY <1>3, FS_CardinalityType

\* One frame more, one trial more or none.
LEMMA TrialsPush ==
  ASSUME NEW fs \in Seq(FrameType), NEW gs \in Seq(FrameType), NEW n, n = Len(fs),
         Len(gs) = n + 1, \A i \in 1 .. n : gs[i].mode = fs[i].mode
  PROVE  /\ gs[n + 1].mode = "plain" => Cardinality(Trials(gs)) = Cardinality(Trials(fs))
         /\ gs[n + 1].mode # "plain" => Cardinality(Trials(gs)) = Cardinality(Trials(fs)) + 1
<1>1. n \in Nat
  OBVIOUS
<1>2. CASE gs[n + 1].mode = "plain"
  <2>1. Trials(gs) = Trials(fs)
    BY <1>1, <1>2 DEF Trials
  <2> QED
    BY <1>2, <2>1
<1>3. CASE gs[n + 1].mode # "plain"
  <2>1. Trials(gs) = Trials(fs) \cup {n + 1} /\ n + 1 \notin Trials(fs)
    BY <1>1, <1>3 DEF Trials
  <2> QED
    BY ZenonT(40), <1>3, <2>1, TrialsFinite, FS_AddElement
<1> QED
  BY <1>2, <1>3

\* An application is muted exactly if a trial is open.
LEMMA Muted ==
  ASSUME NEW fs \in Seq(FrameType)
  PROVE  Cardinality(Trials(fs)) > 0 <=> ~Open(fs, Len(fs))
<1>1. Trials(fs) = {} <=> Open(fs, Len(fs))
  BY DEF Trials, Open
<1>2. Cardinality(Trials(fs)) = 0 <=> Trials(fs) = {}
  BY TrialsFinite, FS_EmptySet
<1>3. Cardinality(Trials(fs)) \in Nat
  BY TrialsFinite
<1> QED
  BY <1>1, <1>2, <1>3

\* What the invariant says of the newest frame.
LEMMA TopFacts ==
  ASSUME IInv
  PROVE  /\ Walk(frames) /\ frames \in Seq(FrameType) /\ Len(frames) \in Nat /\ Len(frames) >= 1
         /\ Len(frames) \in 1 .. Len(frames)
         /\ Top \in FrameType /\ FrameOK(Top) /\ Top = frames[Len(frames)]
         /\ pings \in Nat /\ Top.p0 \in Nat /\ pings >= Top.p0 /\ (Top.bad <=> pings > Top.p0)
<1>1. frames \in Seq(FrameType) /\ Len(frames) \in Nat /\ Len(frames) >= 1
  BY DEF IInv, Walk
<1>2. Len(frames) \in 1 .. Len(frames)
  BY <1>1
<1>3. Top \in FrameType /\ FrameOK(Top)
  BY <1>1, <1>2 DEF Top, IInv, Walk
<1>4. Top.p0 \in Nat
  BY <1>3 DEF FrameType
<1> QED
  BY <1>1, <1>2, <1>3, <1>4 DEF Top, IInv

\* A step that changes the newest frame, silently or with an error.
LEMMA TopInv ==
  ASSUME IInv, pc = "run", NEW q \in FrameType, SameBase(q, Top), FrameOK(q),
         frames' = [frames EXCEPT ![Len(frames)] = q],
         mute' = mute, cap' = cap, moved' = moved, pc' = pc,
         \/ q.bad = Top.bad /\ pings' = pings /\ errs' = errs
         \/ q.bad = TRUE /\ pings' = pings + 1 /\ errs' = IF mute > 0 THEN errs ELSE errs + 1
  PROVE  IInv'
<1>1. PICK n, fs, gs : n = Len(frames) /\ fs = frames /\ gs = frames'
  OBVIOUS
<1>2. Walk(fs) /\ fs \in Seq(FrameType) /\ n \in Nat /\ n >= 1 /\ n \in 1 .. n
  BY <1>1, TopFacts
<1>3. gs \in Seq(FrameType) /\ Len(gs) = n /\ gs[n] = q /\ \A i \in 1 .. n - 1 : gs[i] = fs[i]
  BY <1>1, <1>2
<1>4. fs[n] = Top
  BY <1>1 DEF Top
<1>5. Walk(gs)
  <2>1. Replaced(fs, gs, n)
    BY <1>1, <1>2, <1>3, <1>4 DEF Replaced
  <2> QED
    BY <1>2, <1>3, <2>1, WalkTop
<1>6. ASSUME NEW i \in 1 .. n PROVE gs[i].mode = fs[i].mode /\ (i # n => gs[i].bad = fs[i].bad)
  <2>1. CASE i = n
    BY <1>3, <1>4, <2>1 DEF SameBase
  <2>2. CASE i # n
    <3>1. i \in 1 .. n - 1
      BY <1>2, <2>2
    <3> QED
      BY <1>3, <3>1
  <2> QED
    BY <2>1, <2>2
<1>7. Trials(gs) = Trials(fs)
  BY <1>1, <1>3, <1>6 DEF Trials
<1>8. ASSUME NEW i \in 1 .. n PROVE Open(gs, i) <=> Open(fs, i)
  <2>1. \A j \in 1 .. i : j \in 1 .. n
    BY <1>2
  <2> QED
    BY <1>6, <2>1 DEF Open
<1>9. pings \in Nat /\ Top.p0 \in Nat /\ pings >= Top.p0 /\ (Top.bad <=> pings > Top.p0)
  BY TopFacts
<1>10. errs \in Nat /\ Reports(fs, errs) /\ (mute > 0 <=> ~Open(fs, n))
  <2>1. mute = Cardinality(Trials(fs))
    BY <1>1 DEF IInv
  <2>2. mute > 0 <=> ~Open(fs, n)
    BY <1>1, <1>2, <2>1, Muted
  <2> QED
    BY <1>1, <2>2 DEF IInv
<1>11. errs' \in Nat /\ Reports(gs, errs')
  <2>1. CASE q.bad = Top.bad /\ errs' = errs
    <3>1. \A i \in 1 .. n : gs[i].bad = fs[i].bad
      BY <1>3, <1>4, <1>6, <2>1
    <3> QED
      BY ZenonT(40), <1>1, <1>3, <1>8, <1>10, <2>1, <3>1 DEF Reports
  <2>2. CASE q.bad = TRUE /\ errs' = IF mute > 0 THEN errs ELSE errs + 1
    <3>1. CASE mute > 0
      <4>1. errs' = errs /\ ~Open(fs, n) /\ ~Open(gs, n)
        BY <1>2, <1>8, <1>10, <2>2, <3>1
      <4>2. ASSUME NEW i \in 1 .. n
            PROVE  (Open(gs, i) => ~gs[i].bad) <=> (Open(fs, i) => ~fs[i].bad)
        BY <1>6, <1>8, <4>1
      <4> QED
        BY <1>1, <1>3, <1>10, <4>1, <4>2 DEF Reports
    <3>2. CASE ~(mute > 0)
      <4>1. Open(gs, n) /\ gs[n].bad
        BY <1>2, <1>3, <1>8, <1>10, <2>2, <3>2
      <4>2. errs' \in Nat /\ errs' # 0
        BY <1>10, <2>2, <3>2
      <4> QED
        BY <1>2, <1>3, <4>1, <4>2 DEF Reports
    <3> QED
      BY <3>1, <3>2
  <2> QED
    BY <2>1, <2>2
<1>12. pings' \in Nat /\ pings' >= q.p0 /\ (q.bad <=> pings' > q.p0)
  <2>1. q.p0 = Top.p0
    BY DEF SameBase
  <2> QED
    BY <1>9, <2>1
<1>13. Top' = q
  BY <1>1, <1>3 DEF Top
<1>14. mute' = Cardinality(Trials(gs)) /\ cap' \in Nat /\ Len(gs) <= cap' /\ moved' \in Nat
  BY <1>1, <1>3, <1>7 DEF IInv
<1> QED
  BY <1>1, <1>5, <1>11, <1>12, <1>13, <1>14 DEF IInv

\* The bases of an application that begins on top of f.
Begins(f, inst, mode, key, step) ==
  /\ inst \in {"table", "member"} /\ mode \in {"plain", "trial", "free"} /\ key \in Key \cup {NoKey}
  /\ step \in 1 .. 4 /\ f.step <= step
  /\ key = NoKey => inst = f.inst
  /\ key # NoKey => /\ inst = "member" /\ f.inst = "table" /\ mode = "plain"
                    /\ step = 2 \/ ~Seen(f, key)
  /\ mode # "plain" => step = 3
  /\ step = 4 => f.inst = "table"

\* An application begins.
LEMMA EnterInv ==
  ASSUME IInv, NEW inst, NEW mode, NEW key, NEW step, Enter(inst, mode, key, step),
         Begins(Top, inst, mode, key, step),
         mode = "plain" => mute' = mute, mode # "plain" => mute' = mute + 1
  PROVE  IInv'
<1>1. PICK n, fs, gs : n = Len(frames) /\ fs = frames /\ gs = frames'
  OBVIOUS
<1>2. Walk(fs) /\ fs \in Seq(FrameType) /\ n \in Nat /\ n >= 1 /\ n \in 1 .. n
  BY <1>1, TopFacts
<1>3. PICK t \in FrameType : t = Top /\ t = fs[n] /\ FrameOK(t)
  BY <1>1, TopFacts
<1>4. PICK q : q = [t EXCEPT !.step = step]
  OBVIOUS
<1>5. /\ q \in FrameType /\ SameBase(q, t) /\ q.keys = t.keys /\ q.hash = t.hash /\ q.real = t.real
      /\ q.bad = t.bad /\ q.cut = t.cut /\ q.step = step /\ q.mode = t.mode
  <2>1. step \in 1 .. 4
    BY DEF Begins
  <2> QED
    BY <1>4, <2>1 DEF FrameType, SameBase
<1>6. FrameOK(q)
  <2>1. t.step \in 1 .. 4 /\ t.step <= step /\ step \in 1 .. 4
    BY <1>3 DEF Begins, FrameType
  <2>2. q.cut => q.step >= 3
    BY <1>3, <1>5, <2>1 DEF FrameOK
  <2>3. q.step = 4 => q.inst = "table"
    BY <1>3, <1>5 DEF Begins, SameBase
  <2> QED
    BY <1>3, <1>5, <2>2, <2>3 DEF FrameOK
<1>7. PICK fs1 : fs1 = [fs EXCEPT ![n] = q]
  OBVIOUS
<1>8. fs1 \in Seq(FrameType) /\ Len(fs1) = n /\ fs1[n] = q /\ \A i \in 1 .. n - 1 : fs1[i] = fs[i]
  BY <1>1, <1>2, <1>5, <1>7
<1>9. Walk(fs1)
  <2>1. Replaced(fs, fs1, n)
    BY <1>1, <1>2, <1>3, <1>5, <1>8 DEF Replaced
  <2> QED
    BY <1>2, <1>6, <1>8, <2>1, WalkTop
<1>10. PICK g : g = [NewFrame(inst, mode, key, Top.real) EXCEPT !.n0 = Len(Top.keys)]
  OBVIOUS
<1>11. pings \in Nat /\ pings >= t.p0 /\ (t.bad <=> pings > t.p0)
  BY <1>3, TopFacts
<1>12. /\ g \in FrameType /\ g.inst = inst /\ g.mode = mode /\ g.key = key /\ g.p0 = pings
       /\ g.n0 = Len(t.keys) /\ g.keys = << >> /\ g.hash = << >> /\ g.real = {} /\ g.real0 = t.real
       /\ g.bad = FALSE /\ g.cut = FALSE /\ g.step = 1
  <2>1. t.keys \in Seq(Key) /\ t.real \in SUBSET Key
    BY <1>3 DEF FrameType
  <2>2. Len(t.keys) \in Nat
    BY <2>1
  <2>3. g = [inst |-> inst, mode |-> mode, key |-> key, p0 |-> pings, n0 |-> Len(t.keys),
             keys |-> << >>, hash |-> << >>, step |-> 1, left |-> {}, ptr |-> 0,
             real |-> {}, real0 |-> t.real, bad |-> FALSE, cut |-> FALSE]
    BY <1>3, <1>10 DEF NewFrame
  <2>4. << >> \in Seq(Key) /\ << >> \in Seq(SlotType)
    OBVIOUS
  <2> QED
    BY <1>11, <2>1, <2>2, <2>3, <2>4 DEF FrameType, Begins
<1>13. FrameOK(g)
  BY <1>12 DEF FrameOK, IndexOK, Listed
<1>14. Linked(q, g)
  <2>1. Seen(q, key) <=> Seen(t, key)
    BY <1>5 DEF Seen, SeenAt
  <2>2. q.p0 = t.p0 /\ q.inst = t.inst
    BY <1>5 DEF SameBase
  <2> QED
    BY <1>3, <1>5, <1>11, <1>12, <2>1, <2>2 DEF Linked, Begins
<1>15. gs = Append(fs1, g)
  BY <1>1, <1>3, <1>4, <1>7, <1>10 DEF Enter
<1>16. Walk(gs)
  <2>1. q.p0 <= g.p0
    BY <1>5, <1>11, <1>12 DEF SameBase
  <2> QED
    BY <1>8, <1>9, <1>12, <1>13, <1>14, <1>15, <2>1, WalkPush
<1>17. gs \in Seq(FrameType) /\ Len(gs) = n + 1 /\ gs[n + 1] = g
  BY <1>2, <1>8, <1>12, <1>15
<1>18. ASSUME NEW i \in 1 .. n PROVE gs[i].mode = fs[i].mode /\ gs[i].bad = fs[i].bad
  <2>1. gs[i] = fs1[i]
    BY <1>2, <1>8, <1>15
  <2>2. CASE i = n
    BY <1>3, <1>5, <1>8, <2>1, <2>2
  <2>3. CASE i # n
    <3>1. i \in 1 .. n - 1
      BY <1>2, <2>3
    <3> QED
      BY <1>8, <2>1, <3>1
  <2> QED
    BY <2>2, <2>3
<1>19. mute' = Cardinality(Trials(gs))
  <2>1. mute = Cardinality(Trials(fs))
    BY <1>1 DEF IInv
  <2>2. /\ gs[n + 1].mode = "plain" => Cardinality(Trials(gs)) = Cardinality(Trials(fs))
        /\ gs[n + 1].mode # "plain" => Cardinality(Trials(gs)) = Cardinality(Trials(fs)) + 1
    <3>1. fs \in Seq(FrameType) /\ gs \in Seq(FrameType) /\ n = Len(fs) /\ Len(gs) = n + 1
      BY <1>1, <1>2, <1>17
    <3>2. \A i \in 1 .. n : gs[i].mode = fs[i].mode
      BY <1>18
    <3> QED
      BY <3>1, <3>2, TrialsPush
  <2> QED
    BY <1>12, <1>17, <2>1, <2>2
<1>20. errs' \in Nat /\ Reports(gs, errs')
  <2>1. errs' = errs /\ errs \in Nat /\ Reports(fs, errs)
    BY <1>1 DEF Enter, IInv
  <2>2. ASSUME NEW i \in 1 .. n PROVE Open(gs, i) <=> Open(fs, i)
    <3>1. \A j \in 1 .. i : j \in 1 .. n
      BY <1>2
    <3> QED
      BY <1>18, <3>1 DEF Open
  <2>3. \A i \in 1 .. n + 1 : i \in 1 .. n \/ ~gs[i].bad
    BY <1>2, <1>12, <1>17
  <2>4. \A i \in 1 .. n : i \in 1 .. n + 1
    BY <1>2
  <2> QED
    BY <1>1, <1>17, <1>18, <2>1, <2>2, <2>3, <2>4 DEF Reports
<1>21. Top' = g /\ pings' = pings /\ pc' = pc /\ pc = "run"
  BY <1>1, <1>17 DEF Top, Enter
<1>22. cap' \in Nat /\ Len(gs) <= cap' /\ moved' \in Nat
  <2>1. cap \in Nat /\ n <= cap /\ moved \in Nat
    BY <1>1 DEF IInv
  <2>2. \/ n = cap /\ cap' = 2 * cap /\ moved' = moved + 1
        \/ n # cap /\ cap' = cap /\ moved' = moved
    BY <1>1 DEF Enter
  <2> QED
    BY <1>2, <1>17, <2>1, <2>2
<1> QED
  BY <1>1, <1>11, <1>12, <1>16, <1>19, <1>20, <1>21, <1>22 DEF IInv

\* A step by which the newest application returns to p.
LEMMA PopInv ==
  ASSUME IInv, pc = "run", Len(frames) > 1, NEW p \in FrameType, SameBase(p, Under), FrameOK(p),
         frames' = Below(p), UNCHANGED <<cap, moved, errs, pc>>,
         \/ /\ Top.mode = "plain" /\ mute' = mute /\ pings' = pings
            /\ p.bad <=> Under.bad \/ Top.bad
         \/ Top.mode # "plain" /\ mute' = mute - 1 /\ pings' = Top.p0 /\ (p.bad <=> Under.bad)
  PROVE  IInv'
<1>1. PICK fs, gs : fs = frames /\ gs = frames'
  OBVIOUS
<1>2. PICK n \in Nat : n + 1 = Len(fs) /\ n >= 1
  <2>1. Len(fs) \in Nat /\ Len(fs) > 1
    BY <1>1, TopFacts
  <2>2. Len(fs) - 1 \in Nat /\ Len(fs) - 1 >= 1 /\ (Len(fs) - 1) + 1 = Len(fs)
    BY <2>1
  <2> QED
    BY <2>2
<1>3. Walk(fs) /\ fs \in Seq(FrameType) /\ Len(frames) - 1 = n /\ Len(frames) - 2 = n - 1
  BY <1>1, <1>2, TopFacts
<1>4. PICK u, f \in FrameType : u = Under /\ f = Top /\ u = fs[n] /\ f = fs[n + 1]
  <2>1. n \in 1 .. Len(fs) /\ n + 1 \in 1 .. Len(fs)
    BY <1>2
  <2>2. fs[n] \in FrameType /\ fs[n + 1] \in FrameType
    BY <1>3, <2>1
  <2> QED
    BY <1>1, <1>2, <1>3, <2>2 DEF Under, Top
<1>5. gs = Append(SubSeq(fs, 1, n - 1), p)
  BY <1>1, <1>3 DEF Below
<1>6. gs \in Seq(FrameType) /\ Len(gs) = n /\ gs[n] = p /\ \A i \in 1 .. n - 1 : gs[i] = fs[i]
  <2>1. PICK s : s = SubSeq(fs, 1, n - 1)
    OBVIOUS
  <2>2. s \in Seq(FrameType) /\ Len(s) = n - 1 /\ \A i \in 1 .. n - 1 : s[i] = fs[i]
    BY <1>2, <1>3, <2>1
  <2>3. Len(gs) = n /\ gs[n] = p /\ gs \in Seq(FrameType)
    BY <1>5, <2>1, <2>2
  <2>4. \A i \in 1 .. n - 1 : gs[i] = s[i]
    BY <1>5, <2>1, <2>2
  <2> QED
    BY <2>2, <2>3, <2>4
<1>7. Walk(gs)
  <2>1. Replaced(fs, gs, n)
    BY <1>2, <1>4, <1>6 DEF Replaced
  <2> QED
    BY <1>3, <1>6, <2>1, WalkTop
<1>8. ASSUME NEW i \in 1 .. n PROVE gs[i].mode = fs[i].mode /\ (i # n => gs[i].bad = fs[i].bad)
  <2>1. CASE i = n
    BY <1>4, <1>6, <2>1 DEF SameBase
  <2>2. CASE i # n
    <3>1. i \in 1 .. n - 1
      BY <2>2
    <3> QED
      BY <1>6, <3>1
  <2> QED
    BY <2>1, <2>2
<1>9. Linked(u, f)
  <2>1. n \in 1 .. Len(fs) - 1
    BY <1>2
  <2> QED
    BY <1>3, <1>4, <2>1 DEF Walk
<1>10. u.p0 <= f.p0 /\ u.p0 \in Nat /\ f.p0 \in Nat
  <2>1. n \in 1 .. Len(fs) /\ n + 1 \in 1 .. Len(fs) /\ n <= n + 1
    BY <1>2
  <2>2. u.p0 <= f.p0
    BY <1>3, <1>4, <2>1 DEF Walk
  <2> QED
    BY <2>2 DEF FrameType
<1>11. pings \in Nat /\ pings >= f.p0 /\ (f.bad <=> pings > f.p0) /\ (u.bad <=> f.p0 > u.p0)
  BY <1>4, <1>9, TopFacts DEF Linked
<1>12. pings' \in Nat /\ pings' >= p.p0 /\ (p.bad <=> pings' > p.p0)
  <2>1. p.p0 = u.p0
    BY <1>4 DEF SameBase
  <2>2. CASE f.mode = "plain"
    <3>1. pings' = pings /\ (p.bad <=> u.bad \/ f.bad)
      BY <1>4, <2>2
    <3> QED
      BY <1>10, <1>11, <2>1, <3>1
  <2>3. CASE f.mode # "plain"
    <3>1. pings' = f.p0 /\ (p.bad <=> u.bad)
      BY <1>4, <2>3
    <3> QED
      BY <1>10, <1>11, <2>1, <3>1
  <2> QED
    BY <2>2, <2>3
<1>13. mute' = Cardinality(Trials(gs))
  <2>1. mute = Cardinality(Trials(fs))
    BY <1>1 DEF IInv
  <2>2. /\ fs[n + 1].mode = "plain" => Cardinality(Trials(fs)) = Cardinality(Trials(gs))
        /\ fs[n + 1].mode # "plain" => Cardinality(Trials(fs)) = Cardinality(Trials(gs)) + 1
    <3>1. fs \in Seq(FrameType) /\ gs \in Seq(FrameType) /\ n = Len(gs) /\ Len(fs) = n + 1
      BY <1>2, <1>3, <1>6
    <3>2. \A i \in 1 .. n : fs[i].mode = gs[i].mode
      BY <1>8
    <3> QED
      BY <3>1, <3>2, TrialsPush
  <2>3. Cardinality(Trials(gs)) \in Nat
    BY <1>6, TrialsFinite
  <2> QED
    BY <1>4, <2>1, <2>2, <2>3
<1>14. errs' \in Nat /\ Reports(gs, errs')
  <2>1. errs' = errs /\ errs \in Nat /\ Reports(fs, errs)
    BY <1>1 DEF IInv
  <2>2. ASSUME NEW i \in 1 .. n PROVE Open(gs, i) <=> Open(fs, i)
    <3>1. \A j \in 1 .. i : j \in 1 .. n
      OBVIOUS
    <3> QED
      BY <1>8, <3>1 DEF Open
  <2>3. Open(fs, n + 1) <=> Open(fs, n) /\ f.mode = "plain"
    <3>1. \A j \in 1 .. n + 1 : j \in 1 .. n \/ j = n + 1
      OBVIOUS
    <3>2. n + 1 \in 1 .. n + 1 /\ \A j \in 1 .. n : j \in 1 .. n + 1
      OBVIOUS
    <3> QED
      BY <1>4, <3>1, <3>2 DEF Open
  <2>4. p.bad <=> u.bad \/ (f.mode = "plain" /\ f.bad)
    BY <1>4
  <2>5. \A i \in 1 .. n + 1 : i \in 1 .. n - 1 \/ i = n \/ i = n + 1
    OBVIOUS
  <2>6. /\ n \in 1 .. n /\ n \in 1 .. n + 1 /\ n + 1 \in 1 .. n + 1
        /\ \A i \in 1 .. n - 1 : i \in 1 .. n /\ i \in 1 .. n + 1 /\ i # n
    BY <1>2
  <2>7. (\A i \in 1 .. n : Open(gs, i) => ~gs[i].bad) <=>
          /\ \A i \in 1 .. n - 1 : Open(fs, i) => ~fs[i].bad
          /\ Open(fs, n) => ~p.bad
    <3>1. \A i \in 1 .. n : i \in 1 .. n - 1 \/ i = n
      OBVIOUS
    <3> QED
      BY <1>6, <1>8, <2>2, <2>6, <3>1
  <2>8. (\A i \in 1 .. n + 1 : Open(fs, i) => ~fs[i].bad) <=>
          /\ \A i \in 1 .. n - 1 : Open(fs, i) => ~fs[i].bad
          /\ Open(fs, n) => ~u.bad
          /\ Open(fs, n + 1) => ~f.bad
    BY <1>4, <2>5, <2>6
  <2>9. (Open(fs, n) => ~p.bad) <=> (Open(fs, n) => ~u.bad) /\ (Open(fs, n + 1) => ~f.bad)
    BY <2>3, <2>4
  <2> QED
    BY <1>2, <1>6, <2>1, <2>7, <2>8, <2>9 DEF Reports
<1>15. Top' = p /\ pc' = "run" /\ cap' = cap /\ moved' = moved
  BY <1>1, <1>6 DEF Top
<1>16. cap \in Nat /\ Len(gs) <= cap /\ moved \in Nat
  BY <1>1, <1>2, <1>6 DEF IInv
<1> QED
  BY <1>1, <1>7, <1>12, <1>13, <1>14, <1>15, <1>16 DEF IInv

\* What the frame below and the newest one have to do with each other.
LEMMA UnderFacts ==
  ASSUME IInv, Len(frames) > 1
  PROVE  /\ Under \in FrameType /\ Top \in FrameType /\ FrameOK(Under) /\ FrameOK(Top)
         /\ Linked(Under, Top)
         /\ Top.p0 \in Nat /\ pings \in Nat /\ pings >= Top.p0 /\ (Top.bad <=> pings > Top.p0)
<1>1. PICK n \in Nat : n + 1 = Len(frames) /\ n >= 1
  <2>1. Len(frames) \in Nat
    BY TopFacts
  <2>2. Len(frames) - 1 \in Nat /\ Len(frames) - 1 >= 1 /\ (Len(frames) - 1) + 1 = Len(frames)
    BY <2>1
  <2> QED
    BY <2>2
<1>2. Walk(frames) /\ frames \in Seq(FrameType)
  BY TopFacts
<1>3. n \in 1 .. Len(frames) - 1 /\ n \in 1 .. Len(frames) /\ Len(frames) - 1 = n
  BY <1>1
<1>4. Under = frames[n] /\ Top = frames[n + 1]
  BY <1>1, <1>3 DEF Under, Top
<1>5. Linked(frames[n], frames[n + 1]) /\ FrameOK(frames[n]) /\ frames[n] \in FrameType
  BY <1>2, <1>3 DEF Walk
<1> QED
  BY <1>4, <1>5, TopFacts

\* The frame p below f, which returned, with the list and the index of m.
JudgedAs(q, p, f, m) ==
  /\ q \in FrameType /\ SameBase(q, m) /\ q.keys = m.keys /\ q.hash = m.hash
  /\ q.step = m.step /\ q.cut = m.cut
  /\ q.bad <=> p.bad \/ (f.mode = "plain" /\ f.bad)
  /\ f.mode = "plain" /\ f.key = NoKey /\ p.inst = f.inst => q.real = p.real \cup f.real
  /\ f.mode = "plain" /\ f.key # NoKey => q.real = IF f.bad THEN p.real ELSE p.real \cup {f.key}
  /\ f.mode = "trial" /\ p.inst = f.inst => q.real = IF f.bad THEN f.real0 ELSE p.real \cup f.real
  /\ f.mode = "free" => q.real = f.real0

\* That is what a return writes.
LEMMA JudgedFacts ==
  ASSUME NEW p \in FrameType, NEW f \in FrameType, NEW m \in FrameType, NEW q, q = Judged(p, f, m)
  PROVE  JudgedAs(q, p, f, m)
<1>1. /\ f.mode \in {"plain", "trial", "free"} /\ f.key \in Key \cup {NoKey}
      /\ f.real \in SUBSET Key /\ f.real0 \in SUBSET Key /\ p.real \in SUBSET Key
      /\ m.left \in SUBSET Key /\ p.bad \in BOOLEAN /\ f.bad \in BOOLEAN
  BY DEF FrameType
<1>2. PICK got : got = IF p.inst = f.inst THEN p.real \cup f.real ELSE p.real
  OBVIOUS
<1>3. PICK real : real =
        CASE f.mode = "plain" /\ f.key = NoKey -> got
          [] f.mode = "plain" /\ f.key # NoKey -> IF f.bad THEN p.real ELSE p.real \cup {f.key}
          [] f.mode = "trial" -> IF f.bad THEN f.real0 ELSE got
          [] f.mode = "free"  -> f.real0
  OBVIOUS
<1>4. /\ f.mode = "plain" /\ f.key = NoKey => real = got
      /\ f.mode = "plain" /\ f.key # NoKey =>
              real = IF f.bad THEN p.real ELSE p.real \cup {f.key}
      /\ f.mode = "trial" => real = IF f.bad THEN f.real0 ELSE got
      /\ f.mode = "free" => real = f.real0
  BY <1>3
<1>5. PICK bad : bad = (p.bad \/ (f.mode = "plain" /\ f.bad))
  OBVIOUS
<1>6. PICK left : left = IF f.mode = "plain" THEN m.left \ {f.key} ELSE m.left
  OBVIOUS
<1>7. q = [m EXCEPT !.real = real, !.bad = bad, !.left = left]
  BY <1>2, <1>3, <1>5, <1>6 DEF Judged
<1>8. real \in SUBSET Key /\ bad \in BOOLEAN /\ left \in SUBSET Key
  <2>1. got \in SUBSET Key
    BY <1>1, <1>2
  <2>2. real \in SUBSET Key
    BY <1>1, <1>4, <2>1
  <2>3. bad \in BOOLEAN
    BY <1>5
  <2> QED
    BY <1>1, <1>6, <2>2, <2>3
<1>9. /\ q \in FrameType /\ SameBase(q, m) /\ q.keys = m.keys /\ q.hash = m.hash
      /\ q.step = m.step /\ q.cut = m.cut /\ q.real = real /\ q.bad = bad
  BY ZenonT(40), <1>7, <1>8 DEF FrameType, SameBase
<1> QED
  BY <1>2, <1>4, <1>5, <1>9 DEF JudgedAs

\* An in-place application or a member's returns: its keys are merged, or the
\* member's key is added, exactly if the standard says so.
LEMMA ReturnPlainInv ==
  ASSUME IInv, ReturnPlain, pc' = "run"
  PROVE  IInv'
<1>1. pc = "run" /\ Len(frames) > 1 /\ Top.mode = "plain"
  BY DEF ReturnPlain
<1>2. PICK u, f \in FrameType : u = Under /\ f = Top
  BY <1>1, UnderFacts
<1>3. FrameOK(u) /\ FrameOK(f) /\ Linked(u, f) /\ (f.bad <=> pings # f.p0) /\ f.mode = "plain"
  BY <1>1, <1>2, UnderFacts
<1>4. PICK m : m = MergeUp(u, f)
  OBVIOUS
<1>5. PICK annotate \in BOOLEAN : annotate <=> f.key # NoKey /\ pings = f.p0
  OBVIOUS
<1>6. PICK a : a = IF annotate THEN AddKey(m, f.key) ELSE m
  OBVIOUS
<1>7. PICK p : p = Judged(u, f, a)
  OBVIOUS
<1>8. /\ ~MergeSpins(u, f) /\ ~(annotate /\ AddKeySpins(m, f.key))
      /\ frames' = Below(p) /\ UNCHANGED <<cap, moved, pings, mute, errs, apps, pc>>
  BY <1>2, <1>4, <1>5, <1>6, <1>7 DEF ReturnPlain, Spin
<1>9. /\ m \in FrameType /\ SameButList(m, u)
      /\ IndexOK(u.hash, u.keys) => IndexOK(m.hash, m.keys)
      /\ u.inst # f.inst => m = u
      /\ u.inst = f.inst => m.keys = u.keys \o f.keys
  BY <1>4, <1>8, MergeFacts
<1>10. /\ u.keys \in Seq(Key) /\ f.keys \in Seq(Key) /\ f.key \in Key \cup {NoKey}
  BY DEF FrameType
<1>11. CASE f.key = NoKey
  <2>1. a = m /\ u.inst = f.inst
    BY <1>3, <1>5, <1>6, <1>11 DEF Linked
  <2>2. /\ p \in FrameType /\ SameBase(p, m) /\ p.keys = m.keys /\ p.hash = m.hash
        /\ p.step = m.step /\ p.cut = m.cut /\ (p.bad <=> u.bad \/ f.bad)
        /\ p.real = u.real \cup f.real
    <3>1. JudgedAs(p, u, f, m)
      BY <1>7, <1>9, <2>1, JudgedFacts
    <3> QED
      BY <1>3, <1>11, <2>1, <3>1 DEF JudgedAs
  <2>3. \A k : Listed(p.keys, k) <=> Listed(u.keys, k) \/ Listed(f.keys, k)
    <3>1. PICK x, y \in Seq(Key) : x = u.keys /\ y = f.keys /\ p.keys = x \o y
      BY <1>9, <1>10, <2>1, <2>2
    <3> QED
      BY <3>1, ListedConcat
  <2>4. p.step = u.step /\ p.cut = u.cut /\ SameBase(p, u)
    BY <1>9, <2>2 DEF SameButList, SameBase
  <2>5. FrameOK(p)
    BY <1>3, <1>9, <2>2, <2>3, <2>4 DEF FrameOK, SameBase
  <2> QED
    BY <1>1, <1>2, <1>3, <1>8, <2>2, <2>4, <2>5, PopInv
<1>12. CASE f.key # NoKey
  <2>1. f.key \in Key /\ m = u
    BY <1>3, <1>9, <1>10, <1>12 DEF Linked
  <2>2. annotate <=> ~f.bad
    BY <1>3, <1>5, <1>12
  <2>3. a \in FrameType /\ SameButList(a, u)
    BY <1>6, <1>8, <2>1, AddKeyFacts DEF SameButList
  <2>4. /\ p \in FrameType /\ SameBase(p, a) /\ p.keys = a.keys /\ p.hash = a.hash
        /\ p.step = a.step /\ p.cut = a.cut /\ (p.bad <=> u.bad \/ f.bad)
        /\ p.real = IF f.bad THEN u.real ELSE u.real \cup {f.key}
    <3>1. JudgedAs(p, u, f, a)
      BY <1>7, <2>3, JudgedFacts
    <3> QED
      BY <1>3, <1>12, <3>1 DEF JudgedAs
  <2>5. p.step = u.step /\ p.cut = u.cut /\ SameBase(p, u)
    BY <2>3, <2>4 DEF SameButList, SameBase
  <2>6. CASE f.bad
    <3>1. a = u
      BY <1>6, <2>1, <2>2, <2>6
    <3>2. FrameOK(p)
      BY <1>3, <2>4, <2>5, <2>6, <3>1 DEF FrameOK, SameBase
    <3> QED
      BY <1>1, <1>2, <1>8, <2>4, <2>5, <3>2, PopInv
  <2>7. CASE ~f.bad /\ Seen(u, f.key)
    <3>1. a = u
      BY <1>6, <1>8, <2>1, <2>2, <2>7, AddKeyFacts
    <3>2. u.step = 2
      BY <1>3, <1>12, <2>7 DEF Linked
    <3>3. IndexOK(u.hash, u.keys)
      BY <1>3, <3>2 DEF FrameOK, SameBase
    <3>4. Listed(u.keys, f.key)
      BY <2>1, <2>7, <3>3, SeenIsListed
    <3>5. f.key \in u.real
      BY <1>3, <2>1, <3>4 DEF FrameOK, SameBase
    <3>6. p.real = u.real
      BY <2>4, <2>7, <3>5
    <3>7. FrameOK(p)
      BY <1>3, <2>4, <2>5, <3>1, <3>6 DEF FrameOK, SameBase
    <3> QED
      BY <1>1, <1>2, <1>8, <2>4, <2>5, <3>7, PopInv
  <2>8. CASE ~f.bad /\ ~Seen(u, f.key)
    <3>1. /\ \A k2 : Listed(a.keys, k2) <=> Listed(u.keys, k2) \/ k2 = f.key
          /\ IndexOK(u.hash, u.keys) => IndexOK(a.hash, a.keys)
      BY <1>6, <1>8, <2>1, <2>2, <2>8, AddKeyFacts
    <3>2. p.real = u.real \cup {f.key}
      BY <2>4, <2>8
    <3>3. \A k \in Key : Listed(p.keys, k) <=> k \in p.real
      BY <1>3, <2>4, <3>1, <3>2 DEF FrameOK, SameBase
    <3>4. FrameOK(p)
      BY <1>3, <2>4, <2>5, <3>1, <3>3 DEF FrameOK, SameBase
    <3> QED
      BY <1>1, <1>2, <1>8, <2>4, <2>5, <3>4, PopInv
  <2> QED
    BY <2>6, <2>7, <2>8
<1> QED
  BY <1>11, <1>12

\* A trial returns: if it failed, or must leave no annotation, the list is cut
\* back to what it was, and the index with its stale slots is given up.
LEMMA ReturnTrialInv ==
  ASSUME IInv, ReturnTrial, pc' = "run"
  PROVE  IInv'
<1>1. pc = "run" /\ Len(frames) > 1 /\ Top.mode \in {"trial", "free"}
  BY DEF ReturnTrial
<1>2. PICK u, f \in FrameType : u = Under /\ f = Top
  BY <1>1, UnderFacts
<1>3. FrameOK(u) /\ FrameOK(f) /\ Linked(u, f) /\ (f.bad <=> pings # f.p0)
      /\ f.mode \in {"trial", "free"}
  BY <1>1, <1>2, UnderFacts
<1>4. PICK m : m = MergeUp(u, f)
  OBVIOUS
<1>5. PICK drop \in BOOLEAN : drop <=> f.mode = "free" \/ pings # f.p0
  OBVIOUS
<1>6. PICK a : a = IF drop THEN Truncate(m, f.n0) ELSE m
  OBVIOUS
<1>7. PICK p : p = Judged(u, f, a)
  OBVIOUS
<1>8. /\ ~MergeSpins(u, f)
      /\ frames' = Below(p) /\ UNCHANGED <<cap, moved, errs, apps, pc>>
      /\ mute' = mute - 1 /\ pings' = f.p0
  BY <1>2, <1>4, <1>5, <1>6, <1>7 DEF ReturnTrial, Spin
<1>9. f.key = NoKey /\ u.inst = f.inst /\ u.step = 3 /\ f.real0 = u.real /\ f.n0 = Len(u.keys)
  BY <1>3 DEF Linked
<1>10. /\ m \in FrameType /\ SameButList(m, u)
       /\ IndexOK(u.hash, u.keys) => IndexOK(m.hash, m.keys)
       /\ m.keys = u.keys \o f.keys
  BY <1>4, <1>8, <1>9, MergeFacts
<1>11. /\ u.keys \in Seq(Key) /\ f.keys \in Seq(Key)
  BY DEF FrameType
<1>12. CASE drop
  <2>1. PICK n \in Nat : n = f.n0 /\ n = Len(u.keys)
    BY <1>9, <1>11
  <2>2. n <= Len(m.keys) /\ SubSeq(m.keys, 1, n) = u.keys
    <3>1. PICK x, y : x = u.keys /\ y = f.keys
      OBVIOUS
    <3>2. x \in Seq(Key) /\ y \in Seq(Key) /\ n = Len(x)
      BY <1>11, <2>1, <3>1
    <3>3. n <= Len(x \o y) /\ SubSeq(x \o y, 1, n) = x
      BY <3>2
    <3> QED
      BY <1>10, <3>1, <3>3
  <2>3. a = Truncate(m, n)
    BY <1>6, <1>12, <2>1
  <2>4. /\ a \in FrameType /\ a.keys = u.keys /\ a.hash = m.hash
        /\ SameButList(a, [m EXCEPT !.cut = a.cut])
        /\ a.cut \/ a = m
    BY ZenonT(40), <1>10, <2>2, <2>3, TruncateFacts
  <2>5. SameBase(a, u) /\ a.step = 3
    <3>1. PICK c : c = a.cut
      OBVIOUS
    <3>2. PICK w : w = [m EXCEPT !.cut = c]
      OBVIOUS
    <3>3. /\ w.inst = m.inst /\ w.mode = m.mode /\ w.key = m.key /\ w.p0 = m.p0 /\ w.n0 = m.n0
          /\ w.real0 = m.real0 /\ w.step = m.step
      BY <1>10, <3>2 DEF FrameType
    <3> QED
      BY <1>9, <1>10, <2>4, <3>1, <3>2, <3>3 DEF SameButList, SameBase
  <2>6. /\ p \in FrameType /\ SameBase(p, a) /\ p.keys = a.keys /\ p.hash = a.hash
        /\ p.step = a.step /\ p.cut = a.cut /\ (p.bad <=> u.bad)
        /\ p.real = u.real
    <3>1. JudgedAs(p, u, f, a)
      BY <1>7, <2>4, JudgedFacts
    <3>2. f.mode = "trial" => f.bad
      BY <1>3, <1>5, <1>12
    <3> QED
      BY <1>3, <1>9, <3>1, <3>2 DEF JudgedAs
  <2>7. SameBase(p, u)
    BY <2>5, <2>6 DEF SameBase
  <2>8. ~p.cut => IndexOK(p.hash, p.keys)
    <3>1. ASSUME ~p.cut PROVE IndexOK(p.hash, p.keys)
      <4>1. a = m /\ ~m.cut
        BY <2>4, <2>6, <3>1
      <4>2. ~u.cut
        BY <1>10, <4>1 DEF SameButList
      <4> QED
        BY <1>3, <1>10, <2>6, <4>1, <4>2 DEF FrameOK, SameBase
    <3> QED
      BY <3>1
  <2>9. FrameOK(p)
    BY <1>3, <2>4, <2>5, <2>6, <2>8 DEF FrameOK, SameBase
  <2>10. Top.mode # "plain"
    BY <1>1
  <2> QED
    BY <1>1, <1>2, <1>8, <2>6, <2>7, <2>9, <2>10, PopInv
<1>13. CASE ~drop
  <2>1. a = m /\ f.mode = "trial" /\ ~f.bad
    BY <1>3, <1>5, <1>6, <1>13
  <2>2. /\ p \in FrameType /\ SameBase(p, m) /\ p.keys = m.keys /\ p.hash = m.hash
        /\ p.step = m.step /\ p.cut = m.cut /\ (p.bad <=> u.bad \/ (f.mode = "plain" /\ f.bad))
        /\ p.real = IF f.bad THEN f.real0 ELSE u.real \cup f.real
    <3>1. JudgedAs(p, u, f, m)
      BY <1>7, <1>10, <2>1, JudgedFacts
    <3> QED
      BY <1>9, <2>1, <3>1 DEF JudgedAs
  <2>3. p.real = u.real \cup f.real /\ (p.bad <=> u.bad)
    BY <2>1, <2>2
  <2>4. \A k : Listed(p.keys, k) <=> Listed(u.keys, k) \/ Listed(f.keys, k)
    <3>1. PICK x, y \in Seq(Key) : x = u.keys /\ y = f.keys /\ p.keys = x \o y
      BY <1>10, <1>11, <2>2
    <3> QED
      BY <3>1, ListedConcat
  <2>5. p.step = u.step /\ p.cut = u.cut /\ SameBase(p, u)
    BY <1>10, <2>2 DEF SameButList, SameBase
  <2>6. FrameOK(p)
    BY <1>3, <1>10, <2>2, <2>3, <2>4, <2>5 DEF FrameOK, SameBase
  <2>7. Top.mode # "plain"
    BY <1>1
  <2> QED
    BY <1>1, <1>2, <1>8, <2>2, <2>3, <2>5, <2>6, <2>7, PopInv
<1> QED
  BY <1>12, <1>13

-------------------------------------------------------------------------------
(***************************************************************************)
(* Every step.                                                             *)
(***************************************************************************)
\* A loop that does not end changes nothing.
LEMMA SpinInv ==
  ASSUME IInv, Spin
  PROVE  IInv'
<1>1. UNCHANGED <<frames, cap, moved, pings, mute, errs>> /\ pc' = "spin"
  BY DEF Spin
<1>2. Walk(frames)' = Walk(frames) /\ Trials(frames)' = Trials(frames)
      /\ Reports(frames, errs)' = Reports(frames, errs) /\ Top' = Top
  BY <1>1 DEF Top
<1> QED
  BY <1>1, <1>2 DEF IInv

\* In the beginning nothing was evaluated and nothing failed.
LEMMA InitInv == Init => IInv
<1> SUFFICES ASSUME Init PROVE IInv
  OBVIOUS
<1>1. PICK g : g = NewFrame("table", "plain", NoKey, {})
  OBVIOUS
<1>2. /\ g \in FrameType /\ g.mode = "plain" /\ g.p0 = 0 /\ g.keys = << >> /\ g.hash = << >>
      /\ g.real = {} /\ g.bad = FALSE /\ g.cut = FALSE /\ g.step = 1
  <2>1. g = [inst |-> "table", mode |-> "plain", key |-> NoKey, p0 |-> 0, n0 |-> 0,
             keys |-> << >>, hash |-> << >>, step |-> 1, left |-> {}, ptr |-> 0,
             real |-> {}, real0 |-> {}, bad |-> FALSE, cut |-> FALSE]
    BY <1>1 DEF NewFrame, Init
  <2>2. << >> \in Seq(Key) /\ << >> \in Seq(SlotType)
    OBVIOUS
  <2> QED
    BY <2>1, <2>2 DEF FrameType
<1>3. FrameOK(g)
  BY <1>2 DEF FrameOK, IndexOK, Listed
<1>4. frames = <<g>>
  BY <1>1 DEF Init
<1>5. frames \in Seq(FrameType) /\ Len(frames) = 1 /\ frames[1] = g
  BY <1>2, <1>4
<1>6. \A i \in 1 .. Len(frames) : i = 1
  BY <1>5
<1>7. Walk(frames)
  <2>1. ~(\E i \in 1 .. Len(frames) - 1 : TRUE)
    BY <1>5
  <2> QED
    BY <1>2, <1>3, <1>5, <1>6, <2>1 DEF Walk
<1>8. mute = Cardinality(Trials(frames))
  <2>1. Trials(frames) = {}
    BY <1>2, <1>5, <1>6 DEF Trials
  <2> QED
    BY <2>1, FS_EmptySet DEF Init
<1>9. Reports(frames, errs)
  BY <1>2, <1>5, <1>6 DEF Reports, Init
<1>10. Top = g
  BY <1>5 DEF Top
<1> QED
  BY <1>2, <1>5, <1>7, <1>8, <1>9, <1>10, EvalAssumption DEF IInv, Init

\* $ref, allOf, then and else.
LEMMA InPlaceInv ==
  ASSUME IInv, InPlace
  PROVE  IInv'
<1>1. PICK step \in {1, 3} : /\ Top.step <= step
                             /\ Enter(Top.inst, "plain", NoKey, step) /\ mute' = mute
  BY DEF InPlace
<1>2. PICK t \in FrameType : t = Top
  BY TopFacts
<1>3. t.inst \in {"table", "member"}
  BY DEF FrameType
<1>4. Begins(t, t.inst, "plain", NoKey, step)
  BY <1>1, <1>2, <1>3 DEF Begins
<1>5. PICK inst : inst = t.inst
  OBVIOUS
<1>6. Enter(inst, "plain", NoKey, step) /\ Begins(Top, inst, "plain", NoKey, step)
  BY <1>1, <1>2, <1>4, <1>5
<1> QED
  BY <1>1, <1>6, EnterInv

\* anyOf, oneOf, if, dependentSchemas; not.
LEMMA TrialInv ==
  ASSUME IInv, NEW mode \in {"trial", "free"}, Trial(mode)
  PROVE  IInv'
<1>1. Top.step <= 3 /\ Enter(Top.inst, mode, NoKey, 3) /\ mute' = mute + 1
  BY DEF Trial
<1>2. PICK t \in FrameType : t = Top
  BY TopFacts
<1>3. t.inst \in {"table", "member"}
  BY DEF FrameType
<1>4. Begins(t, t.inst, mode, NoKey, 3)
  BY <1>1, <1>2, <1>3 DEF Begins
<1>5. PICK inst : inst = t.inst
  OBVIOUS
<1>6. Enter(inst, mode, NoKey, 3) /\ Begins(Top, inst, mode, NoKey, 3)
  BY <1>1, <1>2, <1>4, <1>5
<1> QED
  BY <1>1, <1>6, EnterInv

\* properties, patternProperties, additionalProperties.
LEMMA PropertyInv ==
  ASSUME IInv, NEW k \in Key, Property(k)
  PROVE  IInv'
<1>1. /\ Top.inst = "table" /\ Top.step <= 2
      /\ Enter("member", "plain", k, 2) /\ mute' = mute
  BY DEF Property
<1>2. Begins(Top, "member", "plain", k, 2)
  BY <1>1, EvalAssumption DEF Begins
<1> QED
  BY <1>1, <1>2, EnterInv

\* An error of a keyword.
LEMMA VerrInv ==
  ASSUME IInv, Verr
  PROVE  IInv'
<1>1. PICK t \in FrameType : t = Top /\ FrameOK(t)
  BY TopFacts
<1>2. PICK q : q = [t EXCEPT !.bad = TRUE]
  OBVIOUS
<1>3. /\ q \in FrameType /\ SameBase(q, t) /\ q.bad = TRUE /\ q.keys = t.keys /\ q.hash = t.hash
      /\ q.real = t.real /\ q.cut = t.cut /\ q.step = t.step /\ q.inst = t.inst
  BY <1>2 DEF FrameType, SameBase
<1>4. FrameOK(q)
  BY <1>1, <1>3 DEF FrameOK
<1>5. frames' = [frames EXCEPT ![Len(frames)] = q]
  BY <1>1, <1>2 DEF Verr, Top
<1> QED
  BY <1>1, <1>3, <1>4, <1>5, TopInv DEF Verr

\* The loop of unevaluatedProperties starts.
LEMMA UnevaluatedInv ==
  ASSUME IInv, Unevaluated
  PROVE  IInv'
<1>1. PICK t \in FrameType : t = Top /\ FrameOK(t) /\ t.inst = "table" /\ t.step <= 3
  BY TopFacts DEF Unevaluated
<1>2. PICK m \in Nat : m = moved
  BY DEF IInv
<1>3. PICK left \in SUBSET Key : left = Key
  OBVIOUS
<1>4. PICK q : q = [t EXCEPT !.step = 4, !.left = left, !.ptr = m]
  OBVIOUS
<1>5. /\ q \in FrameType /\ SameBase(q, t) /\ q.bad = t.bad /\ q.keys = t.keys /\ q.hash = t.hash
      /\ q.real = t.real /\ q.cut = t.cut /\ q.step = 4 /\ q.inst = t.inst
  <2>1. PICK step \in 1 .. 4 : step = 4
    OBVIOUS
  <2>2. q = [t EXCEPT !.step = step, !.left = left, !.ptr = m]
    BY <1>4, <2>1
  <2> QED
    BY <2>1, <2>2 DEF FrameType, SameBase
<1>6. FrameOK(q)
  BY <1>1, <1>5 DEF FrameOK
<1>7. frames' = [frames EXCEPT ![Len(frames)] = q]
  <2>1. Len(frames) \in 1 .. Len(frames) /\ frames \in Seq(FrameType)
    BY TopFacts
  <2> QED
    BY <1>1, <1>2, <1>3, <1>4, <2>1 DEF Unevaluated, Top
<1> QED
  BY <1>1, <1>5, <1>6, <1>7, TopInv DEF Unevaluated

\* One turn of it.
LEMMA UnevaluatedMemberInv ==
  ASSUME IInv, NEW k \in Key, UnevaluatedMember(k)
  PROVE  IInv'
<1>1. pc = "run" /\ Top.step = 4
  BY DEF UnevaluatedMember
<1>2. PICK t \in FrameType : t = Top /\ FrameOK(t) /\ t.step = 4 /\ t.inst = "table"
  <2>1. Top \in FrameType /\ FrameOK(Top)
    BY TopFacts
  <2>2. Top.inst = "table"
    BY <1>1, <2>1 DEF FrameOK
  <2> QED
    BY <1>1, <2>1, <2>2
<1>3. PICK left : left = t.left \ {k}
  OBVIOUS
<1>4. left \in SUBSET Key
  <2>1. t.left \in SUBSET Key
    BY DEF FrameType
  <2> QED
    BY <1>3, <2>1
<1>5. CASE SeenSpins(Top, k)
  BY <1>1, <1>5, SpinInv DEF UnevaluatedMember
<1>6. CASE ~SeenSpins(Top, k) /\ Seen(Top, k)
  <2>1. PICK q : q = [t EXCEPT !.left = left]
    OBVIOUS
  <2>2. /\ q \in FrameType /\ SameBase(q, t) /\ q.bad = t.bad /\ q.keys = t.keys /\ q.hash = t.hash
        /\ q.real = t.real /\ q.cut = t.cut /\ q.step = 4 /\ q.inst = t.inst
    BY <1>2, <1>4, <2>1 DEF FrameType, SameBase
  <2>3. FrameOK(q)
    BY <1>2, <2>2 DEF FrameOK
  <2>4. /\ frames' = [frames EXCEPT ![Len(frames)] = q]
        /\ UNCHANGED <<cap, moved, pings, mute, errs, apps, pc>>
    BY <1>2, <1>3, <1>6, <2>1 DEF UnevaluatedMember, Top
  <2> QED
    BY <1>1, <1>2, <2>2, <2>3, <2>4, TopInv
<1>7. CASE ~SeenSpins(Top, k) /\ ~Seen(Top, k)
  <2>1. CASE Enter("member", "plain", k, 4) /\ mute' = mute
    <3>1. Begins(Top, "member", "plain", k, 4)
      BY <1>1, <1>2, <1>7, EvalAssumption DEF Begins
    <3> QED
      BY <2>1, <3>1, EnterInv
  <2>2. CASE /\ pings' = pings + 1 /\ errs' = IF mute > 0 THEN errs ELSE errs + 1
             /\ frames' = [frames EXCEPT ![Len(frames)].bad = TRUE,
                                         ![Len(frames)].left = @ \ {k}]
             /\ UNCHANGED <<cap, moved, mute, apps, pc>>
    <3>1. PICK q : q = [t EXCEPT !.bad = TRUE, !.left = left]
      OBVIOUS
    <3>2. /\ q \in FrameType /\ SameBase(q, t) /\ q.bad = TRUE /\ q.keys = t.keys
          /\ q.hash = t.hash /\ q.real = t.real /\ q.cut = t.cut /\ q.step = 4 /\ q.inst = t.inst
      BY <1>2, <1>4, <3>1 DEF FrameType, SameBase
    <3>3. FrameOK(q)
      BY <1>2, <3>2 DEF FrameOK
    <3>4. frames' = [frames EXCEPT ![Len(frames)] = q]
      <4>1. Len(frames) \in 1 .. Len(frames) /\ frames \in Seq(FrameType)
        BY TopFacts
      <4> QED
        BY <1>2, <1>3, <2>2, <3>1, <4>1 DEF Top
    <3> QED
      BY <1>1, <1>2, <2>2, <3>2, <3>3, <3>4, TopInv
  <2> QED
    BY <1>7, <2>1, <2>2 DEF UnevaluatedMember
<1> QED
  BY <1>5, <1>6, <1>7

\* The report.
LEMMA FinishInv ==
  ASSUME IInv, Finish
  PROVE  IInv'
<1>1. UNCHANGED <<frames, cap, moved, pings, mute, errs>> /\ pc' = "done" /\ Len(frames) = 1
  BY DEF Finish
<1>2. Walk(frames)' = Walk(frames) /\ Trials(frames)' = Trials(frames)
      /\ Reports(frames, errs)' = Reports(frames, errs) /\ Top' = Top
  BY <1>1 DEF Top
<1> QED
  BY <1>1, <1>2 DEF IInv

\* Every step keeps the invariant.
LEMMA NextInv == IInv /\ [Next]_vars => IInv'
<1> SUFFICES ASSUME IInv, [Next]_vars PROVE IInv'
  OBVIOUS
<1>1. CASE InPlace
  BY <1>1, InPlaceInv
<1>2. CASE Trial("trial") \/ Trial("free")
  BY <1>2, TrialInv
<1>3. CASE Verr
  BY <1>3, VerrInv
<1>4. CASE Unevaluated
  BY <1>4, UnevaluatedInv
<1>5. ASSUME NEW k \in Key, Property(k) PROVE IInv'
  BY <1>5, PropertyInv
<1>6. ASSUME NEW k \in Key, UnevaluatedMember(k) PROVE IInv'
  BY <1>6, UnevaluatedMemberInv
<1>7. CASE ReturnPlain
  <2>1. Spin \/ pc' = "run"
    BY <1>7 DEF ReturnPlain
  <2> QED
    BY <1>7, <2>1, SpinInv, ReturnPlainInv
<1>8. CASE ReturnTrial
  <2>1. Spin \/ pc' = "run"
    BY <1>8 DEF ReturnTrial
  <2> QED
    BY <1>8, <2>1, SpinInv, ReturnTrialInv
<1>9. CASE Finish
  BY <1>9, FinishInv
<1>10. CASE UNCHANGED vars
  <2>1. Walk(frames)' = Walk(frames) /\ Trials(frames)' = Trials(frames)
        /\ Reports(frames, errs)' = Reports(frames, errs) /\ Top' = Top
    BY <1>10 DEF Top, vars
  <2> QED
    BY <1>10, <2>1 DEF IInv, vars
<1> QED
  BY <1>1, <1>2, <1>3, <1>4, <1>5, <1>6, <1>7, <1>8, <1>9, <1>10 DEF Next

-------------------------------------------------------------------------------
(***************************************************************************)
(* The theorems.                                                           *)
(***************************************************************************)
\* In every state of the walk each frame is what the standard says, and the
\* applications that are open are linked: frame_push, frame_pop, passes and the
\* keywords of val() keep it so.
THEOREM FramesInvariant == Spec => []IInv
<1>1. Init => IInv
  BY InitInv
<1>2. IInv /\ [Next]_vars => IInv'
  BY NextInv
<1> QED
  BY <1>1, <1>2, PTL DEF Spec

\* The invariant gives the shape of the walk.
LEMMA TypeIs == IInv => TypeOK
<1> SUFFICES ASSUME IInv PROVE TypeOK
  OBVIOUS
<1>1. Walk(frames) /\ frames \in Seq(FrameType) /\ Len(frames) \in Nat /\ Len(frames) >= 1
  BY TopFacts
<1>2. DOMAIN frames = 1 .. Len(frames)
  BY <1>1
<1>3. Len(frames) \in 1 .. cap /\ pc \in {"run", "spin", "done"}
  BY <1>1 DEF IInv
<1>4. mute = Cardinality({i \in DOMAIN frames : frames[i].mode # "plain"})
  BY <1>2 DEF IInv, Trials
<1>5. ASSUME NEW i \in DOMAIN frames
      PROVE  LET f == frames[i] IN
             /\ f.inst \in {"table", "member"} /\ f.mode \in {"plain", "trial", "free"}
             /\ f.key \in Key \cup {NoKey} /\ f.p0 \in 0 .. pings /\ f.step \in 1 .. 4
             /\ f.keys \in Seq(Key) /\ f.real \subseteq Key /\ f.left \subseteq Key
  <2>1. i \in 1 .. Len(frames) /\ frames[i] \in FrameType
    BY <1>1, <1>2
  <2>2. PICK f \in FrameType : f = frames[i]
    BY <2>1
  <2>3. /\ f.inst \in {"table", "member"} /\ f.mode \in {"plain", "trial", "free"}
        /\ f.key \in Key \cup {NoKey} /\ f.p0 \in Nat /\ f.step \in 1 .. 4
        /\ f.keys \in Seq(Key) /\ f.real \subseteq Key /\ f.left \subseteq Key
    BY DEF FrameType
  <2>4. f.p0 <= Top.p0
    <3>1. Len(frames) \in 1 .. Len(frames) /\ i <= Len(frames)
      BY <1>1, <2>1
    <3> QED
      BY <1>1, <2>1, <2>2, <3>1 DEF Walk, Top
  <2>5. pings \in Nat /\ pings >= Top.p0 /\ Top.p0 \in Nat
    BY TopFacts
  <2>6. f.p0 \in 0 .. pings
    BY <2>3, <2>4, <2>5
  <2> QED
    BY <2>2, <2>3, <2>6
<1> QED
  BY <1>3, <1>4, <1>5 DEF TypeOK

\* Whatever trials are nested in it, an application fails exactly when the
\* error signal moved since it began, and the report is empty exactly when the
\* document is valid (verr, passes, passes_annot_free).
THEOREM VerdictStands == Spec => []VerdictIsPrivate
<1>1. IInv => VerdictIsPrivate
  <2> SUFFICES ASSUME IInv PROVE VerdictIsPrivate
    OBVIOUS
  <2>1. TypeOK
    BY TypeIs
  <2>2. Top.bad <=> pings > Top.p0
    BY TopFacts
  <2>3. ASSUME pc = "done" PROVE errs = 0 <=> ~Top.bad
    <3>1. Len(frames) = 1
      BY <2>3 DEF IInv
    <3>2. Open(frames, 1) /\ Top = frames[1]
      <4>1. frames[1].mode = "plain"
        BY DEF IInv, Walk
      <4>2. \A j \in 1 .. 1 : j = 1
        OBVIOUS
      <4> QED
        BY <3>1, <4>1, <4>2 DEF Open, Top
    <3>3. \A i \in 1 .. Len(frames) : i = 1
      BY <3>1
    <3>4. 1 \in 1 .. Len(frames)
      BY <3>1
    <3> QED
      BY <3>2, <3>3, <3>4 DEF IInv, Reports
  <2> QED
    BY <2>1, <2>2, <2>3 DEF VerdictIsPrivate
<1> QED
  BY <1>1, FramesInvariant, PTL

\* No list of evaluated keys ever has a key that the standard does not count:
\* frame_merge_up, frame_add_key and frame_truncate_to.
THEOREM ListsAreSound == Spec => []ListIsSound
<1>1. IInv => ListIsSound
  <2> SUFFICES ASSUME IInv, NEW i \in DOMAIN frames, NEW j \in DOMAIN frames[i].keys
               PROVE  frames[i].keys[j] \in frames[i].real
    BY DEF ListIsSound
  <2>1. frames \in Seq(FrameType) /\ i \in 1 .. Len(frames)
    BY TopFacts
  <2>2. PICK f \in FrameType : f = frames[i] /\ FrameOK(f)
    BY <2>1 DEF IInv, Walk
  <2>3. f.keys \in Seq(Key)
    BY DEF FrameType
  <2>4. PICK keys \in Seq(Key) : keys = f.keys
    BY <2>3
  <2>5. j \in 1 .. Len(keys) /\ keys[j] \in Key
    BY <2>2, <2>4
  <2>6. Listed(keys, keys[j])
    BY <2>5 DEF Listed
  <2> QED
    BY <2>2, <2>4, <2>5, <2>6 DEF FrameOK
<1> QED
  BY <1>1, FramesInvariant, PTL

\* As long as no failed trial cut the frame back, frame_key_seen answers
\* right, for every hash function and every sequence of merges and rebuilds.
THEOREM IndexAnswersRight == Spec => []SeenUnlessCut
<1>1. IInv => SeenUnlessCut
  <2> SUFFICES ASSUME IInv, ~Top.cut, NEW k \in Top.left
               PROVE  Seen(Top, k) <=> k \in Top.real
    BY DEF SeenUnlessCut
  <2>1. PICK t \in FrameType : t = Top /\ FrameOK(t)
    BY TopFacts
  <2>2. k \in Key
    BY <2>1 DEF FrameType
  <2>3. IndexOK(t.hash, t.keys)
    BY <2>1 DEF FrameOK
  <2>4. Seen(t, k) <=> Listed(t.keys, k)
    BY <2>2, <2>3, SeenIsListed
  <2> QED
    BY <2>1, <2>2, <2>4 DEF FrameOK
<1> QED
  BY <1>1, FramesInvariant, PTL
===============================================================================
