----------------------------- MODULE ParserProofs -----------------------------
(***************************************************************************)
(* Proofs about Parser, for every set of keys and every limit.             *)
(*                                                                         *)
(* The inductive invariant says what a node owes to the node it lies in    *)
(* (Loose, Placed), what the tables opened so far are (TreeOK), what the   *)
(* stack of open containers holds (StackOK) and where a walk may stand     *)
(* (WalkOK).  Its parts are operators of a tree and a list of bodies, so   *)
(* that the three ways a tree changes can be treated once each: a node is  *)
(* appended, a detached node is attached, an implicit table made explicit. *)
(*                                                                         *)
(* OpenLine is the part a unit test does not show: from every place where  *)
(* an entry may go in, all the way up, no complete inline table or array   *)
(* is passed.                                                              *)
(***************************************************************************)
EXTENDS Parser, NatRecursion

OpenFlags == {"explicit", "implicit", "dotted", "aot"}

Shape(n) ==
  \/ n.kind = "table" /\ n.flag \in {"explicit", "implicit", "dotted", "inline"}
  \/ n.kind = "array" /\ n.flag \in {"aot", "plain"}
  \/ n.kind = "scalar" /\ n.flag = "none"

\* t is above j only through nodes that may still grow, or through b.
Closed(ns, S, b) ==
  /\ S \in SUBSET (1 .. Len(ns))
  /\ \A j \in S : /\ ns[j].up = 0 \/ ns[j].up \in S
                  /\ ns[j].flag \in OpenFlags \/ j = b
OpenLine(ns, t, b) == \E S \in SUBSET (1 .. Len(ns)) : t \in S /\ Closed(ns, S, b)

\* A node that is not in the document: the root, an open container, a value
\* on its way.
Loose(n) == n.key = NoKey /\ n.via # "key" /\ n.flag \in {"explicit", "inline", "plain", "none"}

\* Where an entry made by a key may lie: its own body's tables only.
AtHome(ns, bs, t, body) ==
  \/ ns[t].flag = "explicit" /\ bs[body] = t
  \/ ns[t].flag = "dotted" /\ ns[t].via = "key" /\ ns[t].body = body
  \/ ns[t].flag = "inline" /\ ns[t].body = body

Placed(ns, bs, n) ==
  /\ n.up \in 1 .. Len(ns) /\ ns[n.up].kind \in {"table", "array"}
  /\ ns[n.up].kind = "table" => n.key \in Key
  /\ ns[n.up].kind = "array" => n.key = NoKey
  /\ ns[n.up].flag = "aot" => n.flag = "explicit"
  /\ n.via = "key" => AtHome(ns, bs, n.up, n.body)

UniqueKeys(ns) ==
  \A i, j \in 1 .. Len(ns) :
    ns[i].up # 0 /\ ns[i].up = ns[j].up /\ ns[i].key = ns[j].key /\ ns[i].key # NoKey => i = j

BodiesOK(ns, bs) ==
  /\ bs \in Seq(Nat) /\ Len(bs) >= 1 /\ bs[1] = 1
  /\ \A b \in 1 .. Len(bs) :
       bs[b] \in 1 .. Len(ns) /\ ns[bs[b]].flag = "explicit" /\ OpenLine(ns, bs[b], 0)
  /\ \A a, b \in 1 .. Len(bs) : bs[a] = bs[b] => a = b

TreeOK(ns, bs) ==
  /\ ns \in Seq(NodeType) /\ Len(ns) >= 1
  /\ BodiesOK(ns, bs)
  /\ \A i \in 1 .. Len(ns) :
       /\ Shape(ns[i]) /\ ns[i].body \in 1 .. Len(bs)
       /\ ns[i].flag = "dotted" => ns[i].via = "key"
       /\ IF ns[i].up = 0 THEN Loose(ns[i]) ELSE Placed(ns, bs, ns[i])
  /\ UniqueKeys(ns)

BoxType == [box : Nat, path : Seq(Key)]
Box(ns, bs, b) ==
  b \in 1 .. Len(ns) /\ ns[b].up = 0 /\ ns[b].flag \in {"inline", "plain"} /\ ns[b].body = Len(bs)

\* value: the containers stk[1 .. n] wait for a value, a table with its key.
Waiting(ns, stk, n) == \A s \in 1 .. n : ns[stk[s].box].kind = "table" => stk[s].path # << >>

StackOK(ns, bs, stk) ==
  /\ stk \in Seq(BoxType)
  /\ Len(stk) >= 1 => stk[1].box = bs[Len(bs)]
  /\ \A s \in 2 .. Len(stk) : Box(ns, bs, stk[s].box)
  /\ \A s, t \in 2 .. Len(stk) : stk[s].box = stk[t].box => s = t
  /\ Waiting(ns, stk, Len(stk) - 1)

WalkType(ns, w) ==
  /\ w \in [mode : {"none", "fast", "header", "aot", "dotted"}, at : Nat,
            rest : Seq(Key), path : Seq(Key), val : Nat, mark : Nat]
  /\ w.at \in 1 .. Len(ns) /\ w.val \in 0 .. Len(ns) /\ w.mark \in 0 .. Len(ns)

HeaderWalk(ns, w, stk) ==
  /\ w.mode \in {"fast", "header", "aot"} /\ stk = << >>
  /\ ns[w.at].kind = "table" /\ OpenLine(ns, w.at, 0)
  /\ w.mode = "fast" => \/ Len(ns) = w.mark
                        \/ w.at = Len(ns) /\ \A i \in 1 .. Len(ns) : ns[i].up # w.at

DottedWalk(ns, bs, w, stk) ==
  /\ w.mode = "dotted" /\ Len(stk) >= 1 /\ ns[stk[Len(stk)].box].kind = "table"
  /\ OpenLine(ns, w.at, stk[Len(stk)].box)
  /\ AtHome(ns, bs, w.at, Len(bs))
  /\ w.val # 0 /\ ns[w.val].up = 0 /\ ns[w.val].flag \in {"inline", "plain", "none"}
  /\ ns[w.val].body = Len(bs) /\ \A s \in 1 .. Len(stk) : stk[s].box # w.val

\* rest is what is left of path.
Suffix(rest, path) ==
  /\ Len(rest) >= 1 /\ Len(rest) <= Len(path)
  /\ \A i \in 1 .. Len(rest) : rest[i] = path[Len(path) - Len(rest) + i]

WalkOK(ns, bs, w, stk) ==
  /\ Suffix(w.rest, w.path)
  /\ HeaderWalk(ns, w, stk) \/ DottedWalk(ns, bs, w, stk)

\* What each value of pc says of the stack and the walk.
ControlOK ==
  /\ pc \in {"line", "walk", "value", "items", "done", "fail"}
  /\ pc \in {"line", "done", "fail"} => stack = << >>
  /\ pc = "value" => Len(stack) >= 1 /\ Waiting(nodes, stack, Len(stack))
  /\ pc = "items" => Len(stack) >= 2
  /\ IF pc = "walk" THEN WalkOK(nodes, bodies, walk, stack) ELSE walk = NoWalk
  /\ st \in {"OK", "SYNTAX", "SEMANTIC", "DEPTH", "ALLOC", "STATE"}

\* An array of tables has an element, but between the two steps of [[path]].
AotFull ==
  pc # "fail" =>
    \A i \in 1 .. Len(nodes) : nodes[i].flag = "aot" =>
      \/ \E j \in 1 .. Len(nodes) : nodes[j].up = i
      \/ Last /\ walk.mode = "aot" /\ nodes[i].up = walk.at /\ nodes[i].key = Part

IInv ==
  /\ TreeOK(nodes, bodies) /\ StackOK(nodes, bodies, stack)
  /\ WalkType(nodes, walk) /\ ControlOK /\ AotFull

-------------------------------------------------------------------------------
(***************************************************************************)
(* What finding a child, or the last element of an array, returns.         *)
(***************************************************************************)
LEMMA ChildFacts ==
  ASSUME nodes \in Seq(NodeType), NEW t, NEW k
  PROVE  \/ Child(t, k) = 0 /\ \A i \in 1 .. Len(nodes) : ~(nodes[i].up = t /\ nodes[i].key = k)
         \/ /\ Child(t, k) \in 1 .. Len(nodes)
            /\ nodes[Child(t, k)].up = t /\ nodes[Child(t, k)].key = k
<1> DEFINE S == {i \in Children(t) : nodes[i].key = k}
<1>1. \A i : i \in S <=> i \in 1 .. Len(nodes) /\ nodes[i].up = t /\ nodes[i].key = k
  BY DEF Children
<1>2. Child(t, k) = IF S = {} THEN 0 ELSE CHOOSE i \in S : TRUE
  BY DEF Child
<1> HIDE DEF S
<1>3. CASE S = {}
  BY <1>1, <1>2, <1>3
<1>4. CASE S # {}
  <2>1. Child(t, k) \in S
    BY <1>2, <1>4
  <2> QED
    BY <1>1, <2>1
<1> QED
  BY <1>3, <1>4

\* items[len - 1] of an array with an element is in it, and no other is later.
LEMMA LastElemFacts ==
  ASSUME nodes \in Seq(NodeType), NEW a, NEW c \in 1 .. Len(nodes), nodes[c].up = a
  PROVE  /\ LastElem(a) \in 1 .. Len(nodes) /\ nodes[LastElem(a)].up = a
         /\ \A j \in 1 .. Len(nodes) : nodes[j].up = a => j <= LastElem(a)
<1> DEFINE n == Len(nodes)
           S == {i \in 1 .. n : nodes[i].up = a}
           T == {m \in Nat : \E i \in S : m = n - i}
<1>1. n \in Nat /\ DOMAIN nodes = 1 .. n /\ c \in S /\ n - c \in T
  OBVIOUS
<1>2. PICK x \in T : \A y \in T : x <= y
  <2>1. T \in SUBSET Nat /\ T # {}
    BY <1>1
  <2> HIDE DEF T
  <2> QED
    BY <2>1, LeastNat
<1>3. PICK i \in S : x = n - i
  BY <1>2
<1>4. ASSUME NEW j \in S PROVE j <= i
  <2>1. n - j \in T
    <3>1. j \in 1 .. n
      OBVIOUS
    <3>2. n - j \in Nat
      <4>1. n \in Nat
        OBVIOUS
      <4> HIDE DEF n
      <4> QED
        BY <3>1, <4>1
    <3>3. \E k \in S : n - j = n - k
      OBVIOUS
    <3> QED
      BY <3>2, <3>3
  <2>2. x <= n - j
    BY <1>2, <2>1
  <2> QED
    BY <2>2, <1>1, <1>3
<1>5. Children(a) = S
  BY <1>1 DEF Children
<1> HIDE DEF S
<1>6. LastElem(a) \in S /\ \A j \in S : j <= LastElem(a)
  BY <1>3, <1>4, <1>5 DEF LastElem
<1> QED
  BY <1>6 DEF S

-------------------------------------------------------------------------------
(***************************************************************************)
(* How a step changes the tree: nodes are appended, v is attached, flags   *)
(* go from implicit to explicit.                                           *)
(***************************************************************************)
Evolves(ns, ms, v) ==
  /\ ms \in Seq(NodeType) /\ Len(ns) <= Len(ms)
  /\ v # 0 => v \in 1 .. Len(ns) /\ ns[v].up = 0 /\ ns[v].flag \in {"inline", "plain", "none"}
  /\ \A i \in 1 .. Len(ns) :
       /\ ms[i].kind = ns[i].kind /\ ms[i].body = ns[i].body
       /\ ms[i].flag = ns[i].flag \/ (ns[i].flag = "implicit" /\ ms[i].flag = "explicit")
       /\ i # v => ms[i].up = ns[i].up /\ ms[i].key = ns[i].key /\ ms[i].via = ns[i].via

\* A line of nodes that may grow stays one, in a tree that evolves.
LEMMA LineKept ==
  ASSUME NEW ns \in Seq(NodeType), NEW ms, NEW v, Evolves(ns, ms, v),
         NEW u, NEW b, b # v \/ v = 0, OpenLine(ns, u, b)
  PROVE  OpenLine(ms, u, b)
<1>1. PICK S \in SUBSET (1 .. Len(ns)) : u \in S /\ Closed(ns, S, b)
  BY DEF OpenLine
<1>2. Len(ns) \in Nat /\ Len(ms) \in Nat /\ 1 .. Len(ns) \subseteq 1 .. Len(ms)
  BY DEF Evolves
<1>3. ASSUME NEW j \in S
      PROVE  (ms[j].up = 0 \/ ms[j].up \in S) /\ (ms[j].flag \in OpenFlags \/ j = b)
  <2>1. j \in 1 .. Len(ns) /\ (ns[j].up = 0 \/ ns[j].up \in S) /\ (ns[j].flag \in OpenFlags \/ j = b)
    BY <1>1 DEF Closed
  <2>2. j # v
    BY <2>1 DEF Evolves, OpenFlags
  <2> QED
    BY <2>1, <2>2 DEF Evolves, OpenFlags
<1>4. S \in SUBSET (1 .. Len(ms))
  BY <1>2
<1>5. Closed(ms, S, b)
  BY <1>3, <1>4 DEF Closed
<1> QED
  BY <1>1, <1>4, <1>5 DEF OpenLine

\* A table stays the home of its body,
LEMMA HomeKept ==
  ASSUME NEW ns, NEW ms, NEW v, Evolves(ns, ms, v), NEW bs, NEW body,
         NEW u \in 1 .. Len(ns), AtHome(ns, bs, u, body)
  PROVE  AtHome(ms, bs, u, body)
BY DEF Evolves, AtHome

\* and an entry stays in its place.
LEMMA PlacedKept ==
  ASSUME NEW ns \in Seq(NodeType), NEW ms, NEW v, Evolves(ns, ms, v), NEW bs, NEW n, Placed(ns, bs, n)
  PROVE  Placed(ms, bs, n)
<1>1. n.up \in 1 .. Len(ns)
  BY DEF Placed
<1>2. n.up \in 1 .. Len(ms) /\ ms[n.up].kind = ns[n.up].kind
  BY <1>1 DEF Evolves
<1>3. ms[n.up].flag = "aot" => ns[n.up].flag = "aot"
  BY <1>1 DEF Evolves
<1>4. n.via = "key" => AtHome(ms, bs, n.up, n.body)
  BY <1>1, HomeKept DEF Placed
<1> QED
  BY <1>2, <1>3, <1>4 DEF Placed

\* The tree stays sound if the nodes that are new, and v, are in their place.
LEMMA TreeStep ==
  ASSUME NEW ns, NEW bs, TreeOK(ns, bs), NEW ms, NEW v, Evolves(ns, ms, v), UniqueKeys(ms),
         \A i \in 1 .. Len(ms) : i \notin 1 .. Len(ns) \/ i = v =>
           /\ Shape(ms[i]) /\ ms[i].body \in 1 .. Len(bs)
           /\ ms[i].flag = "dotted" => ms[i].via = "key"
           /\ IF ms[i].up = 0 THEN Loose(ms[i]) ELSE Placed(ms, bs, ms[i])
  PROVE  TreeOK(ms, bs)
<1>1. ns \in Seq(NodeType) /\ ms \in Seq(NodeType) /\ Len(ns) \in Nat /\ Len(ms) \in Nat
      /\ Len(ns) >= 1 /\ Len(ms) >= 1 /\ 1 .. Len(ns) \subseteq 1 .. Len(ms)
  BY DEF TreeOK, Evolves
<1>2. BodiesOK(ms, bs)
  <2>1. BodiesOK(ns, bs)
    BY DEF TreeOK
  <2>2. ASSUME NEW b \in 1 .. Len(bs)
        PROVE  bs[b] \in 1 .. Len(ms) /\ ms[bs[b]].flag = "explicit" /\ OpenLine(ms, bs[b], 0)
    <3>1. bs[b] \in 1 .. Len(ns) /\ ns[bs[b]].flag = "explicit" /\ OpenLine(ns, bs[b], 0)
      BY <2>1 DEF BodiesOK
    <3>2. OpenLine(ms, bs[b], 0)
      BY <3>1, <1>1, LineKept
    <3> QED
      BY <1>1, <3>1, <3>2 DEF Evolves
  <2> QED
    BY <2>1, <2>2 DEF BodiesOK
<1>3. ASSUME NEW i \in 1 .. Len(ms), i \in 1 .. Len(ns), i # v
      PROVE  /\ Shape(ms[i]) /\ ms[i].body \in 1 .. Len(bs)
             /\ ms[i].flag = "dotted" => ms[i].via = "key"
             /\ IF ms[i].up = 0 THEN Loose(ms[i]) ELSE Placed(ms, bs, ms[i])
  <2>1. /\ Shape(ns[i]) /\ ns[i].body \in 1 .. Len(bs)
        /\ ns[i].flag = "dotted" => ns[i].via = "key"
        /\ IF ns[i].up = 0 THEN Loose(ns[i]) ELSE Placed(ns, bs, ns[i])
    BY <1>3 DEF TreeOK
  <2>2. /\ ms[i].kind = ns[i].kind /\ ms[i].body = ns[i].body
        /\ ms[i].flag = ns[i].flag \/ (ns[i].flag = "implicit" /\ ms[i].flag = "explicit")
        /\ ms[i].up = ns[i].up /\ ms[i].key = ns[i].key /\ ms[i].via = ns[i].via
    BY <1>3 DEF Evolves
  <2>3. CASE ns[i].up = 0
    BY <2>1, <2>2, <2>3 DEF Shape, Loose
  <2>4. CASE ns[i].up # 0
    <3>1. Placed(ms, bs, ns[i])
      BY <1>1, <2>1, <2>4, PlacedKept
    <3>2. Placed(ms, bs, ms[i])
      BY <3>1, <2>2 DEF Placed
    <3> QED
      BY <2>1, <2>2, <2>4, <3>2 DEF Shape
  <2> QED
    BY <2>3, <2>4
<1> QED
  BY <1>1, <1>2, <1>3 DEF TreeOK

\* The open containers stay what they are.
LEMMA StackKept ==
  ASSUME NEW ns, NEW bs, TreeOK(ns, bs), NEW ms, NEW v, Evolves(ns, ms, v),
         NEW stk, StackOK(ns, bs, stk), \A s \in 2 .. Len(stk) : stk[s].box # v
  PROVE  /\ StackOK(ms, bs, stk)
         /\ Waiting(ns, stk, Len(stk)) => Waiting(ms, stk, Len(stk))
<1>1. stk \in Seq(BoxType) /\ Len(stk) \in Nat /\ Len(bs) \in Nat /\ Len(bs) >= 1
      /\ Len(ns) \in Nat /\ Len(ms) \in Nat /\ Len(ns) <= Len(ms)
  BY DEF StackOK, TreeOK, BodiesOK, Evolves
<1>2. ASSUME NEW s \in 2 .. Len(stk) PROVE Box(ms, bs, stk[s].box)
  <2>1. Box(ns, bs, stk[s].box) /\ stk[s].box # v
    BY DEF StackOK
  <2> DEFINE b == stk[s].box
  <2>2. b \in 1 .. Len(ns) /\ ns[b].up = 0 /\ ns[b].flag \in {"inline", "plain"}
        /\ ns[b].body = Len(bs) /\ b # v
    BY <2>1 DEF Box
  <2> HIDE DEF b
  <2>3. ms[b].up = 0 /\ ms[b].flag \in {"inline", "plain"} /\ ms[b].body = Len(bs)
        /\ b \in 1 .. Len(ms)
    BY <1>1, <2>2 DEF Evolves
  <2> QED
    BY <2>3 DEF Box, b
<1>3. ASSUME NEW s \in 1 .. Len(stk) PROVE stk[s].box \in 1 .. Len(ns)
  <2>1. CASE s = 1
    BY <1>1, <2>1 DEF StackOK, TreeOK, BodiesOK
  <2>2. CASE s \in 2 .. Len(stk)
    BY <2>2 DEF StackOK, Box
  <2> QED
    BY <1>1, <2>1, <2>2
<1>4. ASSUME NEW n \in 0 .. Len(stk), Waiting(ns, stk, n) PROVE Waiting(ms, stk, n)
  <2> SUFFICES ASSUME NEW s \in 1 .. n, ms[stk[s].box].kind = "table"
               PROVE  stk[s].path # << >>
    BY DEF Waiting
  <2>1. s \in 1 .. Len(stk)
    BY <1>1
  <2>2. ns[stk[s].box].kind = "table"
    BY <1>3, <2>1 DEF Evolves
  <2> QED
    BY <1>4, <2>2 DEF Waiting
<1>5. Waiting(ns, stk, Len(stk) - 1) => Waiting(ms, stk, Len(stk) - 1)
  <2>1. CASE Len(stk) = 0
    BY <2>1 DEF Waiting
  <2>2. CASE Len(stk) # 0
    BY <1>1, <1>4, <2>2
  <2> QED
    BY <2>1, <2>2
<1> QED
  BY <1>1, <1>2, <1>4, <1>5 DEF StackOK

\* A node is appended.
LEMMA GrowStep ==
  ASSUME NEW ns, NEW bs, TreeOK(ns, bs), NEW n \in NodeType, NEW ms, ms = Append(ns, n),
         Shape(n), n.body \in 1 .. Len(bs), n.flag = "dotted" => n.via = "key",
         n.up = 0 => Loose(n), n.up # 0 => Placed(ns, bs, n),
         n.up # 0 /\ n.key # NoKey =>
           \A i \in 1 .. Len(ns) : ~(ns[i].up = n.up /\ ns[i].key = n.key)
  PROVE  TreeOK(ms, bs) /\ Evolves(ns, ms, 0)
<1>1. ns \in Seq(NodeType) /\ Len(ns) \in Nat /\ UniqueKeys(ns)
  BY DEF TreeOK
<1>2. /\ ms \in Seq(NodeType) /\ Len(ms) = Len(ns) + 1 /\ ms[Len(ns) + 1] = n
      /\ \A i \in 1 .. Len(ns) : ms[i] = ns[i]
  BY <1>1
<1>3. Evolves(ns, ms, 0)
  BY <1>1, <1>2 DEF Evolves
<1>4. UniqueKeys(ms)
  <2> SUFFICES ASSUME NEW i \in 1 .. Len(ms), NEW j \in 1 .. Len(ms), i # j,
                      ms[i].up # 0, ms[i].up = ms[j].up, ms[i].key = ms[j].key, ms[i].key # NoKey
               PROVE  FALSE
    BY DEF UniqueKeys
  <2>1. CASE i \in 1 .. Len(ns) /\ j \in 1 .. Len(ns)
    BY <1>1, <1>2, <2>1 DEF UniqueKeys
  <2>2. CASE i = Len(ns) + 1
    <3>1. j \in 1 .. Len(ns)
      BY <1>1, <1>2, <2>2
    <3> QED
      BY <1>2, <2>2, <3>1
  <2>3. CASE j = Len(ns) + 1
    <3>1. i \in 1 .. Len(ns)
      BY <1>1, <1>2, <2>3
    <3> QED
      BY <1>2, <2>3, <3>1
  <2> QED
    BY <1>1, <1>2, <2>1, <2>2, <2>3
<1>5. ASSUME NEW i \in 1 .. Len(ms), i \notin 1 .. Len(ns) \/ i = 0
      PROVE  /\ Shape(ms[i]) /\ ms[i].body \in 1 .. Len(bs)
             /\ ms[i].flag = "dotted" => ms[i].via = "key"
             /\ IF ms[i].up = 0 THEN Loose(ms[i]) ELSE Placed(ms, bs, ms[i])
  <2>1. ms[i] = n
    BY <1>1, <1>2, <1>5
  <2>2. n.up # 0 => Placed(ms, bs, n)
    BY <1>1, <1>3, PlacedKept
  <2> QED
    BY <2>1, <2>2
<1>6. TreeOK(ms, bs)
  BY <1>3, <1>4, <1>5, TreeStep
<1> QED
  BY <1>2, <1>3, <1>6

\* A detached node is attached.
LEMMA AttachStep ==
  ASSUME NEW ns, NEW bs, TreeOK(ns, bs), NEW v \in 1 .. Len(ns), ns[v].up = 0,
         ns[v].flag \in {"inline", "plain", "none"},
         NEW ms \in Seq(NodeType), Len(ms) = Len(ns),
         \A i \in 1 .. Len(ns) : i # v => ms[i] = ns[i],
         ms[v].kind = ns[v].kind, ms[v].flag = ns[v].flag, ms[v].body = ns[v].body,
         ms[v].up # 0, Placed(ns, bs, ms[v]),
         ms[v].key # NoKey =>
           \A i \in 1 .. Len(ns) : ~(ns[i].up = ms[v].up /\ ns[i].key = ms[v].key)
  PROVE  TreeOK(ms, bs) /\ Evolves(ns, ms, v)
<1>1. ns \in Seq(NodeType) /\ Len(ns) \in Nat /\ UniqueKeys(ns) /\ Shape(ns[v])
      /\ ns[v].body \in 1 .. Len(bs)
  BY DEF TreeOK
<1>2. Evolves(ns, ms, v)
  <2>1. ASSUME NEW i \in 1 .. Len(ns)
        PROVE  /\ ms[i].kind = ns[i].kind /\ ms[i].body = ns[i].body /\ ms[i].flag = ns[i].flag
               /\ i # v => ms[i].up = ns[i].up /\ ms[i].key = ns[i].key /\ ms[i].via = ns[i].via
    <3>1. CASE i = v
      BY <3>1
    <3>2. CASE i # v
      BY <3>2
    <3> QED
      BY <3>1, <3>2
  <2>2. Len(ns) <= Len(ms)
    BY <1>1
  <2> QED
    BY <2>1, <2>2 DEF Evolves
<1>3. UniqueKeys(ms)
  <2> SUFFICES ASSUME NEW i \in 1 .. Len(ns), NEW j \in 1 .. Len(ns), i # j,
                      ms[i].up # 0, ms[i].up = ms[j].up, ms[i].key = ms[j].key, ms[i].key # NoKey
               PROVE  FALSE
    BY DEF UniqueKeys
  <2>1. CASE i # v /\ j # v
    <3>1. ms[i] = ns[i] /\ ms[j] = ns[j]
      BY <2>1
    <3> QED
      BY <1>1, <3>1 DEF UniqueKeys
  <2>2. CASE i = v
    <3>1. ms[j] = ns[j]
      BY <2>2
    <3> QED
      BY <2>2, <3>1
  <2>3. CASE j = v
    <3>1. ms[i] = ns[i]
      BY <2>3
    <3> QED
      BY <2>3, <3>1
  <2> QED
    BY <2>1, <2>2, <2>3
<1>4. ASSUME NEW i \in 1 .. Len(ms), i \notin 1 .. Len(ns) \/ i = v
      PROVE  /\ Shape(ms[i]) /\ ms[i].body \in 1 .. Len(bs)
             /\ ms[i].flag = "dotted" => ms[i].via = "key"
             /\ IF ms[i].up = 0 THEN Loose(ms[i]) ELSE Placed(ms, bs, ms[i])
  <2>1. i = v
    BY <1>4
  <2>2. Placed(ms, bs, ms[v])
    BY <1>1, <1>2, PlacedKept
  <2>3. Shape(ms[v]) /\ ms[v].flag # "dotted"
    BY <1>1 DEF Shape
  <2> QED
    BY <1>1, <2>1, <2>2, <2>3
<1> QED
  BY <1>2, <1>3, <1>4, TreeStep

\* An implicit table becomes explicit.
LEMMA ExplicitStep ==
  ASSUME NEW ns, NEW bs, TreeOK(ns, bs), NEW f \in 1 .. Len(ns), ns[f].flag = "implicit",
         NEW ms \in Seq(NodeType), Len(ms) = Len(ns),
         \A i \in 1 .. Len(ns) : i # f => ms[i] = ns[i],
         ms[f].kind = ns[f].kind, ms[f].flag = "explicit", ms[f].body = ns[f].body,
         ms[f].up = ns[f].up, ms[f].key = ns[f].key, ms[f].via = ns[f].via
  PROVE  TreeOK(ms, bs) /\ Evolves(ns, ms, 0)
<1>1. ns \in Seq(NodeType) /\ Len(ns) \in Nat /\ UniqueKeys(ns)
  BY DEF TreeOK
<1>2. ASSUME NEW i \in 1 .. Len(ns)
      PROVE  /\ ms[i].kind = ns[i].kind /\ ms[i].body = ns[i].body
             /\ ms[i].flag = ns[i].flag \/ (ns[i].flag = "implicit" /\ ms[i].flag = "explicit")
             /\ ms[i].up = ns[i].up /\ ms[i].key = ns[i].key /\ ms[i].via = ns[i].via
  <2>1. CASE i = f
    BY <2>1
  <2>2. CASE i # f
    BY <2>2
  <2> QED
    BY <2>1, <2>2
<1>3. Evolves(ns, ms, 0)
  BY <1>1, <1>2 DEF Evolves
<1>4. UniqueKeys(ms)
  BY <1>1, <1>2 DEF UniqueKeys
<1>5. \A i \in 1 .. Len(ms) : ~(i \notin 1 .. Len(ns) \/ i = 0)
  BY <1>1
<1> QED
  BY <1>3, <1>4, <1>5, TreeStep

\* A header opens a table that no header has opened.
LEMMA BodyStep ==
  ASSUME NEW ns, NEW bs, TreeOK(ns, bs), NEW t \in 1 .. Len(ns), ns[t].flag = "explicit",
         OpenLine(ns, t, 0), \A b \in 1 .. Len(bs) : bs[b] # t
  PROVE  TreeOK(ns, Append(bs, t))
<1> DEFINE cs == Append(bs, t)
<1>1. ns \in Seq(NodeType) /\ Len(ns) \in Nat /\ bs \in Seq(Nat) /\ Len(bs) \in Nat /\ Len(bs) >= 1
      /\ BodiesOK(ns, bs)
  BY DEF TreeOK, BodiesOK
<1>2. /\ cs \in Seq(Nat) /\ Len(cs) = Len(bs) + 1 /\ cs[Len(bs) + 1] = t
      /\ \A b \in 1 .. Len(bs) : cs[b] = bs[b]
  BY <1>1
<1> HIDE DEF cs
<1>3. BodiesOK(ns, cs)
  <2>1. ASSUME NEW b \in 1 .. Len(cs)
        PROVE  cs[b] \in 1 .. Len(ns) /\ ns[cs[b]].flag = "explicit" /\ OpenLine(ns, cs[b], 0)
    <3>1. CASE b \in 1 .. Len(bs)
      BY <1>1, <1>2, <3>1 DEF BodiesOK
    <3>2. CASE b = Len(bs) + 1
      BY <1>2, <3>2
    <3> QED
      BY <1>1, <1>2, <3>1, <3>2
  <2>2. ASSUME NEW a \in 1 .. Len(cs), NEW b \in 1 .. Len(cs), cs[a] = cs[b] PROVE a = b
    <3>1. CASE a \in 1 .. Len(bs) /\ b \in 1 .. Len(bs)
      BY <1>1, <1>2, <2>2, <3>1 DEF BodiesOK
    <3>2. CASE a = Len(bs) + 1 /\ b \in 1 .. Len(bs)
      BY <1>2, <2>2, <3>2
    <3>3. CASE a \in 1 .. Len(bs) /\ b = Len(bs) + 1
      BY <1>2, <2>2, <3>3
    <3> QED
      BY <1>1, <1>2, <3>1, <3>2, <3>3
  <2> QED
    BY <1>1, <1>2, <2>1, <2>2 DEF BodiesOK
<1>4. ASSUME NEW i \in 1 .. Len(ns)
      PROVE  /\ ns[i].body \in 1 .. Len(cs)
             /\ ns[i].up # 0 => Placed(ns, cs, ns[i])
  <2>1. ns[i].body \in 1 .. Len(bs) /\ (ns[i].up # 0 => Placed(ns, bs, ns[i]))
    BY DEF TreeOK
  <2>2. ASSUME NEW u, AtHome(ns, bs, u, ns[i].body) PROVE AtHome(ns, cs, u, ns[i].body)
    BY <1>2, <2>1, <2>2 DEF AtHome
  <2> QED
    BY <1>1, <1>2, <2>1, <2>2 DEF Placed
<1>5. TreeOK(ns, cs)
  BY <1>1, <1>3, <1>4 DEF TreeOK
<1> QED
  BY <1>5 DEF cs

-------------------------------------------------------------------------------
(***************************************************************************)
(* The parts of the invariant in the states between lines.                 *)
(***************************************************************************)
LEMMA PathFacts ==
  ASSUME NEW path \in Path
  PROVE  path \in Seq(Key) /\ Len(path) >= 1
<1>1. PICK n \in 1 .. MaxPath : path \in [1 .. n -> Key]
  BY DEF Path
<1> QED
  BY <1>1, ParserAssumption DEF ParserAssumption

\* A walk starts with its whole path left,
LEMMA SuffixAll ==
  ASSUME NEW path \in Seq(Key), Len(path) >= 1
  PROVE  Suffix(path, path)
<1>1. Len(path) \in Nat
  OBVIOUS
<1> QED
  BY <1>1 DEF Suffix

\* and each step takes the first of it.
LEMMA SuffixTail ==
  ASSUME NEW rest \in Seq(Key), NEW path \in Seq(Key), Suffix(rest, path), Len(rest) > 1
  PROVE  Suffix(Tail(rest), path) /\ Tail(rest) \in Seq(Key) /\ Len(Tail(rest)) = Len(rest) - 1
<1>1. /\ Len(rest) \in Nat /\ Len(path) \in Nat /\ Tail(rest) \in Seq(Key)
      /\ Len(Tail(rest)) = Len(rest) - 1
      /\ \A i \in 1 .. Len(rest) - 1 : Tail(rest)[i] = rest[i + 1]
  OBVIOUS
<1>2. ASSUME NEW i \in 1 .. Len(rest) - 1
      PROVE  rest[i + 1] = path[Len(path) - (Len(rest) - 1) + i]
  <2>1. i + 1 \in 1 .. Len(rest)
    BY <1>1
  <2>2. rest[i + 1] = path[Len(path) - Len(rest) + (i + 1)]
    BY <2>1 DEF Suffix
  <2>3. Len(path) - Len(rest) + (i + 1) = Len(path) - (Len(rest) - 1) + i
    BY <1>1
  <2> QED
    BY <2>2, <2>3
<1>3. Len(rest) - 1 >= 1 /\ Len(rest) - 1 <= Len(path)
  BY <1>1 DEF Suffix
<1> QED
  BY <1>1, <1>2, <1>3 DEF Suffix

\* Between two walks there is nothing to say of the walk.
LEMMA NoWalkType ==
  ASSUME NEW ns, NEW bs, TreeOK(ns, bs)
  PROVE  WalkType(ns, NoWalk)
<1>1. Len(ns) \in Nat /\ Len(ns) >= 1
  BY DEF TreeOK
<1>2. NoWalk \in [mode : {"none", "fast", "header", "aot", "dotted"}, at : Nat,
                  rest : Seq(Key), path : Seq(Key), val : Nat, mark : Nat]
  BY DEF NoWalk, Root
<1>3. NoWalk.at = 1 /\ NoWalk.val = 0 /\ NoWalk.mark = 0
  BY DEF NoWalk, Root
<1> QED
  BY <1>1, <1>2, <1>3 DEF WalkType

\* Between two lines there is nothing to say of the stack.
LEMMA EmptyStack ==
  ASSUME NEW ns, NEW bs
  PROVE  StackOK(ns, bs, << >>)
BY DEF StackOK, Waiting

\* Every array of tables has an element.
AotAll(ns) ==
  \A i \in 1 .. Len(ns) : ns[i].flag = "aot" => \E j \in 1 .. Len(ns) : ns[j].up = i

\* Arrays of tables keep their elements.
LEMMA AotKept ==
  ASSUME NEW ns \in Seq(NodeType), NEW ms, NEW v, Evolves(ns, ms, v), AotAll(ns),
         \A i \in 1 .. Len(ms) : i \notin 1 .. Len(ns) => ms[i].flag # "aot"
  PROVE  AotAll(ms)
<1> SUFFICES ASSUME NEW i \in 1 .. Len(ms), ms[i].flag = "aot"
             PROVE  \E j \in 1 .. Len(ms) : ms[j].up = i
  BY DEF AotAll
<1>1. i \in 1 .. Len(ns) /\ ns[i].flag = "aot"
  BY DEF Evolves
<1>2. PICK j \in 1 .. Len(ns) : ns[j].up = i
  BY <1>1 DEF AotAll
<1>3. i # 0 /\ j # v /\ j \in 1 .. Len(ms)
  BY <1>1, <1>2 DEF Evolves
<1> QED
  BY <1>2, <1>3 DEF Evolves

\* The exemption of AotFull is for the last step of a [[...]] only.
LEMMA AotFullFacts ==
  ASSUME IInv
  PROVE  /\ pc # "fail" /\ ~(Last /\ walk.mode = "aot" /\ Found # 0) => AotAll(nodes)
         /\ AotAll(nodes) => AotFull
<1>1. nodes \in Seq(NodeType)
  BY DEF IInv, TreeOK
<1>2. ASSUME pc # "fail", ~(Last /\ walk.mode = "aot" /\ Found # 0) PROVE AotAll(nodes)
  <2> SUFFICES ASSUME NEW i \in 1 .. Len(nodes), nodes[i].flag = "aot"
               PROVE  \E j \in 1 .. Len(nodes) : nodes[j].up = i
    BY DEF AotAll
  <2>1. \/ \E j \in 1 .. Len(nodes) : nodes[j].up = i
        \/ Last /\ walk.mode = "aot" /\ nodes[i].up = walk.at /\ nodes[i].key = Part
    BY <1>2 DEF IInv, AotFull
  <2>2. CASE Last /\ walk.mode = "aot" /\ nodes[i].up = walk.at /\ nodes[i].key = Part
    BY <1>1, <1>2, <2>2, ChildFacts DEF Found
  <2> QED
    BY <2>1, <2>2
<1>3. AotAll(nodes) => AotFull
  BY DEF AotAll, AotFull
<1> QED
  BY <1>2, <1>3

\* The initial state.
LEMMA InitInv == Init => IInv
<1> SUFFICES ASSUME Init PROVE IInv
  OBVIOUS
<1> DEFINE r == [kind |-> "table", flag |-> "explicit", up |-> 0, key |-> NoKey,
                 body |-> 1, via |-> "root"]
<1>1. nodes = <<r>> /\ bodies = <<1>> /\ r \in NodeType
  BY DEF Init, Root, NodeType
<1>2. Len(nodes) = 1 /\ nodes[1] = r /\ nodes \in Seq(NodeType) /\ Len(bodies) = 1 /\ bodies[1] = 1
      /\ bodies \in Seq(Nat)
  BY <1>1
<1>3. OpenLine(nodes, 1, 0)
  <2>1. {1} \in SUBSET (1 .. Len(nodes)) /\ 1 \in {1}
    BY <1>2
  <2>2. Closed(nodes, {1}, 0)
    BY <1>2, <2>1 DEF Closed, OpenFlags
  <2> QED
    BY <2>1, <2>2 DEF OpenLine
<1>4. BodiesOK(nodes, bodies)
  BY <1>2, <1>3 DEF BodiesOK
<1>5. TreeOK(nodes, bodies)
  BY <1>2, <1>4 DEF TreeOK, Shape, Loose, UniqueKeys
<1>6. StackOK(nodes, bodies, stack) /\ WalkType(nodes, walk)
  BY <1>5, NoWalkType, EmptyStack DEF Init
<1>7. ControlOK /\ AotFull
  BY <1>2 DEF Init, ControlOK, AotFull
<1> QED
  BY <1>5, <1>6, <1>7 DEF IInv

\* The first error ends the parse.
LEMMA FailInv ==
  ASSUME IInv, NEW code \in {"SYNTAX", "SEMANTIC", "DEPTH", "ALLOC", "STATE"}, Fail(code)
  PROVE  IInv'
<1>1. TreeOK(nodes', bodies')
  BY DEF Fail, IInv
<1>2. StackOK(nodes', bodies', stack') /\ WalkType(nodes', walk')
  BY <1>1, EmptyStack, NoWalkType DEF Fail
<1>3. ControlOK' /\ AotFull'
  BY DEF Fail, ControlOK, AotFull
<1> QED
  BY <1>1, <1>2, <1>3 DEF IInv

\* A line begins: a header starts at the root,
LEMMA StartInv ==
  ASSUME IInv, stack = << >>, NEW mode \in {"fast", "header", "aot"}, NEW path \in Seq(Key),
         Len(path) >= 1, StartWalk(mode, Root, path, 0), UNCHANGED <<nodes, bodies, stack, st>>,
         AotAll(nodes)
  PROVE  IInv'
<1>1. TreeOK(nodes, bodies) /\ StackOK(nodes, bodies, stack) /\ Len(nodes) \in Nat /\ Len(nodes) >= 1
      /\ nodes \in Seq(NodeType) /\ BodiesOK(nodes, bodies)
  BY DEF IInv, TreeOK
<1>2. OpenLine(nodes, 1, 0) /\ nodes[1].kind = "table"
  <2>1. bodies[1] = 1 /\ 1 \in 1 .. Len(bodies) /\ Shape(nodes[1])
    BY <1>1 DEF BodiesOK, TreeOK
  <2>2. nodes[1].flag = "explicit" /\ OpenLine(nodes, 1, 0)
    BY <1>1, <2>1 DEF BodiesOK
  <2> QED
    BY <2>1, <2>2 DEF Shape
<1>3. walk' = [mode |-> mode, at |-> 1, rest |-> path, path |-> path, val |-> 0,
               mark |-> Len(nodes)] /\ pc' = "walk"
  BY DEF StartWalk, Root
<1>4. WalkType(nodes, walk')
  BY <1>1, <1>3 DEF WalkType
<1>5. WalkOK(nodes, bodies, walk', stack)
  <2>1. Suffix(path, path)
    BY SuffixAll
  <2> QED
    BY <1>1, <1>2, <1>3, <2>1 DEF WalkOK, HeaderWalk
<1>6. ControlOK'
  BY <1>3, <1>5 DEF ControlOK, IInv
<1>7. AotFull'
  BY DEF AotAll, AotFull
<1> QED
  BY <1>1, <1>4, <1>6, <1>7 DEF IInv

\* a key with its value at the current table,
LEMMA KeyValInv ==
  ASSUME IInv, NEW path \in Path, KeyVal(path)
  PROVE  IInv'
<1>1. path \in Seq(Key) /\ Len(path) >= 1 /\ path # << >>
  BY PathFacts
<1>2. CASE Len(path) > MaxDepth
  BY <1>2, FailInv DEF KeyVal
<1>3. CASE ~(Len(path) > MaxDepth)
  <2>1. /\ stack' = <<[box |-> cur, path |-> path]>> /\ pc' = "value"
        /\ UNCHANGED <<nodes, bodies, walk, st>> /\ pc = "line"
    BY <1>3 DEF KeyVal
  <2>2. TreeOK(nodes, bodies) /\ Len(bodies) \in Nat /\ Len(bodies) >= 1 /\ cur \in Nat
        /\ cur = bodies[Len(bodies)]
    BY DEF IInv, TreeOK, BodiesOK, cur
  <2> DEFINE f == [box |-> cur, path |-> path]
  <2>3. f \in BoxType /\ f.box = bodies[Len(bodies)] /\ f.path # << >>
    BY <1>1, <2>2 DEF BoxType
  <2> HIDE DEF f
  <2>4. stack' = <<f>> /\ Len(stack') = 1 /\ stack'[1] = f /\ stack' \in Seq(BoxType)
    BY <2>1, <2>3 DEF f
  <2>5. StackOK(nodes, bodies, stack') /\ Waiting(nodes, stack', Len(stack'))
    BY <2>3, <2>4 DEF StackOK, Waiting
  <2>6. ControlOK'
    BY <2>1, <2>4, <2>5 DEF IInv, ControlOK
  <2>7. AotFull'
    <3>1. AotAll(nodes)
      BY <2>1, AotFullFacts DEF Last
    <3> QED
      BY <2>1, <3>1 DEF AotAll, AotFull
  <2> QED
    BY <2>1, <2>2, <2>5, <2>6, <2>7 DEF IInv
<1> QED
  BY <1>2, <1>3

\* or the input ends.
LEMMA LineInv ==
  ASSUME IInv, Line \/ EndOfInput
  PROVE  IInv'
<1>1. pc = "line" /\ stack = << >> /\ AotAll(nodes)
  BY AotFullFacts DEF Line, HeaderFast, Header, KeyVal, EndOfInput, IInv, ControlOK, Last
<1>2. ASSUME NEW path \in Path, HeaderFast(path) PROVE IInv'
  BY <1>1, <1>2, PathFacts, StartInv DEF HeaderFast
<1>3. ASSUME NEW path \in Path, NEW aot \in BOOLEAN, Header(path, aot) PROVE IInv'
  <2>1. CASE Len(path) > MaxDepth
    BY <1>3, <2>1, FailInv DEF Header
  <2>2. CASE ~(Len(path) > MaxDepth)
    BY <1>1, <1>3, <2>2, PathFacts, StartInv DEF Header
  <2> QED
    BY <2>1, <2>2
<1>4. CASE EndOfInput
  <2>1. UNCHANGED <<nodes, bodies, walk, stack, st>> /\ pc' = "done"
    BY <1>4 DEF EndOfInput
  <2>2. ControlOK'
    BY <1>1, <2>1 DEF IInv, ControlOK
  <2>3. AotFull'
    BY <1>1, <2>1 DEF AotFull, AotAll
  <2> QED
    BY <2>1, <2>2, <2>3 DEF IInv
<1> QED
  BY <1>2, <1>3, <1>4, KeyValInv DEF Line

-------------------------------------------------------------------------------
(***************************************************************************)
(* Values.                                                                 *)
(***************************************************************************)
\* Where an entry may go in when a walk starts: at the line's own table, or at
\* the innermost open container.
LEMMA TopFacts ==
  ASSUME NEW ns, NEW bs, TreeOK(ns, bs), NEW stk, StackOK(ns, bs, stk), Len(stk) >= 1,
         NEW b, b = stk[Len(stk)].box
  PROVE  /\ b \in 1 .. Len(ns) /\ OpenLine(ns, b, b) /\ ns[b].kind \in {"table", "array"}
         /\ ns[b].kind = "table" => AtHome(ns, bs, b, Len(bs))
         /\ ns[b].kind = "array" => Len(stk) >= 2 /\ ns[b].flag = "plain" /\ ns[b].up = 0
<1>1. /\ Len(stk) \in Nat /\ Len(bs) \in Nat /\ Len(bs) >= 1 /\ Len(bs) \in 1 .. Len(bs)
      /\ BodiesOK(ns, bs)
  BY DEF StackOK, TreeOK, BodiesOK
<1>2. CASE Len(stk) = 1
  <2>1. b = bs[Len(bs)]
    BY <1>2 DEF StackOK
  <2>2. b \in 1 .. Len(ns) /\ ns[b].flag = "explicit" /\ OpenLine(ns, b, 0)
    BY <1>1, <2>1 DEF BodiesOK
  <2>3. OpenLine(ns, b, b)
    <3>1. PICK S \in SUBSET (1 .. Len(ns)) : b \in S /\ Closed(ns, S, 0)
      BY <2>2 DEF OpenLine
    <3>2. Closed(ns, S, b)
      <4>1. ASSUME NEW j \in S PROVE (ns[j].up = 0 \/ ns[j].up \in S) /\ ns[j].flag \in OpenFlags
        <5>1. j # 0
          OBVIOUS
        <5> QED
          BY <3>1, <5>1 DEF Closed
      <4> QED
        BY <4>1 DEF Closed
    <3> QED
      BY <3>1, <3>2 DEF OpenLine
  <2>4. Shape(ns[b])
    BY <2>2 DEF TreeOK
  <2> QED
    BY <2>1, <2>2, <2>3, <2>4 DEF AtHome, Shape
<1>3. CASE Len(stk) >= 2
  <2>1. Box(ns, bs, b)
    BY <1>1, <1>3 DEF StackOK
  <2>2. {b} \in SUBSET (1 .. Len(ns)) /\ Closed(ns, {b}, b) /\ b \in {b}
    BY <2>1 DEF Box, Closed
  <2>3. OpenLine(ns, b, b)
    BY <2>2 DEF OpenLine
  <2>4. Shape(ns[b]) /\ b \in 1 .. Len(ns)
    BY <2>1 DEF TreeOK, Box
  <2>5. ns[b].flag = "inline" => AtHome(ns, bs, b, Len(bs))
    BY <2>1 DEF AtHome, Box
  <2> QED
    BY <1>3, <2>1, <2>3, <2>4, <2>5 DEF Shape, Box
<1>4. Len(stk) = 1 \/ Len(stk) >= 2
  BY <1>1
<1> QED
  BY <1>2, <1>3, <1>4

\* Changing one node.
LEMMA SeqSet ==
  ASSUME NEW ns \in Seq(NodeType), NEW v \in 1 .. Len(ns), NEW r \in NodeType, NEW ms,
         ms = [ns EXCEPT ![v] = r]
  PROVE  /\ ms \in Seq(NodeType) /\ Len(ms) = Len(ns) /\ ms[v] = r
         /\ \A i \in 1 .. Len(ns) : i # v => ms[i] = ns[i]
OBVIOUS

\* A complete value becomes an element, or starts its walk.
LEMMA DeliverInv ==
  ASSUME NEW ns, TreeOK(ns, bodies), AotAll(ns), Len(nodes) \in Nat, Len(nodes) <= Len(ns),
         NEW stk, StackOK(ns, bodies, stk), Len(stk) >= 1, Waiting(ns, stk, Len(stk)),
         NEW v \in 1 .. Len(ns), ns[v].up = 0, ns[v].key = NoKey,
         ns[v].flag \in {"inline", "plain", "none"}, ns[v].body = Len(bodies),
         \A s \in 1 .. Len(stk) : stk[s].box # v,
         walk = NoWalk, st \in {"OK", "SYNTAX", "SEMANTIC", "DEPTH", "ALLOC", "STATE"},
         Deliver(ns, stk, v)
  PROVE  IInv'
<1> DEFINE top == stk[Len(stk)]
           b == top.box
<1>1. /\ stack' = stk /\ bodies' = bodies /\ st' = st
      /\ IF ns[b].kind = "array"
         THEN /\ nodes' = [ns EXCEPT ![v].up = b, ![v].via = "elem"]
              /\ pc' = "items" /\ walk' = walk
         ELSE nodes' = ns /\ StartWalk("dotted", b, top.path, v)
  BY DEF Deliver
<1>2. ns \in Seq(NodeType) /\ Len(ns) \in Nat /\ Len(stk) \in Nat /\ top \in BoxType
  BY DEF TreeOK, StackOK
<1>3. /\ b \in 1 .. Len(ns) /\ OpenLine(ns, b, b) /\ ns[b].kind \in {"table", "array"}
      /\ ns[b].kind = "table" => AtHome(ns, bodies, b, Len(bodies))
      /\ ns[b].kind = "array" => Len(stk) >= 2 /\ ns[b].flag = "plain" /\ ns[b].up = 0
  BY TopFacts
<1>4. CASE ns[b].kind = "array"
  <2> DEFINE ms == [ns EXCEPT ![v].up = b, ![v].via = "elem"]
  <2>1. nodes' = ms /\ pc' = "items" /\ walk' = NoWalk
    BY <1>1, <1>4
  <2> DEFINE q == ns[v]
             r == [q EXCEPT !.up = b, !.via = "elem"]
  <2>2. q \in NodeType /\ b \in Nat /\ q.key = NoKey
    BY <1>2, <1>3
  <2>3. ms = [ns EXCEPT ![v] = r]
    <3> HIDE DEF b
    <3> QED
      BY <1>2, <2>2 DEF NodeType
  <2>a. /\ r \in NodeType /\ r.up = b /\ r.key = NoKey /\ r.via = "elem"
        /\ r.kind = q.kind /\ r.flag = q.flag /\ r.body = q.body
    <3> HIDE DEF b, q
    <3> QED
      BY <2>2 DEF NodeType
  <2> HIDE DEF ms, b, top, r
  <2>4. /\ ms \in Seq(NodeType) /\ Len(ms) = Len(ns)
        /\ \A i \in 1 .. Len(ns) : i # v => ms[i] = ns[i]
        /\ ms[v].kind = ns[v].kind /\ ms[v].flag = ns[v].flag /\ ms[v].body = ns[v].body
        /\ ms[v].up = b /\ ms[v].key = NoKey /\ ms[v].via = "elem"
    BY <1>2, <2>a, <2>3, SeqSet
  <2>5. Placed(ns, bodies, ms[v])
    BY <1>3, <1>4, <2>4 DEF Placed
  <2>6. TreeOK(ms, bodies) /\ Evolves(ns, ms, v)
    <3>1. b # 0
      BY <1>3
    <3> QED
      BY <2>4, <2>5, <3>1, AttachStep
  <2>7. StackOK(ms, bodies, stk)
    BY <1>2, <2>6, StackKept
  <2>8. AotAll(ms)
    BY <1>2, <2>4, <2>6, AotKept
  <2>9. AotFull'
    BY <2>1, <2>8 DEF AotFull, AotAll
  <2>10. ControlOK'
    BY <1>1, <1>3, <1>4, <2>1 DEF ControlOK
  <2>11. WalkType(ms, NoWalk)
    BY <2>6, NoWalkType
  <2> QED
    BY <1>1, <2>1, <2>6, <2>7, <2>9, <2>10, <2>11 DEF IInv
<1>5. CASE ns[b].kind = "table"
  <2>1. /\ nodes' = ns /\ pc' = "walk"
        /\ walk' = [mode |-> "dotted", at |-> b, rest |-> top.path, path |-> top.path,
                    val |-> v, mark |-> Len(nodes)]
    BY <1>1, <1>5 DEF StartWalk
  <2>2. top.path \in Seq(Key) /\ top.path # << >> /\ Len(top.path) >= 1
    <3>1. top.path \in Seq(Key) /\ top.path # << >>
      BY <1>2, <1>5 DEF Waiting, BoxType
    <3> QED
      BY <3>1
  <2> HIDE DEF b
  <2>3. WalkType(ns, walk')
    BY <1>2, <1>3, <2>1, <2>2 DEF WalkType
  <2>4. DottedWalk(ns, bodies, walk', stk)
    <3>1. b = stk[Len(stk)].box /\ v # 0
      BY DEF b
    <3> QED
      BY <1>3, <1>5, <2>1, <3>1 DEF DottedWalk
  <2>5. WalkOK(ns, bodies, walk', stk)
    <3>1. Suffix(top.path, top.path)
      BY <2>2, SuffixAll
    <3> QED
      BY <2>1, <2>4, <3>1 DEF WalkOK
  <2>6. ControlOK'
    BY <1>1, <2>1, <2>5 DEF ControlOK
  <2>7. AotFull'
    BY <2>1 DEF AotFull, AotAll
  <2> QED
    BY <1>1, <2>1, <2>3, <2>6, <2>7 DEF IInv
<1> QED
  BY <1>3, <1>4, <1>5

\* A scalar is made and delivered.
LEMMA ScalarInv ==
  ASSUME IInv, Scalar
  PROVE  IInv'
<1>1. TreeOK(nodes, bodies) /\ StackOK(nodes, bodies, stack) /\ pc = "value" /\ AotAll(nodes)
      /\ Deliver(Append(nodes, Node("scalar", "none", 0, NoKey, "none")), stack, Len(nodes) + 1)
  BY AotFullFacts DEF Scalar, IInv, Last
<1>2. /\ nodes \in Seq(NodeType) /\ Len(nodes) \in Nat /\ Len(bodies) \in Nat /\ Len(bodies) >= 1
      /\ Len(stack) \in Nat
  BY <1>1 DEF TreeOK, BodiesOK, StackOK
<1>3. PICK n \in NodeType :
        n = [kind |-> "scalar", flag |-> "none", up |-> 0, key |-> NoKey, body |-> Len(bodies),
             via |-> "none"]
  BY <1>2 DEF NodeType
<1>4. PICK ns : ns = Append(nodes, n)
  OBVIOUS
<1>5. Shape(n) /\ Loose(n) /\ n.body \in 1 .. Len(bodies) /\ n.flag # "dotted" /\ n.up = 0
  BY <1>2, <1>3 DEF Shape, Loose
<1>6. /\ TreeOK(ns, bodies) /\ Evolves(nodes, ns, 0)
      /\ Len(ns) = Len(nodes) + 1 /\ ns[Len(nodes) + 1] = n
      /\ \A i \in 1 .. Len(nodes) : ns[i] = nodes[i]
  <2>1. TreeOK(ns, bodies) /\ Evolves(nodes, ns, 0)
    BY <1>1, <1>4, <1>5, GrowStep
  <2> QED
    BY <1>2, <1>4, <2>1
<1>7. ASSUME NEW s \in 1 .. Len(stack) PROVE stack[s].box \in 1 .. Len(nodes)
  <2>1. CASE s = 1
    BY <1>1, <1>2, <2>1 DEF StackOK, TreeOK, BodiesOK
  <2>2. CASE s \in 2 .. Len(stack)
    BY <1>1, <2>2 DEF StackOK, Box
  <2> QED
    BY <1>2, <2>1, <2>2
<1>8. StackOK(ns, bodies, stack) /\ Waiting(ns, stack, Len(stack)) /\ Len(stack) >= 1
  <2>1. Waiting(nodes, stack, Len(stack)) /\ Len(stack) >= 1
    BY <1>1 DEF IInv, ControlOK
  <2>2. \A s \in 2 .. Len(stack) : stack[s].box # 0
    BY <1>2, <1>7
  <2> QED
    BY <1>1, <1>6, <2>1, <2>2, StackKept
<1>9. AotAll(ns)
  <2>1. \A i \in 1 .. Len(ns) : i \notin 1 .. Len(nodes) => ns[i].flag # "aot"
    BY <1>2, <1>3, <1>6
  <2> QED
    BY <1>1, <1>2, <1>6, <2>1, AotKept
<1>10. walk = NoWalk /\ st \in {"OK", "SYNTAX", "SEMANTIC", "DEPTH", "ALLOC", "STATE"}
  BY <1>1 DEF IInv, ControlOK
<1>11. \A s \in 1 .. Len(stack) : stack[s].box # Len(nodes) + 1
  BY <1>2, <1>7
<1>12. /\ Len(nodes) + 1 \in 1 .. Len(ns) /\ Len(nodes) <= Len(ns)
       /\ ns[Len(nodes) + 1].up = 0 /\ ns[Len(nodes) + 1].key = NoKey
       /\ ns[Len(nodes) + 1].flag = "none" /\ ns[Len(nodes) + 1].body = Len(bodies)
  BY <1>2, <1>3, <1>6
<1>13. Deliver(ns, stack, Len(nodes) + 1)
  BY <1>1, <1>3, <1>4 DEF Node
<1> QED
  BY <1>2, <1>6, <1>8, <1>9, <1>10, <1>11, <1>12, <1>13, DeliverInv

\* The containers on the stack are nodes.
LEMMA BoxFacts ==
  ASSUME NEW ns, NEW bs, TreeOK(ns, bs), NEW stk, StackOK(ns, bs, stk), NEW s \in 1 .. Len(stk)
  PROVE  stk[s].box \in 1 .. Len(ns)
<1>1. Len(stk) \in Nat /\ Len(bs) \in 1 .. Len(bs)
  BY DEF StackOK, TreeOK, BodiesOK
<1>2. CASE s = 1
  BY <1>1, <1>2 DEF StackOK, TreeOK, BodiesOK
<1>3. CASE s \in 2 .. Len(stk)
  BY <1>3 DEF StackOK, Box
<1> QED
  BY <1>1, <1>2, <1>3

\* A container opens: its node is new, detached, and on top of the stack.
LEMMA OpenInv ==
  ASSUME IInv, Open("array", "plain") \/ Open("table", "inline")
  PROVE  IInv'
<1>1. PICK kind, flag : Open(kind, flag) /\ <<kind, flag>> \in {<<"array", "plain">>, <<"table", "inline">>}
  OBVIOUS
<1>2. CASE Len(stack) > MaxDepth
  BY <1>1, <1>2, FailInv DEF Open
<1>3. CASE ~(Len(stack) > MaxDepth)
  <2>1. TreeOK(nodes, bodies) /\ StackOK(nodes, bodies, stack) /\ pc = "value" /\ AotAll(nodes)
    BY <1>1, AotFullFacts DEF Open, IInv, Last
  <2>2. /\ nodes \in Seq(NodeType) /\ Len(nodes) \in Nat /\ Len(bodies) \in Nat /\ Len(bodies) >= 1
        /\ Len(stack) \in Nat /\ stack \in Seq(BoxType)
    BY <2>1 DEF TreeOK, BodiesOK, StackOK
  <2>3. PICK n \in NodeType :
          n = [kind |-> kind, flag |-> flag, up |-> 0, key |-> NoKey, body |-> Len(bodies),
               via |-> "none"]
    BY <1>1, <2>2 DEF NodeType
  <2>4. PICK f \in BoxType : f = [box |-> Len(nodes) + 1, path |-> << >>]
    <3>1. << >> \in Seq(Key) /\ Len(nodes) + 1 \in Nat
      BY <2>2
    <3>2. [box |-> Len(nodes) + 1, path |-> << >>] \in BoxType
      BY <3>1 DEF BoxType
    <3> QED
      BY <3>2
  <2>5. PICK ns, stk : ns = Append(nodes, n) /\ stk = Append(stack, f)
    OBVIOUS
  <2>6. nodes' = ns /\ stack' = stk /\ pc' = "items" /\ UNCHANGED <<bodies, walk, st>>
    BY <1>1, <1>3, <2>3, <2>4, <2>5 DEF Open, Node
  <2>7. Shape(n) /\ Loose(n) /\ n.body \in 1 .. Len(bodies) /\ n.flag \in {"plain", "inline"} /\ n.up = 0
    BY <1>1, <2>2, <2>3 DEF Shape, Loose
  <2>8. /\ Len(ns) = Len(nodes) + 1 /\ ns[Len(nodes) + 1] = n /\ Len(nodes) + 1 \in 1 .. Len(ns)
        /\ \A i \in 1 .. Len(nodes) : ns[i] = nodes[i]
    BY <2>2, <2>5
  <2>9. TreeOK(ns, bodies) /\ Evolves(nodes, ns, 0)
    BY <2>1, <2>5, <2>7, GrowStep
  <2>10. ASSUME NEW s \in 1 .. Len(stack) PROVE stack[s].box \in 1 .. Len(nodes)
    BY <2>1, BoxFacts
  <2>11. /\ StackOK(ns, bodies, stack) /\ Waiting(ns, stack, Len(stack)) /\ Len(stack) >= 1
    <3>1. Waiting(nodes, stack, Len(stack)) /\ Len(stack) >= 1
      BY <2>1 DEF IInv, ControlOK
    <3>2. \A s \in 2 .. Len(stack) : stack[s].box # 0
      BY <2>2, <2>10
    <3> QED
      BY <2>1, <2>9, <3>1, <3>2, StackKept
  <2>12. /\ stk \in Seq(BoxType) /\ Len(stk) = Len(stack) + 1 /\ stk[Len(stack) + 1] = f
         /\ \A s \in 1 .. Len(stack) : stk[s] = stack[s]
    BY <2>2, <2>5
  <2>13. StackOK(ns, bodies, stk)
    <3>1. stk[1].box = bodies[Len(bodies)]
      BY <2>2, <2>11, <2>12 DEF StackOK
    <3>2. ASSUME NEW s \in 2 .. Len(stk) PROVE Box(ns, bodies, stk[s].box)
      <4>1. CASE s \in 2 .. Len(stack)
        BY <2>2, <2>11, <2>12, <4>1 DEF StackOK
      <4>2. CASE s = Len(stack) + 1
        <5>1. stk[s].box = Len(nodes) + 1
          BY <2>4, <2>12, <4>2
        <5> QED
          BY <2>3, <2>7, <2>8, <5>1 DEF Box
      <4> QED
        BY <2>2, <2>12, <4>1, <4>2
    <3>3. ASSUME NEW s \in 2 .. Len(stk), NEW t \in 2 .. Len(stk), stk[s].box = stk[t].box PROVE s = t
      <4>1. CASE s \in 2 .. Len(stack) /\ t \in 2 .. Len(stack)
        BY SMTT(30), <2>2, <2>11, <2>12, <3>3, <4>1 DEF StackOK
      <4>2. CASE s = Len(stack) + 1 /\ t \in 2 .. Len(stack)
        <5>1. stk[s].box = Len(nodes) + 1 /\ stk[t].box \in 1 .. Len(nodes)
          BY <2>2, <2>4, <2>10, <2>12, <4>2
        <5> QED
          BY <2>2, <3>3, <5>1
      <4>3. CASE t = Len(stack) + 1 /\ s \in 2 .. Len(stack)
        <5>1. stk[t].box = Len(nodes) + 1 /\ stk[s].box \in 1 .. Len(nodes)
          BY <2>2, <2>4, <2>10, <2>12, <4>3
        <5> QED
          BY <2>2, <3>3, <5>1
      <4> QED
        BY SMTT(30), <2>2, <2>12, <4>1, <4>2, <4>3
    <3>4. Waiting(ns, stk, Len(stk) - 1)
      BY <2>2, <2>11, <2>12 DEF Waiting
    <3> QED
      BY <2>12, <3>1, <3>2, <3>3, <3>4 DEF StackOK
  <2>14. AotAll(ns)
    <3>1. \A i \in 1 .. Len(ns) : i \notin 1 .. Len(nodes) => ns[i].flag # "aot"
      BY <2>2, <2>7, <2>8
    <3> QED
      BY <2>1, <2>2, <2>9, <3>1, AotKept
  <2>15. WalkType(ns, walk') /\ ControlOK' /\ AotFull'
    <3>1. walk = NoWalk /\ walk' = NoWalk
      BY <2>1, <2>6 DEF IInv, ControlOK
    <3>2. WalkType(ns, NoWalk)
      BY <2>9, NoWalkType
    <3>3. ControlOK'
      BY <2>2, <2>6, <2>11, <2>12, <3>1 DEF IInv, ControlOK
    <3>4. AotFull'
      BY <2>6, <2>14 DEF AotFull, AotAll
    <3> QED
      BY <3>1, <3>2, <3>3, <3>4
  <2> QED
    BY <2>6, <2>9, <2>13, <2>15 DEF IInv
<1> QED
  BY <1>2, <1>3

\* Another element of an open array.
LEMMA ElementInv ==
  ASSUME IInv, Element
  PROVE  IInv'
<1>1. /\ pc = "items" /\ nodes[stack[Len(stack)].box].kind = "array" /\ pc' = "value"
      /\ UNCHANGED <<nodes, bodies, walk, stack, st>>
  BY DEF Element, Top
<1>2. AotAll(nodes)
  BY <1>1, AotFullFacts DEF Last
<1>3. Waiting(nodes, stack, Len(stack)) /\ Len(stack) >= 1
  <2>1. Len(stack) \in Nat /\ Len(stack) >= 2 /\ Waiting(nodes, stack, Len(stack) - 1)
    BY <1>1 DEF IInv, ControlOK, StackOK
  <2>2. ASSUME NEW s \in 1 .. Len(stack), nodes[stack[s].box].kind = "table" PROVE stack[s].path # << >>
    <3>1. s # Len(stack)
      BY <1>1, <2>2
    <3>2. s \in 1 .. Len(stack) - 1
      BY <2>1, <3>1
    <3> QED
      BY <2>1, <2>2, <3>2 DEF Waiting
  <2> QED
    BY <2>1, <2>2 DEF Waiting
<1>4. ControlOK'
  BY <1>1, <1>3 DEF IInv, ControlOK
<1>5. AotFull'
  BY <1>1, <1>2 DEF AotFull, AotAll
<1> QED
  BY <1>1, <1>4, <1>5 DEF IInv

\* The key path of the innermost container is set.
LEMMA TopPath ==
  ASSUME NEW ns, NEW bs, NEW stk, StackOK(ns, bs, stk), Len(stk) >= 2, NEW path \in Seq(Key),
         NEW stl, stl = [stk EXCEPT ![Len(stk)].path = path]
  PROVE  /\ StackOK(ns, bs, stl) /\ Len(stl) = Len(stk)
         /\ path # << >> => Waiting(ns, stl, Len(stl))
<1>1. PICK n : n = Len(stk)
  OBVIOUS
<1>2. n \in Nat /\ n >= 2 /\ stk \in Seq(BoxType) /\ 1 \in 1 .. n /\ 2 .. n \subseteq 1 .. n
      /\ 1 .. n - 1 \subseteq 1 .. n
  BY <1>1 DEF StackOK
<1>3. /\ stl \in Seq(BoxType) /\ Len(stl) = n
      /\ \A s \in 1 .. n : stl[s].box = stk[s].box /\ (s # n => stl[s].path = stk[s].path)
      /\ stl[n].path = path
  <2>1. PICK g \in BoxType : g = stk[n]
    BY <1>1, <1>2
  <2>2. PICK f \in BoxType : f = [g EXCEPT !.path = path]
    BY DEF BoxType
  <2>3. stl = [stk EXCEPT ![n] = f]
    BY <1>1, <1>2, <2>1, <2>2 DEF BoxType
  <2>4. f.box = g.box /\ f.path = path
    BY <2>2 DEF BoxType
  <2>5. stl \in Seq(BoxType) /\ Len(stl) = n /\ stl[n] = f
        /\ \A s \in 1 .. n : s # n => stl[s] = stk[s]
    BY <1>1, <1>2, <2>3
  <2> QED
    BY <2>1, <2>4, <2>5
<1>4. Waiting(ns, stk, n - 1)
  BY <1>1 DEF StackOK
<1>5. Waiting(ns, stl, n - 1)
  <2> SUFFICES ASSUME NEW s \in 1 .. n - 1, ns[stl[s].box].kind = "table" PROVE stl[s].path # << >>
    BY DEF Waiting
  <2>1. s \in 1 .. n /\ s # n
    BY <1>2
  <2> QED
    BY <1>3, <1>4, <2>1 DEF Waiting
<1>6. path # << >> => Waiting(ns, stl, n)
  <2> SUFFICES ASSUME path # << >>, NEW s \in 1 .. n, ns[stl[s].box].kind = "table"
               PROVE  stl[s].path # << >>
    BY DEF Waiting
  <2>1. CASE s = n
    BY <1>3, <2>1
  <2>2. CASE s # n
    <3>1. s \in 1 .. n - 1
      BY <1>2, <2>2
    <3> QED
      BY <1>5, <3>1 DEF Waiting
  <2> QED
    BY <2>1, <2>2
<1>7. /\ \A s \in 2 .. n : Box(ns, bs, stl[s].box)
      /\ \A s, t \in 2 .. n : stl[s].box = stl[t].box => s = t
      /\ stl[1].box = bs[Len(bs)]
  <2>1. /\ stk[1].box = bs[Len(bs)]
        /\ \A s \in 2 .. n : Box(ns, bs, stk[s].box)
        /\ \A s, t \in 2 .. n : stk[s].box = stk[t].box => s = t
    BY <1>1, <1>2 DEF StackOK
  <2>2. \A s \in 1 .. n : stl[s].box = stk[s].box
    BY <1>3
  <2> QED
    BY <1>2, <2>1, <2>2
<1>8. StackOK(ns, bs, stl)
  BY <1>2, <1>3, <1>5, <1>7 DEF StackOK
<1> QED
  BY <1>1, <1>3, <1>6, <1>8

\* The key of another member of an open inline table.
LEMMA MemberInv ==
  ASSUME IInv, NEW path \in Path, Member(path)
  PROVE  IInv'
<1>1. path \in Seq(Key) /\ path # << >>
  BY PathFacts
<1>2. CASE Len(path) > MaxDepth
  BY <1>2, FailInv DEF Member
<1>3. CASE ~(Len(path) > MaxDepth)
  <2>1. /\ pc = "items" /\ pc' = "value" /\ UNCHANGED <<nodes, bodies, walk, st>>
        /\ stack' = [stack EXCEPT ![Len(stack)].path = path]
    BY <1>3 DEF Member
  <2>2. AotAll(nodes)
    BY <2>1, AotFullFacts DEF Last
  <2>3. Len(stack) \in Nat /\ Len(stack) >= 2 /\ StackOK(nodes, bodies, stack) /\ stack \in Seq(BoxType)
    BY <2>1 DEF IInv, ControlOK, StackOK
  <2>4. StackOK(nodes, bodies, stack') /\ Len(stack') = Len(stack) /\ Waiting(nodes, stack', Len(stack'))
    BY ZenonT(40), <1>1, <2>1, <2>3, TopPath
  <2>5. ControlOK'
    BY <2>1, <2>3, <2>4 DEF IInv, ControlOK
  <2>6. AotFull'
    BY <2>1, <2>2 DEF AotFull, AotAll
  <2> QED
    BY <2>1, <2>4, <2>5, <2>6 DEF IInv
<1> QED
  BY <1>2, <1>3

\* A container is complete and delivered.
LEMMA CloseInv ==
  ASSUME IInv, Close
  PROVE  IInv'
<1>1. /\ pc = "items" /\ TreeOK(nodes, bodies) /\ StackOK(nodes, bodies, stack) /\ AotAll(nodes)
      /\ Len(stack) >= 2 /\ walk = NoWalk
      /\ st \in {"OK", "SYNTAX", "SEMANTIC", "DEPTH", "ALLOC", "STATE"}
  BY AotFullFacts DEF Close, IInv, ControlOK, Last
<1>2. PICK n \in Nat : n = Len(stack) - 1 /\ n >= 1 /\ Len(stack) = n + 1
  BY <1>1 DEF StackOK
<1>3. PICK stk : stk = SubSeq(stack, 1, n)
  OBVIOUS
<1>4. /\ stk \in Seq(BoxType) /\ Len(stk) = n /\ \A s \in 1 .. n : stk[s] = stack[s]
  BY <1>1, <1>2, <1>3 DEF StackOK
<1>5. PICK v : v = stack[n + 1].box
  OBVIOUS
<1>6. Deliver(nodes, stk, v)
  BY <1>2, <1>3, <1>5 DEF Close, Top
<1>7. Box(nodes, bodies, v) /\ v \in 1 .. Len(nodes)
  <2>1. n + 1 \in 2 .. Len(stack)
    BY <1>2
  <2> QED
    BY <1>1, <1>5, <2>1 DEF StackOK, Box
<1>8. Waiting(nodes, stk, n)
  BY <1>1, <1>2, <1>4 DEF StackOK, Waiting
<1>9. StackOK(nodes, bodies, stk)
  <2>1. Waiting(nodes, stk, n - 1)
    BY <1>2, <1>8 DEF Waiting
  <2>2. \A s \in 2 .. n : s \in 1 .. n /\ s \in 2 .. n + 1
    BY <1>2
  <2>3. \A s \in 2 .. n : Box(nodes, bodies, stk[s].box)
    BY <1>1, <1>2, <1>4, <2>2 DEF StackOK
  <2>4. \A s, t \in 2 .. n : stk[s].box = stk[t].box => s = t
    BY <1>1, <1>2, <1>4, <2>2 DEF StackOK
  <2>5. stk[1].box = bodies[Len(bodies)]
    BY <1>1, <1>2, <1>4 DEF StackOK
  <2> QED
    BY <1>4, <2>1, <2>3, <2>4, <2>5 DEF StackOK
<1>10. \A s \in 1 .. n : stk[s].box # v
  <2> SUFFICES ASSUME NEW s \in 1 .. n PROVE stack[s].box # v
    BY <1>4
  <2>1. CASE s = 1
    <3>1. stack[1].box = bodies[Len(bodies)] /\ nodes[bodies[Len(bodies)]].flag = "explicit"
      BY <1>1, <1>2 DEF StackOK, TreeOK, BodiesOK
    <3> QED
      BY <1>7, <2>1, <3>1 DEF Box
  <2>2. CASE s \in 2 .. n
    <3>1. s \in 2 .. Len(stack) /\ n + 1 \in 2 .. Len(stack) /\ s # n + 1
      BY <1>2, <2>2
    <3> QED
      BY <1>1, <1>5, <3>1 DEF StackOK
  <2> QED
    BY <1>2, <2>1, <2>2
<1>11. nodes[v].up = 0 /\ nodes[v].key = NoKey /\ nodes[v].flag \in {"inline", "plain", "none"}
       /\ nodes[v].body = Len(bodies) /\ Len(nodes) \in Nat /\ Len(nodes) <= Len(nodes)
  BY <1>1, <1>7 DEF Box, TreeOK, Loose
<1> QED
  BY <1>1, <1>2, <1>4, <1>6, <1>7, <1>8, <1>9, <1>10, <1>11, DeliverInv

-------------------------------------------------------------------------------
(***************************************************************************)
(* Walks.                                                                  *)
(***************************************************************************)
\* A node that may still grow passes its line on to what lies in it.
LEMMA LineDown ==
  ASSUME NEW ns, Len(ns) \in Nat, NEW u, NEW b, OpenLine(ns, u, b), NEW f \in 1 .. Len(ns), ns[f].up = u,
         ns[f].flag \in OpenFlags
  PROVE  OpenLine(ns, f, b)
<1>1. PICK S \in SUBSET (1 .. Len(ns)) : u \in S /\ Closed(ns, S, b)
  BY DEF OpenLine
<1>2. PICK R : R = S \cup {f}
  OBVIOUS
<1>3. R \in SUBSET (1 .. Len(ns)) /\ f \in R
  BY <1>2
<1>4. ASSUME NEW j \in R
      PROVE  (ns[j].up = 0 \/ ns[j].up \in R) /\ (ns[j].flag \in OpenFlags \/ j = b)
  <2>1. CASE j = f
    BY <1>1, <1>2, <2>1
  <2>2. CASE j \in S
    BY <1>1, <1>2, <2>2 DEF Closed
  <2> QED
    BY <1>2, <2>1, <2>2
<1>5. Closed(ns, R, b)
  BY <1>3, <1>4 DEF Closed
<1> QED
  BY <1>3, <1>5 DEF OpenLine

\* The limit of a walk: nothing, or the innermost container.
Limit == IF Dotted THEN stack[Len(stack)].box ELSE 0

\* Where a walk stands.
LEMMA WalkFacts ==
  ASSUME IInv, pc = "walk"
  PROVE  /\ TreeOK(nodes, bodies) /\ StackOK(nodes, bodies, stack)
         /\ nodes \in Seq(NodeType) /\ Len(nodes) \in Nat /\ Len(bodies) \in Nat /\ Len(bodies) >= 1
         /\ walk.at \in 1 .. Len(nodes) /\ nodes[walk.at].kind = "table"
         /\ OpenLine(nodes, walk.at, Limit) /\ Part \in Key
         /\ walk.rest \in Seq(Key) /\ walk.path \in Seq(Key) /\ Suffix(walk.rest, walk.path)
         /\ Len(walk.rest) \in Nat
<1>1. /\ TreeOK(nodes, bodies) /\ StackOK(nodes, bodies, stack) /\ WalkType(nodes, walk)
      /\ WalkOK(nodes, bodies, walk, stack)
  BY DEF IInv, ControlOK
<1>2. nodes \in Seq(NodeType) /\ Len(nodes) \in Nat /\ Len(bodies) \in Nat /\ Len(bodies) >= 1
  BY <1>1 DEF TreeOK, BodiesOK
<1>3. walk.rest \in Seq(Key) /\ walk.path \in Seq(Key) /\ walk.at \in 1 .. Len(nodes)
      /\ Suffix(walk.rest, walk.path)
  BY <1>1 DEF WalkType, WalkOK
<1>4. Len(walk.rest) \in Nat /\ Len(walk.rest) >= 1
  BY <1>3 DEF Suffix
<1>5. Part \in Key
  BY <1>3, <1>4 DEF Part
<1>6. nodes[walk.at].kind = "table" /\ OpenLine(nodes, walk.at, Limit)
  <2>1. CASE HeaderWalk(nodes, walk, stack)
    BY <2>1 DEF HeaderWalk, Limit, Dotted
  <2>2. CASE DottedWalk(nodes, bodies, walk, stack)
    <3>1. nodes[walk.at].flag \in {"explicit", "dotted", "inline"} /\ Shape(nodes[walk.at])
      BY <1>1, <1>3, <2>2 DEF DottedWalk, AtHome, TreeOK
    <3>2. nodes[walk.at].kind = "table"
      BY <3>1 DEF Shape
    <3> QED
      BY <2>2, <3>2 DEF DottedWalk, Limit, Dotted
  <2> QED
    BY <1>1, <2>1, <2>2 DEF WalkOK
<1> QED
  BY <1>1, <1>2, <1>3, <1>4, <1>5, <1>6

\* An inner component is not the last.
LEMMA InnerNotLast ==
  ASSUME IInv, Inner
  PROVE  ~Last
<1>1. PICK k \in Nat : k = Len(walk.rest)
  BY WalkFacts DEF Inner
<1>2. k > 1
  BY <1>1 DEF Inner
<1>3. k # 1
  BY <1>2
<1> QED
  BY <1>1, <1>3 DEF Last

\* The walk goes on at t, in a tree that has grown or not.
LEMMA GoInv ==
  ASSUME IInv, Inner, NEW t \in 1 .. Len(nodes'), Go(t), UNCHANGED <<bodies, pc, stack, st>>,
         TreeOK(nodes', bodies), Evolves(nodes, nodes', 0), AotAll(nodes'),
         nodes'[t].kind = "table", OpenLine(nodes', t, Limit),
         Dotted => AtHome(nodes', bodies, t, Len(bodies)),
         walk.mode = "fast" => \/ Len(nodes') = walk.mark
                               \/ t = Len(nodes') /\ \A i \in 1 .. Len(nodes') : nodes'[i].up # t
  PROVE  IInv'
<1>1. /\ TreeOK(nodes, bodies) /\ StackOK(nodes, bodies, stack) /\ Len(nodes) \in Nat
      /\ walk.rest \in Seq(Key) /\ walk.path \in Seq(Key) /\ Suffix(walk.rest, walk.path)
  BY WalkFacts DEF Inner
<1>2. Suffix(Tail(walk.rest), walk.path) /\ Tail(walk.rest) \in Seq(Key)
  BY <1>1, SuffixTail DEF Inner
<1>3. WalkType(nodes, walk) /\ WalkOK(nodes, bodies, walk, stack) /\ pc = "walk"
  BY DEF IInv, ControlOK, Inner
<1>4. PICK ms, w : ms = nodes' /\ w = walk'
  OBVIOUS
<1>5. /\ w.mode = walk.mode /\ w.at = t /\ w.rest = Tail(walk.rest) /\ w.path = walk.path
      /\ w.val = walk.val /\ w.mark = walk.mark
      /\ w \in [mode : {"none", "fast", "header", "aot", "dotted"}, at : Nat,
                rest : Seq(Key), path : Seq(Key), val : Nat, mark : Nat]
  <2>1. walk \in [mode : {"none", "fast", "header", "aot", "dotted"}, at : Nat,
                rest : Seq(Key), path : Seq(Key), val : Nat, mark : Nat]
    BY <1>3 DEF WalkType
  <2>2. w = [walk EXCEPT !.at = t, !.rest = Tail(walk.rest)]
    BY <1>4 DEF Go
  <2>3. t \in Nat
    BY <1>4 DEF Evolves
  <2> QED
    BY <1>2, <2>1, <2>2, <2>3
<1>6. StackOK(ms, bodies, stack)
  <2>1. \A s \in 2 .. Len(stack) : stack[s].box # 0
    BY <1>1 DEF StackOK, Box
  <2> QED
    BY <1>1, <1>4, <2>1, StackKept
<1>7. WalkType(ms, w)
  <2>1. w.val \in 0 .. Len(nodes) /\ w.mark \in 0 .. Len(nodes)
    BY <1>3, <1>5 DEF WalkType
  <2>2. Len(nodes) <= Len(ms) /\ Len(ms) \in Nat
    BY <1>4 DEF Evolves
  <2>3. w.val \in 0 .. Len(ms) /\ w.mark \in 0 .. Len(ms)
    BY <1>1, <2>1, <2>2
  <2> QED
    BY <1>4, <1>5, <2>3 DEF WalkType
<1>8. CASE HeaderWalk(nodes, walk, stack)
  <2>1. Limit = 0
    BY <1>8 DEF HeaderWalk, Limit, Dotted
  <2>2. HeaderWalk(ms, w, stack)
    BY <1>4, <1>5, <1>8, <2>1 DEF HeaderWalk
  <2> QED
    BY <1>1, <1>2, <1>4, <1>5, <1>6, <1>7, <2>2 DEF IInv, ControlOK, WalkOK, AotAll, AotFull, Inner
<1>9. CASE DottedWalk(nodes, bodies, walk, stack)
  <2>1. Limit = stack[Len(stack)].box /\ Dotted
    BY <1>9 DEF DottedWalk, Limit, Dotted
  <2> DEFINE b == stack[Len(stack)].box
  <2>2. b \in 1 .. Len(nodes)
    <3>1. Len(stack) \in 1 .. Len(stack)
      BY <1>1, <1>9 DEF DottedWalk, StackOK
    <3> QED
      BY <1>1, <3>1, BoxFacts
  <2> HIDE DEF b
  <2>3. ms[b].kind = nodes[b].kind
    BY <1>4, <2>2 DEF Evolves
  <2>4. walk.val \in 1 .. Len(nodes)
    <3>1. walk.val \in 0 .. Len(nodes) /\ walk.val # 0
      BY <1>3, <1>9 DEF WalkType, DottedWalk
    <3> QED
      BY <1>1, <3>1
  <2>5. /\ ms[walk.val].up = 0 /\ ms[walk.val].flag \in {"inline", "plain", "none"}
        /\ ms[walk.val].body = Len(bodies)
    <3>1. ms[walk.val].up = nodes[walk.val].up /\ ms[walk.val].body = nodes[walk.val].body
          /\ (ms[walk.val].flag = nodes[walk.val].flag \/ nodes[walk.val].flag = "implicit")
      BY <1>4, <2>4 DEF Evolves
    <3> QED
      BY <1>9, <3>1 DEF DottedWalk
  <2>6. DottedWalk(ms, bodies, w, stack)
    BY <1>4, <1>5, <1>9, <2>1, <2>3, <2>5 DEF DottedWalk, b
  <2> QED
    BY <1>1, <1>2, <1>4, <1>5, <1>6, <1>7, <2>6 DEF IInv, ControlOK, WalkOK, AotAll, AotFull, Inner
<1> QED
  BY <1>3, <1>8, <1>9 DEF WalkOK

\* The parts of a walk's state that depend on its kind.
LEMMA DottedFacts ==
  ASSUME IInv, pc = "walk", Dotted
  PROVE  /\ DottedWalk(nodes, bodies, walk, stack) /\ AtHome(nodes, bodies, walk.at, Len(bodies))
         /\ Limit # 0
<1>1. DottedWalk(nodes, bodies, walk, stack)
  BY DEF IInv, ControlOK, WalkOK, HeaderWalk, Dotted
<1>2. TreeOK(nodes, bodies) /\ StackOK(nodes, bodies, stack) /\ Len(stack) \in 1 .. Len(stack)
  BY <1>1 DEF IInv, DottedWalk, StackOK
<1>3. stack[Len(stack)].box \in 1 .. Len(nodes)
  BY <1>2, BoxFacts
<1>4. stack[Len(stack)].box # 0
  <2>1. Len(nodes) \in Nat
    BY <1>2 DEF TreeOK
  <2> QED
    BY <1>3, <2>1
<1> QED
  BY <1>1, <1>4 DEF DottedWalk, Limit

\* Parts of a header's walk.
LEMMA HeaderFacts ==
  ASSUME IInv, pc = "walk", ~Dotted
  PROVE  HeaderWalk(nodes, walk, stack) /\ stack = << >> /\ Limit = 0
BY DEF IInv, ControlOK, WalkOK, DottedWalk, HeaderWalk, Dotted, Limit

\* ms is the tree with a new node m of this kind where the walk stands.
NewAt(ms, m, kind, flag, via) ==
  /\ TreeOK(ms, bodies) /\ Evolves(nodes, ms, 0)
  /\ m = Len(nodes) + 1 /\ Len(ms) = m /\ m \in 1 .. Len(ms)
  /\ \A i \in 1 .. Len(nodes) : ms[i] = nodes[i]
  /\ ms[m].kind = kind /\ ms[m].flag = flag /\ ms[m].up = walk.at /\ ms[m].key = Part
  /\ ms[m].via = via /\ ms[m].body = Len(bodies)
  /\ OpenLine(ms, m, Limit)
  /\ \A i \in 1 .. Len(ms) : ms[i].up # m

\* What the steps that create a node under the walk append is in its place.
LEMMA NewHere ==
  ASSUME IInv, pc = "walk", Found = 0, NEW kind, NEW flag, NEW via,
         \/ kind = "table" /\ flag \in {"implicit", "explicit"} /\ via = "header"
         \/ kind = "array" /\ flag = "aot" /\ via = "header"
         \/ kind = "table" /\ flag = "dotted" /\ via = "key" /\ Dotted,
         NEW ms, ms = Append(nodes, Node(kind, flag, walk.at, Part, via))
  PROVE  NewAt(ms, Len(nodes) + 1, kind, flag, via)
<1>1. /\ TreeOK(nodes, bodies) /\ nodes \in Seq(NodeType) /\ Len(nodes) \in Nat /\ Len(bodies) \in Nat
      /\ Len(bodies) >= 1 /\ walk.at \in 1 .. Len(nodes) /\ nodes[walk.at].kind = "table"
      /\ OpenLine(nodes, walk.at, Limit) /\ Part \in Key
  BY WalkFacts
<1>2. PICK n : n = [kind |-> kind, flag |-> flag, up |-> walk.at, key |-> Part, body |-> Len(bodies),
                    via |-> via]
  OBVIOUS
<1>3. n \in NodeType
  BY <1>1, <1>2 DEF NodeType
<1>4. /\ Shape(n) /\ n.body \in 1 .. Len(bodies) /\ (n.flag = "dotted" => n.via = "key") /\ n.up # 0
  BY <1>1, <1>2 DEF Shape
<1>5. Placed(nodes, bodies, n)
  <2>1. nodes[walk.at].flag # "aot"
    <3>1. Shape(nodes[walk.at])
      BY <1>1 DEF TreeOK
    <3> QED
      BY <1>1, <3>1 DEF Shape
  <2>2. via = "key" => AtHome(nodes, bodies, walk.at, Len(bodies))
    BY DottedFacts
  <2> QED
    BY <1>1, <1>2, <2>1, <2>2 DEF Placed
<1>6. \A i \in 1 .. Len(nodes) : ~(nodes[i].up = n.up /\ nodes[i].key = n.key)
  <2>1. \A i \in 1 .. Len(nodes) : ~(nodes[i].up = walk.at /\ nodes[i].key = Part)
    BY <1>1, ChildFacts DEF Found
  <2> QED
    BY <1>2, <2>1
<1>7. ms = Append(nodes, n)
  BY <1>2 DEF Node
<1>8. TreeOK(ms, bodies) /\ Evolves(nodes, ms, 0)
  BY <1>1, <1>3, <1>4, <1>5, <1>6, <1>7, GrowStep
<1>9. PICK m \in Nat : m = Len(nodes) + 1
  BY <1>1
<1>10. /\ Len(ms) = m /\ m \in 1 .. Len(ms) /\ ms[m] = n
       /\ \A i \in 1 .. Len(nodes) : ms[i] = nodes[i]
  BY <1>1, <1>3, <1>7, <1>9
<1>11. /\ ms[m].kind = kind /\ ms[m].flag = flag /\ ms[m].up = walk.at /\ ms[m].key = Part
       /\ ms[m].via = via /\ ms[m].body = Len(bodies)
  BY <1>2, <1>10
<1>12. OpenLine(ms, m, Limit)
  <2>1. OpenLine(ms, walk.at, Limit)
    BY <1>1, <1>8, LineKept
  <2>2. ms[m].flag \in OpenFlags
    BY <1>11 DEF OpenFlags
  <2>3. Len(ms) \in Nat
    BY <1>9, <1>10
  <2> QED
    BY <1>10, <1>11, <2>1, <2>2, <2>3, LineDown
<1>13. ASSUME NEW i \in 1 .. Len(ms) PROVE ms[i].up # m
  <2>1. CASE i = m
    BY <1>1, <1>9, <1>11, <2>1
  <2>2. CASE i \in 1 .. Len(nodes)
    <3>1. nodes[i].up = 0 \/ nodes[i].up \in 1 .. Len(nodes)
      BY <1>1, <2>2 DEF TreeOK, Placed
    <3> QED
      BY <1>1, <1>9, <1>10, <2>2, <3>1
  <2> QED
    BY <1>1, <1>9, <1>10, <2>1, <2>2
<1> QED
  BY <1>8, <1>9, <1>10, <1>11, <1>12, <1>13 DEF NewAt

\* A missing table on the way.
LEMMA InnerCreateInv ==
  ASSUME IInv, InnerCreate
  PROVE  IInv'
<1>1. PICK kind, flag, via :
        /\ nodes' = Append(nodes, Node(kind, flag, walk.at, Part, via))
        /\ kind = "table" /\ IF Dotted THEN flag = "dotted" /\ via = "key"
                             ELSE flag = "implicit" /\ via = "header"
  BY DEF InnerCreate
<1>2. PICK m : m = Len(nodes) + 1
  OBVIOUS
<1>3. pc = "walk" /\ Inner /\ Found = 0 /\ Go(m) /\ UNCHANGED <<bodies, pc, stack, st>>
  BY <1>2 DEF InnerCreate, Inner
<1>4. /\ TreeOK(nodes', bodies) /\ Evolves(nodes, nodes', 0)
      /\ Len(nodes') = m /\ m \in 1 .. Len(nodes')
      /\ \A i \in 1 .. Len(nodes) : nodes'[i] = nodes[i]
      /\ nodes'[m].kind = kind /\ nodes'[m].flag = flag /\ nodes'[m].up = walk.at
      /\ nodes'[m].via = via /\ nodes'[m].body = Len(bodies)
      /\ OpenLine(nodes', m, Limit)
      /\ \A i \in 1 .. Len(nodes') : nodes'[i].up # m
  <2>1. \/ kind = "table" /\ flag \in {"implicit", "explicit"} /\ via = "header"
        \/ kind = "array" /\ flag = "aot" /\ via = "header"
        \/ kind = "table" /\ flag = "dotted" /\ via = "key" /\ Dotted
    BY <1>1
  <2>2. NewAt(nodes', m, kind, flag, via)
    BY <1>1, <1>2, <1>3, <2>1, NewHere
  <2> QED
    BY <2>2 DEF NewAt
<1>5. AotAll(nodes')
  <2>1. AotAll(nodes) /\ nodes \in Seq(NodeType) /\ Len(nodes) \in Nat
    BY <1>3, AotFullFacts, WalkFacts DEF Inner, Last
  <2>2. \A i \in 1 .. Len(nodes') : i \notin 1 .. Len(nodes) => nodes'[i].flag # "aot"
    BY <1>1, <1>2, <1>4, <2>1
  <2> QED
    BY <1>4, <2>1, <2>2, AotKept
<1>6. Dotted => AtHome(nodes', bodies, m, Len(bodies))
  BY <1>1, <1>4 DEF AtHome
<1> QED
  BY <1>1, <1>3, <1>4, <1>5, <1>6, GoInv

\* What the walk found lies in the table where it stands.
LEMMA FoundFacts ==
  ASSUME IInv, pc = "walk", Found # 0
  PROVE  /\ Found \in 1 .. Len(nodes) /\ nodes[Found].up = walk.at /\ nodes[Found].key = Part
         /\ Shape(nodes[Found]) /\ Placed(nodes, bodies, nodes[Found])
         /\ nodes[Found].flag = "dotted" => nodes[Found].via = "key"
         /\ ~Dotted /\ walk.mode = "fast" => Len(nodes) = walk.mark
<1>1. /\ TreeOK(nodes, bodies) /\ nodes \in Seq(NodeType) /\ walk.at \in 1 .. Len(nodes)
      /\ Len(nodes) \in Nat
  BY WalkFacts
<1>2. Found \in 1 .. Len(nodes) /\ nodes[Found].up = walk.at /\ nodes[Found].key = Part
  BY <1>1, ChildFacts DEF Found
<1>3. walk.at # 0
  BY <1>1
<1> HIDE DEF Found
<1>4. ASSUME ~Dotted, walk.mode = "fast" PROVE Len(nodes) = walk.mark
  BY <1>2, <1>4, HeaderFacts DEF HeaderWalk
<1> QED
  BY <1>1, <1>2, <1>3, <1>4 DEF TreeOK

\* A table or an array of tables on the way.
LEMMA InnerDownInv ==
  ASSUME IInv, InnerDown
  PROVE  IInv'
<1>1. pc = "walk" /\ Inner /\ Found # 0 /\ MayPass(nodes[Found])
  BY DEF InnerDown, Inner
<1>2. /\ TreeOK(nodes, bodies) /\ nodes \in Seq(NodeType) /\ walk.at \in 1 .. Len(nodes)
      /\ Len(nodes) \in Nat /\ OpenLine(nodes, walk.at, Limit) /\ BodiesOK(nodes, bodies)
  BY <1>1, WalkFacts DEF TreeOK
<1>3. /\ Found \in 1 .. Len(nodes) /\ nodes[Found].up = walk.at
      /\ Shape(nodes[Found]) /\ Placed(nodes, bodies, nodes[Found])
      /\ nodes[Found].flag = "dotted" => nodes[Found].via = "key"
      /\ ~Dotted /\ walk.mode = "fast" => Len(nodes) = walk.mark
  BY <1>1, FoundFacts
<1>4. AotAll(nodes)
  <2>1. ~Last
    BY <1>1, InnerNotLast
  <2> QED
    BY <1>1, <2>1, AotFullFacts
<1>5. Evolves(nodes, nodes, 0)
  BY <1>2 DEF Evolves
<1>6. PICK f \in 1 .. Len(nodes) : f = Found
  BY <1>3
<1>7. nodes[f].flag \in OpenFlags
  BY <1>1, <1>3, <1>6 DEF MayPass, KeyMayPass, HeaderMayPass, Shape, OpenFlags
<1>8. OpenLine(nodes, f, Limit)
  BY <1>2, <1>3, <1>6, <1>7, LineDown
<1>9. CASE nodes[f].kind = "array"
  <2>1. ~Dotted /\ nodes[f].flag = "aot"
    BY <1>1, <1>6, <1>9 DEF MayPass, KeyMayPass, HeaderMayPass
  <2>2. PICK j \in 1 .. Len(nodes) : nodes[j].up = f
    BY <1>4, <2>1 DEF AotAll
  <2>3. PICK t : t = LastElem(f)
    OBVIOUS
  <2>4. t \in 1 .. Len(nodes) /\ nodes[t].up = f
    BY <1>2, <2>2, <2>3, LastElemFacts
  <2>5. f # 0
    BY <1>2
  <2>6. nodes[t].flag = "explicit" /\ Shape(nodes[t])
    BY <1>2, <2>1, <2>4, <2>5 DEF TreeOK, Placed
  <2>7. nodes[t].kind = "table"
    BY <2>6 DEF Shape
  <2>8. Go(t) /\ UNCHANGED <<nodes, bodies, pc, stack, st>>
    BY <1>6, <1>9, <2>3, <2>7 DEF InnerDown
  <2>9. OpenLine(nodes, t, Limit)
    BY <1>2, <1>8, <2>4, <2>6, LineDown DEF OpenFlags
  <2>10. t \in 1 .. Len(nodes') /\ TreeOK(nodes', bodies) /\ Evolves(nodes, nodes', 0) /\ AotAll(nodes')
         /\ nodes'[t].kind = "table" /\ OpenLine(nodes', t, Limit)
         /\ (walk.mode = "fast" => Len(nodes') = walk.mark)
    BY <1>2, <1>3, <1>4, <1>5, <2>1, <2>4, <2>7, <2>8, <2>9
  <2> QED
    BY <1>1, <2>1, <2>8, <2>10, GoInv
<1>10. CASE nodes[f].kind # "array"
  <2>1. Go(f) /\ UNCHANGED <<nodes, bodies, pc, stack, st>>
    BY <1>6, <1>10 DEF InnerDown
  <2>2. nodes[f].kind = "table"
    BY <1>1, <1>6, <1>10 DEF MayPass, KeyMayPass, HeaderMayPass
  <2>3. ASSUME Dotted PROVE AtHome(nodes, bodies, f, Len(bodies))
    <3>1. nodes[f].flag = "dotted" /\ nodes[f].via = "key"
      BY <1>1, <1>3, <1>6, <2>3 DEF MayPass, KeyMayPass
    <3>2. AtHome(nodes, bodies, walk.at, nodes[f].body)
      BY <1>3, <1>6, <3>1 DEF Placed
    <3>3. AtHome(nodes, bodies, walk.at, Len(bodies))
      BY <1>1, <2>3, DottedFacts
    <3>4. nodes[f].body \in 1 .. Len(bodies) /\ Len(bodies) \in 1 .. Len(bodies)
      BY <1>2 DEF TreeOK, BodiesOK
    <3>5. nodes[f].body = Len(bodies)
      <4>1. CASE nodes[walk.at].flag = "explicit"
        BY <1>2, <3>2, <3>3, <3>4, <4>1 DEF AtHome, BodiesOK
      <4>2. CASE nodes[walk.at].flag # "explicit"
        BY <3>2, <3>3, <4>2 DEF AtHome
      <4> QED
        BY <4>1, <4>2
    <3> QED
      BY <3>1, <3>5 DEF AtHome
  <2>4. walk.mode = "fast" => Len(nodes) = walk.mark
    BY <1>3 DEF Dotted
  <2>5. f \in 1 .. Len(nodes') /\ TreeOK(nodes', bodies) /\ Evolves(nodes, nodes', 0) /\ AotAll(nodes')
         /\ nodes'[f].kind = "table" /\ OpenLine(nodes', f, Limit)
         /\ (walk.mode = "fast" => Len(nodes') = walk.mark)
         /\ (Dotted => AtHome(nodes', bodies, f, Len(bodies)))
    BY <1>2, <1>4, <1>5, <1>8, <2>1, <2>2, <2>3, <2>4
  <2> QED
    BY <1>1, <2>1, <2>5, GoInv
<1> QED
  BY <1>9, <1>10

\* A header's table becomes the current one.
LEMMA OpenBodyInv ==
  ASSUME IInv, TreeOK(nodes', bodies), NEW t \in 1 .. Len(nodes'), nodes'[t].flag = "explicit",
         OpenLine(nodes', t, 0), \A b \in 1 .. Len(bodies) : bodies[b] # t, AotAll(nodes'),
         stack = << >>, OpenBody(t)
  PROVE  IInv'
<1>1. bodies' = Append(bodies, t) /\ pc' = "line" /\ walk' = NoWalk /\ UNCHANGED <<stack, st>>
  BY DEF OpenBody
<1>2. TreeOK(nodes', bodies')
  BY <1>1, BodyStep
<1>3. StackOK(nodes', bodies', stack') /\ WalkType(nodes', walk')
  BY <1>1, <1>2, EmptyStack, NoWalkType
<1>4. ControlOK'
  BY <1>1 DEF IInv, ControlOK
<1>5. AotFull'
  BY DEF AotFull, AotAll
<1> QED
  BY <1>2, <1>3, <1>4, <1>5 DEF IInv

\* No body is a node that is not there yet, or not explicit.
LEMMA NotABody ==
  ASSUME IInv, NEW t, t = Len(nodes) + 1 \/ nodes[t].flag # "explicit"
  PROVE  \A b \in 1 .. Len(bodies) : bodies[b] # t
<1> SUFFICES ASSUME NEW b \in 1 .. Len(bodies), bodies[b] = t PROVE FALSE
  OBVIOUS
<1>1. t \in 1 .. Len(nodes) /\ nodes[t].flag = "explicit" /\ Len(nodes) \in Nat
  BY DEF IInv, TreeOK, BodiesOK
<1> QED
  BY <1>1

\* [path] of a new table.
LEMMA LastNewTableInv ==
  ASSUME IInv, LastNewTable
  PROVE  IInv'
<1>1. PICK m : m = Len(nodes) + 1
  OBVIOUS
<1>2. /\ pc = "walk" /\ ~Dotted /\ Found = 0 /\ OpenBody(m) /\ walk.mode \in {"fast", "header"}
      /\ nodes' = Append(nodes, Node("table", "explicit", walk.at, Part, "header"))
  BY <1>1 DEF LastNewTable, Last, Dotted
<1>3. NewAt(nodes', m, "table", "explicit", "header")
  BY <1>1, <1>2, NewHere
<1>4. /\ TreeOK(nodes', bodies) /\ Evolves(nodes, nodes', 0) /\ m \in 1 .. Len(nodes')
      /\ nodes'[m].flag = "explicit" /\ OpenLine(nodes', m, Limit) /\ Len(nodes') = m
  BY <1>3 DEF NewAt
<1>5. Limit = 0 /\ stack = << >>
  BY <1>2, HeaderFacts
<1>6. AotAll(nodes')
  <2>1. AotAll(nodes) /\ nodes \in Seq(NodeType) /\ Len(nodes) \in Nat
    BY <1>2, AotFullFacts, WalkFacts
  <2>2. \A i \in 1 .. Len(nodes') : i \notin 1 .. Len(nodes) => nodes'[i].flag # "aot"
    BY <1>1, <1>4, <2>1
  <2> QED
    BY <1>4, <2>1, <2>2, AotKept
<1>7. \A b \in 1 .. Len(bodies) : bodies[b] # m
  BY <1>1, NotABody
<1> QED
  BY <1>2, <1>4, <1>5, <1>6, <1>7, OpenBodyInv

\* The fast path hands the line over.
LEMMA FastFallbackInv ==
  ASSUME IInv, FastFallback
  PROVE  IInv'
<1>1. pc = "walk" /\ ~Dotted /\ walk.mode = "fast"
  BY DEF FastFallback, Last, Dotted
<1>2. AotAll(nodes) /\ stack = << >>
  BY <1>1, AotFullFacts, HeaderFacts
<1>3. walk.path \in Seq(Key) /\ Len(walk.path) >= 1
  <2>1. walk.path \in Seq(Key) /\ Suffix(walk.rest, walk.path) /\ Len(walk.rest) \in Nat
    BY <1>1, WalkFacts
  <2> QED
    BY <2>1 DEF Suffix
<1>4. CASE Len(walk.path) > MaxDepth
  BY <1>4, FailInv DEF FastFallback
<1>5. CASE ~(Len(walk.path) > MaxDepth)
  <2>1. StartWalk("header", Root, walk.path, 0) /\ UNCHANGED <<nodes, bodies, stack, st>>
    BY <1>5 DEF FastFallback
  <2> QED
    BY <1>2, <1>3, <2>1, StartInv
<1> QED
  BY <1>4, <1>5

\* [path] of an implicit table.
LEMMA LastImplicitInv ==
  ASSUME IInv, LastImplicit
  PROVE  IInv'
<1>1. /\ pc = "walk" /\ ~Dotted /\ Found # 0 /\ walk.mode = "header"
      /\ nodes[Found].flag = "implicit" /\ OpenBody(Found)
      /\ nodes' = [nodes EXCEPT ![Found].flag = "explicit"]
  BY DEF LastImplicit, Last, Dotted
<1>2. /\ TreeOK(nodes, bodies) /\ nodes \in Seq(NodeType) /\ OpenLine(nodes, walk.at, Limit)
      /\ Len(nodes) \in Nat
  BY <1>1, WalkFacts
<1>3. Limit = 0 /\ stack = << >> /\ AotAll(nodes)
  BY <1>1, HeaderFacts, AotFullFacts
<1>4. PICK f \in 1 .. Len(nodes) : f = Found /\ nodes[f].up = walk.at /\ nodes[f].flag = "implicit"
  BY <1>1, FoundFacts
<1>5. /\ nodes' \in Seq(NodeType) /\ Len(nodes') = Len(nodes)
      /\ \A i \in 1 .. Len(nodes) : i # f => nodes'[i] = nodes[i]
      /\ nodes'[f].kind = nodes[f].kind /\ nodes'[f].flag = "explicit"
      /\ nodes'[f].body = nodes[f].body /\ nodes'[f].up = nodes[f].up
      /\ nodes'[f].key = nodes[f].key /\ nodes'[f].via = nodes[f].via
  <2>1. PICK q \in NodeType : q = nodes[f]
    BY <1>2
  <2>2. PICK r \in NodeType : r = [q EXCEPT !.flag = "explicit"]
    BY DEF NodeType
  <2>3. nodes' = [nodes EXCEPT ![f] = r]
    BY <1>1, <1>2, <1>4, <2>1, <2>2 DEF NodeType
  <2>4. r.kind = q.kind /\ r.flag = "explicit" /\ r.body = q.body /\ r.up = q.up /\ r.key = q.key
        /\ r.via = q.via
    BY <2>2 DEF NodeType
  <2>5. /\ nodes' \in Seq(NodeType) /\ Len(nodes') = Len(nodes) /\ nodes'[f] = r
        /\ \A i \in 1 .. Len(nodes) : i # f => nodes'[i] = nodes[i]
    BY <1>2, <2>3, SeqSet
  <2> QED
    BY <2>1, <2>4, <2>5
<1>6. TreeOK(nodes', bodies) /\ Evolves(nodes, nodes', 0)
  BY <1>2, <1>4, <1>5, ExplicitStep
<1>7. OpenLine(nodes', f, 0)
  <2>1. OpenLine(nodes, f, 0)
    BY <1>2, <1>3, <1>4, LineDown DEF OpenFlags
  <2> QED
    BY <1>2, <1>6, <2>1, LineKept
<1>8. AotAll(nodes')
  <2>1. \A i \in 1 .. Len(nodes') : i \notin 1 .. Len(nodes) => nodes'[i].flag # "aot"
    BY <1>5
  <2> QED
    BY <1>2, <1>3, <1>6, <2>1, AotKept
<1>9. \A b \in 1 .. Len(bodies) : bodies[b] # f
  BY <1>4, NotABody
<1>10. OpenBody(f) /\ f \in 1 .. Len(nodes') /\ nodes'[f].flag = "explicit"
  BY <1>1, <1>4, <1>5
<1> QED
  BY <1>3, <1>6, <1>7, <1>8, <1>9, <1>10, OpenBodyInv

\* [[path]]: the array, while its first element is on its way.
LEMMA LastNewAotInv ==
  ASSUME IInv, LastNewAot
  PROVE  IInv'
<1>1. PICK m : m = Len(nodes) + 1
  OBVIOUS
<1>2. /\ pc = "walk" /\ Last /\ ~Dotted /\ Found = 0 /\ walk.mode = "aot"
      /\ UNCHANGED <<bodies, pc, walk, stack, st>>
      /\ nodes' = Append(nodes, Node("array", "aot", walk.at, Part, "header"))
  BY <1>1 DEF LastNewAot, Last, Dotted
<1>3. NewAt(nodes', m, "array", "aot", "header")
  BY <1>1, <1>2, NewHere
<1>4. /\ TreeOK(nodes', bodies) /\ Evolves(nodes, nodes', 0) /\ m \in 1 .. Len(nodes')
      /\ Len(nodes') = m /\ nodes'[m].up = walk.at /\ nodes'[m].key = Part
  BY <1>3 DEF NewAt
<1>5. AotAll(nodes) /\ nodes \in Seq(NodeType) /\ Len(nodes) \in Nat /\ walk.at \in 1 .. Len(nodes)
  BY <1>2, AotFullFacts, WalkFacts
<1>6. HeaderWalk(nodes, walk, stack) /\ stack = << >>
  BY <1>2, HeaderFacts
<1>7. HeaderWalk(nodes', walk', stack')
  <2>1. OpenLine(nodes', walk.at, 0)
    BY <1>4, <1>5, <1>6, LineKept DEF HeaderWalk
  <2>2. nodes'[walk.at].kind = "table"
    BY <1>4, <1>5, <1>6 DEF HeaderWalk, Evolves
  <2> QED
    BY <1>2, <1>6, <2>1, <2>2 DEF HeaderWalk
<1>8. ControlOK'
  BY <1>2, <1>6, <1>7 DEF IInv, ControlOK, WalkOK
<1>9. WalkType(nodes', walk')
  <2>1. WalkType(nodes, walk) /\ Len(nodes') \in Nat /\ Len(nodes) <= Len(nodes')
    BY <1>1, <1>4, <1>5 DEF IInv
  <2>2. 1 .. Len(nodes) \subseteq 1 .. Len(nodes') /\ 0 .. Len(nodes) \subseteq 0 .. Len(nodes')
    BY <1>5, <2>1
  <2> QED
    BY <1>2, <2>1, <2>2 DEF WalkType
<1>10. AotFull'
  <2> SUFFICES ASSUME NEW i \in 1 .. Len(nodes'), nodes'[i].flag = "aot"
               PROVE  \/ \E j \in 1 .. Len(nodes') : nodes'[j].up = i
                      \/ i = m
    BY <1>2, <1>4 DEF AotFull, Last, Part
  <2>1. CASE i \in 1 .. Len(nodes)
    <3>1. nodes[i].flag = "aot" /\ i # 0
      BY <1>4, <1>5, <2>1 DEF Evolves
    <3>2. PICK j \in 1 .. Len(nodes) : nodes[j].up = i
      BY <2>1, <3>1, <1>5 DEF AotAll
    <3>3. j \in 1 .. Len(nodes') /\ nodes'[j].up = i
      BY <1>1, <1>4, <1>5, <3>1, <3>2 DEF Evolves
    <3> QED
      BY <3>3
  <2>2. CASE i = m
    BY <2>2
  <2> QED
    BY <1>1, <1>4, <1>5, <2>1, <2>2
<1>11. StackOK(nodes', bodies', stack')
  BY <1>2, <1>6, EmptyStack
<1> QED
  BY <1>2, <1>4, <1>8, <1>9, <1>10, <1>11 DEF IInv

\* [[path]]: the next element, and the header's table.
LEMMA LastAotElemInv ==
  ASSUME IInv, LastAotElem
  PROVE  IInv'
<1>1. PICK m : m = Len(nodes) + 1
  OBVIOUS
<1>2. PICK f : f = Found
  OBVIOUS
<1>3. /\ pc = "walk" /\ Last /\ ~Dotted /\ f # 0 /\ walk.mode = "aot" /\ nodes[f].flag = "aot"
      /\ OpenBody(m) /\ nodes' = Append(nodes, Node("table", "explicit", f, NoKey, "elem"))
  BY <1>1, <1>2 DEF LastAotElem, Last, Dotted
<1>4. /\ TreeOK(nodes, bodies) /\ nodes \in Seq(NodeType) /\ Len(nodes) \in Nat /\ Len(bodies) \in Nat
      /\ Len(bodies) >= 1 /\ walk.at \in 1 .. Len(nodes) /\ OpenLine(nodes, walk.at, 0) /\ Part \in Key
      /\ stack = << >>
  BY <1>3, WalkFacts, HeaderFacts
<1>5. f \in 1 .. Len(nodes) /\ nodes[f].up = walk.at /\ nodes[f].key = Part /\ Shape(nodes[f])
  BY <1>2, <1>3, FoundFacts
<1>6. PICK n : n = [kind |-> "table", flag |-> "explicit", up |-> f, key |-> NoKey,
                    body |-> Len(bodies), via |-> "elem"]
  OBVIOUS
<1>7. n \in NodeType
  BY <1>4, <1>5, <1>6 DEF NodeType
<1>8. /\ Shape(n) /\ n.body \in 1 .. Len(bodies) /\ n.flag # "dotted" /\ n.up # 0 /\ n.key = NoKey
  BY <1>3, <1>4, <1>6 DEF Shape
<1>9. Placed(nodes, bodies, n)
  BY <1>3, <1>5, <1>6 DEF Placed, Shape
<1>10. nodes' = Append(nodes, n)
  BY <1>3, <1>6 DEF Node
<1>11. TreeOK(nodes', bodies) /\ Evolves(nodes, nodes', 0)
  BY <1>4, <1>7, <1>8, <1>9, <1>10, GrowStep
<1>12. Len(nodes') = m /\ m \in 1 .. Len(nodes') /\ nodes'[m].flag = "explicit" /\ nodes'[m].up = f
       /\ \A i \in 1 .. Len(nodes) : nodes'[i] = nodes[i]
  BY <1>1, <1>4, <1>6, <1>10
<1>13. OpenLine(nodes', m, 0)
  <2>1. OpenLine(nodes, f, 0)
    BY <1>3, <1>4, <1>5, LineDown DEF OpenFlags
  <2>2. OpenLine(nodes', f, 0)
    BY <1>4, <1>11, <2>1, LineKept
  <2> QED
    BY <1>1, <1>4, <1>12, <2>2, LineDown DEF OpenFlags
<1>14. AotAll(nodes')
  <2> SUFFICES ASSUME NEW i \in 1 .. Len(nodes'), nodes'[i].flag = "aot"
               PROVE  \E j \in 1 .. Len(nodes') : nodes'[j].up = i
    BY DEF AotAll
  <2>1. i \in 1 .. Len(nodes) /\ nodes[i].flag = "aot" /\ nodes'[i] = nodes[i]
    <3>1. i # m
      BY <1>12
    <3> QED
      BY <1>1, <1>4, <1>12, <3>1
  <2>2. CASE i = f
    BY <1>12, <2>2
  <2>3. CASE i # f
    <3>1. ~(nodes[i].up = walk.at /\ nodes[i].key = Part)
      <4>1. walk.at # 0 /\ Part # NoKey
        BY <1>4, ParserAssumption DEF ParserAssumption
      <4> QED
        BY <1>4, <1>5, <2>1, <2>3, <4>1 DEF TreeOK, UniqueKeys
    <3>2. PICK j \in 1 .. Len(nodes) : nodes[j].up = i
      BY <1>3, <2>1, <3>1 DEF IInv, AotFull
    <3>3. j \in 1 .. Len(nodes') /\ nodes'[j].up = i
      BY <1>1, <1>4, <1>12, <3>2
    <3> QED
      BY <3>3
  <2> QED
    BY <2>2, <2>3
<1>15. \A b \in 1 .. Len(bodies) : bodies[b] # m
  BY <1>1, NotABody
<1> QED
  BY <1>3, <1>4, <1>11, <1>12, <1>13, <1>14, <1>15, OpenBodyInv

\* A value goes in under its key.
LEMMA LastInsertInv ==
  ASSUME IInv, LastInsert
  PROVE  IInv'
<1>1. PICK v : v = walk.val
  OBVIOUS
<1>2. /\ pc = "walk" /\ Dotted /\ Found = 0 /\ walk' = NoWalk /\ UNCHANGED <<bodies, st>>
      /\ nodes' = [nodes EXCEPT ![v].up = walk.at, ![v].key = Part, ![v].via = "key"]
      /\ IF Len(stack) = 1 THEN pc' = "line" /\ stack' = << >>
         ELSE pc' = "items" /\ stack' = [stack EXCEPT ![Len(stack)].path = << >>]
  BY <1>1 DEF LastInsert, Last
<1>3. /\ TreeOK(nodes, bodies) /\ nodes \in Seq(NodeType) /\ Len(nodes) \in Nat
      /\ StackOK(nodes, bodies, stack) /\ walk.at \in 1 .. Len(nodes)
      /\ nodes[walk.at].kind = "table" /\ Part \in Key /\ AotAll(nodes)
  BY <1>2, WalkFacts, AotFullFacts DEF Dotted
<1>4. DottedWalk(nodes, bodies, walk, stack)
  BY <1>2, DottedFacts
<1>5. v \in 1 .. Len(nodes) /\ nodes[v].up = 0 /\ nodes[v].flag \in {"inline", "plain", "none"}
      /\ nodes[v].body = Len(bodies) /\ \A s \in 1 .. Len(stack) : stack[s].box # v
  <2>1. v \in 0 .. Len(nodes) /\ v # 0
    BY <1>1, <1>4 DEF IInv, WalkType, DottedWalk
  <2>2. v \in 1 .. Len(nodes)
    BY <1>3, <2>1
  <2> QED
    BY <1>1, <1>4, <2>2 DEF DottedWalk
<1>6. /\ nodes' \in Seq(NodeType) /\ Len(nodes') = Len(nodes)
      /\ \A i \in 1 .. Len(nodes) : i # v => nodes'[i] = nodes[i]
      /\ nodes'[v].kind = nodes[v].kind /\ nodes'[v].flag = nodes[v].flag
      /\ nodes'[v].body = nodes[v].body
      /\ nodes'[v].up = walk.at /\ nodes'[v].key = Part /\ nodes'[v].via = "key"
  <2>1. PICK q \in NodeType : q = nodes[v]
    BY <1>3, <1>5
  <2>2. PICK t \in Nat, k \in Key : t = walk.at /\ k = Part
    BY <1>3
  <2>3. PICK r \in NodeType : r = [q EXCEPT !.up = t, !.key = k, !.via = "key"]
    BY DEF NodeType
  <2>4. nodes' = [nodes EXCEPT ![v] = r]
    BY ZenonT(40), <1>2, <1>3, <1>5, <2>1, <2>2, <2>3 DEF NodeType
  <2>5. r.kind = q.kind /\ r.flag = q.flag /\ r.body = q.body /\ r.up = t /\ r.key = k /\ r.via = "key"
    BY <2>3 DEF NodeType
  <2>6. /\ nodes' \in Seq(NodeType) /\ Len(nodes') = Len(nodes) /\ nodes'[v] = r
        /\ \A i \in 1 .. Len(nodes) : i # v => nodes'[i] = nodes[i]
    BY <1>3, <1>5, <2>4, SeqSet
  <2> QED
    BY <2>1, <2>2, <2>5, <2>6
<1>7. Placed(nodes, bodies, nodes'[v])
  <2>1. nodes[walk.at].flag # "aot"
    BY <1>3 DEF TreeOK, Shape
  <2> QED
    BY <1>3, <1>4, <1>5, <1>6, <2>1 DEF Placed, DottedWalk
<1>8. \A i \in 1 .. Len(nodes) : ~(nodes[i].up = walk.at /\ nodes[i].key = Part)
  BY <1>2, <1>3, ChildFacts DEF Found
<1>9. TreeOK(nodes', bodies) /\ Evolves(nodes, nodes', v)
  <2>1. walk.at # 0 /\ nodes'[v].up # 0
    BY <1>3, <1>6
  <2>2. \A i \in 1 .. Len(nodes) : ~(nodes[i].up = nodes'[v].up /\ nodes[i].key = nodes'[v].key)
    BY <1>6, <1>8
  <2> QED
    BY <1>3, <1>5, <1>6, <1>7, <2>1, <2>2, AttachStep
<1>10. StackOK(nodes', bodies, stack)
  <2>1. \A s \in 2 .. Len(stack) : stack[s].box # v
    BY <1>3, <1>5 DEF StackOK
  <2> QED
    BY <1>3, <1>9, <2>1, StackKept
<1>11. StackOK(nodes', bodies, stack') /\ (Len(stack) # 1 => Len(stack') >= 2)
  <2>1. CASE Len(stack) = 1
    BY <1>2, <2>1, EmptyStack
  <2>2. CASE Len(stack) # 1
    <3>1. Len(stack) \in Nat /\ Len(stack) >= 1
      BY <1>3, <1>4 DEF DottedWalk, StackOK
    <3>2. Len(stack) >= 2
      BY <2>2, <3>1
    <3>3. << >> \in Seq(Key) /\ stack' = [stack EXCEPT ![Len(stack)].path = << >>]
      BY <1>2, <2>2
    <3>4. StackOK(nodes', bodies, stack') /\ Len(stack') = Len(stack)
      <4>1. PICK ns, bs, stk, stl : ns = nodes' /\ bs = bodies /\ stk = stack /\ stl = stack'
        OBVIOUS
      <4>2. PICK path \in Seq(Key) : path = << >>
        BY <3>3
      <4>3. StackOK(ns, bs, stk) /\ Len(stk) >= 2 /\ stl = [stk EXCEPT ![Len(stk)].path = path]
        BY <1>10, <3>2, <3>3, <4>1, <4>2
      <4>4. StackOK(ns, bs, stl) /\ Len(stl) = Len(stk)
        BY ZenonT(40), <4>3, TopPath
      <4> QED
        BY <4>1, <4>4
    <3> QED
      BY <3>2, <3>4
  <2> QED
    BY <2>1, <2>2
<1>12. AotAll(nodes')
  <2>1. \A i \in 1 .. Len(nodes') : i \notin 1 .. Len(nodes) => nodes'[i].flag # "aot"
    BY <1>6
  <2> QED
    BY <1>3, <1>9, <2>1, AotKept
<1>13. ControlOK'
  BY <1>2, <1>11 DEF IInv, ControlOK
<1>14. AotFull'
  BY <1>12 DEF AotFull, AotAll
<1>15. WalkType(nodes', walk')
  BY <1>2, <1>9, NoWalkType
<1> QED
  BY <1>2, <1>9, <1>11, <1>13, <1>14, <1>15 DEF IInv

\* Every step of a walk.
LEMMA WalkInv ==
  ASSUME IInv, Walk
  PROVE  IInv'
<1>1. CASE InnerStuck \/ LastTaken
  BY <1>1, FailInv DEF InnerStuck, LastTaken
<1> QED
  BY <1>1, InnerCreateInv, InnerDownInv, LastNewTableInv, FastFallbackInv, LastImplicitInv,
     LastNewAotInv, LastAotElemInv, LastInsertInv DEF Walk

\* Every step.
LEMMA NextInv == IInv /\ [Next]_vars => IInv'
<1> SUFFICES ASSUME IInv, [Next]_vars PROVE IInv'
  OBVIOUS
<1>1. CASE Value
  BY <1>1, ScalarInv, OpenInv DEF Value
<1>2. CASE Items
  BY <1>2, ElementInv, MemberInv, CloseInv DEF Items
<1>3. CASE AllocFails \/ SyntaxError
  BY <1>3, FailInv DEF AllocFails, SyntaxError
<1>4. CASE UNCHANGED vars
  BY <1>4 DEF vars, IInv, ControlOK, AotFull, Last, Part
<1> QED
  BY <1>1, <1>2, <1>3, <1>4, LineInv, WalkInv DEF Next

\* The inductive invariant holds in every state of every parse.
THEOREM Invariant == Spec => []IInv
BY InitInv, NextInv, PTL DEF Spec

-------------------------------------------------------------------------------
(***************************************************************************)
(* What the runs check, for every instance.                                *)
(***************************************************************************)
\* The invariant implies the types.
LEMMA InvType == IInv => TypeOK
<1> SUFFICES ASSUME IInv PROVE TypeOK
  OBVIOUS
<1>1. /\ TreeOK(nodes, bodies) /\ StackOK(nodes, bodies, stack) /\ WalkType(nodes, walk) /\ ControlOK
      /\ nodes \in Seq(NodeType) /\ Len(nodes) \in Nat /\ DOMAIN nodes = 1 .. Len(nodes)
  BY DEF IInv, TreeOK
<1>2. \A i \in DOMAIN nodes : nodes[i].up \in Ids
  <2> SUFFICES ASSUME NEW i \in 1 .. Len(nodes) PROVE nodes[i].up \in Ids
    BY <1>1
  <2>1. nodes[i].up = 0 \/ nodes[i].up \in 1 .. Len(nodes)
    BY <1>1 DEF TreeOK, Placed
  <2> QED
    BY <1>1, <2>1 DEF Ids
<1>3. bodies \in Seq(DOMAIN nodes) /\ bodies # << >>
  BY SMTT(30), <1>1 DEF TreeOK, BodiesOK
<1>4. walk \in [mode : {"none", "fast", "header", "aot", "dotted"}, at : DOMAIN nodes,
                rest : Seq(Key), path : Seq(Key), val : Ids, mark : Ids]
  BY <1>1 DEF WalkType, Ids
<1>5. stack \in Seq([box : DOMAIN nodes, path : Seq(Key)])
  <2>1. ASSUME NEW s \in 1 .. Len(stack) PROVE stack[s] \in [box : DOMAIN nodes, path : Seq(Key)]
    <3>1. stack[s].box \in DOMAIN nodes
      BY <1>1, BoxFacts
    <3>2. stack[s] \in BoxType
      BY <1>1 DEF StackOK
    <3> QED
      BY <3>1, <3>2 DEF BoxType
  <2>2. PICK X : X = [box : DOMAIN nodes, path : Seq(Key)]
    OBVIOUS
  <2>3. PICK n \in Nat : stack \in [1 .. n -> BoxType] /\ n = Len(stack)
    BY <1>1 DEF StackOK
  <2>4. stack \in [1 .. n -> X]
    BY <2>1, <2>2, <2>3
  <2>5. stack \in Seq(X)
    BY <2>4
  <2> QED
    BY <2>2, <2>5
<1> QED
  BY <1>1, <1>2, <1>3, <1>4, <1>5 DEF TypeOK, ControlOK

\* An array of tables is as AotSound says.
LEMMA InvAot == IInv => AotSound
<1> SUFFICES ASSUME IInv, NEW i \in DOMAIN nodes, nodes[i].flag = "aot"
             PROVE  /\ \A c \in Children(i) : nodes[c].kind = "table" /\ nodes[c].flag = "explicit"
                    /\ Children(i) = {} => \/ pc = "fail"
                                           \/ Last /\ walk.mode = "aot" /\ Found = i
  BY DEF AotSound
<1>1. TreeOK(nodes, bodies) /\ nodes \in Seq(NodeType) /\ DOMAIN nodes = 1 .. Len(nodes) /\ i # 0
  BY DEF IInv, TreeOK
<1>2. ASSUME NEW c \in Children(i) PROVE nodes[c].kind = "table" /\ nodes[c].flag = "explicit"
  <2>1. c \in 1 .. Len(nodes) /\ nodes[c].up = i
    BY <1>1 DEF Children
  <2>2. nodes[c].flag = "explicit" /\ Shape(nodes[c])
    BY <1>1, <2>1 DEF TreeOK, Placed
  <2> QED
    BY <2>2 DEF Shape
<1>3. ASSUME Children(i) = {}, pc # "fail" PROVE Last /\ walk.mode = "aot" /\ Found = i
  <2>1. \A j \in 1 .. Len(nodes) : nodes[j].up # i
    BY <1>1, <1>3 DEF Children
  <2>2. Last /\ walk.mode = "aot" /\ nodes[i].up = walk.at /\ nodes[i].key = Part
    BY <1>1, <1>3, <2>1 DEF IInv, AotFull
  <2>3. walk.at # 0 /\ Part # NoKey
    <3>1. walk.at \in 1 .. Len(nodes) /\ Part \in Key
      BY <2>2, WalkFacts DEF Last
    <3> QED
      BY <3>1, ParserAssumption DEF ParserAssumption
  <2>4. Found \in 1 .. Len(nodes) /\ nodes[Found].up = walk.at /\ nodes[Found].key = Part
    BY <1>1, <2>2, ChildFacts DEF Found
  <2>5. Found = i
    BY <1>1, <2>2, <2>3, <2>4 DEF TreeOK, UniqueKeys
  <2> QED
    BY <2>2, <2>5
<1> QED
  BY <1>2, <1>3

\* Every tree the parser builds, finished or given up, is sound: parsing never
\* defines a key twice, never opens a table twice, and an array of tables holds
\* at least one table and nothing else.
THEOREM Soundness == Spec => []TreeSound
<1>1. IInv => NoKeyTwice /\ NoTableTwice
  <2> SUFFICES ASSUME IInv PROVE NoKeyTwice /\ NoTableTwice
    OBVIOUS
  <2>1. nodes \in Seq(NodeType) /\ bodies \in Seq(Nat) /\ UniqueKeys(nodes)
        /\ \A a, b \in 1 .. Len(bodies) : bodies[a] = bodies[b] => a = b
    BY DEF IInv, TreeOK, BodiesOK
  <2>2. DOMAIN nodes = 1 .. Len(nodes) /\ DOMAIN bodies = 1 .. Len(bodies)
    BY <2>1
  <2> QED
    BY <2>1, <2>2 DEF UniqueKeys, NoKeyTwice, NoTableTwice
<1>2. IInv => TreeSound
  BY <1>1, InvType, InvAot DEF TreeSound
<1> QED
  BY <1>2, Invariant, PTL

\* Dotted keys extend the tables of their own body only.
THEOREM KeysStayHome == Spec => []DottedStaysHome
<1>1. IInv => DottedStaysHome
  <2> SUFFICES ASSUME IInv, NEW i \in DOMAIN nodes, nodes[i].via = "key", NEW t, t = nodes[i].up
               PROVE  CASE nodes[t].flag = "explicit" -> bodies[nodes[i].body] = t
                        [] nodes[t].flag = "dotted"   -> nodes[t].via = "key" /\ nodes[t].body = nodes[i].body
                        [] nodes[t].flag = "inline"   -> nodes[t].body = nodes[i].body
                        [] OTHER -> FALSE
    BY DEF DottedStaysHome
  <2>1. i \in 1 .. Len(nodes) /\ TreeOK(nodes, bodies)
    BY DEF IInv, TreeOK
  <2>2. AtHome(nodes, bodies, t, nodes[i].body)
    BY <2>1 DEF TreeOK, Loose, Placed
  <2>3. CASE nodes[t].flag = "explicit"
    BY <2>2, <2>3 DEF AtHome
  <2>4. CASE nodes[t].flag = "dotted"
    BY <2>2, <2>4 DEF AtHome
  <2>5. CASE nodes[t].flag = "inline"
    BY <2>2, <2>5 DEF AtHome
  <2> QED
    BY <2>2, <2>3, <2>4, <2>5 DEF AtHome
<1> QED
  BY <1>1, Invariant, PTL

\* The fast reading of a header has created nothing when it gives up.
THEOREM GivingUpIsPure == Spec => []FastFalseIsPure
<1>1. IInv => FastFalseIsPure
  <2> SUFFICES ASSUME IInv, Last, walk.mode = "fast", Found # 0 PROVE Len(nodes) = walk.mark
    BY DEF FastFalseIsPure
  <2>1. pc = "walk" /\ ~Dotted
    BY DEF Last, Dotted
  <2> QED
    BY <2>1, FoundFacts
<1> QED
  BY <1>1, Invariant, PTL

\* A container that is still open is not in the document.
THEOREM OpenStaysDetached == Spec => []OpenIsDetached
<1>1. IInv => OpenIsDetached
  BY DEF IInv, StackOK, Box, OpenIsDetached
<1> QED
  BY <1>1, Invariant, PTL

-------------------------------------------------------------------------------
(***************************************************************************)
(* What no step does: the action properties, from the invariant above.     *)
(***************************************************************************)

\* The nodes above t are within every closed set that holds t.
LEMMA AboveLine ==
  ASSUME IInv, NEW b, NEW S \in SUBSET (1 .. Len(nodes)), Closed(nodes, S, b), NEW t \in S
  PROVE  Above(t) \subseteq S
<1> DEFINE N == 1 .. Len(nodes)
           up(T) == T \cup ({nodes[j].up : j \in T} \ {0})
           F == [p \in (SUBSET N) \X Nat |-> up(p[1])]
<1>1. Len(nodes) \in Nat
  BY DEF IInv, TreeOK
<1>2. ASSUME NEW T \in SUBSET N PROVE up(T) \in SUBSET N
  <2>1. ASSUME NEW j \in T PROVE nodes[j].up = 0 \/ nodes[j].up \in N
    BY <1>2 DEF IInv, TreeOK, Placed
  <2> QED
    BY <1>2, <2>1
<1>3. {t} \in SUBSET N
  OBVIOUS
<1> HIDE DEF up
<1>4. F \in [(SUBSET N) \X Nat -> SUBSET N] /\ \A T \in SUBSET N, n \in Nat : F[<<T, n>>] = up(T)
  BY <1>2
<1> HIDE DEF F, N
<1>5. PICK f \in [Nat -> SUBSET N] : Iterates(f, {t}, F)
  <2>1. PICK X : X = SUBSET N
    OBVIOUS
  <2>2. {t} \in X /\ F \in [X \X Nat -> X]
    BY <1>3, <1>4, <2>1
  <2>3. \E f \in [Nat -> X] : Iterates(f, {t}, F)
    BY <2>2, RecursiveFunction
  <2> QED
    BY <2>1, <2>3
<1>6. ASSUME NEW n \in Nat PROVE f[n + 1] = up(f[n])
  <2>1. f[n] \in SUBSET N /\ n + 1 \in Nat
    BY <1>5
  <2>2. F[<<f[n], n + 1>>] = up(f[n])
    BY <1>4, <2>1
  <2> QED
    BY <1>5, <2>2 DEF Iterates
<1>7. f = [n \in Nat |-> IF n = 0 THEN {t} ELSE up(f[n - 1])]
  <2>1. ASSUME NEW n \in Nat, n # 0 PROVE f[n] = up(f[n - 1])
    <3>1. PICK m \in Nat : n = m + 1
      BY <2>1
    <3> QED
      BY <1>6, <3>1
  <2>2. f[0] = {t}
    BY <1>5 DEF Iterates
  <2> QED
    BY <1>5, <2>1, <2>2
<1> DEFINE anc == CHOOSE g : g = [n \in Nat |-> IF n = 0 THEN {t} ELSE up(g[n - 1])]
<1>8. anc = [n \in Nat |-> IF n = 0 THEN {t} ELSE up(anc[n - 1])]
  BY <1>7
<1>9. Above(t) = anc[Len(nodes)]
  BY DEF Above, up
<1> HIDE DEF anc
<1>10. \A n \in Nat : anc[n] \subseteq S
  <2> DEFINE T == {n \in Nat : anc[n] \subseteq S}
  <2>1. 0 \in T
    BY <1>8
  <2>2. ASSUME NEW n \in T PROVE n + 1 \in T
    <3>1. anc[n + 1] = up(anc[n])
      <4>1. n \in Nat /\ n + 1 \in Nat /\ n + 1 # 0 /\ n + 1 - 1 = n
        OBVIOUS
      <4>3. \A m \in Nat : anc[m] = IF m = 0 THEN {t} ELSE up(anc[m - 1])
        BY <1>8
      <4>2. anc[n + 1] = up(anc[n + 1 - 1])
        BY <4>3, <4>1
      <4> QED
        BY <4>1, <4>2
    <3>2. \A j \in S : nodes[j].up = 0 \/ nodes[j].up \in S
      BY DEF Closed
    <3>3. up(anc[n]) \subseteq S
      BY <3>2 DEF up
    <3> QED
      BY <3>1, <3>3
  <2>3. T = Nat
    <3> HIDE DEF T
    <3>1. T \subseteq Nat
      BY DEF T
    <3> QED
      BY <2>1, <2>2, <3>1, InductiveSet
  <2> QED
    BY <2>3
<1> QED
  BY <1>1, <1>9, <1>10

\* An entry may go into t: what is above it may grow, or is an open container.
Rests(t) == \E b \in Nat : OpenLine(nodes, t, b) /\ (b = 0 \/ \E s \in DOMAIN stack : stack[s].box = b)

\* All that a step does to the tree.
Expands(i) == nodes[i].flag = "implicit" /\ nodes'[i] = [nodes[i] EXCEPT !.flag = "explicit"]
GoodStep ==
  /\ Len(nodes) \in Nat /\ Len(nodes') \in Nat /\ Len(nodes) <= Len(nodes')
  /\ DOMAIN nodes = 1 .. Len(nodes) /\ DOMAIN nodes' = 1 .. Len(nodes')
  /\ \A i \in 1 .. Len(nodes) :
       nodes'[i] = nodes[i] \/ Expands(i) \/ (nodes[i].up = 0 /\ Rests(nodes'[i].up))
  /\ \A i \in 1 .. Len(nodes') :
       i \notin 1 .. Len(nodes) => nodes'[i].up = 0 \/ Rests(nodes'[i].up)

\* A step that leaves the tree alone.
LEMMA SameGood ==
  ASSUME IInv, nodes' = nodes
  PROVE  GoodStep
<1>1. nodes \in Seq(NodeType) /\ Len(nodes) \in Nat /\ DOMAIN nodes = 1 .. Len(nodes)
  BY DEF IInv, TreeOK
<1> QED
  BY <1>1 DEF GoodStep

\* A step that appends a node, detached or where entries may go.
LEMMA GrowGood ==
  ASSUME IInv, NEW n, nodes' = Append(nodes, n), n.up = 0 \/ Rests(n.up)
  PROVE  GoodStep
<1>1. nodes \in Seq(NodeType) /\ Len(nodes) \in Nat /\ DOMAIN nodes = 1 .. Len(nodes)
  BY DEF IInv, TreeOK
<1>2. /\ Len(nodes') = Len(nodes) + 1 /\ nodes'[Len(nodes) + 1] = n
      /\ \A i \in 1 .. Len(nodes) : nodes'[i] = nodes[i]
      /\ DOMAIN nodes' = 1 .. Len(nodes')
  BY <1>1
<1>3. ASSUME NEW i \in 1 .. Len(nodes'), i \notin 1 .. Len(nodes)
      PROVE  nodes'[i].up = 0 \/ Rests(nodes'[i].up)
  <2>1. i = Len(nodes) + 1
    BY <1>1, <1>2, <1>3
  <2> QED
    BY <1>2, <2>1
<1>4. Len(nodes') \in Nat /\ Len(nodes) <= Len(nodes')
  BY <1>1, <1>2
<1> QED
  BY <1>1, <1>2, <1>3, <1>4 DEF GoodStep

\* A step that changes the detached node v.
LEMMA AttachGood ==
  ASSUME IInv, NEW v \in 1 .. Len(nodes), nodes[v].up = 0, NEW r, nodes' = [nodes EXCEPT ![v] = r],
         Rests(r.up)
  PROVE  GoodStep
<1>1. nodes \in Seq(NodeType) /\ Len(nodes) \in Nat /\ DOMAIN nodes = 1 .. Len(nodes)
  BY DEF IInv, TreeOK
<1>2. /\ Len(nodes') = Len(nodes) /\ DOMAIN nodes' = 1 .. Len(nodes')
      /\ \A i \in 1 .. Len(nodes) : i # v => nodes'[i] = nodes[i]
      /\ nodes'[v] = r
  BY <1>1
<1>3. ASSUME NEW i \in 1 .. Len(nodes)
      PROVE  nodes'[i] = nodes[i] \/ (nodes[i].up = 0 /\ Rests(nodes'[i].up))
  <2>1. CASE i = v
    BY <1>2, <2>1
  <2>2. CASE i # v
    BY <1>2, <2>2
  <2> QED
    BY <2>1, <2>2
<1> QED
  BY <1>1, <1>2, <1>3 DEF GoodStep

\* Where the walk stands an entry may go in,
LEMMA WalkRests ==
  ASSUME IInv, pc = "walk"
  PROVE  Rests(walk.at)
<1>1. OpenLine(nodes, walk.at, Limit)
  BY WalkFacts
<1>2. CASE Dotted
  <2>1. Len(stack) \in 1 .. Len(stack) /\ DOMAIN stack = 1 .. Len(stack)
        /\ TreeOK(nodes, bodies) /\ StackOK(nodes, bodies, stack)
    BY <1>2, DottedFacts DEF DottedWalk, IInv, StackOK
  <2>2. Limit = stack[Len(stack)].box
    BY <1>2 DEF Limit
  <2>3. Limit \in Nat
    <3>1. Limit \in 1 .. Len(nodes)
      BY <2>1, <2>2, BoxFacts
    <3> QED
      BY <3>1
  <2> QED
    BY <1>1, <2>1, <2>2, <2>3 DEF Rests
<1>3. CASE ~Dotted
  BY <1>1, <1>3 DEF Rests, Limit
<1> QED
  BY <1>2, <1>3

\* and into the containers of the stack.
LEMMA BoxRests ==
  ASSUME IInv, NEW stk, StackOK(nodes, bodies, stk), Len(stk) >= 1,
         NEW s \in 1 .. Len(stack), stack[s].box = stk[Len(stk)].box
  PROVE  Rests(stk[Len(stk)].box)
<1>1. PICK b : b = stk[Len(stk)].box
  OBVIOUS
<1>2. TreeOK(nodes, bodies) /\ s \in DOMAIN stack
  BY DEF IInv, StackOK
<1>3. b \in 1 .. Len(nodes) /\ OpenLine(nodes, b, b)
  BY <1>1, <1>2, TopFacts
<1>4. b \in Nat
  BY <1>3
<1> QED
  BY <1>1, <1>2, <1>3, <1>4 DEF Rests

\* A scalar,
LEMMA ScalarGood ==
  ASSUME IInv, Scalar
  PROVE  GoodStep
<1>1. /\ TreeOK(nodes, bodies) /\ StackOK(nodes, bodies, stack) /\ Len(stack) >= 1
      /\ nodes \in Seq(NodeType) /\ Len(nodes) \in Nat /\ Len(stack) \in Nat
      /\ Len(bodies) \in Nat
  BY DEF Scalar, IInv, ControlOK, TreeOK, StackOK, BodiesOK
<1>2. PICK b, m : b = stack[Len(stack)].box /\ m = Len(nodes) + 1
  OBVIOUS
<1>3. b \in 1 .. Len(nodes) /\ Rests(b)
  <2>1. Len(stack) \in 1 .. Len(stack)
    BY <1>1
  <2> QED
    BY <1>1, <1>2, <2>1, BoxFacts, BoxRests
<1>4. PICK n \in NodeType : n = Node("scalar", "none", 0, NoKey, "none")
  BY <1>1 DEF Node, NodeType
<1>5. PICK ns : ns = Append(nodes, n)
  OBVIOUS
<1>6. /\ ns \in Seq(NodeType) /\ Len(ns) = m /\ ns[m] = n
      /\ \A i \in 1 .. Len(nodes) : ns[i] = nodes[i]
  BY <1>1, <1>2, <1>5
<1>7. IF ns[b].kind = "array" THEN nodes' = [ns EXCEPT ![m].up = b, ![m].via = "elem"] ELSE nodes' = ns
  BY <1>2, <1>4, <1>5 DEF Scalar, Deliver
<1>8. CASE ns[b].kind = "array"
  <2>1. PICK r : r = [n EXCEPT !.up = b, !.via = "elem"]
    OBVIOUS
  <2>2. r \in NodeType /\ r.up = b
    <3>1. b \in Nat
      BY <1>3
    <3> QED
      BY <2>1, <3>1 DEF NodeType
  <2>3. nodes' = [ns EXCEPT ![m] = r]
    BY <1>2, <1>6, <1>7, <1>8, <2>1 DEF NodeType
  <2>4. nodes' = Append(nodes, r)
    <3>1. m \in 1 .. Len(ns) /\ Len(ns) = Len(nodes) + 1
      BY <1>1, <1>2, <1>6
    <3>2. /\ nodes' \in Seq(NodeType) /\ Len(nodes') = Len(ns) /\ nodes'[m] = r
          /\ \A i \in 1 .. Len(ns) : i # m => nodes'[i] = ns[i]
      BY <1>6, <2>2, <2>3, <3>1, SeqSet
    <3>3. PICK ms : ms = Append(nodes, r)
      OBVIOUS
    <3>4. /\ ms \in Seq(NodeType) /\ Len(ms) = m /\ ms[m] = r
          /\ \A i \in 1 .. Len(nodes) : ms[i] = nodes[i]
      BY <1>1, <1>2, <2>2, <3>3
    <3>5. ASSUME NEW i \in 1 .. m PROVE nodes'[i] = ms[i]
      <4>1. CASE i = m
        BY <3>2, <3>4, <4>1
      <4>2. CASE i # m
        <5>1. i \in 1 .. Len(nodes) /\ i \in 1 .. Len(ns)
          BY <1>1, <1>2, <3>1, <4>2
        <5> QED
          BY <1>6, <3>2, <3>4, <4>2, <5>1
      <4> QED
        BY <4>1, <4>2
    <3>6. nodes' = ms
      BY <1>6, <3>2, <3>4, <3>5
    <3> QED
      BY <3>3, <3>6
  <2> QED
    BY <1>3, <2>2, <2>4, GrowGood
<1>9. CASE ns[b].kind # "array"
  <2>1. nodes' = Append(nodes, n) /\ n.up = 0
    BY <1>4, <1>5, <1>7, <1>9 DEF Node
  <2> QED
    BY <2>1, GrowGood
<1> QED
  BY <1>8, <1>9

\* a complete container,
LEMMA CloseGood ==
  ASSUME IInv, Close
  PROVE  GoodStep
<1>1. /\ TreeOK(nodes, bodies) /\ StackOK(nodes, bodies, stack) /\ Len(stack) >= 2
      /\ nodes \in Seq(NodeType) /\ Len(nodes) \in Nat
  BY DEF Close, IInv, ControlOK, TreeOK
<1>2. PICK n \in Nat : n = Len(stack) - 1 /\ n >= 1 /\ Len(stack) = n + 1
  BY <1>1 DEF StackOK
<1>3. PICK stk, b, v : stk = SubSeq(stack, 1, n) /\ b = stack[n].box /\ v = stack[n + 1].box
  OBVIOUS
<1>4. Len(stk) = n /\ stk[n] = stack[n] /\ n \in 1 .. Len(stack) /\ n + 1 \in 2 .. Len(stack)
      /\ n + 1 \in 1 .. Len(stack)
  BY <1>1, <1>2, <1>3 DEF StackOK
<1>5. v \in 1 .. Len(nodes) /\ nodes[v].up = 0 /\ nodes[v] \in NodeType /\ b \in 1 .. Len(nodes)
  BY SMTT(30), <1>1, <1>3, <1>4, BoxFacts DEF StackOK, Box
<1>6. IF nodes[b].kind = "array" THEN nodes' = [nodes EXCEPT ![v].up = b, ![v].via = "elem"]
      ELSE nodes' = nodes
  BY <1>2, <1>3, <1>4 DEF Close, Deliver, Top
<1>7. OpenLine(nodes, b, b)
  <2>1. PICK t : t = stack[n].box
    OBVIOUS
  <2>2. CASE n = 1
    <3>1. b = bodies[Len(bodies)] /\ OpenLine(nodes, b, 0) /\ Len(bodies) \in 1 .. Len(bodies)
      BY SMTT(30), <1>1, <1>2, <1>3, <2>2 DEF StackOK, TreeOK, BodiesOK
    <3>2. PICK S \in SUBSET (1 .. Len(nodes)) : b \in S /\ Closed(nodes, S, 0)
      BY <3>1 DEF OpenLine
    <3>3. ASSUME NEW j \in S PROVE (nodes[j].up = 0 \/ nodes[j].up \in S) /\ nodes[j].flag \in OpenFlags
      <4>1. j # 0
        OBVIOUS
      <4> QED
        BY <3>2, <4>1 DEF Closed
    <3>4. Closed(nodes, S, b)
      BY <3>3 DEF Closed
    <3> QED
      BY <3>2, <3>4 DEF OpenLine
  <2>3. CASE n # 1
    <3>1. n \in 2 .. Len(stack)
      BY <1>2, <1>4, <2>3
    <3>2. Box(nodes, bodies, b)
      BY <1>1, <1>3, <3>1 DEF StackOK
    <3>3. {b} \in SUBSET (1 .. Len(nodes)) /\ Closed(nodes, {b}, b)
      BY <3>2 DEF Box, Closed
    <3> QED
      BY <3>3 DEF OpenLine
  <2> QED
    BY <2>2, <2>3
<1>8. Rests(b)
  <2>1. DOMAIN stack = 1 .. Len(stack) /\ b \in Nat
    BY <1>1, <1>5 DEF StackOK
  <2> QED
    BY <1>3, <1>4, <1>7, <2>1 DEF Rests
<1>9. CASE nodes[b].kind = "array"
  <2>1. PICK q \in NodeType : q = nodes[v]
    BY <1>5
  <2>2. PICK r : r = [q EXCEPT !.up = b, !.via = "elem"]
    OBVIOUS
  <2>3. r.up = b
    BY <2>2 DEF NodeType
  <2>4. nodes' = [nodes EXCEPT ![v] = r]
    BY <1>1, <1>5, <1>6, <1>9, <2>1, <2>2 DEF NodeType
  <2> QED
    BY <1>5, <1>8, <2>3, <2>4, AttachGood
<1>10. CASE nodes[b].kind # "array"
  BY <1>6, <1>10, SameGood
<1> QED
  BY <1>9, <1>10

\* a container that opens,
LEMMA OpenGood ==
  ASSUME IInv, Open("array", "plain") \/ Open("table", "inline")
  PROVE  GoodStep
<1>1. PICK kind, flag : Open(kind, flag)
  OBVIOUS
<1>2. CASE Len(stack) > MaxDepth
  BY <1>1, <1>2, SameGood DEF Open, Fail
<1>3. CASE ~(Len(stack) > MaxDepth)
  <2>1. PICK n : n = Node(kind, flag, 0, NoKey, "none")
    OBVIOUS
  <2>2. nodes' = Append(nodes, n) /\ n.up = 0
    BY <1>1, <1>3, <2>1 DEF Open, Node
  <2> QED
    BY <2>2, GrowGood
<1> QED
  BY <1>2, <1>3

\* the steps of a walk that create a node,
LEMMA CreateGood ==
  ASSUME IInv, InnerCreate \/ LastNewTable \/ LastNewAot \/ LastAotElem
  PROVE  GoodStep
<1>1. pc = "walk"
  BY DEF InnerCreate, LastNewTable, LastNewAot, LastAotElem, Inner, Last
<1>2. CASE InnerCreate \/ LastNewTable \/ LastNewAot
  <2>1. PICK kind, flag, via : nodes' = Append(nodes, Node(kind, flag, walk.at, Part, via))
    BY <1>2 DEF InnerCreate, LastNewTable, LastNewAot
  <2>2. PICK n : n = Node(kind, flag, walk.at, Part, via)
    OBVIOUS
  <2>3. nodes' = Append(nodes, n) /\ n.up = walk.at
    BY <2>1, <2>2 DEF Node
  <2> QED
    BY <1>1, <2>3, WalkRests, GrowGood
<1>3. CASE LastAotElem
  <2>1. PICK f, n : f = Found /\ n = Node("table", "explicit", f, NoKey, "elem")
    OBVIOUS
  <2>2. nodes' = Append(nodes, n) /\ n.up = f /\ f # 0 /\ nodes[f].flag = "aot" /\ ~Dotted
    BY <1>3, <2>1 DEF LastAotElem, Node, Dotted
  <2>3. f \in 1 .. Len(nodes) /\ nodes[f].up = walk.at
    BY <1>1, <2>1, <2>2, FoundFacts
  <2>4. OpenLine(nodes, walk.at, 0) /\ Len(nodes) \in Nat
    <3>1. OpenLine(nodes, walk.at, Limit) /\ Len(nodes) \in Nat
      BY <1>1, WalkFacts
    <3> QED
      BY <1>1, <2>2, <3>1, HeaderFacts
  <2>5. OpenLine(nodes, f, 0)
    BY <2>2, <2>3, <2>4, LineDown DEF OpenFlags
  <2>6. Rests(f)
    BY <2>5 DEF Rests
  <2> QED
    BY <2>2, <2>6, GrowGood
<1> QED
  BY <1>2, <1>3

\* a header that opens an implicit table,
LEMMA ExplicitGood ==
  ASSUME IInv, LastImplicit
  PROVE  GoodStep
<1>1. /\ pc = "walk" /\ Found # 0 /\ nodes[Found].flag = "implicit"
      /\ nodes' = [nodes EXCEPT ![Found].flag = "explicit"]
  BY DEF LastImplicit, Last
<1>2. nodes \in Seq(NodeType) /\ Len(nodes) \in Nat /\ DOMAIN nodes = 1 .. Len(nodes)
  BY <1>1, WalkFacts
<1>3. PICK f \in 1 .. Len(nodes) : f = Found
  BY <1>1, FoundFacts
<1>4. nodes' = [nodes EXCEPT ![f] = [nodes[f] EXCEPT !.flag = "explicit"]]
  BY <1>1, <1>3
<1>5. /\ Len(nodes') = Len(nodes) /\ DOMAIN nodes' = 1 .. Len(nodes')
      /\ \A i \in 1 .. Len(nodes) : i # f => nodes'[i] = nodes[i]
      /\ nodes'[f] = [nodes[f] EXCEPT !.flag = "explicit"]
  BY <1>2, <1>4
<1>6. ASSUME NEW i \in 1 .. Len(nodes) PROVE nodes'[i] = nodes[i] \/ Expands(i)
  <2>1. CASE i = f
    BY <1>1, <1>3, <1>5, <2>1 DEF Expands
  <2>2. CASE i # f
    BY <1>5, <2>2
  <2> QED
    BY <2>1, <2>2
<1> QED
  BY <1>2, <1>5, <1>6 DEF GoodStep

\* a value that is inserted,
LEMMA InsertGood ==
  ASSUME IInv, LastInsert
  PROVE  GoodStep
<1>1. PICK v, t, k : v = walk.val /\ t = walk.at /\ k = Part
  OBVIOUS
<1>2. /\ pc = "walk" /\ Dotted
      /\ nodes' = [nodes EXCEPT ![v].up = t, ![v].key = k, ![v].via = "key"]
  BY <1>1 DEF LastInsert, Last
<1>3. nodes \in Seq(NodeType) /\ Len(nodes) \in Nat
  BY <1>2, WalkFacts
<1>4. v \in 1 .. Len(nodes) /\ nodes[v].up = 0
  <2>1. v \in 0 .. Len(nodes) /\ v # 0 /\ nodes[v].up = 0
    BY <1>1, <1>2, DottedFacts DEF IInv, WalkType, DottedWalk
  <2> QED
    BY <1>3, <2>1
<1>5. PICK q \in NodeType : q = nodes[v]
  BY <1>3, <1>4
<1>6. PICK r : r = [q EXCEPT !.up = t, !.key = k, !.via = "key"]
  OBVIOUS
<1>7. r.up = t
  BY <1>6 DEF NodeType
<1>8. nodes' = [nodes EXCEPT ![v] = r]
  BY <1>2, <1>3, <1>4, <1>5, <1>6 DEF NodeType
<1>9. Rests(r.up)
  BY <1>1, <1>2, <1>7, WalkRests
<1> QED
  BY <1>4, <1>8, <1>9, AttachGood

\* and every other step.
LEMMA EveryStepGood == IInv /\ [Next]_vars => GoodStep
<1> SUFFICES ASSUME IInv, [Next]_vars PROVE GoodStep
  OBVIOUS
<1>1. CASE Line \/ EndOfInput \/ AllocFails \/ SyntaxError \/ UNCHANGED vars
  <2>1. nodes' = nodes
    BY <1>1 DEF Line, HeaderFast, Header, KeyVal, EndOfInput, AllocFails, SyntaxError, Fail, vars
  <2> QED
    BY <2>1, SameGood
<1>2. CASE Value
  BY <1>2, ScalarGood, OpenGood DEF Value
<1>3. CASE Items
  <2>1. ASSUME Element \/ \E path \in Path : Member(path) PROVE nodes' = nodes
    BY <2>1 DEF Element, Member, Fail
  <2> QED
    BY <1>3, <2>1, SameGood, CloseGood DEF Items
<1>4. CASE Walk
  <2>1. ASSUME InnerDown \/ InnerStuck \/ FastFallback \/ LastTaken PROVE nodes' = nodes
    BY <2>1 DEF InnerDown, InnerStuck, FastFallback, LastTaken, Fail
  <2> QED
    BY <1>4, <2>1, SameGood, CreateGood, ExplicitGood, InsertGood DEF Walk
<1> QED
  BY <1>1, <1>2, <1>3, <1>4 DEF Next

-------------------------------------------------------------------------------
\* What is in the document stays as it is: the step's effect on a node that
\* lies in a table or an array is nothing, or an implicit table's new header.
THEOREM DefinitionsStay == Spec => DefinedIsFinal
<1>1. IInv /\ [Next]_vars =>
        \A i \in DOMAIN nodes :
          nodes[i].up # 0 =>
            \/ nodes'[i] = nodes[i]
            \/ /\ nodes[i].flag = "implicit"
               /\ nodes'[i] = [nodes[i] EXCEPT !.flag = "explicit"]
  <2> SUFFICES ASSUME GoodStep, NEW i \in DOMAIN nodes, nodes[i].up # 0
               PROVE  nodes'[i] = nodes[i] \/ Expands(i)
    BY EveryStepGood DEF Expands
  <2> QED
    BY DEF GoodStep
<1> QED
  BY <1>1, Invariant, PTL DEF Spec, DefinedIsFinal

\* A complete inline table or array never gets another entry, at any depth.
THEOREM SealsHold == Spec => SealedStaysClosed
<1>1. IInv /\ [Next]_vars =>
        \A i \in DOMAIN nodes' :
          LET t == nodes'[i].up IN
          t # 0 /\ (IF i \in DOMAIN nodes THEN nodes[i].up # t ELSE TRUE) =>
            \A a \in Above(t) : ~Sealed(a)
  <2> SUFFICES ASSUME IInv, GoodStep, NEW i \in DOMAIN nodes', NEW t, t = nodes'[i].up, t # 0,
                      IF i \in DOMAIN nodes THEN nodes[i].up # t ELSE TRUE, NEW a \in Above(t)
               PROVE  ~Sealed(a)
    BY EveryStepGood
  <2>1. nodes \in Seq(NodeType) /\ DOMAIN nodes = 1 .. Len(nodes) /\ DOMAIN nodes' = 1 .. Len(nodes')
    BY DEF GoodStep, IInv, TreeOK
  <2>2. Rests(t)
    <3>1. CASE i \in DOMAIN nodes
      <4>1. nodes[i].up # t /\ nodes[i] \in NodeType
        BY <2>1, <3>1
      <4>2. ~Expands(i) /\ nodes'[i] # nodes[i]
        BY <4>1 DEF Expands, NodeType
      <4> QED
        BY <2>1, <3>1, <4>2 DEF GoodStep
    <3>2. CASE i \notin DOMAIN nodes
      BY <2>1, <3>2 DEF GoodStep
    <3> QED
      BY <3>1, <3>2
  <2>3. PICK b \in Nat : OpenLine(nodes, t, b) /\ (b = 0 \/ \E s \in DOMAIN stack : stack[s].box = b)
    BY <2>2 DEF Rests
  <2>4. PICK S \in SUBSET (1 .. Len(nodes)) : t \in S /\ Closed(nodes, S, b)
    BY <2>3 DEF OpenLine
  <2>5. a \in S
    BY <2>4, AboveLine
  <2>6. nodes[a].flag \in OpenFlags \/ a = b
    BY <2>4, <2>5 DEF Closed
  <2>7. a # 0
    BY <2>5
  <2> QED
    BY <2>3, <2>6, <2>7 DEF Sealed, OpenFlags
<1> QED
  BY <1>1, Invariant, PTL DEF Spec, SealedStaysClosed

-------------------------------------------------------------------------------
(***************************************************************************)
(* The verdict on a header.                                                *)
(***************************************************************************)
\* One component further from t.
DownStep(path, t, m) ==
  IF t <= 0 THEN t
  ELSE IF nodes[t].flag \in {"inline", "plain", "none"} THEN -1
  ELSE Child(IF nodes[t].kind = "array" THEN LastElem(t) ELSE t, path[m])

\* Denotes, one component at a time.
LEMMA DenotesStep ==
  ASSUME IInv, NEW path
  PROVE  Denotes(path, 0) = 1 /\ \A n \in Nat : Denotes(path, n + 1) = DownStep(path, Denotes(path, n), n + 1)
<1> DEFINE V == -1 .. Len(nodes)
           down(t, m) == DownStep(path, t, m)
           F == [p \in V \X Nat |-> down(p[1], p[2])]
<1>1. nodes \in Seq(NodeType) /\ Len(nodes) \in Nat /\ Len(nodes) >= 1
  BY DEF IInv, TreeOK
<1>2. ASSUME NEW t \in V, NEW m \in Nat PROVE down(t, m) \in V
  <2>1. ASSUME NEW u, NEW k PROVE Child(u, k) \in V
    <3>1. Child(u, k) = 0 \/ Child(u, k) \in 1 .. Len(nodes)
      BY <1>1, ChildFacts
    <3> QED
      BY <1>1, <3>1
  <2>2. -1 \in V
    BY <1>1
  <2> QED
    BY <2>1, <2>2 DEF DownStep
<1>3. 1 \in V
  BY <1>1
<1> HIDE DEF down
<1>4. F \in [V \X Nat -> V] /\ \A t \in V, m \in Nat : F[<<t, m>>] = down(t, m)
  BY <1>2
<1> HIDE DEF F, V
<1>5. PICK f \in [Nat -> V] : Iterates(f, 1, F)
  BY <1>3, <1>4, RecursiveFunction
<1>6. ASSUME NEW n \in Nat PROVE f[n + 1] = down(f[n], n + 1)
  <2>1. f[n] \in V /\ n + 1 \in Nat
    BY <1>5
  <2>2. F[<<f[n], n + 1>>] = down(f[n], n + 1)
    BY <1>4, <2>1
  <2> QED
    BY <1>5, <2>2 DEF Iterates
<1>7. f = [m \in Nat |-> IF m = 0 THEN 1 ELSE down(f[m - 1], m)]
  <2>1. ASSUME NEW n \in Nat, n # 0 PROVE f[n] = down(f[n - 1], n)
    <3>1. PICK m \in Nat : n = m + 1
      BY <2>1
    <3> QED
      BY <1>6, <3>1
  <2>2. f[0] = 1
    BY <1>5 DEF Iterates
  <2> QED
    BY <1>5, <2>1, <2>2
<1> DEFINE at == CHOOSE g : g = [m \in Nat |-> IF m = 0 THEN 1 ELSE down(g[m - 1], m)]
<1>8. at = [m \in Nat |-> IF m = 0 THEN 1 ELSE down(at[m - 1], m)]
  BY <1>7
<1>9. \A n : Denotes(path, n) = at[n]
  BY DEF Denotes, Root, down, DownStep
<1> HIDE DEF at
<1>10. \A m \in Nat : at[m] = IF m = 0 THEN 1 ELSE down(at[m - 1], m)
  BY <1>8
<1>11. ASSUME NEW n \in Nat PROVE at[n + 1] = down(at[n], n + 1)
  <2>1. n + 1 \in Nat /\ n + 1 # 0 /\ n + 1 - 1 = n
    OBVIOUS
  <2>2. at[n + 1] = down(at[n + 1 - 1], n + 1)
    BY <1>10, <2>1
  <2> QED
    BY <2>1, <2>2
<1>12. at[0] = 1
  BY <1>10
<1> QED
  BY <1>9, <1>11, <1>12 DEF down

\* The table that a header enters at t: t, or the last table of an array.
Enters(ns, t, u) ==
  /\ ns[t].flag \notin {"inline", "plain", "none"}
  /\ IF ns[t].kind = "array"
     THEN ns[u].up = t /\ \A j \in 1 .. Len(ns) : ns[j].up = t => j <= u
     ELSE u = t

\* d: what the first components denote; e: the tables entered there.
TrailOK(ns, path, k, at, d, e) ==
  /\ d[0] = 1 /\ e[k] = at
  /\ \A m \in 0 .. k : d[m] \in 1 .. Len(ns) /\ e[m] \in 1 .. Len(ns) /\ Enters(ns, d[m], e[m])
  /\ \A m \in 0 .. k - 1 : ns[d[m + 1]].up = e[m] /\ ns[d[m + 1]].key = path[m + 1]

\* A header's walk has followed what the components read so far denote.
Read == Len(walk.path) - Len(walk.rest)
Trail == \E d, e \in [Nat -> Nat] : TrailOK(nodes, walk.path, Read, walk.at, d, e)
TrailInv == pc = "walk" /\ ~Dotted => Trail

\* A trail survives a new node in the table where the walk stands,
LEMMA TrailKept ==
  ASSUME NEW ns \in Seq(NodeType), NEW path, NEW k \in Nat, NEW at \in 1 .. Len(ns), NEW d, NEW e,
         TrailOK(ns, path, k, at, d, e), ns[at].kind = "table",
         NEW n, n.up = at, NEW ms, ms = Append(ns, n)
  PROVE  TrailOK(ms, path, k, at, d, e)
<1>1. /\ Len(ns) \in Nat /\ Len(ms) = Len(ns) + 1 /\ ms[Len(ns) + 1] = n
      /\ \A i \in 1 .. Len(ns) : ms[i] = ns[i]
  OBVIOUS
<1>2. ASSUME NEW t \in 1 .. Len(ns), NEW u \in 1 .. Len(ns), Enters(ns, t, u)
      PROVE  Enters(ms, t, u)
  <2>1. ms[t] = ns[t] /\ ms[u] = ns[u]
    BY <1>1
  <2>2. CASE ns[t].kind = "array"
    <3>1. ns[u].up = t /\ \A j \in 1 .. Len(ns) : ns[j].up = t => j <= u
      BY <1>2, <2>2 DEF Enters
    <3>2. ASSUME NEW j \in 1 .. Len(ms), ms[j].up = t PROVE j <= u
      <4>1. j # Len(ns) + 1
        <5>1. at # t
          BY <2>2
        <5> QED
          BY <1>1, <3>2, <5>1
      <4>2. j \in 1 .. Len(ns)
        BY <1>1, <4>1
      <4> QED
        BY <1>1, <3>1, <3>2, <4>2
    <3> QED
      BY <1>2, <2>1, <2>2, <3>1, <3>2 DEF Enters
  <2>3. CASE ns[t].kind # "array"
    BY <1>2, <2>1, <2>3 DEF Enters
  <2> QED
    BY <2>2, <2>3
<1>3. 1 .. Len(ns) \subseteq 1 .. Len(ms)
  BY <1>1
<1>4. ASSUME NEW m \in 0 .. k
      PROVE  d[m] \in 1 .. Len(ms) /\ e[m] \in 1 .. Len(ms) /\ Enters(ms, d[m], e[m])
  <2>1. d[m] \in 1 .. Len(ns) /\ e[m] \in 1 .. Len(ns) /\ Enters(ns, d[m], e[m])
    BY DEF TrailOK
  <2> QED
    BY <1>2, <1>3, <2>1
<1>5. ASSUME NEW m \in 0 .. k - 1
      PROVE  ms[d[m + 1]].up = e[m] /\ ms[d[m + 1]].key = path[m + 1]
  <2>1. ns[d[m + 1]].up = e[m] /\ ns[d[m + 1]].key = path[m + 1]
    BY DEF TrailOK
  <2>2. d[m + 1] \in 1 .. Len(ns)
    <3>1. m + 1 \in 0 .. k
      BY <1>5
    <3> QED
      BY <3>1 DEF TrailOK
  <2> QED
    BY <1>1, <2>1, <2>2
<1>6. d[0] = 1 /\ e[k] = at
  BY DEF TrailOK
<1> QED
  BY <1>4, <1>5, <1>6 DEF TrailOK

\* and goes on with what the walk finds there.
LEMMA TrailGrows ==
  ASSUME NEW ns, NEW path, NEW k \in Nat, NEW at, NEW d \in [Nat -> Nat], NEW e \in [Nat -> Nat],
         TrailOK(ns, path, k, at, d, e), Len(ns) \in Nat,
         NEW f \in 1 .. Len(ns), NEW u \in 1 .. Len(ns), ns[f].up = at, ns[f].key = path[k + 1],
         Enters(ns, f, u)
  PROVE  \E dd, ee \in [Nat -> Nat] : TrailOK(ns, path, k + 1, u, dd, ee)
<1> DEFINE dd == [d EXCEPT ![k + 1] = f]
           ee == [e EXCEPT ![k + 1] = u]
<1>1. /\ dd \in [Nat -> Nat] /\ ee \in [Nat -> Nat] /\ dd[k + 1] = f /\ ee[k + 1] = u
      /\ \A m \in 0 .. k : dd[m] = d[m] /\ ee[m] = e[m]
  <2>1. k + 1 \in Nat /\ f \in Nat /\ u \in Nat
    OBVIOUS
  <2>2. \A m \in 0 .. k : m \in Nat /\ m # k + 1
    OBVIOUS
  <2>3. dd \in [Nat -> Nat] /\ dd[k + 1] = f /\ \A m \in 0 .. k : dd[m] = d[m]
    BY <2>1, <2>2
  <2>4. ee \in [Nat -> Nat] /\ ee[k + 1] = u /\ \A m \in 0 .. k : ee[m] = e[m]
    BY <2>1, <2>2
  <2> QED
    BY <2>3, <2>4
<1> HIDE DEF dd, ee
<1>2. ASSUME NEW m \in 0 .. k + 1
      PROVE  dd[m] \in 1 .. Len(ns) /\ ee[m] \in 1 .. Len(ns) /\ Enters(ns, dd[m], ee[m])
  <2>1. CASE m \in 0 .. k
    BY <1>1, <2>1 DEF TrailOK
  <2>2. CASE m = k + 1
    BY <1>1, <2>2
  <2> QED
    BY <2>1, <2>2
<1>3. ASSUME NEW m \in 0 .. (k + 1) - 1
      PROVE  ns[dd[m + 1]].up = ee[m] /\ ns[dd[m + 1]].key = path[m + 1]
  <2>1. m \in 0 .. k
    OBVIOUS
  <2>2. CASE m = k
    BY <1>1, <2>1, <2>2 DEF TrailOK
  <2>3. CASE m # k
    <3>1. m + 1 \in 0 .. k /\ m \in 0 .. k - 1
      BY <2>1, <2>3
    <3> QED
      BY <1>1, <2>1, <3>1 DEF TrailOK
  <2> QED
    BY <2>2, <2>3
<1>4. dd[0] = 1 /\ ee[k + 1] = u
  <2>1. 0 \in 0 .. k
    OBVIOUS
  <2> QED
    BY <1>1, <2>1 DEF TrailOK
<1> QED
  BY <1>1, <1>2, <1>3, <1>4 DEF TrailOK

\* The component a walk resolves is the next of its path.
LEMMA ReadFacts ==
  ASSUME IInv, pc = "walk"
  PROVE  /\ Read \in Nat /\ Part = walk.path[Read + 1]
         /\ Last => Len(walk.path) = Read + 1
         /\ Inner => Read + 1 < Len(walk.path) /\ Len(walk.path) - Len(Tail(walk.rest)) = Read + 1
<1>1. /\ walk.rest \in Seq(Key) /\ walk.path \in Seq(Key) /\ Suffix(walk.rest, walk.path)
  BY WalkFacts
<1>2. PICK rest, path : rest = walk.rest /\ path = walk.path
  OBVIOUS
<1>3. PICK r, p \in Nat : r = Len(rest) /\ p = Len(path)
  BY <1>1, <1>2
<1>4. r >= 1 /\ r <= p
  BY <1>1, <1>2, <1>3 DEF Suffix
<1>5. rest[1] = path[p - r + 1]
  <2>1. 1 \in 1 .. r
    BY <1>4
  <2> QED
    BY <1>1, <1>2, <1>3, <2>1 DEF Suffix
<1>6. Part = rest[1]
  BY <1>1, <1>2 DEF Part
<1>7. Read = p - r
  BY <1>2, <1>3 DEF Read
<1>8. Part = path[Read + 1]
  BY <1>5, <1>6, <1>7
<1>9. Read \in Nat
  BY <1>4, <1>7
<1>10. ASSUME Last PROVE p = Read + 1
  <2>1. r = 1
    BY <1>2, <1>3, <1>10 DEF Last
  <2> QED
    BY <1>7, <2>1
<1>11. ASSUME Inner PROVE Read + 1 < p /\ p - Len(Tail(rest)) = Read + 1
  <2>1. r > 1
    BY <1>2, <1>3, <1>11 DEF Inner
  <2>2. Len(Tail(rest)) = r - 1
    BY <1>1, <1>2, <1>3, <2>1
  <2>3. p - r + 1 < p /\ p - (r - 1) = p - r + 1
    BY <2>1
  <2> QED
    BY <1>7, <2>2, <2>3
<1> QED
  BY <1>2, <1>3, <1>8, <1>9, <1>10, <1>11

\* A header's walk starts at the root.
LEMMA TrailStarts ==
  ASSUME IInv, NEW path, NEW ns, ns = nodes
  PROVE  \E d, e \in [Nat -> Nat] : TrailOK(ns, path, 0, 1, d, e)
<1>1. PICK d \in [Nat -> Nat] : d = [n \in Nat |-> 1]
  OBVIOUS
<1>2. 1 \in 1 .. Len(ns) /\ Shape(ns[1]) /\ ns[1].flag = "explicit"
  <2>1. TreeOK(ns, bodies) /\ BodiesOK(ns, bodies) /\ 1 \in 1 .. Len(bodies) /\ bodies[1] = 1
    BY DEF IInv, TreeOK, BodiesOK
  <2>2. 1 \in 1 .. Len(ns) /\ ns[1].flag = "explicit"
    BY <2>1 DEF BodiesOK
  <2> QED
    BY <2>1, <2>2 DEF TreeOK
<1>3. Enters(ns, 1, 1)
  BY <1>2 DEF Enters, Shape
<1>4. TrailOK(ns, path, 0, 1, d, d)
  <2>1. \A m \in 0 .. 0 : d[m] = 1
    BY <1>1
  <2>2. 0 \in 0 .. 0 /\ \A m \in 0 .. 0 - 1 : FALSE
    OBVIOUS
  <2> QED
    BY <1>2, <1>3, <2>1, <2>2 DEF TrailOK
<1> QED
  BY <1>1, <1>4

\* That is, StartWalk gives a trail.
LEMMA StartTrail ==
  ASSUME IInv, NEW mode, NEW path, StartWalk(mode, Root, path, 0), nodes' = nodes
  PROVE  Trail'
<1>1. walk'.path = path /\ walk'.rest = path /\ walk'.at = 1
  BY DEF StartWalk, Root
<1>2. \E d, e \in [Nat -> Nat] : TrailOK(nodes', path, 0, 1, d, e)
  BY TrailStarts
<1>3. Read' = Len(path) - Len(path)
  BY <1>1 DEF Read
<1>4. Len(path) - Len(path) = 0
  OBVIOUS
<1> QED
  BY <1>1, <1>2, <1>3, <1>4 DEF Trail

\* A walk that goes on keeps its trail.
LEMMA GoTrail ==
  ASSUME IInv, Inner, NEW ns, NEW d \in [Nat -> Nat], NEW e \in [Nat -> Nat],
         TrailOK(ns, walk.path, Read, walk.at, d, e), ns = nodes', Len(ns) \in Nat,
         NEW f \in 1 .. Len(ns), NEW u \in 1 .. Len(ns), ns[f].up = walk.at, ns[f].key = Part,
         Enters(ns, f, u), Go(u)
  PROVE  Trail'
<1>1. Read \in Nat /\ Part = walk.path[Read + 1]
      /\ Len(walk.path) - Len(Tail(walk.rest)) = Read + 1
  BY ReadFacts DEF Inner
<1>2. walk \in [mode : {"none", "fast", "header", "aot", "dotted"}, at : Nat,
                rest : Seq(Key), path : Seq(Key), val : Nat, mark : Nat]
  BY DEF IInv, WalkType
<1>3. walk'.path = walk.path /\ walk'.rest = Tail(walk.rest) /\ walk'.at = u
  BY <1>2 DEF Go
<1>4. Read' = Read + 1
  BY <1>1, <1>3 DEF Read
<1>5. PICK path, k, at : path = walk.path /\ k = Read /\ at = walk.at
  OBVIOUS
<1>6. \E dd, ee \in [Nat -> Nat] : TrailOK(ns, path, k + 1, u, dd, ee)
  <2>1. k \in Nat /\ TrailOK(ns, path, k, at, d, e) /\ ns[f].up = at /\ ns[f].key = path[k + 1]
    BY <1>1, <1>5
  <2> QED
    BY <2>1, TrailGrows
<1> QED
  BY <1>3, <1>4, <1>5, <1>6 DEF Trail

\* It goes on through what a header may pass,
LEMMA DownTrail ==
  ASSUME IInv, InnerDown, ~Dotted, Trail, pc' = "walk"
  PROVE  Trail'
<1>1. pc = "walk" /\ Inner /\ Found # 0 /\ HeaderMayPass(nodes[Found])
  BY DEF InnerDown, Inner, MayPass
<1>2. PICK d, e \in [Nat -> Nat] : TrailOK(nodes, walk.path, Read, walk.at, d, e)
  BY DEF Trail
<1>3. TreeOK(nodes, bodies) /\ nodes \in Seq(NodeType) /\ Len(nodes) \in Nat
  BY <1>1, WalkFacts
<1>4. PICK f \in 1 .. Len(nodes) :
        f = Found /\ nodes[f].up = walk.at /\ nodes[f].key = Part /\ Shape(nodes[f])
  BY <1>1, FoundFacts
<1>5. nodes[f].flag \notin {"inline", "plain", "none"}
  BY <1>1, <1>4 DEF HeaderMayPass, Shape
<1>6. CASE nodes[f].kind = "array"
  <2>1. nodes[f].flag = "aot"
    BY <1>1, <1>4, <1>6 DEF HeaderMayPass
  <2>2. AotAll(nodes)
    <3>1. ~Last
      BY <1>1, InnerNotLast
    <3> QED
      BY <1>1, <3>1, AotFullFacts
  <2>3. PICK j \in 1 .. Len(nodes) : nodes[j].up = f
    BY <2>1, <2>2 DEF AotAll
  <2>4. PICK u : u = LastElem(f)
    OBVIOUS
  <2>5. u \in 1 .. Len(nodes) /\ nodes[u].up = f /\ \A i \in 1 .. Len(nodes) : nodes[i].up = f => i <= u
    BY <1>3, <2>3, <2>4, LastElemFacts
  <2>6. Enters(nodes, f, u)
    BY <1>5, <1>6, <2>5 DEF Enters
  <2>7. Go(u) /\ nodes' = nodes
    BY <1>4, <1>6, <2>4 DEF InnerDown, Fail
  <2> QED
    BY <1>1, <1>2, <1>3, <1>4, <2>5, <2>6, <2>7, GoTrail
<1>7. CASE nodes[f].kind # "array"
  <2>1. Enters(nodes, f, f)
    BY <1>5, <1>7 DEF Enters
  <2>2. Go(f) /\ nodes' = nodes
    BY <1>4, <1>7 DEF InnerDown
  <2> QED
    BY <1>1, <1>2, <1>3, <1>4, <2>1, <2>2, GoTrail
<1> QED
  BY <1>6, <1>7

\* and through the tables it creates itself.
LEMMA CreateTrail ==
  ASSUME IInv, InnerCreate \/ LastNewAot, ~Dotted, Trail
  PROVE  Trail'
<1>1. pc = "walk" /\ Found = 0
  BY DEF InnerCreate, LastNewAot, Inner, Last
<1>2. PICK d, e \in [Nat -> Nat] : TrailOK(nodes, walk.path, Read, walk.at, d, e)
  BY DEF Trail
<1>3. /\ nodes \in Seq(NodeType) /\ Len(nodes) \in Nat /\ walk.at \in 1 .. Len(nodes)
      /\ nodes[walk.at].kind = "table" /\ Read \in Nat
  BY <1>1, WalkFacts, ReadFacts
<1>4. PICK kind, flag, via : 
        nodes' = Append(nodes, Node(kind, flag, walk.at, Part, via))
  BY DEF InnerCreate, LastNewAot
<1>5. PICK n, ms : n = Node(kind, flag, walk.at, Part, via) /\ ms = nodes'
  OBVIOUS
<1>6. ms = Append(nodes, n) /\ n.up = walk.at
  BY <1>4, <1>5 DEF Node
<1>7. TrailOK(ms, walk.path, Read, walk.at, d, e)
  BY <1>2, <1>3, <1>6, TrailKept
<1>8. CASE LastNewAot
  BY <1>5, <1>7, <1>8 DEF LastNewAot, Trail, Read
<1>9. CASE InnerCreate
  <2>1. PICK m : m = Len(nodes) + 1
    OBVIOUS
  <2>2. ms = Append(nodes, Node("table", "implicit", walk.at, Part, "header"))
    BY <1>5, <1>9 DEF InnerCreate
  <2>3. NewAt(ms, m, "table", "implicit", "header")
    BY <1>1, <2>1, <2>2, NewHere
  <2>4. m \in 1 .. Len(ms) /\ ms[m].up = walk.at /\ ms[m].key = Part /\ Enters(ms, m, m)
        /\ Len(ms) \in Nat
    BY <1>3, <2>3 DEF NewAt, Enters
  <2>5. Go(m) /\ Inner
    BY <1>9, <2>1 DEF InnerCreate
  <2> QED
    BY <1>5, <1>7, <2>4, <2>5, GoTrail
<1> QED
  BY <1>8, <1>9

\* Every step keeps the trail.
LEMMA TrailNext == IInv /\ TrailInv /\ [Next]_vars => TrailInv'
<1> SUFFICES ASSUME IInv, TrailInv, [Next]_vars, pc' = "walk", ~(Dotted') PROVE Trail'
  BY DEF TrailInv
<1>1. CASE Line
  <2>1. PICK path \in Path : HeaderFast(path) \/ (\E aot \in BOOLEAN : Header(path, aot)) \/ KeyVal(path)
    BY <1>1 DEF Line
  <2>2. PICK mode : StartWalk(mode, Root, path, 0) /\ nodes' = nodes
    BY <2>1 DEF HeaderFast, Header, KeyVal, Fail
  <2> QED
    BY <2>2, StartTrail
<1>2. CASE Value
  <2>1. ~Scalar
    BY DEF Scalar, Deliver, StartWalk, Dotted
  <2>2. ~Open("array", "plain") /\ ~Open("table", "inline")
    BY DEF Open, Fail
  <2> QED
    BY <1>2, <2>1, <2>2 DEF Value
<1>3. CASE Items
  <2>1. ~Close
    BY DEF Close, Deliver, StartWalk, Dotted
  <2>2. ~Element /\ \A path \in Path : ~Member(path)
    BY DEF Element, Member, Fail
  <2> QED
    BY <1>3, <2>1, <2>2 DEF Items
<1>4. CASE Walk
  <2>1. CASE InnerCreate \/ InnerDown \/ LastNewAot
    <3>1. walk'.mode = walk.mode /\ pc = "walk"
      <4>1. walk \in [mode : {"none", "fast", "header", "aot", "dotted"}, at : Nat,
                      rest : Seq(Key), path : Seq(Key), val : Nat, mark : Nat]
        BY DEF IInv, WalkType
      <4> QED
        BY <2>1, <4>1 DEF InnerCreate, InnerDown, LastNewAot, Go, Inner, Last, Fail
    <3>2. Trail /\ ~Dotted
      BY <3>1 DEF Dotted, TrailInv
    <3> QED
      BY <2>1, <3>2, DownTrail, CreateTrail
  <2>2. CASE FastFallback
    <3>1. StartWalk("header", Root, walk.path, 0) /\ nodes' = nodes
      BY <2>2 DEF FastFallback, Fail
    <3> QED
      BY <3>1, StartTrail
  <2>3. ~InnerStuck /\ ~LastNewTable /\ ~LastImplicit /\ ~LastTaken /\ ~LastAotElem
    BY DEF InnerStuck, LastNewTable, LastImplicit, LastTaken, LastAotElem, Fail, OpenBody
  <2>4. ~LastInsert
    BY DEF LastInsert
  <2> QED
    BY <1>4, <2>1, <2>2, <2>3, <2>4 DEF Walk
<1>5. ~AllocFails /\ ~SyntaxError /\ ~EndOfInput
  BY DEF AllocFails, SyntaxError, EndOfInput, Fail
<1>6. CASE UNCHANGED vars
  BY <1>6 DEF vars, TrailInv, Trail, Read, Dotted
<1> QED
  BY <1>1, <1>2, <1>3, <1>4, <1>5, <1>6 DEF Next

\* The trail is an invariant, with the rest.
LEMMA TrailInvariant == Spec => [](IInv /\ TrailInv)
<1>1. Init => TrailInv
  BY DEF Init, TrailInv
<1> QED
  BY <1>1, InitInv, NextInv, TrailNext, PTL DEF Spec

\* What a place denotes is found again from the table entered there.
LEMMA EntersStep ==
  ASSUME IInv, NEW t \in 1 .. Len(nodes), NEW u \in 1 .. Len(nodes), Enters(nodes, t, u), NEW path, NEW m
  PROVE  DownStep(path, t, m) = Child(u, path[m])
<1>1. nodes \in Seq(NodeType) /\ Len(nodes) \in Nat
  BY DEF IInv, TreeOK
<1>2. t > 0 /\ nodes[t].flag \notin {"inline", "plain", "none"}
  BY <1>1 DEF Enters
<1>3. CASE nodes[t].kind = "array"
  <2>1. nodes[u].up = t /\ \A j \in 1 .. Len(nodes) : nodes[j].up = t => j <= u
    BY <1>3 DEF Enters
  <2>2. PICK c : c = LastElem(t)
    OBVIOUS
  <2>3. c \in 1 .. Len(nodes) /\ nodes[c].up = t /\ \A j \in 1 .. Len(nodes) : nodes[j].up = t => j <= c
    BY <1>1, <2>1, <2>2, LastElemFacts
  <2>4. c <= u /\ u <= c
    BY <2>1, <2>3
  <2>5. c = u
    BY <1>1, <2>3, <2>4
  <2> QED
    BY <1>2, <1>3, <2>2, <2>5 DEF DownStep
<1>4. CASE nodes[t].kind # "array"
  BY <1>2, <1>4 DEF DownStep, Enters
<1> QED
  BY <1>3, <1>4

\* A table has one entry of a key.
LEMMA OneChild ==
  ASSUME IInv, NEW i \in 1 .. Len(nodes), NEW u, u # 0, NEW k \in Key,
         nodes[i].up = u, nodes[i].key = k
  PROVE  Child(u, k) = i
<1>1. nodes \in Seq(NodeType) /\ UniqueKeys(nodes)
  BY DEF IInv, TreeOK
<1>2. k # NoKey
  BY ParserAssumption
<1>3. PICK c : c = Child(u, k)
  OBVIOUS
<1>4. c \in 1 .. Len(nodes) /\ nodes[c].up = u /\ nodes[c].key = k
  BY <1>1, <1>3, ChildFacts
<1>5. c = i
  BY <1>1, <1>2, <1>4 DEF UniqueKeys
<1> QED
  BY <1>3, <1>5

\* A header's walk finds what the components read, and the next, denote.
LEMMA TrailDone ==
  ASSUME IInv, Trail, pc = "walk"
  PROVE  Denotes(walk.path, Read + 1) = Found
<1>1. PICK path, k, at : path = walk.path /\ k = Read /\ at = walk.at
  OBVIOUS
<1>2. PICK d, e \in [Nat -> Nat] : TrailOK(nodes, path, k, at, d, e)
  BY <1>1 DEF Trail
<1>3. k \in Nat /\ Part = path[k + 1]
  BY <1>1, ReadFacts
<1>4. path \in Seq(Key) /\ k <= Len(path) /\ Len(path) \in Nat
  <2>1. PICK rest : rest = walk.rest
    OBVIOUS
  <2>2. path \in Seq(Key) /\ rest \in Seq(Key)
    BY <1>1, <2>1, WalkFacts
  <2>3. k = Len(path) - Len(rest)
    BY <1>1, <2>1 DEF Read
  <2> QED
    BY <2>2, <2>3
<1>5. /\ Denotes(path, 0) = 1
      /\ \A n \in Nat : Denotes(path, n + 1) = DownStep(path, Denotes(path, n), n + 1)
  BY DenotesStep
<1>6. ASSUME NEW m \in 0 .. k, Denotes(path, m) = d[m]
      PROVE  Denotes(path, m + 1) = Child(e[m], path[m + 1])
  <2>1. d[m] \in 1 .. Len(nodes) /\ e[m] \in 1 .. Len(nodes) /\ Enters(nodes, d[m], e[m])
    BY <1>2 DEF TrailOK
  <2>2. PICK t, u : t = d[m] /\ u = e[m]
    OBVIOUS
  <2>3. PICK j : j = m + 1
    OBVIOUS
  <2>4. DownStep(path, t, j) = Child(u, path[j])
    BY <2>1, <2>2, EntersStep
  <2>5. m \in Nat
    BY <1>3
  <2>6. Denotes(path, m + 1) = DownStep(path, Denotes(path, m), m + 1)
    BY <1>5, <2>5
  <2> QED
    BY <1>6, <2>2, <2>3, <2>4, <2>6
<1>7. ASSUME NEW m \in 0 .. k - 1 PROVE Child(e[m], path[m + 1]) = d[m + 1]
  <2>1. m + 1 \in 0 .. k /\ m \in 0 .. k /\ m + 1 \in 1 .. Len(path)
    BY <1>3, <1>4
  <2>2. nodes[d[m + 1]].up = e[m] /\ nodes[d[m + 1]].key = path[m + 1]
        /\ d[m + 1] \in 1 .. Len(nodes) /\ e[m] \in 1 .. Len(nodes)
    BY <1>2, <2>1 DEF TrailOK
  <2>3. path[m + 1] \in Key
    BY <1>4, <2>1
  <2>4. PICK i, u, key : i = d[m + 1] /\ u = e[m] /\ key = path[m + 1]
    OBVIOUS
  <2>5. u # 0
    BY <2>2, <2>4
  <2>6. Child(u, key) = i
    BY <2>2, <2>3, <2>4, <2>5, OneChild
  <2> QED
    BY <2>4, <2>6
<1>8. \A m \in Nat : m <= k => Denotes(path, m) = d[m]
  <2> DEFINE S == {m \in Nat : m <= k => Denotes(path, m) = d[m]}
  <2>1. 0 \in S
    BY <1>2, <1>5 DEF TrailOK
  <2>2. ASSUME NEW m \in S PROVE m + 1 \in S
    <3>1. CASE m + 1 <= k
      <4>1. m \in 0 .. k - 1 /\ m \in 0 .. k /\ m <= k
        BY <1>3, <3>1
      <4>2. Denotes(path, m) = d[m]
        BY <4>1
      <4> QED
        BY <1>6, <1>7, <4>1, <4>2
    <3>2. CASE ~(m + 1 <= k)
      BY <3>2
    <3> QED
      BY <3>1, <3>2
  <2>3. S \subseteq Nat
    OBVIOUS
  <2> HIDE DEF S
  <2>4. S = Nat
    BY <2>1, <2>2, <2>3, InductiveSet
  <2> QED
    BY <2>4 DEF S
<1>9. k \in 0 .. k /\ Denotes(path, k) = d[k] /\ e[k] = at
  <2>1. k \in 0 .. k /\ k <= k
    BY <1>3
  <2>2. Denotes(path, k) = d[k]
    BY <1>3, <1>8, <2>1
  <2> QED
    BY <1>2, <2>1, <2>2 DEF TrailOK
<1>10. Denotes(path, k + 1) = Child(at, path[k + 1])
  BY <1>6, <1>9
<1> QED
  BY <1>1, <1>3, <1>10 DEF Found

\* Past a place that no header may pass, a path denotes that place.
LEMMA NoWayDown ==
  ASSUME IInv, NEW path, NEW n \in Nat, Denotes(path, n) = -1, NEW m \in Nat, n <= m
  PROVE  Denotes(path, m) = -1
<1> DEFINE S == {j \in Nat : n <= j => Denotes(path, j) = -1}
<1>1. \A j \in Nat : Denotes(path, j + 1) = DownStep(path, Denotes(path, j), j + 1)
  BY DenotesStep
<1>2. 0 \in S
  <2>1. n <= 0 => n = 0
    OBVIOUS
  <2> QED
    BY <2>1
<1>3. ASSUME NEW j \in S PROVE j + 1 \in S
  <2>1. CASE n <= j
    <3>1. Denotes(path, j) = -1
      BY <2>1
    <3>2. Denotes(path, j + 1) = -1
      BY <1>1, <3>1 DEF DownStep
    <3> QED
      BY <3>2
  <2>2. CASE ~(n <= j)
    <3>1. n <= j + 1 => n = j + 1
      BY <2>2
    <3> QED
      BY <3>1
  <2> QED
    BY <2>1, <2>2
<1>4. S \subseteq Nat
  OBVIOUS
<1> HIDE DEF S
<1>5. S = Nat
  BY <1>2, <1>3, <1>4, InductiveSet
<1> QED
  BY <1>5 DEF S

\* The whole of the path of a header's last component denotes what it finds.
LEMMA VerdictOnFound ==
  ASSUME IInv, Trail, pc = "walk", Last, NEW aot
  PROVE  HeaderAllowed(walk.path, aot) <=>
           \/ Found = 0
           \/ Found # 0 /\ (aot => nodes[Found].flag = "aot") /\ (~aot => nodes[Found].flag = "implicit")
<1>1. Len(walk.path) = Read + 1
  BY ReadFacts
<1>2. PICK i : i = Found
  OBVIOUS
<1>3. Denotes(walk.path, Len(walk.path)) = i
  BY <1>1, <1>2, TrailDone
<1>4. i # 0 => i > 0
  <2>1. i # 0 => i \in 1 .. Len(nodes)
    BY <1>2, FoundFacts
  <2>2. Len(nodes) \in Nat
    BY WalkFacts
  <2> QED
    BY <2>1, <2>2
<1>5. ~(0 > 0)
  OBVIOUS
<1> QED
  BY <1>2, <1>3, <1>4, <1>5 DEF HeaderAllowed

\* A header's walk that meets a node it may not pass rejects a path that TOML
\* rejects: nothing below that node can be denoted.
LEMMA StuckIsToml ==
  ASSUME IInv, Trail, InnerStuck, ~Dotted, NEW aot
  PROVE  ~HeaderAllowed(walk.path, aot)
<1>1. pc = "walk" /\ Inner /\ Found # 0 /\ ~HeaderMayPass(nodes[Found])
  BY DEF InnerStuck, Inner, MayPass
<1>2. PICK i, path : i = Found /\ path = walk.path
  OBVIOUS
<1>3. i \in 1 .. Len(nodes) /\ Shape(nodes[i]) /\ Len(nodes) \in Nat
  BY <1>1, <1>2, FoundFacts, WalkFacts
<1>4. nodes[i].flag \in {"inline", "plain", "none"}
  BY <1>1, <1>2, <1>3 DEF HeaderMayPass, Shape
<1>5. PICK k \in Nat : k = Read
  BY <1>1, ReadFacts
<1>6. k + 1 < Len(path) /\ Len(path) \in Nat
  <2>1. walk.path \in Seq(Key)
    BY <1>1, WalkFacts
  <2>2. k + 1 < Len(path)
    BY <1>1, <1>2, <1>5, ReadFacts
  <2> QED
    BY <1>2, <2>1, <2>2
<1>7. Denotes(path, k + 1) = i
  BY <1>1, <1>2, <1>5, TrailDone
<1>8. Denotes(path, (k + 1) + 1) = -1
  <2>1. k + 1 \in Nat
    OBVIOUS
  <2>2. Denotes(path, (k + 1) + 1) = DownStep(path, Denotes(path, k + 1), (k + 1) + 1)
    BY <2>1, DenotesStep
  <2>3. ~(i <= 0)
    BY <1>3
  <2> QED
    BY <1>4, <1>7, <2>2, <2>3 DEF DownStep
<1>9. (k + 1) + 1 \in Nat /\ (k + 1) + 1 <= Len(path)
  BY <1>6
<1>10. Denotes(path, Len(path)) = -1
  BY <1>6, <1>8, <1>9, NoWayDown
<1> QED
  BY <1>2, <1>10 DEF HeaderAllowed

\* The branch for a corrupt array of tables is dead: the array that a header
\* walks through has a last element, and it is a table.
LEMMA DownGoesOn ==
  ASSUME IInv, InnerDown, ~Dotted
  PROVE  pc' = "walk"
<1>1. pc = "walk" /\ Inner /\ Found # 0 /\ HeaderMayPass(nodes[Found])
  BY DEF InnerDown, Inner, MayPass
<1>2. TreeOK(nodes, bodies) /\ nodes \in Seq(NodeType) /\ Len(nodes) \in Nat
  BY <1>1, WalkFacts
<1>3. PICK f \in 1 .. Len(nodes) : f = Found /\ Shape(nodes[f])
  BY <1>1, FoundFacts
<1>4. CASE nodes[f].kind = "array"
  <2>1. nodes[f].flag = "aot"
    BY <1>1, <1>3, <1>4 DEF HeaderMayPass
  <2>2. AotAll(nodes)
    <3>1. ~Last
      BY <1>1, InnerNotLast
    <3> QED
      BY <1>1, <3>1, AotFullFacts
  <2>3. PICK j \in 1 .. Len(nodes) : nodes[j].up = f
    BY <2>1, <2>2 DEF AotAll
  <2>4. PICK u : u = LastElem(f)
    OBVIOUS
  <2>5. u \in 1 .. Len(nodes) /\ nodes[u].up = f
    BY <1>2, <2>3, <2>4, LastElemFacts
  <2>6. Shape(nodes[u]) /\ Placed(nodes, bodies, nodes[u])
    BY <1>2, <2>5 DEF TreeOK
  <2>7. nodes[u].flag = "explicit"
    BY <2>1, <2>5, <2>6 DEF Placed
  <2>8. nodes[u].kind = "table"
    BY <2>6, <2>7 DEF Shape
  <2> QED
    BY <1>1, <1>3, <1>4, <2>4, <2>8 DEF InnerDown
<1>5. CASE nodes[f].kind # "array"
  BY <1>1, <1>3, <1>5 DEF InnerDown
<1> QED
  BY <1>4, <1>5

\* One step of a header's walk that ends it does what TOML says.
LEMMA VerdictStep ==
  ASSUME IInv, TrailInv, [Next]_vars, pc = "walk", walk.mode \in {"fast", "header", "aot"},
         pc' # "walk", st' \notin {"ALLOC", "DEPTH"}
  PROVE  pc' = "line" <=> HeaderAllowed(walk.path, walk.mode = "aot")
<1>1. ~Dotted /\ Trail
  BY DEF Dotted, TrailInv
<1>2. Walk
  <2>1. ~Line /\ ~Value /\ ~Items /\ ~SyntaxError /\ ~EndOfInput
    BY DEF Line, HeaderFast, Header, KeyVal, Value, Scalar, Open, Items, Element, Member, Close,
           SyntaxError, EndOfInput
  <2>2. ~AllocFails
    BY DEF AllocFails, Fail
  <2>3. ~(UNCHANGED vars)
    BY DEF vars
  <2> QED
    BY <2>1, <2>2, <2>3 DEF Next
<1>3. CASE InnerStuck
  <2>1. ~HeaderAllowed(walk.path, walk.mode = "aot")
    BY <1>1, <1>3, StuckIsToml
  <2> QED
    BY <1>3, <2>1 DEF InnerStuck, Fail
<1>4. CASE LastNewTable
  <2>1. HeaderAllowed(walk.path, walk.mode = "aot")
    BY <1>1, <1>4, VerdictOnFound DEF LastNewTable
  <2> QED
    BY <1>4, <2>1 DEF LastNewTable, OpenBody
<1>5. CASE LastImplicit
  <2>1. HeaderAllowed(walk.path, walk.mode = "aot")
    BY <1>1, <1>5, VerdictOnFound DEF LastImplicit
  <2> QED
    BY <1>5, <2>1 DEF LastImplicit, OpenBody
<1>6. CASE LastTaken
  <2>1. Last /\ Found # 0 /\ pc' = "fail"
    BY <1>6 DEF LastTaken, Fail
  <2>2. Shape(nodes[Found])
    BY <2>1, FoundFacts
  <2>3. \/ walk.mode = "header" /\ nodes[Found].flag # "implicit"
        \/ walk.mode = "aot" /\ nodes[Found].flag # "aot"
    BY <1>1, <1>6, <2>2 DEF LastTaken, Shape
  <2>4. ~HeaderAllowed(walk.path, walk.mode = "aot")
    BY <1>1, <2>1, <2>3, VerdictOnFound
  <2> QED
    BY <2>1, <2>4
<1>7. CASE LastAotElem
  <2>1. HeaderAllowed(walk.path, walk.mode = "aot")
    BY <1>1, <1>7, VerdictOnFound DEF LastAotElem
  <2> QED
    BY <1>7, <2>1 DEF LastAotElem, OpenBody
<1>8. ~InnerDown
  BY <1>1, DownGoesOn
<1>9. ~InnerCreate /\ ~LastNewAot /\ ~LastInsert
  BY <1>1 DEF InnerCreate, LastNewAot, LastInsert
<1>10. ~FastFallback
  BY DEF FastFallback, Fail, StartWalk
<1> QED
  BY <1>2, <1>3, <1>4, <1>5, <1>6, <1>7, <1>8, <1>9, <1>10 DEF Walk

\* The verdict on a header is TOML's, read off the tree as it was before the
\* line's last step: try_header_fast, its fallback and parse_header agree.
THEOREM VerdictHolds == Spec => VerdictIsToml
<1>1. IInv /\ TrailInv /\ [Next]_vars =>
        [pc = "walk" /\ walk.mode \in {"fast", "header", "aot"}
           /\ pc' # "walk" /\ st' \notin {"ALLOC", "DEPTH"} =>
           (pc' = "line" <=> HeaderAllowed(walk.path, walk.mode = "aot"))]_vars
  BY VerdictStep
<1> QED
  BY <1>1, TrailInvariant, PTL DEF Spec, VerdictIsToml
===============================================================================
