---------------------------- MODULE BuilderProofs ----------------------------
(***************************************************************************)
(* Proofs about Builder.  The inductive invariant has three parts: what    *)
(* holds of the nodes (NodesOK), of one open container (FrameOK) and of    *)
(* the stack (FramesOK).  They are operators of a document and a stack, so *)
(* that a call can be followed through attach(), which decides the nature  *)
(* of an array and appends a node, and then push or pop.                   *)
(*                                                                         *)
(* The part that makes it inductive is FrameOK: an array whose nature is   *)
(* undecided has no element and lies in an explicit table, so that turning *)
(* it into an array of tables breaks nothing below or above it.            *)
(***************************************************************************)
EXTENDS Builder, TLAPS

Shape(n) ==
  \/ n.kind = "table" /\ n.flag \in {"explicit", "inline"}
  \/ n.kind = "array" /\ n.flag \in {"plain", "aot"}
  \/ n.kind = "scalar" /\ n.flag = "none"

\* SectionsOutside and AotHoldsTables, for one node below the root.
Placed(n, p) ==
  /\ n.flag = "explicit" => p.flag \in {"explicit", "aot"}
  /\ n.flag = "aot" => p.flag = "explicit"
  /\ p.flag = "aot" => n.flag = "explicit"

UniqueKeys(ns) ==
  \A i, j \in 1 .. Len(ns) :
    ns[i].up = ns[j].up /\ ns[i].key = ns[j].key /\ ns[i].key # NoKey => i = j

NodesOK(ns) ==
  /\ ns \in Seq(NodeType) /\ Len(ns) >= 1
  /\ ns[1] = Node("table", "explicit", 0, NoKey)
  /\ \A i \in 1 .. Len(ns) : Shape(ns[i])
  /\ \A i \in 2 .. Len(ns) : ns[i].up \in 1 .. i - 1 /\ Placed(ns[i], ns[ns[i].up])
  /\ UniqueKeys(ns)

FrameOK(ns, f) ==
  /\ f.node \in 1 .. Len(ns) /\ f.nature \in {"undecided", "inline", "aot"}
  /\ ns[f.node].kind # "scalar"
  /\ ns[f.node].kind = "table" => f.nature = "undecided"
  /\ ns[f.node].kind = "array" => (f.nature = "aot" <=> ns[f.node].flag = "aot")
  /\ ns[f.node].kind = "array" /\ f.nature = "undecided" =>
       /\ ns[ns[f.node].up].flag = "explicit"
       /\ \A i \in 1 .. Len(ns) : ns[i].up # f.node

FrameType == [node : Nat, nature : {"undecided", "inline", "aot"}]

FramesOK(ns, stk) ==
  /\ stk \in Seq(FrameType) /\ Len(stk) >= 1 /\ stk[1].node = 1
  /\ \A s \in 1 .. Len(stk) : FrameOK(ns, stk[s])
  /\ \A s \in 2 .. Len(stk) :
       /\ ns[stk[s].node].up = stk[s - 1].node
       /\ \A i \in 1 .. Len(ns) : ns[i].up = stk[s - 1].node => i <= stk[s].node
  /\ \A s, t \in 1 .. Len(stk) : s < t => stk[s].node < stk[t].node

AotFull(ns) ==
  \A i \in 1 .. Len(ns) : ns[i].flag = "aot" => \E j \in 1 .. Len(ns) : ns[j].up = i

IInv ==
  /\ NodesOK(nodes) /\ FramesOK(nodes, stack)
  /\ Len(stack) <= MaxDepth
  /\ oom \in BOOLEAN /\ (~oom => AotFull(nodes))
  /\ owner \in {"builder", "caller", "none"}
  /\ st \in {"OK", "ARG", "DEPTH", "ALLOC", "STATE"}

-------------------------------------------------------------------------------
(***************************************************************************)
(* Seq facts.                                                              *)
(***************************************************************************)
\* Length and elements of a sequence one longer.
LEMMA AppendFacts ==
  ASSUME NEW S, NEW q \in Seq(S), NEW e \in S
  PROVE  /\ Append(q, e) \in Seq(S) /\ Len(Append(q, e)) = Len(q) + 1
         /\ \A i \in 1 .. Len(q) : Append(q, e)[i] = q[i]
         /\ Append(q, e)[Len(q) + 1] = e
OBVIOUS

\* Length and elements of a sequence one shorter.
LEMMA FrontFacts ==
  ASSUME NEW S, NEW q \in Seq(S), Len(q) > 1
  PROVE  LET f == SubSeq(q, 1, Len(q) - 1) IN
         /\ f \in Seq(S) /\ Len(f) = Len(q) - 1
         /\ \A i \in 1 .. Len(q) - 1 : f[i] = q[i]
OBVIOUS

\* What deciding the nature of the current array does to the document.
LEMMA DecidedNodesFacts ==
  ASSUME NodesOK(nodes), FramesOK(nodes, stack), NEW isTable \in BOOLEAN
  PROVE  LET ns == DecidedNodes(isTable) IN
         /\ ns \in Seq(NodeType) /\ Len(ns) = Len(nodes)
         /\ Top.node \in 1 .. Len(nodes) /\ Top.nature \in {"undecided", "inline", "aot"}
         /\ \A i \in 1 .. Len(nodes) :
              /\ ns[i].up = nodes[i].up /\ ns[i].key = nodes[i].key
              /\ ns[i].kind = nodes[i].kind
              /\ ns[i].flag = IF i = Top.node /\ Decided(isTable) = "aot" THEN "aot"
                              ELSE nodes[i].flag
<1> DEFINE t == Top.node
<1>1. Len(stack) \in 1 .. Len(stack) /\ FrameOK(nodes, Top)
  BY DEF FramesOK, Top
<1>2. /\ t \in 1 .. Len(nodes) /\ Top.nature \in {"undecided", "inline", "aot"}
      /\ nodes \in Seq(NodeType)
  BY <1>1 DEF FrameOK, NodesOK
<1>3. \A i \in 1 .. Len(nodes) : nodes[i] \in NodeType
  BY <1>2
<1>4. nodes[t] \in NodeType
  BY <1>2, <1>3
<1> DEFINE fl == IF Decided(isTable) = "aot" THEN "aot" ELSE nodes[t].flag
           n1 == [nodes[t] EXCEPT !.flag = fl]
<1>5. n1 \in NodeType /\ n1.up = nodes[t].up /\ n1.key = nodes[t].key
      /\ n1.kind = nodes[t].kind /\ n1.flag = fl
  BY <1>4 DEF NodeType
<1>6. DecidedNodes(isTable) = [nodes EXCEPT ![t] = n1]
  BY DEF DecidedNodes
<1> HIDE DEF n1
<1>7. [nodes EXCEPT ![t] = n1] \in Seq(NodeType) /\ Len([nodes EXCEPT ![t] = n1]) = Len(nodes)
  BY <1>2, <1>5
<1>8. \A i \in 1 .. Len(nodes) : [nodes EXCEPT ![t] = n1][i] = IF i = t THEN n1 ELSE nodes[i]
  BY <1>2
<1> QED
  BY <1>2, <1>5, <1>6, <1>7, <1>8

\* attach() changes at most the nature of the top frame.
LEMMA DecidedStackFacts ==
  ASSUME NodesOK(nodes), FramesOK(nodes, stack), NEW isTable \in BOOLEAN
  PROVE  LET k == DecidedStack(isTable) IN
         /\ k \in Seq(FrameType) /\ Len(k) = Len(stack)
         /\ \A s \in 1 .. Len(stack) : k[s].node = stack[s].node
         /\ \A s \in 1 .. Len(stack) - 1 : k[s] = stack[s]
         /\ k[Len(stack)].nature = Decided(isTable)
<1> DEFINE l == Len(stack)
<1>1. l \in 1 .. Len(stack) /\ stack \in Seq(FrameType) /\ FrameOK(nodes, Top) /\ l \in Nat
  BY DEF FramesOK, Top
<1>2. stack[l] \in FrameType
  BY <1>1
<1>3. Decided(isTable) \in {"undecided", "inline", "aot"}
  BY <1>1 DEF Decided, FrameOK
<1> DEFINE f1 == [stack[l] EXCEPT !.nature = Decided(isTable)]
<1>4. f1 \in FrameType /\ f1.node = stack[l].node /\ f1.nature = Decided(isTable)
  BY <1>2, <1>3 DEF FrameType
<1>5. DecidedStack(isTable) = [stack EXCEPT ![l] = f1]
  BY DEF DecidedStack
<1> HIDE DEF f1
<1>6. [stack EXCEPT ![l] = f1] \in Seq(FrameType) /\ Len([stack EXCEPT ![l] = f1]) = Len(stack)
  BY <1>1, <1>4
<1>7. \A i \in 1 .. l : [stack EXCEPT ![l] = f1][i] = IF i = l THEN f1 ELSE stack[i]
  BY <1>1
<1> QED
  BY <1>1, <1>4, <1>5, <1>6, <1>7

-------------------------------------------------------------------------------
(***************************************************************************)
(* The three things a call may do.                                         *)
(***************************************************************************)
\* Deciding the nature of the current array, alone.
LEMMA DecideInv ==
  ASSUME NodesOK(nodes), FramesOK(nodes, stack), NEW isTable \in BOOLEAN
  PROVE  /\ NodesOK(DecidedNodes(isTable))
         /\ FramesOK(DecidedNodes(isTable), DecidedStack(isTable))
<1> DEFINE ns == DecidedNodes(isTable)
           k == DecidedStack(isTable)
           t == Top.node
           d == Decided(isTable)
<1>n. /\ ns \in Seq(NodeType) /\ Len(ns) = Len(nodes)
      /\ t \in 1 .. Len(nodes) /\ Top.nature \in {"undecided", "inline", "aot"}
      /\ \A i \in 1 .. Len(nodes) :
           /\ ns[i].up = nodes[i].up /\ ns[i].key = nodes[i].key
           /\ ns[i].kind = nodes[i].kind
           /\ ns[i].flag = IF i = t /\ d = "aot" THEN "aot" ELSE nodes[i].flag
  BY DecidedNodesFacts
<1>k. /\ k \in Seq(FrameType) /\ Len(k) = Len(stack)
      /\ \A s \in 1 .. Len(stack) : k[s].node = stack[s].node
      /\ \A s \in 1 .. Len(stack) - 1 : k[s] = stack[s]
      /\ k[Len(stack)].nature = d
  BY DecidedStackFacts
<1>l. Len(stack) \in 1 .. Len(stack) /\ Len(stack) \in Nat /\ Len(nodes) \in Nat /\ Len(nodes) >= 1
  BY DEF FramesOK, NodesOK
<1>t. FrameOK(nodes, Top) /\ t = stack[Len(stack)].node
  BY <1>l DEF FramesOK, Top
<1>d. \/ d = Top.nature
      \/ /\ nodes[t].kind = "array" /\ Top.nature = "undecided" /\ d \in {"aot", "inline"}
  BY DEF Decided, InArray
\* Either nothing is marked, or an array without elements is.
<1>m. \/ \A i \in 1 .. Len(nodes) : ns[i].flag = nodes[i].flag
      \/ /\ d = "aot" /\ Top.nature = "undecided" /\ nodes[t].kind = "array"
         /\ nodes[nodes[t].up].flag = "explicit"
         /\ \A i \in 1 .. Len(nodes) : nodes[i].up # t
  <2>1. CASE d # "aot"
    BY <2>1, <1>n
  <2>2. CASE d = "aot" /\ d = Top.nature
    <3>1. nodes[t].kind = "array" /\ nodes[t].flag = "aot"
      BY <2>2, <1>t, <1>n, <1>l DEF FrameOK, NodesOK, Shape
    <3> QED BY <3>1, <1>n
  <2>3. CASE d = "aot" /\ d # Top.nature
    BY <2>3, <1>d, <1>t DEF FrameOK
  <2> QED BY <2>1, <2>2, <2>3
<1> HIDE DEF ns, k, t, d
<1>1. ns[1] = Node("table", "explicit", 0, NoKey)
  <2>1. nodes[1] = Node("table", "explicit", 0, NoKey) BY DEF NodesOK
  <2>2. ns[1] \in NodeType BY <1>n, <1>l
  <2>3. ns[1].flag = "explicit"
    BY <2>1, <1>n, <1>m, <1>l DEF Node
  <2> QED BY <2>1, <2>2, <2>3, <1>n, <1>l DEF Node, NodeType
<1>2. \A i \in 1 .. Len(ns) : Shape(ns[i])
  BY SMTT(30), <1>n, <1>m, <1>l DEF NodesOK, Shape
<1>3. \A i \in 2 .. Len(ns) : ns[i].up \in 1 .. i - 1 /\ Placed(ns[i], ns[ns[i].up])
  <2> SUFFICES ASSUME NEW i \in 2 .. Len(nodes)
               PROVE  nodes[i].up \in 1 .. i - 1 /\ Placed(ns[i], ns[nodes[i].up])
    BY <1>n, <1>l
  <2>1. nodes[i].up \in 1 .. i - 1 /\ Placed(nodes[i], nodes[nodes[i].up])
    BY DEF NodesOK
  <2>2. i \in 1 .. Len(nodes) /\ nodes[i].up \in 1 .. Len(nodes)
    BY <2>1, <1>l
  <2> QED BY <2>1, <2>2, <1>n, <1>m DEF Placed
<1>4. UniqueKeys(ns)
  BY <1>n DEF UniqueKeys, NodesOK
<1>5. NodesOK(ns)
  BY <1>1, <1>2, <1>3, <1>4, <1>n, <1>l DEF NodesOK
<1>6. \A s \in 1 .. Len(k) : FrameOK(ns, k[s])
  <2> SUFFICES ASSUME NEW s \in 1 .. Len(stack) PROVE FrameOK(ns, k[s])
    BY <1>k
  <2>1. FrameOK(nodes, stack[s]) BY DEF FramesOK
  <2>2. k[s].node = stack[s].node /\ stack[s].node \in 1 .. Len(nodes)
    BY <2>1, <1>k DEF FrameOK
  <2>u. nodes[stack[s].node].kind = "array" => nodes[stack[s].node].up \in 1 .. Len(nodes)
    <3>1. CASE stack[s].node = 1
      BY <3>1 DEF NodesOK, Node
    <3>2. CASE stack[s].node # 1
      BY <3>2, <2>2, <1>l DEF NodesOK
    <3> QED BY <3>1, <3>2
  <2>3. CASE s = Len(stack)
    <3>1. k[s].nature = d /\ stack[s].nature = Top.nature /\ stack[s].node = t
      BY <2>3, <1>k, <1>t DEF Top
    <3>2. d \in {"undecided", "inline", "aot"}
      BY <1>d, <1>n
    <3>3. ns[t].kind = nodes[t].kind /\ ns[t].up = nodes[t].up
      BY <1>n
    <3>4. d = "undecided" => (d = Top.nature /\ \A i \in 1 .. Len(nodes) : ns[i].flag = nodes[i].flag)
      BY <1>d, <1>m
    <3>5. nodes[t].kind = "array" => (d = "aot" <=> ns[t].flag = "aot")
      BY <2>1, <3>1, <1>d, <1>n DEF FrameOK
    <3>6. nodes[t].kind = "table" => d = "undecided"
      BY <2>1, <3>1, <1>d DEF FrameOK
    <3>7. nodes[t].kind = "array" /\ d = "undecided" =>
            /\ ns[ns[t].up].flag = "explicit"
            /\ \A i \in 1 .. Len(ns) : ns[i].up # t
      BY <2>1, <2>u, <3>1, <3>3, <3>4, <1>n DEF FrameOK
    <3> QED BY <2>1, <2>2, <3>1, <3>2, <3>3, <3>5, <3>6, <3>7, <1>n DEF FrameOK
  <2>4. CASE s # Len(stack)
    <3>1. k[s] = stack[s] BY <2>4, <1>k, <1>l
    <3>2. stack[s].node # t
      <4>1. s < Len(stack) BY <2>4, <1>l
      <4>2. stack[s].node < stack[Len(stack)].node BY <4>1, <1>l DEF FramesOK
      <4> QED BY <4>2, <2>2, <1>t, <1>n
    <3>3. ns[stack[s].node].flag = nodes[stack[s].node].flag
      BY <3>2, <2>2, <1>n
    <3>4. nodes[stack[s].node].kind = "array" /\ stack[s].nature = "undecided" =>
            ns[nodes[stack[s].node].up].flag = "explicit"
      <4> SUFFICES ASSUME nodes[stack[s].node].kind = "array", stack[s].nature = "undecided"
                   PROVE  ns[nodes[stack[s].node].up].flag = "explicit"
        OBVIOUS
      <4>1. nodes[nodes[stack[s].node].up].flag = "explicit" BY <2>1 DEF FrameOK
      <4>2. d = "aot" /\ Top.nature = "undecided" /\ nodes[t].kind = "array"
              => nodes[t].flag # "explicit"
        BY <1>n DEF NodesOK, Shape
      <4> QED BY <4>1, <4>2, <2>u, <1>n, <1>m
    <3> QED BY <2>1, <2>2, <3>1, <3>3, <3>4, <1>n DEF FrameOK
  <2> QED BY <2>3, <2>4
<1>7. \A s \in 2 .. Len(k) :
        /\ ns[k[s].node].up = k[s - 1].node
        /\ \A i \in 1 .. Len(ns) : ns[i].up = k[s - 1].node => i <= k[s].node
  <2> SUFFICES ASSUME NEW s \in 2 .. Len(stack)
               PROVE  /\ ns[k[s].node].up = k[s - 1].node
                      /\ \A i \in 1 .. Len(ns) : ns[i].up = k[s - 1].node => i <= k[s].node
    BY <1>k
  <2>1. s \in 1 .. Len(stack) /\ s - 1 \in 1 .. Len(stack) BY <1>l
  <2>2. stack[s].node \in 1 .. Len(nodes) BY <2>1 DEF FramesOK, FrameOK
  <2>3. /\ nodes[stack[s].node].up = stack[s - 1].node
        /\ \A i \in 1 .. Len(nodes) : nodes[i].up = stack[s - 1].node => i <= stack[s].node
    BY DEF FramesOK
  <2>4. k[s].node = stack[s].node /\ k[s - 1].node = stack[s - 1].node
    BY <2>1, <1>k
  <2>5. Len(ns) = Len(nodes) /\ \A i \in 1 .. Len(nodes) : ns[i].up = nodes[i].up
    BY <1>n
  <2> QED BY <2>2, <2>3, <2>4, <2>5
<1>8. FramesOK(ns, k)
  BY <1>6, <1>7, <1>k, <1>l DEF FramesOK
<1> QED BY <1>5, <1>8 DEF ns, k

\* A node is appended under the current container, whose nature is decided.
LEMMA AppendInv ==
  ASSUME NEW ns, NEW stk, NEW n,
         NodesOK(ns), FramesOK(ns, stk), n \in NodeType, Shape(n),
         n.up = stk[Len(stk)].node, Placed(n, ns[n.up]),
         ns[n.up].kind = "array" => stk[Len(stk)].nature # "undecided",
         n.key = NoKey \/ \A i \in 1 .. Len(ns) : ns[i].up = n.up => ns[i].key # n.key
  PROVE  NodesOK(Append(ns, n)) /\ FramesOK(Append(ns, n), stk)
<1> DEFINE m == Append(ns, n)
<1>l. /\ Len(stk) \in 1 .. Len(stk) /\ Len(stk) \in Nat /\ Len(ns) \in Nat /\ Len(ns) >= 1
      /\ ns \in Seq(NodeType)
  BY DEF FramesOK, NodesOK
<1>m. /\ m \in Seq(NodeType) /\ Len(m) = Len(ns) + 1
      /\ \A i \in 1 .. Len(ns) : m[i] = ns[i]
      /\ m[Len(ns) + 1] = n
  BY <1>l, AppendFacts
<1>t. FrameOK(ns, stk[Len(stk)]) /\ n.up \in 1 .. Len(ns)
  BY <1>l DEF FramesOK, FrameOK
<1> HIDE DEF m
<1>1. \A i \in 1 .. Len(m) : Shape(m[i])
  BY SMTT(30), <1>m, <1>l DEF NodesOK
<1>2. \A i \in 2 .. Len(m) : m[i].up \in 1 .. i - 1 /\ Placed(m[i], m[m[i].up])
  <2> SUFFICES ASSUME NEW i \in 2 .. Len(m)
               PROVE  m[i].up \in 1 .. i - 1 /\ Placed(m[i], m[m[i].up])
    OBVIOUS
  <2>1. CASE i = Len(ns) + 1
    BY <2>1, <1>m, <1>t, <1>l
  <2>2. CASE i # Len(ns) + 1
    <3>1. i \in 2 .. Len(ns) /\ i \in 1 .. Len(ns) BY <2>2, <1>m, <1>l
    <3>2. ns[i].up \in 1 .. i - 1 /\ Placed(ns[i], ns[ns[i].up]) BY <3>1 DEF NodesOK
    <3>3. ns[i].up \in 1 .. Len(ns) BY <3>1, <3>2, <1>l
    <3> QED BY <3>1, <3>2, <3>3, <1>m
  <2> QED BY <2>1, <2>2
<1>3. UniqueKeys(m)
  <2> SUFFICES ASSUME NEW i \in 1 .. Len(m), NEW j \in 1 .. Len(m), m[i].up = m[j].up,
                      m[i].key = m[j].key, m[i].key # NoKey
               PROVE  i = j
    BY DEF UniqueKeys
  <2>1. CASE i \in 1 .. Len(ns) /\ j \in 1 .. Len(ns)
    BY <2>1, <1>m DEF NodesOK, UniqueKeys
  <2>2. CASE i = Len(ns) + 1 \/ j = Len(ns) + 1
    BY <2>2, <1>m, <1>l
  <2> QED BY <2>1, <2>2, <1>m, <1>l
<1>4. NodesOK(m)
  BY <1>1, <1>2, <1>3, <1>m, <1>l DEF NodesOK
<1>5. \A s \in 1 .. Len(stk) : FrameOK(m, stk[s])
  <2> SUFFICES ASSUME NEW s \in 1 .. Len(stk) PROVE FrameOK(m, stk[s])
    OBVIOUS
  <2>1. FrameOK(ns, stk[s]) BY DEF FramesOK
  <2>2. stk[s].node \in 1 .. Len(ns) /\ stk[s].node \in 1 .. Len(m)
    BY <2>1, <1>m, <1>l DEF FrameOK
  <2>3. m[stk[s].node] = ns[stk[s].node] BY <2>2, <1>m
  <2>4. ns[stk[s].node].kind = "array" /\ stk[s].nature = "undecided" =>
          /\ m[m[stk[s].node].up].flag = "explicit"
          /\ \A i \in 1 .. Len(m) : m[i].up # stk[s].node
    <3> SUFFICES ASSUME ns[stk[s].node].kind = "array", stk[s].nature = "undecided"
                 PROVE  /\ m[m[stk[s].node].up].flag = "explicit"
                        /\ \A i \in 1 .. Len(m) : m[i].up # stk[s].node
      OBVIOUS
    <3>1. ns[ns[stk[s].node].up].flag = "explicit" /\ \A i \in 1 .. Len(ns) : ns[i].up # stk[s].node
      BY <2>1 DEF FrameOK
    <3>2. stk[s].node # 1
      BY DEF NodesOK, Node
    <3>3. ns[stk[s].node].up \in 1 .. Len(ns)
      BY <3>2, <2>2, <1>l DEF NodesOK
    <3>4. n.up # stk[s].node
      <4>1. CASE s = Len(stk)
        BY <4>1
      <4>2. CASE s # Len(stk)
        <5>1. s < Len(stk) BY <4>2, <1>l
        <5>2. stk[s].node < stk[Len(stk)].node BY <5>1, <1>l DEF FramesOK
        <5> QED BY <5>2, <2>2, <1>t
      <4> QED BY <4>1, <4>2
    <3> QED BY SMTT(30), <3>1, <3>3, <3>4, <2>3, <1>m, <1>l
  <2> QED BY <2>1, <2>2, <2>3, <2>4 DEF FrameOK
<1>6. \A s \in 2 .. Len(stk) :
        /\ m[stk[s].node].up = stk[s - 1].node
        /\ \A i \in 1 .. Len(m) : m[i].up = stk[s - 1].node => i <= stk[s].node
  <2> SUFFICES ASSUME NEW s \in 2 .. Len(stk)
               PROVE  /\ m[stk[s].node].up = stk[s - 1].node
                      /\ \A i \in 1 .. Len(m) : m[i].up = stk[s - 1].node => i <= stk[s].node
    OBVIOUS
  <2>1. s \in 1 .. Len(stk) /\ s - 1 \in 1 .. Len(stk) /\ s - 1 < Len(stk) BY <1>l
  <2>2. stk[s].node \in 1 .. Len(ns) BY <2>1 DEF FramesOK, FrameOK
  <2>3. stk[s - 1].node < stk[Len(stk)].node BY <2>1, <1>l DEF FramesOK
  <2>4. stk[s - 1].node \in 1 .. Len(ns) /\ stk[Len(stk)].node \in 1 .. Len(ns)
    BY <2>1, <1>l DEF FramesOK, FrameOK
  <2>5. n.up # stk[s - 1].node BY <2>3, <2>4
  <2>6. /\ ns[stk[s].node].up = stk[s - 1].node
        /\ \A i \in 1 .. Len(ns) : ns[i].up = stk[s - 1].node => i <= stk[s].node
    BY DEF FramesOK
  <2> QED BY SMTT(30), <2>2, <2>5, <2>6, <1>m, <1>l
<1>7. FramesOK(m, stk)
  BY <1>5, <1>6, <1>l DEF FramesOK
<1> QED BY <1>4, <1>7 DEF m

\* The newest node, a child of the current container, becomes the current one.
LEMMA PushInv ==
  ASSUME NEW ns, NEW stk, NEW nature \in {"undecided", "inline", "aot"},
         NodesOK(ns), FramesOK(ns, stk),
         ns[Len(ns)].up = stk[Len(stk)].node, FrameOK(ns, Frame(Len(ns), nature)),
         \A s \in 1 .. Len(stk) : stk[s].node < Len(ns)
  PROVE  FramesOK(ns, Append(stk, Frame(Len(ns), nature)))
<1> DEFINE f == Frame(Len(ns), nature)
           k == Append(stk, f)
<1>l. /\ Len(stk) \in 1 .. Len(stk) /\ Len(stk) \in Nat /\ Len(ns) \in Nat /\ Len(ns) >= 1
      /\ stk \in Seq(FrameType)
  BY DEF FramesOK, NodesOK
<1>f. f \in FrameType /\ f.node = Len(ns) /\ f.nature = nature
  BY <1>l DEF FrameType, Frame
<1>k. /\ k \in Seq(FrameType) /\ Len(k) = Len(stk) + 1
      /\ \A s \in 1 .. Len(stk) : k[s] = stk[s]
      /\ k[Len(stk) + 1] = f
  BY <1>l, <1>f, AppendFacts
<1> HIDE DEF k, f
<1>1. \A s \in 1 .. Len(k) : FrameOK(ns, k[s])
  BY <1>k, <1>l DEF FramesOK, f
<1>2. \A s \in 2 .. Len(k) :
        /\ ns[k[s].node].up = k[s - 1].node
        /\ \A i \in 1 .. Len(ns) : ns[i].up = k[s - 1].node => i <= k[s].node
  <2> SUFFICES ASSUME NEW s \in 2 .. Len(stk) + 1
               PROVE  /\ ns[k[s].node].up = k[s - 1].node
                      /\ \A i \in 1 .. Len(ns) : ns[i].up = k[s - 1].node => i <= k[s].node
    BY <1>k
  <2>1. CASE s = Len(stk) + 1
    <3>1. s - 1 = Len(stk) /\ k[s - 1] = stk[Len(stk)] /\ k[s] = f BY <2>1, <1>k, <1>l
    <3> QED BY <3>1, <1>f, <1>l
  <2>2. CASE s # Len(stk) + 1
    <3>1. s \in 2 .. Len(stk) /\ s \in 1 .. Len(stk) /\ s - 1 \in 1 .. Len(stk)
      BY <2>2, <1>l
    <3>2. k[s] = stk[s] /\ k[s - 1] = stk[s - 1] BY <3>1, <1>k
    <3> QED BY <3>1, <3>2 DEF FramesOK
  <2> QED BY <2>1, <2>2
<1>3. \A s, t \in 1 .. Len(k) : s < t => k[s].node < k[t].node
  <2> SUFFICES ASSUME NEW s \in 1 .. Len(stk) + 1, NEW t \in 1 .. Len(stk) + 1, s < t
               PROVE  k[s].node < k[t].node
    BY <1>k
  <2>1. s \in 1 .. Len(stk) /\ k[s] = stk[s] BY <1>k, <1>l
  <2>2. CASE t = Len(stk) + 1
    BY <2>1, <2>2, <1>k, <1>f
  <2>3. CASE t # Len(stk) + 1
    <3>1. t \in 1 .. Len(stk) /\ k[t] = stk[t] BY <2>3, <1>k, <1>l
    <3> QED BY <2>1, <3>1 DEF FramesOK
  <2> QED BY <2>2, <2>3
<1>4. k[1].node = 1
  BY SMTT(30), <1>k, <1>l DEF FramesOK
<1> QED BY <1>1, <1>2, <1>3, <1>4, <1>k, <1>l DEF FramesOK, k, f

\* The current container is closed.
LEMMA PopInv ==
  ASSUME NEW ns, NEW stk, FramesOK(ns, stk), Len(stk) > 1
  PROVE  FramesOK(ns, SubSeq(stk, 1, Len(stk) - 1))
<1> DEFINE k == SubSeq(stk, 1, Len(stk) - 1)
<1>l. stk \in Seq(FrameType) /\ Len(stk) \in Nat
  BY DEF FramesOK
<1>k. k \in Seq(FrameType) /\ Len(k) = Len(stk) - 1 /\ \A i \in 1 .. Len(stk) - 1 : k[i] = stk[i]
  BY <1>l, FrontFacts
<1> HIDE DEF k
<1>1. Len(k) >= 1 /\ k[1].node = 1
  BY <1>k, <1>l DEF FramesOK
<1>2. \A s \in 1 .. Len(k) : s \in 1 .. Len(stk) /\ k[s] = stk[s]
  BY <1>k, <1>l
<1>3. \A s \in 1 .. Len(k) : FrameOK(ns, k[s])
  BY <1>2 DEF FramesOK
<1>4. \A s \in 2 .. Len(k) :
        /\ ns[k[s].node].up = k[s - 1].node
        /\ \A i \in 1 .. Len(ns) : ns[i].up = k[s - 1].node => i <= k[s].node
  <2> TAKE s \in 2 .. Len(k)
  <2>1. s \in 2 .. Len(stk) /\ k[s] = stk[s] /\ k[s - 1] = stk[s - 1]
    BY <1>k, <1>l
  <2> QED BY <2>1 DEF FramesOK
<1>5. \A s, t \in 1 .. Len(k) : s < t => k[s].node < k[t].node
  BY <1>2 DEF FramesOK
<1>6. FramesOK(ns, k)
  BY <1>k, <1>1, <1>3, <1>4, <1>5 DEF FramesOK
<1> QED BY <1>6 DEF k

-------------------------------------------------------------------------------
(***************************************************************************)
(* attach().                                                               *)
(***************************************************************************)
\* The flags the calls give a node that attach() does not refuse.
Attachable(kind, flag) ==
  \/ kind = "scalar" /\ flag = "none"
  \/ kind = "array" /\ flag = "plain"
  \/ kind = "table" /\ flag = TableFlag

\* After attach() the document and the stack are sound, and the new node may
\* be pushed.
LEMMA AttachInv ==
  ASSUME NodesOK(nodes), FramesOK(nodes, stack),
         NEW key \in Key \cup {NoKey}, NEW kind, NEW flag, Attachable(kind, flag),
         ~Refuses(key, kind = "table")
  PROVE  LET m == Attached(kind, flag, key)
             k == DecidedStack(kind = "table") IN
         /\ NodesOK(m) /\ FramesOK(m, k)
         /\ Len(m) = Len(nodes) + 1 /\ Len(k) = Len(stack)
         /\ m[Len(m)].up = k[Len(k)].node
         /\ m[Len(m)].kind = kind /\ m[Len(m)].flag = flag
         /\ \A s \in 1 .. Len(k) : k[s].node < Len(m)
         /\ AotFull(nodes) => AotFull(m)
<1> DEFINE b == kind = "table"
           ns == DecidedNodes(b)
           k == DecidedStack(b)
           t == Top.node
           kk == IF InArray THEN NoKey ELSE key
           n == Node(kind, flag, t, kk)
           m == Append(ns, n)
<1>a. Attached(kind, flag, key) = m
  BY DEF Attached
<1>b. b \in BOOLEAN
  OBVIOUS
<1>n. /\ ns \in Seq(NodeType) /\ Len(ns) = Len(nodes)
      /\ t \in 1 .. Len(nodes) /\ Top.nature \in {"undecided", "inline", "aot"}
      /\ \A i \in 1 .. Len(nodes) :
           /\ ns[i].up = nodes[i].up /\ ns[i].key = nodes[i].key
           /\ ns[i].kind = nodes[i].kind
           /\ ns[i].flag = IF i = t /\ Decided(b) = "aot" THEN "aot" ELSE nodes[i].flag
  BY <1>b, DecidedNodesFacts
<1>k. /\ k \in Seq(FrameType) /\ Len(k) = Len(stack)
      /\ \A s \in 1 .. Len(stack) : k[s].node = stack[s].node
      /\ \A s \in 1 .. Len(stack) - 1 : k[s] = stack[s]
      /\ k[Len(stack)].nature = Decided(b)
  BY <1>b, DecidedStackFacts
<1>i. NodesOK(ns) /\ FramesOK(ns, k)
  BY <1>b, DecideInv
<1>l. /\ Len(stack) \in 1 .. Len(stack) /\ Len(stack) \in Nat /\ Len(nodes) \in Nat
      /\ Len(nodes) >= 1
  BY DEF FramesOK, NodesOK
<1>t. FrameOK(nodes, Top) /\ t = stack[Len(stack)].node /\ nodes[t].kind # "scalar"
  BY <1>l DEF FramesOK, Top, FrameOK
<1>s. Shape(nodes[t])
  BY <1>n DEF NodesOK
<1>1. flag \in {"none", "plain", "explicit", "inline"} /\ kind \in {"scalar", "array", "table"}
  BY DEF Attachable, TableFlag
<1>2. n \in NodeType /\ n.up = t /\ n.kind = kind /\ n.flag = flag /\ n.key = kk
  BY <1>1, <1>n, <1>l DEF NodeType, Node
<1>3. Shape(n)
  <2>1. TableFlag \in {"explicit", "inline"} BY DEF TableFlag
  <2> QED BY <2>1, <1>2 DEF Attachable, Shape
<1>4. ns[t].kind = "array" => Decided(b) # "undecided"
  BY <1>n DEF Decided, InArray
<1>5. Placed(n, ns[t])
  <2>1. CASE InArray
    <3>1. nodes[t].kind = "array" /\ (Top.nature = "aot" <=> nodes[t].flag = "aot")
      BY <2>1, <1>t DEF InArray, FrameOK
    <3>2. Decided(b) = IF Top.nature # "undecided" THEN Top.nature ELSE IF b THEN "aot" ELSE "inline"
      BY <2>1 DEF Decided
    <3>3. b => flag = (IF Top.nature = "inline" THEN "inline" ELSE "explicit")
      BY <2>1 DEF Attachable, TableFlag
    <3>4. ~b => flag \in {"none", "plain"} /\ Top.nature # "aot"
      BY <2>1 DEF Attachable, Refuses
    <3>5. ns[t].flag = IF Decided(b) = "aot" THEN "aot" ELSE nodes[t].flag
      BY <1>n
    <3>6. nodes[t].flag \in {"plain", "aot"}
      BY <3>1, <1>s DEF Shape
    <3>7. CASE b
      <4>1. CASE Top.nature = "inline"
        BY <4>1, <3>7, <3>1, <3>2, <3>3, <3>5, <3>6, <1>2 DEF Placed
      <4>2. CASE Top.nature # "inline"
        BY <4>2, <3>7, <3>2, <3>3, <3>5, <1>2, <1>n DEF Placed
      <4> QED BY <4>1, <4>2
    <3>8. CASE ~b
      BY <3>8, <3>1, <3>2, <3>4, <3>5, <3>6, <1>2, <1>n DEF Placed
    <3> QED BY <3>7, <3>8
  <2>2. CASE ~InArray
    <3>1. nodes[t].kind = "table" /\ nodes[t].flag \in {"explicit", "inline"}
      BY <2>2, <1>t, <1>s DEF InArray, Shape
    <3>2. Decided(b) = "undecided"
      BY <2>2, <3>1, <1>t DEF Decided, FrameOK
    <3>3. ns[t].flag = nodes[t].flag
      BY <3>2, <1>n
    <3>4. flag = "explicit" => nodes[t].flag = "explicit"
      BY <2>2, <3>1 DEF Attachable, TableFlag
    <3> QED BY <3>1, <3>3, <3>4, <1>1, <1>2 DEF Placed
  <2> QED BY <2>1, <2>2
<1>6. n.key = NoKey \/ \A i \in 1 .. Len(ns) : ns[i].up = n.up => ns[i].key # n.key
  <2>1. CASE InArray
    BY <2>1, <1>2
  <2>2. CASE ~InArray
    <3>1. \A i \in Children(t) : nodes[i].key # key
      BY <2>2 DEF Refuses
    <3>2. \A i \in 1 .. Len(nodes) : nodes[i].up = t => i \in Children(t)
      BY DEF Children, NodesOK
    <3> QED BY <2>2, <3>1, <3>2, <1>2, <1>n
  <2> QED BY <2>1, <2>2
<1> HIDE DEF ns, k, n, t, b, kk
<1>7. /\ n.up = k[Len(k)].node /\ Placed(n, ns[n.up])
      /\ ns[n.up].kind = "array" => k[Len(k)].nature # "undecided"
  BY <1>2, <1>4, <1>5, <1>k, <1>l, <1>t
<1>8. NodesOK(m) /\ FramesOK(m, k)
  BY <1>i, <1>2, <1>3, <1>6, <1>7, AppendInv
<1>m. /\ m \in Seq(NodeType) /\ Len(m) = Len(ns) + 1
      /\ \A i \in 1 .. Len(ns) : m[i] = ns[i]
      /\ m[Len(ns) + 1] = n
  BY <1>n, <1>2, AppendFacts
<1> HIDE DEF m
<1>9. \A s \in 1 .. Len(k) : k[s].node < Len(m)
  <2> SUFFICES ASSUME NEW s \in 1 .. Len(stack) PROVE k[s].node < Len(m)
    BY <1>k
  <2>1. stack[s].node \in 1 .. Len(nodes) BY DEF FramesOK, FrameOK
  <2> QED BY <2>1, <1>k, <1>m, <1>n, <1>l
<1>10. ASSUME AotFull(nodes) PROVE AotFull(m)
  <2> SUFFICES ASSUME NEW i \in 1 .. Len(m), m[i].flag = "aot"
               PROVE  \E j \in 1 .. Len(m) : m[j].up = i
    BY DEF AotFull
  <2>1. i \in 1 .. Len(nodes)
    <3>1. i # Len(ns) + 1 BY <1>1, <1>2, <1>m
    <3> QED BY <3>1, <1>m, <1>n, <1>l
  <2>2. CASE nodes[i].flag = "aot"
    <3>1. PICK j \in 1 .. Len(nodes) : nodes[j].up = i
      BY <2>1, <2>2, <1>10 DEF AotFull
    <3>2. j \in 1 .. Len(m) /\ m[j].up = i
      BY <3>1, <1>m, <1>n, <1>l
    <3> QED BY <3>2
  <2>3. CASE nodes[i].flag # "aot"
    <3>1. i = t BY <2>1, <2>3, <1>m, <1>n
    <3>2. Len(ns) + 1 \in 1 .. Len(m) /\ m[Len(ns) + 1].up = i
      BY <3>1, <1>2, <1>m, <1>n, <1>l
    <3> QED BY <3>2
  <2> QED BY <2>2, <2>3
<1>11. Len(m) = Len(nodes) + 1 /\ m[Len(m)] = n
  BY <1>m, <1>n, <1>l
<1> QED BY <1>a, <1>2, <1>7, <1>8, <1>9, <1>10, <1>11, <1>k DEF k, m, b

-------------------------------------------------------------------------------
(***************************************************************************)
(* The calls.                                                              *)
(***************************************************************************)
\* teptris_builder_new establishes the invariant.
LEMMA InitInv ==
  ASSUME Init
  PROVE  IInv
<1>1. /\ nodes = <<Node("table", "explicit", 0, NoKey)>> /\ Len(nodes) = 1
      /\ nodes[1] = Node("table", "explicit", 0, NoKey)
      /\ Node("table", "explicit", 0, NoKey) \in NodeType
  BY DEF Init, Node, NodeType
<1>2. NodesOK(nodes)
  BY <1>1 DEF NodesOK, Shape, UniqueKeys, Node
<1>3. /\ stack = <<Frame(1, "undecided")>> /\ Len(stack) = 1 /\ stack[1].node = 1
      /\ stack[1].nature = "undecided" /\ stack \in Seq(FrameType)
  BY DEF Init, Frame, FrameType, Root
<1>4. FrameOK(nodes, stack[1])
  BY <1>1, <1>3 DEF FrameOK, Node
<1>5. FramesOK(nodes, stack)
  BY <1>1, <1>3, <1>4 DEF FramesOK
<1>6. AotFull(nodes)
  BY <1>1 DEF AotFull, Node
<1>7. Len(stack) <= MaxDepth
  BY <1>3, BuilderAssumption
<1>8. owner = "builder" /\ st = "OK" /\ oom = FALSE
  BY DEF Init
<1> QED BY <1>2, <1>5, <1>6, <1>7, <1>8 DEF IInv

\* The put_* calls keep it, refused or not.
LEMMA PutScalarInv ==
  ASSUME IInv, NEW key \in Key \cup {NoKey}, PutScalar(key)
  PROVE  IInv'
<1>1. /\ NodesOK(Attached("scalar", "none", key))
      /\ FramesOK(Attached("scalar", "none", key), DecidedStack(FALSE))
      /\ Len(DecidedStack(FALSE)) = Len(stack)
      /\ AotFull(nodes) => AotFull(Attached("scalar", "none", key))
  <2>1. Attachable("scalar", "none") BY DEF Attachable
  <2>2. ("scalar" = "table") = FALSE OBVIOUS
  <2>3. ~Refuses(key, "scalar" = "table") BY <2>2 DEF PutScalar
  <2> QED BY <2>1, <2>2, <2>3, AttachInv DEF IInv
<1>2. nodes' = Attached("scalar", "none", key) /\ stack' = DecidedStack(FALSE)
  BY DEF PutScalar
<1> QED BY <1>1, <1>2 DEF IInv, PutScalar, Return

\* push_container, for the natures the calls give a new frame.
LEMMA PushContainerInv ==
  ASSUME IInv, NEW key \in Key \cup {NoKey}, NEW kind, NEW flag, NEW nature,
         Attachable(kind, flag), PushContainer(kind, flag, key, nature),
         \/ kind = "table" /\ nature = "undecided"
         \/ kind = "array" /\ nature = "inline"
         \/ kind = "array" /\ nature = "undecided" /\ ~InArray /\ nodes[Top.node].flag # "inline"
  PROVE  IInv'
<1> DEFINE m == Attached(kind, flag, key)
           k == DecidedStack(kind = "table")
<1>1. /\ NodesOK(m) /\ FramesOK(m, k)
      /\ Len(m) = Len(nodes) + 1 /\ Len(k) = Len(stack)
      /\ m[Len(m)].up = k[Len(k)].node
      /\ m[Len(m)].kind = kind /\ m[Len(m)].flag = flag
      /\ \A s \in 1 .. Len(k) : k[s].node < Len(m)
      /\ AotFull(nodes) => AotFull(m)
  BY AttachInv DEF IInv, PushContainer
<1>2. /\ nodes' = m /\ owner' = owner /\ Len(nodes) \in Nat /\ Len(stack) \in Nat
      /\ st' \in {"OK", "DEPTH"} /\ oom' = oom
      /\ \/ stack' = k
         \/ Len(stack) < MaxDepth /\ stack' = Append(k, Frame(Len(m), nature))
  BY <1>1, BuilderAssumption DEF PushContainer, Return, IInv, NodesOK, FramesOK
<1> HIDE DEF m, k
<1>3. CASE stack' = k
  BY <1>1, <1>2, <1>3 DEF IInv
<1>4. CASE Len(stack) < MaxDepth /\ stack' = Append(k, Frame(Len(m), nature))
  <2>1. /\ Len(m) \in 2 .. Len(m) /\ Len(k) \in 1 .. Len(k)
        /\ Frame(Len(m), nature).node = Len(m) /\ Frame(Len(m), nature).nature = nature
    BY <1>1, <1>2 DEF Frame, IInv, NodesOK, FramesOK
  <2>2. \A i \in 1 .. Len(m) : m[i].up # Len(m)
    <3> SUFFICES ASSUME NEW i \in 1 .. Len(m) PROVE m[i].up < Len(m) /\ m[i].up \in Nat
      BY <2>1
    <3>1. CASE i = 1 BY <3>1, <1>1, <2>1 DEF NodesOK, Node
    <3>2. CASE i # 1 BY <3>2, <1>1, <2>1 DEF NodesOK
    <3> QED BY <3>1, <3>2
  <2>3. kind = "array" /\ nature = "undecided" => m[m[Len(m)].up].flag = "explicit"
    <3> SUFFICES ASSUME kind = "array", nature = "undecided"
                 PROVE  m[m[Len(m)].up].flag = "explicit"
      OBVIOUS
    <3>1. nodes[Top.node].flag = "explicit" /\ nodes[Top.node].kind = "table"
      <4>1. FrameOK(nodes, Top)
        BY <1>1, <2>1 DEF IInv, FramesOK, Top
      <4>2. nodes[Top.node].kind # "scalar" /\ Shape(nodes[Top.node])
        BY <4>1 DEF FrameOK, IInv, NodesOK
      <4>3. ~InArray /\ nodes[Top.node].flag # "inline"
        OBVIOUS
      <4> QED BY <4>2, <4>3 DEF Shape, InArray
    <3>2. m[Top.node].flag = "explicit" /\ Top.node = k[Len(k)].node
      <4>1. (kind = "table") = FALSE OBVIOUS
      <4>2. /\ \A i \in 1 .. Len(nodes) :
                 DecidedNodes(FALSE)[i].flag = IF i = Top.node /\ Decided(FALSE) = "aot" THEN "aot"
                                               ELSE nodes[i].flag
            /\ DecidedNodes(FALSE) \in Seq(NodeType) /\ Len(DecidedNodes(FALSE)) = Len(nodes)
            /\ Top.node \in 1 .. Len(nodes)
        BY DecidedNodesFacts DEF IInv
      <4>3. Decided(FALSE) # "aot"
        BY <3>1, <1>2, <2>1, <1>1 DEF Decided, InArray, IInv, FramesOK, FrameOK, Top
      <4>4. DecidedNodes(FALSE)[Top.node].flag = "explicit"
        BY <4>2, <4>3, <3>1
      <4>5. m[Top.node].flag = "explicit"
        <5> DEFINE ns == DecidedNodes(FALSE)
                   n == Node("array", flag, Top.node, IF InArray THEN NoKey ELSE key)
        <5>1. m = Append(ns, n)
          BY <4>1 DEF m, Attached
        <5>2. n \in NodeType
          BY <4>2 DEF Node, NodeType, Attachable
        <5>3. ns \in Seq(NodeType) /\ Top.node \in 1 .. Len(ns)
          BY <4>2
        <5> HIDE DEF ns, n
        <5>4. \A i \in 1 .. Len(ns) : Append(ns, n)[i] = ns[i]
          BY <5>2, <5>3, AppendFacts
        <5>5. m[Top.node] = ns[Top.node]
          BY <5>1, <5>3, <5>4
        <5> QED BY <5>5, <4>4 DEF ns
      <4>8. \A s \in 1 .. Len(stack) : DecidedStack(FALSE)[s].node = stack[s].node
        BY DecidedStackFacts DEF IInv
      <4>9. k[Len(k)].node = Top.node
        BY <4>1, <4>8, <1>1, <2>1 DEF k, Top
      <4> QED BY <4>5, <4>9
    <3> QED BY <3>2, <1>1
  <2>4. FrameOK(m, Frame(Len(m), nature))
    BY <1>1, <2>1, <2>2, <2>3 DEF FrameOK, Attachable
  <2>5. FramesOK(m, Append(k, Frame(Len(m), nature)))
    BY <1>1, <2>4, PushInv
  <2>6. Len(Append(k, Frame(Len(m), nature))) = Len(stack) + 1
    BY <1>1 DEF FramesOK
  <2> QED BY <1>1, <1>2, <1>4, <2>5, <2>6, BuilderAssumption DEF IInv
<1> QED BY <1>2, <1>3, <1>4

\* open_table, open_array and open_inline_array keep it, through the
\* refusals of attach() and the depth test that comes after it.
LEMMA OpenInv ==
  ASSUME IInv, NEW key \in Key \cup {NoKey},
         OpenTable(key) \/ OpenArray(key) \/ OpenInlineArray(key)
  PROVE  IInv'
<1>1. CASE OpenTable(key)
  <2>1. Attachable("table", TableFlag) BY DEF Attachable
  <2> QED BY <1>1, <2>1, PushContainerInv DEF OpenTable
<1>2. CASE OpenArray(key)
  <2> DEFINE nature == IF InlineTerritory THEN "inline" ELSE "undecided"
  <2>1. Attachable("array", "plain") BY DEF Attachable
  <2>2. PushContainer("array", "plain", key, nature) BY <1>2 DEF OpenArray
  <2>3. InArray => InlineTerritory
    <3> SUFFICES ASSUME InArray PROVE Decided(FALSE) = "inline" BY DEF InlineTerritory
    <3>1. ("array" = "table") = FALSE OBVIOUS
    <3>2. Top.nature # "aot" BY <2>2, <3>1 DEF PushContainer, Refuses
    <3>3. Top.nature \in {"undecided", "inline", "aot"}
      BY DecidedNodesFacts DEF IInv
    <3> QED BY <3>2, <3>3 DEF Decided
  <2>4. \/ nature = "inline"
        \/ nature = "undecided" /\ ~InArray /\ nodes[Top.node].flag # "inline"
    BY <2>3 DEF InlineTerritory
  <2> HIDE DEF nature
  <2> QED BY <2>1, <2>2, <2>4, PushContainerInv
<1>3. CASE OpenInlineArray(key)
  <2>1. Attachable("array", "plain") BY DEF Attachable
  <2> QED BY <1>3, <2>1, PushContainerInv DEF OpenInlineArray
<1> QED BY <1>1, <1>2, <1>3

\* A call whose allocation fails keeps it; the array it marked stays marked.
LEMMA AllocFailsInv ==
  ASSUME IInv, NEW key \in Key \cup {NoKey}, NEW isTable \in BOOLEAN, AllocFails(key, isTable)
  PROVE  IInv'
<1>1. oom' = TRUE /\ st' = "ALLOC" /\ owner' = owner
  BY DEF AllocFails, Return
<1>2. NodesOK(nodes') /\ FramesOK(nodes', stack') /\ Len(stack') = Len(stack)
  <2>1. CASE nodes' = nodes /\ stack' = stack
    BY <2>1 DEF IInv
  <2>2. CASE nodes' = DecidedNodes(isTable) /\ stack' = DecidedStack(isTable)
    BY <2>2, DecideInv, DecidedStackFacts DEF IInv
  <2> QED BY <2>1, <2>2 DEF AllocFails
<1> QED BY <1>1, <1>2 DEF IInv

\* close keeps it: the path loses its last frame.
LEMMA CloseInv ==
  ASSUME IInv, Close
  PROVE  IInv'
<1>1. /\ nodes' = nodes /\ owner' = owner /\ st' = "OK" /\ oom' = oom /\ Len(stack) > 1
      /\ stack' = SubSeq(stack, 1, Len(stack) - 1)
  BY DEF Close, Return, IInv
<1>2. FramesOK(nodes, stack')
  BY <1>1, PopInv DEF IInv
<1>3. Len(stack') = Len(stack) - 1
  BY <1>1 DEF IInv, FramesOK
<1>4. Len(stack') <= MaxDepth
  BY <1>1, <1>3, BuilderAssumption DEF IInv, FramesOK
<1> QED BY <1>1, <1>2, <1>4 DEF IInv

\* The calls that touch neither the document nor the stack.
LEMMA QuietInv ==
  ASSUME IInv, Refused \/ WrongState \/ Finish \/ Free \/ UNCHANGED vars
  PROVE  IInv'
<1>1. /\ nodes' = nodes /\ stack' = stack /\ oom' = oom
      /\ owner' \in {"builder", "caller", "none"}
      /\ st' \in {"OK", "ARG", "DEPTH", "ALLOC", "STATE"}
  BY DEF IInv, Refused, WrongState, Finish, Free, Return, vars
<1> QED BY <1>1 DEF IInv

\* Every call keeps it.
LEMMA NextInv ==
  ASSUME IInv, [Next]_vars
  PROVE  IInv'
<1>1. CASE Call
  <2>1. PICK key \in Key \cup {NoKey} :
          \/ PutScalar(key) \/ OpenTable(key) \/ OpenArray(key) \/ OpenInlineArray(key)
          \/ \E isTable \in BOOLEAN : AllocFails(key, isTable)
    BY <1>1 DEF Call
  <2> QED BY <2>1, PutScalarInv, OpenInv, AllocFailsInv
<1>2. CASE Close BY <1>2, CloseInv
<1>3. CASE Refused \/ WrongState \/ Finish \/ Free \/ UNCHANGED vars
  BY <1>3, QuietInv
<1> QED BY <1>1, <1>2, <1>3 DEF Next

\* The invariant that carries every result below.
THEOREM BuilderInvariant == Spec => []IInv
<1>1. Init => IInv BY InitInv
<1>2. IInv /\ [Next]_vars => IInv' BY NextInv
<1> QED BY <1>1, <1>2, PTL DEF Spec

-------------------------------------------------------------------------------
(***************************************************************************)
(* What it implies.                                                        *)
(***************************************************************************)
\* The invariant is as strong as the properties the runs check.
LEMMA InvImplies ==
  ASSUME IInv
  PROVE  TypeOK /\ SectionsOutside /\ AotHoldsTables /\ OpenPath /\ NoKeyTwice /\ AotNotEmpty
<1>l. /\ Len(nodes) \in Nat /\ Len(nodes) >= 1 /\ DOMAIN nodes = 1 .. Len(nodes)
      /\ nodes \in Seq(NodeType)
      /\ Len(stack) \in Nat /\ Len(stack) >= 1 /\ DOMAIN stack = 1 .. Len(stack)
      /\ stack \in Seq(FrameType)
  BY DEF IInv, NodesOK, FramesOK
<1>1. TypeOK
  <2>1. \A i \in DOMAIN nodes : nodes[i].up \in 0 .. i - 1
    BY <1>l DEF IInv, NodesOK, Node
  <2>2. stack \in Seq([node : DOMAIN nodes, nature : {"undecided", "inline", "aot"}])
    <3> DEFINE T == [node : DOMAIN nodes, nature : {"undecided", "inline", "aot"}]
    <3>1. \A s \in 1 .. Len(stack) : stack[s] \in T
      <4> SUFFICES ASSUME NEW s \in 1 .. Len(stack) PROVE stack[s] \in T
        OBVIOUS
      <4>1. stack[s] \in FrameType BY <1>l
      <4>2. FrameOK(nodes, stack[s]) BY DEF IInv, FramesOK
      <4>3. stack[s].node \in DOMAIN nodes BY <4>2, <1>l DEF FrameOK
      <4> QED BY <4>1, <4>3 DEF FrameType
    <3> HIDE DEF T
    <3>2. stack \in Seq(T) BY <3>1, <1>l
    <3> QED BY <3>2 DEF T
  <2>3. nodes # << >> BY <1>l
  <2> QED BY <2>1, <2>2, <2>3, <1>l, BuilderAssumption DEF TypeOK, IInv
<1>u. \A i \in DOMAIN nodes \ {Root} :
        /\ nodes[i].up \in 1 .. i - 1 /\ Placed(nodes[i], nodes[nodes[i].up])
        /\ Shape(nodes[i])
  BY <1>l DEF IInv, NodesOK, Root
<1>2. SectionsOutside
  BY <1>u DEF SectionsOutside, IsSection, Placed, Shape
<1>3. AotHoldsTables
  BY <1>u DEF AotHoldsTables, Placed
<1>4. OpenPath
  <2>1. stack[1].node = Root BY DEF IInv, FramesOK, Root
  <2>2. ASSUME NEW s \in 2 .. Len(stack)
        PROVE  /\ nodes[stack[s].node].up = stack[s - 1].node
               /\ nodes[stack[s].node].kind # "scalar"
               /\ \A i \in Children(stack[s - 1].node) : i <= stack[s].node
    <3>1. FrameOK(nodes, stack[s]) BY <1>l DEF IInv, FramesOK
    <3>2. /\ nodes[stack[s].node].up = stack[s - 1].node
          /\ \A i \in 1 .. Len(nodes) : nodes[i].up = stack[s - 1].node => i <= stack[s].node
      BY DEF IInv, FramesOK
    <3> QED BY <3>1, <3>2, <1>l DEF FrameOK, Children
  <2> QED BY <2>1, <2>2 DEF OpenPath
<1>5. NoKeyTwice
  BY <1>l DEF NoKeyTwice, IInv, NodesOK, UniqueKeys
<1>6. AotNotEmpty
  BY <1>l DEF AotNotEmpty, IInv, AotFull, Children
<1> QED BY <1>1, <1>2, <1>3, <1>4, <1>5, <1>6

\* The builder's state is well formed after any sequence of calls: the stack
\* never outgrows BUILDER_MAX_DEPTH entries and holds nodes of the document.
THEOREM TypeCorrect == Spec => []TypeOK
BY BuilderInvariant, InvImplies, PTL

\* Sections lie in sections only, whatever mix of open_table, open_array and
\* open_inline_array was called and whichever calls failed.
THEOREM InlineStaysInline == Spec => []SectionsOutside
BY BuilderInvariant, InvImplies, PTL

\* attach() never puts anything but a section table into an array of tables.
THEOREM AotCorrect == Spec => []AotHoldsTables
BY BuilderInvariant, InvImplies, PTL

\* The stack is the path of youngest children of the root, also after failed
\* calls.
THEOREM StackIsPath == Spec => []OpenPath
BY BuilderInvariant, InvImplies, PTL

\* No sequence of calls puts a key into a table twice.
THEOREM KeysUnique == Spec => []NoKeyTwice
BY BuilderInvariant, InvImplies, PTL

\* An array of tables without an element exists only after ERR_ALLOC.
THEOREM AotKept == Spec => []AotNotEmpty
BY BuilderInvariant, InvImplies, PTL

\* Whatever calls were made and whichever of them were refused or failed, the
\* document is one the emitter and the accessors may walk without a test.
THEOREM DocumentIsSound == Spec => []DocumentSound
BY TypeCorrect, InlineStaysInline, AotCorrect, KeysUnique, AotKept, PTL DEF DocumentSound
==============================================================================
