-------------------------- MODULE SchemaCompileProofs --------------------------
(***************************************************************************)
(* Proofs about SchemaCompile, for documents of any size.                  *)
(*                                                                         *)
(* An object is "busy" from its call until its activation ends, failed     *)
(* ones for good, and a call of an object that is busy returns at once:    *)
(* so two activations of the stack never compile the same object.  The     *)
(* accumulator is a stack as well: a walk's base lies above the bases of   *)
(* the walks below it, so that what attach_self_scope cuts is its own.     *)
(*                                                                         *)
(* Without $dynamicRefs the walks under way cut the accumulator into       *)
(* segments.  A segment holds the anchors of its walk's object up to the   *)
(* one the walk has come to, in order; a call made by a walk adds to the   *)
(* segment above and cuts that off again before the walk notes its own.    *)
(*                                                                         *)
(* A finished object has had everything called that it depends on, so the  *)
(* called objects of a compilation that succeeded are closed under Edge.   *)
(* While no walk is on the stack what is being compiled applies, so what   *)
(* fails there is a fault of the document.                                 *)
(***************************************************************************)
EXTENDS SchemaCompile, NatRecursion

DocOK(d) ==
  /\ d.up \in [Object -> 0 .. Size - 1] /\ d.pos \in [Object -> {"sub", "data"}]
  /\ d.id \in [Object -> BOOLEAN] /\ d.use \in [Object -> Use] /\ IsDocument(d)

FrameType ==
  [fn : {"compile", "attach", "local"}, v : Object, m : Nat, last : 0 .. Size,
   saved : 0 .. Size, base : Nat]

\* What a frame needs of the rest: compile frames remember a resource and have
\* noted nothing, walks stay in the document.
FrameOK(f) ==
  /\ f.fn = "compile" => f.saved \in Object /\ f.base = 0 /\ f.m >= 1
  /\ f.fn # "compile" => f.m >= 1 /\ f.last \in Object

\* The object of a frame is busy, and of no other frame but for local walks,
\* which stand on the frame that began them.
StackOK(stk, mem, n) ==
  /\ stk \in Seq(FrameType)
  /\ \A a \in 1 .. Len(stk) : /\ FrameOK(stk[a]) /\ stk[a].base <= n
                              /\ stk[a].fn # "local" => mem[stk[a].v] = "busy"
  /\ \A a, b \in 1 .. Len(stk) :
       stk[a].v = stk[b].v /\ stk[a].fn # "local" /\ stk[b].fn # "local" => a = b
  /\ \A a, b \in 1 .. Len(stk) : a <= b /\ stk[b].fn # "compile" => stk[a].base <= stk[b].base

IInv ==
  /\ DocOK(doc)
  /\ memo \in [Object -> {"none", "busy", "done"}] /\ anchored \subseteq Object
  /\ scope \in [Object -> Seq(Object)] /\ cur \in Object
  /\ ret \in Object \cup {0, Idle} /\ acc \in Seq(Object)
  /\ StackOK(stack, memo, Len(acc))

-------------------------------------------------------------------------------
(***************************************************************************)
(* The document.                                                           *)
(***************************************************************************)
\* Line is the line of a forest.
LEMMA LineIsAscent ==
  ASSUME NEW up, NEW i
  PROVE  Line(up, i) = Ascent(up, i)[Size]
BY DEF Line, Ascent, Ascends

\* The members are listed in document order.
LEMMA InOrderLists ==
  ASSUME NEW S
  PROVE  Lists(InOrder(S), S, Size)
<1>1. Size \in Nat
  BY CompileAssumption
<1>2. InOrder(S) = Ordered(S, Size)
  BY DEF InOrder, Ordered, Orders
<1> QED
  BY <1>1, <1>2, OrderedLists

\* In document order an object comes after the one above it.
LEMMA DocForest ==
  ASSUME NEW d, DocOK(d)
  PROVE  IsForest(Size, d.up) /\ \A i \in Object \ {Root} : d.up[i] # 0
<1>1. PICK up : up = d.up
  OBVIOUS
<1>2. /\ Size \in Nat /\ Size >= 1 /\ up \in [1 .. Size -> 0 .. Size] /\ up[Root] = 0
      /\ \A i \in Object \ {Root} : up[i] \in Line(up, i - 1)
  <2>1. up \in [1 .. Size -> 0 .. Size - 1]
    BY <1>1 DEF DocOK, Object
  <2>2. Size \in Nat /\ Size >= 1
    BY CompileAssumption
  <2>3. up \in [1 .. Size -> 0 .. Size]
    BY <2>1, <2>2
  <2> QED
    BY <1>1, <2>2, <2>3 DEF DocOK, IsDocument
<1> DEFINE P == {i \in 1 .. Size : up[i] < i /\ (i # Root => up[i] # 0)}
<1>3. ASSUME NEW i \in 1 .. Size, \A j \in 1 .. Size : j < i => j \in P PROVE i \in P
  <2>1. CASE i = Root
    BY <1>2, <2>1 DEF Root
  <2>2. CASE i # Root
    <3>1. PICK k \in 1 .. Size : k = i - 1 /\ i = k + 1
      <4>1. i - 1 \in 1 .. Size /\ i = (i - 1) + 1
        BY <1>2, <2>2 DEF Root
      <4> QED
        BY <4>1
    <3>2. \A j \in 1 .. k : up[j] < j
      <4>1. \A j \in 1 .. k : j \in 1 .. Size /\ j < i
        BY <1>2, <3>1
      <4> QED
        BY <1>3, <4>1
    <3>3. Ascent(up, k)[Size] \subseteq 1 .. k
      <4> HIDE DEF P
      <4> QED
        BY <1>2, <3>2, AscentBelow
    <3>4. up[i] \in 1 .. k
      <4>1. up[i] \in Line(up, k)
        BY <1>2, <2>2, <3>1 DEF Object
      <4> QED
        BY <3>3, <4>1, LineIsAscent
    <3> QED
      BY <3>1, <3>4
  <2> QED
    BY <2>1, <2>2
<1>4. P \in SUBSET (1 .. Size)
  OBVIOUS
<1> HIDE DEF P
<1>5. P = 1 .. Size
  BY <1>2, <1>3, <1>4, ForestInduction
<1>6. \A i \in 1 .. Size : up[i] < i /\ (i # Root => up[i] # 0)
  BY <1>5 DEF P
<1> QED
  BY <1>1, <1>2, <1>6 DEF IsForest, Object

\* Every object's line begins at the root and ends at the object.
LEMMA LineOf ==
  ASSUME NEW d, DocOK(d), NEW i \in Object
  PROVE  Line(d.up, i) \subseteq 1 .. i /\ Line(d.up, i) \subseteq Object
         /\ i \in Line(d.up, i) /\ Root \in Line(d.up, i)
<1>1. PICK up : up = d.up
  OBVIOUS
<1>2. IsForest(Size, up) /\ \A j \in Object \ {Root} : up[j] # 0
  BY <1>1, DocForest
<1>3. PICK L : L = [j \in 1 .. Size |-> Ascent(up, j)[Size]]
  OBVIOUS
<1>4. i \in 1 .. Size /\ Size \in Nat
  BY CompileAssumption DEF Object
<1>5. Line(up, i) = L[i]
  BY <1>3, <1>4, LineIsAscent
<1>6. L[i] \subseteq 1 .. i /\ i \in L[i] /\ \E r \in L[i] : up[r] = 0
  BY <1>2, <1>3, <1>4, LineFacts
<1>7. 1 .. i \subseteq Object
  BY <1>4 DEF Object
<1> QED
  BY <1>1, <1>2, <1>5, <1>6, <1>7

\* Every object belongs to a resource.
LEMMA ResRootIs ==
  ASSUME NEW d, DocOK(d), NEW i \in Object
  PROVE  ResRoot(d, i) \in Object
<1>1. PICK S : S = {r \in Line(d.up, i) : d.id[r]}
  OBVIOUS
<1>2. d.id[Root]
  BY DEF DocOK, IsDocument
<1>3. S \in SUBSET (1 .. Size) /\ S # {} /\ Size \in Nat
  BY <1>1, <1>2, LineOf, CompileAssumption DEF Object
<1>4. \E r \in S : \A s \in S : s <= r
  BY <1>3, GreatestNat
<1>5. ResRoot(d, i) = CHOOSE r \in S : \A s \in S : s <= r
  BY <1>1 DEF ResRoot
<1>6. ResRoot(d, i) \in S
  BY <1>4, <1>5
<1> QED
  BY <1>3, <1>6 DEF Object

\* A walk over an object's subtree has a last step.
LEMMA FinalIs ==
  ASSUME DocOK(doc), NEW i \in Object
  PROVE  Subtree(i) \subseteq Object /\ Final(i) \in Object
<1>1. PICK S : S = Subtree(i)
  OBVIOUS
<1>2. S \in SUBSET (1 .. Size) /\ S # {} /\ Size \in Nat
  <2>1. i \in Line(doc.up, i)
    BY LineOf
  <2> QED
    BY <1>1, <2>1, CompileAssumption DEF Object, Subtree
<1>3. \E r \in S : \A s \in S : s <= r
  BY <1>2, GreatestNat
<1>4. Final(i) = CHOOSE r \in S : \A s \in S : s <= r
  BY <1>1 DEF Final
<1>5. Final(i) \in S
  BY <1>3, <1>4
<1> QED
  BY <1>1, <1>2, <1>5 DEF Object

\* An object's members are objects, but for its keyword.
LEMMA MembersAre ==
  ASSUME NEW i \in Object
  PROVE  /\ Members(i) \in Seq(Object \cup {0})
         /\ \A m \in 1 .. Len(Members(i)) : Members(i)[m] # 0 => Members(i)[m] \in Object
<1>1. PICK kids : kids = InOrder({j \in Object : doc.up[j] = i})
  OBVIOUS
<1>2. kids \in Seq(Object)
  BY <1>1, InOrderLists DEF Lists, Object
<1>3. kids \in Seq(Object \cup {0}) /\ <<0>> \in Seq(Object \cup {0})
  BY <1>2
<1>4. Members(i) = (IF doc.use[i].first THEN <<0>> \o kids ELSE kids \o <<0>>)
  BY <1>1 DEF Members
<1>5. PICK ms : ms = Members(i)
  OBVIOUS
<1>6. ms \in Seq(Object \cup {0})
  <2>1. PICK T, z : T = Object \cup {0} /\ z = <<0>>
    OBVIOUS
  <2>2. kids \in Seq(T) /\ z \in Seq(T)
    BY <1>3, <2>1
  <2>3. z \o kids \in Seq(T) /\ kids \o z \in Seq(T)
    BY <2>2
  <2>4. ms = z \o kids \/ ms = kids \o z
    BY <1>4, <1>5, <2>1
  <2> QED
    BY <2>1, <2>3, <2>4
<1>7. \A m \in 1 .. Len(ms) : ms[m] \in Object \cup {0}
  BY <1>6
<1> QED
  BY <1>5, <1>6, <1>7

-------------------------------------------------------------------------------
(***************************************************************************)
(* The stack.                                                              *)
(***************************************************************************)

\* The newest activation ends.
LEMMA StackPop ==
  ASSUME NEW stk, NEW mem, NEW n, StackOK(stk, mem, n), Len(stk) > 0,
         NEW stk2, stk2 = SubSeq(stk, 1, Len(stk) - 1)
  PROVE  /\ StackOK(stk2, mem, n) /\ Len(stk2) = Len(stk) - 1
         /\ \A a \in 1 .. Len(stk2) : stk2[a] = stk[a]
<1>1. PICK l \in Nat : Len(stk) = l + 1 /\ stk \in Seq(FrameType)
  <2>1. stk \in Seq(FrameType)
    BY DEF StackOK
  <2>2. Len(stk) - 1 \in Nat /\ Len(stk) = (Len(stk) - 1) + 1
    BY <2>1
  <2> QED
    BY <2>1, <2>2
<1>2. /\ stk2 \in Seq(FrameType) /\ Len(stk2) = l
      /\ \A a \in 1 .. l : stk2[a] = stk[a] /\ a \in 1 .. Len(stk)
  BY <1>1
<1>3. ASSUME NEW a \in 1 .. l
      PROVE  /\ FrameOK(stk2[a]) /\ stk2[a].base <= n
             /\ stk2[a].fn # "local" => mem[stk2[a].v] = "busy"
  BY <1>2 DEF StackOK
<1>4. ASSUME NEW a \in 1 .. l, NEW b \in 1 .. l
      PROVE  /\ stk2[a].v = stk2[b].v /\ stk2[a].fn # "local" /\ stk2[b].fn # "local" => a = b
             /\ a <= b /\ stk2[b].fn # "compile" => stk2[a].base <= stk2[b].base
  BY <1>2 DEF StackOK
<1>5. StackOK(stk2, mem, n)
  BY SMTT(30), <1>2, <1>3, <1>4 DEF StackOK
<1> QED
  BY <1>1, <1>2, <1>5

\* The newest activation moves on.
LEMMA StackTurn ==
  ASSUME NEW stk, NEW mem, NEW n, StackOK(stk, mem, n), Len(stk) > 0,
         NEW m \in Nat, m >= 1, NEW stk2, stk2 = [stk EXCEPT ![Len(stk)].m = m]
  PROVE  StackOK(stk2, mem, n)
<1>1. PICK l \in Nat : l = Len(stk) /\ l \in 1 .. l /\ stk \in Seq(FrameType)
  <2>1. stk \in Seq(FrameType)
    BY DEF StackOK
  <2> QED
    BY <2>1
<1>2. PICK f \in FrameType : f = stk[l]
  BY <1>1
<1>3. PICK g : g = [f EXCEPT !.m = m]
  OBVIOUS
<1>4. /\ g \in FrameType /\ g.fn = f.fn /\ g.v = f.v /\ g.base = f.base /\ g.m = m
      /\ g.last = f.last /\ g.saved = f.saved
  BY <1>3 DEF FrameType
<1>5. /\ stk2 \in Seq(FrameType) /\ Len(stk2) = l /\ stk2[l] = g
      /\ \A a \in 1 .. l : a # l => stk2[a] = stk[a]
  <2>1. stk2 = [stk EXCEPT ![l] = g]
    BY <1>1, <1>2, <1>3
  <2> QED
    BY <1>1, <1>4, <2>1
<1>6. \A a \in 1 .. l : stk2[a].fn = stk[a].fn /\ stk2[a].v = stk[a].v /\ stk2[a].base = stk[a].base
  BY <1>2, <1>4, <1>5
<1>7. ASSUME NEW a \in 1 .. l PROVE FrameOK(stk2[a])
  <2>1. FrameOK(stk[a])
    BY <1>1 DEF StackOK
  <2>2. CASE a = l
    BY <1>2, <1>4, <1>5, <2>1, <2>2 DEF FrameOK
  <2>3. CASE a # l
    BY <1>5, <2>1, <2>3
  <2> QED
    BY <2>2, <2>3
<1>8. ASSUME NEW a \in 1 .. l
      PROVE  stk2[a].base <= n /\ (stk2[a].fn # "local" => mem[stk2[a].v] = "busy")
  BY <1>1, <1>6 DEF StackOK
<1>9. ASSUME NEW a \in 1 .. l, NEW b \in 1 .. l
      PROVE  /\ stk2[a].v = stk2[b].v /\ stk2[a].fn # "local" /\ stk2[b].fn # "local" => a = b
             /\ a <= b /\ stk2[b].fn # "compile" => stk2[a].base <= stk2[b].base
  BY <1>1, <1>6 DEF StackOK
<1> QED
  BY <1>5, <1>7, <1>8, <1>9 DEF StackOK

\* An activation begins: one that compiles or attaches does so for an object
\* that no other one below it is busy with.
LEMMA StackPush ==
  ASSUME NEW stk, NEW mem, NEW n \in Nat, StackOK(stk, mem, n), NEW f \in FrameType, FrameOK(f),
         f.base <= n, f.fn # "compile" => f.base = n,
         f.fn # "local" =>
           /\ mem[f.v] = "busy"
           /\ \A a \in 1 .. Len(stk) : stk[a].fn # "local" => stk[a].v # f.v,
         NEW stk2, stk2 = Append(stk, f)
  PROVE  StackOK(stk2, mem, n)
<1>1. PICK l \in Nat : l = Len(stk) /\ stk \in Seq(FrameType)
  <2>1. stk \in Seq(FrameType)
    BY DEF StackOK
  <2> QED
    BY <2>1
<1>2. /\ stk2 \in Seq(FrameType) /\ Len(stk2) = l + 1 /\ stk2[l + 1] = f
      /\ \A a \in 1 .. l : stk2[a] = stk[a]
      /\ \A a \in 1 .. l + 1 : a = l + 1 \/ a \in 1 .. l
  BY <1>1
<1>3. ASSUME NEW a \in 1 .. l
      PROVE  FrameOK(stk[a]) /\ stk[a].base <= n /\ (stk[a].fn # "local" => mem[stk[a].v] = "busy")
  BY <1>1 DEF StackOK
<1>4. ASSUME NEW a \in 1 .. l, NEW b \in 1 .. l
      PROVE  /\ stk[a].v = stk[b].v /\ stk[a].fn # "local" /\ stk[b].fn # "local" => a = b
             /\ a <= b /\ stk[b].fn # "compile" => stk[a].base <= stk[b].base
  BY <1>1 DEF StackOK
<1>5. ASSUME NEW a \in 1 .. l + 1
      PROVE  FrameOK(stk2[a]) /\ stk2[a].base <= n /\ (stk2[a].fn # "local" => mem[stk2[a].v] = "busy")
  BY <1>2, <1>3
<1>6. ASSUME NEW a \in 1 .. l + 1, NEW b \in 1 .. l + 1
      PROVE  stk2[a].v = stk2[b].v /\ stk2[a].fn # "local" /\ stk2[b].fn # "local" => a = b
  BY <1>1, <1>2, <1>4
<1>7. ASSUME NEW a \in 1 .. l + 1, NEW b \in 1 .. l + 1, a <= b, stk2[b].fn # "compile"
      PROVE  stk2[a].base <= stk2[b].base
  <2>1. CASE b = l + 1
    BY <1>2, <1>5, <1>7, <2>1
  <2>2. CASE b # l + 1
    <3>1. a \in 1 .. l /\ b \in 1 .. l
      BY <1>7, <2>2
    <3> QED
      BY <1>2, <1>4, <1>7, <3>1
  <2> QED
    BY <2>1, <2>2
<1> QED
  BY <1>2, <1>5, <1>6, <1>7 DEF StackOK

\* An object that no activation compiles becomes busy or done.
LEMMA StackMemo ==
  ASSUME NEW stk, NEW mem \in [Object -> {"none", "busy", "done"}], NEW n, StackOK(stk, mem, n),
         NEW v \in Object, \A a \in 1 .. Len(stk) : stk[a].fn # "local" => stk[a].v # v,
         NEW s, NEW mem2, mem2 = [mem EXCEPT ![v] = s]
  PROVE  StackOK(stk, mem2, n)
<1>1. stk \in Seq(FrameType)
  BY DEF StackOK
<1>2. ASSUME NEW a \in 1 .. Len(stk), stk[a].fn # "local" PROVE mem2[stk[a].v] = "busy"
  <2>1. stk[a] \in FrameType
    BY <1>1
  <2>2. stk[a].v \in Object /\ stk[a].v # v
    BY <1>2, <2>1 DEF FrameType
  <2>3. mem[stk[a].v] = "busy"
    BY <1>2 DEF StackOK
  <2> QED
    BY <2>2, <2>3
<1> QED
  BY <1>2 DEF StackOK

\* The accumulator is cut or grows above every base.
LEMMA StackBase ==
  ASSUME NEW stk, NEW mem, NEW n, StackOK(stk, mem, n), NEW n2,
         \A a \in 1 .. Len(stk) : stk[a].base <= n2
  PROVE  StackOK(stk, mem, n2)
BY DEF StackOK

\* What the invariant says of the newest activation.
LEMMA TopIs ==
  ASSUME IInv, stack # << >>
  PROVE  /\ stack \in Seq(FrameType) /\ Len(stack) \in Nat /\ Len(stack) > 0
         /\ Len(stack) \in 1 .. Len(stack)
         /\ Top \in FrameType /\ FrameOK(Top) /\ Top = stack[Len(stack)]
         /\ Top.v \in Object /\ Top.m \in Nat /\ Top.m >= 1 /\ Top.base \in 0 .. Len(acc)
         /\ Top.fn # "local" => memo[Top.v] = "busy"
<1>1. stack \in Seq(FrameType) /\ acc \in Seq(Object)
  BY DEF IInv, StackOK
<1>2. Len(stack) \in Nat /\ Len(stack) > 0 /\ Len(stack) \in 1 .. Len(stack)
  BY <1>1
<1>3. /\ Top \in FrameType /\ FrameOK(Top) /\ Top.base <= Len(acc)
      /\ Top.fn # "local" => memo[Top.v] = "busy"
  BY <1>1, <1>2 DEF Top, IInv, StackOK
<1>4. Top.v \in Object /\ Top.m \in Nat /\ Top.base \in Nat /\ Len(acc) \in Nat
  BY <1>1, <1>3 DEF FrameType
<1>5. Top.m >= 1
  BY <1>3 DEF FrameOK, FrameType
<1> QED
  BY <1>1, <1>2, <1>3, <1>4, <1>5 DEF Top

-------------------------------------------------------------------------------
(***************************************************************************)
(* Every step.                                                             *)
(***************************************************************************)
\* All but memo, cur, ret and the stack.
Rest == UNCHANGED <<doc, anchored, scope, acc>>

\* A call of an object's compilation: a hit returns at once, else the object,
\* which no activation is busy with, is busy now.
LEMMA CallInv ==
  ASSUME IInv, NEW stk, StackOK(stk, memo, Len(acc)), NEW v \in Object, Call(stk, v), Rest
  PROVE  IInv'
<1>1. /\ DocOK(doc) /\ memo \in [Object -> {"none", "busy", "done"}]
      /\ cur \in Object /\ acc \in Seq(Object) /\ Len(acc) \in Nat
  BY DEF IInv
<1>2. CASE memo[v] \in {"busy", "done"}
  <2>1. ret' = v /\ stack' = stk /\ UNCHANGED <<memo, cur>>
    BY <1>2 DEF Call, Calls
  <2> QED
    BY <2>1 DEF IInv, Rest
<1>3. CASE memo[v] \notin {"busy", "done"}
  <2>1. PICK f : f = Frame("compile", v, 1, 0, cur, 0)
    OBVIOUS
  <2>2. /\ stack' = Append(stk, f) /\ memo' = [memo EXCEPT ![v] = "busy"]
        /\ cur' = ResRoot(doc, v) /\ ret' = Idle
    BY <1>3, <2>1 DEF Call, Calls
  <2>3. f \in FrameType /\ FrameOK(f) /\ f.fn = "compile" /\ f.v = v /\ f.base = 0
    <3>1. cur \in 0 .. Size /\ 0 \in 0 .. Size
      BY <1>1, CompileAssumption DEF Object
    <3>2. f = [fn |-> "compile", v |-> v, m |-> 1, last |-> 0, saved |-> cur, base |-> 0]
      BY <2>1 DEF Frame
    <3> QED
      BY <1>1, <3>1, <3>2 DEF FrameType, FrameOK
  <2>4. \A a \in 1 .. Len(stk) : stk[a].fn # "local" => stk[a].v # v
    BY <1>3 DEF StackOK
  <2>5. PICK mem : mem = [memo EXCEPT ![v] = "busy"]
    OBVIOUS
  <2>6. mem \in [Object -> {"none", "busy", "done"}] /\ mem[v] = "busy"
    BY <1>1, <2>5
  <2>7. StackOK(stk, mem, Len(acc))
    BY <1>1, <2>4, <2>5, StackMemo
  <2>8. PICK stk2, n : stk2 = Append(stk, f) /\ n = Len(acc)
    OBVIOUS
  <2>9. StackOK(stk2, mem, n)
    <3>1. /\ n \in Nat /\ StackOK(stk, mem, n) /\ f \in FrameType /\ FrameOK(f) /\ f.base <= n
          /\ f.fn # "compile" => f.base = n
          /\ f.fn # "local" =>
               /\ mem[f.v] = "busy"
               /\ \A a \in 1 .. Len(stk) : stk[a].fn # "local" => stk[a].v # f.v
      BY <1>1, <2>3, <2>4, <2>6, <2>7, <2>8
    <3> QED
      BY <2>8, <3>1, StackPush
  <2>10. ResRoot(doc, v) \in Object
    BY <1>1, ResRootIs
  <2> QED
    BY <2>2, <2>5, <2>6, <2>8, <2>9, <2>10 DEF IInv, Rest
<1> QED
  BY <1>2, <1>3

\* The newest activation moves on.
LEMMA TurnInv ==
  ASSUME IInv, stack # << >>, stack' = Turn(Top.m + 1), UNCHANGED <<doc, memo, scope, cur>>,
         anchored' \subseteq Object, ret' \in Object \cup {0, Idle},
         acc' \in Seq(Object), Len(acc') >= Len(acc)
  PROVE  IInv'
<1>1. Top.m + 1 \in Nat /\ Top.m + 1 >= 1 /\ Len(stack) > 0
  BY TopIs
<1>2. PICK m, stk2, n, n2 : m = Top.m + 1 /\ stk2 = stack' /\ n = Len(acc) /\ n2 = Len(acc')
  OBVIOUS
<1>3. StackOK(stack, memo, n)
  BY <1>2 DEF IInv
<1>4. StackOK(stk2, memo, n)
  BY <1>1, <1>2, <1>3, StackTurn DEF Turn
<1>5. StackOK(stk2, memo, n2)
  <2>1. n \in Nat /\ n2 \in Nat /\ n <= n2
    BY <1>2 DEF IInv
  <2>2. ASSUME NEW a \in 1 .. Len(stk2) PROVE stk2[a].base <= n2
    <3>1. stk2 \in Seq(FrameType) /\ stk2[a].base <= n
      BY <1>4 DEF StackOK
    <3>2. stk2[a] \in FrameType
      BY <3>1
    <3>3. stk2[a].base \in Nat
      BY <3>2 DEF FrameType
    <3> QED
      BY <2>1, <3>1, <3>3
  <2> QED
    BY <1>4, <2>2, StackBase
<1> QED
  BY <1>2, <1>5 DEF IInv

\* A failure: the object stays busy.
LEMMA FailInv ==
  ASSUME IInv, stack # << >>, Fail, Rest
  PROVE  IInv'
<1>1. PICK stk2 : stk2 = Pop
  OBVIOUS
<1>2. StackOK(stk2, memo, Len(acc))
  BY <1>1, TopIs, StackPop DEF IInv, Pop
<1> QED
  BY <1>1, <1>2 DEF IInv, Fail, Rest

\* In the beginning the root is being compiled.
LEMMA InitInv == Init => IInv
<1> SUFFICES ASSUME Init PROVE IInv
  OBVIOUS
<1>1. PICK up \in [Object -> 0 .. Size - 1], pos \in [Object -> {"sub", "data"}],
           id \in [Object -> BOOLEAN], use \in [Object -> Use] :
        doc = [up |-> up, pos |-> pos, id |-> id, use |-> use] /\ IsDocument(doc)
  BY DEF Init, InitWith
<1>2. DocOK(doc)
  BY <1>1 DEF DocOK
<1>3. PICK f : f = Frame("compile", Root, 1, 0, Root, 0)
  OBVIOUS
<1>4. /\ stack = <<f>> /\ memo = [[i \in Object |-> "none"] EXCEPT ![Root] = "busy"]
      /\ anchored = {} /\ scope = [i \in Object |-> << >>] /\ cur = Root /\ acc = << >> /\ ret = Idle
  BY <1>3 DEF Init, InitWith
<1>5. Root \in Object /\ Root \in 0 .. Size /\ 0 \in 0 .. Size
  BY CompileAssumption DEF Root, Object
<1>6. f \in FrameType /\ FrameOK(f) /\ f.v = Root /\ f.base = 0
  <2>1. f = [fn |-> "compile", v |-> Root, m |-> 1, last |-> 0, saved |-> Root, base |-> 0]
    BY <1>3 DEF Frame
  <2> QED
    BY <1>5, <2>1 DEF FrameType, FrameOK
<1>7. stack \in Seq(FrameType) /\ Len(stack) = 1 /\ stack[1] = f /\ Len(acc) = 0
  BY <1>4, <1>6
<1>8. memo \in [Object -> {"none", "busy", "done"}] /\ memo[Root] = "busy"
  BY <1>4, <1>5
<1>9. StackOK(stack, memo, Len(acc))
  <2>1. \A a \in 1 .. Len(stack) : a = 1
    BY <1>7
  <2> QED
    BY <1>6, <1>7, <1>8, <2>1 DEF StackOK
<1>10. scope \in [Object -> Seq(Object)] /\ acc \in Seq(Object) /\ anchored \subseteq Object
  BY <1>4
<1> QED
  BY <1>2, <1>4, <1>5, <1>8, <1>9, <1>10 DEF IInv

\* The member that the newest activation reads.
LEMMA ReadIs ==
  ASSUME IInv, Reads
  PROVE  stack # << >> /\ (Read # 0 => Read \in Object)
<1>1. stack # << >> /\ Top.v \in Object /\ Top.m \in Nat /\ Top.m >= 1
  BY TopIs DEF Reads
<1>2. PICK v \in Object, m \in Nat : v = Top.v /\ m = Top.m /\ m >= 1
  BY <1>1
<1>3. m <= Len(Members(v))
  BY <1>2 DEF Reads
<1>4. Members(v) \in Seq(Object \cup {0})
  BY MembersAre
<1>5. m \in 1 .. Len(Members(v))
  BY <1>2, <1>3, <1>4
<1>6. Members(v)[m] # 0 => Members(v)[m] \in Object
  BY <1>5, MembersAre
<1> QED
  BY <1>1, <1>2, <1>6 DEF Read

\* What a keyword's $ref names.
LEMMA ResolveIs ==
  ASSUME IInv, NEW v \in Object, doc.use[v].kw = "ref", NEW to \in Resolve(v)
  PROVE  to # 0 => to \in Object
<1>1. PICK u : u = doc.use[v]
  OBVIOUS
<1>2. u \in Use /\ u.kw = "ref"
  BY <1>1 DEF IInv, DocOK
<1>3. u.to \in Object
  <2>1. \/ u \in {[kw |-> "none", to |-> 0, first |-> TRUE]}
        \/ u \in [kw : Keyword \ {"none", "ref"}, to : {0}, first : BOOLEAN]
        \/ u \in [kw : Keyword \cap {"ref"}, to : Object, first : BOOLEAN]
    BY <1>2 DEF Use
  <2>2. u \notin {[kw |-> "none", to |-> 0, first |-> TRUE]}
    BY <1>2
  <2>3. u \notin [kw : Keyword \ {"none", "ref"}, to : {0}, first : BOOLEAN]
    BY <1>2
  <2> QED
    BY <2>1, <2>2, <2>3
<1>4. cur \in Object /\ DocOK(doc)
  BY DEF IInv
<1>5. Subtree(cur) \subseteq Object
  BY <1>4, FinalIs
<1> QED
  BY <1>1, <1>3, <1>4, <1>5 DEF Resolve

\* Subschemas and references.
LEMMA SubschemaInv ==
  ASSUME IInv, Subschema
  PROVE  IInv'
<1>1. Read \in Object /\ Call(stack, Read) /\ Rest
  BY ReadIs DEF Subschema, Kept, Rest
<1>2. PICK v \in Object : v = Read
  BY <1>1
<1>3. Call(stack, v)
  BY <1>1, <1>2
<1>4. StackOK(stack, memo, Len(acc))
  BY DEF IInv
<1> QED
  BY <1>1, <1>3, <1>4, CallInv

\* $ref.
LEMMA RefInv ==
  ASSUME IInv, Ref
  PROVE  IInv'
<1>1. Reads /\ doc.use[Top.v].kw = "ref" /\ Rest
  BY DEF Ref, Reading, Kept, Rest
<1>2. stack # << >> /\ Top.v \in Object
  BY <1>1, TopIs DEF Reads
<1>3. PICK to \in Resolve(Top.v) : IF to = 0 THEN Fail ELSE Call(stack, to)
  BY DEF Ref
<1>4. to # 0 => to \in Object
  <2>1. PICK v \in Object : v = Top.v
    BY <1>2
  <2> QED
    BY <1>1, <2>1, ResolveIs
<1>5. CASE to = 0
  BY <1>1, <1>2, <1>3, <1>5, FailInv
<1>6. CASE to # 0
  <2>1. StackOK(stack, memo, Len(acc))
    BY DEF IInv
  <2> QED
    BY <1>1, <1>3, <1>4, <1>6, <2>1, CallInv
<1> QED
  BY <1>5, <1>6

\* The keywords that only move on.
LEMMA KeywordInv ==
  ASSUME IInv, Ignored \/ Anchor \/ Dependency
  PROVE  IInv'
<1>1. stack # << >> /\ stack' = Turn(Top.m + 1) /\ UNCHANGED <<doc, memo, scope, cur, acc, ret>>
  BY DEF Ignored, Anchor, Dependency, Reading, Reads, Kept
<1>2. anchored' \subseteq Object
  <2>1. Top.v \in Object
    BY <1>1, TopIs
  <2> QED
    BY <2>1 DEF Ignored, Anchor, Dependency, IInv
<1>3. ret' \in Object \cup {0, Idle} /\ acc' \in Seq(Object) /\ Len(acc') >= Len(acc)
  <2>1. ret \in Object \cup {0, Idle} /\ acc \in Seq(Object)
    BY DEF IInv
  <2>2. Len(acc) >= Len(acc)
    BY <2>1
  <2> QED
    BY <1>1, <2>1, <2>2
<1> QED
  BY <1>1, <1>2, <1>3, TurnInv

\* resource_local_anchor begins on top of its compilation.
LEMMA DynamicRefInv ==
  ASSUME IInv, DynamicRef
  PROVE  IInv'
<1>1. PICK f, n : f = Frame("local", Top.v, cur, Final(cur), 0, Len(acc)) /\ n = Len(acc)
  OBVIOUS
<1>2. /\ Reads /\ stack' = Append(stack, f)
      /\ UNCHANGED <<doc, memo, anchored, scope, cur, acc, ret>>
  BY <1>1 DEF DynamicRef, Reading, Kept
<1>3. Top.v \in Object /\ cur \in Object /\ Final(cur) \in Object /\ n \in Nat
  <2>1. Top.v \in Object
    BY <1>2, TopIs DEF Reads
  <2>2. cur \in Object /\ DocOK(doc) /\ n \in Nat
    BY <1>1 DEF IInv
  <2> QED
    BY <2>1, <2>2, FinalIs
<1>4. f \in FrameType /\ FrameOK(f) /\ f.fn = "local" /\ f.base = n
  <2>1. f = [fn |-> "local", v |-> Top.v, m |-> cur, last |-> Final(cur), saved |-> 0, base |-> n]
    BY <1>1 DEF Frame
  <2>2. cur \in Nat /\ cur >= 1 /\ Final(cur) \in 0 .. Size /\ 0 \in 0 .. Size
    BY <1>3, CompileAssumption DEF Object
  <2> QED
    BY <1>3, <2>1, <2>2 DEF FrameType, FrameOK
<1>5. StackOK(stack, memo, n)
  BY <1>1 DEF IInv
<1>6. PICK stk2 : stk2 = Append(stack, f)
  OBVIOUS
<1>7. StackOK(stk2, memo, n)
  <2>1. f.base <= n
    BY <1>3, <1>4
  <2> QED
    BY <1>3, <1>4, <1>5, <1>6, <2>1, StackPush
<1> QED
  BY <1>1, <1>2, <1>6, <1>7 DEF IInv

\* A value that is rejected.
LEMMA BadInv ==
  ASSUME IInv, Bad
  PROVE  IInv'
BY FailInv DEF Bad, Reading, Reads, Kept, Rest

\* A call comes back.
LEMMA ReturnedInv ==
  ASSUME IInv, Returned
  PROVE  IInv'
<1>1. stack # << >> /\ Rest
  BY DEF Returned, Return, Kept, Rest
<1>2. CASE ret = 0
  BY <1>1, <1>2, FailInv DEF Returned, Return
<1>3. CASE ret # 0
  <2>1. stack' = Turn(Top.m + 1) /\ ret' = Idle /\ UNCHANGED <<memo, cur>>
    BY <1>3 DEF Returned, Return
  <2>2. Len(acc') >= Len(acc) /\ acc' \in Seq(Object) /\ anchored' \subseteq Object
    BY <1>1 DEF IInv, Rest
  <2> QED
    BY <1>1, <2>1, <2>2, TurnInv DEF Rest
<1> QED
  BY <1>2, <1>3

\* attach_self_scope takes the place of the keyword loop: for the same object.
LEMMA LoopEndsInv ==
  ASSUME IInv, LoopEnds
  PROVE  IInv'
<1>1. PICK f, n, stk1 : /\ f = Frame("attach", Top.v, Top.v, Final(Top.v), 0, Len(acc))
                        /\ n = Len(acc) /\ stk1 = Pop
  OBVIOUS
<1>2. /\ stack # << >> /\ Top.fn = "compile" /\ cur' = Top.saved /\ stack' = Append(stk1, f)
      /\ UNCHANGED <<doc, memo, anchored, scope, acc, ret>>
  BY <1>1 DEF LoopEnds, Kept
<1>3. PICK l \in Nat : l = Len(stack) /\ l > 0 /\ l \in 1 .. l /\ Top = stack[l]
  BY <1>2, TopIs
<1>4. PICK v \in Object : v = Top.v /\ memo[v] = "busy" /\ v = stack[l].v /\ stack[l].fn # "local"
  BY <1>2, <1>3, TopIs
<1>5. n \in Nat /\ Final(v) \in Object
  <2>1. DocOK(doc) /\ n \in Nat
    BY <1>1 DEF IInv
  <2> QED
    BY <2>1, FinalIs
<1>6. f \in FrameType /\ FrameOK(f) /\ f.fn = "attach" /\ f.base = n /\ f.v = v
  <2>1. f = [fn |-> "attach", v |-> v, m |-> v, last |-> Final(v), saved |-> 0, base |-> n]
    BY <1>1, <1>4 DEF Frame
  <2>2. v \in Nat /\ v >= 1 /\ Final(v) \in 0 .. Size /\ 0 \in 0 .. Size
    BY <1>5, CompileAssumption DEF Object
  <2> QED
    BY <1>5, <2>1, <2>2 DEF FrameType, FrameOK
<1>7. /\ StackOK(stk1, memo, n) /\ Len(stk1) = l - 1
      /\ \A a \in 1 .. Len(stk1) : stk1[a] = stack[a]
  <2>1. StackOK(stack, memo, n) /\ Len(stack) > 0
    BY <1>1, <1>3 DEF IInv
  <2> QED
    BY ZenonT(40), <1>1, <1>3, <2>1, StackPop DEF Pop
<1>8. ASSUME NEW a \in 1 .. Len(stk1), stk1[a].fn # "local" PROVE stk1[a].v # v
  <2>1. a \in 1 .. l /\ a # l
    BY <1>3, <1>7
  <2>2. stack[a].fn # "local" /\ stack[a] = stk1[a]
    BY <1>7, <1>8
  <2>3. stack[a].v = stack[l].v => a = l
    BY <1>3, <1>4, <2>1, <2>2 DEF IInv, StackOK
  <2> QED
    BY <1>4, <2>1, <2>2, <2>3
<1>9. PICK stk2 : stk2 = Append(stk1, f)
  OBVIOUS
<1>10. StackOK(stk2, memo, n)
  <2>1. /\ f.base <= n
        /\ f.fn # "compile" => f.base = n
        /\ f.fn # "local" =>
             /\ memo[f.v] = "busy"
             /\ \A a \in 1 .. Len(stk1) : stk1[a].fn # "local" => stk1[a].v # f.v
    BY <1>4, <1>5, <1>6, <1>8
  <2> QED
    BY <1>5, <1>6, <1>7, <1>9, <2>1, StackPush
<1>11. Top.saved \in Object
  BY <1>2, TopIs DEF FrameOK
<1> QED
  BY <1>1, <1>2, <1>9, <1>10, <1>11 DEF IInv

\* build_self_scope visits an object of the document.
LEMMA VisitInv ==
  ASSUME IInv, Visit
  PROVE  IInv'
<1>1. stack # << >> /\ Top.fn # "compile" /\ Top.m <= Top.last /\ Call(stack, Top.m) /\ Rest
  BY DEF Visit, Walks, Kept, Rest
<1>2. Top.m \in Object
  <2>1. Top.m \in Nat /\ Top.m >= 1 /\ Top.last \in Object
    BY <1>1, TopIs DEF FrameOK
  <2> QED
    BY <1>1, <2>1, CompileAssumption DEF Object
<1>3. PICK v \in Object : v = Top.m
  BY <1>2
<1>4. StackOK(stack, memo, Len(acc)) /\ Call(stack, v)
  BY <1>1, <1>3 DEF IInv
<1> QED
  BY <1>1, <1>4, CallInv

\* It notes an anchor.
LEMMA NoteInv ==
  ASSUME IInv, Note
  PROVE  IInv'
<1>1. /\ stack # << >> /\ stack' = Turn(Top.m + 1) /\ ret' = Idle
      /\ UNCHANGED <<doc, memo, anchored, scope, cur>>
      /\ acc' = IF ret \in anchored THEN Append(acc, ret) ELSE acc
  BY DEF Note, Walks
<1>2. acc \in Seq(Object) /\ anchored \subseteq Object
  BY DEF IInv
<1>3. acc' \in Seq(Object) /\ Len(acc') >= Len(acc)
  BY <1>1, <1>2
<1> QED
  BY <1>1, <1>2, <1>3, TurnInv

\* attach_self_scope cuts off what it noted, and no more; the object is done.
LEMMA AttachInv ==
  ASSUME IInv, Attach
  PROVE  IInv'
<1>1. PICK b, n, stk1 : b = Top.base /\ n = Len(acc) /\ stk1 = Pop
  OBVIOUS
<1>2. /\ stack # << >> /\ Top.fn = "attach"
      /\ scope' = [scope EXCEPT ![Top.v] = SubSeq(acc, b + 1, n)]
      /\ acc' = SubSeq(acc, 1, b) /\ memo' = [memo EXCEPT ![Top.v] = "done"]
      /\ stack' = stk1 /\ ret' = Top.v /\ UNCHANGED <<doc, anchored, cur>>
  BY <1>1 DEF Attach, AttachTo, Walks, Kept
<1>3. PICK l \in Nat : l = Len(stack) /\ l > 0 /\ l \in 1 .. l /\ Top = stack[l]
  BY <1>2, TopIs
<1>4. PICK v \in Object : v = Top.v /\ v = stack[l].v /\ stack[l].fn = "attach" /\ b = stack[l].base
  BY <1>1, <1>2, <1>3, TopIs
<1>5. n \in Nat /\ b \in 0 .. n /\ acc \in Seq(Object)
  BY <1>1, <1>2, TopIs DEF IInv
<1>6. acc' \in Seq(Object) /\ Len(acc') = b
  BY <1>1, <1>2, <1>5
<1>7. scope' \in [Object -> Seq(Object)]
  <2>1. PICK s : s = SubSeq(acc, b + 1, n)
    OBVIOUS
  <2>2. s \in Seq(Object)
    BY <1>1, <1>5, <2>1
  <2>3. scope \in [Object -> Seq(Object)]
    BY DEF IInv
  <2> QED
    BY <1>2, <1>4, <2>1, <2>2, <2>3
<1>8. /\ StackOK(stk1, memo, n) /\ Len(stk1) = l - 1
      /\ \A a \in 1 .. Len(stk1) : stk1[a] = stack[a]
  <2>1. StackOK(stack, memo, n) /\ Len(stack) > 0
    BY <1>1, <1>3 DEF IInv
  <2> QED
    BY ZenonT(40), <1>1, <1>3, <2>1, StackPop DEF Pop
<1>9. ASSUME NEW a \in 1 .. Len(stk1)
      PROVE  stk1[a].base <= b /\ (stk1[a].fn # "local" => stk1[a].v # v)
  <2>1. a \in 1 .. l /\ a # l /\ a <= l
    BY <1>3, <1>8
  <2>2. stack[a] = stk1[a]
    BY <1>8
  <2>3. stack[a].base <= stack[l].base
    BY <1>3, <1>4, <2>1 DEF IInv, StackOK
  <2>4. stack[a].fn # "local" /\ stack[a].v = stack[l].v => a = l
    BY <1>3, <1>4, <2>1 DEF IInv, StackOK
  <2> QED
    BY <1>4, <2>1, <2>2, <2>3, <2>4
<1>10. PICK mem : mem = [memo EXCEPT ![v] = "done"]
  OBVIOUS
<1>11. memo \in [Object -> {"none", "busy", "done"}]
  BY DEF IInv
<1>12. StackOK(stk1, mem, n) /\ mem \in [Object -> {"none", "busy", "done"}]
  BY <1>8, <1>9, <1>10, <1>11, StackMemo
<1>13. StackOK(stk1, mem, b)
  BY <1>9, <1>12, StackBase
<1> QED
  BY <1>2, <1>4, <1>6, <1>7, <1>10, <1>12, <1>13 DEF IInv

\* resource_local_anchor ends.
LEMMA LocalInv ==
  ASSUME IInv, Local
  PROVE  IInv'
<1>1. /\ stack # << >> /\ Rest
      /\ IF Len(acc) > Top.base THEN Call(Pop, acc[Top.base + 1])
         ELSE IF Anchors # {} THEN \E i \in FirstCollected : Call(Pop, i)
         ELSE Fail
  BY DEF Local, Walks, Kept, Rest
<1>2. PICK stk1 : stk1 = Pop
  OBVIOUS
<1>3. StackOK(stk1, memo, Len(acc))
  BY <1>1, <1>2, TopIs, StackPop DEF IInv, Pop
<1>4. CASE Len(acc) > Top.base
  <2>1. Top.base + 1 \in 1 .. Len(acc) /\ acc \in Seq(Object)
    BY SMTT(30), <1>1, <1>4, TopIs DEF IInv
  <2>2. PICK v \in Object : v = acc[Top.base + 1]
    BY <2>1
  <2>3. Call(stk1, v)
    BY <1>1, <1>2, <1>4, <2>2
  <2> QED
    BY <1>1, <1>3, <2>3, CallInv
<1>5. CASE ~(Len(acc) > Top.base) /\ Anchors # {}
  <2>1. PICK v \in FirstCollected : Call(stk1, v)
    BY <1>1, <1>2, <1>5
  <2>2. v \in Object
    BY DEF FirstCollected, Anchors
  <2> QED
    BY <1>1, <1>3, <2>1, <2>2, CallInv
<1>6. CASE ~(Len(acc) > Top.base) /\ Anchors = {}
  BY <1>1, <1>6, FailInv
<1> QED
  BY <1>4, <1>5, <1>6

\* Every step keeps the invariant.
LEMMA NextInv == IInv /\ [Next]_vars => IInv'
<1> SUFFICES ASSUME IInv, [Next]_vars PROVE IInv'
  OBVIOUS
<1>1. CASE UNCHANGED vars
  BY <1>1 DEF IInv, vars
<1> QED
  BY <1>1, SubschemaInv, RefInv, KeywordInv, DynamicRefInv, BadInv, ReturnedInv, LoopEndsInv,
     VisitInv, NoteInv, AttachInv, LocalInv DEF Next

-------------------------------------------------------------------------------
(***************************************************************************)
(* Subtrees of a document.                                                 *)
(***************************************************************************)
\* The lines of a forest.
LEMMA ForestLines ==
  ASSUME NEW up, IsForest(Size, up)
  PROVE  /\ \A i \in Object : Line(up, i) \subseteq 1 .. i /\ i \in Line(up, i)
         /\ \A i \in Object : \A m \in Line(up, i) : m \in Object /\ Line(up, m) \subseteq Line(up, i)
         /\ \A i \in Object : \A m, k \in Line(up, i) : m <= k => m \in Line(up, k)
<1>1. PICK L : L = [j \in 1 .. Size |-> Ascent(up, j)[Size]]
  OBVIOUS
<1>2. Size \in Nat
  BY CompileAssumption
<1>3. \A i \in Object : Line(up, i) = L[i]
  BY <1>1, LineIsAscent DEF Object
<1>4. ASSUME NEW i \in 1 .. Size
      PROVE  /\ L[i] \subseteq 1 .. i /\ i \in L[i]
             /\ \A m \in L[i] : L[m] \subseteq L[i]
             /\ \A m, k \in L[i] : m <= k => m \in L[k]
             /\ \E r \in L[i] : up[r] = 0
  BY <1>1, <1>2, <1>4, LineFacts
<1>5. \A i \in Object : /\ L[i] \subseteq 1 .. i /\ i \in L[i]
                        /\ \A m \in L[i] : L[m] \subseteq L[i]
                        /\ \A m, k \in L[i] : m <= k => m \in L[k]
  BY <1>4 DEF Object
<1>6. \A i \in Object : \A m \in L[i] : m \in Object
  BY <1>2, <1>5 DEF Object
<1> QED
  BY <1>3, <1>5, <1>6

\* The lines of a document's objects.
LEMMA DocLines ==
  ASSUME DocOK(doc)
  PROVE  \E L : /\ \A i \in Object : L[i] = Line(doc.up, i) /\ L[i] \subseteq 1 .. i /\ i \in L[i]
                /\ \A i \in Object : \A m \in L[i] : m \in Object /\ L[m] \subseteq L[i]
                /\ \A i \in Object : \A m, k \in L[i] : m <= k => m \in L[k]
<1>1. PICK up : up = doc.up
  OBVIOUS
<1>2. IsForest(Size, up)
  BY <1>1, DocForest
<1>3. PICK L : L = [i \in Object |-> Line(up, i)]
  OBVIOUS
<1>4. /\ \A i \in Object : L[i] = Line(doc.up, i) /\ L[i] \subseteq 1 .. i /\ i \in L[i]
      /\ \A i \in Object : \A m \in L[i] : m \in Object /\ L[m] \subseteq L[i]
      /\ \A i \in Object : \A m, k \in L[i] : m <= k => m \in L[k]
  BY <1>1, <1>2, <1>3, ForestLines
<1> QED
  BY <1>4, Zenon

\* The line of an object that lies in another one.
LEMMA DocParent ==
  ASSUME DocOK(doc), NEW j \in Object, doc.up[j] # 0
  PROVE  /\ doc.up[j] \in Object /\ doc.up[j] < j
         /\ Line(doc.up, j) = {j} \cup Line(doc.up, doc.up[j])
<1>1. PICK up : up = doc.up
  OBVIOUS
<1>2. IsForest(Size, up) /\ j \in 1 .. Size
  BY <1>1, DocForest DEF Object
<1>3. up[j] \in 1 .. Size /\ up[j] < j
  BY <1>1, <1>2 DEF IsForest
<1>4. Ascent(up, j)[Size] = {j} \cup Ascent(up, up[j])[Size]
  BY <1>1, <1>2, LineIs
<1> QED
  BY <1>1, <1>3, <1>4, LineIsAscent DEF Object

\* A subtree: its object first, its last object last.
LEMMA SubtreeFacts ==
  ASSUME DocOK(doc), NEW i \in Object
  PROVE  /\ i \in Subtree(i) /\ Subtree(i) \subseteq Object
         /\ Final(i) \in Subtree(i) /\ \A j \in Subtree(i) : i <= j /\ j <= Final(i)
         /\ \A j \in Subtree(i) : Subtree(j) \subseteq Subtree(i)
         /\ \A j \in Object : doc.up[j] \in Subtree(i) => j \in Subtree(i)
<1>2. PICK L : /\ \A k \in Object : L[k] = Line(doc.up, k) /\ L[k] \subseteq 1 .. k /\ k \in L[k]
               /\ \A k \in Object : \A m \in L[k] : m \in Object /\ L[m] \subseteq L[k]
  BY DocLines
<1>3. PICK S : S = Subtree(i)
  OBVIOUS
<1>4. \A j : j \in S <=> j \in Object /\ i \in L[j]
  BY <1>2, <1>3 DEF Subtree
<1>5. S \subseteq Object /\ i \in S
  BY <1>2, <1>4
<1>6. ASSUME NEW j \in S PROVE i <= j
  <2>1. i \in 1 .. j /\ j \in Object
    BY <1>2, <1>4
  <2> QED
    BY <2>1 DEF Object
<1>7. Final(i) \in S /\ \A j \in S : j <= Final(i)
  <2>1. Size \in Nat /\ S \in SUBSET (1 .. Size) /\ S # {}
    BY <1>5, CompileAssumption DEF Object
  <2>2. \E r \in S : \A s \in S : s <= r
    BY <2>1, GreatestNat
  <2>3. Final(i) = CHOOSE r \in S : \A s \in S : s <= r
    BY <1>3 DEF Final
  <2> QED
    BY <2>2, <2>3
<1>8. ASSUME NEW j \in S PROVE Subtree(j) \subseteq S
  <2>1. ASSUME NEW k \in Subtree(j) PROVE k \in S
    <3>1. k \in Object /\ j \in L[k]
      BY <1>2, <2>1 DEF Subtree
    <3>2. L[j] \subseteq L[k] /\ i \in L[j]
      BY <1>2, <1>4, <3>1
    <3> QED
      BY <1>4, <3>1, <3>2
  <2> QED
    BY <2>1
<1>9. ASSUME NEW j \in Object, doc.up[j] \in S PROVE j \in S
  <2>1. doc.up[j] # 0
    BY <1>5, <1>9 DEF Object
  <2>2. Line(doc.up, j) = {j} \cup Line(doc.up, doc.up[j]) /\ doc.up[j] \in Object
    BY <2>1, DocParent
  <2>3. i \in L[doc.up[j]]
    BY <1>4, <1>9
  <2>4. i \in L[j]
    BY <1>2, <2>2, <2>3
  <2> QED
    BY <1>4, <2>4
<1> QED
  BY <1>3, <1>5, <1>6, <1>7, <1>8, <1>9

\* Numbered in document order, a subtree is an interval.
LEMMA SubtreeInterval ==
  ASSUME DocOK(doc), NEW i \in Object, NEW j \in Object, i <= j, j <= Final(i)
  PROVE  j \in Subtree(i)
<1>1. Final(i) \in Subtree(i) /\ Final(i) \in Object /\ i <= Final(i)
  BY SubtreeFacts
<1>2. PICK f \in Nat : f = Final(i) /\ f \in Subtree(i) /\ f \in Object /\ i <= f /\ j <= f
  BY <1>1 DEF Object
<1> DEFINE T == {n \in Nat : f - n >= i => f - n \in Subtree(i)}
<1>3. 0 \in T
  BY <1>2
<1>4. ASSUME NEW n \in T PROVE n + 1 \in T
  <2>1. CASE f - (n + 1) >= i
    <3>1. PICK k \in Nat : k = f - n /\ k - 1 = f - (n + 1) /\ k - 1 >= i /\ k >= i /\ k <= f
      BY <1>2, <2>1 DEF Object
    <3>2. k \in Subtree(i) /\ k \in Object
      BY <1>2, <1>4, <3>1, SubtreeFacts
    <3>3. k # Root /\ k - 1 \in Object
      <4>1. i >= 1 /\ Size \in Nat /\ k \in 1 .. Size
        BY <3>2, CompileAssumption DEF Object
      <4> QED
        BY <3>1, <4>1 DEF Root, Object
    <3>4. doc.up[k] \in Line(doc.up, k - 1) /\ doc.up[k] # 0
      BY <3>2, <3>3, DocForest DEF DocOK, IsDocument
    <3>5. Line(doc.up, k) = {k} \cup Line(doc.up, doc.up[k]) /\ doc.up[k] \in Object
      BY <3>2, <3>4, DocParent
    <3>6. i # k /\ i \in Line(doc.up, k)
      BY <3>1, <3>2 DEF Subtree, Object
    <3>7. i \in Line(doc.up, doc.up[k])
      BY <3>5, <3>6
    <3>8. Line(doc.up, doc.up[k]) \subseteq Line(doc.up, k - 1)
      <4>1. PICK L : /\ \A n2 \in Object : L[n2] = Line(doc.up, n2)
                     /\ \A n2 \in Object : \A m \in L[n2] : m \in Object /\ L[m] \subseteq L[n2]
        BY DocLines
      <4> QED
        BY <3>3, <3>4, <3>5, <4>1
    <3>9. k - 1 \in Subtree(i)
      BY <3>3, <3>7, <3>8 DEF Subtree
    <3> QED
      BY <3>1, <3>9
  <2> QED
    BY <2>1
<1>5. T \in SUBSET Nat
  OBVIOUS
<1> HIDE DEF T
<1>6. T = Nat
  BY <1>3, <1>4, <1>5, InductiveSet
<1>7. f - j \in Nat /\ f - (f - j) = j
  BY <1>2 DEF Object
<1>8. f - j \in T
  BY <1>6, <1>7
<1> QED
  BY <1>7, <1>8 DEF T

\* The document stays, and all that is read off it.
LEMMA DocKept ==
  ASSUME doc' = doc
  PROVE  /\ Anchors' = Anchors /\ DocOK(doc)' = DocOK(doc) /\ FirstCollected' = FirstCollected
         /\ \A i : Subtree(i)' = Subtree(i) /\ Final(i)' = Final(i)
         /\ \A i : Members(i)' = Members(i)
<1>1. Anchors' = Anchors
  BY DEF Anchors
<1>2. ASSUME NEW i PROVE Subtree(i)' = Subtree(i)
  BY DEF Subtree
<1>3. ASSUME NEW i PROVE Final(i)' = Final(i)
  BY <1>2, Zenon DEF Final
<1>4. ASSUME NEW i PROVE Members(i)' = Members(i)
  BY Zenon DEF Members
<1>5. \A i, j : CollectedBefore(i, j)' <=> CollectedBefore(i, j)
  BY <1>2 DEF CollectedBefore
<1>6. FirstCollected' = FirstCollected
  BY <1>1, <1>5 DEF FirstCollected
<1> QED
  BY <1>1, <1>2, <1>3, <1>4, <1>6

\* No two anchors are collected before all others.
LEMMA FirstIsOne ==
  ASSUME DocOK(doc), NEW i \in FirstCollected, NEW j \in FirstCollected
  PROVE  i = j
<1>1. i \in Object /\ j \in Object
  BY DEF FirstCollected, Anchors
<1>2. SUFFICES ASSUME i # j PROVE FALSE
  OBVIOUS
<1>3. CollectedBefore(i, j) /\ CollectedBefore(j, i)
  BY <1>2 DEF FirstCollected
<1>4. ~(i \in Subtree(j) /\ j \in Subtree(i))
  <2>1. i \in Subtree(j) /\ j \in Subtree(i) => i <= j /\ j <= i
    BY <1>1, SubtreeFacts
  <2> QED
    BY <1>1, <1>2, <2>1 DEF Object
<1>5. CASE i \in Subtree(j) \/ j \in Subtree(i)
  BY <1>3, <1>4, <1>5 DEF CollectedBefore
<1>6. CASE ~(i \in Subtree(j) \/ j \in Subtree(i))
  <2>1. i < j /\ j < i
    BY <1>3, <1>6 DEF CollectedBefore
  <2> QED
    BY <1>1, <2>1 DEF Object
<1> QED
  BY <1>5, <1>6

-------------------------------------------------------------------------------
(***************************************************************************)
(* What the calls on the stack have to do with each other.                 *)
(***************************************************************************)
Touched(mem) == {i \in Object : mem[i] # "none"}
Returns(r) == r \notin {Idle, 0}

\* A walk calls the object it has come to.
Walking(stk) ==
  /\ \A a \in 1 .. Len(stk) : stk[a].fn = "attach" =>
       stk[a].last = Final(stk[a].v) /\ stk[a].m >= stk[a].v
  /\ \A a, b \in 1 .. Len(stk) : b = a + 1 /\ stk[a].fn # "compile" =>
       stk[b].fn # "local" /\ stk[b].v = stk[a].m /\ stk[a].m <= stk[a].last
Visited(stk, r) ==
  \A a \in 1 .. Len(stk) : a = Len(stk) /\ stk[a].fn # "compile" /\ Returns(r) =>
    r = stk[a].m /\ r <= stk[a].last

\* Anchors that were read are of objects that were called, entries of the
\* accumulator are anchors that were read.
Noted(mem, an, ac, r) ==
  /\ an \subseteq Anchors \cap Touched(mem) /\ Root \in Touched(mem)
  /\ \A j \in 1 .. Len(ac) : ac[j] \in an
  /\ Returns(r) => r \in Touched(mem)

LInv == Walking(stack) /\ Visited(stack, ret) /\ Noted(memo, anchored, acc, ret)

\* A new activation, called by the walk below it.
LEMMA WalkPush ==
  ASSUME NEW stk \in Seq(FrameType), Walking(stk), NEW f \in FrameType,
         f.fn = "attach" => f.last = Final(f.v) /\ f.m >= f.v,
         \A a \in 1 .. Len(stk) : a = Len(stk) /\ stk[a].fn # "compile" =>
           f.fn # "local" /\ f.v = stk[a].m /\ stk[a].m <= stk[a].last,
         NEW stk2, stk2 = Append(stk, f)
  PROVE  Walking(stk2)
<1>1. PICK l \in Nat : l = Len(stk)
  OBVIOUS
<1>2. /\ Len(stk2) = l + 1 /\ stk2[l + 1] = f /\ \A a \in 1 .. l : stk2[a] = stk[a]
      /\ \A a \in 1 .. l + 1 : a = l + 1 \/ a \in 1 .. l
  BY <1>1
<1>3. ASSUME NEW a \in 1 .. l + 1, stk2[a].fn = "attach"
      PROVE  stk2[a].last = Final(stk2[a].v) /\ stk2[a].m >= stk2[a].v
  <2>1. CASE a = l + 1
    BY <1>2, <1>3, <2>1
  <2>2. CASE a \in 1 .. l
    BY <1>1, <1>2, <1>3, <2>2 DEF Walking
  <2> QED
    BY <1>2, <2>1, <2>2
<1>4. ASSUME NEW a \in 1 .. l + 1, NEW b \in 1 .. l + 1, b = a + 1, stk2[a].fn # "compile"
      PROVE  stk2[b].fn # "local" /\ stk2[b].v = stk2[a].m /\ stk2[a].m <= stk2[a].last
  <2>1. a \in 1 .. l
    BY <1>4
  <2>2. CASE b = l + 1
    <3>1. a = l
      BY <1>4, <2>1, <2>2
    <3> QED
      BY <1>1, <1>2, <1>4, <2>1, <2>2, <3>1
  <2>3. CASE b \in 1 .. l
    BY <1>1, <1>2, <1>4, <2>1, <2>3 DEF Walking
  <2> QED
    BY <1>2, <2>2, <2>3
<1> QED
  BY <1>2, <1>3, <1>4 DEF Walking

\* The newest activation ends.
LEMMA WalkPop ==
  ASSUME NEW stk \in Seq(FrameType), Walking(stk), Len(stk) > 0,
         NEW stk2, stk2 = SubSeq(stk, 1, Len(stk) - 1)
  PROVE  Walking(stk2)
<1>1. PICK l \in Nat : Len(stk) = l + 1
  <2>1. Len(stk) - 1 \in Nat /\ Len(stk) = (Len(stk) - 1) + 1
    OBVIOUS
  <2> QED
    BY <2>1
<1>2. Len(stk2) = l /\ \A a \in 1 .. l : stk2[a] = stk[a] /\ a \in 1 .. Len(stk)
  BY <1>1
<1>3. ASSUME NEW a \in 1 .. l, stk2[a].fn = "attach"
      PROVE  stk2[a].last = Final(stk2[a].v) /\ stk2[a].m >= stk2[a].v
  BY <1>2, <1>3 DEF Walking
<1>4. ASSUME NEW a \in 1 .. l, NEW b \in 1 .. l, b = a + 1, stk2[a].fn # "compile"
      PROVE  stk2[b].fn # "local" /\ stk2[b].v = stk2[a].m /\ stk2[a].m <= stk2[a].last
  BY <1>2, <1>4 DEF Walking
<1> QED
  BY <1>2, <1>3, <1>4 DEF Walking

\* It moves on.
LEMMA WalkTurn ==
  ASSUME NEW stk \in Seq(FrameType), Walking(stk), Len(stk) > 0,
         NEW m \in Nat, m >= stk[Len(stk)].m, NEW stk2, stk2 = [stk EXCEPT ![Len(stk)].m = m]
  PROVE  Walking(stk2)
<1>1. PICK l \in Nat : l = Len(stk) /\ l \in 1 .. l
  OBVIOUS
<1>2. PICK f \in FrameType : f = stk[l]
  BY <1>1
<1>3. PICK g : g = [f EXCEPT !.m = m]
  OBVIOUS
<1>4. /\ g.fn = f.fn /\ g.v = f.v /\ g.last = f.last /\ g.m = m /\ f.m \in Nat /\ f.v \in Object
  BY <1>3 DEF FrameType
<1>5. /\ Len(stk2) = l /\ stk2[l] = g /\ \A a \in 1 .. l : a # l => stk2[a] = stk[a]
  <2>1. stk2 = [stk EXCEPT ![l] = g]
    BY <1>1, <1>2, <1>3
  <2> QED
    BY <1>1, <2>1
<1>6. ASSUME NEW a \in 1 .. l, stk2[a].fn = "attach"
      PROVE  stk2[a].last = Final(stk2[a].v) /\ stk2[a].m >= stk2[a].v
  <2>1. CASE a = l
    <3>1. f.last = Final(f.v) /\ f.m >= f.v /\ m >= f.m
      BY <1>1, <1>2, <1>4, <1>5, <1>6, <2>1 DEF Walking
    <3>2. m >= f.v
      BY <1>4, <3>1 DEF Object
    <3> QED
      BY <1>4, <1>5, <2>1, <3>1, <3>2
  <2>2. CASE a # l
    BY <1>1, <1>5, <1>6, <2>2 DEF Walking
  <2> QED
    BY <2>1, <2>2
<1>7. ASSUME NEW a \in 1 .. l, NEW b \in 1 .. l, b = a + 1, stk2[a].fn # "compile"
      PROVE  stk2[b].fn # "local" /\ stk2[b].v = stk2[a].m /\ stk2[a].m <= stk2[a].last
  <2>1. a # l /\ stk2[a] = stk[a]
    BY <1>5, <1>7
  <2>2. stk2[b].fn = stk[b].fn /\ stk2[b].v = stk[b].v
    BY <1>2, <1>4, <1>5
  <2> QED
    BY <1>1, <1>7, <2>1, <2>2 DEF Walking
<1> QED
  BY <1>5, <1>6, <1>7 DEF Walking

\* A call that is the walk's, if a walk is the newest activation.
LEMMA CallWalks ==
  ASSUME IInv, LInv, NEW stk \in Seq(FrameType), Walking(stk), NEW v \in Object,
         Call(stk, v), Rest,
         \A a \in 1 .. Len(stk) : a = Len(stk) /\ stk[a].fn # "compile" =>
           v = stk[a].m /\ v <= stk[a].last
  PROVE  LInv'
<1>1. /\ memo \in [Object -> {"none", "busy", "done"}] /\ cur \in Object
      /\ Noted(memo, anchored, acc, ret)
  BY DEF IInv, LInv
<1>2. doc' = doc /\ anchored' = anchored /\ acc' = acc
  BY DEF Rest
<1>3. CASE memo[v] \in {"busy", "done"}
  <2>1. ret' = v /\ stack' = stk /\ memo' = memo
    BY <1>3 DEF Call, Calls
  <2>2. Visited(stk, v)
    BY DEF Visited
  <2>3. Noted(memo, anchored, acc, v)
    BY <1>1, <1>3 DEF Noted, Touched
  <2> QED
    BY <1>2, <2>1, <2>2, <2>3, DocKept DEF LInv, Walking, Visited, Noted, Touched
<1>4. CASE memo[v] \notin {"busy", "done"}
  <2>1. PICK f, stk2, mem : /\ f = Frame("compile", v, 1, 0, cur, 0) /\ stk2 = Append(stk, f)
                            /\ mem = [memo EXCEPT ![v] = "busy"]
    OBVIOUS
  <2>2. stack' = stk2 /\ memo' = mem /\ ret' = Idle
    BY <1>4, <2>1 DEF Call, Calls
  <2>3. f \in FrameType /\ f.fn = "compile" /\ f.v = v
    <3>1. cur \in 0 .. Size /\ 0 \in 0 .. Size
      BY <1>1, CompileAssumption DEF Object
    <3>2. f = [fn |-> "compile", v |-> v, m |-> 1, last |-> 0, saved |-> cur, base |-> 0]
      BY <2>1 DEF Frame
    <3> QED
      BY <3>1, <3>2 DEF FrameType
  <2>4. Walking(stk2)
    BY <2>1, <2>3, WalkPush
  <2>5. Visited(stk2, Idle)
    BY DEF Visited, Returns
  <2>6. \A i \in Object : memo[i] # "none" => mem[i] # "none"
    BY <1>1, <2>1
  <2>7. Noted(mem, anchored, acc, Idle)
    BY <1>1, <2>6 DEF Noted, Touched, Returns
  <2> QED
    BY <1>2, <2>2, <2>4, <2>5, <2>7, DocKept DEF LInv, Walking, Visited, Noted, Touched
<1> QED
  BY <1>3, <1>4

\* The newest activation moves on.
LEMMA TurnWalks ==
  ASSUME IInv, LInv, stack # << >>, stack' = Turn(Top.m + 1), ret' = Idle, UNCHANGED <<doc, memo>>,
         anchored' \subseteq Anchors \cap Touched(memo), anchored \subseteq anchored',
         \A j \in 1 .. Len(acc') : acc'[j] \in anchored'
  PROVE  LInv'
<1>1. PICK m, stk2 : m = Top.m + 1 /\ stk2 = stack'
  OBVIOUS
<1>2. m \in Nat /\ m >= stack[Len(stack)].m /\ stack \in Seq(FrameType) /\ Len(stack) > 0
  BY <1>1, TopIs
<1>3. Walking(stk2)
  BY <1>1, <1>2, WalkTurn DEF Turn, LInv
<1>4. Visited(stk2, Idle)
  BY DEF Visited, Returns
<1>5. Noted(memo, anchored', acc', Idle)
  BY DEF LInv, Noted, Returns
<1> QED
  BY <1>1, <1>3, <1>4, <1>5, DocKept DEF LInv, Walking, Visited, Noted, Touched

\* It fails.
LEMMA FailWalks ==
  ASSUME IInv, LInv, stack # << >>, Fail, Rest
  PROVE  LInv'
<1>1. PICK stk2 : stk2 = Pop
  OBVIOUS
<1>2. Walking(stk2)
  BY <1>1, TopIs, WalkPop DEF Pop, LInv
<1>3. Visited(stk2, 0) /\ Noted(memo, anchored, acc, 0)
  BY DEF Visited, Returns, LInv, Noted
<1> QED
  BY <1>1, <1>2, <1>3, DocKept DEF Fail, Rest, LInv, Walking, Visited, Noted, Touched

\* Subschemas and references are called by the object that is read.
LEMMA ReadWalks ==
  ASSUME IInv, LInv, Subschema \/ Ref \/ Bad
  PROVE  LInv'
<1>1. /\ Reads /\ Rest /\ stack # << >> /\ stack \in Seq(FrameType) /\ Top = stack[Len(stack)]
      /\ Top.v \in Object
  BY TopIs DEF Subschema, Ref, Bad, Reading, Reads, Kept, Rest
<1>2. ASSUME NEW v \in Object, Call(stack, v) PROVE LInv'
  <2>1. \A a \in 1 .. Len(stack) : ~(a = Len(stack) /\ stack[a].fn # "compile")
    BY <1>1 DEF Reads
  <2> QED
    BY <1>1, <1>2, <2>1, CallWalks DEF LInv
<1>3. CASE Subschema
  <2>1. Read \in Object /\ Call(stack, Read)
    BY <1>3, ReadIs DEF Subschema
  <2> QED
    BY <1>2, <2>1
<1>4. CASE Ref
  <2>1. PICK to \in Resolve(Top.v) : IF to = 0 THEN Fail ELSE Call(stack, to)
    BY <1>4 DEF Ref
  <2>2. PICK v \in Object : v = Top.v /\ doc.use[v].kw = "ref"
    BY <1>1, <1>4 DEF Ref, Reading
  <2>3. to # 0 => to \in Object
    BY <2>1, <2>2, ResolveIs
  <2> QED
    BY <1>1, <1>2, <2>1, <2>3, FailWalks
<1>5. CASE Bad
  BY <1>1, <1>5, FailWalks DEF Bad
<1> QED
  BY <1>3, <1>4, <1>5

\* Keywords that only move on, calls that come back.
LEMMA KeywordWalks ==
  ASSUME IInv, LInv, Ignored \/ Anchor \/ Dependency \/ Returned
  PROVE  LInv'
<1>1. /\ stack # << >> /\ Top.v \in Object /\ Top.fn = "compile" /\ memo[Top.v] = "busy"
      /\ UNCHANGED <<doc, acc>>
  BY TopIs DEF Ignored, Anchor, Dependency, Returned, Return, Reading, Reads, Kept
<1>2. Noted(memo, anchored, acc, ret)
  BY DEF LInv
<1>3. CASE Ignored \/ Anchor \/ Dependency
  <2>1. stack' = Turn(Top.m + 1) /\ ret' = Idle /\ memo' = memo
    BY <1>3 DEF Ignored, Anchor, Dependency, Reading, Reads
  <2>2. anchored' \subseteq Anchors \cap Touched(memo) /\ anchored \subseteq anchored'
    BY <1>1, <1>2, <1>3 DEF Ignored, Anchor, Dependency, Reading, Noted, Anchors, Touched
  <2> QED
    BY <1>1, <1>2, <2>1, <2>2, TurnWalks DEF Noted
<1>4. CASE Returned
  <2>1. CASE ret = 0
    BY <1>1, <1>4, <2>1, FailWalks DEF Returned, Return, Rest, Kept
  <2>2. CASE ret # 0
    BY <1>1, <1>2, <1>4, <2>2, TurnWalks DEF Returned, Return, Noted
  <2> QED
    BY <2>1, <2>2
<1> QED
  BY <1>3, <1>4

\* A local walk begins at a compilation.
LEMMA DynamicRefWalks ==
  ASSUME IInv, LInv, DynamicRef
  PROVE  LInv'
<1>1. PICK f, stk2 : /\ f = Frame("local", Top.v, cur, Final(cur), 0, Len(acc))
                     /\ stk2 = Append(stack, f)
  OBVIOUS
<1>2. /\ stack # << >> /\ Top.fn = "compile" /\ stack' = stk2 /\ ret' = Idle
      /\ UNCHANGED <<doc, memo, anchored, acc>>
  BY <1>1 DEF DynamicRef, Reading, Reads, Kept
<1>3. stack \in Seq(FrameType) /\ Top = stack[Len(stack)] /\ Top.v \in Object
  BY <1>2, TopIs
<1>4. f \in FrameType /\ f.fn = "local"
  <2>1. f = [fn |-> "local", v |-> Top.v, m |-> cur, last |-> Final(cur), saved |-> 0,
             base |-> Len(acc)]
    BY <1>1 DEF Frame
  <2>2. cur \in Object /\ acc \in Seq(Object) /\ DocOK(doc)
    BY DEF IInv
  <2>3. cur \in Nat /\ Final(cur) \in 0 .. Size /\ 0 \in 0 .. Size /\ Len(acc) \in Nat
    BY <2>2, FinalIs, CompileAssumption DEF Object
  <2> QED
    BY <1>3, <2>1, <2>3 DEF FrameType
<1>5. Walking(stk2)
  BY <1>1, <1>2, <1>3, <1>4, WalkPush DEF LInv
<1>6. Visited(stk2, Idle) /\ Noted(memo, anchored, acc, Idle)
  BY DEF Visited, Returns, LInv, Noted
<1> QED
  BY <1>2, <1>5, <1>6, DocKept DEF LInv, Walking, Visited, Noted, Touched

\* The self scope's walk takes the place of the keyword loop.
LEMMA LoopEndsWalks ==
  ASSUME IInv, LInv, LoopEnds
  PROVE  LInv'
<1>1. PICK f, stk1, stk2 : /\ f = Frame("attach", Top.v, Top.v, Final(Top.v), 0, Len(acc))
                           /\ stk1 = Pop /\ stk2 = Append(stk1, f)
  OBVIOUS
<1>2. /\ stack # << >> /\ Top.fn = "compile" /\ stack' = stk2 /\ ret' = Idle
      /\ UNCHANGED <<doc, memo, anchored, acc>>
  BY <1>1 DEF LoopEnds, Kept
<1>3. /\ stack \in Seq(FrameType) /\ Len(stack) > 0 /\ Top = stack[Len(stack)] /\ Top.v \in Object
      /\ Walking(stack)
  BY <1>2, TopIs DEF LInv
<1>4. PICK l \in Nat : Len(stack) = l + 1
  <2>1. Len(stack) - 1 \in Nat /\ Len(stack) = (Len(stack) - 1) + 1
    BY <1>3
  <2> QED
    BY <2>1
<1>5. f \in FrameType /\ f.fn = "attach" /\ f.v = Top.v /\ f.last = Final(f.v) /\ f.m >= f.v
  <2>1. f = [fn |-> "attach", v |-> Top.v, m |-> Top.v, last |-> Final(Top.v), saved |-> 0,
             base |-> Len(acc)]
    BY <1>1 DEF Frame
  <2>2. acc \in Seq(Object) /\ DocOK(doc)
    BY DEF IInv
  <2>3. Final(Top.v) \in Object
    BY <1>3, <2>2, FinalIs
  <2>4. Top.v \in Nat /\ Final(Top.v) \in 0 .. Size /\ 0 \in 0 .. Size /\ Len(acc) \in Nat
    BY <1>3, <2>2, <2>3, CompileAssumption DEF Object
  <2> QED
    BY <1>3, <2>1, <2>4 DEF FrameType
<1>6. stk1 \in Seq(FrameType) /\ Len(stk1) = l /\ \A a \in 1 .. l : stk1[a] = stack[a]
  BY <1>1, <1>3, <1>4 DEF Pop
<1>7. Walking(stk1)
  BY <1>1, <1>3, WalkPop DEF Pop
<1>8. ASSUME NEW a \in 1 .. Len(stk1), a = Len(stk1), stk1[a].fn # "compile"
      PROVE  f.fn # "local" /\ f.v = stk1[a].m /\ stk1[a].m <= stk1[a].last
  <2>1. PICK b \in 1 .. Len(stack) : b = a + 1 /\ b = Len(stack)
    BY <1>4, <1>6, <1>8
  <2>2. a \in 1 .. Len(stack) /\ stk1[a] = stack[a] /\ stack[b] = Top
    BY <1>3, <1>4, <1>6, <1>8, <2>1
  <2> QED
    BY <1>3, <1>5, <1>8, <2>1, <2>2 DEF Walking
<1>9. Walking(stk2)
  BY <1>1, <1>5, <1>6, <1>7, <1>8, WalkPush
<1>10. Visited(stk2, Idle) /\ Noted(memo, anchored, acc, Idle)
  BY DEF Visited, Returns, LInv, Noted
<1> QED
  BY <1>2, <1>9, <1>10, DocKept DEF LInv, Walking, Visited, Noted, Touched

\* A walk's visit.
LEMMA VisitWalks ==
  ASSUME IInv, LInv, Visit
  PROVE  LInv'
<1>1. stack # << >> /\ Top.fn # "compile" /\ Top.m <= Top.last /\ Call(stack, Top.m) /\ Rest
  BY DEF Visit, Walks, Kept, Rest
<1>2. Top.m \in Object /\ stack \in Seq(FrameType) /\ Top = stack[Len(stack)]
  <2>1. Top.m \in Nat /\ Top.m >= 1 /\ Top.last \in Object
    BY <1>1, TopIs DEF FrameOK
  <2> QED
    BY <1>1, <2>1, TopIs, CompileAssumption DEF Object
<1>3. PICK v \in Object : v = Top.m /\ Call(stack, v)
  BY <1>1, <1>2
<1>4. \A a \in 1 .. Len(stack) : a = Len(stack) /\ stack[a].fn # "compile" =>
        v = stack[a].m /\ v <= stack[a].last
  BY <1>1, <1>2, <1>3
<1> QED
  BY <1>1, <1>2, <1>3, <1>4, CallWalks DEF LInv

\* What it visited.
LEMMA NoteWalks ==
  ASSUME IInv, LInv, Note
  PROVE  LInv'
<1>1. /\ stack # << >> /\ stack' = Turn(Top.m + 1) /\ ret' = Idle
      /\ UNCHANGED <<doc, memo, anchored>>
      /\ acc' = IF ret \in anchored THEN Append(acc, ret) ELSE acc
  BY DEF Note, Walks
<1>2. Noted(memo, anchored, acc, ret) /\ acc \in Seq(Object)
  BY DEF LInv, IInv
<1>3. \A j \in 1 .. Len(acc') : acc'[j] \in anchored
  <2>1. CASE ret \notin anchored
    BY <1>1, <1>2, <2>1 DEF Noted
  <2>2. CASE ret \in anchored
    <3>1. Len(acc') = Len(acc) + 1 /\ acc'[Len(acc) + 1] = ret
          /\ \A j \in 1 .. Len(acc) : acc'[j] = acc[j]
      BY <1>1, <1>2, <2>2
    <3>2. \A j \in 1 .. Len(acc') : j = Len(acc) + 1 \/ j \in 1 .. Len(acc)
      BY <1>2, <3>1
    <3> QED
      BY <1>2, <2>2, <3>1, <3>2 DEF Noted
  <2> QED
    BY <2>1, <2>2
<1> QED
  BY <1>1, <1>2, <1>3, TurnWalks DEF Noted

\* attach_self_scope returns to the walk that called.
LEMMA AttachWalks ==
  ASSUME IInv, LInv, Attach
  PROVE  LInv'
<1>1. PICK b, stk1 : b = Top.base /\ stk1 = Pop
  OBVIOUS
<1>2. /\ stack # << >> /\ Top.fn = "attach"
      /\ acc' = SubSeq(acc, 1, b) /\ memo' = [memo EXCEPT ![Top.v] = "done"]
      /\ stack' = stk1 /\ ret' = Top.v /\ UNCHANGED <<doc, anchored>>
  BY <1>1 DEF Attach, AttachTo, Walks, Kept
<1>3. /\ stack \in Seq(FrameType) /\ Len(stack) > 0 /\ Top = stack[Len(stack)] /\ Top.v \in Object
      /\ b \in 0 .. Len(acc) /\ Walking(stack)
  BY <1>1, <1>2, TopIs DEF LInv
<1>4. PICK l \in Nat : Len(stack) = l + 1
  <2>1. Len(stack) - 1 \in Nat /\ Len(stack) = (Len(stack) - 1) + 1
    BY <1>3
  <2> QED
    BY <2>1
<1>5. Len(stk1) = l /\ \A a \in 1 .. l : stk1[a] = stack[a]
  BY <1>1, <1>3, <1>4 DEF Pop
<1>6. Walking(stk1)
  BY <1>1, <1>3, WalkPop DEF Pop
<1>7. Visited(stk1, Top.v)
  <2>1. ASSUME NEW a \in 1 .. Len(stk1), a = Len(stk1), stk1[a].fn # "compile"
        PROVE  Top.v = stk1[a].m /\ Top.v <= stk1[a].last
    <3>1. PICK c \in 1 .. Len(stack) : c = a + 1 /\ c = Len(stack)
      BY <1>4, <1>5, <2>1
    <3>2. a \in 1 .. Len(stack) /\ stk1[a] = stack[a] /\ stack[c] = Top
      BY <1>3, <1>4, <1>5, <2>1, <3>1
    <3>3. stack[c].v = stack[a].m /\ stack[a].m <= stack[a].last
      BY <1>3, <2>1, <3>1, <3>2 DEF Walking
    <3> QED
      BY <3>2, <3>3
  <2> QED
    BY <2>1 DEF Visited
<1>8. PICK mem, ac : mem = [memo EXCEPT ![Top.v] = "done"] /\ ac = SubSeq(acc, 1, b)
  OBVIOUS
<1>9. Noted(mem, anchored, ac, Top.v)
  <2>1. Noted(memo, anchored, acc, ret) /\ memo \in [Object -> {"none", "busy", "done"}]
        /\ acc \in Seq(Object)
    BY DEF LInv, IInv
  <2>2. \A i \in Object : (memo[i] # "none" => mem[i] # "none") /\ mem[Top.v] = "done"
    BY <1>3, <1>8, <2>1
  <2>3. Len(ac) = b /\ \A j \in 1 .. b : ac[j] = acc[j] /\ j \in 1 .. Len(acc)
    BY <1>3, <1>8, <2>1
  <2> QED
    BY <1>3, <2>1, <2>2, <2>3 DEF Noted, Touched
<1> QED
  BY <1>2, <1>6, <1>7, <1>8, <1>9, DocKept DEF LInv, Walking, Visited, Noted, Touched

\* Below a local walk stands the compilation that began it.
LEMMA LocalWalks ==
  ASSUME IInv, LInv, Local
  PROVE  LInv'
<1>1. /\ stack # << >> /\ Top.fn = "local" /\ Rest
      /\ IF Len(acc) > Top.base THEN Call(Pop, acc[Top.base + 1])
         ELSE IF Anchors # {} THEN \E i \in FirstCollected : Call(Pop, i)
         ELSE Fail
  BY DEF Local, Walks, Kept, Rest
<1>2. /\ stack \in Seq(FrameType) /\ Len(stack) > 0 /\ Top = stack[Len(stack)] /\ Top.v \in Object
      /\ Top.base \in 0 .. Len(acc) /\ Walking(stack) /\ acc \in Seq(Object)
  BY <1>1, TopIs DEF LInv, IInv
<1>3. PICK l \in Nat : Len(stack) = l + 1
  <2>1. Len(stack) - 1 \in Nat /\ Len(stack) = (Len(stack) - 1) + 1
    BY <1>2
  <2> QED
    BY <2>1
<1>4. PICK stk1 \in Seq(FrameType) : /\ stk1 = Pop /\ Len(stk1) = l
                                     /\ \A a \in 1 .. l : stk1[a] = stack[a]
  <2>1. Pop = SubSeq(stack, 1, l)
    BY <1>3 DEF Pop
  <2>2. SubSeq(stack, 1, l) \in Seq(FrameType) /\ Len(SubSeq(stack, 1, l)) = l
        /\ \A a \in 1 .. l : SubSeq(stack, 1, l)[a] = stack[a]
    BY <1>2, <1>3
  <2> QED
    BY <2>1, <2>2
<1>5. Walking(stk1)
  BY <1>2, <1>4, WalkPop DEF Pop
<1>6. ASSUME NEW a \in 1 .. Len(stk1), a = Len(stk1) PROVE stk1[a].fn = "compile"
  <2>1. PICK c \in 1 .. Len(stack) : c = a + 1 /\ c = Len(stack)
    BY <1>3, <1>4, <1>6
  <2>2. a \in 1 .. Len(stack) /\ stk1[a] = stack[a] /\ stack[c] = Top
    BY <1>2, <1>3, <1>4, <1>6, <2>1
  <2> QED
    BY <1>1, <1>2, <2>1, <2>2 DEF Walking
<1>7. ASSUME NEW v \in Object, Call(stk1, v) PROVE LInv'
  BY <1>1, <1>4, <1>5, <1>6, <1>7, CallWalks
<1>8. CASE Len(acc) > Top.base
  <2>1. Top.base + 1 \in 1 .. Len(acc)
    BY <1>2, <1>8
  <2>2. acc[Top.base + 1] \in Object
    BY <1>2, <2>1
  <2> QED
    BY <1>1, <1>4, <1>7, <1>8, <2>2
<1>9. CASE ~(Len(acc) > Top.base) /\ Anchors # {}
  <2>1. PICK v \in FirstCollected : Call(Pop, v)
    BY <1>1, <1>9
  <2>2. v \in Object
    BY DEF FirstCollected, Anchors
  <2> QED
    BY <1>4, <1>7, <2>1, <2>2
<1>10. CASE ~(Len(acc) > Top.base) /\ Anchors = {}
  BY <1>1, <1>10, FailWalks
<1> QED
  BY <1>8, <1>9, <1>10

\* Every step keeps the walks.
LEMMA NextWalks == IInv /\ LInv /\ [Next]_vars => LInv'
<1> SUFFICES ASSUME IInv, LInv, [Next]_vars PROVE LInv'
  OBVIOUS
<1>1. CASE UNCHANGED vars
  BY <1>1, DocKept DEF LInv, Walking, Visited, Noted, Touched, vars
<1> QED
  BY <1>1, ReadWalks, KeywordWalks, DynamicRefWalks, LoopEndsWalks, VisitWalks, NoteWalks,
     AttachWalks, LocalWalks DEF Next

\* In the beginning there is none.
LEMMA InitWalks == Init => LInv
<1> SUFFICES ASSUME Init PROVE LInv
  OBVIOUS
<1>1. /\ stack = <<Frame("compile", Root, 1, 0, Root, 0)>> /\ anchored = {} /\ acc = << >>
      /\ ret = Idle /\ memo = [[i \in Object |-> "none"] EXCEPT ![Root] = "busy"]
  BY DEF Init, InitWith
<1>2. Len(stack) = 1 /\ stack[1].fn = "compile" /\ Len(acc) = 0
  BY <1>1 DEF Frame
<1>3. Root \in Object
  BY CompileAssumption DEF Root, Object
<1>4. Root \in Touched(memo)
  BY <1>1, <1>3 DEF Touched
<1>5. \A a \in 1 .. Len(stack) : a = 1
  BY <1>2
<1> QED
  BY <1>1, <1>2, <1>4, <1>5 DEF LInv, Walking, Visited, Noted, Returns

-------------------------------------------------------------------------------
(***************************************************************************)
(* The accumulator without $dynamicRefs, in segments: one for each walk of *)
(* attach_self_scope under way.                                            *)
(***************************************************************************)
OwnAnchors(i) == Subtree(i) \cap Anchors
NoDynamicRef == \A j \in Object : doc.use[j].kw # "dynref"

\* The entries of the walk in frame a.
Segment(stk, n, a) ==
  {j \in stk[a].base + 1 .. n :
     \A b \in 1 .. Len(stk) : a < b /\ stk[b].fn = "attach" => j <= stk[b].base}

\* They are anchors of its object, in order and below the object it has come
\* to, and all of these if none was dropped.
Sound(ac, S, own, m) ==
  /\ \A j \in S : ac[j] \in own /\ ac[j] < m
  /\ \A j, k \in S : j < k => ac[j] < ac[k]
Whole(ac, S, own, m) == \A x \in own : x < m => \E j \in S : ac[j] = x

SegmentsSound(stk, ac) ==
  \A a \in 1 .. Len(stk) :
    /\ stk[a].fn # "local"
    /\ stk[a].fn = "attach" =>
         Sound(ac, Segment(stk, Len(ac), a), OwnAnchors(stk[a].v), stk[a].m)
SegmentsWhole(stk, ac) ==
  \A a \in 1 .. Len(stk) : stk[a].fn = "attach" =>
    Whole(ac, Segment(stk, Len(ac), a), OwnAnchors(stk[a].v), stk[a].m)

ScopesSound(sc, mem) ==
  \A i \in Object : mem[i] = "done" => \A n \in DOMAIN sc[i] : sc[i][n] \in OwnAnchors(i)
ScopesWhole(sc, mem) ==
  \A i \in Object : mem[i] = "done" => sc[i] = InOrder(OwnAnchors(i))

SInv ==
  NoDynamicRef =>
    /\ SegmentsSound(stack, acc) /\ ScopesSound(scope, memo)
    /\ ~lost /\ ~missed => SegmentsWhole(stack, acc) /\ ScopesWhole(scope, memo)

\* A stack and its accumulator whose walks have the same segments.
SameSegments(stk, ac, stk2, ac2) ==
  \A a \in 1 .. Len(stk2) :
    /\ a \in 1 .. Len(stk) /\ stk2[a].fn = stk[a].fn
    /\ stk2[a].fn = "attach" =>
         /\ stk2[a].v = stk[a].v /\ stk2[a].m = stk[a].m
         /\ Segment(stk2, Len(ac2), a) = Segment(stk, Len(ac), a)
         /\ \A j \in Segment(stk, Len(ac), a) : ac2[j] = ac[j]

LEMMA SegmentsCopy ==
  ASSUME NEW stk, NEW ac, NEW stk2, NEW ac2, SameSegments(stk, ac, stk2, ac2)
  PROVE  /\ SegmentsSound(stk, ac) => SegmentsSound(stk2, ac2)
         /\ SegmentsWhole(stk, ac) => SegmentsWhole(stk2, ac2)
<1>1. ASSUME NEW S, NEW own, NEW m, \A j \in S : ac2[j] = ac[j]
      PROVE  /\ Sound(ac, S, own, m) => Sound(ac2, S, own, m)
             /\ Whole(ac, S, own, m) => Whole(ac2, S, own, m)
  BY <1>1 DEF Sound, Whole
<1>2. ASSUME NEW a \in 1 .. Len(stk2), stk2[a].fn = "attach", SegmentsSound(stk, ac)
      PROVE  Sound(ac2, Segment(stk2, Len(ac2), a), OwnAnchors(stk2[a].v), stk2[a].m)
  <2>1. PICK S : S = Segment(stk, Len(ac), a) /\ \A j \in S : ac2[j] = ac[j]
    BY <1>2 DEF SameSegments
  <2>2. Sound(ac, S, OwnAnchors(stk[a].v), stk[a].m)
    BY <1>2, <2>1 DEF SameSegments, SegmentsSound
  <2>3. Sound(ac2, S, OwnAnchors(stk[a].v), stk[a].m)
    BY <1>1, <2>1, <2>2
  <2> QED
    BY <1>2, <2>1, <2>3 DEF SameSegments
<1>3. ASSUME NEW a \in 1 .. Len(stk2), stk2[a].fn = "attach", SegmentsWhole(stk, ac)
      PROVE  Whole(ac2, Segment(stk2, Len(ac2), a), OwnAnchors(stk2[a].v), stk2[a].m)
  <2>1. PICK S : S = Segment(stk, Len(ac), a) /\ \A j \in S : ac2[j] = ac[j]
    BY <1>3 DEF SameSegments
  <2>2. Whole(ac, S, OwnAnchors(stk[a].v), stk[a].m)
    BY <1>3, <2>1 DEF SameSegments, SegmentsWhole
  <2>3. Whole(ac2, S, OwnAnchors(stk[a].v), stk[a].m)
    BY <1>1, <2>1, <2>2
  <2> QED
    BY <1>3, <2>1, <2>3 DEF SameSegments
<1>4. SegmentsSound(stk, ac) => SegmentsSound(stk2, ac2)
  BY <1>2 DEF SegmentsSound, SameSegments
<1>5. SegmentsWhole(stk, ac) => SegmentsWhole(stk2, ac2)
  BY <1>3 DEF SegmentsWhole
<1> QED
  BY <1>4, <1>5

\* A new activation: a walk that begins has no entry, and needs none.
LEMMA SegPush ==
  ASSUME DocOK(doc), NEW stk \in Seq(FrameType), NEW ac \in Seq(Object),
         NEW f \in FrameType, f.fn # "local",
         f.fn = "attach" => f.base = Len(ac) /\ f.m = f.v,
         NEW stk2, stk2 = Append(stk, f)
  PROVE  /\ SegmentsSound(stk, ac) => SegmentsSound(stk2, ac)
         /\ SegmentsWhole(stk, ac) => SegmentsWhole(stk2, ac)
<1>1. PICK l \in Nat, n \in Nat : l = Len(stk) /\ n = Len(ac)
  OBVIOUS
<1>2. /\ Len(stk2) = l + 1 /\ stk2[l + 1] = f /\ \A a \in 1 .. l : stk2[a] = stk[a]
      /\ \A a \in 1 .. l + 1 : a = l + 1 \/ a \in 1 .. l
  BY <1>1
<1>3. ASSUME NEW a \in 1 .. l PROVE Segment(stk2, n, a) = Segment(stk, n, a)
  <2>1. stk2[a] = stk[a]
    BY <1>2
  <2>2. ASSUME NEW j \in stk[a].base + 1 .. n
        PROVE  (\A b \in 1 .. l + 1 : a < b /\ stk2[b].fn = "attach" => j <= stk2[b].base)
               <=> (\A b \in 1 .. l : a < b /\ stk[b].fn = "attach" => j <= stk[b].base)
    <3>1. f.fn = "attach" => j <= f.base
      BY <1>1, <2>2
    <3> QED
      BY <1>2, <3>1
  <2> QED
    BY <1>1, <1>2, <2>1, <2>2 DEF Segment
<1>4. ASSUME f.fn = "attach"
      PROVE  /\ Sound(ac, Segment(stk2, n, l + 1), OwnAnchors(f.v), f.m)
             /\ Whole(ac, Segment(stk2, n, l + 1), OwnAnchors(f.v), f.m)
  <2>1. Segment(stk2, n, l + 1) = {}
    <3>1. f.base + 1 .. n = {}
      BY <1>1, <1>4
    <3> QED
      BY <1>2, <3>1 DEF Segment
  <2>2. f.v \in Object
    BY DEF FrameType
  <2>3. ASSUME NEW x \in OwnAnchors(f.v), x < f.m PROVE FALSE
    <3>1. x \in Subtree(f.v)
      BY <2>3 DEF OwnAnchors
    <3>2. f.v <= x /\ x \in Object
      BY <2>2, <3>1, SubtreeFacts
    <3> QED
      BY <1>4, <2>2, <2>3, <3>2 DEF Object
  <2> QED
    BY <2>1, <2>3 DEF Sound, Whole
<1>5. SegmentsSound(stk, ac) => SegmentsSound(stk2, ac)
  BY <1>1, <1>2, <1>3, <1>4 DEF SegmentsSound
<1>6. SegmentsWhole(stk, ac) => SegmentsWhole(stk2, ac)
  BY <1>1, <1>2, <1>3, <1>4 DEF SegmentsWhole
<1> QED
  BY <1>5, <1>6

\* A compilation ends: by failure, or because its self scope's walk begins.
LEMMA SegPop ==
  ASSUME NEW stk \in Seq(FrameType), NEW ac, Len(stk) > 0, stk[Len(stk)].fn = "compile",
         NEW stk2, stk2 = SubSeq(stk, 1, Len(stk) - 1)
  PROVE  /\ SegmentsSound(stk, ac) => SegmentsSound(stk2, ac)
         /\ SegmentsWhole(stk, ac) => SegmentsWhole(stk2, ac)
<1>1. PICK l \in Nat : Len(stk) = l + 1
  <2>1. Len(stk) - 1 \in Nat /\ Len(stk) = (Len(stk) - 1) + 1
    OBVIOUS
  <2> QED
    BY <2>1
<1>2. /\ Len(stk2) = l /\ \A a \in 1 .. l : stk2[a] = stk[a] /\ a \in 1 .. l + 1
      /\ \A a \in 1 .. l + 1 : a = l + 1 \/ a \in 1 .. l
  BY <1>1
<1>3. ASSUME NEW a \in 1 .. l PROVE Segment(stk2, Len(ac), a) = Segment(stk, Len(ac), a)
  BY <1>1, <1>2 DEF Segment
<1>4. SameSegments(stk, ac, stk2, ac)
  BY <1>1, <1>2, <1>3 DEF SameSegments
<1> QED
  BY <1>4, SegmentsCopy

\* The newest activation moves on.
Turned(stk, m, stk2) ==
  /\ Len(stk2) = Len(stk)
  /\ \A a \in 1 .. Len(stk) :
       /\ stk2[a].fn = stk[a].fn /\ stk2[a].v = stk[a].v /\ stk2[a].base = stk[a].base
       /\ stk2[a].m = IF a = Len(stk) THEN m ELSE stk[a].m
  /\ \A a \in 1 .. Len(stk), n \in Nat : Segment(stk2, n, a) = Segment(stk, n, a)

LEMMA SegTurned ==
  ASSUME NEW stk \in Seq(FrameType), Len(stk) > 0, NEW m \in Nat,
         NEW stk2, stk2 = [stk EXCEPT ![Len(stk)].m = m]
  PROVE  Turned(stk, m, stk2)
<1>1. PICK l \in Nat : l = Len(stk) /\ l \in 1 .. l
  OBVIOUS
<1>2. PICK f \in FrameType : f = stk[l]
  BY <1>1
<1>3. PICK g : g = [f EXCEPT !.m = m]
  OBVIOUS
<1>4. g.fn = f.fn /\ g.base = f.base /\ g.v = f.v /\ g.m = m
  BY <1>3 DEF FrameType
<1>5. /\ Len(stk2) = l /\ stk2[l] = g /\ \A a \in 1 .. l : a # l => stk2[a] = stk[a]
  <2>1. stk2 = [stk EXCEPT ![l] = g]
    BY <1>1, <1>2, <1>3
  <2> QED
    BY <1>1, <2>1
<1>6. \A a \in 1 .. l : /\ stk2[a].fn = stk[a].fn /\ stk2[a].v = stk[a].v
                        /\ stk2[a].base = stk[a].base
                        /\ stk2[a].m = IF a = l THEN m ELSE stk[a].m
  BY <1>2, <1>4, <1>5
<1>7. ASSUME NEW a \in 1 .. l, NEW n \in Nat PROVE Segment(stk2, n, a) = Segment(stk, n, a)
  BY <1>1, <1>5, <1>6 DEF Segment
<1> QED
  BY <1>1, <1>5, <1>6, <1>7 DEF Turned

\* A compilation moves on.
LEMMA SegTurn ==
  ASSUME NEW stk \in Seq(FrameType), NEW ac \in Seq(Object), Len(stk) > 0,
         stk[Len(stk)].fn = "compile", NEW m \in Nat, NEW stk2, Turned(stk, m, stk2)
  PROVE  /\ SegmentsSound(stk, ac) => SegmentsSound(stk2, ac)
         /\ SegmentsWhole(stk, ac) => SegmentsWhole(stk2, ac)
<1>1. Len(ac) \in Nat
  OBVIOUS
<1>2. SameSegments(stk, ac, stk2, ac)
  BY <1>1 DEF SameSegments, Turned
<1> QED
  BY <1>2, SegmentsCopy

\* The walk in front passes an object that it does not keep: no harm if that
\* is no anchor.
LEMMA SegSkip ==
  ASSUME NEW stk \in Seq(FrameType), NEW ac \in Seq(Object), Len(stk) > 0,
         NEW v \in Object, v = stk[Len(stk)].v, NEW m \in Nat, m = stk[Len(stk)].m,
         NEW stk2, Turned(stk, m + 1, stk2)
  PROVE  /\ SegmentsSound(stk, ac) => SegmentsSound(stk2, ac)
         /\ m \notin OwnAnchors(v) /\ SegmentsWhole(stk, ac) => SegmentsWhole(stk2, ac)
<1>1. m \in Nat /\ m + 1 \in Nat /\ Len(ac) \in Nat
  OBVIOUS
<1>2. Turned(stk, m + 1, stk2)
  OBVIOUS
<1>3. \A a \in 1 .. Len(stk) : Segment(stk2, Len(ac), a) = Segment(stk, Len(ac), a)
  BY <1>1, <1>2 DEF Turned
<1>4. ASSUME NEW j \in 1 .. Len(ac) PROVE ac[j] \in Nat
  <2>1. ac[j] \in Object
    OBVIOUS
  <2> QED
    BY <2>1 DEF Object
<1>5. ASSUME NEW a \in 1 .. Len(stk), stk[a].fn = "attach", SegmentsSound(stk, ac)
      PROVE  Sound(ac, Segment(stk, Len(ac), a), OwnAnchors(stk[a].v), stk2[a].m)
  <2>1. PICK S, own : S = Segment(stk, Len(ac), a) /\ own = OwnAnchors(stk[a].v)
    OBVIOUS
  <2>2. Sound(ac, S, own, stk[a].m)
    BY <1>5, <2>1 DEF SegmentsSound
  <2>3. ASSUME NEW j \in S PROVE ac[j] < stk2[a].m
    <3>1. j \in 1 .. Len(ac)
      <4>1. stk[a] \in FrameType
        OBVIOUS
      <4>2. stk[a].base \in Nat
        BY <4>1 DEF FrameType
      <4>3. j \in stk[a].base + 1 .. Len(ac)
        BY <2>1, <2>3 DEF Segment
      <4> QED
        BY <1>1, <4>2, <4>3
    <3>2. ac[j] \in Nat /\ ac[j] < stk[a].m
      BY <1>4, <2>2, <2>3, <3>1 DEF Sound
    <3>3. CASE a = Len(stk)
      BY <1>1, <1>2, <3>2, <3>3 DEF Turned
    <3>4. CASE a # Len(stk)
      BY <1>2, <3>2, <3>4 DEF Turned
    <3> QED
      BY <3>3, <3>4
  <2> QED
    BY <2>1, <2>2, <2>3 DEF Sound
<1>6. ASSUME NEW a \in 1 .. Len(stk), stk[a].fn = "attach", SegmentsWhole(stk, ac),
             m \notin OwnAnchors(v)
      PROVE  Whole(ac, Segment(stk, Len(ac), a), OwnAnchors(stk[a].v), stk2[a].m)
  <2>1. PICK S, own : S = Segment(stk, Len(ac), a) /\ own = OwnAnchors(stk[a].v)
    OBVIOUS
  <2>2. Whole(ac, S, own, stk[a].m)
    BY <1>6, <2>1 DEF SegmentsWhole
  <2>3. ASSUME NEW x \in own, x < stk2[a].m PROVE x < stk[a].m
    <3>1. CASE a = Len(stk)
      <4>1. x \in Nat
        BY <2>1 DEF OwnAnchors, Anchors, Object
      <4>2. x # m /\ x < m + 1
        BY <1>2, <1>6, <2>1, <2>3, <3>1 DEF Turned
      <4> QED
        BY <1>1, <3>1, <4>1, <4>2
    <3>2. CASE a # Len(stk)
      BY <1>2, <2>3, <3>2 DEF Turned
    <3> QED
      BY <3>1, <3>2
  <2> QED
    BY <2>1, <2>2, <2>3 DEF Whole
<1>7. SegmentsSound(stk, ac) => SegmentsSound(stk2, ac)
  BY <1>2, <1>3, <1>5 DEF Turned, SegmentsSound
<1>8. ASSUME m \notin OwnAnchors(v), SegmentsWhole(stk, ac) PROVE SegmentsWhole(stk2, ac)
  <2>1. \A a \in 1 .. Len(stk) : stk[a].fn = "attach" =>
          Whole(ac, Segment(stk, Len(ac), a), OwnAnchors(stk[a].v), stk2[a].m)
    BY <1>6, <1>8
  <2> QED
    BY <1>2, <1>3, <2>1 DEF Turned, SegmentsWhole
<1> QED
  BY <1>7, <1>8

\* A segment grows by an anchor.
LEMMA SegmentGrows ==
  ASSUME NEW ac \in Seq(Nat), NEW n \in Nat, n = Len(ac), NEW b \in Nat, b <= n,
         NEW own \in SUBSET Nat, NEW m \in own, NEW ac2, ac2 = Append(ac, m)
  PROVE  /\ Sound(ac, b + 1 .. n, own, m) => Sound(ac2, b + 1 .. n + 1, own, m + 1)
         /\ Whole(ac, b + 1 .. n, own, m) => Whole(ac2, b + 1 .. n + 1, own, m + 1)
<1>1. m \in Nat /\ ac2[n + 1] = m /\ \A j \in 1 .. n : ac2[j] = ac[j] /\ ac[j] \in Nat
  OBVIOUS
<1>2. /\ \A j \in b + 1 .. n : j \in 1 .. n /\ j \in b + 1 .. n + 1
      /\ \A j \in b + 1 .. n + 1 : j \in b + 1 .. n \/ j = n + 1
      /\ n + 1 \in b + 1 .. n + 1
  OBVIOUS
<1>3. ASSUME Sound(ac, b + 1 .. n, own, m) PROVE Sound(ac2, b + 1 .. n + 1, own, m + 1)
  <2>1. \A j \in b + 1 .. n : ac2[j] = ac[j] /\ ac[j] \in own /\ ac[j] < m /\ ac[j] \in Nat
    BY <1>1, <1>2, <1>3 DEF Sound
  <2>2. ASSUME NEW j \in b + 1 .. n + 1 PROVE ac2[j] \in own /\ ac2[j] < m + 1
    <3>1. CASE j \in b + 1 .. n
      <4>1. PICK x \in Nat : x = ac2[j] /\ x \in own /\ x < m
        BY <2>1, <3>1
      <4> QED
        BY <1>1, <4>1
    <3>2. CASE j = n + 1
      BY <1>1, <3>2
    <3> QED
      BY <1>2, <3>1, <3>2
  <2>3. ASSUME NEW j \in b + 1 .. n + 1, NEW k \in b + 1 .. n + 1, j < k PROVE ac2[j] < ac2[k]
    <3>1. j \in b + 1 .. n
      BY <2>3
    <3>2. CASE k \in b + 1 .. n
      BY <1>3, <2>1, <2>3, <3>1, <3>2 DEF Sound
    <3>3. CASE k = n + 1
      BY <1>1, <2>1, <3>1, <3>3
    <3> QED
      BY <1>2, <3>2, <3>3
  <2> QED
    BY <2>2, <2>3 DEF Sound
<1>4. ASSUME Whole(ac, b + 1 .. n, own, m) PROVE Whole(ac2, b + 1 .. n + 1, own, m + 1)
  <2>1. ASSUME NEW x \in own, x < m + 1 PROVE \E j \in b + 1 .. n + 1 : ac2[j] = x
    <3>1. x < m \/ x = m
      <4>1. x \in Nat
        OBVIOUS
      <4> QED
        BY <1>1, <2>1, <4>1
    <3>2. CASE x < m
      <4>1. PICK j \in b + 1 .. n : ac[j] = x
        BY <1>4, <3>2 DEF Whole
      <4> QED
        BY <1>1, <1>2, <4>1
    <3>3. CASE x = m
      BY <1>1, <1>2, <3>3
    <3> QED
      BY <3>1, <3>2, <3>3
  <2> QED
    BY <2>1 DEF Whole
<1> QED
  BY <1>3, <1>4

\* Objects are numbers.
LEMMA ObjectNat ==
  /\ Object \subseteq Nat /\ \A ac \in Seq(Object) : ac \in Seq(Nat)
  /\ \A i : OwnAnchors(i) \subseteq Object
<1>1. Object \subseteq Nat
  BY DEF Object
<1>2. ASSUME NEW ac \in Seq(Object) PROVE ac \in Seq(Nat)
  <2>1. ASSUME NEW j \in 1 .. Len(ac) PROVE ac[j] \in Nat
    <3>1. ac[j] \in Object
      OBVIOUS
    <3> QED
      BY <1>1, <3>1
  <2>2. Len(ac) \in Nat /\ ac = [j \in 1 .. Len(ac) |-> ac[j]]
    OBVIOUS
  <2>3. PICK n \in Nat : n = Len(ac) /\ ac = [j \in 1 .. n |-> ac[j]]
    BY <2>2
  <2>4. ac \in [1 .. n -> Nat]
    BY <2>1, <2>3
  <2> QED
    BY <2>3, <2>4
<1>3. \A i : OwnAnchors(i) \subseteq Object
  BY DEF OwnAnchors, Anchors
<1> QED
  BY <1>1, <1>2, <1>3

\* It keeps an anchor.
LEMMA SegKeep ==
  ASSUME NEW stk \in Seq(FrameType), NEW ac \in Seq(Object), Len(stk) > 0,
         stk[Len(stk)].fn = "attach", stk[Len(stk)].base <= Len(ac),
         NEW v \in Object, v = stk[Len(stk)].v, NEW m \in Object, m = stk[Len(stk)].m,
         m \in OwnAnchors(v), NEW ac2, ac2 = Append(ac, m),
         NEW stk2, Turned(stk, m + 1, stk2)
  PROVE  /\ SegmentsSound(stk, ac) => SegmentsSound(stk2, ac2)
         /\ SegmentsWhole(stk, ac) => SegmentsWhole(stk2, ac2)
<1>1. PICK l \in Nat, n \in Nat, b \in {stk[Len(stk)].base} :
        /\ l = Len(stk) /\ n = Len(ac) /\ b = stk[l].base
        /\ l \in 1 .. l /\ m \in Nat /\ m + 1 \in Nat
  <2>1. m \in Nat
    BY DEF Object
  <2>2. Len(stk) \in Nat /\ Len(ac) \in Nat
    OBVIOUS
  <2>3. m + 1 \in Nat /\ Len(stk) \in 1 .. Len(stk)
    BY <2>1, <2>2
  <2> QED
    BY <2>1, <2>2, <2>3
<1>2. \A a \in 1 .. l : stk[a].base \in Nat
  <2>1. \A a \in 1 .. l : stk[a] \in FrameType
    BY <1>1
  <2> QED
    BY <2>1 DEF FrameType
<1>3. b \in Nat /\ b <= n /\ b = stk[Len(stk)].base
  BY <1>1, <1>2
<1>4. Turned(stk, m + 1, stk2)
  OBVIOUS
<1>5. /\ Len(ac2) = n + 1 /\ n + 1 \in Nat /\ ac2[n + 1] = m
      /\ \A j \in 1 .. n : ac2[j] = ac[j] /\ ac[j] \in Nat
  <2>1. Len(ac2) = n + 1 /\ n + 1 \in Nat /\ ac2[n + 1] = m /\ \A j \in 1 .. n : ac2[j] = ac[j]
    BY <1>1
  <2>2. ASSUME NEW j \in 1 .. n PROVE ac[j] \in Nat
    <3>1. ac[j] \in Object
      BY <1>1
    <3> QED
      BY <3>1 DEF Object
  <2> QED
    BY <2>1, <2>2
<1>6. ASSUME NEW a \in 1 .. l, a # l
      PROVE  /\ Segment(stk2, n + 1, a) = Segment(stk, n, a)
             /\ \A j \in Segment(stk, n, a) : ac2[j] = ac[j]
  <2>1. Segment(stk2, n + 1, a) = Segment(stk, n + 1, a)
    BY <1>1, <1>4, <1>5 DEF Turned
  <2>2. ASSUME NEW j \in Segment(stk, n + 1, a) PROVE j \in Segment(stk, n, a)
    <3>1. j \in stk[a].base + 1 .. n + 1
      BY <2>2 DEF Segment
    <3>2. j <= b
      <4>1. l \in 1 .. Len(stk) /\ a < l /\ stk[l].fn = "attach"
        BY <1>1, <1>6
      <4> QED
        BY <1>1, <2>2, <4>1 DEF Segment
    <3>3. j \in stk[a].base + 1 .. n
      BY <1>2, <1>3, <3>1, <3>2
    <3> QED
      BY <2>2, <3>3 DEF Segment
  <2>3. ASSUME NEW j \in Segment(stk, n, a) PROVE j \in Segment(stk, n + 1, a) /\ j \in 1 .. n
    <3>1. j \in stk[a].base + 1 .. n
      BY <2>3 DEF Segment
    <3>2. j \in stk[a].base + 1 .. n + 1 /\ j \in 1 .. n
      BY <1>2, <3>1
    <3> QED
      BY <2>3, <3>2 DEF Segment
  <2> QED
    BY <1>5, <2>1, <2>2, <2>3
<1>7. Segment(stk, n, l) = b + 1 .. n /\ Segment(stk2, n + 1, l) = b + 1 .. n + 1
  <2>1. \A c \in 1 .. l : ~(l < c)
    BY <1>1
  <2>2. \A k \in Nat : Segment(stk, k, l) = b + 1 .. k
    BY <1>1, <2>1 DEF Segment
  <2> QED
    BY <1>1, <1>4, <1>5, <2>2 DEF Turned
<1>8. PICK own \in SUBSET Nat : own = OwnAnchors(v) /\ m \in own
  <2>1. OwnAnchors(v) \subseteq Nat
    BY ObjectNat
  <2> QED
    BY <2>1
<1>9. ac \in Seq(Nat)
  BY ObjectNat
<1>10. /\ Sound(ac, b + 1 .. n, own, m) => Sound(ac2, b + 1 .. n + 1, own, m + 1)
       /\ Whole(ac, b + 1 .. n, own, m) => Whole(ac2, b + 1 .. n + 1, own, m + 1)
  BY <1>1, <1>3, <1>8, <1>9, SegmentGrows
<1>11. \A a \in 1 .. l : /\ stk2[a].fn = stk[a].fn /\ stk2[a].v = stk[a].v
                         /\ a # l => stk2[a].m = stk[a].m
                         /\ a = l => stk2[a].m = m + 1
  BY <1>1, <1>4 DEF Turned
<1>12. ASSUME NEW a \in 1 .. l, stk[a].fn = "attach", SegmentsSound(stk, ac)
       PROVE  Sound(ac2, Segment(stk2, n + 1, a), OwnAnchors(stk2[a].v), stk2[a].m)
  <2>1. Sound(ac, Segment(stk, n, a), OwnAnchors(stk[a].v), stk[a].m)
    BY <1>1, <1>12 DEF SegmentsSound
  <2>2. CASE a = l
    <3>1. Sound(ac, b + 1 .. n, own, m)
      BY <1>1, <1>7, <1>8, <2>1, <2>2
    <3>2. Sound(ac2, b + 1 .. n + 1, own, m + 1)
      BY <1>10, <3>1
    <3> QED
      BY <1>1, <1>7, <1>8, <1>11, <2>2, <3>2
  <2>3. CASE a # l
    <3>1. Sound(ac2, Segment(stk, n, a), OwnAnchors(stk[a].v), stk[a].m)
      BY <1>6, <2>1, <2>3 DEF Sound
    <3> QED
      BY <1>6, <1>11, <2>3, <3>1
  <2> QED
    BY <2>2, <2>3
<1>13. ASSUME NEW a \in 1 .. l, stk[a].fn = "attach", SegmentsWhole(stk, ac)
       PROVE  Whole(ac2, Segment(stk2, n + 1, a), OwnAnchors(stk2[a].v), stk2[a].m)
  <2>1. Whole(ac, Segment(stk, n, a), OwnAnchors(stk[a].v), stk[a].m)
    BY <1>1, <1>13 DEF SegmentsWhole
  <2>2. CASE a = l
    <3>1. Whole(ac, b + 1 .. n, own, m)
      BY <1>1, <1>7, <1>8, <2>1, <2>2
    <3>2. Whole(ac2, b + 1 .. n + 1, own, m + 1)
      BY <1>10, <3>1
    <3> QED
      BY <1>1, <1>7, <1>8, <1>11, <2>2, <3>2
  <2>3. CASE a # l
    <3>1. Whole(ac2, Segment(stk, n, a), OwnAnchors(stk[a].v), stk[a].m)
      BY <1>6, <2>1, <2>3 DEF Whole
    <3> QED
      BY <1>6, <1>11, <2>3, <3>1
  <2> QED
    BY <2>2, <2>3
<1>14. Len(stk2) = l
  BY <1>1, <1>4 DEF Turned
<1>15. SegmentsSound(stk, ac) => SegmentsSound(stk2, ac2)
  BY <1>1, <1>5, <1>11, <1>12, <1>14 DEF SegmentsSound
<1>16. SegmentsWhole(stk, ac) => SegmentsWhole(stk2, ac2)
  BY <1>1, <1>5, <1>11, <1>13, <1>14 DEF SegmentsWhole
<1> QED
  BY <1>15, <1>16

\* The walk in front ends: its segment is cut off, the others stay.
CutTo(stk, ac, base, stk2, ac2) ==
  stk2 = SubSeq(stk, 1, Len(stk) - 1) /\ ac2 = SubSeq(ac, 1, base)

LEMMA SegCut ==
  ASSUME NEW stk \in Seq(FrameType), NEW ac \in Seq(Object), Len(stk) > 0,
         stk[Len(stk)].fn = "attach", NEW base \in 0 .. Len(ac), base = stk[Len(stk)].base,
         NEW stk2, NEW ac2, CutTo(stk, ac, base, stk2, ac2)
  PROVE  /\ SegmentsSound(stk, ac) => SegmentsSound(stk2, ac2)
         /\ SegmentsWhole(stk, ac) => SegmentsWhole(stk2, ac2)
<1>1. PICK l \in Nat, n \in Nat : Len(stk) = l + 1 /\ n = Len(ac) /\ base \in 0 .. n
  <2>1. Len(stk) - 1 \in Nat /\ Len(stk) = (Len(stk) - 1) + 1 /\ Len(ac) \in Nat
    OBVIOUS
  <2> QED
    BY <2>1
<1>2. /\ Len(stk2) = l /\ \A a \in 1 .. l : stk2[a] = stk[a] /\ a \in 1 .. l + 1 /\ a < l + 1
      /\ \A a \in 1 .. l + 1 : a = l + 1 \/ a \in 1 .. l
      /\ stk[l + 1].fn = "attach" /\ stk[l + 1].base = base
  BY <1>1 DEF CutTo
<1>3. Len(ac2) = base /\ \A j \in 1 .. base : ac2[j] = ac[j]
  BY <1>1 DEF CutTo
<1>4. ASSUME NEW a \in 1 .. l
      PROVE  /\ Segment(stk2, base, a) = Segment(stk, n, a)
             /\ \A j \in Segment(stk, n, a) : j \in 1 .. base
  <2>1. stk2[a] = stk[a] /\ stk[a] \in FrameType
    BY <1>1, <1>2
  <2>2. stk[a].base \in Nat
    BY <2>1 DEF FrameType
  <2>3. ASSUME NEW j \in Segment(stk2, base, a) PROVE j \in Segment(stk, n, a)
    <3>1. j \in stk[a].base + 1 .. base
      BY <2>1, <2>3 DEF Segment
    <3>2. j \in stk[a].base + 1 .. n
      BY <1>1, <2>2, <3>1
    <3>3. ASSUME NEW b \in 1 .. l + 1, a < b, stk[b].fn = "attach" PROVE j <= stk[b].base
      <4>1. CASE b = l + 1
        BY <1>2, <3>1, <4>1
      <4>2. CASE b \in 1 .. l
        BY <1>2, <2>3, <3>3, <4>2 DEF Segment
      <4> QED
        BY <1>2, <4>1, <4>2
    <3> QED
      BY <1>1, <3>2, <3>3 DEF Segment
  <2>4. ASSUME NEW j \in Segment(stk, n, a) PROVE j \in Segment(stk2, base, a) /\ j \in 1 .. base
    <3>1. j \in stk[a].base + 1 .. n
      BY <2>4 DEF Segment
    <3>2. j <= base
      <4>1. l + 1 \in 1 .. Len(stk) /\ a < l + 1
        BY <1>1, <1>2
      <4> QED
        BY <1>2, <2>4, <4>1 DEF Segment
    <3>3. j \in stk[a].base + 1 .. base /\ j \in 1 .. base
      BY <1>1, <2>2, <3>1, <3>2
    <3>4. \A b \in 1 .. l : a < b /\ stk2[b].fn = "attach" => j <= stk2[b].base
      BY <1>1, <1>2, <2>4 DEF Segment
    <3> QED
      BY <1>2, <2>1, <3>3, <3>4 DEF Segment
  <2> QED
    BY <2>3, <2>4
<1>5. SameSegments(stk, ac, stk2, ac2)
  BY <1>1, <1>2, <1>3, <1>4 DEF SameSegments
<1> QED
  BY <1>5, SegmentsCopy

\* What attach_self_scope copies from a whole segment is the list of the
\* anchors.
LEMMA SegList ==
  ASSUME DocOK(doc), NEW v \in Object, NEW ac \in Seq(Object), NEW base \in 0 .. Len(ac),
         NEW m, m > Final(v), m \in Nat,
         Sound(ac, base + 1 .. Len(ac), OwnAnchors(v), m),
         NEW s, s = SubSeq(ac, base + 1, Len(ac))
  PROVE  /\ \A j \in DOMAIN s : s[j] \in OwnAnchors(v)
         /\ Whole(ac, base + 1 .. Len(ac), OwnAnchors(v), m) => s = InOrder(OwnAnchors(v))
<1>1. PICK n \in Nat, k \in Nat, own \in {OwnAnchors(v)} :
        n = Len(ac) /\ base + k = n /\ base \in Nat /\ own = OwnAnchors(v)
  <2>1. Len(ac) \in Nat /\ base \in Nat /\ base <= Len(ac)
    OBVIOUS
  <2>2. PICK n \in Nat : n = Len(ac) /\ base \in Nat /\ base <= n
    BY <2>1
  <2>3. n - base \in Nat /\ base + (n - base) = n
    BY <2>2
  <2> QED
    BY <2>2, <2>3
<1>2. s \in Seq(Object) /\ Len(s) = k /\ DOMAIN s = 1 .. k /\ \A j \in 1 .. k : s[j] = ac[base + j]
  BY <1>1
<1>3. /\ \A j \in 1 .. k : base + j \in base + 1 .. n
      /\ \A j \in base + 1 .. n : \E i \in 1 .. k : j = base + i
  <2>1. ASSUME NEW j \in base + 1 .. n PROVE j - base \in 1 .. k /\ j = base + (j - base)
    BY <1>1
  <2> QED
    BY <1>1, <2>1
<1>4. Sound(ac, base + 1 .. n, own, m)
  BY <1>1
<1>5. \A j \in 1 .. k : s[j] \in own
  BY <1>2, <1>3, <1>4 DEF Sound
<1>6. ASSUME Whole(ac, base + 1 .. n, own, m) PROVE Lists(s, own, Size)
  <2>1. s \in Seq(1 .. Size)
    BY <1>2 DEF Object
  <2>2. ASSUME NEW x \in 1 .. Size, x \in own PROVE \E j \in 1 .. k : s[j] = x
    <3>1. x \in Subtree(v) /\ x \in Object
      BY <1>1, <2>2 DEF OwnAnchors, Object
    <3>2. x <= Final(v) /\ Final(v) \in Object
      BY <3>1, SubtreeFacts, FinalIs
    <3>3. x < m
      BY <3>1, <3>2 DEF Object
    <3>4. PICK j \in base + 1 .. n : ac[j] = x
      BY <1>6, <2>2, <3>3 DEF Whole
    <3> QED
      BY <1>2, <1>3, <3>4
  <2>3. ASSUME NEW i \in 1 .. k, NEW j \in 1 .. k, i < j PROVE s[i] < s[j]
    <3>1. base + i < base + j
      BY <1>1, <2>3
    <3> QED
      BY <1>2, <1>3, <1>4, <3>1 DEF Sound
  <2> QED
    BY <1>2, <1>5, <2>1, <2>2, <2>3 DEF Lists
<1>7. ASSUME Whole(ac, base + 1 .. n, own, m) PROVE s = InOrder(own)
  <2>1. Lists(s, own, Size) /\ Lists(InOrder(own), own, Size) /\ Size \in Nat
    BY <1>6, <1>7, InOrderLists, CompileAssumption
  <2> QED
    BY <2>1, ListsUnique
<1> QED
  BY <1>1, <1>2, <1>5, <1>7

-------------------------------------------------------------------------------
(***************************************************************************)
(* Every step keeps the self scopes.                                       *)
(***************************************************************************)
\* The document stays: so does the sense of the invariant.
LEMMA ScopesNext ==
  ASSUME doc' = doc,
         NoDynamicRef =>
           /\ SegmentsSound(stack', acc') /\ ScopesSound(scope', memo')
           /\ ~lost' /\ ~missed' => SegmentsWhole(stack', acc') /\ ScopesWhole(scope', memo')
  PROVE  SInv'
<1>1. NoDynamicRef' = NoDynamicRef
  BY DEF NoDynamicRef
<1>2. \A i : OwnAnchors(i)' = OwnAnchors(i)
  BY DocKept DEF OwnAnchors
<1>3. PICK own : own = [i \in Object |-> OwnAnchors(i)]
  OBVIOUS
<1>4. SegmentsSound(stack', acc') => SegmentsSound(stack, acc)'
  BY <1>2 DEF SegmentsSound, Sound, Segment
<1>5. SegmentsWhole(stack', acc') => SegmentsWhole(stack, acc)'
  BY <1>2 DEF SegmentsWhole, Whole, Segment
<1>6. ScopesSound(scope', memo') => ScopesSound(scope, memo)'
  BY <1>2 DEF ScopesSound
<1>7. ScopesWhole(scope', memo') => ScopesWhole(scope, memo)'
  BY <1>2 DEF ScopesWhole
<1> QED
  BY <1>1, <1>4, <1>5, <1>6, <1>7 DEF SInv

\* Nothing is finished.
LEMMA ScopesSame ==
  ASSUME \A i \in Object : memo'[i] = "done" => memo[i] = "done", scope' = scope
  PROVE  /\ ScopesSound(scope, memo) => ScopesSound(scope', memo')
         /\ ScopesWhole(scope, memo) => ScopesWhole(scope', memo')
BY DEF ScopesSound, ScopesWhole

\* A call.
LEMMA CallScopes ==
  ASSUME IInv, SInv, NEW v \in Object, Call(stack, v), Rest, UNCHANGED <<lost, missed>>
  PROVE  SInv'
<1>1. /\ DocOK(doc) /\ memo \in [Object -> {"none", "busy", "done"}] /\ cur \in Object
      /\ stack \in Seq(FrameType) /\ acc \in Seq(Object)
  BY DEF IInv, StackOK
<1>2. doc' = doc /\ acc' = acc /\ scope' = scope /\ lost' = lost /\ missed' = missed
  BY DEF Rest
<1>3. CASE memo[v] \in {"busy", "done"}
  <2>1. stack' = stack /\ memo' = memo
    BY <1>3 DEF Call, Calls
  <2> QED
    BY <1>2, <2>1, ScopesNext DEF SInv
<1>4. CASE memo[v] \notin {"busy", "done"}
  <2>1. PICK f, stk2 : f = Frame("compile", v, 1, 0, cur, 0) /\ stk2 = Append(stack, f)
    OBVIOUS
  <2>2. stack' = stk2 /\ memo' = [memo EXCEPT ![v] = "busy"]
    BY <1>4, <2>1 DEF Call, Calls
  <2>3. f \in FrameType /\ f.fn = "compile"
    <3>1. cur \in 0 .. Size /\ 0 \in 0 .. Size
      BY <1>1, CompileAssumption DEF Object
    <3>2. f = [fn |-> "compile", v |-> v, m |-> 1, last |-> 0, saved |-> cur, base |-> 0]
      BY <2>1 DEF Frame
    <3> QED
      BY <3>1, <3>2 DEF FrameType
  <2>4. /\ SegmentsSound(stack, acc) => SegmentsSound(stk2, acc)
        /\ SegmentsWhole(stack, acc) => SegmentsWhole(stk2, acc)
    <3>1. f.fn # "local" /\ (f.fn = "attach" => f.base = Len(acc) /\ f.m = f.v)
      BY <2>3
    <3> QED
      BY <1>1, <2>1, <2>3, <3>1, SegPush
  <2>5. /\ ScopesSound(scope, memo) => ScopesSound(scope', memo')
        /\ ScopesWhole(scope, memo) => ScopesWhole(scope', memo')
    <3>1. \A i \in Object : memo'[i] = "done" => memo[i] = "done"
      BY <1>1, <2>2
    <3> QED
      BY <1>2, <3>1, ScopesSame
  <2> QED
    BY <1>2, <2>2, <2>4, <2>5, ScopesNext DEF SInv
<1> QED
  BY <1>3, <1>4

\* A failure.
LEMMA FailScopes ==
  ASSUME IInv, SInv, stack # << >>, Top.fn = "compile", Fail, Rest, UNCHANGED <<lost, missed>>
  PROVE  SInv'
<1>1. PICK stk2 : stk2 = Pop
  OBVIOUS
<1>2. stack \in Seq(FrameType) /\ Len(stack) > 0 /\ stack[Len(stack)].fn = "compile"
  BY TopIs
<1>3. /\ SegmentsSound(stack, acc) => SegmentsSound(stk2, acc)
      /\ SegmentsWhole(stack, acc) => SegmentsWhole(stk2, acc)
  BY <1>1, <1>2, SegPop DEF Pop
<1>4. stack' = stk2 /\ memo' = memo /\ scope' = scope /\ acc' = acc /\ doc' = doc
  BY <1>1 DEF Fail, Rest
<1> QED
  BY <1>3, <1>4, ScopesNext DEF SInv

\* The step of the activation in front.
LEMMA TurnIs ==
  ASSUME IInv, stack # << >>, NEW m \in Nat, stack' = Turn(m)
  PROVE  Turned(stack, m, stack')
<1>1. stack \in Seq(FrameType) /\ Len(stack) > 0
  BY TopIs
<1>2. PICK stk, stk2 : stk = stack /\ stk2 = stack'
  OBVIOUS
<1>3. stk \in Seq(FrameType) /\ Len(stk) > 0 /\ stk2 = [stk EXCEPT ![Len(stk)].m = m]
  BY <1>1, <1>2 DEF Turn
<1>4. Turned(stk, m, stk2)
  BY <1>3, SegTurned
<1> QED
  BY <1>2, <1>4

\* A compilation moves on.
LEMMA TurnScopes ==
  ASSUME IInv, SInv, stack # << >>, Top.fn = "compile", stack' = Turn(Top.m + 1),
         UNCHANGED <<doc, memo, scope, acc, lost, missed>>
  PROVE  SInv'
<1>1. PICK m, stk2 : m = Top.m + 1 /\ stk2 = stack'
  OBVIOUS
<1>2. /\ stack \in Seq(FrameType) /\ Len(stack) > 0 /\ stack[Len(stack)].fn = "compile" /\ m \in Nat
      /\ acc \in Seq(Object)
  BY <1>1, TopIs DEF IInv
<1>3. Turned(stack, m, stk2)
  BY <1>1, <1>2, TurnIs
<1>4. /\ SegmentsSound(stack, acc) => SegmentsSound(stk2, acc)
      /\ SegmentsWhole(stack, acc) => SegmentsWhole(stk2, acc)
  BY <1>2, <1>3, SegTurn
<1> QED
  BY <1>1, <1>4, ScopesNext DEF SInv

\* The keyword loop: calls, failures and steps.
LEMMA LoopScopes ==
  ASSUME IInv, SInv, Subschema \/ Ref \/ Bad \/ Ignored \/ Anchor \/ Dependency \/ Returned
  PROVE  SInv'
<1>1. /\ stack # << >> /\ Top.fn = "compile" /\ Top.v \in Object
      /\ UNCHANGED <<doc, scope, acc, lost, missed>>
  BY TopIs DEF Subschema, Ref, Bad, Ignored, Anchor, Dependency, Returned, Return, Reading,
               Reads, Kept
<1>2. CASE Subschema
  <2>1. PICK v \in Object : v = Read
    BY <1>2, ReadIs DEF Subschema
  <2>2. Call(stack, v) /\ Rest
    BY <1>2, <2>1 DEF Subschema, Rest, Kept
  <2> QED
    BY <1>1, <2>2, CallScopes
<1>3. CASE Ref
  <2>1. PICK to \in Resolve(Top.v) : IF to = 0 THEN Fail ELSE Call(stack, to)
    BY <1>3 DEF Ref
  <2>2. PICK v \in Object : v = Top.v /\ doc.use[v].kw = "ref" /\ Rest
    BY <1>1, <1>3 DEF Ref, Reading, Rest, Kept
  <2>3. to # 0 => to \in Object
    BY <2>1, <2>2, ResolveIs
  <2> QED
    BY <1>1, <2>1, <2>2, <2>3, CallScopes, FailScopes
<1>4. CASE Bad
  BY <1>1, <1>4, FailScopes DEF Bad, Rest, Kept
<1>5. CASE Ignored \/ Anchor \/ Dependency
  BY <1>1, <1>5, TurnScopes DEF Ignored, Anchor, Dependency
<1>6. CASE Returned
  <2>1. CASE ret = 0
    BY <1>1, <1>6, <2>1, FailScopes DEF Returned, Return, Rest, Kept
  <2>2. CASE ret # 0
    BY <1>1, <1>6, <2>2, TurnScopes DEF Returned, Return
  <2> QED
    BY <2>1, <2>2
<1> QED
  BY <1>2, <1>3, <1>4, <1>5, <1>6

\* $dynamicRef is not there.
LEMMA DynamicScopesSkipped ==
  ASSUME IInv, SInv, DynamicRef \/ Local
  PROVE  SInv'
<1>1. doc' = doc /\ stack # << >>
  BY DEF DynamicRef, Local, Walks, Reading, Reads, Kept
<1>2. stack \in Seq(FrameType) /\ Len(stack) \in 1 .. Len(stack) /\ Top = stack[Len(stack)]
      /\ Top.v \in Object
  BY <1>1, TopIs
<1>3. ASSUME NoDynamicRef PROVE FALSE
  <2>1. CASE DynamicRef
    BY <1>2, <1>3, <2>1 DEF DynamicRef, Reading, NoDynamicRef
  <2>2. CASE Local
    BY <1>2, <1>3, <2>2 DEF Local, SInv, SegmentsSound
  <2> QED
    BY <2>1, <2>2
<1> QED
  BY <1>1, <1>3, ScopesNext

\* A self scope's walk begins.
LEMMA LoopEndsScopes ==
  ASSUME IInv, SInv, LoopEnds
  PROVE  SInv'
<1>1. PICK f, stk1, stk2 : /\ f = Frame("attach", Top.v, Top.v, Final(Top.v), 0, Len(acc))
                           /\ stk1 = Pop /\ stk2 = Append(stk1, f)
  OBVIOUS
<1>2. /\ stack # << >> /\ Top.fn = "compile" /\ stack' = stk2
      /\ UNCHANGED <<doc, memo, scope, acc, lost, missed>>
  BY <1>1 DEF LoopEnds, Kept
<1>3. /\ stack \in Seq(FrameType) /\ Len(stack) > 0 /\ Top = stack[Len(stack)] /\ Top.v \in Object
      /\ DocOK(doc) /\ acc \in Seq(Object)
  BY <1>2, TopIs DEF IInv
<1>4. f \in FrameType /\ f.fn = "attach" /\ f.v = Top.v /\ f.m = Top.v /\ f.base = Len(acc)
  <2>1. f = [fn |-> "attach", v |-> Top.v, m |-> Top.v, last |-> Final(Top.v), saved |-> 0,
             base |-> Len(acc)]
    BY <1>1 DEF Frame
  <2>2. Final(Top.v) \in Object
    BY <1>3, FinalIs
  <2>3. Top.v \in Nat /\ Final(Top.v) \in 0 .. Size /\ 0 \in 0 .. Size /\ Len(acc) \in Nat
    BY <1>3, <2>2, CompileAssumption DEF Object
  <2> QED
    BY <1>3, <2>1, <2>3 DEF FrameType
<1>5. stk1 \in Seq(FrameType)
  BY <1>1, <1>3 DEF Pop
<1>6. /\ SegmentsSound(stack, acc) => SegmentsSound(stk1, acc)
      /\ SegmentsWhole(stack, acc) => SegmentsWhole(stk1, acc)
  BY <1>1, <1>2, <1>3, SegPop DEF Pop
<1>7. /\ SegmentsSound(stk1, acc) => SegmentsSound(stk2, acc)
      /\ SegmentsWhole(stk1, acc) => SegmentsWhole(stk2, acc)
  <2>1. f.fn # "local" /\ (f.fn = "attach" => f.base = Len(acc) /\ f.m = f.v)
    BY <1>4
  <2> QED
    BY <1>1, <1>3, <1>4, <1>5, <2>1, SegPush
<1> QED
  BY <1>2, <1>6, <1>7, ScopesNext DEF SInv

\* It visits an object.
LEMMA VisitScopes ==
  ASSUME IInv, SInv, Visit
  PROVE  SInv'
<1>1. /\ stack # << >> /\ Top.fn # "compile" /\ Top.m <= Top.last /\ Call(stack, Top.m) /\ Rest
      /\ UNCHANGED <<lost, missed>>
  BY DEF Visit, Walks, Kept, Rest
<1>2. Top.m \in Object
  <2>1. Top.m \in Nat /\ Top.m >= 1 /\ Top.last \in Object
    BY <1>1, TopIs DEF FrameOK
  <2> QED
    BY <1>1, <2>1, CompileAssumption DEF Object
<1>3. PICK v \in Object : v = Top.m /\ Call(stack, v)
  BY <1>1, <1>2
<1> QED
  BY <1>1, <1>3, CallScopes

\* It notes what it visited.
LEMMA NoteScopes ==
  ASSUME IInv, LInv, SInv, Note
  PROVE  SInv'
<1>1. /\ stack # << >> /\ Top.fn \in {"attach", "local"} /\ stack' = Turn(Top.m + 1) /\ ret # Idle
      /\ UNCHANGED <<doc, memo, scope>>
      /\ acc' = (IF ret \in anchored THEN Append(acc, ret) ELSE acc)
      /\ lost' = (lost \/ ret = 0) /\ missed' = (missed \/ ret \in Anchors \ anchored)
  BY DEF Note, Walks
<1>2. /\ stack \in Seq(FrameType) /\ Len(stack) > 0 /\ Top = stack[Len(stack)] /\ Top.v \in Object
      /\ Len(stack) \in 1 .. Len(stack) /\ Top.base <= Len(acc) /\ DocOK(doc)
      /\ acc \in Seq(Object) /\ FrameOK(Top) /\ Top.m \in Nat /\ Top.m >= 1
  BY <1>1, TopIs DEF IInv
<1>3. PICK m \in Nat, stk2 \in {stack'} : m = Top.m
  BY <1>2
<1>4. stack' = stk2 /\ Turned(stack, m + 1, stk2)
  <2>1. m + 1 \in Nat /\ stack' = Turn(m + 1)
    BY <1>1, <1>3
  <2> QED
    BY <1>1, <1>3, <2>1, TurnIs
<1>5. SUFFICES ASSUME NoDynamicRef
               PROVE  /\ SegmentsSound(stk2, acc') /\ ScopesSound(scope', memo')
                      /\ ~lost' /\ ~missed' =>
                           SegmentsWhole(stk2, acc') /\ ScopesWhole(scope', memo')
  BY <1>1, <1>4, ScopesNext
<1>6. Top.fn = "attach"
  BY <1>1, <1>2, <1>5 DEF SInv, SegmentsSound
<1>7. PICK v \in Object : /\ v = Top.v /\ v = stack[Len(stack)].v /\ Top.last = Final(v) /\ m >= v
                          /\ ret # 0 => ret = m /\ m <= Final(v)
  BY <1>1, <1>2, <1>3, <1>6 DEF LInv, Walking, Visited, Returns
<1>8. ret \in anchored => ret # 0 /\ ret \in Anchors /\ ret \in Object
  BY DEF LInv, Noted, Anchors, Object
<1>9. ASSUME ret # 0 PROVE m \in Object /\ m \in Subtree(v)
  <2>1. Final(v) \in Object
    BY <1>2, FinalIs
  <2>2. m \in Object
    BY <1>2, <1>3, <1>7, <1>9, <2>1, CompileAssumption DEF Object
  <2> QED
    BY <1>2, <1>7, <1>9, <2>2, SubtreeInterval
<1>10. CASE ret \in anchored
  <2>1. m \in OwnAnchors(v) /\ m \in Object /\ acc' = Append(acc, m)
    BY <1>1, <1>7, <1>8, <1>9, <1>10 DEF OwnAnchors
  <2>2. stack[Len(stack)].fn = "attach" /\ stack[Len(stack)].base <= Len(acc)
        /\ m = stack[Len(stack)].m
    BY <1>2, <1>3, <1>6
  <2>3. /\ SegmentsSound(stack, acc) => SegmentsSound(stk2, acc')
        /\ SegmentsWhole(stack, acc) => SegmentsWhole(stk2, acc')
    BY <1>2, <1>3, <1>4, <1>7, <2>1, <2>2, SegKeep
  <2> QED
    BY <1>1, <1>5, <2>3 DEF SInv
<1>11. CASE ret \notin anchored
  <2>1. acc' = acc
    BY <1>1, <1>11
  <2>2. m = stack[Len(stack)].m /\ v = stack[Len(stack)].v
    BY <1>2, <1>3, <1>7
  <2>3. /\ SegmentsSound(stack, acc) => SegmentsSound(stk2, acc)
        /\ m \notin OwnAnchors(v) /\ SegmentsWhole(stack, acc) => SegmentsWhole(stk2, acc)
    BY <1>2, <1>3, <1>4, <1>7, <2>2, SegSkip
  <2>4. ~lost' /\ ~missed' => ~lost /\ ~missed /\ m \notin OwnAnchors(v)
    BY <1>1, <1>7, <1>11 DEF OwnAnchors
  <2> QED
    BY <1>1, <1>5, <2>1, <2>3, <2>4 DEF SInv
<1> QED
  BY <1>10, <1>11

\* A self scope is attached.
LEMMA AttachScopes ==
  ASSUME IInv, LInv, SInv, Attach
  PROVE  SInv'
<1>1. PICK base, stk2, ac2, s : /\ base = Top.base /\ stk2 = Pop /\ ac2 = SubSeq(acc, 1, base)
                                /\ s = SubSeq(acc, base + 1, Len(acc))
  OBVIOUS
<1>2. PICK v : v = Top.v
  OBVIOUS
<1>3. /\ stack # << >> /\ Top.fn = "attach" /\ Top.m > Top.last /\ stack' = stk2 /\ acc' = ac2
      /\ scope' = [scope EXCEPT ![v] = s] /\ memo' = [memo EXCEPT ![v] = "done"]
      /\ UNCHANGED <<doc, lost, missed>>
  BY <1>1, <1>2 DEF Attach, AttachTo, Walks, Kept
<1>4. /\ stack \in Seq(FrameType) /\ Len(stack) > 0 /\ Top = stack[Len(stack)] /\ v \in Object
      /\ Len(stack) \in 1 .. Len(stack) /\ base \in 0 .. Len(acc) /\ DocOK(doc)
      /\ acc \in Seq(Object) /\ Top.m \in Nat
      /\ memo \in [Object -> {"none", "busy", "done"}] /\ scope \in [Object -> Seq(Object)]
  BY <1>1, <1>2, <1>3, TopIs DEF IInv
<1>5. SUFFICES ASSUME NoDynamicRef
               PROVE  /\ SegmentsSound(stk2, ac2) /\ ScopesSound(scope', memo')
                      /\ ~lost /\ ~missed =>
                           SegmentsWhole(stk2, ac2) /\ ScopesWhole(scope', memo')
  BY <1>3, ScopesNext
<1>6. /\ SegmentsSound(stack, acc) => SegmentsSound(stk2, ac2)
      /\ SegmentsWhole(stack, acc) => SegmentsWhole(stk2, ac2)
  <2>1. PICK stk, ac : stk = stack /\ ac = acc
    OBVIOUS
  <2>2. PICK l \in Nat : l = Len(stk) /\ l > 0 /\ stk \in Seq(FrameType) /\ ac \in Seq(Object)
    BY <1>4, <2>1
  <2>3. /\ Len(stk) > 0 /\ stk[Len(stk)].fn = "attach" /\ base = stk[Len(stk)].base
        /\ base \in 0 .. Len(ac)
    BY <1>1, <1>3, <1>4, <2>1
  <2>4. CutTo(stk, ac, base, stk2, ac2)
    BY <1>1, <2>1 DEF Pop, CutTo
  <2>5. /\ SegmentsSound(stk, ac) => SegmentsSound(stk2, ac2)
        /\ SegmentsWhole(stk, ac) => SegmentsWhole(stk2, ac2)
    BY <2>2, <2>3, <2>4, SegCut
  <2> QED
    BY <2>1, <2>5
<1>7. PICK m \in Nat : m = Top.m /\ m > Final(v)
  BY <1>2, <1>3, <1>4 DEF LInv, Walking
<1>8. Segment(stack, Len(acc), Len(stack)) = base + 1 .. Len(acc)
  <2>1. \A b \in 1 .. Len(stack) : ~(Len(stack) < b)
    BY <1>4
  <2> QED
    BY <1>1, <1>4, <2>1 DEF Segment
<1>9. SegmentsSound(stack, acc) => Sound(acc, base + 1 .. Len(acc), OwnAnchors(v), m)
  BY <1>2, <1>3, <1>4, <1>7, <1>8 DEF SegmentsSound
<1>10. SegmentsWhole(stack, acc) => Whole(acc, base + 1 .. Len(acc), OwnAnchors(v), m)
  BY <1>2, <1>3, <1>4, <1>7, <1>8 DEF SegmentsWhole
<1>11. Sound(acc, base + 1 .. Len(acc), OwnAnchors(v), m)
  BY <1>5, <1>9 DEF SInv
<1>12. /\ \A j \in DOMAIN s : s[j] \in OwnAnchors(v)
       /\ Whole(acc, base + 1 .. Len(acc), OwnAnchors(v), m) => s = InOrder(OwnAnchors(v))
  BY <1>1, <1>4, <1>7, <1>11, SegList
<1>13. /\ scope'[v] = s
       /\ \A i \in Object : i # v => scope'[i] = scope[i] /\ memo'[i] = memo[i]
  BY <1>3, <1>4
<1>14. ScopesSound(scope, memo) => ScopesSound(scope', memo')
  BY <1>12, <1>13 DEF ScopesSound
<1>15. SegmentsWhole(stack, acc) /\ ScopesWhole(scope, memo) => ScopesWhole(scope', memo')
  BY <1>10, <1>12, <1>13 DEF ScopesWhole
<1> QED
  BY <1>5, <1>6, <1>14, <1>15 DEF SInv

LEMMA NextScopes == IInv /\ LInv /\ SInv /\ [Next]_vars => SInv'
<1> SUFFICES ASSUME IInv, LInv, SInv, [Next]_vars
             PROVE  SInv'
  OBVIOUS
<1>1. CASE Subschema \/ Ref \/ Bad \/ Ignored \/ Anchor \/ Dependency \/ Returned
  BY <1>1, LoopScopes
<1>2. CASE DynamicRef \/ Local
  BY <1>2, DynamicScopesSkipped
<1>3. CASE LoopEnds
  BY <1>3, LoopEndsScopes
<1>4. CASE Visit
  BY <1>4, VisitScopes
<1>5. CASE Note
  BY <1>5, NoteScopes
<1>6. CASE Attach
  BY <1>6, AttachScopes
<1>7. CASE UNCHANGED vars
  <2>1. UNCHANGED <<doc, memo, scope, stack, acc, lost, missed>>
    BY <1>7 DEF vars
  <2> QED
    BY <2>1, ScopesNext DEF SInv
<1> QED
  BY <1>1, <1>2, <1>3, <1>4, <1>5, <1>6, <1>7 DEF Next

\* Only the root is called, nothing is finished.
LEMMA InitScopes == Init => SInv
<1> SUFFICES ASSUME Init
             PROVE  SInv
  OBVIOUS
<1>1. PICK f : f = Frame("compile", Root, 1, 0, Root, 0) /\ stack = <<f>>
  BY DEF Init, InitWith
<1>2. f.fn = "compile"
  BY <1>1 DEF Frame
<1>3. \A a \in 1 .. Len(stack) : stack[a].fn = "compile"
  BY <1>1, <1>2
<1>4. \A i \in Object : memo[i] # "done"
  BY DEF Init, InitWith
<1> QED
  BY <1>3, <1>4 DEF SInv, SegmentsSound, SegmentsWhole, ScopesSound, ScopesWhole

-------------------------------------------------------------------------------
(***************************************************************************)
(* The verdict.  All of it is about compilations that dropped no failure.  *)
(***************************************************************************)
\* The resource in force where frame n begins is that of the newest object
\* below whose keywords are being read.
HomeIs(stk, n, r) ==
  /\ (\A b \in 1 .. Len(stk) : b < n => stk[b].fn # "compile") => r = Root
  /\ \A a \in 1 .. Len(stk) :
       /\ a < n /\ stk[a].fn = "compile"
       /\ \A b \in 1 .. Len(stk) : a < b /\ b < n => stk[b].fn # "compile"
       => r = ResRoot(doc, stk[a].v)
HomesOK(stk) == \A a \in 1 .. Len(stk) : stk[a].fn = "compile" => HomeIs(stk, a, stk[a].saved)
OnStack(stk, mem) ==
  \A i \in Object : mem[i] = "busy" =>
    \E a \in 1 .. Len(stk) : stk[a].v = i /\ stk[a].fn # "local"

HInv ==
  ~lost => /\ HomesOK(stack)
           /\ ret # 0 => HomeIs(stack, Len(stack) + 1, cur) /\ OnStack(stack, memo)

-------------------------------------------------------------------------------
(***************************************************************************)
(* What was read has been called.                                          *)
(***************************************************************************)
KeywordOK(v, T) ==
  /\ doc.use[v].kw # "bad"
  /\ doc.use[v].kw = "ref" => doc.use[v].to \in T
  /\ doc.use[v].kw = "dynref" => Anchors # {} /\ Bookend(v) \subseteq T
Settled(v, T) ==
  KeywordOK(v, T) /\ \A j \in Object : doc.up[j] = v /\ doc.pos[j] = "sub" => j \in T
MemberOK(v, j, T) == IF j = 0 THEN KeywordOK(v, T) ELSE doc.pos[j] = "sub" => j \in T
ReadOK(v, n, T) ==
  \A k \in 1 .. Len(Members(v)) : k < n => MemberOK(v, Members(v)[k], T)

Res(i) == Subtree(ResRoot(doc, i))

\* A walk of resource_local_anchor stands on the $dynamicRef that began it and
\* covers its object's resource.
LocalOK(f, g, T) ==
  /\ f.fn = "compile" /\ f.v = g.v /\ doc.use[g.v].kw = "dynref"
  /\ ReadOK(f.v, f.m, T)
  /\ f.m \in 1 .. Len(Members(f.v)) /\ Members(f.v)[f.m] = 0
  /\ g.last = Final(ResRoot(doc, g.v)) /\ g.m >= ResRoot(doc, g.v)
  /\ \A j \in Object : ResRoot(doc, g.v) <= j /\ j < g.m => j \in T

Progress(f, T) ==
  /\ f.fn = "attach" => Settled(f.v, T)
  /\ f.fn = "compile" => ReadOK(f.v, f.m, T)
Link(f, g, T) ==
  /\ g.fn = "local" => LocalOK(f, g, T)
  /\ f.fn = "compile" /\ g.fn # "local" => ReadOK(f.v, f.m + 1, T)
ReadingOK(stk, T) ==
  /\ \A a \in 1 .. Len(stk) : Progress(stk[a], T) /\ (a = 1 => stk[a].fn # "local")
  /\ \A a, b \in 1 .. Len(stk) : b = a + 1 => Link(stk[a], stk[b], T)
ReadyOK(stk, T, r) ==
  \A a \in 1 .. Len(stk) : a = Len(stk) /\ stk[a].fn = "compile" /\ Returns(r) =>
    ReadOK(stk[a].v, stk[a].m + 1, T)

RInv ==
  ~lost =>
    /\ \A i \in Object : memo[i] = "done" => Settled(i, Touched(memo))
    /\ ReadingOK(stack, Touched(memo)) /\ ReadyOK(stack, Touched(memo), ret)

\* Only a fallback to another resource's anchor leads out of a resource.
Escaped(T) == \E i \in FirstCollected : i \in T
Inside(stk) == \A a, b \in 1 .. Len(stk) : a <= b => stk[b].v \in Res(stk[a].v)
EntriesInside(stk, ac) ==
  \A a \in 1 .. Len(stk), j \in 1 .. Len(ac) : stk[a].fn = "local" /\ stk[a].base < j =>
    ac[j] \in Res(stk[a].v)

WInv ==
  ~lost => Escaped(Touched(memo)) \/ (Inside(stack) /\ EntriesInside(stack, acc))

-------------------------------------------------------------------------------
(***************************************************************************)
(* Without a walk on the stack, what is being compiled applies.            *)
(***************************************************************************)
Direct(stk, a) == \A b \in 1 .. Len(stk) : b <= a => stk[b].fn = "compile"
ReachedOK(stk) == \A a \in 1 .. Len(stk) : Direct(stk, a) => stk[a].v \in Reached
FailsRightly(stk, r) == r = 0 /\ Direct(stk, Len(stk)) => ~Valid

\* A local walk that met an anchor has an entry.
Met(f) == \E j \in Anchors : ResRoot(doc, f.v) <= j /\ j < f.m
FoundOK(stk, n) ==
  \A a \in 1 .. Len(stk) : stk[a].fn = "local" /\ Met(stk[a]) =>
    /\ n > stk[a].base
    /\ \A b \in 1 .. Len(stk) : a < b /\ stk[b].fn # "compile" => stk[b].base > stk[a].base

FInv ==
  ~lost /\ ~missed =>
    ReachedOK(stack) /\ FailsRightly(stack, ret) /\ FoundOK(stack, Len(acc))

-------------------------------------------------------------------------------
\* Resources: an object lies in its own, and embedded ones lie in the one
\* around them.
LEMMA ResourceFacts ==
  ASSUME DocOK(doc), NEW i \in Object
  PROVE  /\ ResRoot(doc, i) \in Object /\ doc.id[ResRoot(doc, i)] /\ i \in Subtree(ResRoot(doc, i))
         /\ \A r \in Object : doc.id[r] /\ i \in Subtree(r) => ResRoot(doc, i) \in Subtree(r)
         /\ doc.use[i].kw = "ref" =>
              doc.use[i].to \in Object /\ doc.use[i].to \in Subtree(ResRoot(doc, i))
<1>2. PICK L : /\ \A k \in Object : L[k] = Line(doc.up, k) /\ L[k] \subseteq 1 .. k /\ k \in L[k]
               /\ \A k \in Object : \A m \in L[k] : m \in Object /\ L[m] \subseteq L[k]
               /\ \A k \in Object : \A m, n \in L[k] : m <= n => m \in L[n]
  BY DocLines
<1>3. PICK S : S = {r \in L[i] : doc.id[r]}
  OBVIOUS
<1>4. S = {r \in Line(doc.up, i) : doc.id[r]}
  BY <1>2, <1>3
<1>5. Root \in Line(doc.up, i) /\ doc.id[Root]
  BY LineOf DEF DocOK, IsDocument
<1>6. S \in SUBSET (1 .. Size) /\ S # {} /\ Size \in Nat
  BY <1>2, <1>3, <1>4, <1>5, CompileAssumption DEF Object
<1>7. \E r \in S : \A s \in S : s <= r
  BY <1>6, GreatestNat
<1>8. PICK q : q = ResRoot(doc, i)
  OBVIOUS
<1>9. q \in S /\ \A s \in S : s <= q
  BY <1>4, <1>7, <1>8 DEF ResRoot
<1>10. q \in Object /\ doc.id[q] /\ q \in L[i]
  BY <1>2, <1>3, <1>9
<1>11. i \in Subtree(q)
  BY <1>2, <1>10 DEF Subtree
<1>12. ASSUME NEW r \in Object, doc.id[r], i \in Subtree(r) PROVE q \in Subtree(r)
  <2>1. r \in S /\ r \in L[i]
    BY <1>2, <1>3, <1>12 DEF Subtree
  <2>2. r \in L[q]
    BY <1>2, <1>9, <1>10, <2>1
  <2> QED
    BY <1>2, <1>10, <2>2 DEF Subtree
<1>13. ASSUME doc.use[i].kw = "ref" PROVE doc.use[i].to \in Object /\ doc.use[i].to \in Subtree(q)
  <2>1. PICK u : u = doc.use[i]
    OBVIOUS
  <2>2. u \in Use /\ u.kw = "ref"
    BY <1>13, <2>1 DEF DocOK
  <2>3. u.to \in Object
    <3>1. \/ u \in {[kw |-> "none", to |-> 0, first |-> TRUE]}
          \/ u \in [kw : Keyword \ {"none", "ref"}, to : {0}, first : BOOLEAN]
          \/ u \in [kw : Keyword \cap {"ref"}, to : Object, first : BOOLEAN]
      BY <2>2 DEF Use
    <3>2. u \notin {[kw |-> "none", to |-> 0, first |-> TRUE]}
      BY <2>2
    <3>3. u \notin [kw : Keyword \ {"none", "ref"}, to : {0}, first : BOOLEAN]
      BY <2>2
    <3> QED
      BY <3>1, <3>2, <3>3
  <2>4. q \in Line(doc.up, doc.use[i].to)
    BY <1>8, <1>13 DEF DocOK, IsDocument
  <2> QED
    BY <2>1, <2>3, <2>4 DEF Subtree
<1> QED
  BY <1>8, <1>10, <1>11, <1>12, <1>13

-------------------------------------------------------------------------------
(***************************************************************************)
(* The resource in force.                                                  *)
(***************************************************************************)
LEMMA FieldsAre ==
  ASSUME NEW stk \in Seq(FrameType), NEW a \in 1 .. Len(stk)
  PROVE  /\ stk[a].fn \in {"compile", "attach", "local"} /\ stk[a].v \in Object
         /\ stk[a].m \in Nat /\ stk[a].base \in Nat /\ stk[a].saved \in 0 .. Size
<1>1. stk[a] \in FrameType
  OBVIOUS
<1> QED
  BY <1>1 DEF FrameType

\* Two stacks alike in all that the longer one has of the shorter: their
\* frames differ in how far they have come.
Alike(stk, stk2) ==
  /\ Len(stk2) <= Len(stk)
  /\ \A a \in 1 .. Len(stk2) : /\ stk2[a].fn = stk[a].fn /\ stk2[a].v = stk[a].v
                               /\ stk2[a].saved = stk[a].saved /\ stk2[a].base = stk[a].base

LEMMA HomeAlike ==
  ASSUME NEW stk \in Seq(FrameType), NEW stk2 \in Seq(FrameType), Alike(stk, stk2)
  PROVE  /\ \A n \in 1 .. Len(stk2) + 1, r \in 0 .. Size : HomeIs(stk, n, r) <=> HomeIs(stk2, n, r)
         /\ HomesOK(stk) => HomesOK(stk2)
<1>1. PICK l \in Nat, k \in Nat : l = Len(stk) /\ k = Len(stk2) /\ k <= l
  BY DEF Alike
<1>2. \A a \in 1 .. k : /\ a \in 1 .. l /\ stk2[a].fn = stk[a].fn /\ stk2[a].v = stk[a].v
                        /\ stk2[a].saved = stk[a].saved
  BY <1>1 DEF Alike
<1>3. ASSUME NEW n \in 1 .. k + 1, NEW r \in 0 .. Size PROVE HomeIs(stk, n, r) <=> HomeIs(stk2, n, r)
  <2>1. \A a \in 1 .. l : a < n => a \in 1 .. k
    BY <1>1
  <2>2. \A a \in 1 .. k : stk2[a].fn = "compile" <=> stk[a].fn = "compile"
    BY <1>2
  <2>3. (\A b \in 1 .. l : b < n => stk[b].fn # "compile")
        <=> (\A b \in 1 .. k : b < n => stk2[b].fn # "compile")
    BY <1>2, <2>1, <2>2
  <2>4. \A a \in 1 .. k : (\A b \in 1 .. l : a < b /\ b < n => stk[b].fn # "compile")
                          <=> (\A b \in 1 .. k : a < b /\ b < n => stk2[b].fn # "compile")
    BY <1>2, <2>1, <2>2
  <2>5. ASSUME NEW a \in 1 .. l, a < n
        PROVE  a \in 1 .. k /\ stk2[a].fn = stk[a].fn /\ stk2[a].v = stk[a].v
    BY <1>2, <2>1, <2>5
  <2>6. HomeIs(stk, n, r) => HomeIs(stk2, n, r)
    BY <1>1, <1>2, <2>3, <2>4 DEF HomeIs
  <2>7. HomeIs(stk2, n, r) => HomeIs(stk, n, r)
    BY <1>1, <2>3, <2>4, <2>5 DEF HomeIs
  <2> QED
    BY <2>6, <2>7
<1>4. ASSUME HomesOK(stk) PROVE HomesOK(stk2)
  <2>1. ASSUME NEW a \in 1 .. k, stk2[a].fn = "compile" PROVE HomeIs(stk2, a, stk2[a].saved)
    <3>1. HomeIs(stk, a, stk[a].saved)
      BY <1>1, <1>2, <1>4, <2>1 DEF HomesOK
    <3>2. a \in 1 .. k + 1 /\ stk2[a].saved \in 0 .. Size
      BY <1>1, FieldsAre
    <3> QED
      BY <1>2, <1>3, <3>1, <3>2
  <2> QED
    BY <1>1, <2>1 DEF HomesOK
<1> QED
  BY <1>1, <1>3, <1>4

\* A new activation.
LEMMA HomePush ==
  ASSUME NEW stk \in Seq(FrameType), HomesOK(stk), NEW f \in FrameType,
         f.fn = "compile" => HomeIs(stk, Len(stk) + 1, f.saved),
         NEW stk2, stk2 = Append(stk, f)
  PROVE  /\ HomesOK(stk2)
         /\ f.fn = "compile" => HomeIs(stk2, Len(stk2) + 1, ResRoot(doc, f.v))
         /\ f.fn # "compile" =>
              \A r \in 0 .. Size : HomeIs(stk, Len(stk) + 1, r) => HomeIs(stk2, Len(stk2) + 1, r)
<1>1. PICK l \in Nat : l = Len(stk)
  OBVIOUS
<1>2. /\ Len(stk2) = l + 1 /\ stk2[l + 1] = f /\ \A a \in 1 .. l : stk2[a] = stk[a]
      /\ \A a \in 1 .. l + 1 : a = l + 1 \/ a \in 1 .. l
      /\ \A a \in 1 .. l : a \in 1 .. l + 1 /\ a # l + 1 /\ a < l + 1
      /\ l + 1 \in 1 .. l + 1
  BY <1>1
<1>3. Alike(stk2, stk) /\ stk2 \in Seq(FrameType)
  BY <1>1, <1>2 DEF Alike
<1>4. \A n \in 1 .. l + 1, r \in 0 .. Size : HomeIs(stk2, n, r) <=> HomeIs(stk, n, r)
  BY <1>1, <1>3, HomeAlike
<1>5. ASSUME NEW a \in 1 .. l + 1, stk2[a].fn = "compile" PROVE HomeIs(stk2, a, stk2[a].saved)
  <2>1. CASE a = l + 1
    <3>1. f.saved \in 0 .. Size
      BY DEF FrameType
    <3> QED
      BY <1>1, <1>2, <1>4, <1>5, <2>1, <3>1
  <2>2. CASE a \in 1 .. l
    <3>1. HomeIs(stk, a, stk[a].saved)
      BY <1>1, <1>2, <1>5, <2>2 DEF HomesOK
    <3>2. stk[a].saved \in 0 .. Size
      BY <1>1, <2>2, FieldsAre
    <3> QED
      BY <1>2, <1>4, <2>2, <3>1, <3>2
  <2> QED
    BY <1>2, <2>1, <2>2
<1>6. HomesOK(stk2)
  BY <1>2, <1>5 DEF HomesOK
<1>7. ASSUME f.fn = "compile" PROVE HomeIs(stk2, Len(stk2) + 1, ResRoot(doc, f.v))
  <2>1. ~(\A b \in 1 .. l + 1 : b < l + 1 + 1 => stk2[b].fn # "compile")
    BY <1>1, <1>2, <1>7
  <2>2. \A a \in 1 .. l : ~(\A b \in 1 .. l + 1 : a < b /\ b < l + 1 + 1 => stk2[b].fn # "compile")
    BY <1>1, <1>2, <1>7
  <2> QED
    BY <1>2, <2>1, <2>2 DEF HomeIs
<1>8. ASSUME f.fn # "compile", NEW r \in 0 .. Size, HomeIs(stk, Len(stk) + 1, r)
      PROVE  HomeIs(stk2, Len(stk2) + 1, r)
  <2>1. \A a \in 1 .. l : a < l + 1 + 1 /\ a < l + 1
    BY <1>1
  <2>2. ASSUME \A b \in 1 .. l + 1 : b < l + 1 + 1 => stk2[b].fn # "compile" PROVE r = Root
    <3>1. \A b \in 1 .. l : stk[b].fn # "compile"
      BY <1>2, <2>1, <2>2
    <3> QED
      BY <1>1, <1>8, <3>1 DEF HomeIs
  <2>3. ASSUME NEW a \in 1 .. l + 1, stk2[a].fn = "compile",
               \A b \in 1 .. l + 1 : a < b /\ b < l + 1 + 1 => stk2[b].fn # "compile"
        PROVE  r = ResRoot(doc, stk2[a].v)
    <3>1. a \in 1 .. l /\ stk2[a] = stk[a]
      BY <1>2, <1>8, <2>3
    <3>2. \A b \in 1 .. l : a < b => stk[b].fn # "compile"
      BY <1>2, <2>1, <2>3
    <3> QED
      BY <1>1, <1>8, <2>1, <2>3, <3>1, <3>2 DEF HomeIs
  <2> QED
    BY <1>2, <2>2, <2>3 DEF HomeIs
<1> QED
  BY <1>6, <1>7, <1>8

\* The newest activation ends: a walk, or a compilation that puts the
\* resource back.
LEMMA HomePop ==
  ASSUME NEW stk \in Seq(FrameType), HomesOK(stk), Len(stk) > 0,
         NEW stk2, stk2 = SubSeq(stk, 1, Len(stk) - 1)
  PROVE  /\ HomesOK(stk2) /\ stk2 \in Seq(FrameType)
         /\ stk[Len(stk)].fn = "compile" => HomeIs(stk2, Len(stk2) + 1, stk[Len(stk)].saved)
         /\ stk[Len(stk)].fn # "compile" =>
              \A r \in 0 .. Size : HomeIs(stk, Len(stk) + 1, r) => HomeIs(stk2, Len(stk2) + 1, r)
<1>1. PICK l \in Nat : Len(stk) = l + 1
  <2>1. Len(stk) - 1 \in Nat /\ Len(stk) = (Len(stk) - 1) + 1
    OBVIOUS
  <2> QED
    BY <2>1
<1>2. /\ stk2 \in Seq(FrameType) /\ Len(stk2) = l /\ \A a \in 1 .. l : stk2[a] = stk[a]
      /\ \A a \in 1 .. l + 1 : a = l + 1 \/ a \in 1 .. l
      /\ \A a \in 1 .. l : a \in 1 .. l + 1 /\ a < l + 1
      /\ l + 1 \in 1 .. l + 1
  BY <1>1
<1>3. Alike(stk, stk2)
  BY <1>1, <1>2 DEF Alike
<1>4. /\ \A n \in 1 .. l + 1, r \in 0 .. Size : HomeIs(stk, n, r) <=> HomeIs(stk2, n, r)
      /\ HomesOK(stk2)
  BY <1>2, <1>3, HomeAlike
<1>5. ASSUME stk[l + 1].fn = "compile" PROVE HomeIs(stk2, l + 1, stk[l + 1].saved)
  <2>1. stk[l + 1].saved \in 0 .. Size
    BY <1>1, <1>2, FieldsAre
  <2> QED
    BY <1>1, <1>2, <1>4, <1>5, <2>1 DEF HomesOK
<1>6. ASSUME stk[l + 1].fn # "compile", NEW r \in 0 .. Size, HomeIs(stk, l + 1 + 1, r)
      PROVE  HomeIs(stk2, l + 1, r)
  <2>1. ASSUME \A b \in 1 .. l : stk2[b].fn # "compile" PROVE r = Root
    BY <1>1, <1>2, <1>6, <2>1 DEF HomeIs
  <2>2. ASSUME NEW a \in 1 .. l, stk2[a].fn = "compile",
               \A b \in 1 .. l : a < b => stk2[b].fn # "compile"
        PROVE  r = ResRoot(doc, stk2[a].v)
    <3>1. \A b \in 1 .. l + 1 : a < b => stk[b].fn # "compile"
      BY <1>2, <1>6, <2>2
    <3>2. a < l + 1 + 1 /\ a \in 1 .. l + 1 /\ stk2[a] = stk[a]
      BY <1>1, <1>2
    <3> QED
      BY <1>1, <1>6, <2>2, <3>1, <3>2 DEF HomeIs
  <2>3. \A b \in 1 .. l : b < l + 1
    OBVIOUS
  <2> QED
    BY <1>2, <2>1, <2>2, <2>3 DEF HomeIs
<1> QED
  BY <1>1, <1>2, <1>4, <1>5, <1>6

\* The newest activation moves on.
LEMMA TurnAlike ==
  ASSUME IInv, stack # << >>, NEW n \in Nat, stack' = Turn(n)
  PROVE  /\ Alike(stack, stack') /\ stack' \in Seq(FrameType) /\ Len(stack') = Len(stack)
         /\ stack'[Len(stack)].m = n /\ stack'[Len(stack)].last = Top.last
         /\ \A a \in 1 .. Len(stack) : a # Len(stack) => stack'[a] = stack[a]
<1>1. PICK l \in Nat, f \in FrameType, g \in {[Top EXCEPT !.m = n]} :
        l = Len(stack) /\ l \in 1 .. l /\ f = Top /\ f = stack[l] /\ g = [f EXCEPT !.m = n]
  BY TopIs
<1>2. g \in FrameType
  BY <1>1 DEF FrameType
<1>3. /\ g.fn = f.fn /\ g.v = f.v /\ g.saved = f.saved /\ g.base = f.base /\ g.last = f.last
      /\ g.m = n
  BY <1>1 DEF FrameType
<1>4. stack' = [stack EXCEPT ![l] = g]
  BY <1>1 DEF Turn
<1>5. stack \in Seq(FrameType)
  BY TopIs
<1>6. /\ stack' \in Seq(FrameType) /\ Len(stack') = l /\ stack'[l] = g
      /\ \A a \in 1 .. l : a # l => stack'[a] = stack[a]
  BY <1>1, <1>2, <1>4, <1>5
<1>7. Alike(stack, stack')
  <2>1. PICK stk, stk2 : stk = stack /\ stk2 = stack'
    OBVIOUS
  <2>2. Len(stk2) <= Len(stk) /\ Len(stk2) = l
    BY <1>1, <1>6, <2>1
  <2>3. ASSUME NEW a \in 1 .. l
        PROVE  /\ stk2[a].fn = stk[a].fn /\ stk2[a].v = stk[a].v
               /\ stk2[a].saved = stk[a].saved /\ stk2[a].base = stk[a].base
    BY <1>1, <1>3, <1>6, <2>1
  <2>4. Alike(stk, stk2)
    BY <2>2, <2>3 DEF Alike
  <2> QED
    BY <2>1, <2>4
<1> QED
  BY <1>1, <1>3, <1>6, <1>7

\* The document stays: so does the sense of the invariant.
LEMMA HomeNext ==
  ASSUME doc' = doc,
         ~lost' => /\ HomesOK(stack')
                   /\ ret' # 0 => HomeIs(stack', Len(stack') + 1, cur') /\ OnStack(stack', memo')
  PROVE  HInv'
<1>1. \A i : ResRoot(doc', i) = ResRoot(doc, i)
  OBVIOUS
<1>2. HomesOK(stack') => HomesOK(stack)'
  BY DEF HomesOK, HomeIs
<1>3. HomeIs(stack', Len(stack') + 1, cur') => HomeIs(stack, Len(stack) + 1, cur)'
  BY DEF HomeIs
<1>4. OnStack(stack', memo') => OnStack(stack, memo)'
  BY DEF OnStack
<1> QED
  BY <1>2, <1>3, <1>4 DEF HInv

LEMMA CallHome ==
  ASSUME IInv, NEW stk \in Seq(FrameType), NEW v \in Object, Call(stk, v),
         HomesOK(stk), HomeIs(stk, Len(stk) + 1, cur), OnStack(stk, memo)
  PROVE  HomesOK(stack') /\ HomeIs(stack', Len(stack') + 1, cur') /\ OnStack(stack', memo')
<1>1. memo \in [Object -> {"none", "busy", "done"}] /\ cur \in Object
  BY DEF IInv
<1>2. CASE memo[v] \in {"busy", "done"}
  BY <1>2 DEF Call, Calls
<1>3. CASE memo[v] \notin {"busy", "done"}
  <2>1. PICK f, stk2, mem : /\ f = Frame("compile", v, 1, 0, cur, 0) /\ stk2 = Append(stk, f)
                            /\ mem = [memo EXCEPT ![v] = "busy"]
    OBVIOUS
  <2>2. stack' = stk2 /\ memo' = mem /\ cur' = ResRoot(doc, v)
    BY <1>3, <2>1 DEF Call, Calls
  <2>3. f \in FrameType /\ f.fn = "compile" /\ f.v = v /\ f.saved = cur
    <3>1. cur \in 0 .. Size /\ 0 \in 0 .. Size
      BY <1>1, CompileAssumption DEF Object
    <3>2. f = [fn |-> "compile", v |-> v, m |-> 1, last |-> 0, saved |-> cur, base |-> 0]
      BY <2>1 DEF Frame
    <3> QED
      BY <3>1, <3>2 DEF FrameType
  <2>4. HomesOK(stk2) /\ HomeIs(stk2, Len(stk2) + 1, ResRoot(doc, f.v))
    BY <2>1, <2>3, HomePush
  <2>5. ASSUME NEW i \in Object, mem[i] = "busy"
        PROVE  \E a \in 1 .. Len(stk2) : stk2[a].v = i /\ stk2[a].fn # "local"
    <3>1. /\ Len(stk2) = Len(stk) + 1 /\ stk2[Len(stk) + 1] = f /\ Len(stk) + 1 \in 1 .. Len(stk2)
          /\ \A a \in 1 .. Len(stk) : stk2[a] = stk[a] /\ a \in 1 .. Len(stk2)
      BY <2>1
    <3>2. i = v \/ memo[i] = "busy"
      BY <1>1, <2>1, <2>5
    <3> QED
      BY <2>3, <3>1, <3>2 DEF OnStack
  <2> QED
    BY <2>2, <2>3, <2>4, <2>5 DEF OnStack
<1> QED
  BY <1>2, <1>3

\* Steps of the activation in front, calls and failures of its keywords.
LEMMA TurnHome ==
  ASSUME IInv, HInv, stack # << >>, stack' = Turn(Top.m + 1), ret # 0 \/ lost',
         UNCHANGED <<doc, memo, cur>>, lost => lost'
  PROVE  HInv'
<1>1. SUFFICES ASSUME ~lost' PROVE HomesOK(stack')
               /\ HomeIs(stack', Len(stack') + 1, cur') /\ OnStack(stack', memo')
  BY HomeNext
<1>2. /\ HomesOK(stack) /\ HomeIs(stack, Len(stack) + 1, cur) /\ OnStack(stack, memo)
      /\ cur' = cur /\ memo' = memo /\ cur \in 0 .. Size
  BY <1>1, CompileAssumption DEF HInv, IInv, Object
<1>3. PICK stk2 : stk2 = stack'
  OBVIOUS
<1>4. Alike(stack, stk2) /\ stk2 \in Seq(FrameType) /\ Len(stk2) = Len(stack)
  <2>1. Top.m + 1 \in Nat
    BY TopIs
  <2> QED
    BY <1>3, <2>1, TurnAlike
<1>5. stack \in Seq(FrameType) /\ Len(stack) + 1 \in 1 .. Len(stk2) + 1
  BY <1>4, TopIs
<1>6. HomesOK(stk2) /\ HomeIs(stk2, Len(stk2) + 1, cur)
  BY <1>2, <1>4, <1>5, HomeAlike
<1>7. OnStack(stk2, memo)
  BY <1>2, <1>4 DEF OnStack, Alike
<1> QED
  BY <1>2, <1>3, <1>6, <1>7

LEMMA FailHome ==
  ASSUME IInv, HInv, stack # << >>, Fail, UNCHANGED <<doc, lost>>
  PROVE  HInv'
<1>1. SUFFICES ASSUME ~lost PROVE HomesOK(stack')
  BY HomeNext DEF Fail
<1>2. stack \in Seq(FrameType) /\ Len(stack) > 0 /\ HomesOK(stack)
  BY <1>1, TopIs DEF HInv
<1>3. PICK stk2 : stk2 = SubSeq(stack, 1, Len(stack) - 1)
  OBVIOUS
<1>4. HomesOK(stk2)
  BY <1>2, <1>3, HomePop
<1> QED
  BY <1>3, <1>4 DEF Fail, Pop

LEMMA LoopHome ==
  ASSUME IInv, HInv, Subschema \/ Ref \/ Bad \/ Ignored \/ Anchor \/ Dependency \/ Returned \/ Visit
  PROVE  HInv'
<1>1. /\ stack # << >> /\ stack \in Seq(FrameType) /\ UNCHANGED <<doc, lost>>
      /\ Top.v \in Object /\ Idle # 0
  BY TopIs DEF Subschema, Ref, Bad, Ignored, Anchor, Dependency, Returned, Return, Reading,
               Reads, Kept, Visit, Walks, Idle
<1>2. ASSUME NEW v \in Object, Call(stack, v), ret = Idle PROVE HInv'
  <2>1. SUFFICES ASSUME ~lost
                 PROVE  HomesOK(stack') /\ HomeIs(stack', Len(stack') + 1, cur') /\ OnStack(stack', memo')
    BY <1>1, HomeNext
  <2> QED
    BY <1>1, <1>2, <2>1, CallHome DEF HInv
<1>3. CASE Subschema
  BY <1>2, <1>3, ReadIs DEF Subschema, Reads
<1>4. CASE Visit
  <2>1. Top.m \in Object
    <3>1. Top.m \in Nat /\ Top.m >= 1 /\ Top.last \in Object /\ Top.m <= Top.last
      BY <1>1, <1>4, TopIs DEF FrameOK, Visit, Walks
    <3> QED
      BY <3>1, CompileAssumption DEF Object
  <2> QED
    BY <1>2, <1>4, <2>1 DEF Visit
<1>5. CASE Ref
  <2>1. PICK to \in Resolve(Top.v) : IF to = 0 THEN Fail ELSE Call(stack, to)
    BY <1>5 DEF Ref
  <2>2. PICK v \in Object : v = Top.v /\ doc.use[v].kw = "ref" /\ ret = Idle
    BY <1>1, <1>5 DEF Ref, Reading, Reads
  <2>3. to # 0 => to \in Object
    BY <2>1, <2>2, ResolveIs
  <2> QED
    BY <1>1, <1>2, <2>1, <2>2, <2>3, FailHome
<1>6. CASE Bad
  BY <1>1, <1>6, FailHome DEF Bad
<1>7. CASE Ignored \/ Anchor \/ Dependency
  <2>1. ret = Idle /\ stack' = Turn(Top.m + 1) /\ UNCHANGED <<memo, cur>>
    BY <1>7 DEF Ignored, Anchor, Dependency, Reading, Reads
  <2> QED
    BY <1>1, <2>1, TurnHome
<1>8. CASE Returned
  <2>1. CASE ret = 0
    BY <1>1, <1>8, <2>1, FailHome DEF Returned, Return
  <2>2. CASE ret # 0
    BY <1>1, <1>8, <2>2, TurnHome DEF Returned, Return
  <2> QED
    BY <2>1, <2>2
<1> QED
  BY <1>3, <1>4, <1>5, <1>6, <1>7, <1>8

LEMMA DynamicRefHome ==
  ASSUME IInv, HInv, DynamicRef
  PROVE  HInv'
<1>1. PICK f, stk2 : /\ f = Frame("local", Top.v, cur, Final(cur), 0, Len(acc))
                     /\ stk2 = Append(stack, f)
  OBVIOUS
<1>2. /\ stack # << >> /\ stack' = stk2 /\ ret = Idle /\ UNCHANGED <<doc, memo, cur, lost>>
  BY <1>1 DEF DynamicRef, Reading, Reads, Kept
<1>3. SUFFICES ASSUME ~lost
               PROVE  HomesOK(stk2) /\ HomeIs(stk2, Len(stk2) + 1, cur) /\ OnStack(stk2, memo)
  BY <1>2, HomeNext
<1>4. /\ stack \in Seq(FrameType) /\ Top.v \in Object /\ cur \in 0 .. Size
      /\ HomesOK(stack) /\ HomeIs(stack, Len(stack) + 1, cur) /\ OnStack(stack, memo)
  BY <1>2, <1>3, TopIs, CompileAssumption DEF HInv, Idle, IInv, Object
<1>5. f \in FrameType /\ f.fn = "local"
  <2>1. f = [fn |-> "local", v |-> Top.v, m |-> cur, last |-> Final(cur), saved |-> 0,
             base |-> Len(acc)]
    BY <1>1 DEF Frame
  <2>2. cur \in Object /\ acc \in Seq(Object) /\ DocOK(doc)
    BY DEF IInv
  <2>3. cur \in Nat /\ Final(cur) \in 0 .. Size /\ 0 \in 0 .. Size /\ Len(acc) \in Nat
    BY <2>2, FinalIs, CompileAssumption DEF Object
  <2> QED
    BY <1>4, <2>1, <2>3 DEF FrameType
<1>6. HomesOK(stk2) /\ HomeIs(stk2, Len(stk2) + 1, cur)
  BY <1>1, <1>4, <1>5, HomePush
<1>7. \A a \in 1 .. Len(stack) : a \in 1 .. Len(stk2) /\ stk2[a] = stack[a]
  BY <1>1, <1>4
<1> QED
  BY <1>4, <1>6, <1>7 DEF OnStack

LEMMA LoopEndsHome ==
  ASSUME IInv, HInv, LoopEnds
  PROVE  HInv'
<1>1. PICK f, stk1, stk2 : /\ f = Frame("attach", Top.v, Top.v, Final(Top.v), 0, Len(acc))
                           /\ stk1 = Pop /\ stk2 = Append(stk1, f)
  OBVIOUS
<1>2. /\ stack # << >> /\ Top.fn = "compile" /\ stack' = stk2 /\ ret = Idle /\ cur' = Top.saved
      /\ UNCHANGED <<doc, memo, lost>>
  BY <1>1 DEF LoopEnds, Kept
<1>3. SUFFICES ASSUME ~lost
               PROVE  HomesOK(stk2) /\ HomeIs(stk2, Len(stk2) + 1, Top.saved) /\ OnStack(stk2, memo)
  BY <1>2, HomeNext
<1>4. /\ stack \in Seq(FrameType) /\ Len(stack) > 0 /\ Top = stack[Len(stack)] /\ Top.v \in Object
      /\ Len(stack) \in 1 .. Len(stack) /\ DocOK(doc) /\ acc \in Seq(Object)
      /\ HomesOK(stack) /\ OnStack(stack, memo)
  BY <1>2, <1>3, TopIs DEF HInv, Idle, IInv
<1>5. f \in FrameType /\ f.fn = "attach" /\ f.v = Top.v
  <2>1. f = [fn |-> "attach", v |-> Top.v, m |-> Top.v, last |-> Final(Top.v), saved |-> 0,
             base |-> Len(acc)]
    BY <1>1 DEF Frame
  <2>2. Final(Top.v) \in Object
    BY <1>4, FinalIs
  <2>3. Top.v \in Nat /\ Final(Top.v) \in 0 .. Size /\ 0 \in 0 .. Size /\ Len(acc) \in Nat
    BY <1>4, <2>2, CompileAssumption DEF Object
  <2> QED
    BY <1>4, <2>1, <2>3 DEF FrameType
<1>6. /\ HomesOK(stk1) /\ stk1 \in Seq(FrameType) /\ HomeIs(stk1, Len(stk1) + 1, Top.saved)
      /\ Top.saved \in 0 .. Size
  <2>1. stk1 = SubSeq(stack, 1, Len(stack) - 1)
    BY <1>1 DEF Pop
  <2>2. Top.saved \in 0 .. Size
    BY <1>4, FieldsAre
  <2> QED
    BY <1>2, <1>4, <2>1, <2>2, HomePop
<1>7. HomesOK(stk2) /\ HomeIs(stk2, Len(stk2) + 1, Top.saved)
  <2>1. PICK r \in 0 .. Size : r = Top.saved /\ HomeIs(stk1, Len(stk1) + 1, r)
    BY <1>6
  <2>2. f \in FrameType /\ f.fn # "compile" /\ stk2 = Append(stk1, f)
    BY <1>1, <1>5
  <2>3. HomesOK(stk2) /\ HomeIs(stk2, Len(stk2) + 1, r)
    BY <1>6, <2>1, <2>2, HomePush
  <2> QED
    BY <2>1, <2>3
<1>8. /\ Len(stk2) = Len(stack) /\ stk2[Len(stack)] = f
      /\ \A a \in 1 .. Len(stack) : a # Len(stack) => stk2[a] = stack[a]
  <2>1. /\ Len(stk1) = Len(stack) - 1 /\ \A a \in 1 .. Len(stk1) : stk1[a] = stack[a]
    <3>1. PICK l \in Nat : Len(stack) = l + 1
      <4>1. Len(stack) - 1 \in Nat /\ Len(stack) = (Len(stack) - 1) + 1
        BY <1>4
      <4> QED
        BY <4>1
    <3>2. stk1 = SubSeq(stack, 1, l) /\ Len(stack) - 1 = l
      BY <1>1, <3>1 DEF Pop
    <3>3. stack \in Seq(FrameType)
      BY <1>4
    <3>4. Len(stk1) = l /\ \A a \in 1 .. l : stk1[a] = stack[a]
      BY <3>1, <3>2, <3>3
    <3> QED
      BY <3>2, <3>4
  <2>2. /\ Len(stk2) = Len(stk1) + 1 /\ stk2[Len(stk1) + 1] = f
        /\ \A a \in 1 .. Len(stk1) : stk2[a] = stk1[a]
    BY <1>1, <1>6
  <2> QED
    BY <1>4, <2>1, <2>2
<1>9. ASSUME NEW i \in Object, memo[i] = "busy"
      PROVE  \E a \in 1 .. Len(stk2) : stk2[a].v = i /\ stk2[a].fn # "local"
  <2>1. PICK a \in 1 .. Len(stack) : stack[a].v = i /\ stack[a].fn # "local"
    BY <1>4, <1>9 DEF OnStack
  <2>2. CASE a = Len(stack)
    BY <1>4, <1>5, <1>8, <2>1, <2>2
  <2>3. CASE a # Len(stack)
    BY <1>8, <2>1, <2>3
  <2> QED
    BY <2>2, <2>3
<1> QED
  BY <1>7, <1>9 DEF OnStack

LEMMA AttachHome ==
  ASSUME IInv, HInv, Attach
  PROVE  HInv'
<1>1. PICK v, stk2, mem : /\ v = Top.v /\ stk2 = SubSeq(stack, 1, Len(stack) - 1)
                          /\ mem = [memo EXCEPT ![v] = "done"]
  OBVIOUS
<1>2. /\ stack # << >> /\ Top.fn = "attach" /\ stack' = stk2 /\ ret = Idle /\ memo' = mem
      /\ UNCHANGED <<doc, cur, lost>>
  BY <1>1 DEF Attach, AttachTo, Walks, Kept, Pop
<1>3. SUFFICES ASSUME ~lost
               PROVE  HomesOK(stk2) /\ HomeIs(stk2, Len(stk2) + 1, cur) /\ OnStack(stk2, mem)
  BY <1>2, HomeNext
<1>4. /\ stack \in Seq(FrameType) /\ Len(stack) > 0 /\ Top = stack[Len(stack)] /\ v \in Object
      /\ Len(stack) \in 1 .. Len(stack) /\ cur \in 0 .. Size
      /\ HomesOK(stack) /\ HomeIs(stack, Len(stack) + 1, cur) /\ OnStack(stack, memo)
      /\ memo \in [Object -> {"none", "busy", "done"}]
  BY <1>1, <1>2, <1>3, TopIs, CompileAssumption DEF HInv, Idle, IInv, Object
<1>5. HomesOK(stk2) /\ HomeIs(stk2, Len(stk2) + 1, cur)
  <2>1. stack[Len(stack)].fn # "compile"
    BY <1>2, <1>4
  <2>2. PICK r \in 0 .. Size : r = cur
    BY <1>4
  <2>3. PICK stk \in Seq(FrameType) : stk = stack
    BY <1>4
  <2>4. /\ HomesOK(stk) /\ Len(stk) > 0 /\ stk2 = SubSeq(stk, 1, Len(stk) - 1)
        /\ stk[Len(stk)].fn # "compile" /\ HomeIs(stk, Len(stk) + 1, r)
    BY <1>1, <1>4, <2>1, <2>2, <2>3
  <2>5. HomesOK(stk2) /\ HomeIs(stk2, Len(stk2) + 1, r)
    BY <2>2, <2>4, HomePop
  <2> QED
    BY <2>2, <2>5
<1>6. \A a \in 1 .. Len(stack) : a = Len(stack) \/ (a \in 1 .. Len(stk2) /\ stk2[a] = stack[a])
  BY <1>1, <1>4
<1>7. ASSUME NEW i \in Object, mem[i] = "busy"
      PROVE  \E a \in 1 .. Len(stk2) : stk2[a].v = i /\ stk2[a].fn # "local"
  <2>1. i # v /\ memo[i] = "busy"
    BY <1>1, <1>4, <1>7
  <2>2. PICK a \in 1 .. Len(stack) : stack[a].v = i /\ stack[a].fn # "local"
    BY <1>4, <2>1 DEF OnStack
  <2> QED
    BY <1>1, <1>4, <1>6, <2>1, <2>2
<1> QED
  BY <1>5, <1>7 DEF OnStack

\* resource_local_anchor's entry, or the first anchor.
LEMMA LocalCalls ==
  ASSUME IInv, LInv, Local
  PROVE  /\ stack # << >> /\ Top.fn = "local" /\ ret = Idle /\ Top.m > Top.last
         /\ UNCHANGED <<doc, anchored, scope, acc, lost, missed>>
         /\ \/ \E v \in Object : /\ Call(Pop, v)
                                 /\ \/ Len(acc) > Top.base /\ v = acc[Top.base + 1]
                                    \/ ~(Len(acc) > Top.base) /\ v \in FirstCollected
            \/ Fail /\ Anchors = {}
<1>1. /\ stack # << >> /\ Top.fn = "local" /\ ret = Idle /\ Top.m > Top.last
      /\ UNCHANGED <<doc, anchored, scope, acc, lost, missed>>
      /\ IF Len(acc) > Top.base THEN Call(Pop, acc[Top.base + 1])
         ELSE IF Anchors # {} THEN \E i \in FirstCollected : Call(Pop, i)
         ELSE Fail
  BY DEF Local, Walks, Kept
<1>2. CASE Len(acc) > Top.base
  <2>1. acc \in Seq(Object) /\ Top.base + 1 \in 1 .. Len(acc)
    <3>1. acc \in Seq(Object) /\ Top.base \in 0 .. Len(acc)
      BY <1>1, TopIs DEF IInv
    <3>2. PICK b \in Nat, n \in Nat : b = Top.base /\ n = Len(acc) /\ n > b
      BY <1>2, <3>1
    <3>3. b + 1 \in 1 .. n
      BY <3>2
    <3> QED
      BY <3>1, <3>2, <3>3
  <2>2. acc[Top.base + 1] \in Object
    BY <2>1
  <2> QED
    BY <1>1, <1>2, <2>2
<1>3. CASE ~(Len(acc) > Top.base) /\ Anchors # {}
  <2>1. PICK i \in FirstCollected : Call(Pop, i)
    BY <1>1, <1>3
  <2>2. i \in Object
    BY DEF FirstCollected, Anchors
  <2> QED
    BY <1>1, <1>3, <2>1, <2>2
<1>4. CASE ~(Len(acc) > Top.base) /\ Anchors = {}
  BY <1>1, <1>4
<1> QED
  BY <1>2, <1>3, <1>4

LEMMA LocalHome ==
  ASSUME IInv, LInv, HInv, Local
  PROVE  HInv'
<1>1. /\ stack # << >> /\ Top.fn = "local" /\ ret = Idle /\ UNCHANGED <<doc, lost>>
      /\ (\E v \in Object : Call(Pop, v)) \/ Fail
  BY LocalCalls
<1>2. CASE Fail
  BY <1>1, <1>2, FailHome
<1>3. CASE \E v \in Object : Call(Pop, v)
  <2>1. SUFFICES ASSUME ~lost
                 PROVE  HomesOK(stack') /\ HomeIs(stack', Len(stack') + 1, cur') /\ OnStack(stack', memo')
    BY <1>1, HomeNext
  <2>2. PICK v \in Object, stk \in {Pop} : Call(stk, v) /\ stk = SubSeq(stack, 1, Len(stack) - 1)
    BY <1>3 DEF Pop
  <2>3. /\ stack \in Seq(FrameType) /\ Len(stack) > 0 /\ Top = stack[Len(stack)]
        /\ Len(stack) \in 1 .. Len(stack) /\ cur \in 0 .. Size
        /\ HomesOK(stack) /\ HomeIs(stack, Len(stack) + 1, cur) /\ OnStack(stack, memo)
    BY <1>1, <2>1, TopIs, CompileAssumption DEF HInv, Idle, IInv, Object
  <2>4. HomesOK(stk) /\ HomeIs(stk, Len(stk) + 1, cur) /\ stk \in Seq(FrameType)
    BY <1>1, <2>2, <2>3, HomePop
  <2>5. \A a \in 1 .. Len(stack) : a = Len(stack) \/ (a \in 1 .. Len(stk) /\ stk[a] = stack[a])
    BY <2>2, <2>3
  <2>6. OnStack(stk, memo)
    BY <1>1, <2>3, <2>5 DEF OnStack
  <2> QED
    BY <2>2, <2>4, <2>6, CallHome
<1> QED
  BY <1>1, <1>2, <1>3

LEMMA NextHome == IInv /\ LInv /\ HInv /\ [Next]_vars => HInv'
<1> SUFFICES ASSUME IInv, LInv, HInv, [Next]_vars
             PROVE  HInv'
  OBVIOUS
<1>1. CASE Note
  <2>1. /\ stack # << >> /\ stack' = Turn(Top.m + 1) /\ UNCHANGED <<doc, memo, cur>>
        /\ lost' = (lost \/ ret = 0)
    BY <1>1 DEF Note, Walks
  <2> QED
    BY <2>1, TurnHome
<1>2. CASE UNCHANGED vars
  BY <1>2, HomeNext DEF vars, HInv
<1> QED
  BY <1>1, <1>2, LoopHome, DynamicRefHome, LoopEndsHome, AttachHome, LocalHome DEF Next

LEMMA InitHome == Init => HInv
<1> SUFFICES ASSUME Init
             PROVE  HInv
  OBVIOUS
<1>1. PICK f : f = Frame("compile", Root, 1, 0, Root, 0) /\ stack = <<f>>
  BY DEF Init, InitWith
<1>2. f.fn = "compile" /\ f.v = Root /\ f.saved = Root
  BY <1>1 DEF Frame
<1>3. /\ cur = Root /\ memo = [[i \in Object |-> "none"] EXCEPT ![Root] = "busy"]
  BY DEF Init, InitWith
<1>4. ResRoot(doc, Root) = Root
  <2>1. DocOK(doc) /\ Root \in Object
    BY InitInv, CompileAssumption DEF IInv, Root, Object
  <2>2. ResRoot(doc, Root) \in Object /\ Root \in Subtree(ResRoot(doc, Root))
    BY <2>1, ResourceFacts
  <2>3. ResRoot(doc, Root) <= Root
    BY <2>1, <2>2, SubtreeFacts
  <2> QED
    BY <2>2, <2>3 DEF Root, Object
<1>5. Len(stack) = 1 /\ stack[1] = f /\ \A a \in 1 .. Len(stack) : a = 1
  BY <1>1
<1>6. HomesOK(stack) /\ HomeIs(stack, Len(stack) + 1, cur)
  BY <1>2, <1>3, <1>4, <1>5 DEF HomesOK, HomeIs
<1>7. OnStack(stack, memo)
  BY <1>2, <1>3, <1>5 DEF OnStack
<1> QED
  BY <1>6, <1>7 DEF HInv

-------------------------------------------------------------------------------
(***************************************************************************)
(* What was read has been called: steps.                                   *)
(***************************************************************************)
\* The members of an object: the objects in it, and its keyword.
LEMMA MembersAll ==
  ASSUME NEW v \in Object
  PROVE  /\ Len(Members(v)) \in Nat
         /\ \A k \in 1 .. Len(Members(v)) :
              Members(v)[k] = 0 \/ (Members(v)[k] \in Object /\ doc.up[Members(v)[k]] = v)
         /\ \E k \in 1 .. Len(Members(v)) : Members(v)[k] = 0
         /\ \A j \in Object : doc.up[j] = v => \E k \in 1 .. Len(Members(v)) : Members(v)[k] = j
<1>1. PICK S : S = {j \in Object : doc.up[j] = v}
  OBVIOUS
<1>2. PICK s : s = InOrder(S) /\ Lists(s, S, Size)
  BY InOrderLists
<1>3. /\ s \in Seq(Object) /\ \A k \in 1 .. Len(s) : s[k] \in S
      /\ \A j \in S : \E k \in 1 .. Len(s) : s[k] = j
  BY <1>1, <1>2 DEF Lists, Object
<1>4. PICK n \in Nat : n = Len(s)
  BY <1>3
<1>5. Members(v) = IF doc.use[v].first THEN <<0>> \o s ELSE s \o <<0>>
  BY <1>1, <1>2 DEF Members
<1>6. PICK z \in {<<0>>} : z = <<0>> /\ z \in Seq({0}) /\ Len(z) = 1 /\ z[1] = 0
  OBVIOUS
<1>7. CASE doc.use[v].first
  <2>1. PICK t : t = z \o s /\ t = Members(v)
    BY <1>5, <1>6, <1>7
  <2>2. s \in Seq(Object \cup {0}) /\ z \in Seq(Object \cup {0})
    BY <1>3, <1>6
  <2>3. Len(t) = n + 1 /\ t[1] = 0 /\ \A k \in 1 .. n : t[k + 1] = s[k]
    BY <1>4, <1>6, <2>1, <2>2
  <2>4. /\ \A k \in 1 .. n + 1 : k = 1 \/ \E i \in 1 .. n : k = i + 1
        /\ 1 \in 1 .. n + 1 /\ \A k \in 1 .. n : k + 1 \in 1 .. n + 1
    <3>1. ASSUME NEW k \in 1 .. n + 1, k # 1 PROVE k - 1 \in 1 .. n /\ k = (k - 1) + 1
      BY <3>1
    <3> QED
      BY <3>1
  <2>5. ASSUME NEW k \in 1 .. n + 1 PROVE t[k] = 0 \/ t[k] \in S
    BY <1>3, <1>4, <2>3, <2>4
  <2>6. ASSUME NEW j \in S PROVE \E k \in 1 .. n + 1 : t[k] = j
    <3>1. PICK i \in 1 .. n : s[i] = j
      BY <1>3, <1>4
    <3> QED
      BY <2>3, <2>4, <3>1
  <2> QED
    BY <1>1, <2>1, <2>3, <2>4, <2>5, <2>6
<1>8. CASE ~doc.use[v].first
  <2>1. PICK t : t = s \o z /\ t = Members(v)
    BY <1>5, <1>6, <1>8
  <2>2. s \in Seq(Object \cup {0}) /\ z \in Seq(Object \cup {0})
    BY <1>3, <1>6
  <2>3. Len(t) = n + 1 /\ t[n + 1] = 0 /\ \A k \in 1 .. n : t[k] = s[k]
    BY <1>4, <1>6, <2>1, <2>2
  <2>4. /\ \A k \in 1 .. n + 1 : k = n + 1 \/ k \in 1 .. n
        /\ n + 1 \in 1 .. n + 1 /\ \A k \in 1 .. n : k \in 1 .. n + 1
    OBVIOUS
  <2> QED
    BY <1>1, <1>3, <1>4, <2>1, <2>3, <2>4
<1> QED
  BY <1>7, <1>8

\* What has been called stays called.
LEMMA CalledMore ==
  ASSUME NEW T, NEW T2, T \subseteq T2
  PROVE  /\ \A v : (KeywordOK(v, T) => KeywordOK(v, T2)) /\ (Settled(v, T) => Settled(v, T2))
         /\ \A v, n : ReadOK(v, n, T) => ReadOK(v, n, T2)
         /\ \A stk : ReadingOK(stk, T) => ReadingOK(stk, T2)
         /\ \A stk, r : ReadyOK(stk, T, r) => ReadyOK(stk, T2, r)
         /\ Escaped(T) => Escaped(T2)
<1>1. \A v : KeywordOK(v, T) => KeywordOK(v, T2)
  BY DEF KeywordOK
<1>2. \A v : Settled(v, T) => Settled(v, T2)
  BY <1>1 DEF Settled
<1>3. \A v, j : MemberOK(v, j, T) => MemberOK(v, j, T2)
  BY <1>1 DEF MemberOK
<1>4. \A v, n : ReadOK(v, n, T) => ReadOK(v, n, T2)
  BY <1>3 DEF ReadOK
<1>5. \A f, g : LocalOK(f, g, T) => LocalOK(f, g, T2)
  BY <1>4 DEF LocalOK
<1>6. \A f, g : Link(f, g, T) => Link(f, g, T2)
  BY <1>4, <1>5 DEF Link
<1>7. \A f : Progress(f, T) => Progress(f, T2)
  BY <1>2, <1>4 DEF Progress
<1>8. \A stk : ReadingOK(stk, T) => ReadingOK(stk, T2)
  BY <1>6, <1>7 DEF ReadingOK
<1>9. \A stk, r : ReadyOK(stk, T, r) => ReadyOK(stk, T2, r)
  BY <1>4 DEF ReadyOK
<1>10. Escaped(T) => Escaped(T2)
  BY DEF Escaped
<1> QED
  BY <1>1, <1>2, <1>4, <1>8, <1>9, <1>10

\* A member is read, all are.
LEMMA ReadStep ==
  ASSUME NEW v \in Object, NEW m \in Nat, NEW T, ReadOK(v, m, T)
  PROVE  /\ m \in 1 .. Len(Members(v)) /\ MemberOK(v, Members(v)[m], T) => ReadOK(v, m + 1, T)
         /\ m > Len(Members(v)) => Settled(v, T)
<1>1. PICK n \in Nat : n = Len(Members(v))
  BY MembersAll
<1>2. ASSUME m \in 1 .. n, MemberOK(v, Members(v)[m], T) PROVE ReadOK(v, m + 1, T)
  <2>1. \A k \in 1 .. n : k < m + 1 => k < m \/ k = m
    BY <1>1
  <2> QED
    BY <1>1, <1>2, <2>1 DEF ReadOK
<1>3. ASSUME m > n PROVE Settled(v, T)
  <2>1. \A k \in 1 .. n : MemberOK(v, Members(v)[k], T)
    <3>1. \A k \in 1 .. n : k < m
      BY <1>3
    <3> QED
      BY <1>1, <3>1 DEF ReadOK
  <2>2. KeywordOK(v, T)
    <3>1. PICK k \in 1 .. n : Members(v)[k] = 0
      BY <1>1, MembersAll
    <3> QED
      BY <2>1, <3>1 DEF MemberOK
  <2>3. ASSUME NEW j \in Object, doc.up[j] = v, doc.pos[j] = "sub" PROVE j \in T
    <3>1. PICK k \in 1 .. n : Members(v)[k] = j
      BY <1>1, <2>3, MembersAll
    <3>2. j # 0
      BY DEF Object
    <3> QED
      BY <2>1, <2>3, <3>1, <3>2 DEF MemberOK
  <2> QED
    BY <2>2, <2>3 DEF Settled
<1> QED
  BY <1>1, <1>2, <1>3

\* A stack with another activation on it.
Extends(stk, stk2) ==
  Len(stk2) = Len(stk) + 1 /\ \A a \in 1 .. Len(stk) : stk2[a] = stk[a]

LEMMA ReadPush ==
  ASSUME NEW stk \in Seq(FrameType), NEW T, ReadingOK(stk, T), NEW stk2, Extends(stk, stk2),
         NEW f, f = stk2[Len(stk) + 1], Progress(f, T),
         \A a \in 1 .. Len(stk) : a = Len(stk) => Link(stk[a], f, T),
         Len(stk) = 0 => f.fn # "local"
  PROVE  ReadingOK(stk2, T)
<1>1. PICK l \in Nat : l = Len(stk)
  OBVIOUS
<1>2. /\ Len(stk2) = l + 1 /\ stk2[l + 1] = f /\ \A a \in 1 .. l : stk2[a] = stk[a]
      /\ \A a \in 1 .. l + 1 : a = l + 1 \/ a \in 1 .. l
  BY <1>1 DEF Extends
<1>3. ASSUME NEW a \in 1 .. l + 1 PROVE Progress(stk2[a], T) /\ (a = 1 => stk2[a].fn # "local")
  BY <1>1, <1>2 DEF ReadingOK
<1>4. ASSUME NEW a \in 1 .. l + 1, NEW b \in 1 .. l + 1, b = a + 1 PROVE Link(stk2[a], stk2[b], T)
  <2>1. a \in 1 .. l /\ (b = l + 1 => a = l)
    BY <1>4
  <2>2. CASE b = l + 1
    BY <1>1, <1>2, <2>1, <2>2
  <2>3. CASE b \in 1 .. l
    BY <1>1, <1>2, <1>4, <2>1, <2>3 DEF ReadingOK
  <2> QED
    BY <1>2, <2>2, <2>3
<1> QED
  BY <1>2, <1>3, <1>4 DEF ReadingOK

\* The stack below the activation in front.
LEMMA PopIs ==
  ASSUME NEW stk \in Seq(FrameType), Len(stk) > 0,
         NEW stk2, stk2 = SubSeq(stk, 1, Len(stk) - 1)
  PROVE  /\ stk2 \in Seq(FrameType) /\ Extends(stk2, stk) /\ Alike(stk, stk2)
         /\ Len(stk) = Len(stk2) + 1
<1>1. PICK l \in Nat : Len(stk) = l + 1
  <2>1. Len(stk) - 1 \in Nat /\ Len(stk) = (Len(stk) - 1) + 1
    OBVIOUS
  <2> QED
    BY <2>1
<1>2. /\ stk2 \in Seq(FrameType) /\ Len(stk2) = l /\ \A a \in 1 .. l : stk2[a] = stk[a]
  BY <1>1
<1> QED
  BY <1>1, <1>2 DEF Extends, Alike

LEMMA ReadPop ==
  ASSUME NEW stk, NEW T, NEW stk2 \in Seq(FrameType), ReadingOK(stk, T), Extends(stk2, stk)
  PROVE  ReadingOK(stk2, T)
<1>1. PICK l \in Nat : l = Len(stk2)
  OBVIOUS
<1>2. /\ Len(stk) = l + 1 /\ \A a \in 1 .. l : stk[a] = stk2[a]
      /\ \A a \in 1 .. l : a \in 1 .. l + 1
  BY <1>1 DEF Extends
<1> QED
  BY <1>1, <1>2 DEF ReadingOK

\* The document stays: so does the sense of the invariant.
LEMMA ReadNext ==
  ASSUME doc' = doc, NEW T, T = Touched(memo'),
         ~lost' => /\ \A i \in Object : memo'[i] = "done" => Settled(i, T)
                   /\ ReadingOK(stack', T) /\ ReadyOK(stack', T, ret')
  PROVE  RInv'
<1>1. Touched(memo)' = T
  BY DEF Touched
<1>2. /\ Anchors' = Anchors /\ FirstCollected' = FirstCollected
      /\ \A i : Subtree(i)' = Subtree(i) /\ Final(i)' = Final(i)
      /\ \A i : Members(i)' = Members(i)
  BY DocKept
<1>3. \A i : ResRoot(doc', i) = ResRoot(doc, i)
  OBVIOUS
<1>4. \A i : Bookend(i)' = Bookend(i)
  BY <1>2, <1>3 DEF Bookend
<1>5. \A v : KeywordOK(v, T)' <=> KeywordOK(v, T)
  BY <1>1, <1>2, <1>4 DEF KeywordOK
<1>6. /\ \A v : Settled(v, T)' <=> Settled(v, T)
      /\ \A v, j : MemberOK(v, j, T)' <=> MemberOK(v, j, T)
  BY <1>5 DEF Settled, MemberOK
<1>7. \A v, n : ReadOK(v, n, T)' <=> ReadOK(v, n, T)
  BY <1>2, <1>6 DEF ReadOK
<1>8. \A f : Progress(f, T)' <=> Progress(f, T)
  BY <1>6, <1>7 DEF Progress
<1>9. \A f, g : LocalOK(f, g, T)' <=> LocalOK(f, g, T)
  BY <1>2, <1>3, <1>7 DEF LocalOK
<1>10. \A f, g : Link(f, g, T)' <=> Link(f, g, T)
  BY <1>7, <1>9 DEF Link
<1>11. ReadingOK(stack', T) => ReadingOK(stack, T)'
  BY <1>8, <1>10 DEF ReadingOK
<1>12. ReadyOK(stack', T, ret') => ReadyOK(stack, T, ret)'
  BY <1>7 DEF ReadyOK
<1> QED
  BY <1>1, <1>6, <1>11, <1>12 DEF RInv

\* A call: what it calls counts for the activation that makes it.
LEMMA CallReads ==
  ASSUME IInv, NEW stk \in Seq(FrameType), NEW v \in Object, Call(stk, v), Idle # 0,
         NEW T, T = Touched(memo), ReadingOK(stk, T),
         \A a \in 1 .. Len(stk) : a = Len(stk) /\ stk[a].fn = "compile" =>
           ReadOK(stk[a].v, stk[a].m + 1, T \cup {v}),
         \A i \in Object : memo[i] = "done" => Settled(i, T),
         NEW T2, T2 = Touched(memo')
  PROVE  /\ \A i \in Object : memo'[i] = "done" => Settled(i, T2)
         /\ ReadingOK(stack', T2) /\ ReadyOK(stack', T2, ret') /\ T \cup {v} \subseteq T2
<1>1. memo \in [Object -> {"none", "busy", "done"}] /\ cur \in Object
  BY DEF IInv
<1>2. T \cup {v} \subseteq T2 /\ \A i \in Object : memo'[i] = "done" => memo[i] = "done"
  BY <1>1 DEF Call, Calls, Touched
<1>3. ReadingOK(stk, T2) /\ \A i \in Object : memo'[i] = "done" => Settled(i, T2)
  BY <1>2, CalledMore
<1>4. \A a \in 1 .. Len(stk) : a = Len(stk) /\ stk[a].fn = "compile" =>
        ReadOK(stk[a].v, stk[a].m + 1, T2)
  <2>1. PICK U : U = T \cup {v}
    OBVIOUS
  <2>2. \A w, n : ReadOK(w, n, U) => ReadOK(w, n, T2)
    BY <1>2, <2>1, CalledMore
  <2> QED
    BY <2>1, <2>2
<1>5. CASE memo[v] \in {"busy", "done"}
  BY <1>2, <1>3, <1>4, <1>5 DEF Call, Calls, ReadyOK
<1>6. CASE memo[v] \notin {"busy", "done"}
  <2>1. PICK f, stk2 : f = Frame("compile", v, 1, 0, cur, 0) /\ stk2 = Append(stk, f)
    OBVIOUS
  <2>2. stack' = stk2 /\ ret' = Idle
    BY <1>6, <2>1 DEF Call, Calls
  <2>3. f.fn = "compile" /\ f.v = v /\ f.m = 1
    BY <2>1 DEF Frame
  <2>4. Extends(stk, stk2) /\ f = stk2[Len(stk) + 1]
    BY <2>1 DEF Extends
  <2>5. Progress(f, T2)
    <3>1. \A k \in 1 .. Len(Members(v)) : ~(k < 1)
      BY MembersAll
    <3> QED
      BY <2>3, <3>1 DEF Progress, ReadOK
  <2>6. \A a \in 1 .. Len(stk) : a = Len(stk) => Link(stk[a], f, T2)
    BY <1>4, <2>3 DEF Link
  <2>7. ReadingOK(stk2, T2)
    BY <1>3, <2>3, <2>4, <2>5, <2>6, ReadPush
  <2>8. ReadyOK(stk2, T2, Idle)
    BY DEF ReadyOK, Returns
  <2> QED
    BY <1>2, <1>3, <2>2, <2>7, <2>8
<1> QED
  BY <1>5, <1>6

\* The activation in front moves on.
LEMMA TurnReads ==
  ASSUME IInv, stack # << >>, NEW n \in Nat, n = Top.m + 1, stack' = Turn(n), ret' = Idle,
         NEW T, ReadingOK(stack, T),
         Top.fn = "compile" => ReadOK(Top.v, n, T),
         Top.fn = "local" => n - 1 \in T
  PROVE  ReadingOK(stack', T) /\ ReadyOK(stack', T, ret')
<1>1. /\ stack \in Seq(FrameType) /\ Len(stack) > 0 /\ Top = stack[Len(stack)] /\ Top.m \in Nat
      /\ Len(stack) \in 1 .. Len(stack)
  BY TopIs
<1>2. PICK stk, stk1, stk2 : /\ stk = stack /\ stk2 = stack'
                             /\ stk1 = SubSeq(stack, 1, Len(stack) - 1)
  OBVIOUS
<1>3. stk1 \in Seq(FrameType) /\ Extends(stk1, stk) /\ Len(stk) = Len(stk1) + 1
  BY <1>1, <1>2, PopIs
<1>4. ReadingOK(stk1, T)
  BY <1>2, <1>3, ReadPop
<1>5. PICK l \in Nat, f \in {Top}, g \in {stk2[Len(stk1) + 1]} :
        l = Len(stk1) /\ f = Top /\ g = stk2[l + 1]
  BY <1>3
<1>6. /\ f = stk[l + 1] /\ g.fn = f.fn /\ g.v = f.v /\ g.m = n /\ g.last = f.last
      /\ Len(stk2) = l + 1 /\ \A a \in 1 .. l : stk2[a] = stk[a] /\ stk[a] = stk1[a]
  <2>1. /\ Alike(stk, stk2) /\ Len(stk2) = Len(stk)
        /\ stk2[Len(stk)].m = n /\ stk2[Len(stk)].last = f.last
        /\ \A a \in 1 .. Len(stk) : a # Len(stk) => stk2[a] = stk[a]
    BY <1>2, <1>5, TurnAlike
  <2>2. Len(stk) = l + 1 /\ l + 1 \in 1 .. l + 1 /\ \A a \in 1 .. l : a \in 1 .. l + 1 /\ a # l + 1
    BY <1>3, <1>5
  <2>3. f = stk[l + 1] /\ Len(stk2) = l + 1
    BY <1>1, <1>2, <1>5, <2>1, <2>2
  <2>4. g.fn = f.fn /\ g.v = f.v
    BY <1>5, <2>1, <2>2, <2>3 DEF Alike
  <2>5. g.m = n /\ g.last = f.last
    BY <1>5, <2>1, <2>2
  <2>6. \A a \in 1 .. l : stk2[a] = stk[a] /\ stk[a] = stk1[a]
    BY <1>3, <1>5, <2>1, <2>2 DEF Extends
  <2> QED
    BY <2>3, <2>4, <2>5, <2>6
<1>7. Extends(stk1, stk2)
  BY <1>5, <1>6 DEF Extends
<1>8. /\ Progress(f, T) /\ (l = 0 => f.fn # "local")
      /\ \A a \in 1 .. l : a = l => Link(stk1[a], f, T)
  <2>1. Len(stk) = l + 1 /\ l + 1 \in 1 .. l + 1 /\ (l = 0 => l + 1 = 1)
        /\ \A a \in 1 .. l : a \in 1 .. l + 1
    BY <1>3, <1>5
  <2> QED
    BY <1>2, <1>6, <2>1 DEF ReadingOK
<1>9. Progress(g, T)
  BY <1>5, <1>6, <1>8 DEF Progress
<1>10. ASSUME NEW a \in 1 .. l, a = l PROVE Link(stk1[a], g, T)
  <2>1. Link(stk1[a], f, T)
    BY <1>8, <1>10
  <2>2. CASE f.fn = "local"
    <3>1. PICK r : r = ResRoot(doc, f.v) /\ r \in Object
      <4>1. DocOK(doc) /\ f.v \in Object
        BY <1>5, TopIs DEF IInv
      <4> QED
        BY <4>1, ResourceFacts
    <3>2. n - 1 \in T /\ n - 1 = f.m /\ f.m \in Nat /\ n >= f.m /\ r \in Nat
      BY <1>1, <1>5, <2>2, <3>1 DEF Object
    <3>3. LocalOK(stk1[a], f, T)
      BY <2>1, <2>2 DEF Link
    <3>4. \A j \in Object : r <= j /\ j < n => j \in T
      <4>1. \A j \in Object : j < n => j < f.m \/ j = f.m
        BY <1>1, <1>5 DEF Object
      <4> QED
        BY <3>1, <3>2, <3>3, <4>1 DEF LocalOK
    <3>5. n >= r
      BY <3>1, <3>2, <3>3 DEF LocalOK
    <3>6. LocalOK(stk1[a], g, T)
      BY <1>6, <3>1, <3>3, <3>4, <3>5 DEF LocalOK
    <3> QED
      BY <1>6, <2>2, <3>6 DEF Link
  <2>3. CASE f.fn # "local"
    BY <1>6, <2>1, <2>3 DEF Link
  <2> QED
    BY <2>2, <2>3
<1>11. ReadingOK(stk2, T)
  <2>1. g = stk2[Len(stk1) + 1] /\ (Len(stk1) = 0 => g.fn # "local")
        /\ \A a \in 1 .. Len(stk1) : a = Len(stk1) => Link(stk1[a], g, T)
    BY <1>5, <1>6, <1>8, <1>10
  <2> QED
    BY <1>3, <1>4, <1>7, <1>9, <2>1, ReadPush
<1> QED
  BY <1>2, <1>11 DEF ReadyOK, Returns

\* It fails.
LEMMA FailReads ==
  ASSUME IInv, RInv, stack # << >>, Fail, UNCHANGED <<doc, lost>>
  PROVE  RInv'
<1>1. PICK T, stk2 : T = Touched(memo) /\ stk2 = SubSeq(stack, 1, Len(stack) - 1)
  OBVIOUS
<1>2. stack' = stk2 /\ memo' = memo /\ ret' = 0
  BY <1>1 DEF Fail, Pop
<1>3. SUFFICES ASSUME ~lost
               PROVE  /\ \A i \in Object : memo'[i] = "done" => Settled(i, T)
                      /\ ReadingOK(stk2, T) /\ ReadyOK(stk2, T, 0)
  <2>1. T = Touched(memo')
    BY <1>1, <1>2
  <2> QED
    BY <1>2, <2>1, ReadNext
<1>4. /\ \A i \in Object : memo[i] = "done" => Settled(i, T)
      /\ ReadingOK(stack, T)
  BY <1>1, <1>3 DEF RInv
<1>5. stk2 \in Seq(FrameType) /\ Extends(stk2, stack)
  BY <1>1, TopIs, PopIs
<1>6. ReadingOK(stk2, T)
  BY <1>4, <1>5, ReadPop
<1> QED
  BY <1>2, <1>4, <1>6 DEF ReadyOK, Returns

\* The keyword loop reads the next member.
LEMMA ReadsIs ==
  ASSUME IInv, RInv, Reads, ~lost, NEW U, Touched(memo) \subseteq U,
         MemberOK(Top.v, Read, U)
  PROVE  ReadOK(Top.v, Top.m + 1, U)
<1>1. PICK v \in Object, m \in Nat : v = Top.v /\ m = Top.m /\ m >= 1 /\ Top = stack[Len(stack)]
                                     /\ Len(stack) \in 1 .. Len(stack) /\ Top.fn = "compile"
  BY TopIs DEF Reads
<1>2. m \in 1 .. Len(Members(v)) /\ Members(v)[m] = Read
  <2>1. Len(Members(v)) \in Nat /\ m <= Len(Members(v))
    BY <1>1, MembersAll DEF Reads
  <2> QED
    BY <1>1, <2>1 DEF Read
<1>3. ReadOK(v, m, Touched(memo))
  BY <1>1 DEF RInv, ReadingOK, Progress
<1>4. ReadOK(v, m, U)
  BY <1>3, CalledMore
<1> QED
  BY <1>1, <1>2, <1>4, ReadStep

LEMMA LoopReads ==
  ASSUME IInv, LInv, HInv, RInv,
         Subschema \/ Ref \/ Bad \/ Ignored \/ Anchor \/ Dependency \/ Returned \/ Visit
  PROVE  RInv'
<1>1. /\ stack # << >> /\ stack \in Seq(FrameType) /\ UNCHANGED <<doc, lost>>
      /\ Top.v \in Object /\ Idle # 0 /\ Top = stack[Len(stack)] /\ Len(stack) \in 1 .. Len(stack)
  BY TopIs DEF Subschema, Ref, Bad, Ignored, Anchor, Dependency, Returned, Return, Reading,
               Reads, Kept, Visit, Walks, Idle
<1>2. PICK T, T2 : T = Touched(memo) /\ T2 = Touched(memo')
  OBVIOUS
<1>3. SUFFICES ASSUME ~lost
               PROVE  \/ RInv'
                      \/ /\ \A i \in Object : memo'[i] = "done" => Settled(i, T2)
                         /\ ReadingOK(stack', T2) /\ ReadyOK(stack', T2, ret')
  BY <1>1, <1>2, ReadNext
<1>4. /\ \A i \in Object : memo[i] = "done" => Settled(i, T)
      /\ ReadingOK(stack, T) /\ ReadyOK(stack, T, ret)
  BY <1>2, <1>3 DEF RInv
<1>5. ASSUME NEW v \in Object, Call(stack, v),
             Top.fn = "compile" => ReadOK(Top.v, Top.m + 1, T \cup {v})
      PROVE  /\ \A i \in Object : memo'[i] = "done" => Settled(i, T2)
             /\ ReadingOK(stack', T2) /\ ReadyOK(stack', T2, ret')
  <2>1. \A a \in 1 .. Len(stack) : a = Len(stack) /\ stack[a].fn = "compile" =>
          ReadOK(stack[a].v, stack[a].m + 1, T \cup {v})
    BY <1>1, <1>5
  <2> QED
    BY <1>1, <1>2, <1>4, <1>5, <2>1, CallReads
<1>6. ASSUME Reads, NEW U, T \subseteq U, MemberOK(Top.v, Read, U)
      PROVE  ReadOK(Top.v, Top.m + 1, U)
  BY <1>2, <1>3, <1>6, ReadsIs
<1>7. CASE Subschema
  <2>1. PICK v \in Object : v = Read /\ Call(stack, v) /\ Reads /\ v # 0
    BY <1>7, ReadIs DEF Subschema
  <2>5. PICK U : U = T \cup {v}
    OBVIOUS
  <2>2. MemberOK(Top.v, Read, U)
    BY <2>1, <2>5 DEF MemberOK
  <2>3. T \subseteq U /\ U = T \cup {v}
    BY <2>5
  <2>4. ReadOK(Top.v, Top.m + 1, U)
    BY <1>6, <2>1, <2>2, <2>3
  <2> QED
    BY <1>5, <2>1, <2>3, <2>4
<1>8. CASE Ref
  <2>1. PICK to \in Resolve(Top.v) : IF to = 0 THEN Fail ELSE Call(stack, to)
    BY <1>8 DEF Ref
  <2>2. PICK w \in Object : /\ w = Top.v /\ doc.use[w].kw = "ref" /\ ret = Idle /\ Reads /\ Read = 0
                            /\ w = stack[Len(stack)].v /\ stack[Len(stack)].fn = "compile"
    BY <1>1, <1>8 DEF Ref, Reading, Reads
  <2>3. cur = ResRoot(doc, w)
    <3>1. HomeIs(stack, Len(stack) + 1, cur)
      BY <1>1, <1>3, <2>2 DEF HInv
    <3>2. PICK l \in Nat : l = Len(stack)
      BY <1>1
    <3>3. l \in 1 .. l /\ l < l + 1 /\ \A b \in 1 .. l : ~(l < b)
      BY <1>1, <3>2
    <3> QED
      BY <2>2, <3>1, <3>2, <3>3 DEF HomeIs
  <2>4. to = doc.use[w].to /\ to \in Object
    <3>1. to = doc.use[w].to
      BY <2>1, <2>2, <2>3 DEF Resolve
    <3>2. doc.use[w].to \in Object
      BY <2>2, ResourceFacts DEF IInv
    <3> QED
      BY <3>1, <3>2
  <2>5. PICK U : U = T \cup {to}
    OBVIOUS
  <2>6. MemberOK(Top.v, Read, U)
    BY <2>2, <2>4, <2>5 DEF MemberOK, KeywordOK
  <2>7. ReadOK(Top.v, Top.m + 1, U) /\ Call(stack, to)
    <3>1. to # 0
      BY <2>4 DEF Object
    <3> QED
      BY <1>6, <2>1, <2>2, <2>5, <2>6, <3>1
  <2> QED
    BY <1>5, <2>4, <2>5, <2>7
<1>9. CASE Bad
  BY <1>1, <1>9, FailReads DEF Bad
<1>10. CASE Ignored \/ Anchor \/ Dependency
  <2>1. /\ Reads /\ stack' = Turn(Top.m + 1) /\ ret' = Idle /\ memo' = memo /\ Top.fn = "compile"
        /\ \/ Read # 0 /\ Read \in Object /\ doc.pos[Read] = "data"
           \/ Read = 0 /\ doc.use[Top.v].kw \in {"none", "anchor", "dep"}
    BY <1>10, ReadIs DEF Ignored, Anchor, Dependency, Reading, Reads
  <2>2. MemberOK(Top.v, Read, T)
    BY <2>1 DEF MemberOK, KeywordOK
  <2>3. PICK n \in Nat : n = Top.m + 1
    BY <1>1, TopIs
  <2>4. ReadOK(Top.v, n, T)
    BY <1>6, <2>1, <2>2, <2>3
  <2>5. ReadingOK(stack', T) /\ ReadyOK(stack', T, ret')
    BY <1>1, <1>4, <2>1, <2>3, <2>4, TurnReads
  <2> QED
    BY <1>2, <1>4, <2>1, <2>5
<1>11. CASE Returned /\ ret = 0
  BY <1>1, <1>11, FailReads DEF Returned, Return
<1>12. CASE Returned /\ ret # 0
  <2>1. /\ stack' = Turn(Top.m + 1) /\ ret' = Idle /\ memo' = memo /\ Top.fn = "compile"
        /\ Returns(ret)
    BY <1>12 DEF Returned, Return, Returns
  <2>2. ReadOK(Top.v, Top.m + 1, T)
    BY <1>1, <1>4, <2>1 DEF ReadyOK
  <2>3. PICK n \in Nat : n = Top.m + 1
    BY <1>1, TopIs
  <2>4. ReadingOK(stack', T) /\ ReadyOK(stack', T, ret')
    BY <1>1, <1>4, <2>1, <2>2, <2>3, TurnReads
  <2> QED
    BY <1>2, <1>4, <2>1, <2>4
<1>13. CASE Visit
  <2>1. Top.m \in Object
    <3>1. Top.m \in Nat /\ Top.m >= 1 /\ Top.last \in Object /\ Top.m <= Top.last
      BY <1>1, <1>13, TopIs DEF FrameOK, Visit, Walks
    <3> QED
      BY <3>1, CompileAssumption DEF Object
  <2>2. Top.fn # "compile" /\ Call(stack, Top.m)
    BY <1>13 DEF Visit, Walks
  <2> QED
    BY <1>5, <2>1, <2>2
<1> QED
  BY <1>7, <1>8, <1>9, <1>10, <1>11, <1>12, <1>13


\* The $dynamicRef's walk covers the resource of its object.
LEMMA DynamicRefReads ==
  ASSUME IInv, HInv, RInv, DynamicRef
  PROVE  RInv'
<1>1. PICK f, stk2, T : /\ f = Frame("local", Top.v, cur, Final(cur), 0, Len(acc))
                        /\ stk2 = Append(stack, f) /\ T = Touched(memo)
  OBVIOUS
<1>2. /\ stack # << >> /\ stack' = stk2 /\ ret = Idle /\ ret' = Idle /\ memo' = memo
      /\ UNCHANGED <<doc, lost>> /\ Reading("dynref") /\ Reads /\ Top.fn = "compile"
  BY <1>1 DEF DynamicRef, Reading, Reads, Kept
<1>3. SUFFICES ASSUME ~lost
               PROVE  /\ \A i \in Object : memo[i] = "done" => Settled(i, T)
                      /\ ReadingOK(stk2, T) /\ ReadyOK(stk2, T, Idle)
  <2>1. T = Touched(memo')
    BY <1>1, <1>2
  <2> QED
    BY <1>2, <2>1, ReadNext
<1>4. /\ \A i \in Object : memo[i] = "done" => Settled(i, T)
      /\ ReadingOK(stack, T)
  BY <1>1, <1>3 DEF RInv
<1>5. PICK v \in Object, m \in Nat, l \in Nat :
        /\ v = Top.v /\ m = Top.m /\ m >= 1 /\ l = Len(stack) /\ l \in 1 .. l
        /\ stack[l] = Top /\ stack \in Seq(FrameType) /\ l > 0
  BY <1>2, TopIs
<1>6. doc.use[v].kw = "dynref" /\ Read = 0
  BY <1>2, <1>5 DEF Reading
<1>7. m \in 1 .. Len(Members(v)) /\ Members(v)[m] = 0
  <2>1. Len(Members(v)) \in Nat /\ m <= Len(Members(v))
    BY <1>2, <1>5, MembersAll DEF Reads
  <2> QED
    BY <1>5, <1>6, <2>1 DEF Read
<1>8. cur = ResRoot(doc, v)
  <2>1. HomeIs(stack, l + 1, cur)
    BY <1>2, <1>3, <1>5 DEF HInv, Idle
  <2>2. l < l + 1 /\ \A b \in 1 .. l : ~(l < b)
    BY <1>5
  <2> QED
    BY <1>2, <1>5, <2>1, <2>2 DEF HomeIs
<1>9. ReadOK(v, m, T)
  BY <1>2, <1>4, <1>5 DEF ReadingOK, Progress
<1>10. f.fn = "local" /\ f.v = v /\ f.m = cur /\ f.last = Final(cur)
  BY <1>1, <1>5 DEF Frame
<1>11. cur \in Object /\ cur \in Nat
  BY DEF IInv, Object
<1>12. LocalOK(stack[l], f, T)
  <2>1. f.m >= ResRoot(doc, f.v) /\ \A j \in Object : ~(ResRoot(doc, f.v) <= j /\ j < f.m)
    BY <1>8, <1>10, <1>11 DEF Object
  <2>2. f.last = Final(ResRoot(doc, f.v)) /\ doc.use[f.v].kw = "dynref"
    BY <1>6, <1>8, <1>10
  <2> QED
    BY <1>2, <1>5, <1>7, <1>9, <1>10, <2>1, <2>2 DEF LocalOK
<1>13. ReadingOK(stk2, T)
  <2>1. Extends(stack, stk2) /\ f = stk2[Len(stack) + 1]
    BY <1>1, <1>5 DEF Extends
  <2>2. Progress(f, T)
    BY <1>10 DEF Progress
  <2>3. \A a \in 1 .. Len(stack) : a = Len(stack) => Link(stack[a], f, T)
    BY <1>5, <1>10, <1>12 DEF Link
  <2>4. Len(stack) # 0
    BY <1>5
  <2> QED
    BY <1>4, <1>5, <2>1, <2>2, <2>3, <2>4, ReadPush
<1>14. ReadyOK(stk2, T, Idle)
  BY DEF ReadyOK, Returns
<1> QED
  BY <1>4, <1>13, <1>14

\* All members of the object have been read.
LEMMA LoopEndsReads ==
  ASSUME IInv, RInv, LoopEnds
  PROVE  RInv'
<1>1. PICK f, stk1, stk2, T :
        /\ f = Frame("attach", Top.v, Top.v, Final(Top.v), 0, Len(acc))
        /\ stk1 = SubSeq(stack, 1, Len(stack) - 1) /\ stk2 = Append(stk1, f) /\ T = Touched(memo)
  OBVIOUS
<1>2. /\ stack # << >> /\ Top.fn = "compile" /\ stack' = stk2 /\ ret = Idle /\ ret' = Idle
      /\ memo' = memo /\ UNCHANGED <<doc, lost>> /\ Top.m > Len(Members(Top.v))
  BY <1>1 DEF LoopEnds, Kept, Pop
<1>3. SUFFICES ASSUME ~lost
               PROVE  /\ \A i \in Object : memo[i] = "done" => Settled(i, T)
                      /\ ReadingOK(stk2, T) /\ ReadyOK(stk2, T, Idle)
  <2>1. T = Touched(memo')
    BY <1>1, <1>2
  <2> QED
    BY <1>2, <2>1, ReadNext
<1>4. /\ \A i \in Object : memo[i] = "done" => Settled(i, T)
      /\ ReadingOK(stack, T)
  BY <1>1, <1>3 DEF RInv
<1>5. PICK v \in Object, m \in Nat : v = Top.v /\ m = Top.m /\ m > Len(Members(v))
  BY <1>2, TopIs
<1>6. /\ stk1 \in Seq(FrameType) /\ Extends(stk1, stack) /\ Len(stack) = Len(stk1) + 1
      /\ stack[Len(stack)] = Top
  BY <1>1, <1>2, TopIs, PopIs
<1>7. ReadingOK(stk1, T)
  BY <1>4, <1>6, ReadPop
<1>8. PICK l \in Nat : l = Len(stk1) /\ Len(stack) = l + 1 /\ stack[l + 1] = Top
                       /\ \A a \in 1 .. l : stack[a] = stk1[a] /\ a \in 1 .. l + 1
                       /\ l + 1 \in 1 .. l + 1
  BY <1>6 DEF Extends
<1>9. Settled(v, T)
  <2>1. ReadOK(v, m, T)
    BY <1>2, <1>4, <1>5, <1>8 DEF ReadingOK, Progress
  <2> QED
    BY <1>5, <2>1, ReadStep
<1>10. f.fn = "attach" /\ f.v = v
  BY <1>1, <1>5 DEF Frame
<1>11. \A a \in 1 .. l : a = l => Link(stk1[a], f, T)
  <2>1. \A a \in 1 .. l : a = l => Link(stk1[a], Top, T)
    BY <1>4, <1>8 DEF ReadingOK
  <2> QED
    BY <1>2, <1>10, <2>1 DEF Link
<1>12. ReadingOK(stk2, T)
  <2>1. Extends(stk1, stk2) /\ f = stk2[Len(stk1) + 1]
    BY <1>1, <1>6 DEF Extends
  <2>2. Progress(f, T) /\ f.fn # "local"
    BY <1>9, <1>10 DEF Progress
  <2> QED
    BY <1>6, <1>7, <1>8, <1>11, <2>1, <2>2, ReadPush
<1>13. ReadyOK(stk2, T, Idle)
  BY DEF ReadyOK, Returns
<1> QED
  BY <1>4, <1>12, <1>13

\* A walk that drops no failure has called the object it notes.
LEMMA NoteReads ==
  ASSUME IInv, LInv, RInv, Note
  PROVE  RInv'
<1>1. PICK T : T = Touched(memo)
  OBVIOUS
<1>2. /\ stack # << >> /\ Top.fn # "compile" /\ stack' = Turn(Top.m + 1) /\ ret # Idle
      /\ ret' = Idle /\ memo' = memo /\ doc' = doc /\ lost' = (lost \/ ret = 0)
  BY DEF Note, Walks
<1>3. SUFFICES ASSUME ~lost, ret # 0
               PROVE  /\ \A i \in Object : memo[i] = "done" => Settled(i, T)
                      /\ ReadingOK(stack', T) /\ ReadyOK(stack', T, ret')
  <2>1. T = Touched(memo')
    BY <1>1, <1>2
  <2> QED
    BY <1>2, <2>1, ReadNext
<1>4. /\ \A i \in Object : memo[i] = "done" => Settled(i, T)
      /\ ReadingOK(stack, T)
  BY <1>1, <1>3 DEF RInv
<1>5. PICK n \in Nat : n = Top.m + 1 /\ n - 1 = Top.m /\ Top = stack[Len(stack)]
                       /\ Len(stack) \in 1 .. Len(stack)
  BY <1>2, TopIs
<1>6. ret = Top.m /\ ret \in T
  <2>1. Returns(ret)
    BY <1>2, <1>3 DEF Returns
  <2> QED
    BY <1>1, <1>2, <1>5, <2>1 DEF LInv, Visited, Noted
<1>7. ReadingOK(stack', T) /\ ReadyOK(stack', T, ret')
  BY <1>2, <1>4, <1>5, <1>6, TurnReads
<1> QED
  BY <1>4, <1>7

\* The object is done: its caller has one member more.
LEMMA AttachReads ==
  ASSUME IInv, RInv, Attach
  PROVE  RInv'
<1>1. PICK v, stk2, mem, T :
        /\ v = Top.v /\ stk2 = SubSeq(stack, 1, Len(stack) - 1)
        /\ mem = [memo EXCEPT ![v] = "done"] /\ T = Touched(memo)
  OBVIOUS
<1>2. /\ stack # << >> /\ Top.fn = "attach" /\ stack' = stk2 /\ ret' = v /\ memo' = mem
      /\ UNCHANGED <<doc, lost>>
  BY <1>1 DEF Attach, AttachTo, Walks, Kept, Pop
<1>3. memo \in [Object -> {"none", "busy", "done"}] /\ v \in Object /\ memo[v] = "busy"
  BY <1>1, <1>2, TopIs DEF IInv
<1>4. T = Touched(memo')
  BY <1>1, <1>2, <1>3 DEF Touched
<1>5. SUFFICES ASSUME ~lost
               PROVE  /\ \A i \in Object : mem[i] = "done" => Settled(i, T)
                      /\ ReadingOK(stk2, T) /\ ReadyOK(stk2, T, v)
  BY <1>2, <1>4, ReadNext
<1>6. /\ \A i \in Object : memo[i] = "done" => Settled(i, T)
      /\ ReadingOK(stack, T)
  BY <1>1, <1>5 DEF RInv
<1>7. /\ stk2 \in Seq(FrameType) /\ Extends(stk2, stack) /\ Len(stack) = Len(stk2) + 1
      /\ stack[Len(stack)] = Top
  BY <1>1, <1>2, TopIs, PopIs
<1>8. ReadingOK(stk2, T)
  BY <1>6, <1>7, ReadPop
<1>9. PICK l \in Nat : l = Len(stk2) /\ Len(stack) = l + 1 /\ stack[l + 1] = Top
                       /\ \A a \in 1 .. l : stack[a] = stk2[a] /\ a \in 1 .. l + 1
                       /\ l + 1 \in 1 .. l + 1
  BY <1>7 DEF Extends
<1>10. Settled(v, T)
  BY <1>1, <1>2, <1>6, <1>9 DEF ReadingOK, Progress
<1>11. \A i \in Object : mem[i] = "done" => Settled(i, T)
  BY <1>1, <1>3, <1>6, <1>10
<1>12. ReadyOK(stk2, T, v)
  <2>1. \A a \in 1 .. l : a = l => Link(stk2[a], Top, T)
    BY <1>6, <1>9 DEF ReadingOK
  <2> QED
    BY <1>2, <1>9, <2>1 DEF ReadyOK, Link
<1> QED
  BY <1>8, <1>11, <1>12

\* The walk ends with its first entry, or with the document's first anchor:
\* either way the anchor the $dynamicRef leads to at first has been called.
LEMMA LocalReads ==
  ASSUME IInv, LInv, RInv, WInv, Local
  PROVE  RInv'
<1>1. PICK T, T2, stk : /\ T = Touched(memo) /\ T2 = Touched(memo')
                        /\ stk = SubSeq(stack, 1, Len(stack) - 1)
  OBVIOUS
<1>2. /\ stack # << >> /\ Top.fn = "local" /\ Top.m > Top.last /\ UNCHANGED <<doc, lost>>
      /\ Idle # 0 /\ stk = Pop
  BY <1>1, LocalCalls DEF Idle, Pop
<1>3. CASE Fail
  BY <1>2, <1>3, FailReads
<1>4. CASE ~Fail
  <2>1. SUFFICES ASSUME ~lost
                 PROVE  /\ \A i \in Object : memo'[i] = "done" => Settled(i, T2)
                        /\ ReadingOK(stack', T2) /\ ReadyOK(stack', T2, ret')
    BY <1>1, <1>2, ReadNext
  <2>2. PICK v \in Object :
          /\ Call(stk, v)
          /\ \/ Len(acc) > Top.base /\ v = acc[Top.base + 1]
             \/ v \in FirstCollected
    BY <1>2, <1>4, LocalCalls
  <2>3. /\ \A i \in Object : memo[i] = "done" => Settled(i, T)
        /\ ReadingOK(stack, T)
    BY <1>1, <2>1 DEF RInv
  <2>4. /\ stk \in Seq(FrameType) /\ Extends(stk, stack) /\ Len(stack) = Len(stk) + 1
        /\ stack[Len(stack)] = Top /\ Len(stack) \in 1 .. Len(stack)
    BY <1>1, <1>2, TopIs, PopIs
  <2>5. ReadingOK(stk, T)
    BY <2>3, <2>4, ReadPop
  <2>6. PICK l \in Nat : l = Len(stk) /\ Len(stack) = l + 1 /\ stack[l + 1] = Top
                         /\ \A a \in 1 .. l : stack[a] = stk[a] /\ a \in 1 .. l + 1
                         /\ l + 1 \in 1 .. l + 1
    BY <2>4 DEF Extends
  <2>7. PICK w \in Object, r \in Object, e \in Nat :
          w = Top.v /\ r = ResRoot(doc, w) /\ e = Top.m /\ e > Top.last /\ DocOK(doc)
    BY <1>2, TopIs, ResourceFacts DEF IInv
  <2>8. v \in Anchors /\ (~Escaped(T) => v \in Res(w) \/ v \in FirstCollected)
    <3>1. CASE Len(acc) > Top.base /\ v = acc[Top.base + 1]
      <4>1. PICK k \in 1 .. Len(acc) : k = Top.base + 1 /\ k > Top.base
        <5>1. acc \in Seq(Object) /\ Top.base \in Nat
          BY <1>2, TopIs DEF IInv
        <5> QED
          BY <3>1, <5>1
      <4>2. v \in Anchors
        BY <3>1, <4>1 DEF LInv, Noted
      <4>3. ~Escaped(T) => v \in Res(w)
        BY <1>1, <1>2, <2>1, <2>4, <2>7, <3>1, <4>1 DEF WInv, EntriesInside
      <4> QED
        BY <4>2, <4>3
    <3>2. CASE v \in FirstCollected
      BY <3>2 DEF FirstCollected
    <3> QED
      BY <2>2, <3>1, <3>2
  <2>9. PICK U : U = T \cup {v}
    OBVIOUS
  <2>10. ASSUME NEW a \in 1 .. l, a = l PROVE ReadOK(stk[a].v, stk[a].m + 1, U)
    <3>1. LocalOK(stk[a], Top, T)
      BY <1>2, <2>3, <2>6, <2>10 DEF ReadingOK, Link
    <3>2. PICK m \in Nat : m = stk[a].m
      BY <2>4, <2>6, FieldsAre
    <3>3. /\ stk[a].v = w /\ doc.use[w].kw = "dynref" /\ ReadOK(w, m, T)
          /\ m \in 1 .. Len(Members(w)) /\ Members(w)[m] = 0
          /\ Top.last = Final(r) /\ \A j \in Object : r <= j /\ j < e => j \in T
      BY <2>7, <3>1, <3>2 DEF LocalOK
    <3>4. ASSUME NEW x \in Bookend(w) PROVE x \in U
      <4>1. PICK near : near = Res(w) \cap Anchors
        OBVIOUS
      <4>2. CASE near # {}
        <5>1. x \in Res(w)
          BY <3>4, <4>1, <4>2 DEF Bookend, Res
        <5>2. x \in Object /\ r <= x /\ x <= Final(r)
          BY <2>7, <5>1, SubtreeFacts DEF Res
        <5>3. x < e
          <6>1. Final(r) \in Nat /\ x \in Nat
            BY <2>7, <5>2, FinalIs DEF Object
          <6> QED
            BY <2>7, <3>3, <5>2, <6>1
        <5> QED
          BY <2>9, <3>3, <5>2, <5>3
      <4>3. CASE near = {}
        <5>1. x \in FirstCollected
          BY <3>4, <4>1, <4>3 DEF Bookend, Res
        <5>2. \A i \in FirstCollected : i = x
          BY <2>7, <5>1, FirstIsOne
        <5> QED
          BY <2>8, <2>9, <4>1, <4>3, <5>2 DEF Escaped
      <4> QED
        BY <4>2, <4>3
    <3>5. MemberOK(w, 0, U)
      BY <2>8, <3>3, <3>4 DEF MemberOK, KeywordOK
    <3>6. ReadOK(w, m, U)
      BY <2>9, <3>3, CalledMore
    <3> QED
      BY <3>2, <3>3, <3>5, <3>6, ReadStep
  <2>11. \A a \in 1 .. Len(stk) : a = Len(stk) /\ stk[a].fn = "compile" =>
           ReadOK(stk[a].v, stk[a].m + 1, T \cup {v})
    BY <2>6, <2>9, <2>10
  <2> QED
    BY <1>1, <1>2, <2>2, <2>3, <2>4, <2>5, <2>11, CallReads
<1> QED
  BY <1>3, <1>4

LEMMA NextReads == IInv /\ LInv /\ HInv /\ RInv /\ WInv /\ [Next]_vars => RInv'
<1> SUFFICES ASSUME IInv, LInv, HInv, RInv, WInv, [Next]_vars
             PROVE  RInv'
  OBVIOUS
<1>1. CASE UNCHANGED vars
  <2>1. Touched(memo') = Touched(memo)
    BY <1>1 DEF vars
  <2> QED
    BY <1>1, <2>1, ReadNext DEF vars, RInv
<1> QED
  BY <1>1, LoopReads, DynamicRefReads, LoopEndsReads, NoteReads, AttachReads, LocalReads DEF Next

LEMMA InitReads == Init => RInv
<1> SUFFICES ASSUME Init
             PROVE  RInv
  OBVIOUS
<1>1. PICK f : f = Frame("compile", Root, 1, 0, Root, 0) /\ stack = <<f>>
  BY DEF Init, InitWith
<1>2. f.fn = "compile" /\ f.v = Root /\ f.m = 1
  BY <1>1 DEF Frame
<1>3. memo = [[i \in Object |-> "none"] EXCEPT ![Root] = "busy"] /\ ret = Idle
  BY DEF Init, InitWith
<1>4. Len(stack) = 1 /\ stack[1] = f /\ \A a \in 1 .. Len(stack) : a = 1
  BY <1>1
<1>5. Progress(f, Touched(memo))
  <2>1. \A k \in 1 .. Len(Members(Root)) : ~(k < 1)
    BY MembersAll, CompileAssumption DEF Root, Object
  <2> QED
    BY <1>2, <2>1 DEF Progress, ReadOK
<1>6. ReadingOK(stack, Touched(memo))
  <2>1. \A a, b \in 1 .. Len(stack) : b # a + 1
    BY <1>4
  <2> QED
    BY <1>2, <1>4, <1>5, <2>1 DEF ReadingOK
<1>7. \A i \in Object : memo[i] # "done"
  BY <1>3
<1> QED
  BY <1>3, <1>6, <1>7 DEF RInv, ReadyOK, Returns
-------------------------------------------------------------------------------
(***************************************************************************)
(* Inside the resource.                                                    *)
(***************************************************************************)
LEMMA ResMore ==
  ASSUME DocOK(doc), NEW w \in Object
  PROVE  /\ w \in Res(w) /\ Res(w) \subseteq Object /\ Subtree(w) \subseteq Res(w)
         /\ \A v \in Res(w) : Res(v) \subseteq Res(w)
<1>1. PICK r \in Object : r = ResRoot(doc, w) /\ doc.id[r] /\ w \in Subtree(r)
  BY ResourceFacts
<1>2. /\ Res(w) = Subtree(r) /\ Subtree(r) \subseteq Object
      /\ \A j \in Subtree(r) : Subtree(j) \subseteq Subtree(r)
  BY <1>1, SubtreeFacts DEF Res
<1>3. ASSUME NEW v \in Res(w) PROVE Res(v) \subseteq Res(w)
  <2>1. v \in Object /\ v \in Subtree(r)
    BY <1>2
  <2>2. ResRoot(doc, v) \in Subtree(r)
    BY <1>1, <2>1, ResourceFacts
  <2> QED
    BY <1>2, <2>2 DEF Res
<1> QED
  BY <1>1, <1>2, <1>3

\* A stack that is like the one before as far as it goes, a prefix of the
\* entries.
LEMMA InsideAlike ==
  ASSUME NEW stk \in Seq(FrameType), NEW stk2 \in Seq(FrameType), Alike(stk, stk2),
         NEW ac \in Seq(Object), NEW ac2 \in Seq(Object),
         Len(ac2) <= Len(ac), \A j \in 1 .. Len(ac2) : ac2[j] = ac[j],
         Inside(stk), EntriesInside(stk, ac)
  PROVE  Inside(stk2) /\ EntriesInside(stk2, ac2)
<1>1. PICK l \in Nat, k \in Nat, n \in Nat, n2 \in Nat :
        /\ l = Len(stk) /\ k = Len(stk2) /\ k <= l /\ n = Len(ac) /\ n2 = Len(ac2) /\ n2 <= n
  BY DEF Alike
<1>2. \A a \in 1 .. k : /\ a \in 1 .. l /\ stk2[a].fn = stk[a].fn /\ stk2[a].v = stk[a].v
                        /\ stk2[a].base = stk[a].base
  BY <1>1 DEF Alike
<1>3. \A j \in 1 .. n2 : j \in 1 .. n /\ ac2[j] = ac[j]
  BY <1>1
<1>4. Inside(stk2)
  BY <1>1, <1>2 DEF Inside
<1>5. EntriesInside(stk2, ac2)
  BY <1>1, <1>2, <1>3 DEF EntriesInside
<1> QED
  BY <1>4, <1>5

LEMMA InsidePush ==
  ASSUME DocOK(doc), NEW stk \in Seq(FrameType), NEW ac \in Seq(Object),
         Inside(stk), EntriesInside(stk, ac),
         NEW f \in FrameType, f.fn = "local" => f.base = Len(ac),
         \A a \in 1 .. Len(stk) : a = Len(stk) => f.v \in Res(stk[a].v),
         NEW stk2, stk2 = Append(stk, f)
  PROVE  Inside(stk2) /\ EntriesInside(stk2, ac)
<1>1. PICK l \in Nat : l = Len(stk)
  OBVIOUS
<1>2. /\ Len(stk2) = l + 1 /\ stk2[l + 1] = f /\ \A a \in 1 .. l : stk2[a] = stk[a]
      /\ \A a \in 1 .. l + 1 : a = l + 1 \/ a \in 1 .. l
  BY <1>1
<1>3. f.v \in Object
  BY DEF FrameType
<1>4. ASSUME NEW a \in 1 .. l + 1, NEW b \in 1 .. l + 1, a <= b PROVE stk2[b].v \in Res(stk2[a].v)
  <2>1. CASE b \in 1 .. l
    <3>1. a \in 1 .. l
      BY <1>4, <2>1
    <3> QED
      BY <1>1, <1>2, <1>4, <2>1, <3>1 DEF Inside
  <2>2. CASE a = l + 1 /\ b = l + 1
    BY <1>2, <1>3, <2>2, ResMore
  <2>3. CASE a \in 1 .. l /\ b = l + 1
    <3>1. l \in 1 .. l /\ a <= l
      BY <2>3
    <3>2. stk[a].v \in Object /\ stk[l].v \in Res(stk[a].v) /\ f.v \in Res(stk[l].v)
      BY <1>1, <2>3, <3>1, FieldsAre DEF Inside
    <3>3. f.v \in Res(stk[a].v)
      BY <3>2, ResMore
    <3> QED
      BY <1>2, <2>3, <3>3
  <2> QED
    BY <1>2, <2>1, <2>2, <2>3
<1>5. Inside(stk2)
  BY <1>2, <1>4 DEF Inside
<1>6. EntriesInside(stk2, ac)
  <2>1. f.fn = "local" => \A j \in 1 .. Len(ac) : ~(f.base < j)
    OBVIOUS
  <2> QED
    BY <1>1, <1>2, <2>1 DEF EntriesInside
<1> QED
  BY <1>5, <1>6

\* A walk stays in the resource of its object.
LEMMA WalkInside ==
  ASSUME IInv, LInv, RInv, ~lost, stack # << >>, Top.fn # "compile", Top.m <= Top.last
  PROVE  Top.m \in Res(Top.v)
<1>1. PICK w \in Object, m \in Nat, l \in Nat :
        /\ w = Top.v /\ m = Top.m /\ m <= Top.last /\ l = Len(stack) /\ l \in 1 .. l
        /\ Top = stack[l] /\ DocOK(doc) /\ stack \in Seq(FrameType)
  BY TopIs DEF IInv
<1>2. Top.fn \in {"attach", "local"}
  BY <1>1, FieldsAre
<1>5. m \in Object
  <2>1. Top.last \in Object /\ m >= 1
    BY <1>1, TopIs DEF FrameOK
  <2> QED
    BY <1>1, <2>1, CompileAssumption DEF Object
<1>3. CASE Top.fn = "attach"
  <2>1. Top.last = Final(w) /\ m >= w
    BY <1>1, <1>3 DEF LInv, Walking
  <2>2. m \in Subtree(w)
    BY <1>1, <1>5, <2>1, SubtreeInterval
  <2> QED
    BY <1>1, <2>2, ResMore
<1>4. CASE Top.fn = "local"
  <2>1. PICK r \in Object : r = ResRoot(doc, w)
    BY <1>1, ResourceFacts
  <2>2. l - 1 \in 1 .. l /\ l = (l - 1) + 1
    <3>1. l # 1
      BY <1>1, <1>3, <1>4 DEF RInv, ReadingOK
    <3> QED
      BY <1>1, <3>1
  <2>3. LocalOK(stack[l - 1], Top, Touched(memo))
    BY <1>1, <1>4, <2>2 DEF RInv, ReadingOK, Link
  <2>4. Top.last = Final(r) /\ m >= r
    BY <1>1, <2>1, <2>3 DEF LocalOK
  <2>5. m \in Subtree(r)
    BY <1>1, <1>5, <2>1, <2>4, SubtreeInterval
  <2> QED
    BY <1>1, <2>1, <2>5 DEF Res
<1> QED
  BY <1>2, <1>3, <1>4

\* The document stays: so does the sense of the invariant.
LEMMA InsideNext ==
  ASSUME doc' = doc, lost => lost', Touched(memo) \subseteq Touched(memo'), WInv,
         ~lost' /\ Inside(stack) /\ EntriesInside(stack, acc) =>
           Escaped(Touched(memo')) \/ (Inside(stack') /\ EntriesInside(stack', acc'))
  PROVE  WInv'
<1>1. PICK T2 : T2 = Touched(memo') /\ Touched(memo)' = T2
  BY DEF Touched
<1>2. Anchors' = Anchors /\ FirstCollected' = FirstCollected /\ \A i : Subtree(i)' = Subtree(i)
  BY DocKept
<1>3. \A i : ResRoot(doc', i) = ResRoot(doc, i)
  OBVIOUS
<1>4. \A i : Res(i)' = Res(i)
  BY <1>2, <1>3 DEF Res
<1>5. Escaped(Touched(memo)) => Escaped(T2)
  BY <1>1, CalledMore
<1>6. Escaped(T2) => Escaped(T2)'
  BY <1>2 DEF Escaped
<1>7. Inside(stack') => Inside(stack)'
  BY <1>4 DEF Inside
<1>8. EntriesInside(stack', acc') => EntriesInside(stack, acc)'
  BY <1>4 DEF EntriesInside
<1> QED
  BY <1>1, <1>5, <1>6, <1>7, <1>8 DEF WInv

\* A call.
LEMMA CallInside ==
  ASSUME IInv, NEW stk \in Seq(FrameType), NEW v \in Object, Call(stk, v), acc' = acc,
         Inside(stk), EntriesInside(stk, acc),
         \A a \in 1 .. Len(stk) : a = Len(stk) => v \in Res(stk[a].v)
  PROVE  Inside(stack') /\ EntriesInside(stack', acc')
<1>1. cur \in 0 .. Size /\ acc \in Seq(Object) /\ DocOK(doc) /\ 0 \in 0 .. Size
  BY CompileAssumption DEF IInv, Object
<1>2. CASE stack' = stk
  BY <1>2
<1>3. CASE stack' # stk
  <2>1. PICK f, stk2 : f = Frame("compile", v, 1, 0, cur, 0) /\ stk2 = Append(stk, f)
    OBVIOUS
  <2>2. stack' = stk2
    BY <1>3, <2>1 DEF Call, Calls
  <2>3. f \in FrameType /\ f.fn = "compile" /\ f.v = v
    <3>1. f = [fn |-> "compile", v |-> v, m |-> 1, last |-> 0, saved |-> cur, base |-> 0]
      BY <2>1 DEF Frame
    <3> QED
      BY <1>1, <3>1 DEF FrameType
  <2>4. Inside(stk2) /\ EntriesInside(stk2, acc)
    BY <1>1, <2>1, <2>3, InsidePush
  <2> QED
    BY <2>2, <2>4
<1> QED
  BY <1>2, <1>3

LEMMA CallTouches ==
  ASSUME IInv, NEW stk, NEW v \in Object, Call(stk, v)
  PROVE  v \in Touched(memo') /\ Touched(memo) \subseteq Touched(memo')
BY DEF IInv, Call, Calls, Touched

LEMMA TurnInside ==
  ASSUME IInv, stack # << >>, stack' = Turn(Top.m + 1), acc' = acc,
         Inside(stack), EntriesInside(stack, acc)
  PROVE  Inside(stack') /\ EntriesInside(stack', acc')
<1>1. PICK stk2 : stk2 = stack'
  OBVIOUS
<1>2. Top.m + 1 \in Nat
  BY TopIs
<1>3. Alike(stack, stk2) /\ stk2 \in Seq(FrameType)
  BY <1>1, <1>2, TurnAlike
<1>4. stack \in Seq(FrameType) /\ acc \in Seq(Object)
  BY TopIs DEF IInv
<1>5. PICK ac2 \in Seq(Object) : ac2 = acc /\ Len(ac2) <= Len(acc)
                                 /\ \A j \in 1 .. Len(ac2) : ac2[j] = acc[j]
  BY <1>4
<1>6. Inside(stk2) /\ EntriesInside(stk2, ac2)
  BY <1>3, <1>4, <1>5, InsideAlike
<1> QED
  BY <1>1, <1>5, <1>6

LEMMA PopInside ==
  ASSUME IInv, stack # << >>, Inside(stack), EntriesInside(stack, acc), NEW stk2, stk2 = Pop,
         NEW ac2 \in Seq(Object), Len(ac2) <= Len(acc), \A j \in 1 .. Len(ac2) : ac2[j] = acc[j]
  PROVE  /\ stk2 \in Seq(FrameType) /\ Inside(stk2) /\ EntriesInside(stk2, ac2)
         /\ \A a \in 1 .. Len(stk2) : Top.v \in Res(stk2[a].v)
<1>1. /\ stack \in Seq(FrameType) /\ Len(stack) > 0 /\ Top = stack[Len(stack)]
      /\ acc \in Seq(Object) /\ Len(stack) \in 1 .. Len(stack)
  BY TopIs DEF IInv
<1>2. stk2 = SubSeq(stack, 1, Len(stack) - 1)
  BY DEF Pop
<1>3. /\ stk2 \in Seq(FrameType) /\ Alike(stack, stk2) /\ Extends(stk2, stack)
      /\ Len(stack) = Len(stk2) + 1
  BY <1>1, <1>2, PopIs
<1>4. Inside(stk2) /\ EntriesInside(stk2, ac2)
  BY <1>1, <1>3, InsideAlike
<1>5. ASSUME NEW a \in 1 .. Len(stk2) PROVE Top.v \in Res(stk2[a].v)
  <2>1. a \in 1 .. Len(stack) /\ a <= Len(stack) /\ stk2[a] = stack[a]
    BY <1>3 DEF Extends
  <2> QED
    BY <1>1, <2>1 DEF Inside
<1> QED
  BY <1>3, <1>4, <1>5

\* The accumulator as it was, in the terms of PopInside.
LEMMA AccKept ==
  ASSUME IInv
  PROVE  acc \in Seq(Object) /\ Len(acc) <= Len(acc) /\ \A j \in 1 .. Len(acc) : acc[j] = acc[j]
<1>1. acc \in Seq(Object)
  BY DEF IInv
<1> QED
  BY <1>1

LEMMA LoopInside ==
  ASSUME IInv, LInv, HInv, RInv, WInv,
         Subschema \/ Ref \/ Bad \/ Ignored \/ Anchor \/ Dependency \/ Returned \/ Visit
  PROVE  WInv'
<1>1. /\ stack # << >> /\ stack \in Seq(FrameType) /\ UNCHANGED <<doc, lost, acc>>
      /\ Top.v \in Object /\ Top = stack[Len(stack)] /\ Len(stack) \in 1 .. Len(stack)
      /\ DocOK(doc) /\ Idle # 0
  BY TopIs DEF Subschema, Ref, Bad, Ignored, Anchor, Dependency, Returned, Return, Reading,
               Reads, Kept, Visit, Walks, IInv, Idle
<1>2. ASSUME NEW v \in Object, Call(stack, v), ~lost => v \in Res(Top.v) PROVE WInv'
  <2>1. Touched(memo) \subseteq Touched(memo')
    BY <1>2, CallTouches
  <2>2. SUFFICES ASSUME ~lost, Inside(stack), EntriesInside(stack, acc)
                 PROVE  Inside(stack') /\ EntriesInside(stack', acc')
    BY <1>1, <2>1, InsideNext
  <2>3. \A a \in 1 .. Len(stack) : a = Len(stack) => v \in Res(stack[a].v)
    BY <1>1, <1>2, <2>2
  <2> QED
    BY <1>1, <1>2, <2>2, <2>3, CallInside
<1>3. ASSUME Fail PROVE WInv'
  <2>1. Touched(memo) \subseteq Touched(memo')
    BY <1>3 DEF Fail
  <2>2. SUFFICES ASSUME ~lost, Inside(stack), EntriesInside(stack, acc)
                 PROVE  Inside(stack') /\ EntriesInside(stack', acc')
    BY <1>1, <2>1, InsideNext
  <2>3. PICK stk2 : stk2 = Pop
    OBVIOUS
  <2>4. PICK ac2 : ac2 = acc
    OBVIOUS
  <2>5. ac2 \in Seq(Object) /\ Len(ac2) <= Len(acc) /\ \A j \in 1 .. Len(ac2) : ac2[j] = acc[j]
    BY <2>4, AccKept
  <2>6. Inside(stk2) /\ EntriesInside(stk2, ac2)
    BY <1>1, <2>2, <2>3, <2>5, PopInside
  <2> QED
    BY <1>1, <1>3, <2>3, <2>4, <2>6 DEF Fail
<1>4. ASSUME stack' = Turn(Top.m + 1), memo' = memo PROVE WInv'
  <2>1. Touched(memo) \subseteq Touched(memo')
    BY <1>4
  <2> QED
    BY <1>1, <1>4, <2>1, InsideNext, TurnInside
<1>5. CASE Subschema
  <2>1. PICK v \in Object : v = Read /\ Call(stack, v) /\ Reads
    BY <1>5, ReadIs DEF Subschema
  <2>2. doc.up[v] = Top.v
    <3>1. PICK w \in Object, m \in Nat : w = Top.v /\ m = Top.m /\ m >= 1
      BY <1>1, TopIs
    <3>2. m \in 1 .. Len(Members(w))
      BY <2>1, <3>1, MembersAll DEF Reads
    <3>3. v # 0 /\ v = Members(w)[m]
      BY <2>1, <3>1 DEF Read, Object
    <3> QED
      BY <3>1, <3>2, <3>3, MembersAll
  <2>3. v \in Subtree(Top.v)
    BY <1>1, <2>2, SubtreeFacts
  <2> QED
    BY <1>1, <1>2, <2>1, <2>3, ResMore
<1>6. CASE Ref
  <2>1. PICK to \in Resolve(Top.v) : IF to = 0 THEN Fail ELSE Call(stack, to)
    BY <1>6 DEF Ref
  <2>2. PICK w \in Object : /\ w = Top.v /\ doc.use[w].kw = "ref" /\ ret = Idle
                            /\ w = stack[Len(stack)].v /\ stack[Len(stack)].fn = "compile"
    BY <1>1, <1>6 DEF Ref, Reading, Reads
  <2>3. to # 0 => to \in Object
    BY <2>1, <2>2, ResolveIs
  <2>4. ASSUME ~lost PROVE to \in Res(w)
    <3>1. HomeIs(stack, Len(stack) + 1, cur)
      BY <1>1, <2>2, <2>4 DEF HInv
    <3>2. PICK l \in Nat : l = Len(stack)
      BY <1>1
    <3>3. l \in 1 .. l /\ l < l + 1 /\ \A b \in 1 .. l : ~(l < b)
      BY <1>1, <3>2
    <3>4. cur = ResRoot(doc, w)
      BY <2>2, <3>1, <3>2, <3>3 DEF HomeIs
    <3>5. to = doc.use[w].to
      BY <2>1, <2>2, <3>4 DEF Resolve
    <3> QED
      BY <1>1, <2>2, <3>5, ResourceFacts DEF Res
  <2> QED
    BY <1>2, <1>3, <2>1, <2>2, <2>3, <2>4
<1>7. CASE Bad
  BY <1>3, <1>7 DEF Bad
<1>8. CASE Ignored \/ Anchor \/ Dependency
  BY <1>4, <1>8 DEF Ignored, Anchor, Dependency
<1>9. CASE Returned
  BY <1>3, <1>4, <1>9 DEF Returned, Return
<1>10. CASE Visit
  <2>1. Top.fn # "compile" /\ Call(stack, Top.m) /\ Top.m <= Top.last
    BY <1>10 DEF Visit, Walks
  <2>2. Top.m \in Object
    <3>1. Top.m \in Nat /\ Top.m >= 1 /\ Top.last \in Object
      BY <1>1, <2>1, TopIs DEF FrameOK
    <3> QED
      BY <2>1, <3>1, CompileAssumption DEF Object
  <2> QED
    BY <1>1, <1>2, <2>1, <2>2, WalkInside
<1> QED
  BY <1>5, <1>6, <1>7, <1>8, <1>9, <1>10

LEMMA DynamicRefInside ==
  ASSUME IInv, WInv, DynamicRef
  PROVE  WInv'
<1>1. PICK f, stk2 : /\ f = Frame("local", Top.v, cur, Final(cur), 0, Len(acc))
                     /\ stk2 = Append(stack, f)
  OBVIOUS
<1>2. stack # << >> /\ stack' = stk2 /\ UNCHANGED <<doc, lost, acc, memo>>
  BY <1>1 DEF DynamicRef, Reading, Reads, Kept
<1>3. SUFFICES ASSUME Inside(stack), EntriesInside(stack, acc)
               PROVE  Inside(stk2) /\ EntriesInside(stk2, acc)
  <2>1. Touched(memo) \subseteq Touched(memo')
    BY <1>2
  <2> QED
    BY <1>2, <2>1, InsideNext
<1>4. /\ stack \in Seq(FrameType) /\ Top.v \in Object /\ Top = stack[Len(stack)]
      /\ cur \in Object /\ acc \in Seq(Object) /\ DocOK(doc)
  BY <1>2, TopIs DEF IInv
<1>5. f \in FrameType /\ f.fn = "local" /\ f.base = Len(acc) /\ f.v = Top.v
  <2>1. f = [fn |-> "local", v |-> Top.v, m |-> cur, last |-> Final(cur), saved |-> 0,
             base |-> Len(acc)]
    BY <1>1 DEF Frame
  <2>3. Final(cur) \in Object
    BY <1>4, FinalIs
  <2>2. cur \in Nat /\ Final(cur) \in 0 .. Size /\ 0 \in 0 .. Size /\ Len(acc) \in Nat
    BY <1>4, <2>3, CompileAssumption DEF Object
  <2> QED
    BY <1>4, <2>1, <2>2 DEF FrameType
<1>6. \A a \in 1 .. Len(stack) : a = Len(stack) => f.v \in Res(stack[a].v)
  BY <1>4, <1>5, ResMore
<1> QED
  BY <1>1, <1>3, <1>4, <1>5, <1>6, InsidePush

LEMMA LoopEndsInside ==
  ASSUME IInv, WInv, LoopEnds
  PROVE  WInv'
<1>1. PICK f, stk1, stk2 : /\ f = Frame("attach", Top.v, Top.v, Final(Top.v), 0, Len(acc))
                           /\ stk1 = Pop /\ stk2 = Append(stk1, f)
  OBVIOUS
<1>2. stack # << >> /\ stack' = stk2 /\ UNCHANGED <<doc, lost, acc, memo>>
  BY <1>1 DEF LoopEnds, Kept
<1>3. SUFFICES ASSUME Inside(stack), EntriesInside(stack, acc)
               PROVE  Inside(stk2) /\ EntriesInside(stk2, acc)
  <2>1. Touched(memo) \subseteq Touched(memo')
    BY <1>2
  <2> QED
    BY <1>2, <2>1, InsideNext
<1>4. Top.v \in Object /\ acc \in Seq(Object) /\ DocOK(doc)
  BY <1>2, TopIs DEF IInv
<1>5. f \in FrameType /\ f.fn = "attach" /\ f.v = Top.v
  <2>1. f = [fn |-> "attach", v |-> Top.v, m |-> Top.v, last |-> Final(Top.v), saved |-> 0,
             base |-> Len(acc)]
    BY <1>1 DEF Frame
  <2>2. Final(Top.v) \in Object
    BY <1>4, FinalIs
  <2>3. Top.v \in Nat /\ Final(Top.v) \in 0 .. Size /\ 0 \in 0 .. Size /\ Len(acc) \in Nat
    BY <1>4, <2>2, CompileAssumption DEF Object
  <2> QED
    BY <1>4, <2>1, <2>3 DEF FrameType
<1>6. PICK ac2 \in Seq(Object) : ac2 = acc /\ Len(ac2) <= Len(acc)
                                 /\ \A j \in 1 .. Len(ac2) : ac2[j] = acc[j]
  BY <1>4
<1>7. /\ stk1 \in Seq(FrameType) /\ Inside(stk1) /\ EntriesInside(stk1, ac2)
      /\ \A a \in 1 .. Len(stk1) : Top.v \in Res(stk1[a].v)
  BY <1>1, <1>2, <1>3, <1>6, PopInside
<1>8. /\ \A a \in 1 .. Len(stk1) : a = Len(stk1) => f.v \in Res(stk1[a].v)
      /\ f.fn = "local" => f.base = Len(ac2)
  BY <1>5, <1>7
<1>9. Inside(stk2) /\ EntriesInside(stk2, ac2)
  BY <1>1, <1>4, <1>5, <1>7, <1>8, InsidePush
<1> QED
  BY <1>6, <1>9

\* What a walk notes lies in the resource of its object, and so of every
\* local walk below.
LEMMA NoteInside ==
  ASSUME IInv, LInv, RInv, WInv, Note
  PROVE  WInv'
<1>1. /\ stack # << >> /\ Top.fn # "compile" /\ ret # Idle /\ stack' = Turn(Top.m + 1)
      /\ UNCHANGED <<doc, memo>> /\ lost' = (lost \/ ret = 0)
      /\ acc' = IF ret \in anchored THEN Append(acc, ret) ELSE acc
  BY DEF Note, Walks
<1>2. SUFFICES ASSUME ~lost, ret # 0, Inside(stack), EntriesInside(stack, acc)
               PROVE  Inside(stack') /\ EntriesInside(stack', acc')
  <2>1. Touched(memo) \subseteq Touched(memo')
    BY <1>1
  <2> QED
    BY <1>1, <2>1, InsideNext
<1>3. /\ stack \in Seq(FrameType) /\ acc \in Seq(Object) /\ Top = stack[Len(stack)] /\ DocOK(doc)
      /\ Len(stack) \in 1 .. Len(stack) /\ Top.v \in Object
  BY <1>1, TopIs DEF IInv
<1>4. ret = Top.m /\ ret <= Top.last
  <2>1. Returns(ret)
    BY <1>1, <1>2 DEF Returns
  <2> QED
    BY <1>1, <1>3, <2>1 DEF LInv, Visited
<1>5. ret \in Res(Top.v) /\ ret \in Object
  <2>1. ret \in Res(Top.v)
    BY <1>1, <1>2, <1>4, WalkInside
  <2> QED
    BY <1>3, <2>1, ResMore
<1>6. PICK ac2 : ac2 = acc'
  OBVIOUS
<1>7. EntriesInside(stack, ac2)
  <2>1. CASE ac2 = acc
    BY <1>2, <2>1
  <2>2. CASE ac2 = Append(acc, ret)
    <3>1. PICK n \in Nat : n = Len(acc) /\ Len(ac2) = n + 1 /\ ac2[n + 1] = ret
                           /\ \A j \in 1 .. n : ac2[j] = acc[j]
      BY <1>3, <1>5, <2>2
    <3>2. ASSUME NEW a \in 1 .. Len(stack) PROVE ret \in Res(stack[a].v)
      <4>1. Top.v \in Res(stack[a].v) /\ stack[a].v \in Object
        <5>1. a <= Len(stack)
          BY <1>3
        <5> QED
          BY <1>2, <1>3, <5>1, FieldsAre DEF Inside
      <4> QED
        BY <1>3, <1>5, <4>1, ResMore
    <3>3. \A j \in 1 .. n + 1 : j = n + 1 \/ j \in 1 .. n
      OBVIOUS
    <3> QED
      BY <1>2, <3>1, <3>2, <3>3 DEF EntriesInside
  <2> QED
    BY <1>1, <1>6, <2>1, <2>2
<1>8. ac2 \in Seq(Object)
  BY <1>1, <1>3, <1>5, <1>6
<1>9. PICK stk2 : stk2 = stack'
  OBVIOUS
<1>10. Alike(stack, stk2) /\ stk2 \in Seq(FrameType)
  <2>1. Top.m + 1 \in Nat
    BY <1>1, TopIs
  <2> QED
    BY <1>1, <1>9, <2>1, TurnAlike
<1>11. PICK ac3 \in Seq(Object) : ac3 = ac2 /\ Len(ac3) <= Len(ac2)
                                  /\ \A j \in 1 .. Len(ac3) : ac3[j] = ac2[j]
  BY <1>8
<1>12. Inside(stk2) /\ EntriesInside(stk2, ac3)
  BY <1>2, <1>3, <1>7, <1>8, <1>10, <1>11, InsideAlike
<1> QED
  BY <1>6, <1>9, <1>11, <1>12

LEMMA AttachInside ==
  ASSUME IInv, WInv, Attach
  PROVE  WInv'
<1>1. /\ stack # << >> /\ stack' = Pop /\ acc' = SubSeq(acc, 1, Top.base)
      /\ memo' = [memo EXCEPT ![Top.v] = "done"] /\ UNCHANGED <<doc, lost>>
  BY DEF Attach, AttachTo, Walks, Kept
<1>2. PICK stk2, ac2 : stk2 = stack' /\ ac2 = acc'
  OBVIOUS
<1>3. acc \in Seq(Object) /\ Top.base \in 0 .. Len(acc)
      /\ memo \in [Object -> {"none", "busy", "done"}] /\ Top.v \in Object
  BY <1>1, TopIs DEF IInv
<1>4. SUFFICES ASSUME Inside(stack), EntriesInside(stack, acc)
               PROVE  Inside(stk2) /\ EntriesInside(stk2, ac2)
  <2>1. Touched(memo) \subseteq Touched(memo')
    BY <1>1, <1>3 DEF Touched
  <2> QED
    BY <1>1, <1>2, <2>1, InsideNext
<1>5. ac2 \in Seq(Object) /\ Len(ac2) <= Len(acc) /\ \A j \in 1 .. Len(ac2) : ac2[j] = acc[j]
  BY <1>1, <1>2, <1>3
<1>6. stk2 = Pop
  BY <1>1, <1>2
<1> QED
  BY <1>1, <1>4, <1>5, <1>6, PopInside

\* Only the fallback leads out.
LEMMA LocalInside ==
  ASSUME IInv, LInv, WInv, Local
  PROVE  WInv'
<1>1. /\ stack # << >> /\ Top.fn = "local" /\ UNCHANGED <<doc, acc, lost>>
  BY LocalCalls
<1>2. PICK stk, ac2 : stk = Pop /\ ac2 = acc
  OBVIOUS
<1>3. acc \in Seq(Object) /\ Top.base \in 0 .. Len(acc) /\ Top = stack[Len(stack)]
      /\ Len(stack) \in 1 .. Len(stack)
  BY <1>1, TopIs DEF IInv
<1>4. ac2 \in Seq(Object) /\ Len(ac2) <= Len(acc) /\ \A j \in 1 .. Len(ac2) : ac2[j] = acc[j]
  BY <1>2, <1>3
<1>5. ASSUME Inside(stack), EntriesInside(stack, acc)
      PROVE  /\ stk \in Seq(FrameType) /\ Inside(stk) /\ EntriesInside(stk, acc)
             /\ \A a \in 1 .. Len(stk) : Top.v \in Res(stk[a].v) /\ stk[a].v \in Object
  <2>1. /\ stk \in Seq(FrameType) /\ Inside(stk) /\ EntriesInside(stk, ac2)
        /\ \A a \in 1 .. Len(stk) : Top.v \in Res(stk[a].v)
    BY <1>1, <1>2, <1>4, <1>5, PopInside
  <2> QED
    BY <1>2, <2>1, FieldsAre
<1>6. CASE Fail
  <2>1. Touched(memo) \subseteq Touched(memo') /\ stack' = stk
    BY <1>2, <1>6 DEF Fail
  <2> QED
    BY <1>1, <1>5, <2>1, InsideNext
<1>7. CASE ~Fail
  <2>1. PICK v \in Object :
          /\ Call(stk, v)
          /\ \/ Len(acc) > Top.base /\ v = acc[Top.base + 1]
             \/ v \in FirstCollected
    BY <1>2, <1>7, LocalCalls
  <2>2. v \in Touched(memo') /\ Touched(memo) \subseteq Touched(memo')
    BY <2>1, CallTouches
  <2>3. CASE v \in FirstCollected
    <3>1. Escaped(Touched(memo'))
      BY <2>2, <2>3 DEF Escaped
    <3> QED
      BY <1>1, <2>2, <3>1, InsideNext
  <2>4. CASE Len(acc) > Top.base /\ v = acc[Top.base + 1]
    <3>1. SUFFICES ASSUME Inside(stack), EntriesInside(stack, acc)
                   PROVE  Inside(stack') /\ EntriesInside(stack', acc')
      BY <1>1, <2>2, InsideNext
    <3>5. PICK n \in Nat, b \in Nat : n = Len(acc) /\ b = Top.base /\ n > b
      BY <1>3, <2>4
    <3>2. PICK k \in 1 .. Len(acc) : k = Top.base + 1 /\ k > Top.base
      <4>1. b + 1 \in 1 .. n /\ b + 1 > b
        BY <3>5
      <4> QED
        BY <3>5, <4>1
    <3>3. v \in Res(Top.v)
      BY <1>1, <1>3, <2>4, <3>1, <3>2 DEF EntriesInside
    <3>4. \A a \in 1 .. Len(stk) : a = Len(stk) => v \in Res(stk[a].v)
      <4>1. DocOK(doc)
        BY DEF IInv
      <4> QED
        BY <1>5, <3>1, <3>3, <4>1, ResMore
    <3> QED
      BY <1>1, <1>5, <2>1, <3>1, <3>4, CallInside
  <2> QED
    BY <2>1, <2>3, <2>4
<1> QED
  BY <1>6, <1>7

LEMMA NextInside == IInv /\ LInv /\ HInv /\ RInv /\ WInv /\ [Next]_vars => WInv'
<1> SUFFICES ASSUME IInv, LInv, HInv, RInv, WInv, [Next]_vars
             PROVE  WInv'
  OBVIOUS
<1>1. CASE UNCHANGED vars
  <2>1. Touched(memo) \subseteq Touched(memo')
    BY <1>1 DEF vars
  <2> QED
    BY <1>1, <2>1, InsideNext DEF vars
<1> QED
  BY <1>1, LoopInside, DynamicRefInside, LoopEndsInside, NoteInside, AttachInside, LocalInside
     DEF Next

LEMMA InitInside == Init => WInv
<1> SUFFICES ASSUME Init
             PROVE  WInv
  OBVIOUS
<1>1. PICK f : f = Frame("compile", Root, 1, 0, Root, 0) /\ stack = <<f>>
  BY DEF Init, InitWith
<1>2. f.v = Root /\ Root \in Object /\ DocOK(doc) /\ acc = << >>
  BY <1>1, InitInv, CompileAssumption DEF Frame, Root, Object, IInv, Init, InitWith
<1>3. Len(stack) = 1 /\ stack[1] = f /\ \A a \in 1 .. Len(stack) : a = 1
  BY <1>1
<1>4. Inside(stack)
  BY <1>2, <1>3, ResMore DEF Inside
<1>5. EntriesInside(stack, acc)
  BY <1>2 DEF EntriesInside
<1> QED
  BY <1>4, <1>5 DEF WInv
-------------------------------------------------------------------------------
(***************************************************************************)
(* What applies.                                                           *)
(***************************************************************************)
LEMMA ReachedIs ==
  /\ Root \in Object => Root \in Reached
  /\ \A i \in Reached : \A j \in Edge(i) \cap Object : j \in Reached
  /\ \A S \in SUBSET Object : Root \in S /\ (\A i \in S : Edge(i) \subseteq S) => Reached \subseteq S
<1>2. Root \in Object => Root \in Reached
  BY DEF Reached
<1>3. ASSUME NEW i \in Reached, NEW j \in Edge(i) \cap Object PROVE j \in Reached
  BY <1>3 DEF Reached
<1>4. ASSUME NEW S \in SUBSET Object, Root \in S, \A i \in S : Edge(i) \subseteq S
      PROVE  Reached \subseteq S
  BY <1>4 DEF Reached
<1> QED
  BY <1>2, <1>3, <1>4

LEMMA DirectAlike ==
  ASSUME NEW stk \in Seq(FrameType), NEW stk2 \in Seq(FrameType), Alike(stk, stk2)
  PROVE  /\ \A a \in 0 .. Len(stk2) : Direct(stk2, a) <=> Direct(stk, a)
         /\ ReachedOK(stk) => ReachedOK(stk2)
<1>1. PICK l \in Nat, k \in Nat : l = Len(stk) /\ k = Len(stk2) /\ k <= l
  BY DEF Alike
<1>2. \A a \in 1 .. k : /\ a \in 1 .. l /\ a \in 0 .. k
                        /\ stk2[a].fn = stk[a].fn /\ stk2[a].v = stk[a].v
  BY <1>1 DEF Alike
<1>3. ASSUME NEW a \in 0 .. k PROVE Direct(stk2, a) <=> Direct(stk, a)
  <2>1. \A b \in 1 .. l : b <= a => b \in 1 .. k
    BY <1>1
  <2> QED
    BY <1>1, <1>2, <2>1 DEF Direct
<1>4. ReachedOK(stk) => ReachedOK(stk2)
  BY <1>1, <1>2, <1>3 DEF ReachedOK
<1> QED
  BY <1>1, <1>3, <1>4

LEMMA ReachedPush ==
  ASSUME NEW stk \in Seq(FrameType), ReachedOK(stk), NEW f \in FrameType,
         f.fn = "compile" /\ Direct(stk, Len(stk)) => f.v \in Reached,
         NEW stk2, stk2 = Append(stk, f)
  PROVE  ReachedOK(stk2)
<1>1. PICK l \in Nat : l = Len(stk)
  OBVIOUS
<1>2. /\ Len(stk2) = l + 1 /\ stk2[l + 1] = f /\ \A a \in 1 .. l : stk2[a] = stk[a]
      /\ \A a \in 1 .. l + 1 : a = l + 1 \/ a \in 1 .. l
      /\ \A a \in 1 .. l : a \in 1 .. l + 1
      /\ stk2 \in Seq(FrameType) /\ l \in 0 .. l /\ \A a \in 1 .. l : a \in 0 .. l
  BY <1>1
<1>3. Alike(stk2, stk)
  BY <1>1, <1>2 DEF Alike
<1>4. \A a \in 0 .. l : Direct(stk, a) <=> Direct(stk2, a)
  BY <1>1, <1>2, <1>3, DirectAlike
<1>5. ASSUME Direct(stk2, l + 1) PROVE f.v \in Reached
  <2>1. f.fn = "compile"
    <3>1. l + 1 \in 1 .. l + 1 /\ l + 1 <= l + 1
      OBVIOUS
    <3> QED
      BY <1>2, <1>5, <3>1 DEF Direct
  <2>2. Direct(stk, l)
    <3>1. \A b \in 1 .. l : b \in 1 .. l + 1 /\ b <= l + 1
      OBVIOUS
    <3> QED
      BY <1>1, <1>2, <1>5, <3>1 DEF Direct
  <2> QED
    BY <1>1, <2>1, <2>2
<1>6. ASSUME NEW a \in 1 .. l, Direct(stk2, a) PROVE stk2[a].v \in Reached
  BY <1>1, <1>2, <1>4, <1>6 DEF ReachedOK
<1> QED
  BY <1>2, <1>5, <1>6 DEF ReachedOK

\* Entries of the local walks below.
LEMMA FoundPush ==
  ASSUME NEW stk \in Seq(FrameType), NEW n \in Nat, FoundOK(stk, n), NEW f \in FrameType,
         f.fn # "compile" => f.base = n, ~(f.fn = "local" /\ Met(f)),
         NEW stk2, stk2 = Append(stk, f)
  PROVE  FoundOK(stk2, n)
<1>1. PICK l \in Nat : l = Len(stk)
  OBVIOUS
<1>2. /\ Len(stk2) = l + 1 /\ stk2[l + 1] = f /\ \A a \in 1 .. l : stk2[a] = stk[a]
      /\ \A a \in 1 .. l + 1 : a = l + 1 \/ a \in 1 .. l
  BY <1>1
<1>3. ASSUME NEW a \in 1 .. l, stk[a].fn = "local", Met(stk[a])
      PROVE  /\ n > stk[a].base
             /\ \A b \in 1 .. l + 1 : a < b /\ stk2[b].fn # "compile" => stk2[b].base > stk[a].base
  <2>1. /\ n > stk[a].base
        /\ \A b \in 1 .. l : a < b /\ stk[b].fn # "compile" => stk[b].base > stk[a].base
    BY <1>1, <1>3 DEF FoundOK
  <2> QED
    BY <1>2, <2>1
<1> QED
  BY <1>2, <1>3 DEF FoundOK

LEMMA FoundPop ==
  ASSUME NEW stk, NEW stk2 \in Seq(FrameType), NEW n, FoundOK(stk, n), Extends(stk2, stk)
  PROVE  FoundOK(stk2, n)
<1>1. PICK l \in Nat : l = Len(stk2)
  OBVIOUS
<1>2. Len(stk) = l + 1 /\ \A a \in 1 .. l : stk[a] = stk2[a] /\ a \in 1 .. l + 1
  BY <1>1 DEF Extends
<1> QED
  BY <1>1, <1>2 DEF FoundOK

\* attach_self_scope cuts down to its base.
LEMMA FoundCut ==
  ASSUME NEW stk \in Seq(FrameType), NEW stk2 \in Seq(FrameType), NEW n, FoundOK(stk, n),
         Extends(stk2, stk), stk[Len(stk)].fn = "attach",
         NEW n2, n2 = stk[Len(stk)].base
  PROVE  FoundOK(stk2, n2)
<1>1. PICK l \in Nat : l = Len(stk2)
  OBVIOUS
<1>2. /\ Len(stk) = l + 1 /\ \A a \in 1 .. l : stk[a] = stk2[a] /\ a \in 1 .. l + 1 /\ a < l + 1
      /\ l + 1 \in 1 .. l + 1
  BY <1>1 DEF Extends
<1>3. ASSUME NEW a \in 1 .. l, stk2[a].fn = "local", Met(stk2[a])
      PROVE  /\ n2 > stk2[a].base
             /\ \A b \in 1 .. l : a < b /\ stk2[b].fn # "compile" => stk2[b].base > stk2[a].base
  BY <1>2, <1>3 DEF FoundOK
<1> QED
  BY <1>1, <1>3 DEF FoundOK

LEMMA FoundTurn ==
  ASSUME NEW stk \in Seq(FrameType), NEW stk2 \in Seq(FrameType), Alike(stk, stk2),
         Len(stk2) = Len(stk), \A a \in 1 .. Len(stk) : a # Len(stk) => stk2[a] = stk[a],
         NEW n \in Nat, NEW n2 \in Nat, n <= n2, FoundOK(stk, n),
         \A a \in 1 .. Len(stk) :
           a = Len(stk) /\ stk2[a].fn = "local" /\ Met(stk2[a]) => n2 > stk2[a].base
  PROVE  FoundOK(stk2, n2)
<1>1. PICK l \in Nat : l = Len(stk) /\ l = Len(stk2)
  OBVIOUS
<1>2. \A a \in 1 .. l : stk2[a].fn = stk[a].fn /\ stk2[a].base = stk[a].base
  BY <1>1 DEF Alike
<1>3. ASSUME NEW a \in 1 .. l, stk2[a].fn = "local", Met(stk2[a])
      PROVE  /\ n2 > stk2[a].base
             /\ \A b \in 1 .. l : a < b /\ stk2[b].fn # "compile" => stk2[b].base > stk2[a].base
  <2>1. CASE a = l
    <3>1. \A b \in 1 .. l : ~(a < b)
      BY <2>1
    <3> QED
      BY <1>1, <1>3, <2>1, <3>1
  <2>2. CASE a # l
    <3>1. stk2[a] = stk[a]
      BY <1>1, <2>2
    <3>2. /\ n > stk[a].base
          /\ \A b \in 1 .. l : a < b /\ stk[b].fn # "compile" => stk[b].base > stk[a].base
      BY <1>1, <1>3, <3>1 DEF FoundOK
    <3>3. stk[a].base \in Nat
      BY <1>1, FieldsAre
    <3> QED
      BY <1>2, <3>1, <3>2, <3>3
  <2> QED
    BY <2>1, <2>2
<1> QED
  BY <1>1, <1>3 DEF FoundOK

\* The document stays: so does the sense of the invariant.
LEMMA FinishNext ==
  ASSUME doc' = doc, lost => lost', missed => missed', NEW n, n = Len(acc'),
         ~lost' /\ ~missed' =>
           ReachedOK(stack') /\ FailsRightly(stack', ret') /\ FoundOK(stack', n)
  PROVE  FInv'
<1>1. Anchors' = Anchors /\ FirstCollected' = FirstCollected /\ \A i : Subtree(i)' = Subtree(i)
  BY DocKept
<1>2. \A i : ResRoot(doc', i) = ResRoot(doc, i)
  OBVIOUS
<1>3. \A i : Bookend(i)' = Bookend(i)
  BY <1>1, <1>2 DEF Bookend
<1>4. \A i : Edge(i)' = Edge(i)
  BY <1>3 DEF Edge
<1>5. Reached' = Reached
  BY <1>4 DEF Reached
<1>6. Valid' <=> Valid
  BY <1>1, <1>5 DEF Valid
<1>7. \A f : Met(f)' <=> Met(f)
  BY <1>1, <1>2 DEF Met
<1>8. ReachedOK(stack') => ReachedOK(stack)'
  BY <1>5 DEF ReachedOK, Direct
<1>9. FailsRightly(stack', ret') => FailsRightly(stack, ret)'
  BY <1>6 DEF FailsRightly, Direct
<1>10. FoundOK(stack', n) => FoundOK(stack, Len(acc))'
  BY <1>7 DEF FoundOK
<1> QED
  BY <1>8, <1>9, <1>10 DEF FInv

\* A call: nothing is pushed, or the object called applies if its caller does.
LEMMA CallFinish ==
  ASSUME IInv, NEW stk \in Seq(FrameType), NEW v \in Object, Call(stk, v), acc' = acc,
         ReachedOK(stk), FoundOK(stk, Len(acc)),
         memo[v] = "none" /\ Direct(stk, Len(stk)) => v \in Reached
  PROVE  /\ ReachedOK(stack') /\ FailsRightly(stack', ret') /\ FoundOK(stack', Len(acc))
<1>1. /\ cur \in 0 .. Size /\ acc \in Seq(Object) /\ 0 \in 0 .. Size
      /\ memo \in [Object -> {"none", "busy", "done"}] /\ v # 0 /\ Idle # 0
  BY CompileAssumption DEF IInv, Object, Idle
<1>2. ret' # 0
  BY <1>1 DEF Call, Calls
<1>3. FailsRightly(stack', ret')
  BY <1>2 DEF FailsRightly
<1>4. CASE stack' = stk
  BY <1>3, <1>4
<1>5. CASE stack' # stk
  <2>1. PICK f, stk2 : f = Frame("compile", v, 1, 0, cur, 0) /\ stk2 = Append(stk, f)
    OBVIOUS
  <2>2. stack' = stk2 /\ memo[v] = "none"
    BY <1>1, <1>5, <2>1 DEF Call, Calls
  <2>3. f \in FrameType /\ f.fn = "compile" /\ f.v = v
    <3>1. f = [fn |-> "compile", v |-> v, m |-> 1, last |-> 0, saved |-> cur, base |-> 0]
      BY <2>1 DEF Frame
    <3> QED
      BY <1>1, <3>1 DEF FrameType
  <2>4. ReachedOK(stk2)
    BY <2>1, <2>2, <2>3, ReachedPush
  <2>5. PICK n \in Nat : n = Len(acc)
    BY <1>1
  <2>6. FoundOK(stk, n) /\ (f.fn # "compile" => f.base = n) /\ ~(f.fn = "local" /\ Met(f))
    BY <2>3, <2>5
  <2>7. FoundOK(stk2, n)
    BY <2>1, <2>3, <2>6, FoundPush
  <2> QED
    BY <1>3, <2>2, <2>4, <2>5, <2>7
<1> QED
  BY <1>4, <1>5

\* The activation in front ends without a node.
LEMMA FailFinish ==
  ASSUME IInv, stack # << >>, Fail, ReachedOK(stack), FoundOK(stack, Len(acc)), acc' = acc,
         \A a \in 0 .. Len(stack) : a = Len(stack) - 1 /\ Direct(stack, a) => ~Valid
  PROVE  ReachedOK(stack') /\ FailsRightly(stack', ret') /\ FoundOK(stack', Len(acc))
<1>1. PICK stk2, n : stk2 = SubSeq(stack, 1, Len(stack) - 1) /\ n = Len(acc)
  OBVIOUS
<1>2. stack' = stk2 /\ ret' = 0
  BY <1>1 DEF Fail, Pop
<1>3. stack \in Seq(FrameType) /\ Len(stack) > 0
  BY TopIs
<1>4. /\ stk2 \in Seq(FrameType) /\ Extends(stk2, stack) /\ Alike(stack, stk2)
      /\ Len(stack) = Len(stk2) + 1
  BY <1>1, <1>3, PopIs
<1>5. ReachedOK(stk2) /\ \A a \in 0 .. Len(stk2) : Direct(stk2, a) <=> Direct(stack, a)
  BY <1>3, <1>4, DirectAlike
<1>6. FoundOK(stk2, n)
  BY <1>1, <1>4, FoundPop
<1>7. FailsRightly(stk2, 0)
  <2>1. PICK k \in Nat : k = Len(stk2) /\ k \in 0 .. k /\ k \in 0 .. Len(stack) /\ k = Len(stack) - 1
    BY <1>4
  <2> QED
    BY <1>5, <2>1 DEF FailsRightly
<1> QED
  BY <1>1, <1>2, <1>5, <1>6, <1>7

LEMMA TurnFinish ==
  ASSUME IInv, stack # << >>, stack' = Turn(Top.m + 1), ReachedOK(stack), FoundOK(stack, Len(acc)),
         NEW n2 \in Nat, Len(acc) <= n2, NEW g, g = [Top EXCEPT !.m = Top.m + 1],
         g.fn = "local" /\ Met(g) => n2 > g.base, ret' # 0
  PROVE  ReachedOK(stack') /\ FailsRightly(stack', ret') /\ FoundOK(stack', n2)
<1>7. PICK stk2 : stk2 = stack'
  OBVIOUS
<1>1. PICK n \in Nat, m \in Nat : n = Len(acc) /\ m = Top.m + 1
  <2>1. acc \in Seq(Object) /\ Top.m \in Nat
    BY TopIs DEF IInv
  <2> QED
    BY <2>1
<1>2. /\ Alike(stack, stk2) /\ stk2 \in Seq(FrameType) /\ Len(stk2) = Len(stack)
      /\ \A a \in 1 .. Len(stack) : a # Len(stack) => stk2[a] = stack[a]
  BY <1>1, <1>7, TurnAlike
<1>3. stack \in Seq(FrameType) /\ Len(stack) \in 1 .. Len(stack)
  BY TopIs
<1>4. stk2[Len(stack)] = g
  BY <1>3, <1>7 DEF Turn, Top
<1>5. ReachedOK(stk2)
  BY <1>2, <1>3, DirectAlike
<1>6. FoundOK(stk2, n2)
  <2>1. \A a \in 1 .. Len(stack) :
          a = Len(stack) /\ stk2[a].fn = "local" /\ Met(stk2[a]) => n2 > stk2[a].base
    BY <1>4
  <2>2. FoundOK(stack, n) /\ n <= n2
    BY <1>1
  <2> QED
    BY <1>2, <1>3, <2>1, <2>2, FoundTurn
<1> QED
  BY <1>5, <1>6, <1>7 DEF FailsRightly

LEMMA TopReached ==
  ASSUME IInv, stack # << >>, Top.fn = "compile", ReachedOK(stack),
         NEW a \in 0 .. Len(stack), a >= Len(stack) - 1, Direct(stack, a)
  PROVE  Top.v \in Reached /\ Direct(stack, Len(stack))
<1>1. PICK l \in Nat : l = Len(stack) /\ l \in 1 .. l /\ Top = stack[l]
  BY TopIs
<1>2. Direct(stack, l)
  <2>1. \A b \in 1 .. l : b <= a \/ b = l
    BY <1>1
  <2> QED
    BY <1>1, <2>1 DEF Direct
<1> QED
  BY <1>1, <1>2 DEF ReachedOK

LEMMA LoopFinish ==
  ASSUME IInv, LInv, HInv, FInv,
         Subschema \/ Ref \/ Bad \/ Ignored \/ Anchor \/ Dependency \/ Returned \/ Visit
  PROVE  FInv'
<1>1. /\ stack # << >> /\ stack \in Seq(FrameType) /\ UNCHANGED <<doc, lost, missed, acc>>
      /\ Top.v \in Object /\ Top = stack[Len(stack)] /\ Len(stack) \in 1 .. Len(stack)
      /\ DocOK(doc) /\ Idle # 0 /\ acc \in Seq(Object)
  BY TopIs DEF Subschema, Ref, Bad, Ignored, Anchor, Dependency, Returned, Return, Reading,
               Reads, Kept, Visit, Walks, IInv, Idle
<1>2. PICK n \in Nat : n = Len(acc) /\ n = Len(acc')
  BY <1>1
<1>3. SUFFICES ASSUME ~lost, ~missed
               PROVE  ReachedOK(stack') /\ FailsRightly(stack', ret') /\ FoundOK(stack', n)
  BY <1>1, <1>2, FinishNext
<1>4. ReachedOK(stack) /\ FailsRightly(stack, ret) /\ FoundOK(stack, n)
  BY <1>2, <1>3 DEF FInv
<1>5. \A a \in 0 .. Len(stack) : a >= Len(stack) - 1 /\ Top.fn = "compile" /\ Direct(stack, a) =>
        Top.v \in Reached /\ Direct(stack, Len(stack))
  BY <1>1, <1>4, TopReached
<1>6. ASSUME NEW v \in Object, Call(stack, v), Top.fn = "compile" => v \in Edge(Top.v)
      PROVE  ReachedOK(stack') /\ FailsRightly(stack', ret') /\ FoundOK(stack', n)
  <2>1. ASSUME Direct(stack, Len(stack)) PROVE v \in Reached
    <3>1. Top.fn = "compile"
      BY <1>1, <2>1 DEF Direct
    <3>2. Len(stack) \in 0 .. Len(stack) /\ Len(stack) >= Len(stack) - 1
      BY <1>1
    <3> QED
      BY <1>5, <1>6, <2>1, <3>1, <3>2, ReachedIs
  <2> QED
    BY <1>1, <1>2, <1>4, <1>6, <2>1, CallFinish
<1>7. ASSUME Fail, \A a \in 0 .. Len(stack) : a = Len(stack) - 1 /\ Direct(stack, a) => ~Valid
      PROVE  ReachedOK(stack') /\ FailsRightly(stack', ret') /\ FoundOK(stack', n)
  BY <1>1, <1>2, <1>4, <1>7, FailFinish
<1>8. ASSUME stack' = Turn(Top.m + 1), Top.fn = "compile", ret' # 0
      PROVE  ReachedOK(stack') /\ FailsRightly(stack', ret') /\ FoundOK(stack', n)
  <2>1. PICK g : g = [Top EXCEPT !.m = Top.m + 1]
    OBVIOUS
  <2>2. g.fn = Top.fn
    BY <1>1, <2>1, TopIs DEF FrameType
  <2>3. Len(acc) <= n /\ (g.fn = "local" /\ Met(g) => n > g.base)
    BY <1>2, <1>8, <2>2
  <2> QED
    BY <1>1, <1>2, <1>4, <1>8, <2>1, <2>3, TurnFinish
<1>9. CASE Subschema
  <2>1. PICK v \in Object : v = Read /\ Call(stack, v) /\ Reads /\ doc.pos[v] = "sub"
    BY <1>9, ReadIs DEF Subschema
  <2>2. doc.up[v] = Top.v
    <3>1. PICK w \in Object, m \in Nat : w = Top.v /\ m = Top.m /\ m >= 1
      BY <1>1, TopIs
    <3>2. m \in 1 .. Len(Members(w))
      BY <2>1, <3>1, MembersAll DEF Reads
    <3>3. v # 0 /\ v = Members(w)[m]
      BY <2>1, <3>1 DEF Read, Object
    <3> QED
      BY <3>1, <3>2, <3>3, MembersAll
  <2>3. v \in Edge(Top.v)
    BY <2>1, <2>2 DEF Edge
  <2> QED
    BY <1>6, <2>1, <2>3
<1>10. CASE Ref
  <2>1. PICK to \in Resolve(Top.v) : IF to = 0 THEN Fail ELSE Call(stack, to)
    BY <1>10 DEF Ref
  <2>2. PICK w \in Object : /\ w = Top.v /\ doc.use[w].kw = "ref" /\ ret = Idle
                            /\ w = stack[Len(stack)].v /\ stack[Len(stack)].fn = "compile"
    BY <1>1, <1>10 DEF Ref, Reading, Reads
  <2>3. HomeIs(stack, Len(stack) + 1, cur)
    BY <1>1, <1>3, <2>2 DEF HInv
  <2>4. PICK l \in Nat : l = Len(stack)
    BY <1>1
  <2>5. l \in 1 .. l /\ l < l + 1 /\ \A b \in 1 .. l : ~(l < b)
    BY <1>1, <2>4
  <2>6. cur = ResRoot(doc, w)
    BY <2>2, <2>3, <2>4, <2>5 DEF HomeIs
  <2>7. to = doc.use[w].to
    BY <2>1, <2>2, <2>6 DEF Resolve
  <2>8. to \in Object /\ to # 0
    <3>1. to \in Object
      BY <1>1, <2>2, <2>7, ResourceFacts
    <3> QED
      BY <3>1 DEF Object
  <2>9. to \in Edge(Top.v)
    BY <2>2, <2>7 DEF Edge
  <2> QED
    BY <1>6, <2>1, <2>8, <2>9
<1>11. CASE Bad
  <2>1. Fail /\ doc.use[Top.v].kw = "bad" /\ Top.fn = "compile"
    BY <1>11 DEF Bad, Reading, Reads
  <2>2. Top.v \in Reached => ~Valid
    BY <2>1 DEF Valid
  <2>3. \A a \in 0 .. Len(stack) : a = Len(stack) - 1 /\ Direct(stack, a) => ~Valid
    <3>1. \A a \in 0 .. Len(stack) : a = Len(stack) - 1 => a >= Len(stack) - 1
      BY <1>1
    <3> QED
      BY <1>5, <2>1, <2>2, <3>1
  <2> QED
    BY <1>7, <2>1, <2>3
<1>12. CASE Ignored \/ Anchor \/ Dependency
  <2>1. stack' = Turn(Top.m + 1) /\ ret' # 0 /\ Top.fn = "compile"
    BY <1>1, <1>12 DEF Ignored, Anchor, Dependency, Reading, Reads
  <2> QED
    BY <1>8, <2>1
<1>13. CASE Returned /\ ret # 0
  <2>1. stack' = Turn(Top.m + 1) /\ ret' # 0 /\ Top.fn = "compile"
    BY <1>1, <1>13 DEF Returned, Return
  <2> QED
    BY <1>8, <2>1
<1>14. CASE Returned /\ ret = 0
  <2>1. Fail /\ Top.fn = "compile"
    BY <1>14 DEF Returned, Return
  <2>2. Direct(stack, Len(stack)) => ~Valid
    BY <1>4, <1>14 DEF FailsRightly
  <2>3. \A a \in 0 .. Len(stack) : a = Len(stack) - 1 /\ Direct(stack, a) => ~Valid
    <3>1. \A a \in 0 .. Len(stack) : a = Len(stack) - 1 => a >= Len(stack) - 1
      BY <1>1
    <3> QED
      BY <1>5, <2>1, <2>2, <3>1
  <2> QED
    BY <1>7, <2>1, <2>3
<1>15. CASE Visit
  <2>1. Top.fn # "compile" /\ Call(stack, Top.m) /\ Top.m <= Top.last
    BY <1>15 DEF Visit, Walks
  <2>2. Top.m \in Object
    <3>1. Top.m \in Nat /\ Top.m >= 1 /\ Top.last \in Object
      BY <1>1, <2>1, TopIs DEF FrameOK
    <3> QED
      BY <2>1, <3>1, CompileAssumption DEF Object
  <2> QED
    BY <1>6, <2>1, <2>2
<1> QED
  BY <1>9, <1>10, <1>11, <1>12, <1>13, <1>14, <1>15

LEMMA DynamicRefFinish ==
  ASSUME IInv, HInv, FInv, DynamicRef
  PROVE  FInv'
<1>1. PICK f, stk2 : /\ f = Frame("local", Top.v, cur, Final(cur), 0, Len(acc))
                     /\ stk2 = Append(stack, f)
  OBVIOUS
<1>2. /\ stack # << >> /\ stack' = stk2 /\ ret = Idle /\ ret' = Idle /\ Top.fn = "compile"
      /\ UNCHANGED <<doc, lost, missed, acc>>
  BY <1>1 DEF DynamicRef, Reading, Reads, Kept
<1>3. /\ stack \in Seq(FrameType) /\ Top.v \in Object /\ Top = stack[Len(stack)]
      /\ Len(stack) \in 1 .. Len(stack) /\ cur \in Object /\ acc \in Seq(Object) /\ DocOK(doc)
  BY <1>2, TopIs DEF IInv
<1>4. PICK n \in Nat : n = Len(acc) /\ n = Len(acc')
  BY <1>2, <1>3
<1>5. SUFFICES ASSUME ~lost, ~missed
               PROVE  ReachedOK(stk2) /\ FailsRightly(stk2, Idle) /\ FoundOK(stk2, n)
  BY <1>2, <1>4, FinishNext
<1>6. ReachedOK(stack) /\ FoundOK(stack, n) /\ HomeIs(stack, Len(stack) + 1, cur)
  BY <1>2, <1>4, <1>5 DEF FInv, HInv, Idle
<1>7. f \in FrameType /\ f.fn = "local" /\ f.base = n /\ f.v = Top.v /\ f.m = cur
  <2>1. f = [fn |-> "local", v |-> Top.v, m |-> cur, last |-> Final(cur), saved |-> 0,
             base |-> n]
    BY <1>1, <1>4 DEF Frame
  <2>2. Final(cur) \in Object
    BY <1>3, FinalIs
  <2>3. cur \in Nat /\ Final(cur) \in 0 .. Size /\ 0 \in 0 .. Size
    BY <1>3, <2>2, CompileAssumption DEF Object
  <2> QED
    BY <1>3, <2>1, <2>3 DEF FrameType
<1>8. ~Met(f)
  <2>1. PICK l \in Nat : l = Len(stack) /\ l \in 1 .. l /\ l < l + 1 /\ \A b \in 1 .. l : ~(l < b)
    BY <1>3
  <2>2. cur = ResRoot(doc, f.v)
    BY <1>2, <1>3, <1>6, <1>7, <2>1 DEF HomeIs
  <2>3. \A j \in Anchors : ~(cur <= j /\ j < cur)
    BY <1>3 DEF Anchors, Object
  <2> QED
    BY <1>7, <2>2, <2>3 DEF Met
<1>9. ReachedOK(stk2)
  BY <1>1, <1>3, <1>6, <1>7, ReachedPush
<1>10. FoundOK(stk2, n)
  BY <1>1, <1>3, <1>6, <1>7, <1>8, FoundPush
<1> QED
  BY <1>9, <1>10 DEF FailsRightly, Idle

LEMMA LoopEndsFinish ==
  ASSUME IInv, FInv, LoopEnds
  PROVE  FInv'
<1>1. PICK f, stk1, stk2 :
        /\ f = Frame("attach", Top.v, Top.v, Final(Top.v), 0, Len(acc))
        /\ stk1 = SubSeq(stack, 1, Len(stack) - 1) /\ stk2 = Append(stk1, f)
  OBVIOUS
<1>2. /\ stack # << >> /\ stack' = stk2 /\ ret' = Idle
      /\ UNCHANGED <<doc, lost, missed, acc>>
  BY <1>1 DEF LoopEnds, Kept, Pop
<1>3. stack \in Seq(FrameType) /\ Len(stack) > 0 /\ Top.v \in Object /\ acc \in Seq(Object)
      /\ DocOK(doc)
  BY <1>2, TopIs DEF IInv
<1>4. PICK n \in Nat : n = Len(acc) /\ n = Len(acc')
  BY <1>2, <1>3
<1>5. SUFFICES ASSUME ~lost, ~missed
               PROVE  ReachedOK(stk2) /\ FailsRightly(stk2, Idle) /\ FoundOK(stk2, n)
  BY <1>2, <1>4, FinishNext
<1>6. ReachedOK(stack) /\ FoundOK(stack, n)
  BY <1>4, <1>5 DEF FInv
<1>7. f \in FrameType /\ f.fn = "attach" /\ f.base = n
  <2>1. f = [fn |-> "attach", v |-> Top.v, m |-> Top.v, last |-> Final(Top.v), saved |-> 0,
             base |-> n]
    BY <1>1, <1>4 DEF Frame
  <2>2. Final(Top.v) \in Object
    BY <1>3, FinalIs
  <2>3. Top.v \in Nat /\ Final(Top.v) \in 0 .. Size /\ 0 \in 0 .. Size
    BY <1>3, <2>2, CompileAssumption DEF Object
  <2> QED
    BY <1>3, <2>1, <2>3 DEF FrameType
<1>8. stk1 \in Seq(FrameType) /\ Extends(stk1, stack) /\ Alike(stack, stk1)
  BY <1>1, <1>3, PopIs
<1>9. ReachedOK(stk1) /\ FoundOK(stk1, n)
  BY <1>3, <1>6, <1>8, DirectAlike, FoundPop
<1>10. ReachedOK(stk2)
  BY <1>1, <1>7, <1>8, <1>9, ReachedPush
<1>11. FoundOK(stk2, n)
  BY <1>1, <1>7, <1>8, <1>9, FoundPush
<1> QED
  BY <1>10, <1>11 DEF FailsRightly, Idle

\* An anchor that a local walk meets has been read: it is an entry.
LEMMA NoteFinish ==
  ASSUME IInv, LInv, FInv, Note
  PROVE  FInv'
<1>1. /\ stack # << >> /\ Top.fn # "compile" /\ ret # Idle /\ stack' = Turn(Top.m + 1)
      /\ ret' = Idle /\ doc' = doc /\ lost' = (lost \/ ret = 0)
      /\ missed' = (missed \/ ret \in Anchors \ anchored)
      /\ acc' = IF ret \in anchored THEN Append(acc, ret) ELSE acc
  BY DEF Note, Walks
<1>2. /\ acc \in Seq(Object) /\ Top = stack[Len(stack)] /\ Len(stack) \in 1 .. Len(stack)
      /\ Top.base \in 0 .. Len(acc) /\ Top.m \in Nat /\ Top \in FrameType
  BY <1>1, TopIs DEF IInv
<1>3. PICK n \in Nat, n2 \in Nat :
        /\ n = Len(acc) /\ n2 = Len(acc') /\ n <= n2 /\ (ret \in anchored => n2 = n + 1)
  <2>1. CASE ret \in anchored
    <3>1. acc' = Append(acc, ret) /\ Len(acc') = Len(acc) + 1 /\ Len(acc) \in Nat
      BY <1>1, <1>2, <2>1
    <3> QED
      BY <2>1, <3>1
  <2>2. CASE ret \notin anchored
    BY <1>1, <1>2, <2>2
  <2> QED
    BY <2>1, <2>2
<1>4. SUFFICES ASSUME ~lost, ~missed, ret # 0, ~(ret \in Anchors \ anchored)
               PROVE  ReachedOK(stack') /\ FailsRightly(stack', ret') /\ FoundOK(stack', n2)
  <2>1. lost => lost'
    BY <1>1
  <2>2. missed => missed'
    BY <1>1
  <2>3. n2 = Len(acc')
    BY <1>3
  <2> QED
    BY <1>1, <2>1, <2>2, <2>3, FinishNext
<1>5. ReachedOK(stack) /\ FoundOK(stack, Len(acc))
  BY <1>4 DEF FInv
<1>6. ret = Top.m
  <2>1. Returns(ret)
    BY <1>1, <1>4 DEF Returns
  <2> QED
    BY <1>1, <1>2, <2>1 DEF LInv, Visited
<1>7. PICK g : g = [Top EXCEPT !.m = Top.m + 1]
  OBVIOUS
<1>8. g.fn = Top.fn /\ g.base = Top.base /\ g.v = Top.v /\ g.m = Top.m + 1
  BY <1>2, <1>7 DEF FrameType
<1>9. ASSUME g.fn = "local", Met(g) PROVE n2 > g.base
  <2>1. CASE ret \in Anchors
    <3>1. n2 = n + 1 /\ Top.base <= n
      BY <1>2, <1>3, <1>4, <2>1
    <3> QED
      BY <1>2, <1>3, <1>8, <3>1
  <2>2. CASE ret \notin Anchors
    <3>1. PICK j \in Anchors : ResRoot(doc, g.v) <= j /\ j < g.m
      BY <1>9 DEF Met
    <3>2. j \in Nat /\ j # Top.m /\ j < Top.m + 1
      BY <1>6, <1>8, <2>2, <3>1 DEF Anchors, Object
    <3>3. j < Top.m
      BY <1>2, <3>2
    <3>4. Met(Top)
      BY <1>8, <3>1, <3>3 DEF Met
    <3>5. n > Top.base
      BY <1>2, <1>3, <1>5, <1>8, <1>9, <3>4 DEF FoundOK
    <3> QED
      BY <1>2, <1>3, <1>8, <3>5
  <2> QED
    BY <2>1, <2>2
<1>10. ret' # 0
  BY <1>1 DEF Idle
<1> QED
  BY <1>1, <1>3, <1>5, <1>7, <1>9, <1>10, TurnFinish

LEMMA AttachFinish ==
  ASSUME IInv, FInv, Attach
  PROVE  FInv'
<1>1. /\ stack # << >> /\ Top.fn = "attach" /\ stack' = Pop /\ acc' = SubSeq(acc, 1, Top.base)
      /\ ret' = Top.v /\ UNCHANGED <<doc, lost, missed>>
  BY DEF Attach, AttachTo, Walks, Kept
<1>2. PICK stk2 : stk2 = SubSeq(stack, 1, Len(stack) - 1) /\ stack' = stk2
  BY <1>1 DEF Pop
<1>3. /\ acc \in Seq(Object) /\ Top = stack[Len(stack)] /\ stack \in Seq(FrameType)
      /\ Len(stack) > 0 /\ Top.base \in 0 .. Len(acc) /\ Top.v # 0
  BY <1>1, TopIs DEF IInv, Object
<1>4. PICK n \in Nat, n2 \in Nat : n = Len(acc) /\ n2 = Top.base /\ n2 = Len(acc')
  BY <1>1, <1>3
<1>5. SUFFICES ASSUME ~lost, ~missed
               PROVE  ReachedOK(stk2) /\ FailsRightly(stk2, ret') /\ FoundOK(stk2, n2)
  BY <1>1, <1>2, <1>4, FinishNext
<1>6. ReachedOK(stack) /\ FoundOK(stack, n)
  BY <1>4, <1>5 DEF FInv
<1>7. stk2 \in Seq(FrameType) /\ Extends(stk2, stack) /\ Alike(stack, stk2)
  BY <1>2, <1>3, PopIs
<1>8. ReachedOK(stk2)
  BY <1>3, <1>6, <1>7, DirectAlike
<1>9. FoundOK(stk2, n2)
  <2>1. stack[Len(stack)].fn = "attach" /\ n2 = stack[Len(stack)].base
    BY <1>1, <1>3, <1>4
  <2> QED
    BY <1>3, <1>6, <1>7, <2>1, FoundCut
<1> QED
  BY <1>1, <1>3, <1>8, <1>9 DEF FailsRightly

\* An entry has been called; the fallback is where the $dynamicRef leads when
\* the walk met no anchor.
LEMMA LocalFinish ==
  ASSUME IInv, LInv, RInv, FInv, Local
  PROVE  FInv'
<1>1. /\ stack # << >> /\ Top.fn = "local" /\ Top.m > Top.last
      /\ UNCHANGED <<doc, acc, lost, missed>>
  BY LocalCalls
<1>2. PICK stk : stk = SubSeq(stack, 1, Len(stack) - 1) /\ stk = Pop
  BY DEF Pop
<1>3. /\ acc \in Seq(Object) /\ Top.base \in 0 .. Len(acc) /\ Top = stack[Len(stack)]
      /\ Len(stack) \in 1 .. Len(stack) /\ stack \in Seq(FrameType) /\ Len(stack) > 0
  BY <1>1, TopIs DEF IInv
<1>4. PICK n \in Nat : n = Len(acc) /\ n = Len(acc')
  BY <1>1, <1>3
<1>5. SUFFICES ASSUME ~lost, ~missed
               PROVE  ReachedOK(stack') /\ FailsRightly(stack', ret') /\ FoundOK(stack', n)
  BY <1>1, <1>4, FinishNext
<1>6. ReachedOK(stack) /\ FoundOK(stack, n) /\ FoundOK(stack, Len(acc))
  BY <1>4, <1>5 DEF FInv
<1>7. /\ stk \in Seq(FrameType) /\ Extends(stk, stack) /\ Alike(stack, stk)
      /\ Len(stack) = Len(stk) + 1
  BY <1>2, <1>3, PopIs
<1>8. ReachedOK(stk) /\ FoundOK(stk, Len(acc))
  BY <1>3, <1>6, <1>7, DirectAlike, FoundPop
<1>9. PICK l \in Nat : /\ l = Len(stk) /\ Len(stack) = l + 1 /\ stack[l + 1] = Top
                       /\ \A a \in 1 .. l : stack[a] = stk[a] /\ a \in 1 .. l + 1
                       /\ l + 1 \in 1 .. l + 1
  BY <1>3, <1>7 DEF Extends
<1>10. l \in 1 .. l
  <2>1. l + 1 # 1
    BY <1>1, <1>5, <1>9 DEF RInv, ReadingOK
  <2> QED
    BY <2>1
<1>11. PICK w \in Object, r \in Object, e \in Nat :
         /\ w = Top.v /\ r = ResRoot(doc, w) /\ e = Top.m /\ e > Top.last /\ DocOK(doc)
  BY <1>1, TopIs, ResourceFacts DEF IInv
<1>12. stk[l].v = w /\ doc.use[w].kw = "dynref" /\ Top.last = Final(r)
  <2>1. LocalOK(stk[l], Top, Touched(memo))
    BY <1>1, <1>5, <1>9, <1>10 DEF RInv, ReadingOK, Link
  <2> QED
    BY <1>11, <2>1 DEF LocalOK
<1>13. Direct(stk, l) => w \in Reached
  BY <1>8, <1>9, <1>10, <1>12 DEF ReachedOK
<1>14. CASE Fail /\ Anchors = {}
  <2>1. w \in Reached => ~Valid
    BY <1>12, <1>14 DEF Valid
  <2>2. ASSUME NEW a \in 0 .. Len(stack), a = Len(stack) - 1, Direct(stack, a) PROVE ~Valid
    <3>1. a = l /\ l \in 0 .. l
      BY <1>9, <2>2
    <3>2. Direct(stk, l)
      BY <1>3, <1>7, <1>9, <2>2, <3>1, DirectAlike
    <3> QED
      BY <1>13, <2>1, <3>2
  <2> QED
    BY <1>1, <1>4, <1>6, <1>14, <2>2, FailFinish
<1>15. CASE ~(Fail /\ Anchors = {})
  <2>1. PICK v \in Object :
          /\ Call(stk, v)
          /\ \/ Len(acc) > Top.base /\ v = acc[Top.base + 1]
             \/ ~(Len(acc) > Top.base) /\ v \in FirstCollected
    BY <1>2, <1>15, LocalCalls
  <2>2. ASSUME memo[v] = "none", Direct(stk, Len(stk)) PROVE v \in Reached
    <3>1. CASE Len(acc) > Top.base /\ v = acc[Top.base + 1]
      <4>1. PICK b \in Nat : b = Top.base /\ b + 1 \in 1 .. n
        BY <1>3, <1>4, <3>1
      <4>2. v \in anchored /\ anchored \subseteq Touched(memo)
        BY <1>4, <3>1, <4>1 DEF LInv, Noted
      <4> QED
        BY <2>2, <4>2 DEF Touched
    <3>2. CASE ~(Len(acc) > Top.base) /\ v \in FirstCollected
      <4>1. ~Met(Top)
        BY <1>1, <1>3, <1>4, <1>6, <3>2 DEF FoundOK
      <4>2. ASSUME NEW x \in Subtree(r) \cap Anchors PROVE FALSE
        <5>1. x \in Object /\ r <= x /\ x <= Final(r) /\ Final(r) \in Object
          BY <1>11, <4>2, SubtreeFacts
        <5>2. x < e
          BY <1>11, <1>12, <5>1 DEF Object
        <5> QED
          BY <1>11, <4>1, <4>2, <5>1, <5>2 DEF Met
      <4>3. Subtree(r) \cap Anchors = {}
        BY <4>2
      <4>4. v \in Bookend(w)
        BY <1>11, <3>2, <4>3 DEF Bookend
      <4>5. v \in Edge(w) \cap Object
        BY <1>12, <4>4 DEF Edge
      <4> QED
        BY <1>9, <1>13, <2>2, <4>5, ReachedIs
    <3> QED
      BY <2>1, <3>1, <3>2
  <2>3. ReachedOK(stack') /\ FailsRightly(stack', ret') /\ FoundOK(stack', Len(acc))
    BY <1>1, <1>7, <1>8, <2>1, <2>2, CallFinish
  <2> QED
    BY <1>4, <2>3
<1> QED
  BY <1>14, <1>15

LEMMA NextFinish == IInv /\ LInv /\ HInv /\ RInv /\ FInv /\ [Next]_vars => FInv'
<1> SUFFICES ASSUME IInv, LInv, HInv, RInv, FInv, [Next]_vars
             PROVE  FInv'
  OBVIOUS
<1>1. CASE UNCHANGED vars
  <2>1. PICK n : n = Len(acc')
    OBVIOUS
  <2> QED
    BY <1>1, <2>1, FinishNext DEF vars, FInv
<1> QED
  BY <1>1, LoopFinish, DynamicRefFinish, LoopEndsFinish, NoteFinish, AttachFinish, LocalFinish
     DEF Next

LEMMA InitFinish == Init => FInv
<1> SUFFICES ASSUME Init
             PROVE  FInv
  OBVIOUS
<1>1. PICK f : f = Frame("compile", Root, 1, 0, Root, 0) /\ stack = <<f>>
  BY DEF Init, InitWith
<1>2. f.fn = "compile" /\ f.v = Root /\ Root \in Object /\ ret = Idle
  BY <1>1, CompileAssumption DEF Frame, Root, Object, Init, InitWith
<1>3. Len(stack) = 1 /\ stack[1] = f /\ \A a \in 1 .. Len(stack) : a = 1
  BY <1>1
<1>4. ReachedOK(stack)
  BY <1>2, <1>3, ReachedIs DEF ReachedOK
<1>5. FailsRightly(stack, ret) /\ FoundOK(stack, Len(acc))
  BY <1>2, <1>3 DEF FailsRightly, FoundOK, Idle
<1> QED
  BY <1>4, <1>5 DEF FInv

\* What the compilation leaves behind when it has ended with a node is closed
\* under the edges.
LEMMA EndedIsRight == IInv /\ LInv /\ HInv /\ RInv /\ FInv => VerdictUnlessLost
<1> SUFFICES ASSUME IInv, LInv, HInv, RInv, FInv, Ended, ~lost
             PROVE  (ret # 0 => Valid) /\ (ret = 0 /\ ~missed => ~Valid)
  BY DEF VerdictUnlessLost
<1>1. stack = << >> /\ Len(stack) = 0 /\ \A b \in 1 .. Len(stack) : FALSE
  BY DEF Ended
<1>2. ASSUME ret = 0, ~missed PROVE ~Valid
  BY <1>1, <1>2 DEF FInv, FailsRightly, Direct
<1>3. ASSUME ret # 0 PROVE Valid
  <2>1. PICK T : T = Touched(memo)
    OBVIOUS
  <2>2. T \in SUBSET Object /\ Root \in T
    BY <2>1 DEF Touched, LInv, Noted
  <2>3. ASSUME NEW i \in T PROVE Settled(i, T) /\ i \in Object
    <3>1. i \in Object /\ memo[i] # "none" /\ memo[i] # "busy"
      BY <1>1, <1>3, <2>1, <2>3 DEF Touched, HInv, OnStack
    <3>2. memo[i] = "done"
      BY <3>1 DEF IInv
    <3> QED
      BY <2>1, <3>1, <3>2 DEF RInv
  <2>4. \A i \in T : Edge(i) \subseteq T
    BY <2>3 DEF Edge, Settled, KeywordOK
  <2>5. Reached \subseteq T
    BY <2>2, <2>4, ReachedIs
  <2> QED
    BY <2>3, <2>5 DEF Valid, Settled, KeywordOK
<1> QED
  BY <1>2, <1>3

-------------------------------------------------------------------------------
(***************************************************************************)
(* The theorems.                                                           *)
(***************************************************************************)
\* The compiler's memo, its accumulator and its stack agree in every state
\* (memo_put, memo_done, sch_compile_node, build_self_scope).
THEOREM CompileInvariant == Spec => []IInv
<1>1. Init => IInv
  BY InitInv
<1>2. IInv /\ [Next]_vars => IInv'
  BY NextInv
<1> QED
  BY <1>1, <1>2, PTL DEF Spec

\* No activation of sch_compile_node is entered for an object that one below
\* it is compiling or attaching: cycles of $ref end at the memo, in documents
\* of any size and shape.
THEOREM NeverReentered == Spec => []NoReentry
<1>1. IInv => NoReentry
  <2> SUFFICES ASSUME IInv PROVE NoReentry
    OBVIOUS
  <2>1. stack \in Seq(FrameType) /\ acc \in Seq(Object)
    BY DEF IInv, StackOK
  <2>2. DOMAIN stack = 1 .. Len(stack)
    BY <2>1
  <2>3. ASSUME NEW a \in DOMAIN stack
        PROVE  /\ stack[a].fn \in {"compile", "attach", "local"} /\ stack[a].v \in Object
               /\ stack[a].base \in 0 .. Len(acc)
    <3>1. PICK f \in FrameType : f = stack[a]
      BY <2>1, <2>2
    <3>2. f.base <= Len(acc)
      BY <2>2, <3>1 DEF IInv, StackOK
    <3>3. f.fn \in {"compile", "attach", "local"} /\ f.v \in Object /\ f.base \in Nat
      BY DEF FrameType
    <3>4. f.base \in 0 .. Len(acc)
      BY <2>1, <3>2, <3>3
    <3> QED
      BY <3>1, <3>3, <3>4
  <2>4. TypeOK
    BY <2>3 DEF TypeOK, IInv
  <2>5. ASSUME NEW a \in DOMAIN stack, NEW b \in DOMAIN stack,
               stack[a].v = stack[b].v, stack[a].fn # "local", stack[b].fn # "local"
        PROVE  a = b
    BY <2>2, <2>5 DEF IInv, StackOK
  <2> QED
    BY <2>4, <2>5 DEF NoReentry
<1> QED
  BY <1>1, CompileInvariant, PTL

\* A finished node's self scope holds anchors of its own subtree in document
\* order, and all of them if no walk of build_self_scope dropped one
\* (schema.c:895-960).
THEOREM ScopesAreExact == Spec => []ScopeExact
<1>1. IInv /\ LInv /\ SInv => ScopeExact
  BY DEF SInv, ScopesSound, ScopesWhole, ScopeExact, NoDynamicRef, OwnAnchors
<1>2. Init => IInv /\ LInv /\ SInv
  BY InitInv, InitWalks, InitScopes
<1>3. IInv /\ LInv /\ SInv /\ [Next]_vars => (IInv /\ LInv /\ SInv)'
  BY NextInv, NextWalks, NextScopes
<1> QED
  BY <1>1, <1>2, <1>3, PTL DEF Spec

\* sch_compile_node's verdict on the whole document: a schema that was accepted
\* has nothing that applies and is rejected, and if none was dropped by a self
\* scope walk and no walk came too early for an anchor, one that was rejected
\* has; in documents of any size, whatever $ref, $dynamicRef and the memo's
\* early answers make of the order.
THEOREM VerdictIsRight == Spec => []VerdictUnlessLost
<1>1. Init => IInv /\ LInv /\ HInv /\ RInv /\ WInv /\ FInv
  BY InitInv, InitWalks, InitHome, InitReads, InitInside, InitFinish
<1>2. IInv /\ LInv /\ HInv /\ RInv /\ WInv /\ FInv /\ [Next]_vars
      => (IInv /\ LInv /\ HInv /\ RInv /\ WInv /\ FInv)'
  BY NextInv, NextWalks, NextHome, NextReads, NextInside, NextFinish
<1>3. IInv /\ LInv /\ HInv /\ RInv /\ FInv => VerdictUnlessLost
  BY EndedIsRight
<1> QED
  BY <1>1, <1>2, <1>3, PTL DEF Spec
===============================================================================
