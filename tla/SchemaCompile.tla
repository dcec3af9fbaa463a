----------------------------- MODULE SchemaCompile -----------------------------
(***************************************************************************)
(* Schema compilation, schema/schema.c: sch_compile_node and what calls it *)
(* back, $ref, $dynamicRef and the self scopes.  The recursion is a stack  *)
(* of activation records; the memo breaks its cycles.                      *)
(*                                                                         *)
(* The schema document is a tree of objects numbered in document order.    *)
(* Each object is a subschema of the one above it ("sub": properties,      *)
(* allOf, ...) or only lies in it ("data": $defs, default, enum, ...); it  *)
(* may have a $id, and one keyword that matters here, read before or after *)
(* the members that hold objects.                                          *)
(***************************************************************************)
EXTENDS Integers, Sequences, FiniteSets

CONSTANTS
  Size,         \* bound: objects of the schema document
  Keyword,      \* bound: the keywords documents are made of
  DepCap0       \* first capacity of a dependency list: 4

ASSUME CompileAssumption ==
  /\ Size \in Nat \ {0} /\ DepCap0 \in Nat \ {0}
  /\ Keyword \subseteq {"none", "bad", "anchor", "dep", "ref", "dynref"}

VARIABLES
  doc,          \* the document
  memo,         \* none | busy (in_progress) | done, for each object
  anchored,     \* objects whose sch_node has its dynamic_anchor
  scope,        \* self_scope of each sch_node
  deps,         \* n_dep_req and the entries allocated, of each sch_node
  depcap,       \* c->cap_dep_req
  cur,          \* c->cur_root
  acc,          \* c->entry_acc[0 .. n_entry_acc - 1]
  stack,        \* activations of sch_compile_node and build_self_scope
  ret,          \* what the last call returned: a node, 0 for NULL, or Idle
  lost,         \* history: build_self_scope dropped a failure
  missed        \* history: it met an anchor's node before its anchor was read

vars == <<doc, memo, anchored, scope, deps, depcap, cur, acc, stack, ret, lost, missed>>

Object == 1 .. Size
Root == 1
Idle == -1

-------------------------------------------------------------------------------
(***************************************************************************)
(* The document.                                                           *)
(***************************************************************************)
\* One keyword: its kind, the object a $ref names, and whether it is read
\* before the members that hold objects.
Use ==
  {[kw |-> "none", to |-> 0, first |-> TRUE]}
  \cup [kw : Keyword \ {"none", "ref"}, to : {0}, first : BOOLEAN]
  \cup [kw : Keyword \cap {"ref"}, to : Object, first : BOOLEAN]

\* i and the objects above it.
Line(up, i) ==
  LET above[n \in Nat] == IF n = 0 THEN {i}
                          ELSE above[n - 1] \cup ({up[j] : j \in above[n - 1]} \ {0})
  IN  above[Size]

\* The objects in S in document order.
InOrder(S) ==
  LET s[n \in 0 .. Size] == IF n = 0 THEN << >>
                            ELSE IF n \in S THEN Append(s[n - 1], n) ELSE s[n - 1]
  IN  s[Size]

\* The resource an object belongs to, as collect_ids records it.
ResRoot(d, i) ==
  LET S == {r \in Line(d.up, i) : d.id[r]}
  IN  CHOOSE r \in S : \A s \in S : s <= r

\* Documents: objects numbered in document order, $refs that point somewhere
\* in the resource they are written in; where a keyword stands matters only
\* among members that hold objects.
IsDocument(d) ==
  /\ d.up[Root] = 0 /\ d.pos[Root] = "sub" /\ d.id[Root]
  /\ \A i \in Object \ {Root} : d.up[i] \in Line(d.up, i - 1)
  /\ \A i \in Object : d.use[i].kw = "ref" => ResRoot(d, i) \in Line(d.up, d.use[i].to)
  /\ \A i \in Object : ~d.use[i].first => \E j \in Object : d.up[j] = i

Subtree(i) == {j \in Object : i \in Line(doc.up, j)}
Final(i) == CHOOSE j \in Subtree(i) : \A k \in Subtree(i) : k <= j

\* The members of an object in the order sch_compile_node reads them: an
\* object's number, 0 for the keyword.
Members(i) ==
  LET kids == InOrder({j \in Object : doc.up[j] = i})
  IN  IF doc.use[i].first THEN <<0>> \o kids ELSE kids \o <<0>>

-------------------------------------------------------------------------------
Frame(fn, v, m, last, saved, base) ==
  [fn |-> fn, v |-> v, m |-> m, last |-> last, saved |-> saved, base |-> base]

\* schema_compile_core has set the current resource and calls sch_compile_node
\* on the root.
InitWith(saved) ==
  /\ \E up \in [Object -> 0 .. Size - 1], pos \in [Object -> {"sub", "data"}],
        id \in [Object -> BOOLEAN] :
       /\ IsDocument([up |-> up, pos |-> pos, id |-> id,
                      use |-> [i \in Object |-> [kw |-> "none", first |-> TRUE]]])
       /\ \E use \in [Object -> Use] :
            /\ doc = [up |-> up, pos |-> pos, id |-> id, use |-> use]
            /\ IsDocument(doc)
  /\ memo = [[i \in Object |-> "none"] EXCEPT ![Root] = "busy"]
  /\ anchored = {} /\ scope = [i \in Object |-> << >>]
  /\ deps = [i \in Object |-> [n |-> 0, room |-> 0]] /\ depcap = 0
  /\ cur = Root /\ acc = << >> /\ ret = Idle /\ lost = FALSE /\ missed = FALSE
  /\ stack = <<Frame("compile", Root, 1, 0, saved, 0)>>

Init == InitWith(Root)

Top == stack[Len(stack)]
Pop == SubSeq(stack, 1, Len(stack) - 1)
Turn(n) == [stack EXCEPT ![Len(stack)].m = n]       \* the top frame moves on

\* A call of sch_compile_node(c, v) with stk as the stack: a memo hit returns
\* at once, whether or not v is finished.
Calls(stk, v, hits) ==
  IF memo[v] \in hits THEN ret' = v /\ stack' = stk /\ UNCHANGED <<memo, cur>>
  ELSE /\ stack' = Append(stk, Frame("compile", v, 1, 0, cur, 0))
       /\ memo' = [memo EXCEPT ![v] = "busy"]
       /\ cur' = ResRoot(doc, v) /\ ret' = Idle

Call_DoneOnly(stk, v) == Calls(stk, v, {"done"})
Call(stk, v) == Calls(stk, v, {"busy", "done"})

\* sfail and return NULL: neither the memo nor the current resource is put
\* back.
Fail == stack' = Pop /\ ret' = 0 /\ UNCHANGED <<memo, cur>>

Reads == stack # << >> /\ Top.fn = "compile" /\ ret = Idle /\ Top.m <= Len(Members(Top.v))
Read == Members(Top.v)[Top.m]
Reading(kw) == Reads /\ Read = 0 /\ doc.use[Top.v].kw = kw
Kept == UNCHANGED <<doc, lost, missed>>

-------------------------------------------------------------------------------
(***************************************************************************)
(* The keyword loop of sch_compile_node.                                   *)
(***************************************************************************)
\* properties, allOf, not, ...: the subschema is compiled.
Subschema ==
  /\ Reads /\ Read # 0 /\ doc.pos[Read] = "sub"
  /\ Call(stack, Read)
  /\ Kept /\ UNCHANGED <<anchored, scope, deps, depcap, acc>>

\* Annotations, containers and unknown keywords are skipped.
Ignored ==
  /\ \/ Reads /\ Read # 0 /\ doc.pos[Read] = "data"
     \/ Reading("none")
  /\ stack' = Turn(Top.m + 1)
  /\ Kept /\ UNCHANGED <<memo, anchored, scope, deps, depcap, cur, acc, ret>>

\* A keyword whose value the compiler rejects.
Bad == /\ Reading("bad") /\ Fail
       /\ Kept /\ UNCHANGED <<anchored, scope, deps, depcap, acc>>

\* $dynamicAnchor.
Anchor ==
  /\ Reading("anchor") /\ anchored' = anchored \cup {Top.v}
  /\ stack' = Turn(Top.m + 1)
  /\ Kept /\ UNCHANGED <<memo, scope, deps, depcap, cur, acc, ret>>

\* sch_compile_dep_req: grow_dep_list, then the entry is stored.
Dependency ==
  /\ Reading("dep")
  /\ LET d == deps[Top.v]
         grown == d.n = depcap
         cap == IF depcap = 0 THEN DepCap0 ELSE 2 * depcap
     IN  /\ depcap' = IF grown THEN cap ELSE depcap
         /\ deps' = [deps EXCEPT ![Top.v] = [n |-> d.n + 1, room |-> IF grown THEN cap ELSE d.room]]
  /\ stack' = Turn(Top.m + 1)
  /\ Kept /\ UNCHANGED <<memo, anchored, scope, cur, acc, ret>>

\* resolve_local: a pointer is read from the current resource's root.  Read
\* from the wrong root it may lead to any object there, or nowhere.
Resolve(v) ==
  IF doc.use[v].to = ResRoot(doc, v) THEN {cur}
  ELSE IF cur = ResRoot(doc, v) THEN {doc.use[v].to}
  ELSE {0} \cup (Subtree(cur) \ {cur})

Ref ==
  /\ Reading("ref")
  /\ \E to \in Resolve(Top.v) : IF to = 0 THEN Fail ELSE Call(stack, to)
  /\ Kept /\ UNCHANGED <<anchored, scope, deps, depcap, acc>>

\* $dynamicRef: resource_local_anchor begins its walk over the resource.
DynamicRef ==
  /\ Reading("dynref")
  /\ stack' = Append(stack, Frame("local", Top.v, cur, Final(cur), 0, Len(acc)))
  /\ Kept /\ UNCHANGED <<memo, anchored, scope, deps, depcap, cur, acc, ret>>

\* A subschema or a reference has been compiled, or failed.
Return(failed, m) ==
  /\ stack # << >> /\ Top.fn = "compile" /\ ret # Idle
  /\ IF failed THEN Fail
     ELSE stack' = Turn(m) /\ ret' = Idle /\ UNCHANGED <<memo, cur>>
  /\ Kept /\ UNCHANGED <<anchored, scope, deps, depcap, acc>>

Returned_Unchecked == Return(FALSE, Top.m + 1)
Returned_Again == Return(ret = 0, Top.m)
Returned == Return(ret = 0, Top.m + 1)

\* The loop ends: the resource is put back and attach_self_scope begins.
LoopEnds ==
  /\ stack # << >> /\ Top.fn = "compile" /\ ret = Idle /\ Top.m > Len(Members(Top.v))
  /\ cur' = Top.saved
  /\ stack' = Append(Pop, Frame("attach", Top.v, Top.v, Final(Top.v), 0, Len(acc)))
  /\ Kept /\ UNCHANGED <<memo, anchored, scope, deps, depcap, acc, ret>>

-------------------------------------------------------------------------------
(***************************************************************************)
(* build_self_scope, for attach_self_scope and resource_local_anchor.      *)
(***************************************************************************)
Walks == stack # << >> /\ Top.fn \in {"attach", "local"}

Visit ==
  /\ Walks /\ ret = Idle /\ Top.m <= Top.last
  /\ Call(stack, Top.m)
  /\ Kept /\ UNCHANGED <<anchored, scope, deps, depcap, acc>>

\* The objects whose schema has a $dynamicAnchor.
Anchors == {i \in Object : doc.use[i].kw = "anchor"}

\* An object that failed is passed over; an unfinished one counts as it is.
Note ==
  /\ Walks /\ ret # Idle
  /\ acc' = IF ret \in anchored THEN Append(acc, ret) ELSE acc
  /\ lost' = (lost \/ ret = 0) /\ missed' = (missed \/ ret \in Anchors \ anchored)
  /\ stack' = Turn(Top.m + 1) /\ ret' = Idle
  /\ UNCHANGED <<doc, memo, anchored, scope, deps, depcap, cur>>

\* attach_self_scope ends; memo_done; sch_compile_node returns its node.
AttachTo(base) ==
  /\ Walks /\ Top.fn = "attach" /\ ret = Idle /\ Top.m > Top.last
  /\ scope' = [scope EXCEPT ![Top.v] = SubSeq(acc, Top.base + 1, Len(acc))]
  /\ acc' = SubSeq(acc, 1, base)
  /\ memo' = [memo EXCEPT ![Top.v] = "done"]
  /\ stack' = Pop /\ ret' = Top.v
  /\ Kept /\ UNCHANGED <<anchored, deps, depcap, cur>>

Attach_Kept == AttachTo(Len(acc))
Attach == AttachTo(Top.base)

\* collect_anchors reads the members of an object in their order: its own
\* anchor comes before or after all those of the objects in it.
CollectedBefore(i, j) ==
  CASE j \in Subtree(i) -> doc.use[i].first
    [] j \notin Subtree(i) /\ i \in Subtree(j) -> ~doc.use[j].first
    [] OTHER -> i < j
\* dyn_anchors[0]: the one anchor collected before all others, if there is any.
FirstCollected == {i \in Anchors : \A j \in Anchors \ {i} : CollectedBefore(i, j)}

\* resource_local_anchor ends: its first entry, which it leaves in the
\* accumulator, else the first $dynamicAnchor of the document.
Local ==
  /\ Walks /\ Top.fn = "local" /\ ret = Idle /\ Top.m > Top.last
  /\ IF Len(acc) > Top.base THEN Call(Pop, acc[Top.base + 1])
     ELSE IF Anchors # {} THEN \E i \in FirstCollected : Call(Pop, i)
     ELSE Fail
  /\ Kept /\ UNCHANGED <<anchored, scope, deps, depcap, acc>>

Next ==
  \/ Subschema \/ Ignored \/ Bad \/ Anchor \/ Dependency \/ Ref \/ DynamicRef
  \/ Returned \/ LoopEnds \/ Visit \/ Note \/ Attach \/ Local

Spec == Init /\ [][Next]_vars /\ WF_vars(Next)

-------------------------------------------------------------------------------
(***************************************************************************)
(* Properties.                                                             *)
(***************************************************************************)
Ended == stack = << >>

\* The state is well formed; the accumulator holds what the walks on the stack
\* have noted.
TypeOK ==
  /\ memo \in [Object -> {"none", "busy", "done"}] /\ anchored \subseteq Object
  /\ scope \in [Object -> Seq(Object)] /\ cur \in Object
  /\ ret \in Object \cup {0, Idle} /\ acc \in Seq(Object)
  /\ \A a \in DOMAIN stack :
       /\ stack[a].fn \in {"compile", "attach", "local"} /\ stack[a].v \in Object
       /\ stack[a].base \in 0 .. Len(acc)

\* No object is compiled while it is being compiled: cycles of references,
\* also the ones the self scopes close, end at the memo.
NoReentry ==
  /\ TypeOK
  /\ \A a, b \in DOMAIN stack :
       stack[a].v = stack[b].v /\ stack[a].fn # "local" /\ stack[b].fn # "local" => a = b

\* Compilation ends, whatever refers to whatever.
Ends == <>Ended

\* Where a $dynamicRef leads at first: to the first anchor in and below the
\* root of its resource, in the order of the objects, else to the first that
\* was collected in the document (schema.c:1128-1138).
Bookend(i) ==
  LET near == Subtree(ResRoot(doc, i)) \cap Anchors
  IN  IF near # {} THEN {j \in near : \A k \in near : j <= k} ELSE FirstCollected

\* The objects the verdict on the document depends on: subschemas and targets
\* of references.
Edge(i) == {j \in Object : doc.up[j] = i /\ doc.pos[j] = "sub"}
           \cup (IF doc.use[i].kw = "ref" THEN {doc.use[i].to} ELSE {})
           \cup (IF doc.use[i].kw = "dynref" THEN Bookend(i) ELSE {})
Reached == {j \in Object : \A S \in SUBSET Object :
              Root \in S /\ (\A i \in S : Edge(i) \subseteq S) => j \in S}
Valid == \A i \in Reached : doc.use[i].kw # "bad" /\ (doc.use[i].kw = "dynref" => Anchors # {})

\* A schema is accepted exactly if nothing that applies is rejected: what lies
\* in annotations and containers is ignored, in whatever order it is written.
Verdict == Ended => (ret # 0 <=> Valid)

\* So it is as long as no self scope walk meets an object it cannot compile;
\* one that met an unfinished anchor may also send a $dynamicRef to another
\* anchor, which need not be valid (schema.c:917).  A $dynamicRef with an
\* anchor to go to is valid, as SCHEMAS.md:86 says and schema.h:43 does not.
VerdictUnlessLost ==
  Ended /\ ~lost => (ret # 0 => Valid) /\ (ret = 0 /\ ~missed => ~Valid)

\* schema.h:43-47: a schema with a $dynamicRef or a $dynamicAnchor is rejected
\* at compile.
RejectsDynamic ==
  Ended /\ (\E i \in Reached : doc.use[i].kw \in {"anchor", "dynref"}) => ret = 0

\* A node's self scope holds anchors of its own subtree in document order,
\* unless a $dynamicRef left entries in the accumulator; if no walk dropped a
\* failure or met an unfinished anchor it holds all of them, those of lazily
\* compiled $defs too.
ScopeExact ==
  \A i \in Object : memo[i] = "done" =>
    LET own == Subtree(i) \cap Anchors
    IN  (\A j \in Object : doc.use[j].kw # "dynref") =>
          /\ \A n \in DOMAIN scope[i] : scope[i][n] \in own
          /\ ~lost /\ ~missed => scope[i] = InOrder(own)

\* An entry is stored only where grow_dep_list has made room for it.
NoStrayWrite == \A i \in Object : deps[i].n <= deps[i].room
===============================================================================
