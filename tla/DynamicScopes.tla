---------------------------- MODULE DynamicScopes ----------------------------
(***************************************************************************)
(* schema/validate.c: the recursion of val() over schema objects, with the *)
(* dynamic scope that $dynamicRef is resolved in, the paths in the         *)
(* instance and in the schema that errors report, and the guard on         *)
(* references.                                                             *)
(*                                                                         *)
(* A schema is a tree of objects numbered in document order.  An object is *)
(* applied to a member of the instance, applied in place, or only lies in  *)
(* $defs; it may begin a resource ($id) and carry the $dynamicAnchor, of   *)
(* which there is one name.  The instance is not kept: a member is there   *)
(* or not each time val() looks for it.  The test of vc->depth against     *)
(* MAX_DEPTH (validate.c:863) is left out: path_push keeps depth below 128.*)
(***************************************************************************)
EXTENDS Integers, Sequences, FiniteSets

CONSTANTS Size,        \* bound: objects of a schema
          MaxRefs,     \* bound: objects with a $ref
          MaxDoc,      \* bound: depth of the instance
          PathCap,     \* capacity of segs: 128
          SPathCap,    \* capacity of ssegs: 64
          RefCap       \* MAX_DEPTH: 512
ASSUME ScopeAssumption ==
  {Size, MaxDoc, PathCap, SPathCap, RefCap} \subseteq Nat \ {0} /\ MaxRefs \in Nat

VARIABLES
  schema,       \* the compiled schema
  stack,        \* activations of val()
  scopes,       \* vc->scopes[0 .. n_scopes - 1]
  path,         \* vc->segs[0 .. depth - 1]
  ssegs,        \* vc->ssegs, the segments beyond sdepth included
  sdepth,
  ref_depth,
  cut           \* history: a segment found no room
vars == <<schema, stack, scopes, path, ssegs, sdepth, ref_depth, cut>>

\* The schema path that an error reports.
spath == [i \in 1 .. sdepth |-> ssegs[i]]

Object == 1 .. Size
Root == 1

Least(S) == CHOOSE i \in S : \A j \in S : i <= j
Greatest(S) == CHOOSE i \in S : \A j \in S : j <= i

-------------------------------------------------------------------------------
(***************************************************************************)
(* The schema: parent, use, $id, $dynamicAnchor, $ref and $dynamicRef.     *)
(***************************************************************************)
\* n and the objects it lies in.
Line(up, n) ==
  LET above[i \in Nat] ==
        IF i = 0 THEN {n} ELSE above[i - 1] \cup ({up[j] : j \in above[i - 1]} \ {0})
  IN  above[Size]

\* The objects in S in document order.
InOrder(S) ==
  LET s[n \in 0 .. Size] == IF n = 0 THEN << >>
                            ELSE IF n \in S THEN Append(s[n - 1], n) ELSE s[n - 1]
  IN  s[Size]

Trees == {up \in [Object -> 0 .. Size - 1] :
            \A n \in Object : IF n = Root THEN up[n] = 0
                              ELSE up[n] # 0 /\ up[n] < n /\ up[n] \in Line(up, n - 1)}

References == {ref \in [Object -> 0 .. Size] : Cardinality({n \in Object : ref[n] # 0}) <= MaxRefs}

\* The anchor that collect_anchors may find first: it reads the members of an
\* object in their order, so that the anchors below it may precede its own.
FirstCollected(up, anchor) ==
  IF anchor = {} THEN {0} ELSE {m \in anchor : \A k \in anchor : k < m => k \in Line(up, m)}

\* What compilation leaves of a document: res_id; self_scope, the anchors in
\* and below an object, nested resources included; dynamic_ref_target, the
\* first anchor below the root of the object's resource, else the one that
\* was collected first.
Compiled(d) ==
  LET res == [n \in Object |-> Greatest(Line(d.up, n) \cap d.id)]
      under == [n \in Object |-> {m \in d.anchor : n \in Line(d.up, m)}]
      scope(n) == LET nodes == InOrder(under[n])
                  IN  [i \in 1 .. Len(nodes) |->
                         [node |-> nodes[i], res |-> res[nodes[i]], owner |-> n]]
  IN  [up |-> d.up, use |-> d.use, anchor |-> d.anchor, ref |-> d.ref, dyn |-> d.dyn,
       ref_only |-> d.ref_only, res_id |-> res, self_scope |-> [n \in Object |-> scope(n)],
       dynamic_ref_target |-> [n \in Object |->
                                 IF under[res[n]] # {} THEN Least(under[res[n]]) ELSE d.first]]

\* The calls val() makes for an object, in order.
Task(call, n) == [call |-> call, n |-> n]
Applied(n, use) ==
  LET below == InOrder({m \in Object : schema.up[m] = n /\ schema.use[m] = use})
  IN  [i \in 1 .. Len(below) |-> Task(use, below[i])]
Tasks(n) ==
  LET ref == IF schema.ref[n] # 0 THEN <<Task("ref", schema.ref[n])>> ELSE <<>>
  IN  IF schema.ref_only /\ ref # <<>> THEN ref
      ELSE (IF schema.dyn = n THEN <<Task("dynref", 0)>> ELSE <<>>)
             \o ref \o Applied(n, "member") \o Applied(n, "place")

\* base is n_scopes and saved is sdepth at the call: save_depth of a trial.
Activation(n, call, base, saved) ==
  [n |-> n, call |-> call, base |-> base, saved |-> saved, left |-> FALSE, todo |-> Tasks(n)]

-------------------------------------------------------------------------------
(***************************************************************************)
(* The stacks.                                                             *)
(***************************************************************************)
Top == stack[Len(stack)]
Caller == stack[Len(stack) - 1]

PushSeg(segs, seg, cap) == IF Len(segs) < cap THEN Append(segs, seg) ELSE segs
Front(s) == SubSeq(s, 1, Len(s) - 1)
PopSeg(segs) == IF segs = <<>> THEN segs ELSE Front(segs)

IsRef(call) == call \in {"ref", "dynref"}
NoSeg == << >>
\* What a call writes to the schema path: only properties are named.
Seg(call, n) == IF call = "member" THEN <<call, n>> ELSE <<call>>

\* The entries of a resource; scope_resolve takes the owners outermost
\* first and the first entry of the first resource that has one.
EntriesOf(res) == {j \in DOMAIN scopes : scopes[j].res = res}
Owners == {i \in DOMAIN scopes : EntriesOf(schema.res_id[scopes[i].owner]) # {}}
Resolved(i) == scopes[Least(EntriesOf(schema.res_id[scopes[i].owner]))].node
ScopeResolve_Innermost == IF Owners = {} THEN 0 ELSE Resolved(Greatest(Owners))
ScopeResolve == IF Owners = {} THEN 0 ELSE Resolved(Least(Owners))

Target(n) == LET found == ScopeResolve
             IN  IF found # 0 THEN found ELSE schema.dynamic_ref_target[n]

-------------------------------------------------------------------------------
(***************************************************************************)
(* val().                                                                  *)
(***************************************************************************)
Init ==
  /\ \E up \in Trees, use \in {u \in [Object -> {"member", "place", "defs"}] : u[Root] = "place"},
        ids \in SUBSET (Object \ {Root}), anchor \in SUBSET Object,
        ref \in References, dyn \in 0 .. Size, ref_only \in BOOLEAN :
       /\ dyn # 0 <=> anchor # {}      \* without a $dynamicRef anchors and $id
       /\ dyn = 0 => ids = {}           \* do nothing here; with no target for it
       /\ ref_only => dyn = 0           \* the schema does not compile
       /\ \E first \in FirstCollected(up, anchor) :
            schema = Compiled([up |-> up, use |-> use, id |-> ids \cup {Root}, anchor |-> anchor,
                               first |-> first, ref |-> ref, dyn |-> dyn, ref_only |-> ref_only])
  /\ stack = <<Activation(Root, "root", 0, 0)>>
  /\ scopes = schema.self_scope[Root]
  /\ path = <<>> /\ ssegs = [i \in 1 .. SPathCap |-> NoSeg] /\ sdepth = 0
  /\ ref_depth = 0 /\ cut = FALSE

\* The task is taken from the caller; the callee's anchors enter the scope.
Turned == [stack EXCEPT ![Len(stack)].todo = Tail(@)]

SPush(seg) ==
  IF sdepth >= SPathCap THEN UNCHANGED <<ssegs, sdepth>>
  ELSE ssegs' = [ssegs EXCEPT ![sdepth + 1] = seg] /\ sdepth' = sdepth + 1

Enter(n, call) ==
  /\ stack' = Append(Turned, Activation(n, call, Len(scopes), sdepth))
  /\ scopes' = scopes \o schema.self_scope[n]
  /\ path' = IF call = "member" THEN PushSeg(path, n, PathCap) ELSE path
  /\ IF call = "trial" THEN UNCHANGED <<ssegs, sdepth>> ELSE SPush(Seg(call, n))
  /\ ref_depth' = IF IsRef(call) THEN ref_depth + 1 ELSE ref_depth
  /\ cut' = (cut \/ (call = "member" /\ Len(path) >= PathCap)
                 \/ (call # "trial" /\ sdepth >= SPathCap))
  /\ UNCHANGED schema

Skip == stack' = Turned /\ UNCHANGED <<schema, scopes, path, ssegs, sdepth, ref_depth, cut>>

Ready(call) == stack # <<>> /\ Top.todo # <<>> /\ Head(Top.todo).call = call

\* $dynamicRef and $ref: too deep is an error of the instance.
Reference_Unguarded(call, n) == Ready(call) /\ Enter(n, call)
Reference(call, n) ==
  /\ Ready(call)
  /\ IF ref_depth >= RefCap THEN Skip ELSE Enter(n, call)

DynamicRef == Ready("dynref") /\ \E n \in {Target(Top.n)} : Reference("dynref", n)
Ref == Ready("ref") /\ Reference("ref", Head(Top.todo).n)

\* properties, patternProperties, additionalProperties, items and the rest
\* that go down one level: the member may be missing.
Level == Cardinality({i \in DOMAIN stack : stack[i].call = "member"})
Member ==
  /\ Ready("member")
  /\ \/ Level < MaxDoc /\ Enter(Head(Top.todo).n, "member")
     \/ Skip

\* allOf, then, else and contentSchema, and the trials anyOf, oneOf, not, if
\* and dependentSchemas, which push no segment; the instance may not call for
\* an object.  propertyNames, whose instance is a key, is left out.
InPlace ==
  /\ Ready("place")
  /\ \/ \E call \in {"place", "trial"} : Enter(Head(Top.todo).n, call)
     \/ Skip

\* A trial that failed puts sdepth back, and so do not and if always; after
\* cut that may bring old segments back.
SPopped == IF sdepth > 0 THEN sdepth - 1 ELSE sdepth
SDepthAfter_PopsTrial(call) == IF call = "root" THEN {sdepth} ELSE {SPopped}
SDepthAfter(call) ==
  CASE call = "root" -> {sdepth}
    [] call = "trial" -> {sdepth, Top.saved}
    [] OTHER -> {SPopped}

\* val() puts n_scopes back to where it found it; after a reference the
\* caller puts it back to where the caller found it.
Return ==
  /\ stack # <<>> /\ Top.todo = <<>>
  /\ IF IsRef(Top.call)
     THEN /\ stack' = [Front(stack) EXCEPT ![Len(stack) - 1].left = TRUE]
          /\ scopes' = SubSeq(scopes, 1, Caller.base)
          /\ ref_depth' = ref_depth - 1
     ELSE /\ stack' = Front(stack)
          /\ scopes' = SubSeq(scopes, 1, Top.base)
          /\ UNCHANGED ref_depth
  /\ path' = IF Top.call = "member" THEN PopSeg(path) ELSE path
  /\ sdepth' \in SDepthAfter(Top.call)
  /\ UNCHANGED <<schema, ssegs, cut>>

Next == DynamicRef \/ Ref \/ Member \/ InPlace \/ Return

Spec == Init /\ [][Next]_vars

-------------------------------------------------------------------------------
(***************************************************************************)
(* What SCHEMAS.md:86 says $dynamicRef means: the outermost resource of    *)
(* the evaluation path that defines the anchor, first in document order.   *)
(***************************************************************************)
AnchorsOf(res) == {m \in schema.anchor : schema.res_id[m] = res}
Definers == {i \in DOMAIN stack : AnchorsOf(schema.res_id[stack[i].n]) # {}}
AnchorAt(i) == Least(AnchorsOf(schema.res_id[stack[i].n]))
Promised == IF Definers = {} THEN schema.dynamic_ref_target[Top.n] ELSE AnchorAt(Least(Definers))

\* Every $dynamicRef goes where SCHEMAS.md:86 says.
TargetIsOutermost == Ready("dynref") => Target(Top.n) = Promised

\* Every $dynamicRef goes where the comments at validate.c:875 and
\* schema.c:1102 say: "the innermost scope" entered on the evaluation path.
TargetIsInnermost == Ready("dynref") /\ Definers # {} => Target(Top.n) = AnchorAt(Greatest(Definers))

\* Every activation but the innermost still has its anchors in the scope,
\* and every resource on the path was entered through its root.
ScopeWhole ==
  \A i \in DOMAIN stack :
    /\ ~stack[i].left
    /\ \E j \in 1 .. i : stack[j].n = schema.res_id[stack[i].n]

\* The references in progress are counted right, a scope entry belongs to an
\* open val(), and a $dynamicRef goes to the first anchor of the outermost
\* resource on the evaluation path that has one (scope_resolve,
\* validate.c:453), as long as no open val() has come back from a reference
\* of its own, which drops its entries (validate.c:891, 908), and resources
\* are entered at their root.  The comments at validate.c:447 and 852 and
\* SCHEMAS.md:86 say so; two others name the innermost (TargetIsInnermost).
TargetUnlessLeft ==
  /\ ref_depth = Cardinality({i \in DOMAIN stack : IsRef(stack[i].call)})
  /\ \A i \in DOMAIN scopes : \E k \in DOMAIN stack : stack[k].n = scopes[i].owner
  /\ ScopeWhole => TargetIsOutermost

\* The instance path and the schema path that the open calls stand for.
PathOf(calls) ==
  LET p[i \in 0 .. Len(calls)] ==
        IF i = 0 THEN << >>
        ELSE IF calls[i].call = "member" THEN Append(p[i - 1], calls[i].n) ELSE p[i - 1]
  IN  p[Len(calls)]
SPathOf(calls) ==
  LET p[i \in 0 .. Len(calls)] ==
        IF i = 0 THEN << >>
        ELSE IF calls[i].call \notin {"root", "trial"}
        THEN Append(p[i - 1], Seg(calls[i].call, calls[i].n)) ELSE p[i - 1]
  IN  p[Len(calls)]

\* The instance path and the schema path of an error are those of the open
\* calls of val() until a push finds no room; the arrays never overflow, and
\* even then no error reads a segment that was never written, though a trial
\* raises sdepth (path_push, spush, passes, validate.c:112, 149, 590).
PathUnlessCut ==
  /\ Len(path) <= PathCap /\ sdepth <= SPathCap
  /\ \A i \in 1 .. sdepth : ssegs[i] # NoSeg
  /\ ~cut => path = PathOf(stack) /\ spath = SPathOf(stack)

\* Whatever the references of the schema, cycles that consume no instance
\* included, the C stack holds at most the objects of one line of the schema
\* for each open reference (the guard at validate.c:885, 902); as every call
\* takes a task from its caller, val() comes back.
RecursionBounded == Len(stack) <= (RefCap + 1) * Size
====
