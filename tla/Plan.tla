--------------------------------- MODULE Plan ---------------------------------
(***************************************************************************)
(* plan/plan.c after teptris_plan_build: teptris_plan_walk materialises a  *)
(* document against a plan, accessors and borrowed views read the result   *)
(* by row.  A node of a document is a scalar, an array of nodes or a table *)
(* from names to nodes.                                                    *)
(***************************************************************************)
EXTENDS PlanBuild

CONSTANTS Node,        \* the nodes of the documents
          Height,      \* how many levels there are below each
          MaxHeight    \* bound: on them

VARIABLES view,      \* the result, or the view of it the caller holds
          where      \* the node and the sub-plan the view stands for
planVars == <<buildVars, view, where>>

Scalar == [k |-> "scalar"]
Array(items) == [k |-> "array", items |-> items]
Table(get) == [k |-> "table", get |-> get]
Absent == [k |-> "absent"]
Get(t, name) == IF t.k = "table" /\ name \in DOMAIN t.get THEN t.get[name] ELSE Absent
Children(n) == CASE n.k = "array" -> {n.items[i] : i \in DOMAIN n.items}
                 [] n.k = "table" -> {n.get[name] : name \in DOMAIN n.get}
                 [] OTHER -> {}

\* A document is a finite tree.
ASSUME NodeAssumption ==
  /\ MaxHeight \in Nat /\ Height \in [Node -> 0 .. MaxHeight]
  /\ \A n \in Node : /\ n.k \in {"scalar", "array", "table"}
                     /\ n.k = "array" => n.items \in Seq(Node)
                     /\ \A c \in Children(n) : c \in Node /\ Height[c] < Height[n]

-------------------------------------------------------------------------------
Rnode(kind, src, kids) == [kind |-> kind, src |-> src, kids |-> kids]
Missing == Rnode("MISSING", Absent, << >>)
IsScalar(v) == v.k = "scalar"

\* Mutant: the tables of an array are walked with the plan of their parent.
ItemPlan_Parent(plan, row) == plan

ItemPlan(plan, row) == row.sub

\* walk[v][plan] stands for the call of walk_table.
WalkValue(walk, plan, row, v) ==
  LET Collect(item) == IF IsScalar(item) THEN Rnode("SCALAR", item, << >>) ELSE Missing
      Nest(item) == IF item.k = "table" THEN walk[item][ItemPlan(plan, row)] ELSE Missing
  IN CASE row.kind = "SCALAR" -> Collect(v)
       [] row.kind = "COLLECTION" -> IF v.k # "array" THEN Missing
                                     ELSE Rnode("ARRAY", v, [i \in DOMAIN v.items |-> Collect(v.items[i])])
       [] row.kind = "NESTED" -> CASE v.k = "table" -> walk[v][row.sub]
                                   [] v.k = "array" -> Rnode("ARRAY", v, [i \in DOMAIN v.items |-> Nest(v.items[i])])
                                   [] OTHER -> Missing
       [] row.kind = "RAW" -> Rnode("RAW", v, << >>)
WalkTable(walk, plan, t) ==
  LET Of(row) == IF Get(t, row.name) = Absent THEN Missing ELSE WalkValue(walk, plan, row, Get(t, row.name))
  IN IF t.k # "table" THEN Missing ELSE Rnode("TABLE", t, [i \in DOMAIN spec[plan] |-> Of(spec[plan][i])])
Walked ==
  LET walk[t \in Node] == [plan \in Plans |-> WalkTable(walk, plan, t)]
  IN  walk

-------------------------------------------------------------------------------
\* child_of and the accessors built on it, by row i and element j.
ChildOf(i) == IF view.kind = "TABLE" /\ i \in DOMAIN view.kids THEN view.kids[i] ELSE Missing
KindAt(i) == ChildOf(i).kind
ScalarAt(i) == IF ChildOf(i).kind = "SCALAR" THEN ChildOf(i).src ELSE Absent
RawAt(i) == IF ChildOf(i).kind = "RAW" THEN ChildOf(i).src ELSE Absent
ArrayLenAt(i) == IF ChildOf(i).kind = "ARRAY" THEN Len(ChildOf(i).kids) ELSE 0
ArrayChild(i, j) == IF j \in 1 .. ArrayLenAt(i) THEN ChildOf(i).kids[j] ELSE Missing
ArrayScalarAt(i, j) == IF ArrayChild(i, j).kind = "SCALAR" THEN ArrayChild(i, j).src ELSE Absent

NoView == Rnode("NONE", Absent, << >>)
Nowhere == [node |-> Absent, plan |-> 0]
PlanInit == BuildInit /\ view = NoView /\ where = Nowhere

ListAndBuild == BuildNext /\ UNCHANGED <<view, where>>

\* teptris_plan_walk, from any node.
Walk == /\ built = "yes" /\ view = NoView
        /\ \E n \in Node : view' = Walked[n][0] /\ where' = [node |-> n, plan |-> 0]
        /\ UNCHANGED buildVars

\* teptris_plan_result_row_view.
RowView == /\ view # NoView
           /\ \E i \in DOMAIN view.kids :
                /\ KindAt(i) = "TABLE"
                /\ view' = ChildOf(i)
                /\ where' = [node |-> Get(where.node, spec[where.plan][i].name), plan |-> spec[where.plan][i].sub]
           /\ UNCHANGED buildVars

\* teptris_plan_result_array_entry_at, whatever the entry is.
EntryView == /\ view # NoView
             /\ \E i \in DOMAIN view.kids : \E j \in 1 .. ArrayLenAt(i) :
                  /\ view' = ArrayChild(i, j)
                  /\ where' = [node |-> Get(where.node, spec[where.plan][i].name).items[j],
                               plan |-> spec[where.plan][i].sub]
             /\ UNCHANGED buildVars

PlanNext == ListAndBuild \/ Walk \/ RowView \/ EntryView
PlanSpec == PlanInit /\ [][PlanNext]_planVars

-------------------------------------------------------------------------------
\* What the document holds for row i at the place the view stands for.
RowIsDocument(i) ==
  LET row == spec[where.plan][i]
      v == Get(where.node, row.name)
      listed == v.k = "array" /\ row.kind \in {"COLLECTION", "NESTED"}
  IN IF i \notin DOMAIN spec[where.plan] THEN KindAt(i) = "MISSING"
     ELSE /\ where.node.k = "table"
          /\ ScalarAt(i) = IF row.kind = "SCALAR" /\ IsScalar(v) THEN v ELSE Absent
          /\ RawAt(i) = IF row.kind = "RAW" THEN v ELSE Absent
          /\ KindAt(i) = "TABLE" <=> row.kind = "NESTED" /\ v.k = "table"
          /\ ArrayLenAt(i) = IF listed THEN Len(v.items) ELSE 0
          /\ listed => \A j \in DOMAIN v.items :
               /\ ArrayScalarAt(i, j) = IF row.kind = "COLLECTION" /\ IsScalar(v.items[j])
                                        THEN v.items[j] ELSE Absent
               /\ ArrayChild(i, j).kind = "TABLE" <=> row.kind = "NESTED" /\ v.items[j].k = "table"

\* Through any chain of row views and array entries, a row of the view is
\* what the document holds under the row's name at the place the chain leads
\* to, if it is of the kind the row asks for, and missing otherwise; a view
\* of what is not a table has no rows.
RowsAreDocument == view.kind = "TABLE" => \A i \in 1 .. MaxRows : RowIsDocument(i)
===============================================================================
