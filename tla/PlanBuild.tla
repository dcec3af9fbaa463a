------------------------------- MODULE PlanBuild -------------------------------
(***************************************************************************)
(* teptris_plan_build, plan/plan.c: a plan names the keys of a table that  *)
(* are wanted and what they are wanted as.  It is checked once, when it is *)
(* built: its rows, and how deep its sub-plans nest.                       *)
(*                                                                         *)
(* Sub-plans are numbered from 0, the root.                                *)
(***************************************************************************)
EXTENDS Integers, Sequences
LOCAL INSTANCE SequencesExt

CONSTANTS Name,        \* the keys rows ask for
          PlanCount,   \* spec->plan_count
          MaxRows,     \* bound: rows of all sub-plans
          MaxDepth     \* TEPTRIS_PLAN_MAX_DEPTH
ASSUME PlanAssumption == {PlanCount, MaxRows, MaxDepth} \subseteq Nat \ {0}

VARIABLES spec,      \* the rows of every sub-plan
          cur,       \* the sub-plan whose rows are being listed
          built      \* what teptris_plan_build returned
buildVars == <<spec, cur, built>>

Plans == 0 .. PlanCount - 1
Row == [name : Name, kind : {"SCALAR", "COLLECTION", "RAW"}, sub : {0}]
         \cup [name : Name, kind : {"NESTED"}, sub : 0 .. PlanCount]

-------------------------------------------------------------------------------
\* Mutant: the first parent of a sub-plan decides its depth.
Relaxed_First(d, pi, sub) == IF d[sub] = 0 THEN [d EXCEPT ![sub] = d[pi] + 1] ELSE d

Relaxed(d, pi, sub) == IF d[sub] <= d[pi] + 1 THEN [d EXCEPT ![sub] = d[pi] + 1] ELSE d

\* The rows of sub-plan pi in order, and so the sub-plans: one ascending pass.
RelaxedBy(rows, d, pi) ==
  LET e[n \in 0 .. Len(rows)] ==
        IF n = 0 THEN d
        ELSE IF rows[n].kind = "NESTED" THEN Relaxed(e[n - 1], pi, rows[n].sub)
        ELSE e[n - 1]
  IN  e[Len(rows)]
Depths(plan) ==
  LET d[n \in 0 .. PlanCount] == IF n = 0 THEN [p \in Plans |-> 0]
                                 ELSE RelaxedBy(plan[n - 1], d[n - 1], n - 1)
  IN  d[PlanCount]

\* A row the loop over the rows refuses: its sub-plan does not exist.
BadRow == \E p \in Plans : \E i \in DOMAIN spec[p] :
            spec[p][i].kind = "NESTED" /\ spec[p][i].sub >= PlanCount

TooDeep == \E p \in Plans : Depths(spec)[p] > MaxDepth

-------------------------------------------------------------------------------
BuildInit == spec = [p \in Plans |-> << >>] /\ cur = 0 /\ built = "no"

RowTotal == FoldLeft(LAMBDA n, rows : n + Len(rows), 0, [i \in 1 .. PlanCount |-> spec[i - 1]])

\* The caller lists the rows, sub-plan by sub-plan.
AddRow == /\ built = "no" /\ RowTotal < MaxRows
          /\ \E r \in Row : spec' = [spec EXCEPT ![cur] = Append(@, r)]
          /\ UNCHANGED <<cur, built>>
NextPlan == built = "no" /\ cur < PlanCount - 1 /\ cur' = cur + 1 /\ UNCHANGED <<spec, built>>

\* teptris_plan_build.
Build == /\ built = "no" /\ cur = PlanCount - 1
         /\ built' = IF BadRow \/ TooDeep THEN "refused" ELSE "yes"
         /\ UNCHANGED <<spec, cur>>

BuildNext == AddRow \/ NextPlan \/ Build
BuildSpec == BuildInit /\ [][BuildNext]_buildVars

-------------------------------------------------------------------------------
Refers(p, q) == \E i \in DOMAIN spec[p] : spec[p][i].kind = "NESTED" /\ spec[p][i].sub = q
Forward == \A p \in Plans, q \in Plans : Refers(p, q) => p < q

\* When every reference points to a later sub-plan, as the comment in
\* teptris_plan_build supposes, the one pass of its depth gate refuses exactly
\* the plans with a chain of more than MaxDepth references, besides those that
\* name a sub-plan that does not exist.
GateIsDepth ==
  built # "no" /\ Forward =>
    (built = "refused" <=>
       \/ \E p \in Plans : Refers(p, PlanCount)
       \/ \E c \in [0 .. MaxDepth + 1 -> Plans] : \A i \in 0 .. MaxDepth : Refers(c[i], c[i + 1]))
===============================================================================
