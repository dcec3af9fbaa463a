---------------------------- MODULE ParseRoundTrip ----------------------------
(***************************************************************************)
(* A parsed document emitted and parsed again: the canonical form.         *)
(***************************************************************************)
EXTENDS Parser

VARIABLES emitted, toks, nodes2, bodies2, pc2, walk2, stack2, st2

vars2 == <<nodes2, bodies2, pc2, walk2, stack2, st2>>
allvars == <<vars, emitted, toks, vars2>>

R == INSTANCE Replay
       WITH nodes <- nodes2, bodies <- bodies2, pc <- pc2, walk <- walk2,
            stack <- stack2, st <- st2, MaxNodes <- 2 * MaxNodes

TripInit == Init /\ emitted = FALSE /\ toks = << >> /\ R!Init

Parse == Next /\ UNCHANGED <<emitted, toks, vars2>>

\* teptris_document_emit on a document that was parsed without an error.
Dump ==
  /\ pc = "done" /\ ~emitted
  /\ emitted' = TRUE /\ toks' = R!Emit(nodes)
  /\ UNCHANGED <<vars, vars2>>

Load == emitted /\ R!Read /\ UNCHANGED <<vars, emitted>>

TripNext == Parse \/ Dump \/ Load

TripSpec == TripInit /\ [][TripNext]_allvars

-------------------------------------------------------------------------------
\* parse(emit(d)) == d, whatever mix of headers, dotted keys, inline tables
\* and arrays of tables the document was written with; and the text breaks no
\* rule on redefinition.
SameDocument ==
  /\ st2 \in {"OK", "DEPTH"}
  /\ pc2 = "done" => R!Denotation(nodes2, Root) = R!Denotation(nodes, Root)

\* The emitted text of every document reads back without an error.
Reparses == st2 = "OK"
===============================================================================
