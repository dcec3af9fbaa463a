----------------------------- MODULE DumpRoundTrip -----------------------------
(***************************************************************************)
(* The dump side and the load side together: a caller drives the builder,  *)
(* the finished document is emitted, and the parser reads the text.        *)
(***************************************************************************)
EXTENDS Builder

CONSTANT FastParts

VARIABLES emitted, toks, pnodes, bodies, pc, walk, pstack, pst

pvars == <<pnodes, bodies, pc, walk, pstack, pst>>
allvars == <<vars, emitted, toks, pvars>>

R == INSTANCE Replay
       WITH nodes <- pnodes, stack <- pstack, st <- pst,
            MaxPath <- MaxNodes, MaxNodes <- 2 * MaxNodes

DumpInit == Init /\ emitted = FALSE /\ toks = << >> /\ R!Init

Build == ~emitted /\ Next /\ UNCHANGED <<emitted, toks, pvars>>

\* teptris_document_emit on the document finish() handed over.
Dump ==
  /\ owner = "caller" /\ ~emitted
  /\ emitted' = TRUE /\ toks' = R!Emit(nodes)
  /\ UNCHANGED <<vars, pvars>>

Load == emitted /\ R!Read /\ UNCHANGED <<vars, emitted>>

DumpNext == Build \/ Dump \/ Load

\* The parse, once called, runs to its end.
DumpSpec == DumpInit /\ [][DumpNext]_allvars /\ WF_allvars(Load)

-------------------------------------------------------------------------------
\* parse(emit(d)) == d: the parser accepts what was built and emitted, nesting
\* and paths at their limits included; a document denotes what was built, unless an
\* allocation failed while it was built; and emit(parse(emit(d))) == emit(d)
\* for every document the builder can finish, also after failed calls.
SameDocument ==
  /\ pst = "OK"
  /\ pc = "done" => /\ ~oom => R!Denotation(pnodes, Root) = R!Denotation(nodes, Root)
                    /\ R!Emit(pnodes) = R!Emit(nodes)

\* Reading the text ends with a document: there is always a rule that accepts
\* the next token.
LoadEnds == emitted ~> pc = "done"
===============================================================================
