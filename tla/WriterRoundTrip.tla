---------------------------- MODULE WriterRoundTrip ----------------------------
(***************************************************************************)
(* The streaming writer and the parser together: the text teptris_writer   *)
(* hands over is read back.                                                *)
(***************************************************************************)
EXTENDS Writer

CONSTANTS MaxDepth, FastParts

VARIABLES loading, toks, pnodes, bodies, pc, walk, pstack, pst

pvars == <<pnodes, bodies, pc, walk, pstack, pst>>
allvars == <<vars, loading, toks, pvars>>

R == INSTANCE Replay
       WITH nodes <- pnodes, stack <- pstack, st <- pst,
            MaxPath <- MaxNodes, MaxNodes <- 2 * MaxNodes

WriteInit == Init /\ loading = FALSE /\ toks = << >> /\ R!Init

Write == Next /\ UNCHANGED <<loading, toks, pvars>>

\* The lines and tokens Replay reads: what only separates is left to Reading.
Handed == SelectSeq(Text, LAMBDA t : t.tok \notin {",", "nl"})

StartLoad ==
  /\ finished /\ ~loading
  /\ loading' = TRUE /\ toks' = Handed
  /\ IF Reading(Text) = Misread THEN R!Fail("SYNTAX") ELSE UNCHANGED pvars
  /\ UNCHANGED vars

Load == loading /\ R!Read /\ UNCHANGED <<vars, loading>>

WriteNext == Write \/ StartLoad \/ Load

WriteSpec == WriteInit /\ [][WriteNext]_allvars

-------------------------------------------------------------------------------
KeyTwice ==
  \E i, j \in DOMAIN doc :
    i # j /\ doc[i].up = doc[j].up /\ doc[i].up # 0 /\ doc[i].key = doc[j].key /\ doc[i].key # NoKey

\* What the caller's contract leaves to the caller: no key twice in a table,
\* no array of tables without an element (that is W_EMPTY_ARRAY), nothing but
\* tables in an array of tables.
Contract ==
  /\ slips = {} /\ ~lost /\ ~KeyTwice
  /\ \A i \in DOMAIN doc : doc[i].flag = "aot" => \E j \in DOMAIN doc : doc[j].up = i

\* The parser has a rule for every token of the text it reads back.  It finds
\* an error in the grammar only where a value was fed into an array of tables
\* itself (a line without its end), and one in the keys only there, where a
\* key was fed twice to one table, or where a header lost its outermost keys.
\* The text of a caller that keeps to the contract is read back as the
\* document that was described, up to the depth the parser admits.
TextIsDocument ==
  /\ TypeOK
  /\ loading /\ pc \notin {"done", "fail"} => ENABLED Load
  /\ pst \in {"OK", "SYNTAX", "SEMANTIC", "DEPTH"}
  /\ pst = "SYNTAX" => "value in aot" \in slips
  /\ pst = "SEMANTIC" => KeyTwice \/ {"value in aot", "long path"} \cap slips # {}
  /\ Contract /\ pc \in {"done", "fail"} =>
       IF pc = "done" THEN R!Denotation(pnodes, Root) = R!Denotation(doc, Root) ELSE pst = "DEPTH"

\* Invalid TOML is never emitted (teptris.h:217): what teptris_writer_finish
\* hands over keeps the grammar and gives no key twice.
NeverInvalid == pst \notin {"SYNTAX", "SEMANTIC"}
===============================================================================
