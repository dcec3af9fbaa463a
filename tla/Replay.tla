-------------------------------- MODULE Replay --------------------------------
(***************************************************************************)
(* The parser reading the text of an emitted document: the lines and       *)
(* tokens that Parser leaves to the environment are those of toks.  A key  *)
(* may be emitted bare or quoted, so a table header may go through the     *)
(* fast route or the general one.                                          *)
(***************************************************************************)
EXTENDS Parser, Emitter

VARIABLE toks

Take(tok) == toks # << >> /\ Head(toks).tok = tok /\ toks' = Tail(toks)

ReadLine ==
  \/ Take("header") /\ (HeaderFast(Head(toks).path) \/ Header(Head(toks).path, FALSE))
  \/ Take("aot") /\ Header(Head(toks).path, TRUE)
  \/ Take("key") /\ KeyVal(Head(toks).path)

ReadValue ==
  \/ Take("scalar") /\ Scalar
  \/ Take("[") /\ Open("array", "plain")
  \/ Take("{") /\ Open("table", "inline")

ReadItems ==
  \/ Take("key") /\ Member(Head(toks).path)
  \/ Take("]") /\ Close
  \/ Take("}") /\ Close
  \/ toks # << >> /\ Head(toks).tok # "]" /\ Element /\ UNCHANGED toks

Read ==
  \/ ReadLine \/ ReadValue \/ ReadItems
  \/ Walk /\ UNCHANGED toks
  \/ toks = << >> /\ EndOfInput /\ UNCHANGED toks
===============================================================================
