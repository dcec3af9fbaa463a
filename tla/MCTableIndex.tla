----------------------------- MODULE MCTableIndex -----------------------------
(***************************************************************************)
(* Six keys that collide, wrap around the end of the index and separate    *)
(* when it doubles.  With a first capacity of 4 the sixth insertion makes  *)
(* the third rebuild; the capacities 16 and 8 of dom.c scale the same way. *)
(***************************************************************************)
EXTENDS TableIndex

MCKey == 1 .. 6
MCKeyHash == <<3, 3, 7, 2, 15, 6>>
===============================================================================
