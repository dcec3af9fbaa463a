------------------------------- MODULE MCParser -------------------------------
(***************************************************************************)
(* Two interchangeable keys.                                               *)
(***************************************************************************)
EXTENDS ParseRoundTrip, TLC

Symmetry == Permutations(Key)
===============================================================================
