----------------------------- MODULE MCEvalFrames -----------------------------
(***************************************************************************)
(* Interchangeable keys that all collide, and small indexes.               *)
(***************************************************************************)
EXTENDS EvalFrames, TLC

SameHash == [k \in Key |-> 3]
Symmetry == Permutations(Key)
===============================================================================
