------------------------------ MODULE MCTimer ------------------------------
(***************************************************************************)
(* Instances of the timer service for TLC.                                 *)
(***************************************************************************)
EXTENDS Timer, TLC

Symmetry == Permutations(Tasks)
=============================================================================
