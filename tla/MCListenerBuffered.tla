------------------------ MODULE MCListenerBuffered ------------------------
(***************************************************************************)
(* Instances of the multithreaded listener for TLC.                        *)
(***************************************************************************)
EXTENDS ListenerBuffered, TLC

Symmetry == Permutations(Events) \cup Permutations(Workers)
=============================================================================
