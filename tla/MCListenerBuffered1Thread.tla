---------------------- MODULE MCListenerBuffered1Thread ----------------------
(***************************************************************************)
(* An instance of the single-threaded listener for TLC: three events, so   *)
(* that two pushes overlap a shut-down while a third is in the handler.    *)
(***************************************************************************)
EXTENDS ListenerBuffered1Thread
=============================================================================
