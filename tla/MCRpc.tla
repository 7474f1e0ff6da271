------------------------------- MODULE MCRpc -------------------------------
(***************************************************************************)
(* Instances of the RPC sessions for TLC.                                  *)
(***************************************************************************)
EXTENDS Rpc, TLC

Symmetry == Permutations(Packets) \cup Permutations(Senders) \cup Permutations(Outgoing)
=============================================================================
