----------------------------- MODULE MCInstance -----------------------------
(***************************************************************************)
(* An instance of Instance for TLC: RPC needs Oscar, Oscar needs the       *)
(* socket service.                                                         *)
(***************************************************************************)
EXTENDS Instance, TLC

CONSTANTS rpc, oscar, socket

MCNeeds == (rpc :> oscar) @@ (oscar :> socket) @@ (socket :> None)
MCRank == (rpc :> 2) @@ (oscar :> 1) @@ (socket :> 0)
=============================================================================
