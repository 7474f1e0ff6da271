------------------------------ MODULE Channel ------------------------------
(***************************************************************************)
(* What Oscar promises to RPC in one direction of a connection: packets    *)
(* arrive once and in the order they were sent, until the channel breaks.  *)
(***************************************************************************)
EXTENDS Naturals, Sequences

CONSTANT Payloads

VARIABLES sent, delivered, broken

vars == <<sent, delivered, broken>>

Init == sent = <<>> /\ delivered = <<>> /\ broken = FALSE

Send == \E p \in Payloads : sent' = Append(sent, p) /\ UNCHANGED <<delivered, broken>>

Deliver ==
    /\ Len(delivered) < Len(sent)
    /\ delivered' = Append(delivered, sent[Len(delivered) + 1])
    /\ UNCHANGED <<sent, broken>>

Break == broken' = TRUE /\ UNCHANGED <<sent, delivered>>

Next == Send \/ Deliver \/ Break

Spec == Init /\ [][Next]_vars
=============================================================================
