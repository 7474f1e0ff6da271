-------------------------- MODULE MCReferrerClient --------------------------
(* An instance of ReferrerClient for TLC: one referrer that InitClient names   *)
(* and one that is known from an earlier start, which sees the client under    *)
(* another name.                                                               *)
EXTENDS ReferrerClient

CONSTANTS c1, n1

MCSees == [p \in Peers |-> IF p = n1 THEN "other" ELSE "name"]
=============================================================================
