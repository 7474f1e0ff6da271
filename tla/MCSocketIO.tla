----------------------------- MODULE MCSocketIO -----------------------------
(***************************************************************************)
(* An instance of the socket service for TLC: a connector with one poller, *)
(* or an accepted socket with two, so that it may be accepted by one and   *)
(* served by the other.                                                    *)
(***************************************************************************)
EXTENDS SocketIO

\* The poller that accepts, and the only one a connector needs.
First == CHOOSE p \in Pollers : TRUE

MCInit ==
    /\ Init
    /\ server = First
    /\ \A p \in Pollers \ {First} : poller[p] = IF Connectors # {} THEN NotStarted ELSE Idle
    /\ listening = IF Connectors # {} THEN "failed" ELSE "none"

MCSpec == MCInit /\ [][Next]_vars /\ Fairness
=============================================================================
