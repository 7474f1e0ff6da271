------------------------------ MODULE Executor ------------------------------
(***************************************************************************)
(* What every buffered listener promises to the services built on it: an  *)
(* event that has been accepted is handled at most once, no more than      *)
(* Limit handlers run at a time, and until the listener is being stopped   *)
(* no accepted event is given up.                                          *)
(***************************************************************************)
EXTENDS Naturals, FiniteSets

CONSTANTS Events, Limit

VARIABLES
    phase,    \* the life of each event
    stopping  \* deinit has begun

vars == <<phase, stopping>>

Phase == {"new", "refused", "accepted", "running", "done", "lost"}

Running == {e \in Events : phase[e] = "running"}

Init ==
    /\ phase = [e \in Events |-> "new"]
    /\ stopping = FALSE

Move(e, from, to) ==
    /\ phase[e] = from
    /\ phase' = [phase EXCEPT ![e] = to]

Accept(e) == Move(e, "new", "accepted") /\ UNCHANGED stopping

Refuse(e) == Move(e, "new", "refused") /\ UNCHANGED stopping

Start(e) ==
    /\ Cardinality(Running) < Limit
    /\ Move(e, "accepted", "running")
    /\ UNCHANGED stopping

Finish(e) == Move(e, "running", "done") /\ UNCHANGED stopping

Stop == ~stopping /\ stopping' = TRUE /\ UNCHANGED phase

\* Stopping may discard any number of events nobody has begun to handle.
Lose ==
    /\ stopping
    /\ \E S \in SUBSET {e \in Events : phase[e] = "accepted"} :
          phase' = [e \in Events |-> IF e \in S THEN "lost" ELSE phase[e]]
    /\ UNCHANGED stopping

Next ==
    \/ \E e \in Events : Accept(e) \/ Refuse(e) \/ Start(e) \/ Finish(e)
    \/ Stop
    \/ Lose

Spec == Init /\ [][Next]_vars
=============================================================================
