---------------------------- MODULE AlarmPromise ----------------------------
(***************************************************************************)
(* What the timer service promises to its users: a request is armed once,  *)
(* ticks no earlier than its deadline and, if it is an alarm, only once; a *)
(* timer is armed again after each tick.  A request that was stopped or    *)
(* reset may still tick, but a single time.                                *)
(***************************************************************************)
EXTENDS Naturals

CONSTANTS Tasks, Times

VARIABLES
    now,     \* the clock
    armed,   \* requests that owe a tick
    due,     \* their deadlines
    erased,  \* requests that were stopped or reset
    ticks,   \* ticks delivered
    stale    \* ticks delivered after the request was erased

vars == <<now, armed, due, erased, ticks, stale>>

Init ==
    /\ now = 0
    /\ armed = {}
    /\ due = [t \in Tasks |-> 0]
    /\ erased = {}
    /\ ticks = [t \in Tasks |-> 0]
    /\ stale = [t \in Tasks |-> 0]

Arm(t, d) ==
    /\ t \notin armed
    /\ d > now
    /\ armed' = armed \cup {t}
    /\ due' = [due EXCEPT ![t] = d]

\* A new request; a reset erases others in the same step.
Request(t, d) ==
    /\ ticks[t] = 0
    /\ Arm(t, d)
    /\ erased' \in SUBSET (Tasks \ {t})
    /\ erased \subseteq erased'
    /\ UNCHANGED <<now, ticks, stale>>

Cancel ==
    /\ erased' \in SUBSET Tasks
    /\ erased \subseteq erased'
    /\ UNCHANGED <<now, armed, due, ticks, stale>>

Tick(t) ==
    /\ t \in armed
    /\ now >= due[t]
    /\ armed' = armed \ {t}
    /\ ticks' = [ticks EXCEPT ![t] = @ + 1]
    /\ \/ t \notin erased /\ UNCHANGED stale
       \/ t \in erased /\ stale[t] = 0 /\ stale' = [stale EXCEPT ![t] = 1]
    /\ UNCHANGED <<now, due, erased>>

Rearm(t, d) ==
    /\ ticks[t] > 0
    /\ Arm(t, d)
    /\ UNCHANGED <<now, erased, ticks, stale>>

Time == now' = now + 1 /\ UNCHANGED <<armed, due, erased, ticks, stale>>

Next ==
    \/ \E t \in Tasks, d \in Times : Request(t, d) \/ Rearm(t, d)
    \/ \E t \in Tasks : Tick(t)
    \/ Cancel
    \/ Time

Spec == Init /\ [][Next]_vars
=============================================================================
