---------------------------- MODULE TimerHelper ----------------------------
(* The alarms of one service, as it uses the timer through corelib/            *)
(* timerHelper.h: by kind and, for some kinds, with an argument.  How long an  *)
(* alarm waits is left open: one that is armed may go off any time.  Timer     *)
(* models what the timer does with the requests; here only what a service can  *)
(* see of it matters, that a tick may overtake a stop.                         *)
EXTENDS Naturals, FiniteSets

CONSTANTS
  None,      \* no argument of an alarm
  MaxLate    \* bound: ticks that wait in the queue after their alarm is stopped

ASSUME MaxLateAssumption == MaxLate \in Nat

VARIABLES
  armed,       \* the alarms of this attempt that the timer holds
  late         \* ticks that were on their way when their alarm was stopped or reset

Alarm(t) == <<t, None>>
AlarmOf(t, x) == <<t, x>>

\* Stop `stopped` and reset `reset`, the timer holding a, the queue ticks l.  An
\* alarm that is stopped or reset may have gone off already; its tick then is
\* late, and handled after the handler that stopped it.
SetAlarms(a, l, stopped, reset) ==
  /\ armed' = (a \ stopped) \cup reset
  /\ \E gone \in SUBSET (a \cap (stopped \cup reset)) :
       /\ Cardinality(l \cup gone) <= MaxLate
       /\ late' = l \cup gone

\* What the timer holds, and what the queue, once the tick of k is taken.
ArmedAfter(k) == IF k \in late THEN armed ELSE armed \ {k}
LateAfter(k) == late \ {k}

\* on_TickAlarm is called with the tick of k.
Ticks(k) == k \in armed \cup late

\* on_TickAlarm has nothing more to do than to take the tick.
TakeTick(k) ==
  /\ armed' = ArmedAfter(k)
  /\ late' = LateAfter(k)
=============================================================================
