------------------------- MODULE ListenerBuffered -------------------------
(***************************************************************************)
(* The multithreaded listener (corelib/listenerBuffered.cpp) together with *)
(* the event deque of each of its threads (corelib/eventDeque.cpp).        *)
(*                                                                         *)
(* A sender calls listenToEvent in its own thread: under the listener's    *)
(* lock it picks the deque of an idle worker; with none idle it takes the  *)
(* lock a second time and either starts a thread or falls back to any      *)
(* existing one; the push happens after the lock is released.  A worker    *)
(* pops, takes itself out of m_container while it handles the event        *)
(* (st_busy) and puts itself back afterwards.  deinit joins the workers    *)
(* that it finds in m_container.                                           *)
(*                                                                         *)
(* An event stands for the one call of listenToEvent that submits it, so   *)
(* any number of senders overlap.  A worker stands for its pthread_t.      *)
(***************************************************************************)
EXTENDS Naturals, Sequences, FiniteSets

CONSTANTS
    Events,      \* the events ever submitted to this listener
    Workers,     \* thread identifiers pthread_create can return
    MaxThreads,  \* "MaxThreadsCount" of the configuration
    NULL         \* an invalid REF_getter

ASSUME MaxThreadsAssumption == MaxThreads \in Nat \ {0}
ASSUME NullAssumption == NULL \notin Events /\ NULL \notin Workers
ASSUME EnoughWorkers == IsFiniteSet(Workers) /\ MaxThreads <= Cardinality(Workers)

VARIABLES
    m_container,        \* workers whose deque is in the map of idle workers
    m_vector,           \* every worker ever started
    deque,              \* EventDeque::container of each worker
    dqTerminating,      \* EventDeque::m_isTerminating of each worker
    pc,                 \* where each worker is
    current,            \* the event a worker has popped, or NULL
    m_isTerminating_lb, \* the listener's own flag
    call,               \* where the listenToEvent call of each event is
    target,             \* __ed: the worker whose deque that call has chosen
    main,               \* where the thread that calls deinit is
    m_evts,             \* deinit's snapshot: the workers it has still to join
    joining,            \* the worker deinit is dealing with, or NULL
    handled,            \* events whose handler has returned
    dropped             \* events whose worker threw before their handler ran

workerVars == <<m_container, deque, dqTerminating, pc, current, handled, dropped>>
deinitVars == <<main, m_evts, joining, m_isTerminating_lb>>
callVars   == <<m_vector, call, target>>
vars == <<workerVars, deinitVars, callVars>>

Items    == Events \cup {NULL}
WorkerPC == {"none", "fetch", "top", "pop", "towait", "waiting", "claim", "handle", "exit"}
CallPC   == {"new", "pick", "grow", "push", "done", "failed"}
MainPC   == {"run", "flagged", "next", "clear", "pill", "dqdeinit", "join", "done"}

TypeOK ==
    /\ m_container \in SUBSET Workers
    /\ m_vector \in SUBSET Workers
    /\ deque \in [Workers -> Seq(Items)]
    /\ dqTerminating \in [Workers -> BOOLEAN]
    /\ pc \in [Workers -> WorkerPC]
    /\ current \in [Workers -> Items]
    /\ \A w \in Workers : pc[w] \in {"claim", "handle"} => current[w] \in Events
    /\ m_isTerminating_lb \in BOOLEAN
    /\ call \in [Events -> CallPC]
    /\ target \in [Events -> Workers \cup {NULL}]
    /\ \A e \in Events : call[e] = "push" => target[e] \in Workers
    /\ main \in MainPC
    /\ m_evts \in SUBSET Workers
    /\ joining \in Workers \cup {NULL}
    /\ handled \in SUBSET Events
    /\ dropped \in SUBSET Events

Init ==
    /\ m_container = {}
    /\ m_vector = {}
    /\ deque = [w \in Workers |-> <<>>]
    /\ dqTerminating = [w \in Workers |-> FALSE]
    /\ pc = [w \in Workers |-> "none"]
    /\ current = [w \in Workers |-> NULL]
    /\ m_isTerminating_lb = FALSE
    /\ call = [e \in Events |-> "new"]
    /\ target = [e \in Events |-> NULL]
    /\ main = "run"
    /\ m_evts = {}
    /\ joining = NULL
    /\ handled = {}
    /\ dropped = {}

-----------------------------------------------------------------------------
(* The deque of worker w.  Its mutex is free unless w sits between the     *)
(* test for an empty container and the wait, which is the only stretch of  *)
(* a critical section that other threads can observe.                      *)

MutexFree(w) == pc[w] # "towait"

\* What a signal or a broadcast of w's condition does to w, the only thread
\* that ever waits on it.
NotWoken(w) == pc
Woken(w) == IF pc[w] = "waiting" THEN [pc EXCEPT ![w] = "pop"] ELSE pc

PushTo(w, x) ==
    /\ MutexFree(w)
    /\ deque' = [deque EXCEPT ![w] = Append(@, x)]
    /\ pc' = Woken(w)

-----------------------------------------------------------------------------
(* listenToEvent *)

\* A sender enters listenToEvent.
Submit(e) ==
    /\ call[e] = "new"
    /\ call' = [call EXCEPT ![e] = "pick"]
    /\ UNCHANGED <<workerVars, deinitVars, m_vector, target>>

\* First critical section: begin() of m_container, the lowest of the idle
\* thread identifiers in an order that is the system's to choose.
PickIdle(e) ==
    /\ call[e] = "pick"
    /\ \/ /\ m_container = {}
          /\ call' = [call EXCEPT ![e] = "grow"]
          /\ UNCHANGED target
       \/ \E w \in m_container :
             /\ target' = [target EXCEPT ![e] = w]
             /\ call' = [call EXCEPT ![e] = "push"]
    /\ UNCHANGED <<workerVars, deinitVars, m_vector>>

OneThreadMore == Cardinality(m_vector) <= MaxThreads
BelowLimit == Cardinality(m_vector) < MaxThreads

\* The worker whose deque the call uses from here on (__ed).
Chosen(w) == w

\* Second critical section, below the limit: start a thread.
StartThread(e) ==
    /\ call[e] = "grow"
    /\ BelowLimit
    /\ \E w \in Workers \ m_vector :
          /\ m_container' = m_container \cup {w}
          /\ m_vector' = m_vector \cup {w}
          /\ pc' = [pc EXCEPT ![w] = "fetch"]
          /\ target' = [target EXCEPT ![e] = Chosen(w)]
    /\ call' = [call EXCEPT ![e] = "push"]
    /\ UNCHANGED <<deque, dqTerminating, current, handled, dropped, deinitVars>>

\* pthread_create fails: the exception leaves listenToEvent without a push.
StartThreadFails(e) ==
    /\ call[e] = "grow"
    /\ BelowLimit
    /\ call' = [call EXCEPT ![e] = "failed"]
    /\ UNCHANGED <<workerVars, deinitVars, m_vector, target>>

\* Second critical section, at the limit: any worker, idle or not.
PickAny(e) ==
    /\ call[e] = "grow"
    /\ ~BelowLimit
    /\ \E w \in m_vector : target' = [target EXCEPT ![e] = w]
    /\ call' = [call EXCEPT ![e] = "push"]
    /\ UNCHANGED <<workerVars, deinitVars, m_vector>>

PushEvent(e) ==
    /\ call[e] = "push"
    /\ PushTo(target[e], e)
    /\ call' = [call EXCEPT ![e] = "done"]
    /\ UNCHANGED <<m_container, dqTerminating, current, handled, dropped,
                   deinitVars, m_vector, target>>

-----------------------------------------------------------------------------
(* worker *)

\* getDeque returns NULL until the worker finds itself in m_container.
FetchDeque(w) ==
    /\ pc[w] = "fetch"
    /\ w \in m_container
    /\ pc' = [pc EXCEPT ![w] = "top"]
    /\ UNCHANGED <<m_container, deque, dqTerminating, current, handled, dropped,
                   deinitVars, callVars>>

ExitOrPop == IF m_isTerminating_lb THEN "exit" ELSE "pop"

TestTerminating(w) ==
    /\ pc[w] = "top"
    /\ pc' = [pc EXCEPT ![w] = ExitOrPop]
    /\ UNCHANGED <<m_container, deque, dqTerminating, current, handled, dropped,
                   deinitVars, callVars>>

\* EventDeque::pop finds its flag set, or pops the NULL that deinit pushes:
\* either way the worker returns.
PopNull(w) ==
    /\ pc[w] = "pop"
    /\ \/ dqTerminating[w] /\ UNCHANGED deque
       \/ /\ ~dqTerminating[w]
          /\ deque[w] # <<>>
          /\ Head(deque[w]) = NULL
          /\ deque' = [deque EXCEPT ![w] = Tail(@)]
    /\ pc' = [pc EXCEPT ![w] = "exit"]
    /\ UNCHANGED <<m_container, dqTerminating, current, handled, dropped,
                   deinitVars, callVars>>

Popped(w) == [deque EXCEPT ![w] = Tail(@)]

PopEvent(w) ==
    /\ pc[w] = "pop"
    /\ ~dqTerminating[w]
    /\ deque[w] # <<>>
    /\ Head(deque[w]) # NULL
    /\ current' = [current EXCEPT ![w] = Head(deque[w])]
    /\ deque' = Popped(w)
    /\ pc' = [pc EXCEPT ![w] = "claim"]
    /\ UNCHANGED <<m_container, dqTerminating, handled, dropped, deinitVars, callVars>>

\* EventDeque::pop has seen an empty container; it still holds the mutex.
PopEmpty(w) ==
    /\ pc[w] = "pop"
    /\ ~dqTerminating[w]
    /\ deque[w] = <<>>
    /\ pc' = [pc EXCEPT ![w] = "towait"]
    /\ UNCHANGED <<m_container, deque, dqTerminating, current, handled, dropped,
                   deinitVars, callVars>>

Wait(w) ==
    /\ pc[w] = "towait"
    /\ pc' = [pc EXCEPT ![w] = "waiting"]
    /\ UNCHANGED <<m_container, deque, dqTerminating, current, handled, dropped,
                   deinitVars, callVars>>

SpuriousWakeup(w) ==
    /\ pc[w] = "waiting"
    /\ pc' = Woken(w)
    /\ UNCHANGED <<m_container, deque, dqTerminating, current, handled, dropped,
                   deinitVars, callVars>>

\* st_busy's constructor takes the worker out of m_container and processEvent
\* calls the handler ...
StillIdle(w) == m_container
TakenOut(w) == m_container \ {w}

ClaimBusy(w) ==
    /\ pc[w] = "claim"
    /\ w \in m_container
    /\ m_container' = TakenOut(w)
    /\ pc' = [pc EXCEPT ![w] = "handle"]
    /\ UNCHANGED <<deque, dqTerminating, current, handled, dropped, deinitVars, callVars>>

\* ... or throws "cannot find element": the event is gone.
ClaimThrows(w) ==
    /\ pc[w] = "claim"
    /\ w \notin m_container
    /\ dropped' = dropped \cup {current[w]}
    /\ current' = [current EXCEPT ![w] = NULL]
    /\ pc' = [pc EXCEPT ![w] = "top"]
    /\ UNCHANGED <<m_container, deque, dqTerminating, handled, deinitVars, callVars>>

\* The handler returns or throws; st_busy's destructor puts the worker back.
NotPutBack(w) == m_container
PutBack(w) == m_container \cup {w}

FinishEvent(w) ==
    /\ pc[w] = "handle"
    /\ handled' = handled \cup {current[w]}
    /\ current' = [current EXCEPT ![w] = NULL]
    /\ m_container' = PutBack(w)
    /\ pc' = [pc EXCEPT ![w] = "top"]
    /\ UNCHANGED <<deque, dqTerminating, dropped, deinitVars, callVars>>

-----------------------------------------------------------------------------
(* deinit *)

DeinitForgetsFlag ==
    /\ main = "run"
    /\ main' = "flagged"
    /\ UNCHANGED <<workerVars, callVars, m_evts, joining, m_isTerminating_lb>>

DeinitSetFlag ==
    /\ main = "run"
    /\ main' = "flagged"
    /\ m_isTerminating_lb' = TRUE
    /\ UNCHANGED <<workerVars, callVars, m_evts, joining>>

DeinitSnapshot ==
    /\ main = "flagged"
    /\ main' = "next"
    /\ m_evts' = m_container
    /\ m_container' = {}
    /\ UNCHANGED <<deque, dqTerminating, pc, current, handled, dropped,
                   callVars, joining, m_isTerminating_lb>>

DeinitNext ==
    /\ main = "next"
    /\ \/ /\ m_evts = {}
          /\ main' = "done"
          /\ UNCHANGED <<joining, m_evts>>
       \/ \E w \in m_evts :
             /\ joining' = w
             /\ m_evts' = m_evts \ {w}
             /\ main' = "clear"
    /\ UNCHANGED <<workerVars, callVars, m_isTerminating_lb>>

DeinitClear ==
    /\ main = "clear"
    /\ MutexFree(joining)
    /\ deque' = [deque EXCEPT ![joining] = <<>>]
    /\ pc' = Woken(joining)
    /\ main' = "pill"
    /\ UNCHANGED <<m_container, dqTerminating, current, handled, dropped,
                   callVars, m_evts, joining, m_isTerminating_lb>>

DeinitWithoutPill ==
    /\ main = "pill"
    /\ main' = "dqdeinit"
    /\ UNCHANGED <<workerVars, callVars, m_evts, joining, m_isTerminating_lb>>

DeinitPushNull ==
    /\ main = "pill"
    /\ PushTo(joining, NULL)
    /\ main' = "dqdeinit"
    /\ UNCHANGED <<m_container, dqTerminating, current, handled, dropped,
                   callVars, m_evts, joining, m_isTerminating_lb>>

\* EventDeque::deinit does not take the mutex.
DeinitDeque ==
    /\ main = "dqdeinit"
    /\ dqTerminating' = [dqTerminating EXCEPT ![joining] = TRUE]
    /\ pc' = Woken(joining)
    /\ main' = "join"
    /\ UNCHANGED <<m_container, deque, current, handled, dropped,
                   callVars, m_evts, joining, m_isTerminating_lb>>

Joined == pc[joining] = "exit"

DeinitJoin ==
    /\ main = "join"
    /\ Joined
    /\ joining' = NULL
    /\ main' = "next"
    /\ UNCHANGED <<workerVars, callVars, m_evts, m_isTerminating_lb>>

-----------------------------------------------------------------------------
Call(e) ==
    \/ PickIdle(e) \/ StartThread(e) \/ StartThreadFails(e) \/ PickAny(e) \/ PushEvent(e)

Worker(w) ==
    \/ FetchDeque(w) \/ TestTerminating(w)
    \/ PopNull(w) \/ PopEvent(w) \/ PopEmpty(w) \/ Wait(w)
    \/ ClaimBusy(w) \/ ClaimThrows(w) \/ FinishEvent(w)

Deinit ==
    \/ DeinitSnapshot \/ DeinitNext \/ DeinitClear
    \/ DeinitPushNull \/ DeinitDeque \/ DeinitJoin

Next ==
    \/ \E e \in Events : Submit(e) \/ Call(e)
    \/ \E w \in Workers : Worker(w) \/ SpuriousWakeup(w)
    \/ DeinitSetFlag \/ Deinit

Spec == Init /\ [][Next]_vars

\* Every thread keeps running and every handler returns; a thread that wants a
\* deque's mutex gets it although the owner keeps taking it (strong fairness).
\* Nobody has to submit an event, call deinit or wake up for no reason.
FairSpec ==
    /\ Spec
    /\ \A e \in Events : WF_vars(Call(e)) /\ SF_vars(PushEvent(e))
    /\ \A w \in Workers : WF_vars(Worker(w))
    /\ WF_vars(Deinit) /\ SF_vars(DeinitClear) /\ SF_vars(DeinitPushNull)

-----------------------------------------------------------------------------
(* Properties *)

\* The places an event can be in once its call has pushed it.
QueuedAt(e) ==
    UNION {{w} \X {i \in DOMAIN deque[w] : deque[w][i] = e} : w \in Workers}
HeldBy(e) == {w \in Workers : current[w] = e}
Settled(e) == (IF e \in handled THEN {"handled"} ELSE {})
              \cup (IF e \in dropped THEN {"dropped"} ELSE {})
Places(e) == Cardinality(QueuedAt(e)) + Cardinality(HeldBy(e)) + Cardinality(Settled(e))

\* Two senders that both found nobody idle test the number of threads again
\* under the second lock, so no race between them exceeds MaxThreadsCount
\* (listenToEvent).
ThreadLimit == Cardinality(m_vector) <= MaxThreads

\* Until deinit empties m_container no event is lost between the push, the pop
\* and st_busy; the events of a busy worker's deque included.
NothingLost ==
    main \in {"run", "flagged"} =>
        \A e \in Events : call[e] = "done" => Places(e) = 1 /\ e \notin dropped

\* Until then the idle map and the threads agree: a worker is missing from
\* m_container exactly while it runs a handler (st_busy).
IdleMapExact ==
    main \in {"run", "flagged"} =>
        \A w \in Workers : w \in m_container <=> w \in m_vector /\ pc[w] # "handle"

\* Once deinit has returned, a worker it did not join can finish the handler it
\* was in or discover the flag, but it no longer takes events from its deque.
QuietAfterDeinit ==
    main = "done" =>
        \A w \in Workers : pc[w] \in {"none", "fetch", "top", "handle", "exit"}

\* While the listener is up every event that has a deque reaches a handler, even
\* the one that was queued behind a worker that was busy at the time.
EventuallyHandled ==
    \A e \in Events : call[e] = "push" ~> (e \in handled \/ main # "run")

\* pthread_join in deinit returns whatever the joined worker was doing: testing
\* the flag, about to wait, waiting, or holding an event.  The one exception is
\* a worker that was still looking for its deque when deinit emptied m_container.
JoinReturns ==
    \A w \in Workers :
        (main = "join" /\ joining = w) ~> (joining # w \/ pc[w] = "fetch")

-----------------------------------------------------------------------------
(* The pool implements the executor with MaxThreads handlers at a time. *)

phase ==
    [e \in Events |->
        CASE call[e] = "failed" -> "refused"
          [] call[e] \in {"new", "pick", "grow", "push"} -> "new"
          [] e \in handled -> "done"
          [] \E w \in Workers : current[w] = e /\ pc[w] = "handle" -> "running"
          [] \E w \in Workers : current[w] = e /\ pc[w] = "claim" -> "accepted"
          [] QueuedAt(e) # {} -> "accepted"
          [] OTHER -> "lost"]

Abs == INSTANCE Executor WITH Limit <- MaxThreads, stopping <- m_isTerminating_lb

\* Every step of the pool is a step of the executor or none.
ImplementsExecutor == Abs!Spec
=============================================================================
