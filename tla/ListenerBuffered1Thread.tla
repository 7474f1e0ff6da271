---------------------- MODULE ListenerBuffered1Thread ----------------------
(***************************************************************************)
(* The single-threaded listener (corelib/listenerBuffered1Thread.cpp) with *)
(* its event deque (corelib/eventDeque.cpp).                               *)
(*                                                                         *)
(* The constructor starts the one worker.  Senders test m_container and    *)
(* the flag and then push, with no lock around the three, while deinit     *)
(* sets m_container to NULL first and the flag later.  An event stands for *)
(* the one call of listenToEvent that submits it.                          *)
(***************************************************************************)
EXTENDS Naturals, Sequences

CONSTANTS
    Events,   \* the events ever submitted to this listener
    NULL      \* an invalid REF_getter

ASSUME NullAssumption == NULL \notin Events

VARIABLES
    m_container,     \* m_container.valid()
    m_isTerminating,
    deque,           \* EventDeque::container
    dqTerminating,   \* EventDeque::m_isTerminating
    pc,              \* the worker
    current,         \* the event the worker has popped, or NULL
    call,            \* where the listenToEvent call of each event is
    main,            \* the thread that calls deinit
    order,           \* history: the events in the order they were pushed
    handled          \* history: the events in the order their handlers returned

workerVars == <<pc, current, handled>>
callVars   == <<call, order>>
deinitVars == <<m_container, m_isTerminating, dqTerminating, main>>
vars == <<deque, workerVars, callVars, deinitVars>>

Items == Events \cup {NULL}

TypeOK ==
    /\ m_container \in BOOLEAN /\ m_isTerminating \in BOOLEAN /\ dqTerminating \in BOOLEAN
    /\ deque \in Seq(Items)
    /\ pc \in {"fetch", "test", "pop", "towait", "waiting", "popped", "process", "handle", "exit"}
    /\ current \in Items
    /\ pc \in {"process", "handle"} => current \in Events
    /\ call \in [Events -> {"new", "valid", "push", "pushed", "refused", "crashed"}]
    /\ main \in {"run", "clear", "pill", "flag", "dqdeinit", "broadcast", "join", "done"}
    /\ order \in Seq(Events)
    /\ handled \in Seq(Events)

\* The constructor returns with the worker running.
Init ==
    /\ m_container = TRUE /\ m_isTerminating = FALSE /\ dqTerminating = FALSE
    /\ deque = <<>>
    /\ pc = "fetch" /\ current = NULL
    /\ call = [e \in Events |-> "new"]
    /\ main = "run"
    /\ order = <<>> /\ handled = <<>>

-----------------------------------------------------------------------------
(* EventDeque *)

\* The mutex is seen taken only between pop's test and its wait.
MutexFree == pc # "towait"

Woken == IF pc = "waiting" THEN "pop" ELSE pc

-----------------------------------------------------------------------------
(* listenToEvent *)

To(e, from, to) == call[e] = from /\ call' = [call EXCEPT ![e] = to]

TestContainer(e) ==
    /\ To(e, "new", IF m_container THEN "valid" ELSE "refused")
    /\ UNCHANGED <<deque, order, workerVars, deinitVars>>

TestFlag(e) ==
    /\ To(e, "valid", IF m_isTerminating THEN "refused" ELSE "push")
    /\ UNCHANGED <<deque, order, workerVars, deinitVars>>

\* m_container->push(e)
EnqueuedInFront(e) == <<e>> \o deque
Enqueued(e) == Append(deque, e)

Push(e) ==
    /\ m_container
    /\ MutexFree
    /\ To(e, "push", "pushed")
    /\ deque' = Enqueued(e)
    /\ order' = Append(order, e)
    /\ pc' = Woken
    /\ UNCHANGED <<current, handled, deinitVars>>

\* m_container is read again for the push: by now it may be NULL, and the call
\* ends in a null pointer.
PushOnNull(e) ==
    /\ ~m_container
    /\ To(e, "push", "crashed")
    /\ UNCHANGED <<deque, order, workerVars, deinitVars>>

Sender(e) == TestContainer(e) \/ TestFlag(e) \/ Push(e) \/ PushOnNull(e)

-----------------------------------------------------------------------------
(* worker *)

\* dq = m_container
FetchDeque ==
    /\ pc = "fetch"
    /\ pc' = IF m_container THEN "test" ELSE "exit"
    /\ UNCHANGED <<deque, current, handled, callVars, deinitVars>>

TestTerminating ==
    /\ pc = "test"
    /\ pc' = IF m_isTerminating THEN "exit" ELSE "pop"
    /\ UNCHANGED <<deque, current, handled, callVars, deinitVars>>

\* pop's tests of the deque's flag, with and without an event to return.
PopNull ==
    /\ pc = "pop"
    /\ dqTerminating
    /\ pc' = "popped"
    /\ UNCHANGED <<deque, current, handled, callVars, deinitVars>>

Removed == Tail(deque)

PopEvent ==
    /\ pc = "pop"
    /\ ~dqTerminating
    /\ deque # <<>>
    /\ current' = Head(deque)
    /\ deque' = Removed
    /\ pc' = "popped"
    /\ UNCHANGED <<handled, callVars, deinitVars>>

PopEmpty ==
    /\ pc = "pop"
    /\ ~dqTerminating
    /\ deque = <<>>
    /\ pc' = "towait"
    /\ UNCHANGED <<deque, current, handled, callVars, deinitVars>>

Wait ==
    /\ pc = "towait"
    /\ pc' = "waiting"
    /\ UNCHANGED <<deque, current, handled, callVars, deinitVars>>

SpuriousWakeup ==
    /\ pc = "waiting"
    /\ pc' = "pop"
    /\ UNCHANGED <<deque, current, handled, callVars, deinitVars>>

\* Back in the loop: the flag, then NULL, end the thread.
ExitOrProcess == IF m_isTerminating \/ current = NULL THEN "exit" ELSE "process"

TestPopped ==
    /\ pc = "popped"
    /\ pc' = ExitOrProcess
    /\ current' = IF ExitOrProcess = "exit" THEN NULL ELSE current
    /\ UNCHANGED <<deque, handled, callVars, deinitVars>>

\* processEvent tests the flag again before it calls handleEvent.
SecondTest == m_isTerminating

ProcessEvent ==
    /\ pc = "process"
    /\ \/ SecondTest /\ pc' = "fetch" /\ current' = NULL
       \/ ~SecondTest /\ pc' = "handle" /\ UNCHANGED current
    /\ UNCHANGED <<deque, handled, callVars, deinitVars>>

\* handleEvent returns or throws; either way the loop goes on.
FinishEvent ==
    /\ pc = "handle"
    /\ handled' = Append(handled, current)
    /\ current' = NULL
    /\ pc' = "fetch"
    /\ UNCHANGED <<deque, callVars, deinitVars>>

Worker ==
    \/ FetchDeque \/ TestTerminating \/ PopNull \/ PopEvent \/ PopEmpty \/ Wait
    \/ TestPopped \/ ProcessEvent \/ FinishEvent

-----------------------------------------------------------------------------
(* deinit *)

\* cont = m_container; m_container = NULL
DeinitTakeContainer ==
    /\ main = "run"
    /\ m_container' = FALSE
    /\ main' = "clear"
    /\ UNCHANGED <<deque, workerVars, callVars, m_isTerminating, dqTerminating>>

DeinitClear ==
    /\ main = "clear"
    /\ MutexFree
    /\ deque' = <<>>
    /\ pc' = Woken
    /\ main' = "pill"
    /\ UNCHANGED <<current, handled, callVars, m_container, m_isTerminating, dqTerminating>>

PillForgotten == deque
PillPushed == Append(deque, NULL)

DeinitPushNull ==
    /\ main = "pill"
    /\ MutexFree
    /\ deque' = PillPushed
    /\ pc' = Woken
    /\ main' = "flag"
    /\ UNCHANGED <<current, handled, callVars, m_container, m_isTerminating, dqTerminating>>

\* m_isTerminating=true
DeinitSetFlag ==
    /\ main = "flag"
    /\ m_isTerminating' = TRUE
    /\ main' = "dqdeinit"
    /\ UNCHANGED <<deque, workerVars, callVars, m_container, dqTerminating>>

\* EventDeque::deinit takes no mutex.
DeinitDeque ==
    /\ main = "dqdeinit"
    /\ dqTerminating' = TRUE
    /\ pc' = Woken
    /\ main' = "broadcast"
    /\ UNCHANGED <<deque, current, handled, callVars, m_container, m_isTerminating>>

DeinitBroadcast ==
    /\ main = "broadcast"
    /\ pc' = Woken
    /\ main' = "join"
    /\ UNCHANGED <<deque, current, handled, callVars, m_container, m_isTerminating, dqTerminating>>

Joined == pc = "exit"

DeinitJoin ==
    /\ main = "join"
    /\ Joined
    /\ main' = "done"
    /\ UNCHANGED <<deque, workerVars, callVars, m_container, m_isTerminating, dqTerminating>>

Deinit ==
    \/ DeinitClear \/ DeinitPushNull \/ DeinitSetFlag \/ DeinitDeque \/ DeinitBroadcast
    \/ DeinitJoin

-----------------------------------------------------------------------------
Next ==
    \/ \E e \in Events : Sender(e)
    \/ Worker
    \/ SpuriousWakeup
    \/ DeinitTakeContainer
    \/ Deinit

Spec == Init /\ [][Next]_vars

\* The threads run and handlers return, and deinit gets the mutex although the
\* worker may take it again and again.  Senders need not send.
FairSpec ==
    /\ Spec
    /\ WF_vars(Worker) /\ WF_vars(Deinit)
    /\ SF_vars(DeinitClear) /\ SF_vars(DeinitPushNull)

-----------------------------------------------------------------------------
(* Properties *)

InHand == IF current = NULL THEN <<>> ELSE <<current>>

\* Until deinit begins, what was pushed is exactly what was handled, is in the
\* worker's hand or is still queued, in that order: the services built on this
\* listener have no mutexes and rely on seeing their events in order, each once.
HandledInOrder == main = "run" => order = handled \o InHand \o deque

\* Once deinit has returned no handler runs and none will.
QuietAfterDeinit == main = "done" => pc = "exit" /\ current = NULL

\* From the moment the flag is up the worker enters no handler it has not
\* entered, whatever is queued.
NoNewWorkAfterFlag == [][m_isTerminating /\ pc' = "handle" => pc = "handle"]_vars

\* deinit returns wherever the worker is when it is called, the stretch between
\* pop's test and its wait included.
DeinitReturns == main # "run" ~> main = "done"
=============================================================================
