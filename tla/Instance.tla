------------------------------ MODULE Instance ------------------------------
(***************************************************************************)
(* The registry of services of an instance (main/CInstance): services are  *)
(* created by the first event or call that asks for them, under a mutex of *)
(* their own, and deleted by the destructor.                               *)
(*                                                                         *)
(* Threads call getServiceOrCreate and forwardEvent; a service whose       *)
(* handler of startService runs in the thread that creates it (the         *)
(* listeners of kind Simple: RPC, Oscar, Socket, HTTP) may ask for another *)
(* there, while that thread holds the mutex of the first.  A service is    *)
(* needed by at most one call of a thread at a time because no service     *)
(* needs itself, so a thread's stack of calls is a function of services.   *)
(***************************************************************************)
EXTENDS Naturals, FiniteSets

CONSTANTS
    Services,    \* the services by id
    Threads,     \* threads that send events and ask for services
    Registered,  \* services that a module or a plugin registers
    Needs,       \* the service the handler of startService asks for, or None
    Rank,        \* an order of the services that Needs descends
    None,
    MaxCalls     \* bound: calls of each thread

ASSUME ServicesAssumption ==
    /\ None \notin Services /\ None \notin Threads
    /\ Registered \subseteq Services
    /\ Needs \in [Services -> Services \cup {None}]
    /\ MaxCalls \in Nat

\* No service asks, directly or through others, for itself.
ASSUME RankAssumption ==
    /\ Rank \in [Services -> Nat]
    /\ \A s \in Services : Needs[s] # None => Rank[Needs[s]] < Rank[s]

VARIABLES
    container,   \* [Services -> Nat]: the number of the instance, 0 if there is none
    built,       \* [Services -> Nat]: instances constructed
    alive,       \* instances not deleted, <<service, number>>
    ready,       \* instances that have been sent startService and have handled or queued it
    wired,       \* instances whose handler found the service it needs
    writer,      \* the thread in insert, with services.m_lock for writing
    holder,      \* the thread that holds a mutex of mx_initInProcess
    pc,          \* [Threads -> [Services -> step]]
    result,      \* [Threads -> [Services -> Nat]]: the instance a call has found or built
    call,        \* the service each thread has called for from outside, or None
    calls,       \* history: calls made
    m_terminating,
    destroyer,   \* ~CInstance: "no", "flagged", "deleting", "done"
    doomed       \* the instances it has yet to delete

vars == <<container, built, alive, ready, wired, writer, holder, pc, result, call, calls,
          m_terminating, destroyer, doomed>>
registry == <<container, built, alive, ready, wired>>
dying == <<m_terminating, destroyer, doomed>>

Steps == {"idle", "find", "init", "wait", "look", "recheck", "build", "insert", "inserting",
          "start", "wire", "unlock", "done"}

\* The steps between the locking and the unlocking of the mutex of a service.
Holding == {"look", "recheck", "build", "insert", "inserting", "start", "wire", "unlock"}

Instances == Services \X Nat

TypeOK ==
    /\ container \in [Services -> Nat] /\ built \in [Services -> Nat]
    /\ alive \subseteq Instances /\ ready \subseteq Instances /\ wired \subseteq Instances
    /\ writer \in Threads \cup {None}
    /\ holder \in [Services -> Threads \cup {None}]
    /\ pc \in [Threads -> [Services -> Steps]]
    /\ result \in [Threads -> [Services -> Nat]]
    /\ call \in [Threads -> Services \cup {None}]
    /\ calls \in [Threads -> 0 .. MaxCalls]
    /\ m_terminating \in BOOLEAN
    /\ destroyer \in {"no", "flagged", "deleting", "done"}
    /\ doomed \subseteq Instances

Init ==
    /\ container = [s \in Services |-> 0] /\ built = [s \in Services |-> 0]
    /\ alive = {} /\ ready = {} /\ wired = {}
    /\ writer = None /\ holder = [s \in Services |-> None]
    /\ pc = [t \in Threads |-> [s \in Services |-> "idle"]]
    /\ result = [t \in Threads |-> [s \in Services |-> 0]]
    /\ call = [t \in Threads |-> None] /\ calls = [t \in Threads |-> 0]
    /\ m_terminating = FALSE /\ destroyer = "no" /\ doomed = {}

-----------------------------------------------------------------------------
Goto(t, s, step) == pc' = [pc EXCEPT ![t][s] = step]
Found(t, s, n) == result' = [result EXCEPT ![t][s] = n]

\* What the threads see of the destructor.
SeenTerminating == m_terminating

\* The mutex of a service.
MutexOf(s) == s

\* sendEvent and passEvent forward an event; initServices and the handlers get a service.
Call(t, s) ==
    /\ call[t] = None /\ calls[t] < MaxCalls
    /\ call' = [call EXCEPT ![t] = s]
    /\ calls' = [calls EXCEPT ![t] = @ + 1]
    /\ Goto(t, s, "find")
    /\ UNCHANGED <<registry, writer, holder, result, dying>>

\* The look into the container before initService, under the read lock.
Find(t, s) ==
    /\ pc[t][s] = "find"
    /\ \/ SeenTerminating /\ Found(t, s, 0) /\ Goto(t, s, "done")
       \/ /\ ~SeenTerminating /\ writer = None
          /\ Found(t, s, container[s])
          /\ Goto(t, s, IF container[s] = 0 THEN "init" ELSE "done")
    /\ UNCHANGED <<registry, writer, holder, call, calls, dying>>

Enter(t, s) ==
    /\ pc[t][s] = "init"
    /\ Goto(t, s, IF SeenTerminating THEN "done" ELSE "wait")
    /\ UNCHANGED <<registry, writer, holder, result, call, calls, dying>>

LockHeld(t, s) ==
    /\ pc[t][s] = "wait"
    /\ holder' = [holder EXCEPT ![MutexOf(s)] = t]
    /\ Goto(t, s, "look")
    /\ UNCHANGED <<registry, writer, result, call, calls, dying>>
Lock(t, s) ==
    /\ pc[t][s] = "wait" /\ holder[MutexOf(s)] = None
    /\ holder' = [holder EXCEPT ![MutexOf(s)] = t]
    /\ Goto(t, s, "look")
    /\ UNCHANGED <<registry, writer, result, call, calls, dying>>

\* The second look does not take services.m_lock: while another thread inserts, it may
\* miss what is there.
LookWithoutResult(t, s) ==
    /\ pc[t][s] = "look"
    /\ \E n \in {container[s]} \cup (IF writer = None THEN {} ELSE {0}) :
        Goto(t, s, IF n = 0 THEN "recheck" ELSE "unlock")
    /\ UNCHANGED <<registry, writer, holder, result, call, calls, dying>>
Look(t, s) ==
    /\ pc[t][s] = "look"
    /\ \E n \in {container[s]} \cup (IF writer = None THEN {} ELSE {0}) :
        /\ Found(t, s, n)
        /\ Goto(t, s, IF n = 0 THEN "recheck" ELSE "unlock")
    /\ UNCHANGED <<registry, writer, holder, call, calls, dying>>

\* The constructor is looked up, which throws if nobody registers the service, and the
\* container searched a third time.
Recheck(t, s) ==
    /\ pc[t][s] = "recheck"
    /\ \/ s \notin Registered /\ Goto(t, s, "unlock") /\ UNCHANGED result
       \/ /\ s \in Registered /\ writer = None
          /\ Found(t, s, container[s])
          /\ Goto(t, s, IF container[s] = 0 THEN "build" ELSE "unlock")
    /\ UNCHANGED <<registry, writer, holder, call, calls, dying>>

Build(t, s) ==
    /\ pc[t][s] = "build"
    /\ built' = [built EXCEPT ![s] = @ + 1]
    /\ alive' = alive \cup {<<s, built[s] + 1>>}
    /\ Found(t, s, built[s] + 1)
    /\ Goto(t, s, "insert")
    /\ UNCHANGED <<container, ready, wired, writer, holder, call, calls, dying>>

BeginInsert(t, s) ==
    /\ pc[t][s] = "insert" /\ writer = None
    /\ writer' = t
    /\ Goto(t, s, "inserting")
    /\ UNCHANGED <<registry, holder, result, call, calls, dying>>

\* std::map::insert leaves an element that is there.
InsertUnlocks(t, s) ==
    /\ pc[t][s] = "inserting"
    /\ container' = [container EXCEPT ![s] = IF @ = 0 THEN result[t][s] ELSE @]
    /\ writer' = None
    /\ holder' = [holder EXCEPT ![MutexOf(s)] = None]
    /\ Goto(t, s, "start")
    /\ UNCHANGED <<built, alive, ready, wired, result, call, calls, dying>>
Insert(t, s) ==
    /\ pc[t][s] = "inserting"
    /\ container' = [container EXCEPT ![s] = IF @ = 0 THEN result[t][s] ELSE @]
    /\ writer' = None
    /\ Goto(t, s, "start")
    /\ UNCHANGED <<built, alive, ready, wired, holder, result, call, calls, dying>>

\* startService: queued, or handled here; the handler asks for the service it needs.
Start(t, s) ==
    /\ pc[t][s] = "start"
    /\ \/ /\ Needs[s] = None
          /\ ready' = ready \cup {<<s, result[t][s]>>}
          /\ Goto(t, s, "unlock")
       \/ /\ Needs[s] # None
          /\ pc' = [pc EXCEPT ![t][s] = "wire", ![t][Needs[s]] = "find"]
          /\ UNCHANGED ready
    /\ UNCHANGED <<container, built, alive, wired, writer, holder, result, call, calls, dying>>

\* The handler stores the listener it was given; an exception of getServiceOrCreate or a
\* null is caught or stored as well, and leaves the service without the one it needs.
Wire(t, s) ==
    /\ pc[t][s] = "wire" /\ pc[t][Needs[s]] = "done"
    /\ pc' = [pc EXCEPT ![t][s] = "unlock", ![t][Needs[s]] = "idle"]
    /\ ready' = ready \cup {<<s, result[t][s]>>}
    /\ wired' = IF result[t][Needs[s]] = 0 THEN wired ELSE wired \cup {<<s, result[t][s]>>}
    /\ UNCHANGED <<container, built, alive, writer, holder, result, call, calls, dying>>

KeepLock(t, s) ==
    /\ pc[t][s] = "unlock"
    /\ Goto(t, s, "done")
    /\ UNCHANGED <<registry, writer, holder, result, call, calls, dying>>
Unlock(t, s) ==
    /\ pc[t][s] = "unlock"
    /\ holder' = [holder EXCEPT ![MutexOf(s)] = None]
    /\ Goto(t, s, "done")
    /\ UNCHANGED <<registry, writer, result, call, calls, dying>>

\* The call from outside has its answer: a pointer, which forwardEvent hands the event to, or
\* none, and the event is dropped.
Return(t) ==
    LET s == call[t]
    IN  /\ s # None /\ pc[t][s] = "done"
        /\ call' = [call EXCEPT ![t] = None]
        /\ Goto(t, s, "idle")
        /\ UNCHANGED <<registry, writer, holder, result, calls, dying>>

-----------------------------------------------------------------------------
(* ~CInstance *)

SetTerminating ==
    /\ destroyer = "no"
    /\ m_terminating' = TRUE /\ destroyer' = "flagged"
    /\ UNCHANGED <<registry, writer, holder, pc, result, call, calls, doomed>>

\* deinitServices takes what the container has; what is inserted later it does not see.
TakeAll ==
    /\ destroyer = "flagged" /\ writer = None
    /\ doomed' = {<<s, container[s]>> : s \in {r \in Services : container[r] # 0}}
    /\ container' = [s \in Services |-> 0]
    /\ destroyer' = "deleting"
    /\ UNCHANGED <<built, alive, ready, wired, writer, holder, pc, result, call, calls,
                   m_terminating>>

Delete(i) ==
    /\ destroyer = "deleting" /\ i \in doomed
    /\ alive' = alive \ {i} /\ doomed' = doomed \ {i}
    /\ UNCHANGED <<container, built, ready, wired, writer, holder, pc, result, call, calls,
                   m_terminating, destroyer>>

Finish ==
    /\ destroyer = "deleting" /\ doomed = {}
    /\ destroyer' = "done"
    /\ UNCHANGED <<registry, writer, holder, pc, result, call, calls, m_terminating, doomed>>

-----------------------------------------------------------------------------
ThreadStep(t) ==
    \/ \E s \in Services :
        \/ Find(t, s) \/ Enter(t, s) \/ Lock(t, s) \/ Look(t, s) \/ Recheck(t, s)
        \/ Build(t, s) \/ BeginInsert(t, s) \/ Insert(t, s) \/ Start(t, s) \/ Wire(t, s)
        \/ Unlock(t, s)
    \/ Return(t)

Next ==
    \/ \E t \in Threads, s \in Services : Call(t, s)
    \/ \E t \in Threads : ThreadStep(t)
    \/ SetTerminating
    \/ TakeAll
    \/ \E i \in doomed : Delete(i)
    \/ Finish

Spec == Init /\ [][Next]_vars

\* The threads run.
FairSpec == Spec /\ \A t \in Threads : WF_vars(ThreadStep(t))
-----------------------------------------------------------------------------
(* Properties *)

\* Until the destructor takes the services there is one instance of each at most, however
\* many threads ask for it at once and whatever the look without the lock sees.
OneInstance == \A s \in Services : built[s] > 1 => destroyer \in {"deleting", "done"}

\* A service that events reach before it has had startService (it is in the container first)
\* is in the hands of the thread that creates it, which still holds its mutex.
ReadyOrBeingStarted ==
    \A s \in Services :
        container[s] # 0 => \/ <<s, container[s]>> \in ready
                           \/ \E t \in Threads : holder[MutexOf(s)] = t /\ pc[t][s] \in {"start", "wire"}

\* A service whose handler of startService is through has the service it needs, if that one
\* is registered and the instance was not being destroyed.
StartedIsWired ==
    \A i \in ready : ~m_terminating /\ Needs[i[1]] \in Registered => i \in wired

\* A thread waits for the mutex of a service only while it holds mutexes of services above it.
LocksDescend ==
    \A t \in Threads, s, r \in Services :
        pc[t][s] = "wait" /\ holder[r] = t => Rank[MutexOf(s)] < Rank[r]

\* Every call comes back, whoever else is creating what.
EveryCallReturns == \A t \in Threads : call[t] # None ~> call[t] = None
=============================================================================
