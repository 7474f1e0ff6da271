------------------------------- MODULE Timer -------------------------------
(***************************************************************************)
(* The timer service (modules/timer).                                      *)
(*                                                                         *)
(* The handlers run one at a time on the service's listener thread; the    *)
(* worker thread sleeps until the earliest deadline of mx_nexts, takes the *)
(* whole batch that is due and ticks it outside any lock.  A task is known *)
(* under its search key in `timers', which is how StopTimer, StopAlarm and *)
(* ResetAlarm find it; they never touch mx_nexts, they only mark the task  *)
(* erased.  deinit runs on a third thread.                                 *)
(*                                                                         *)
(* A search key stands for (id, type, destination, data); a task for the   *)
(* object one request allocates.  The clock counts the microseconds of     *)
(* getNow in units of one.                                                 *)
(***************************************************************************)
EXTENDS Naturals, Sequences, FiniteSets

CONSTANTS
    Tasks,        \* the task objects ever allocated: bounds the requests
    AlarmKeys,    \* search keys with type TYPE_ALARM
    TimerKeys,    \* search keys with type TYPE_TIMER
    Delays,       \* delay_secs of the requests, in clock units
    LastRequest,  \* bound: no request arrives after this time
    Horizon,      \* bound: the clock stops here
    MaxThrows,    \* bound on the calls of passEvent that throw
    None          \* no task, no request

Keys == AlarmKeys \cup TimerKeys

ASSUME DelaysAssumption == Delays \subseteq Nat \ {0} /\ Delays # {}
ASSUME BoundsAssumption == LastRequest \in Nat /\ Horizon \in Nat /\ MaxThrows \in Nat
ASSUME KeysAssumption == AlarmKeys \cap TimerKeys = {}

Request == [key : Keys, period : Delays]

ASSUME NoneAssumption == None \notin Tasks \cup Request

\* Every deadline now + delay_secs a request or a re-armed timer can get.
Times == {t + d : t \in 0 .. Horizon, d \in Delays}

VARIABLES
    now,             \* getNow()
    request,         \* key and period of every task allocated so far
    timers,          \* _all::timers
    mx_nexts,        \* _nexts::mx_nexts, absent entries as <<>>
    erased,          \* tasks whose erased member is set
    due,             \* the deadline computed last for each task (tb)
    hpc, htask,      \* the handler on the listener thread: place and task
    wpc,             \* the worker thread
    ts,              \* the time its timedwait ends at
    batch,           \* itSecondCopy from index i on
    m_isTerminating,
    dpc,             \* the thread that calls deinit
    ticks,           \* ticks passed to each task's destination
    stale,           \* those of them passed after the task was erased
    throws           \* calls of passEvent that threw

dataVars    == <<request, due, timers, mx_nexts, erased>>
handlerVars == <<hpc, htask>>
workerVars  == <<wpc, ts, batch>>
deinitVars  == <<m_isTerminating, dpc>>
historyVars == <<ticks, stale, throws>>
vars == <<now, dataVars, handlerVars, workerVars, deinitVars, historyVars>>

TypeOK ==
    /\ now \in 0 .. Horizon
    /\ request \in [Tasks -> Request \cup {None}]
    /\ due \in [Tasks -> Times \cup {0}]
    /\ timers \in [Keys -> SUBSET Tasks]
    /\ mx_nexts \in [Times -> Seq(Tasks)]
    /\ erased \in SUBSET Tasks
    /\ hpc \in {"idle", "schedule", "signal"}
    /\ htask \in Tasks \cup {None}
    /\ hpc = "schedule" => htask \in Tasks /\ due[htask] \in Times
    /\ wpc \in {"none", "outer", "outertowait", "outerwait", "inner", "towait",
                "timedwait", "batch", "tick", "ticked", "exit"}
    /\ ts \in Times \cup {0}
    /\ batch \in Seq(Tasks)
    /\ m_isTerminating \in BOOLEAN
    /\ dpc \in {"run", "clearnexts", "clearall", "broadcast", "join", "done"}
    /\ ticks \in [Tasks -> Nat]
    /\ stale \in [Tasks -> Nat]
    /\ throws \in Nat

Init ==
    /\ now = 0
    /\ request = [t \in Tasks |-> None]
    /\ due = [t \in Tasks |-> 0]
    /\ timers = [k \in Keys |-> {}]
    /\ mx_nexts = [d \in Times |-> <<>>]
    /\ erased = {}
    /\ hpc = "idle" /\ htask = None
    /\ wpc = "none"
    /\ ts = 0
    /\ batch = <<>>
    /\ m_isTerminating = FALSE
    /\ dpc = "run"
    /\ ticks = [t \in Tasks |-> 0]
    /\ stale = [t \in Tasks |-> 0]
    /\ throws = 0

-----------------------------------------------------------------------------
(* _nexts and _all *)

\* The mutex of _nexts is free but for the worker's stretch between a test
\* and the wait that releases it.
NextsFree == wpc \notin {"outertowait", "towait"}

NextsPush(d, t) == [mx_nexts EXCEPT ![d] = Append(@, t)]

Due == {d \in Times : mx_nexts[d] # <<>>}

Earliest == CHOOSE d \in Due : \A o \in Due : d <= o

\* The deadline of a request made, or a timer re-armed, now.
Deadline(d) == now + d

OneEarly(d) == now + 1 >= d
Reached(d) == now >= d

\* The worker takes a batch out of mx_nexts.
TakenOut(d) == [mx_nexts EXCEPT ![d] = <<>>]

Waiting == wpc \in {"outerwait", "timedwait"}

\* What a signal or a broadcast does to the worker.
SleepOn == wpc
WakeUp == CASE wpc = "outerwait" -> "inner"
            [] wpc = "timedwait" -> "inner"
            [] OTHER -> wpc

KeyOf(t) == request[t].key

NeverErased(t) == FALSE
IsErased(t) == t \in erased

\* remove_t_only: by identity, whatever else has the same key.
RemoveOnly(t) == [timers EXCEPT ![KeyOf(t)] = @ \ {t}]

-----------------------------------------------------------------------------
(* handleEvent, on the listener thread *)

StartService ==
    /\ hpc = "idle"
    /\ wpc = "none"
    /\ wpc' = "outer"
    /\ UNCHANGED <<now, dataVars, handlerVars, ts, batch, deinitVars, historyVars>>

Allocate(t, k, d) ==
    /\ hpc = "idle"
    /\ now <= LastRequest
    /\ ~m_isTerminating
    /\ request[t] = None
    /\ request' = [request EXCEPT ![t] = [key |-> k, period |-> d]]
    /\ hpc' = "schedule"
    /\ htask' = t
    /\ due' = [due EXCEPT ![t] = Deadline(d)]

\* SetTimer and SetAlarm: all->add, then tb = getNow() + delay_secs.
Set(t, k, d) ==
    /\ Allocate(t, k, d)
    /\ timers' = [timers EXCEPT ![k] = @ \cup {t}]
    /\ UNCHANGED <<now, mx_nexts, erased, workerVars, deinitVars, historyVars>>

\* ResetAlarm: all->replace erases every task with this key.
NoneErased(k) == erased
ErasedByReset(k) == erased \cup timers[k]

ResetAlarm(t, k, d) ==
    /\ k \in AlarmKeys
    /\ Allocate(t, k, d)
    /\ erased' = ErasedByReset(k)
    /\ timers' = [timers EXCEPT ![k] = {t}]
    /\ UNCHANGED <<now, mx_nexts, workerVars, deinitVars, historyVars>>

\* The common tail of the three: push under the lock ...
Schedule ==
    /\ hpc = "schedule"
    /\ NextsFree
    /\ mx_nexts' = NextsPush(due[htask], htask)
    /\ hpc' = "signal"
    /\ UNCHANGED <<now, request, due, timers, erased, htask, workerVars, deinitVars,
                  historyVars>>

\* ... and signal outside it.
Signal ==
    /\ hpc = "signal"
    /\ hpc' = "idle"
    /\ wpc' = WakeUp
    /\ UNCHANGED <<now, dataVars, htask, ts, batch, deinitVars, historyVars>>

\* StopTimer and StopAlarm: all->remove.
Stop(k) ==
    /\ hpc = "idle"
    /\ ~m_isTerminating
    /\ timers[k] # {}
    /\ erased' = erased \cup timers[k]
    /\ timers' = [timers EXCEPT ![k] = {}]
    /\ UNCHANGED <<now, request, due, mx_nexts, handlerVars, workerVars, deinitVars, historyVars>>

-----------------------------------------------------------------------------
(* worker *)

\* Outer loop: with nothing scheduled the worker waits, once.
OuterTest ==
    /\ wpc = "outer"
    /\ wpc' = CASE m_isTerminating -> "exit"
                [] ~m_isTerminating /\ Due = {} -> "outertowait"
                [] OTHER -> "inner"
    /\ UNCHANGED <<now, dataVars, handlerVars, ts, batch, deinitVars, historyVars>>

OuterWait ==
    /\ wpc = "outertowait"
    /\ wpc' = "outerwait"
    /\ UNCHANGED <<now, dataVars, handlerVars, ts, batch, deinitVars, historyVars>>

\* Inner loop.  With nothing scheduled it spins, which changes nothing.
InnerTest ==
    /\ wpc = "inner"
    /\ \/ m_isTerminating /\ wpc' = "exit" /\ UNCHANGED <<mx_nexts, ts, batch>>
       \/ /\ ~m_isTerminating /\ Due # {} /\ ~Reached(Earliest)
          /\ wpc' = "towait"
          /\ ts' = Earliest
          /\ UNCHANGED <<mx_nexts, batch>>
       \/ /\ ~m_isTerminating /\ Due # {} /\ Reached(Earliest)
          /\ batch' = mx_nexts[Earliest]
          /\ mx_nexts' = TakenOut(Earliest)
          /\ wpc' = "batch"
          /\ UNCHANGED ts
    /\ UNCHANGED <<now, request, due, timers, erased, handlerVars, deinitVars, historyVars>>

TimedWait ==
    /\ wpc = "towait"
    /\ wpc' = "timedwait"
    /\ UNCHANGED <<now, dataVars, handlerVars, ts, batch, deinitVars, historyVars>>

\* The wait ends at the deadline it was given.
Timeout ==
    /\ wpc = "timedwait"
    /\ now >= ts
    /\ wpc' = "inner"
    /\ UNCHANGED <<now, dataVars, handlerVars, ts, batch, deinitVars, historyVars>>

SpuriousWakeup ==
    /\ Waiting
    /\ wpc' = WakeUp
    /\ UNCHANGED <<now, dataVars, handlerVars, ts, batch, deinitVars, historyVars>>

\* One task of the batch: reading t->erased decides what becomes of it.
TestTask ==
    /\ wpc = "batch"
    /\ \/ /\ m_isTerminating
          /\ wpc' = "exit"
          /\ UNCHANGED <<batch, timers>>
       \/ /\ ~m_isTerminating /\ batch = <<>>
          /\ wpc' = "inner"
          /\ UNCHANGED <<batch, timers>>
       \/ /\ ~m_isTerminating /\ batch # <<>> /\ ~IsErased(Head(batch))
          /\ wpc' = "tick"
          /\ UNCHANGED <<batch, timers>>
       \/ /\ ~m_isTerminating /\ batch # <<>> /\ IsErased(Head(batch))
          /\ timers' = RemoveOnly(Head(batch))
          /\ batch' = Tail(batch)
          /\ UNCHANGED wpc
    /\ UNCHANGED <<now, request, due, mx_nexts, erased, handlerVars, ts, deinitVars, historyVars>>

\* passEvent delivers TickTimer or TickAlarm to the task's destination.
Tick ==
    /\ wpc = "tick"
    /\ LET t == Head(batch) IN
          /\ ticks' = [ticks EXCEPT ![t] = @ + 1]
          /\ stale' = [stale EXCEPT ![t] = IF t \in erased THEN @ + 1 ELSE @]
    /\ wpc' = "ticked"
    /\ UNCHANGED <<now, dataVars, handlerVars, ts, batch, deinitVars, throws>>

\* passEvent throws: the rest of the batch is abandoned with the iteration.
TickThrows ==
    /\ wpc = "tick"
    /\ throws < MaxThrows
    /\ throws' = throws + 1
    /\ batch' = <<>>
    /\ wpc' = "outer"
    /\ UNCHANGED <<now, dataVars, handlerVars, ts, deinitVars, ticks, stale>>

RearmTimer ==
    /\ wpc = "ticked"
    /\ KeyOf(Head(batch)) \in TimerKeys
    /\ due' = [due EXCEPT ![Head(batch)] = Deadline(request[Head(batch)].period)]
    /\ mx_nexts' = NextsPush(due'[Head(batch)], Head(batch))
    /\ batch' = Tail(batch)
    /\ wpc' = "batch"
    /\ UNCHANGED <<now, request, timers, erased, handlerVars, ts, deinitVars, historyVars>>

ForgetAlarm ==
    /\ wpc = "ticked"
    /\ KeyOf(Head(batch)) \in AlarmKeys
    /\ timers' = RemoveOnly(Head(batch))
    /\ batch' = Tail(batch)
    /\ wpc' = "batch"
    /\ UNCHANGED <<now, request, due, mx_nexts, erased, handlerVars, ts, deinitVars, historyVars>>

-----------------------------------------------------------------------------
(* deinit *)

DeinitSetFlag ==
    /\ dpc = "run"
    /\ m_isTerminating' = TRUE
    /\ dpc' = "clearnexts"
    /\ UNCHANGED <<now, dataVars, handlerVars, workerVars, historyVars>>

\* nexts->clear takes the mutex, and so cannot fall between the worker's test
\* of the flag and its wait.
NoLock == TRUE
LockNexts == NextsFree

DeinitClearNexts ==
    /\ dpc = "clearnexts"
    /\ LockNexts
    /\ mx_nexts' = [d \in Times |-> <<>>]
    /\ dpc' = "clearall"
    /\ UNCHANGED <<now, request, due, timers, erased, handlerVars, workerVars,
                   m_isTerminating, historyVars>>

DeinitClearAll ==
    /\ dpc = "clearall"
    /\ timers' = [k \in Keys |-> {}]
    /\ dpc' = "broadcast"
    /\ UNCHANGED <<now, request, due, mx_nexts, erased, handlerVars, workerVars,
                   m_isTerminating, historyVars>>

DeinitBroadcast ==
    /\ dpc = "broadcast"
    /\ wpc' = WakeUp
    /\ dpc' = "join"
    /\ UNCHANGED <<now, dataVars, handlerVars, ts, batch, m_isTerminating, historyVars>>

\* Joining a thread that was never started is undefined: here it may return
\* with an error or never.
DeinitJoin ==
    /\ dpc = "join"
    /\ wpc \in {"exit", "none"}
    /\ dpc' = "done"
    /\ UNCHANGED <<now, dataVars, handlerVars, workerVars, m_isTerminating, historyVars>>

-----------------------------------------------------------------------------
ClockTick ==
    /\ now < Horizon
    /\ now' = now + 1
    /\ UNCHANGED <<dataVars, handlerVars, workerVars, deinitVars, historyVars>>

HandleRequest ==
    \/ \E t \in Tasks, k \in Keys, d \in Delays : Set(t, k, d) \/ ResetAlarm(t, k, d)
    \/ \E k \in Keys : Stop(k)

Handler == Schedule \/ Signal

Worker ==
    \/ OuterTest \/ OuterWait \/ InnerTest \/ TimedWait \/ Timeout
    \/ TestTask \/ Tick \/ RearmTimer \/ ForgetAlarm

Deinit ==
    \/ DeinitClearNexts \/ DeinitClearAll \/ DeinitBroadcast
    \/ wpc # "none" /\ DeinitJoin

Next ==
    \/ StartService \/ HandleRequest \/ Handler
    \/ Worker \/ TickThrows \/ SpuriousWakeup
    \/ DeinitSetFlag \/ Deinit \/ DeinitJoin
    \/ ClockTick

Spec == Init /\ [][Next]_vars

\* The threads run, the clock advances, and whoever wants the mutex of _nexts
\* gets it although the worker keeps taking it.  The start event is in the
\* queue; requests, deinit, exceptions and spurious wake-ups need not come.
FairSpec ==
    /\ Spec
    /\ WF_vars(StartService) /\ WF_vars(ClockTick)
    /\ WF_vars(Handler) /\ SF_vars(Schedule)
    /\ WF_vars(Worker)
    /\ WF_vars(Deinit) /\ SF_vars(DeinitClearNexts)

-----------------------------------------------------------------------------
(* Properties *)

\* Where a task can be scheduled: in mx_nexts, in the worker's batch, in the
\* hand of the handler.
InNexts == {t \in Tasks : \E d \in Times : \E i \in DOMAIN mx_nexts[d] : mx_nexts[d][i] = t}
InBatch == {t \in Tasks : \E i \in DOMAIN batch : batch[i] = t}
InHand  == {t \in Tasks : hpc = "schedule" /\ htask = t}
Armed   == InNexts \cup InBatch \cup InHand

NextsOnce ==
    \A d, e \in Times :
        \A i \in DOMAIN mx_nexts[d], j \in DOMAIN mx_nexts[e] :
            mx_nexts[d][i] = mx_nexts[e][j] => d = e /\ i = j
BatchOnce == \A i, j \in DOMAIN batch : batch[i] = batch[j] => i = j
OnePlace ==
    /\ InNexts \cap InBatch = {}
    /\ InNexts \cap InHand = {}
    /\ InBatch \cap InHand = {}

\* A task is scheduled at most once at any moment, in mx_nexts, in the worker's
\* batch or in the handler's hand: neither re-arming in the worker nor a request
\* that overlaps it multiplies a timer.
ArmedOnce == NextsOnce /\ BatchOnce /\ OnePlace

\* Whatever may still tick can be found by Stop and Reset: a task that is armed
\* and not erased is listed under its key (add precedes the push, removal
\* follows the tick), until deinit clears the lists.
StopReachesArmed ==
    dpc \in {"run", "clearnexts", "clearall"} =>
        \A t \in Armed \ erased : t \in timers[KeyOf(t)]

\* A tick that overtakes StopTimer, StopAlarm or ResetAlarm happens once at the
\* most: the worker reads `erased' again before every tick.
OneStaleTick == \A t \in Tasks : stale[t] <= 1

\* The worker never sleeps past the earliest deadline: it waits until that time,
\* or the handler that pushed an earlier one has still to signal.
NoOversleep ==
    /\ wpc = "outerwait" /\ Due # {} => hpc = "signal"
    /\ wpc = "timedwait" => hpc = "signal" \/ \A d \in Due : ts <= d

\* A task whose deadline comes within the horizon ticks, again and again for a
\* timer, unless it is erased, the service stops or passEvent throws.
EventuallyTicks ==
    \A t \in Tasks, n \in 0 .. Horizon :
        (ticks[t] = n /\ t \in Armed /\ wpc # "ticked" /\ due[t] <= Horizon)
            ~> (ticks[t] > n \/ t \in erased \/ m_isTerminating \/ throws > 0)

\* The join in deinit returns for every state the worker can be in when the flag
\* goes up, the stretch between its last test and the wait included.
DeinitReturns == (dpc = "join" /\ wpc # "none") ~> dpc = "done"

-----------------------------------------------------------------------------
(* The service implements the promise it makes to its users. *)

armed == {t \in Tasks : /\ request[t] # None
                        /\ ~(wpc = "ticked" /\ Head(batch) = t)
                        /\ ~(KeyOf(t) \in AlarmKeys /\ ticks[t] > 0)}

Promise == INSTANCE AlarmPromise

KeepsPromise == Promise!Spec
=============================================================================
