---------------------------- MODULE TimerProofs ----------------------------
(***************************************************************************)
(* Theorems about the timer service, for any number of tasks, keys, delays *)
(* and exceptions.                                                         *)
(***************************************************************************)
EXTENDS Timer, WellFoundedInduction, TLAPS

-----------------------------------------------------------------------------
(* What pushing, taking and popping do to the places of a task. *)

LEMMA TimesNat == Times \subseteq Nat
  BY DelaysAssumption, BoundsAssumption DEF Times

LEMMA DeadlineInTimes ==
    ASSUME now \in 0 .. Horizon, NEW d \in Delays PROVE Deadline(d) \in Times
  BY DEF Deadline, Times

\* nexts[tb].push_back(t)
LEMMA PushPlaces ==
    ASSUME TypeOK, NEW d \in Times, NEW t \in Tasks, mx_nexts' = NextsPush(d, t)
    PROVE  /\ mx_nexts' \in [Times -> Seq(Tasks)]
           /\ InNexts' \subseteq InNexts \cup {t}
           /\ NextsOnce /\ t \notin InNexts => NextsOnce'
           /\ \A e \in Times : \A i \in DOMAIN mx_nexts'[e] :
                 \/ i \in DOMAIN mx_nexts[e] /\ mx_nexts'[e][i] = mx_nexts[e][i]
                 \/ e = d /\ mx_nexts'[e][i] = t
<1> DEFINE s == Append(mx_nexts[d], t)
<1>1. mx_nexts[d] \in Seq(Tasks) BY DEF TypeOK
<1>2. /\ s \in Seq(Tasks)
      /\ DOMAIN s = 1 .. Len(mx_nexts[d]) + 1
      /\ DOMAIN mx_nexts[d] = 1 .. Len(mx_nexts[d])
      /\ s[Len(mx_nexts[d]) + 1] = t
      /\ \A i \in 1 .. Len(mx_nexts[d]) : s[i] = mx_nexts[d][i]
      /\ Len(mx_nexts[d]) \in Nat
  BY <1>1
<1> HIDE DEF s
<1>3. /\ mx_nexts'[d] = s
      /\ \A e \in Times \ {d} : mx_nexts'[e] = mx_nexts[e]
      /\ mx_nexts' \in [Times -> Seq(Tasks)]
  BY <1>2 DEF NextsPush, TypeOK, s
<1>4. \A e \in Times : \A i \in DOMAIN mx_nexts'[e] :
        \/ i \in DOMAIN mx_nexts[e] /\ mx_nexts'[e][i] = mx_nexts[e][i]
        \/ e = d /\ i = Len(mx_nexts[d]) + 1 /\ mx_nexts'[e][i] = t
  BY <1>2, <1>3
<1>5. InNexts' \subseteq InNexts \cup {t}
  BY <1>4 DEF InNexts
<1>6. ASSUME NextsOnce, t \notin InNexts PROVE NextsOnce'
  <2> SUFFICES ASSUME NEW e \in Times, NEW f \in Times,
                      NEW i \in DOMAIN mx_nexts'[e], NEW j \in DOMAIN mx_nexts'[f],
                      mx_nexts'[e][i] = mx_nexts'[f][j]
               PROVE  e = f /\ i = j
    BY DEF NextsOnce
  <2>1. ASSUME NEW g \in Times, NEW k \in DOMAIN mx_nexts[g] PROVE mx_nexts[g][k] # t
    BY <1>6 DEF InNexts
  <2>2. CASE i \in DOMAIN mx_nexts[e] /\ mx_nexts'[e][i] = mx_nexts[e][i]
    <3>1. j \in DOMAIN mx_nexts[f] /\ mx_nexts'[f][j] = mx_nexts[f][j]
      BY <1>4, <2>1, <2>2
    <3>2. mx_nexts[e][i] = mx_nexts[f][j]
      BY <2>2, <3>1
    <3>3. QED BY <1>6, <2>2, <3>1, <3>2 DEF NextsOnce
  <2>3. CASE e = d /\ i = Len(mx_nexts[d]) + 1 /\ mx_nexts'[e][i] = t
    <3>1. f = d /\ j = Len(mx_nexts[d]) + 1
      BY <1>4, <2>1, <2>3
    <3>2. QED BY <2>3, <3>1
  <2>4. QED BY <1>4, <2>2, <2>3
<1>7. QED BY <1>3, <1>4, <1>5, <1>6

\* itSecondCopy = itSecondRef; mx_nexts.erase(itFirst)
LEMMA TakePlaces ==
    ASSUME TypeOK, NextsOnce, NEW d \in Times,
           mx_nexts' = TakenOut(d), batch' = mx_nexts[d]
    PROVE  /\ mx_nexts' \in [Times -> Seq(Tasks)] /\ batch' \in Seq(Tasks)
           /\ NextsOnce' /\ BatchOnce'
           /\ InNexts' \cup InBatch' \subseteq InNexts
           /\ InNexts' \cap InBatch' = {}
<1>1. <<>> \in Seq(Tasks) /\ DOMAIN <<>> = {}
  OBVIOUS
<1>2. ASSUME NEW s \in Seq(Tasks) PROVE [mx_nexts EXCEPT ![d] = s] \in [Times -> Seq(Tasks)]
  BY DEF TypeOK
<1>3. mx_nexts' \in [Times -> Seq(Tasks)] /\ batch' \in Seq(Tasks)
  BY <1>1, <1>2 DEF TakenOut, TypeOK
<1>4. /\ DOMAIN mx_nexts'[d] = {}
      /\ \A e \in Times \ {d} : mx_nexts'[e] = mx_nexts[e]
  BY <1>1 DEF TakenOut, TypeOK
<1>5. NextsOnce' BY <1>4 DEF NextsOnce
<1>6. BatchOnce' BY DEF BatchOnce, NextsOnce
<1>7. InBatch' \subseteq InNexts
  BY DEF InBatch, InNexts
<1>8. ASSUME NEW u \in InNexts' PROVE u \in InNexts /\ u \notin InBatch'
  <2>1. PICK e \in Times : \E i \in DOMAIN mx_nexts'[e] : mx_nexts'[e][i] = u
    BY <1>8 DEF InNexts
  <2>2. e # d /\ mx_nexts'[e] = mx_nexts[e] BY <2>1, <1>4
  <2>3. QED BY <2>1, <2>2 DEF InNexts, InBatch, NextsOnce
<1>9. QED BY <1>3, <1>5, <1>6, <1>7, <1>8

\* The worker is done with the first task of its batch.
LEMMA PopPlaces ==
    ASSUME TypeOK, BatchOnce, batch # <<>>, batch' = Tail(batch)
    PROVE  /\ Head(batch) \in Tasks /\ batch' \in Seq(Tasks)
           /\ Head(batch) \in InBatch
           /\ BatchOnce'
           /\ InBatch' \subseteq InBatch \ {Head(batch)}
<1>1. /\ batch \in Seq(Tasks) /\ Len(batch) \in Nat \ {0}
      /\ DOMAIN batch = 1 .. Len(batch)
      /\ DOMAIN batch' = 1 .. Len(batch) - 1
      /\ \A i \in 1 .. Len(batch) - 1 : batch'[i] = batch[i + 1]
      /\ Head(batch) = batch[1] /\ Head(batch) \in Tasks /\ batch' \in Seq(Tasks)
  BY DEF TypeOK
<1>2. Head(batch) \in InBatch BY <1>1 DEF InBatch
<1>3. BatchOnce'
  <2> SUFFICES ASSUME NEW i \in DOMAIN batch', NEW j \in DOMAIN batch', batch'[i] = batch'[j]
               PROVE  i = j
    BY DEF BatchOnce
  <2>1. i + 1 \in DOMAIN batch /\ j + 1 \in DOMAIN batch /\ batch[i + 1] = batch[j + 1]
    BY <1>1
  <2>2. QED BY <1>1, <2>1 DEF BatchOnce
<1>4. ASSUME NEW u \in InBatch' PROVE u \in InBatch /\ u # Head(batch)
  <2>1. PICK i \in DOMAIN batch' : batch'[i] = u BY <1>4 DEF InBatch
  <2>2. i + 1 \in DOMAIN batch /\ 1 \in DOMAIN batch /\ batch[i + 1] = u /\ i + 1 # 1
    BY <1>1, <2>1
  <2>3. QED BY <1>1, <2>2 DEF InBatch, BatchOnce
<1>5. QED BY <1>1, <1>2, <1>3, <1>4

\* mx_nexts.begin() is the least deadline.
LEMMA EarliestIsLeast ==
    Due # {} => /\ Earliest \in Due /\ Due \subseteq Times
                /\ \A d \in Due : Earliest <= d
<1> SUFFICES ASSUME Due # {}
             PROVE  Earliest \in Due /\ Due \subseteq Times /\ \A d \in Due : Earliest <= d
  OBVIOUS
<1>1. Due \subseteq Times /\ Due \subseteq Nat
  BY TimesNat DEF Due
<1>2. \E d \in Due : \A e \in Due : d <= e
  <2> DEFINE R == {ss \in Nat \X Nat : ss[1] < ss[2]}
  <2>1. IsWellFoundedOn(R, Nat)
    BY NatLessThanWellFounded, Zenon DEF OpToRel
  <2>2. \E d \in Due : \A e \in Due : <<e, d>> \notin R
    <3> HIDE DEF R
    <3>1. QED BY <1>1, <2>1, WFMin
  <2>3. \A d, e \in Nat : <<e, d>> \notin R => d <= e
    OBVIOUS
  <2>4. QED
    <3> HIDE DEF R
    <3>1. QED BY <1>1, <2>2, <2>3
<1>3. QED BY <1>1, <1>2 DEF Earliest

-----------------------------------------------------------------------------
(* The inductive invariant: a task that is scheduled was requested, and    *)
(* while the worker has a task in hand its batch is not empty.             *)

Known == \A t \in Armed : request[t] # None

HasTask == wpc \in {"tick", "ticked"} => batch # <<>>

TimerInv == TypeOK /\ ArmedOnce /\ Known /\ HasTask /\ StopReachesArmed

LEMMA NothingArmed ==
    ASSUME mx_nexts = [d \in Times |-> <<>>], batch = <<>>, hpc = "idle"
    PROVE  ArmedOnce /\ Armed = {}
  BY DEF ArmedOnce, NextsOnce, BatchOnce, OnePlace, Armed, InNexts, InBatch, InHand

LEMMA InitTimer == Init => TimerInv
<1> SUFFICES ASSUME Init PROVE TimerInv
  OBVIOUS
<1>1. <<>> \in Seq(Tasks)
  OBVIOUS
<1>2. mx_nexts \in [Times -> Seq(Tasks)] /\ batch \in Seq(Tasks)
  BY <1>1 DEF Init
<1>3. TypeOK
  <2>1. /\ now \in 0 .. Horizon
        /\ request \in [Tasks -> Request \cup {None}]
        /\ timers \in [Keys -> SUBSET Tasks]
        /\ erased \in SUBSET Tasks
    BY BoundsAssumption DEF Init
  <2>2. /\ due \in [Tasks -> Times \cup {0}]
        /\ ticks \in [Tasks -> Nat]
        /\ stale \in [Tasks -> Nat]
    BY DEF Init
  <2>3. QED BY <1>2, <2>1, <2>2 DEF Init, TypeOK
<1>4. ArmedOnce /\ Armed = {}
  BY NothingArmed DEF Init
<1>5. QED BY <1>3, <1>4 DEF Init, TimerInv, Known, HasTask, StopReachesArmed

\* Steps that take no request: tasks change places, none is added.
LEMMA MoveTasks ==
    ASSUME TimerInv, TypeOK', NextsOnce', BatchOnce', OnePlace', HasTask',
           UNCHANGED request,
           Armed' \subseteq Armed,
           erased \subseteq erased',
           dpc' \in {"run", "clearnexts", "clearall"} =>
               /\ dpc \in {"run", "clearnexts", "clearall"}
               /\ \A t \in Armed' \ erased' :
                     t \in timers[KeyOf(t)] => t \in timers'[KeyOf(t)]
    PROVE  TimerInv'
<1>1. Known'
  BY DEF TimerInv, Known
<1>2. StopReachesArmed'
  <2> SUFFICES ASSUME dpc' \in {"run", "clearnexts", "clearall"}, NEW t \in Armed' \ erased'
               PROVE  t \in timers'[KeyOf(t)]
    BY DEF StopReachesArmed, KeyOf
  <2>1. t \in Armed \ erased OBVIOUS
  <2>2. QED BY <2>1 DEF TimerInv, StopReachesArmed
<1>3. QED BY <1>1, <1>2 DEF TimerInv, ArmedOnce

LEMMA SamePlaces ==
    ASSUME TimerInv, TypeOK', HasTask',
           UNCHANGED <<mx_nexts, batch, request>>,
           InHand' \subseteq InHand,
           erased \subseteq erased',
           dpc' \in {"run", "clearnexts", "clearall"} =>
               /\ dpc \in {"run", "clearnexts", "clearall"}
               /\ \A t \in Armed' \ erased' :
                     t \in timers[KeyOf(t)] => t \in timers'[KeyOf(t)]
    PROVE  TimerInv'
<1>1. InNexts' = InNexts /\ InBatch' = InBatch
  BY DEF InNexts, InBatch
<1>2. NextsOnce' /\ BatchOnce'
  BY DEF TimerInv, ArmedOnce, NextsOnce, BatchOnce
<1>3. OnePlace'
  BY <1>1 DEF TimerInv, ArmedOnce, OnePlace
<1>4. Armed' \subseteq Armed
  BY <1>1 DEF Armed
<1>5. QED BY <1>2, <1>3, <1>4, MoveTasks

\* A new request: its task is in the handler's hand, in its list and nowhere else.
LEMMA AllocateTimer ==
    ASSUME TimerInv, NEW t \in Tasks, NEW k \in Keys, NEW d \in Delays,
           Allocate(t, k, d), UNCHANGED <<now, mx_nexts, workerVars, deinitVars, historyVars>>,
           timers' \in [Keys -> SUBSET Tasks], erased' \in SUBSET Tasks,
           t \in timers'[k],
           \A u \in Tasks \ {t} :
               /\ u \in erased => u \in erased'
               /\ u \in Armed /\ u \in timers[KeyOf(u)] =>
                     u \in erased' \/ u \in timers'[KeyOf(u)]
    PROVE  TimerInv'
<1> USE DEF TimerInv, workerVars, deinitVars, historyVars
<1>1. Deadline(d) \in Times
  BY DeadlineInTimes DEF TypeOK
<1>2. /\ request' \in [Tasks -> Request \cup {None}]
      /\ request'[t] = [key |-> k, period |-> d] /\ request'[t] # None
      /\ \A u \in Tasks \ {t} : request'[u] = request[u]
  <2>1. [key |-> k, period |-> d] \in Request
    BY DEF Request
  <2>2. [key |-> k, period |-> d] # None
    BY <2>1, NoneAssumption DEF Request
  <2>3. QED BY <2>1, <2>2 DEF Allocate, TypeOK
<1>3. TypeOK'
  BY <1>1, <1>2 DEF Allocate, TypeOK
<1>4. t \notin Armed BY DEF Allocate, Known
<1>5. InNexts' = InNexts /\ InBatch' = InBatch /\ InHand' = {t} /\ InHand = {}
  BY DEF Allocate, InNexts, InBatch, InHand
<1>5a. Armed' = Armed \cup {t} /\ Armed \subseteq Tasks
  BY <1>5 DEF Armed, InNexts, InBatch, InHand
<1>6. NextsOnce' /\ BatchOnce'
  BY DEF ArmedOnce, NextsOnce, BatchOnce
<1>7. OnePlace'
  BY <1>4, <1>5 DEF ArmedOnce, OnePlace, Armed
<1>8. Known'
  BY <1>2, <1>5a DEF Known
<1>9. StopReachesArmed'
  <2> SUFFICES ASSUME dpc \in {"run", "clearnexts", "clearall"},
                      NEW u \in Armed', u \notin erased'
               PROVE  u \in timers'[request'[u].key]
    BY DEF StopReachesArmed, KeyOf
  <2>1. CASE u = t BY <2>1, <1>2
  <2>2. CASE u # t
    <3>1. u \in Armed /\ u \in Tasks BY <1>5a, <2>2
    <3>2. u \in Armed \ erased
      BY <2>2, <3>1
    <3>3. u \in timers[KeyOf(u)]
      BY <3>2 DEF StopReachesArmed
    <3>4. u \in timers'[KeyOf(u)]
      BY <2>2, <3>1, <3>3
    <3>5. QED BY <1>2, <2>2, <3>1, <3>4 DEF KeyOf
  <2>3. QED BY <2>1, <2>2
<1>10. HasTask' BY DEF HasTask
<1>11. QED BY <1>3, <1>6, <1>7, <1>8, <1>9, <1>10 DEF ArmedOnce

LEMMA RequestTimer ==
    ASSUME TimerInv, HandleRequest PROVE TimerInv'
<1> USE DEF TimerInv
<1>1. ASSUME NEW t \in Tasks, NEW k \in Keys, NEW d \in Delays, Set(t, k, d)
      PROVE  TimerInv'
  <2>1. /\ timers' \in [Keys -> SUBSET Tasks] /\ erased' = erased
        /\ t \in timers'[k]
        /\ \A j \in Keys : timers[j] \subseteq timers'[j]
    BY <1>1 DEF Set, TypeOK
  <2>2. ASSUME NEW u \in Tasks \ {t}, u \in Armed, u \in timers[KeyOf(u)]
        PROVE  u \in timers'[KeyOf(u)]
    <3>1. KeyOf(u) \in Keys
      BY <2>2 DEF Known, TypeOK, Request, KeyOf
    <3>2. QED BY <2>1, <2>2, <3>1
  <2>3. erased' \in SUBSET Tasks BY <2>1 DEF TypeOK
  <2>4. QED BY <1>1, <2>1, <2>2, <2>3, AllocateTimer DEF Set
<1>2. ASSUME NEW t \in Tasks, NEW k \in Keys, NEW d \in Delays, ResetAlarm(t, k, d)
      PROVE  TimerInv'
  <2>1. /\ timers' \in [Keys -> SUBSET Tasks] /\ erased' \in SUBSET Tasks
        /\ t \in timers'[k]
        /\ erased' = erased \cup timers[k]
        /\ \A j \in Keys \ {k} : timers'[j] = timers[j]
    BY <1>2 DEF ResetAlarm, ErasedByReset, TypeOK
  <2>2. ASSUME NEW u \in Tasks \ {t}, u \in Armed, u \in timers[KeyOf(u)]
        PROVE  u \in erased' \/ u \in timers'[KeyOf(u)]
    <3>1. KeyOf(u) \in Keys
      BY <2>2 DEF Known, TypeOK, Request, KeyOf
    <3>2. QED BY <2>1, <2>2, <3>1
  <2>3. QED BY <1>2, <2>1, <2>2, AllocateTimer DEF ResetAlarm
<1>3. ASSUME NEW k \in Keys, Stop(k) PROVE TimerInv'
  <2>1. TypeOK' /\ erased' = erased \cup timers[k]
        /\ \A j \in Keys \ {k} : timers'[j] = timers[j]
    BY <1>3 DEF Stop, TypeOK, handlerVars, workerVars, deinitVars, historyVars
  <2>2. UNCHANGED <<mx_nexts, batch, hpc, htask, request, wpc, dpc>>
    BY <1>3 DEF Stop, handlerVars, workerVars, deinitVars
  <2>3. InHand' = InHand /\ HasTask'
    BY <2>2 DEF InHand, HasTask
  <2>4. Armed' = Armed
    BY <2>2, <2>3 DEF Armed, InNexts, InBatch
  <2>5. ASSUME NEW t \in Armed' \ erased', t \in timers[KeyOf(t)]
        PROVE  t \in timers'[KeyOf(t)]
    <3>1. KeyOf(t) \in Keys
      BY <2>4 DEF Known, TypeOK, Request, KeyOf, Armed, InNexts, InBatch, InHand
    <3>2. QED BY <2>1, <2>5, <3>1
  <2>6. QED BY <2>1, <2>2, <2>3, <2>5, SamePlaces
<1>4. QED BY <1>1, <1>2, <1>3 DEF HandleRequest
\* The handler pushes the task it has in hand.
LEMMA ScheduleTimer ==
    ASSUME TimerInv, Schedule PROVE TimerInv'
<1> USE DEF TimerInv, Schedule, workerVars, deinitVars, historyVars
<1>1. htask \in InHand /\ InHand = {htask} /\ InHand' = {}
  BY DEF InHand, TypeOK
<1>2. /\ mx_nexts' \in [Times -> Seq(Tasks)]
      /\ InNexts' \subseteq InNexts \cup {htask}
      /\ NextsOnce'
  BY <1>1, PushPlaces DEF TypeOK, ArmedOnce, OnePlace
<1>3. TypeOK' BY <1>2 DEF TypeOK
<1>4. InBatch' = InBatch /\ BatchOnce'
  BY DEF InBatch, ArmedOnce, BatchOnce
<1>5. OnePlace' /\ Armed' \subseteq Armed
  BY <1>1, <1>2, <1>4 DEF ArmedOnce, OnePlace, Armed
<1>6. HasTask' BY DEF HasTask
<1>7. QED BY <1>2, <1>3, <1>4, <1>5, <1>6, MoveTasks DEF KeyOf

\* The worker takes the earliest batch.
LEMMA InnerTestTimer ==
    ASSUME TimerInv, InnerTest PROVE TimerInv'
<1> USE DEF TimerInv, handlerVars, deinitVars, historyVars
<1>1. InHand' = InHand /\ HasTask'
  BY DEF InnerTest, InHand, HasTask
<1>2. CASE UNCHANGED <<mx_nexts, batch>> /\ ts' \in Times \cup {0}
  BY <1>1, <1>2, SamePlaces DEF InnerTest, TypeOK, KeyOf
<1>3. CASE \E d \in Due : mx_nexts' = TakenOut(d) /\ batch' = mx_nexts[d] /\ ts' = ts
  <2>1. PICK d \in Times : mx_nexts' = TakenOut(d) /\ batch' = mx_nexts[d] /\ ts' = ts
    BY <1>3 DEF Due
  <2>2. /\ mx_nexts' \in [Times -> Seq(Tasks)] /\ batch' \in Seq(Tasks)
        /\ NextsOnce' /\ BatchOnce'
        /\ InNexts' \cup InBatch' \subseteq InNexts
        /\ InNexts' \cap InBatch' = {}
    BY <2>1, TakePlaces DEF ArmedOnce
  <2>3. TypeOK' BY <2>1, <2>2 DEF InnerTest, TypeOK
  <2>4. OnePlace' /\ Armed' \subseteq Armed
    BY <1>1, <2>2 DEF ArmedOnce, OnePlace, Armed
  <2>5. QED BY <1>1, <2>2, <2>3, <2>4, MoveTasks DEF InnerTest, KeyOf
<1>4. Due # {} => Earliest \in Due /\ Due \subseteq Times
  BY EarliestIsLeast
<1>5. QED BY <1>2, <1>3, <1>4 DEF InnerTest, TypeOK

\* The worker drops an erased task or forgets an alarm that ticked.
LEMMA PopTimer ==
    ASSUME TimerInv, batch # <<>>, batch' = Tail(batch),
           timers' = RemoveOnly(Head(batch)),
           wpc' = "batch",
           UNCHANGED <<now, request, due, mx_nexts, erased, handlerVars, ts, deinitVars,
                       historyVars>>
    PROVE  TimerInv'
<1> USE DEF TimerInv, handlerVars, deinitVars, historyVars
<1>1. /\ Head(batch) \in Tasks /\ batch' \in Seq(Tasks) /\ Head(batch) \in InBatch
      /\ BatchOnce' /\ InBatch' \subseteq InBatch \ {Head(batch)}
  BY PopPlaces DEF ArmedOnce
<1>2. InHand' = InHand /\ InNexts' = InNexts /\ NextsOnce'
  BY DEF InHand, InNexts, ArmedOnce, NextsOnce
<1>3. OnePlace' /\ Armed' \subseteq Armed \ {Head(batch)}
  BY <1>1, <1>2 DEF ArmedOnce, OnePlace, Armed
<1>4. /\ timers' \in [Keys -> SUBSET Tasks]
      /\ \A k \in Keys : timers[k] \ {Head(batch)} \subseteq timers'[k]
  BY DEF RemoveOnly, TypeOK
<1>5. TypeOK' BY <1>1, <1>4 DEF TypeOK
<1>6. HasTask' BY DEF HasTask
<1>7. ASSUME NEW t \in Armed', t \in timers[KeyOf(t)] PROVE t \in timers'[KeyOf(t)]
  <2>1. t \in Armed /\ t # Head(batch) BY <1>3
  <2>2. KeyOf(t) \in Keys
    BY <2>1 DEF Known, TypeOK, Request, KeyOf, Armed, InNexts, InBatch, InHand
  <2>3. QED BY <1>4, <1>7, <2>1, <2>2
<1>8. QED BY <1>1, <1>2, <1>3, <1>5, <1>6, <1>7, MoveTasks

\* The worker schedules a timer again.
LEMMA RearmTimerStep ==
    ASSUME TimerInv, RearmTimer PROVE TimerInv'
<1> USE DEF TimerInv, RearmTimer, handlerVars, deinitVars, historyVars
<1> DEFINE t == Head(batch)
<1>1. /\ t \in Tasks /\ batch' \in Seq(Tasks) /\ t \in InBatch
      /\ BatchOnce' /\ InBatch' \subseteq InBatch \ {t}
  BY PopPlaces DEF ArmedOnce, HasTask
<1>2. Deadline(request[t].period) \in Times
  <2>1. request[t] \in Request
    BY <1>1 DEF Known, Armed, TypeOK
  <2>2. QED BY <2>1, DeadlineInTimes DEF Request, TypeOK
<1>3. due' \in [Tasks -> Times \cup {0}] /\ due'[t] \in Times
  BY <1>1, <1>2 DEF TypeOK
<1>4. t \notin InNexts
  BY <1>1 DEF ArmedOnce, OnePlace
<1>5. /\ mx_nexts' \in [Times -> Seq(Tasks)]
      /\ InNexts' \subseteq InNexts \cup {t}
      /\ NextsOnce'
  <2>1. mx_nexts' = NextsPush(due'[t], t) OBVIOUS
  <2>2. QED BY <1>1, <1>3, <1>4, <2>1, PushPlaces DEF ArmedOnce
<1>6. InHand' = InHand BY DEF InHand
<1>7. OnePlace' /\ Armed' \subseteq Armed
  BY <1>1, <1>5, <1>6 DEF ArmedOnce, OnePlace, Armed
<1>8. TypeOK'
  <2>1. hpc = "schedule" => due'[htask] \in Times
    BY <1>1, <1>2, <1>3 DEF TypeOK
  <2>2. QED BY <1>1, <1>3, <1>5, <2>1 DEF TypeOK
<1>9. HasTask' BY DEF HasTask
<1>10. QED BY <1>1, <1>5, <1>7, <1>8, <1>9, MoveTasks DEF KeyOf
\* Every step that is not a request only moves tasks.
LEMMA StepTimer ==
    ASSUME TimerInv, [Next]_vars PROVE TimerInv'
<1> USE DEF handlerVars, workerVars, deinitVars, historyVars, dataVars
<1>1. CASE HandleRequest BY <1>1, RequestTimer
<1>2. CASE Schedule BY <1>2, ScheduleTimer
<1>3. CASE InnerTest BY <1>3, InnerTestTimer
<1>4. CASE RearmTimer BY <1>4, RearmTimerStep
<1>5. CASE ForgetAlarm
  BY <1>5, PopTimer DEF ForgetAlarm, TimerInv, HasTask
<1>6. CASE TestTask
  <2>1. CASE batch # <<>> /\ batch' = Tail(batch) /\ wpc' = "batch" /\ timers' = RemoveOnly(Head(batch))
    BY <1>6, <2>1, PopTimer DEF TestTask
  <2>2. CASE UNCHANGED <<batch, timers>>
    <3>1. TypeOK' /\ HasTask'
      BY <1>6, <2>2 DEF TestTask, TimerInv, TypeOK, HasTask
    <3>2. InHand' = InHand BY <1>6 DEF TestTask, InHand
    <3>3. QED BY <1>6, <2>2, <3>1, <3>2, SamePlaces DEF TestTask, KeyOf
  <2>3. QED BY <1>6, <2>1, <2>2 DEF TestTask
<1>7. CASE TickThrows
  <2> USE <1>7 DEF TickThrows
  <2>1. batch' \in Seq(Tasks) /\ DOMAIN batch' = {}
    OBVIOUS
  <2>2. TypeOK' /\ HasTask'
    BY <2>1 DEF TimerInv, TypeOK, HasTask
  <2>3. InHand' = InHand /\ InNexts' = InNexts /\ InBatch' = {}
    BY <2>1 DEF InHand, InNexts, InBatch
  <2>4. NextsOnce' /\ BatchOnce' /\ OnePlace'
    BY <2>1, <2>3 DEF TimerInv, ArmedOnce, NextsOnce, BatchOnce, OnePlace
  <2>5. Armed' \subseteq Armed BY <2>3 DEF Armed
  <2>6. QED BY <2>2, <2>4, <2>5, MoveTasks DEF KeyOf
<1>8. CASE DeinitClearNexts
  <2> USE <1>8 DEF DeinitClearNexts
  <2>1. /\ mx_nexts' \in [Times -> Seq(Tasks)]
        /\ \A d \in Times : DOMAIN mx_nexts'[d] = {}
    <3>1. <<>> \in Seq(Tasks) OBVIOUS
    <3>2. QED BY <3>1
  <2>2. TypeOK' /\ HasTask'
    BY <2>1 DEF TimerInv, TypeOK, HasTask
  <2>3. InHand' = InHand /\ InNexts' = {} /\ InBatch' = InBatch
    BY <2>1 DEF InHand, InNexts, InBatch
  <2>4. NextsOnce' /\ BatchOnce' /\ OnePlace'
    BY <2>1, <2>3 DEF TimerInv, ArmedOnce, NextsOnce, BatchOnce, OnePlace
  <2>5. Armed' \subseteq Armed BY <2>3 DEF Armed
  <2>6. QED BY <2>2, <2>4, <2>5, MoveTasks DEF KeyOf
<1>9. CASE DeinitClearAll
  <2>1. TypeOK' /\ HasTask'
    BY <1>9 DEF DeinitClearAll, TimerInv, TypeOK, HasTask
  <2>2. InHand' = InHand BY <1>9 DEF DeinitClearAll, InHand
  <2>3. QED BY <1>9, <2>1, <2>2, SamePlaces DEF DeinitClearAll
<1>10. CASE \/ StartService \/ Signal \/ OuterTest \/ OuterWait \/ TimedWait \/ Timeout
            \/ SpuriousWakeup \/ Tick \/ DeinitSetFlag \/ DeinitBroadcast \/ DeinitJoin
            \/ ClockTick \/ UNCHANGED vars
  <2> USE DEF TimerInv, StartService, Signal, OuterTest, OuterWait, TimedWait, Timeout,
          SpuriousWakeup, Tick, DeinitSetFlag, DeinitBroadcast, DeinitJoin, ClockTick, vars,
          WakeUp
  <2>1. HasTask' BY <1>10 DEF HasTask
  <2>2. InHand' \subseteq InHand BY <1>10 DEF InHand
  <2>3. UNCHANGED <<mx_nexts, batch, request, timers, erased>>
    BY <1>10
  <2>4. dpc' \in {"run", "clearnexts", "clearall"} =>
            dpc \in {"run", "clearnexts", "clearall"}
    BY <1>10
  <2>5. TypeOK'
    <3>1. CASE Tick
      <4>1. Head(batch) \in Tasks BY <3>1 DEF HasTask, TypeOK
      <4>2. ticks' \in [Tasks -> Nat] /\ stale' \in [Tasks -> Nat]
        BY <3>1, <4>1 DEF TypeOK
      <4>3. QED BY <3>1, <4>2 DEF TypeOK
    <3>2. CASE ClockTick BY <3>2, BoundsAssumption DEF TypeOK
    <3>3. CASE StartService \/ Signal \/ OuterTest \/ OuterWait \/ TimedWait \/ Timeout
      BY <3>3 DEF TypeOK
    <3>4. CASE SpuriousWakeup BY <3>4 DEF TypeOK
    <3>5. CASE DeinitSetFlag \/ DeinitBroadcast \/ DeinitJoin BY <3>5 DEF TypeOK
    <3>6. CASE UNCHANGED vars BY <3>6 DEF TypeOK
    <3>7. QED BY <1>10, <3>1, <3>2, <3>3, <3>4, <3>5, <3>6
  <2>6. QED BY <2>1, <2>2, <2>3, <2>4, <2>5, SamePlaces DEF KeyOf
<1>11. QED
  BY <1>1, <1>2, <1>3, <1>4, <1>5, <1>6, <1>7, <1>8, <1>9, <1>10
  DEF Next, Handler, Worker, Deinit

\* The timer service keeps its tasks, its lists and its schedule consistent
\* through every interleaving of the handlers, the worker and deinit.
THEOREM TimerInvariant == Spec => []TimerInv
  BY InitTimer, StepTimer, PTL DEF Spec

\* Every value stays in its declared range.
THEOREM TypeCorrect == Spec => []TypeOK
<1>1. TimerInv => TypeOK BY DEF TimerInv
<1>2. QED BY <1>1, TimerInvariant, PTL

\* No interleaving of requests with the worker's re-arming schedules a task twice.
THEOREM ArmedOnceHolds == Spec => []ArmedOnce
<1>1. TimerInv => ArmedOnce BY DEF TimerInv
<1>2. QED BY <1>1, TimerInvariant, PTL

\* StopTimer, StopAlarm and ResetAlarm always find what may still tick.
THEOREM StopReachesArmedHolds == Spec => []StopReachesArmed
<1>1. TimerInv => StopReachesArmed BY DEF TimerInv
<1>2. QED BY <1>1, TimerInvariant, PTL
-----------------------------------------------------------------------------
\* A task that ticked although it was erased is erased for good, and the worker
\* does not choose it again.
StaleInv ==
    /\ OneStaleTick
    /\ \A t \in Tasks : stale[t] > 0 => t \in erased
    /\ wpc = "tick" => stale[Head(batch)] = 0

LEMMA StepStale ==
    ASSUME TimerInv, TimerInv', StaleInv, [Next]_vars PROVE StaleInv'
<1> USE DEF StaleInv, OneStaleTick, TimerInv, handlerVars, workerVars, deinitVars,
        historyVars, dataVars
<1>1. CASE Tick
  <2>1. Head(batch) \in Tasks BY <1>1 DEF Tick, HasTask, TypeOK
  <2>2. QED BY <1>1, <2>1 DEF Tick, TypeOK
<1>2. CASE TestTask
  <2>1. batch # <<>> => Head(batch) \in Tasks BY DEF TypeOK
  <2>2. QED BY <1>2, <2>1 DEF TestTask, IsErased, TypeOK
<1>3. CASE Schedule \/ Signal \/ StartService \/ ClockTick \/ SpuriousWakeup \/ UNCHANGED vars
  BY <1>3 DEF Schedule, Signal, StartService, ClockTick, SpuriousWakeup, vars, WakeUp
<1>4. CASE OuterTest \/ OuterWait \/ InnerTest \/ TimedWait \/ Timeout \/ RearmTimer
           \/ ForgetAlarm \/ TickThrows
  BY <1>4 DEF OuterTest, OuterWait, InnerTest, TimedWait, Timeout, RearmTimer, ForgetAlarm,
     TickThrows
<1>5. CASE DeinitSetFlag \/ Deinit \/ DeinitJoin
  BY <1>5 DEF DeinitSetFlag, Deinit, DeinitClearNexts, DeinitClearAll, DeinitBroadcast,
     DeinitJoin, WakeUp
<1>6. CASE HandleRequest
  <2>1. erased \subseteq erased' /\ UNCHANGED <<stale, wpc, batch>>
    BY <1>6 DEF HandleRequest, Set, ResetAlarm, Stop, Allocate, ErasedByReset
  <2>2. QED BY <2>1
<1>7. QED BY <1>1, <1>2, <1>3, <1>4, <1>5, <1>6 DEF Next, Handler, Worker

\* A stopped or reset task ticks once more at the most, however the stop falls
\* between the worker's test of `erased' and the tick.
THEOREM OneStaleTickHolds == Spec => []OneStaleTick
<1>1. Init => StaleInv BY DEF Init, StaleInv, OneStaleTick
<1>2. StaleInv => OneStaleTick BY DEF StaleInv
<1>3. QED BY <1>1, <1>2, TimerInvariant, StepStale, PTL DEF Spec

-----------------------------------------------------------------------------
\* The worker's test and its wait are one critical section of mx_nexts, so what
\* holds while it sleeps already holds while it is about to.
SleepInv ==
    /\ wpc \in {"outertowait", "outerwait"} /\ Due # {} => wpc = "outerwait" /\ hpc = "signal"
    /\ wpc \in {"towait", "timedwait"} =>
          (wpc = "timedwait" /\ hpc = "signal") \/ \A d \in Due : ts <= d

LEMMA StepSleep ==
    ASSUME TimerInv, SleepInv, [Next]_vars PROVE SleepInv'
<1> USE DEF SleepInv, TimerInv, handlerVars, workerVars, deinitVars, historyVars, dataVars
<1>1. CASE Schedule
  BY <1>1 DEF Schedule, NextsFree
<1>2. CASE Signal \/ SpuriousWakeup \/ DeinitBroadcast
  BY <1>2 DEF Signal, SpuriousWakeup, DeinitBroadcast, WakeUp, Due, TypeOK
<1>3. CASE InnerTest
  <2>1. Due # {} => \A d \in Due : Earliest <= d BY EarliestIsLeast
  <2>2. QED BY <1>3, <2>1 DEF InnerTest, Due
<1>4. CASE OuterTest \/ OuterWait \/ TimedWait \/ Timeout
  BY <1>4 DEF OuterTest, OuterWait, TimedWait, Timeout, Due
<1>5. CASE TestTask \/ Tick \/ TickThrows \/ RearmTimer \/ ForgetAlarm \/ StartService
  BY <1>5 DEF TestTask, Tick, TickThrows, RearmTimer, ForgetAlarm, StartService
<1>6. CASE DeinitClearNexts
  <2>1. Due' = {} BY <1>6 DEF DeinitClearNexts, Due
  <2>2. QED BY <1>6, <2>1 DEF DeinitClearNexts
<1>7. CASE DeinitSetFlag \/ DeinitClearAll \/ DeinitJoin \/ ClockTick \/ UNCHANGED vars
  BY <1>7 DEF DeinitSetFlag, DeinitClearAll, DeinitJoin, ClockTick, vars, Due
<1>8. CASE HandleRequest
  <2>1. UNCHANGED <<mx_nexts, wpc, ts>> /\ hpc # "signal"
    BY <1>8 DEF HandleRequest, Set, ResetAlarm, Stop, Allocate
  <2>2. QED BY <2>1 DEF Due
<1>9. QED
  BY <1>1, <1>2, <1>3, <1>4, <1>5, <1>6, <1>7, <1>8 DEF Next, Handler, Worker, Deinit

\* The worker is never left asleep past a deadline, although the handlers signal
\* outside the mutex.
THEOREM NoOversleepHolds == Spec => []NoOversleep
<1>1. Init => SleepInv BY DEF Init, SleepInv
<1>2. SleepInv => NoOversleep BY DEF SleepInv, NoOversleep
<1>3. QED BY <1>1, <1>2, TimerInvariant, StepSleep, PTL DEF Spec
-----------------------------------------------------------------------------
(* The service implements AlarmPromise.  A step simulates one of the       *)
(* promise because of what the worker can rely on when it takes a task: it *)
(* was pushed under its deadline, and an alarm did not tick before.        *)

\* Nothing happened to a task before it was requested.
Fresh ==
    \A t \in Tasks : request[t] = None =>
        ticks[t] = 0 /\ t \notin erased /\ \A k \in Keys : t \notin timers[k]

PushedAtDue == \A d \in Times : \A i \in DOMAIN mx_nexts[d] : due[mx_nexts[d][i]] = d

BatchIsDue == \A t \in InBatch : due[t] <= now

InTick(t) == wpc = "ticked" /\ Head(batch) = t

AlarmsToCome ==
    \A t \in Armed : KeyOf(t) \in AlarmKeys /\ ~InTick(t) => ticks[t] = 0

HeadTicked == wpc = "ticked" => ticks[Head(batch)] > 0

PromiseInv == Fresh /\ PushedAtDue /\ BatchIsDue /\ AlarmsToCome /\ HeadTicked

\* The steps that take no request.
Moving ==
    \/ StartService \/ Handler \/ Worker \/ TickThrows \/ SpuriousWakeup
    \/ DeinitSetFlag \/ Deinit \/ DeinitJoin \/ ClockTick \/ UNCHANGED vars

LEMMA NextIsMoving == [Next]_vars => HandleRequest \/ Moving
  BY DEF Next, Moving

LEMMA HeadKnown ==
    ASSUME TimerInv, batch # <<>>
    PROVE  /\ Head(batch) \in Tasks /\ Head(batch) \in InBatch
           /\ request[Head(batch)] \in Request /\ request[Head(batch)] # None
<1>1. Head(batch) \in Tasks /\ 1 \in DOMAIN batch /\ Head(batch) = batch[1]
  BY DEF TimerInv, TypeOK
<1>2. Head(batch) \in InBatch BY <1>1 DEF InBatch
<1>3. QED BY <1>1, <1>2 DEF TimerInv, Known, Armed, TypeOK

\* What one request does.
LEMMA RequestEffect ==
    ASSUME TimerInv, NEW t \in Tasks, NEW k \in Keys, NEW d \in Delays,
           Set(t, k, d) \/ ResetAlarm(t, k, d)
    PROVE  /\ request[t] = None
           /\ request'[t] = [key |-> k, period |-> d] /\ request'[t] # None
           /\ due'[t] = now + d /\ now + d \in Times
           /\ due' = [due EXCEPT ![t] = now + d]
           /\ \A u \in Tasks \ {t} : request'[u] = request[u] /\ due'[u] = due[u]
           /\ \A j \in Keys : timers'[j] \subseteq timers[j] \cup {t}
           /\ \/ erased' = erased
              \/ erased' = erased \cup timers[k]
           /\ UNCHANGED <<now, mx_nexts, batch, wpc, ticks, stale>>
           /\ Armed' = Armed \cup {t} /\ t \notin Armed
           /\ InBatch' = InBatch
<1> USE DEF Set, ResetAlarm
<1>1. Allocate(t, k, d) OBVIOUS
<1>2. request[t] = None /\ request' = [request EXCEPT ![t] = [key |-> k, period |-> d]]
      /\ due' = [due EXCEPT ![t] = now + d] /\ hpc = "idle" /\ hpc' = "schedule" /\ htask' = t
  BY <1>1 DEF Allocate, Deadline
<1>3. [key |-> k, period |-> d] \in Request /\ [key |-> k, period |-> d] # None
  BY NoneAssumption DEF Request
<1>4. now + d \in Times
  BY DeadlineInTimes DEF Deadline, TimerInv, TypeOK
<1>5. UNCHANGED <<now, mx_nexts, batch, wpc, ticks, stale>>
  BY DEF workerVars, historyVars
<1>6. InNexts' = InNexts /\ InBatch' = InBatch /\ InHand = {} /\ InHand' = {t}
  BY <1>2, <1>5 DEF InNexts, InBatch, InHand
<1>7. Armed' = Armed \cup {t} /\ t \notin Armed
  BY <1>2, <1>6 DEF Armed, TimerInv, Known
<1>8. \A j \in Keys : timers'[j] \subseteq timers[j] \cup {t}
  BY DEF TimerInv, TypeOK
<1>9. erased' = erased \/ erased' = erased \cup timers[k]
  BY DEF ErasedByReset
<1>10. QED BY <1>2, <1>3, <1>4, <1>5, <1>6, <1>7, <1>8, <1>9 DEF TimerInv, TypeOK

\* The worker is done with the first task of its batch.
LEMMA PopArmed ==
    ASSUME TimerInv, batch # <<>>, batch' = Tail(batch), UNCHANGED <<mx_nexts, hpc, htask>>
    PROVE  Armed' \subseteq Armed \ {Head(batch)} /\ InBatch' \subseteq InBatch
<1>1. Head(batch) \in InBatch /\ InBatch' \subseteq InBatch \ {Head(batch)}
  BY PopPlaces DEF TimerInv, ArmedOnce
<1>2. InNexts' = InNexts /\ InHand' = InHand BY DEF InNexts, InHand
<1>3. QED BY <1>1, <1>2 DEF Armed, TimerInv, ArmedOnce, OnePlace

\* Without a request no task becomes scheduled.
LEMMA ArmedShrinks ==
    ASSUME TimerInv, Moving PROVE Armed' \subseteq Armed
<1> USE DEF handlerVars, workerVars, deinitVars, historyVars, dataVars
<1>1. CASE Schedule
  <2>1. InHand = {htask} /\ InHand' = {} /\ InBatch' = InBatch
    BY <1>1 DEF Schedule, InHand, InBatch, TimerInv, TypeOK
  <2>2. InNexts' \subseteq InNexts \cup {htask}
    BY <1>1, PushPlaces DEF Schedule, TimerInv, TypeOK
  <2>3. QED BY <2>1, <2>2 DEF Armed
<1>2. CASE InnerTest
  <2>1. InHand' = InHand BY <1>2 DEF InnerTest, InHand
  <2>2. Due # {} => Earliest \in Times
    BY EarliestIsLeast
  <2>3. InNexts' \cup InBatch' \subseteq InNexts \cup InBatch
    <3>1. CASE UNCHANGED <<mx_nexts, batch>> BY <3>1 DEF InNexts, InBatch
    <3>2. CASE Due # {} /\ mx_nexts' = TakenOut(Earliest) /\ batch' = mx_nexts[Earliest]
      BY <2>2, <3>2, TakePlaces DEF TimerInv, ArmedOnce
    <3>3. QED BY <1>2, <3>1, <3>2 DEF InnerTest
  <2>4. QED BY <2>1, <2>3 DEF Armed
<1>3. CASE RearmTimer
  <2>1. /\ Head(batch) \in Tasks /\ Head(batch) \in InBatch /\ InBatch' \subseteq InBatch
        /\ Deadline(request[Head(batch)].period) \in Times
    BY <1>3, PopPlaces, HeadKnown, DeadlineInTimes
    DEF RearmTimer, TimerInv, ArmedOnce, HasTask, TypeOK, Request
  <2>2. due'[Head(batch)] \in Times
    BY <1>3, <2>1 DEF RearmTimer, TimerInv, TypeOK
  <2>3. InNexts' \subseteq InNexts \cup {Head(batch)}
    <3>1. mx_nexts' = NextsPush(due'[Head(batch)], Head(batch)) BY <1>3 DEF RearmTimer
    <3>2. QED BY <2>1, <2>2, <3>1, PushPlaces DEF TimerInv
  <2>4. InHand' = InHand BY <1>3 DEF RearmTimer, InHand
  <2>5. QED BY <2>1, <2>3, <2>4 DEF Armed
<1>4. CASE ForgetAlarm
  BY <1>4, PopArmed DEF ForgetAlarm, TimerInv, HasTask
<1>5. CASE TestTask /\ batch' # batch
  BY <1>5, PopArmed DEF TestTask
<1>6. CASE TickThrows \/ DeinitClearNexts
  <2>1. InHand' = InHand
    BY <1>6 DEF TickThrows, DeinitClearNexts, InHand
  <2>2. DOMAIN <<>> = {} OBVIOUS
  <2>3. InBatch' \subseteq InBatch
    BY <1>6, <2>2 DEF TickThrows, DeinitClearNexts, InBatch
  <2>4. InNexts' \subseteq InNexts
    BY <1>6, <2>2 DEF TickThrows, DeinitClearNexts, InNexts
  <2>5. QED BY <2>1, <2>3, <2>4 DEF Armed
<1>7. CASE \/ StartService \/ Signal \/ OuterTest \/ OuterWait \/ TimedWait \/ Timeout
           \/ (TestTask /\ batch' = batch)
           \/ SpuriousWakeup \/ Tick \/ DeinitSetFlag \/ DeinitClearAll \/ DeinitBroadcast
           \/ DeinitJoin \/ ClockTick \/ UNCHANGED vars
  <2> USE DEF StartService, Signal, OuterTest, OuterWait, TimedWait, Timeout, TestTask,
          SpuriousWakeup, Tick, DeinitSetFlag, DeinitClearAll, DeinitBroadcast, DeinitJoin,
          ClockTick, vars
  <2>1. UNCHANGED <<mx_nexts, batch>> /\ (hpc' = hpc \/ hpc' # "schedule") /\ htask' = htask
    BY <1>7
  <2>2. InNexts' = InNexts /\ InBatch' = InBatch /\ InHand' \subseteq InHand
    BY <2>1 DEF InNexts, InBatch, InHand
  <2>3. QED BY <2>2 DEF Armed
<1>8. QED
  BY <1>1, <1>2, <1>3, <1>4, <1>5, <1>6, <1>7 DEF Moving, Handler, Worker, Deinit

-----------------------------------------------------------------------------
\* Only requests touch the record of a task; lists only lose tasks otherwise.
LEMMA StepFresh ==
    ASSUME TimerInv, Fresh, [Next]_vars PROVE Fresh'
<1> USE DEF handlerVars, workerVars, deinitVars, historyVars, dataVars
<1>1. ASSUME NEW t \in Tasks, NEW k \in Keys, NEW d \in Delays,
             Set(t, k, d) \/ ResetAlarm(t, k, d)
      PROVE  Fresh'
  <2> SUFFICES ASSUME NEW u \in Tasks, request'[u] = None
               PROVE  ticks'[u] = 0 /\ u \notin erased' /\ \A j \in Keys : u \notin timers'[j]
    BY DEF Fresh
  <2>1. u # t BY <1>1, RequestEffect
  <2>2. request[u] = None BY <1>1, <2>1, RequestEffect
  <2>3. ticks[u] = 0 /\ u \notin erased /\ \A j \in Keys : u \notin timers[j]
    BY <2>2 DEF Fresh
  <2>4. /\ ticks' = ticks /\ (erased' = erased \/ erased' = erased \cup timers[k])
        /\ \A j \in Keys : timers'[j] \subseteq timers[j] \cup {t}
    BY <1>1, RequestEffect
  <2>5. QED BY <2>1, <2>3, <2>4
<1>2. ASSUME NEW k \in Keys, Stop(k) PROVE Fresh'
  <2>1. UNCHANGED <<request, ticks>> /\ erased' = erased \cup timers[k]
        /\ \A j \in Keys : timers'[j] \subseteq timers[j]
    BY <1>2 DEF Stop, TimerInv, TypeOK
  <2>2. QED BY <2>1 DEF Fresh
<1>3. CASE HandleRequest BY <1>1, <1>2, <1>3 DEF HandleRequest
<1>4. CASE Tick
  <2>1. Head(batch) \in Tasks /\ request[Head(batch)] # None
    BY <1>4, HeadKnown DEF Tick, TimerInv, HasTask
  <2>2. UNCHANGED <<request, erased, timers>>
        /\ \A u \in Tasks : u # Head(batch) => ticks'[u] = ticks[u]
    BY <1>4 DEF Tick, TimerInv, TypeOK
  <2>3. QED BY <2>1, <2>2 DEF Fresh
<1>5. CASE UNCHANGED <<request, ticks, erased>> /\ \A j \in Keys : timers'[j] \subseteq timers[j]
  BY <1>5 DEF Fresh
<1>6. CASE TestTask \/ ForgetAlarm \/ DeinitClearAll
  <2>1. timers' = timers \/ timers' = RemoveOnly(Head(batch)) \/ timers' = [k \in Keys |-> {}]
    BY <1>6 DEF TestTask, ForgetAlarm, DeinitClearAll
  <2>2. \A j \in Keys : timers'[j] \subseteq timers[j]
    BY <2>1 DEF RemoveOnly, TimerInv, TypeOK
  <2>3. UNCHANGED <<request, ticks, erased>>
    BY <1>6 DEF TestTask, ForgetAlarm, DeinitClearAll
  <2>4. QED BY <1>5, <2>2, <2>3
<1>7. CASE UNCHANGED <<request, ticks, erased, timers>>
  BY <1>5, <1>7
<1>8. CASE StartService \/ Handler \/ OuterTest \/ OuterWait \/ InnerTest \/ TimedWait \/ Timeout
  BY <1>7, <1>8
  DEF StartService, Handler, Schedule, Signal, OuterTest, OuterWait, InnerTest, TimedWait, Timeout
<1>9. CASE RearmTimer \/ TickThrows \/ SpuriousWakeup \/ DeinitSetFlag \/ DeinitClearNexts
           \/ DeinitBroadcast \/ DeinitJoin \/ ClockTick \/ UNCHANGED vars
  BY <1>7, <1>9
  DEF RearmTimer, TickThrows, SpuriousWakeup, DeinitSetFlag, DeinitClearNexts,
      DeinitBroadcast, DeinitJoin, ClockTick, vars
<1>10. QED
  BY <1>3, <1>4, <1>6, <1>8, <1>9, NextIsMoving DEF Moving, Worker, Deinit
\* mx_nexts files a task under its tb.
LEMMA StepPushedAtDue ==
    ASSUME TimerInv, PushedAtDue, [Next]_vars PROVE PushedAtDue'
<1> USE DEF handlerVars, workerVars, deinitVars, historyVars, dataVars
<1>1. ASSUME NEW t \in Tasks, UNCHANGED mx_nexts, t \notin InNexts,
             \A u \in Tasks \ {t} : due'[u] = due[u]
      PROVE  PushedAtDue'
  <2>1. \A d \in Times : \A i \in DOMAIN mx_nexts[d] :
            mx_nexts[d][i] \in Tasks \ {t}
    BY <1>1 DEF InNexts, TimerInv, TypeOK
  <2>2. QED BY <1>1, <2>1 DEF PushedAtDue
<1>2. ASSUME NEW t \in Tasks, NEW k \in Keys, NEW d \in Delays,
             Set(t, k, d) \/ ResetAlarm(t, k, d)
      PROVE  PushedAtDue'
  <2>1. t \notin InNexts /\ UNCHANGED mx_nexts /\ \A u \in Tasks \ {t} : due'[u] = due[u]
    BY <1>2, RequestEffect DEF Armed
  <2>2. QED BY <1>1, <2>1
<1>3. CASE UNCHANGED <<mx_nexts, due>>
  BY <1>3 DEF PushedAtDue
<1>4. CASE HandleRequest
  BY <1>2, <1>3, <1>4 DEF HandleRequest, Stop
<1>5. ASSUME NEW t \in Tasks, NEW d \in Times, mx_nexts' = NextsPush(d, t), t \notin InNexts,
             due'[t] = d, \A u \in Tasks \ {t} : due'[u] = due[u]
      PROVE  PushedAtDue'
  <2>1. \A e \in Times : \A i \in DOMAIN mx_nexts'[e] :
                 \/ i \in DOMAIN mx_nexts[e] /\ mx_nexts'[e][i] = mx_nexts[e][i]
                 \/ e = d /\ mx_nexts'[e][i] = t
    BY <1>5, PushPlaces DEF TimerInv
  <2>2. \A e \in Times : \A i \in DOMAIN mx_nexts[e] : mx_nexts[e][i] \in Tasks \ {t}
    BY <1>5 DEF InNexts, TimerInv, TypeOK
  <2>3. QED BY <1>5, <2>1, <2>2 DEF PushedAtDue
<1>6. CASE Schedule
  <2>1. /\ htask \in Tasks /\ due[htask] \in Times /\ htask \notin InNexts
        /\ mx_nexts' = NextsPush(due[htask], htask) /\ due' = due
    BY <1>6 DEF Schedule, TimerInv, TypeOK, ArmedOnce, OnePlace, InHand
  <2>2. QED BY <1>5, <2>1
<1>7. CASE RearmTimer
  <2>1. /\ Head(batch) \in Tasks /\ Head(batch) \notin InNexts
        /\ Deadline(request[Head(batch)].period) \in Times
    BY <1>7, HeadKnown, DeadlineInTimes
    DEF RearmTimer, TimerInv, HasTask, TypeOK, Request, ArmedOnce, OnePlace
  <2>2. /\ due'[Head(batch)] \in Times
        /\ \A u \in Tasks \ {Head(batch)} : due'[u] = due[u]
    BY <1>7, <2>1 DEF RearmTimer, TimerInv, TypeOK
  <2>3. mx_nexts' = NextsPush(due'[Head(batch)], Head(batch))
    BY <1>7 DEF RearmTimer
  <2>4. QED BY <1>5, <2>1, <2>2, <2>3
<1>8. ASSUME UNCHANGED due,
             \A d \in Times : mx_nexts'[d] = mx_nexts[d] \/ mx_nexts'[d] = <<>>
      PROVE  PushedAtDue'
  <2>1. DOMAIN <<>> = {} OBVIOUS
  <2>2. QED BY <1>8, <2>1 DEF PushedAtDue
<1>9. CASE InnerTest \/ DeinitClearNexts
  BY <1>8, <1>9 DEF InnerTest, DeinitClearNexts, TakenOut, TimerInv, TypeOK
<1>10. CASE StartService \/ Signal \/ OuterTest \/ OuterWait \/ TimedWait \/ Timeout
            \/ TestTask \/ ForgetAlarm
  BY <1>3, <1>10
  DEF StartService, Signal, OuterTest, OuterWait, TimedWait, Timeout, TestTask, ForgetAlarm
<1>11. CASE Tick \/ TickThrows \/ SpuriousWakeup \/ DeinitSetFlag \/ DeinitClearAll
           \/ DeinitBroadcast \/ DeinitJoin \/ ClockTick \/ UNCHANGED vars
  BY <1>3, <1>11
  DEF Tick, TickThrows, SpuriousWakeup, DeinitSetFlag, DeinitClearAll,
      DeinitBroadcast, DeinitJoin, ClockTick, vars
<1>12. QED
  BY <1>4, <1>6, <1>7, <1>9, <1>10, <1>11, NextIsMoving
  DEF Moving, Handler, Worker, Deinit

\* The worker takes no batch before its deadline.
LEMMA StepBatchIsDue ==
    ASSUME TimerInv, PushedAtDue, BatchIsDue, [Next]_vars PROVE BatchIsDue'
<1> USE DEF handlerVars, workerVars, deinitVars, historyVars, dataVars
<1>1. InBatch \subseteq Tasks BY DEF InBatch
<1>2. ASSUME InBatch' \subseteq InBatch, \A u \in InBatch' : due'[u] = due[u],
             now' = now \/ now' = now + 1
      PROVE  BatchIsDue'
  <2> SUFFICES ASSUME NEW u \in InBatch' PROVE due'[u] <= now'
    BY DEF BatchIsDue
  <2>1. due[u] <= now /\ due'[u] = due[u]
    BY <1>2 DEF BatchIsDue
  <2>2. due[u] \in Nat /\ now \in Nat
    <3>1. u \in Tasks BY <1>1, <1>2
    <3>2. due[u] \in Times \cup {0} /\ now \in 0 .. Horizon
      BY <3>1 DEF TimerInv, TypeOK
    <3>3. now \in Nat BY <3>2, BoundsAssumption
    <3>4. Times \cup {0} \subseteq Nat BY TimesNat
    <3>5. QED BY <3>2, <3>3, <3>4
  <2>3. QED BY <1>2, <2>1, <2>2
<1>3. ASSUME NEW t \in Tasks, NEW k \in Keys, NEW d \in Delays,
             Set(t, k, d) \/ ResetAlarm(t, k, d)
      PROVE  BatchIsDue'
  <2>1. InBatch' = InBatch /\ t \notin InBatch /\ now' = now
        /\ \A u \in Tasks \ {t} : due'[u] = due[u]
    BY <1>3, RequestEffect DEF Armed
  <2>2. QED BY <1>1, <1>2, <2>1
<1>4. CASE UNCHANGED <<batch, due, now>>
  <2>1. InBatch' = InBatch BY <1>4 DEF InBatch
  <2>2. QED BY <1>2, <1>4, <2>1
<1>5. CASE HandleRequest
  BY <1>3, <1>4, <1>5 DEF HandleRequest, Stop
<1>6. CASE ClockTick
  <2>1. InBatch' = InBatch BY <1>6 DEF ClockTick, InBatch
  <2>2. QED BY <1>2, <1>6, <2>1 DEF ClockTick
<1>7. CASE InnerTest
  <2>1. CASE UNCHANGED batch BY <1>4, <1>7, <2>1 DEF InnerTest
  <2>2. CASE Due # {} /\ Reached(Earliest) /\ batch' = mx_nexts[Earliest]
    <3>1. Earliest \in Times BY <2>2, EarliestIsLeast
    <3>2. UNCHANGED <<due, now>> BY <1>7 DEF InnerTest
    <3>3. ASSUME NEW u \in InBatch' PROVE due'[u] <= now'
      <4>1. PICK i \in DOMAIN mx_nexts[Earliest] : mx_nexts[Earliest][i] = u
        BY <2>2, <3>3 DEF InBatch
      <4>2. due[u] = Earliest BY <3>1, <4>1 DEF PushedAtDue
      <4>3. Earliest \in Nat /\ now \in Nat
        BY <3>1, TimesNat DEF TimerInv, TypeOK
      <4>4. QED BY <2>2, <3>2, <4>2, <4>3 DEF Reached
    <3>4. QED BY <3>3 DEF BatchIsDue
  <2>3. QED BY <1>7, <2>1, <2>2 DEF InnerTest
<1>8. CASE batch # <<>> /\ batch' = Tail(batch) /\ UNCHANGED now
           /\ \A u \in Tasks \ {Head(batch)} : due'[u] = due[u]
  <2>1. InBatch' \subseteq InBatch \ {Head(batch)}
    BY <1>8, PopPlaces DEF TimerInv, ArmedOnce
  <2>2. QED BY <1>1, <1>2, <1>8, <2>1
<1>9. CASE RearmTimer
  BY <1>8, <1>9 DEF RearmTimer, TimerInv, HasTask, TypeOK
<1>10. CASE ForgetAlarm
  BY <1>8, <1>10 DEF ForgetAlarm, TimerInv, HasTask
<1>11. CASE TestTask
  BY <1>4, <1>8, <1>11 DEF TestTask
<1>12. CASE TickThrows
  <2>1. DOMAIN <<>> = {} OBVIOUS
  <2>2. InBatch' = {} BY <1>12, <2>1 DEF TickThrows, InBatch
  <2>3. QED BY <2>2 DEF BatchIsDue
<1>13. CASE StartService \/ Handler \/ OuterTest \/ OuterWait \/ TimedWait \/ Timeout
  BY <1>4, <1>13
  DEF StartService, Handler, Schedule, Signal, OuterTest, OuterWait, TimedWait, Timeout
<1>14. CASE Tick \/ SpuriousWakeup \/ DeinitSetFlag \/ Deinit \/ DeinitJoin \/ UNCHANGED vars
  BY <1>4, <1>14
  DEF Tick, SpuriousWakeup, DeinitSetFlag, Deinit, DeinitClearNexts, DeinitClearAll,
      DeinitBroadcast, DeinitJoin, vars
<1>15. QED
  BY <1>5, <1>6, <1>7, <1>9, <1>10, <1>11, <1>12, <1>13, <1>14, NextIsMoving
  DEF Moving, Worker
\* An alarm that ticked is forgotten at once; no handler can find it scheduled.
LEMMA StepAlarmsToCome ==
    ASSUME TimerInv, Fresh, AlarmsToCome, [Next]_vars PROVE AlarmsToCome'
<1> USE DEF handlerVars, workerVars, deinitVars, historyVars, dataVars
<1>1. Armed \subseteq Tasks BY DEF Armed, InNexts, InBatch, InHand
<1>2. ASSUME NEW t \in Tasks, NEW k \in Keys, NEW d \in Delays,
             Set(t, k, d) \/ ResetAlarm(t, k, d)
      PROVE  AlarmsToCome'
  <2>1. /\ Armed' = Armed \cup {t} /\ request[t] = None
        /\ \A u \in Tasks \ {t} : request'[u] = request[u]
        /\ UNCHANGED <<ticks, wpc, batch>>
    BY <1>2, RequestEffect
  <2>2. ticks'[t] = 0 BY <2>1 DEF Fresh
  <2>3. ASSUME NEW u \in Armed', u # t, KeyOf(u)' \in AlarmKeys, ~InTick(u)'
        PROVE  ticks'[u] = 0
    <3>1. u \in Armed /\ KeyOf(u) \in AlarmKeys /\ ~InTick(u)
      BY <1>1, <2>1, <2>3 DEF KeyOf, InTick
    <3>2. QED BY <2>1, <3>1 DEF AlarmsToCome
  <2>4. QED BY <2>2, <2>3 DEF AlarmsToCome
<1>3. ASSUME Armed' \subseteq Armed, UNCHANGED request,
             \A u \in Armed' : KeyOf(u) \in AlarmKeys /\ ~InTick(u)' =>
                 ticks'[u] = ticks[u] /\ ~InTick(u)
      PROVE  AlarmsToCome'
  <2> SUFFICES ASSUME NEW u \in Armed', KeyOf(u)' \in AlarmKeys, ~InTick(u)'
               PROVE  ticks'[u] = 0
    BY DEF AlarmsToCome
  <2>1. KeyOf(u) \in AlarmKeys BY <1>3 DEF KeyOf
  <2>2. QED BY <1>3, <2>1 DEF AlarmsToCome
<1>4. CASE Armed' = Armed /\ UNCHANGED <<request, ticks, wpc, batch>>
  BY <1>3, <1>4 DEF InTick
<1>5. ASSUME NEW k \in Keys, Stop(k) PROVE AlarmsToCome'
  <2>1. UNCHANGED <<request, ticks, wpc, batch, mx_nexts, hpc, htask>>
    BY <1>5 DEF Stop
  <2>2. Armed' = Armed BY <2>1 DEF Armed, InNexts, InBatch, InHand
  <2>3. QED BY <1>4, <2>1, <2>2
<1>6. CASE HandleRequest BY <1>2, <1>5, <1>6 DEF HandleRequest
<1>7. CASE Moving
  <2>1. Armed' \subseteq Armed BY <1>7, ArmedShrinks
  <2>2. CASE Tick
    <3>1. ASSUME NEW u \in Armed', ~InTick(u)' PROVE ticks'[u] = ticks[u] /\ ~InTick(u)
      <4>1. u \in Tasks /\ u # Head(batch)
        BY <1>1, <2>1, <2>2, <3>1 DEF Tick, InTick
      <4>2. QED BY <2>2, <4>1 DEF Tick, InTick, TimerInv, TypeOK
    <3>2. UNCHANGED request BY <2>2 DEF Tick
    <3>3. QED BY <1>3, <2>1, <3>1, <3>2
  <2>3. CASE RearmTimer
    <3>1. \A u \in Armed' : KeyOf(u) \in AlarmKeys => ~InTick(u)
      BY <2>3, KeysAssumption DEF RearmTimer, InTick
    <3>2. UNCHANGED <<request, ticks>> BY <2>3 DEF RearmTimer
    <3>3. QED BY <1>3, <2>1, <3>1, <3>2
  <2>4. CASE ForgetAlarm
    <3>1. Armed' \subseteq Armed \ {Head(batch)}
      BY <2>4, PopArmed DEF ForgetAlarm, TimerInv, HasTask
    <3>2. UNCHANGED <<request, ticks>> BY <2>4 DEF ForgetAlarm
    <3>3. QED BY <1>3, <3>1, <3>2 DEF InTick
  <2>5. CASE UNCHANGED <<request, ticks>> /\ wpc # "ticked"
    BY <1>3, <2>1, <2>5 DEF InTick
  <2>6. CASE UNCHANGED <<request, ticks, wpc, batch>>
    BY <1>3, <2>1, <2>6 DEF InTick
  <2>7. CASE StartService \/ OuterTest \/ OuterWait \/ InnerTest \/ TimedWait \/ Timeout
             \/ TestTask \/ TickThrows \/ SpuriousWakeup
    BY <2>5, <2>7
    DEF StartService, OuterTest, OuterWait, InnerTest, TimedWait, Timeout, TestTask, TickThrows,
        SpuriousWakeup, Waiting
  <2>8. CASE Handler \/ Deinit \/ DeinitSetFlag \/ DeinitJoin \/ ClockTick \/ UNCHANGED vars
    <3>1. UNCHANGED <<request, ticks>> /\ (wpc = "ticked" => UNCHANGED <<wpc, batch>>)
      BY <2>8
      DEF Handler, Schedule, Signal, Deinit, DeinitClearNexts, DeinitClearAll, DeinitBroadcast,
          DeinitSetFlag, DeinitJoin, ClockTick, vars, WakeUp
    <3>2. QED BY <2>5, <2>6, <3>1
  <2>9. QED BY <1>7, <2>2, <2>3, <2>4, <2>7, <2>8 DEF Moving, Worker
<1>8. QED BY <1>6, <1>7, NextIsMoving

LEMMA StepHeadTicked ==
    ASSUME TimerInv, HeadTicked, [Next]_vars PROVE HeadTicked'
<1> USE DEF handlerVars, workerVars, deinitVars, historyVars, dataVars
<1>1. CASE Tick
  <2>1. Head(batch) \in Tasks /\ batch' = batch
    BY <1>1, HeadKnown DEF Tick, TimerInv, HasTask
  <2>2. QED BY <1>1, <2>1 DEF Tick, HeadTicked, TimerInv, TypeOK
<1>2. CASE wpc' # "ticked" BY <1>2 DEF HeadTicked
<1>3. CASE UNCHANGED <<wpc, batch, ticks>> BY <1>3 DEF HeadTicked
<1>4. CASE HandleRequest
  BY <1>3, <1>4 DEF HandleRequest, Set, ResetAlarm, Stop, Allocate
<1>5. CASE StartService \/ OuterTest \/ OuterWait \/ InnerTest \/ TimedWait \/ Timeout
           \/ TestTask \/ RearmTimer \/ ForgetAlarm \/ TickThrows
  BY <1>2, <1>5
  DEF StartService, OuterTest, OuterWait, InnerTest, TimedWait, Timeout, TestTask, RearmTimer,
      ForgetAlarm, TickThrows
<1>6. CASE Handler \/ SpuriousWakeup \/ Deinit \/ DeinitSetFlag \/ DeinitJoin \/ ClockTick
           \/ UNCHANGED vars
  BY <1>2, <1>3, <1>6
  DEF Handler, Schedule, Signal, SpuriousWakeup, Deinit, DeinitClearNexts, DeinitClearAll,
      DeinitBroadcast, DeinitSetFlag, DeinitJoin, ClockTick, vars, WakeUp
<1>7. QED BY <1>1, <1>4, <1>5, <1>6, NextIsMoving DEF Moving, Worker

LEMMA InitPromise == Init => PromiseInv
<1> SUFFICES ASSUME Init PROVE PromiseInv
  OBVIOUS
<1>1. DOMAIN <<>> = {} OBVIOUS
<1>2. Fresh /\ HeadTicked BY DEF Init, Fresh, HeadTicked
<1>3. PushedAtDue /\ BatchIsDue
  BY <1>1 DEF Init, PushedAtDue, BatchIsDue, InBatch
<1>4. AlarmsToCome BY NothingArmed DEF Init, AlarmsToCome
<1>5. QED BY <1>2, <1>3, <1>4 DEF PromiseInv

LEMMA StepPromise ==
    ASSUME TimerInv, PromiseInv, [Next]_vars PROVE PromiseInv'
  BY StepFresh, StepPushedAtDue, StepBatchIsDue, StepAlarmsToCome, StepHeadTicked
  DEF PromiseInv
-----------------------------------------------------------------------------
(* Step simulation. *)

\* A request of the service is a request of the promise.
LEMMA RequestSimulates ==
    ASSUME TimerInv, PromiseInv, NEW t \in Tasks, NEW k \in Keys, NEW d \in Delays,
           Set(t, k, d) \/ ResetAlarm(t, k, d)
    PROVE  Promise!Request(t, now + d)
<1>1. /\ request[t] = None /\ request'[t] # None /\ t \notin Armed
      /\ due' = [due EXCEPT ![t] = now + d]
      /\ \A u \in Tasks \ {t} : request'[u] = request[u]
      /\ UNCHANGED <<now, batch, wpc, ticks, stale>>
      /\ erased' = erased \/ erased' = erased \cup timers[k]
  BY RequestEffect
<1>2. ticks[t] = 0 /\ t \notin erased /\ t \notin timers[k]
  BY <1>1 DEF PromiseInv, Fresh
<1>3. t \notin armed BY <1>1 DEF armed
<1>4. now + d > now
  BY DelaysAssumption, BoundsAssumption DEF TimerInv, TypeOK
<1>5. wpc = "ticked" => Head(batch) # t
  BY <1>1, HeadKnown DEF TimerInv, HasTask
<1>6. t \in armed'
  BY <1>1, <1>2, <1>5 DEF armed
<1>7. ASSUME NEW u \in Tasks \ {t} PROVE u \in armed' <=> u \in armed
  BY <1>1, <1>7 DEF armed, KeyOf
<1>8. armed' = armed \cup {t}
  <2>1. armed \subseteq Tasks /\ armed' \subseteq Tasks BY DEF armed
  <2>2. QED BY <1>6, <1>7, <2>1
<1>9. erased' \in SUBSET (Tasks \ {t}) /\ erased \subseteq erased'
  <2>1. erased \subseteq Tasks /\ timers[k] \subseteq Tasks
    BY DEF TimerInv, TypeOK
  <2>2. QED BY <1>1, <1>2, <2>1
<1>10. QED BY <1>1, <1>2, <1>3, <1>4, <1>8, <1>9 DEF Promise!Request, Promise!Arm

\* passEvent is a tick of the promise: the worker chose a task that is due, that
\* is no alarm that ticked before and, if erased since, had no stale tick.
LEMMA TickSimulates ==
    ASSUME TimerInv, PromiseInv, StaleInv, Tick
    PROVE  Head(batch) \in Tasks /\ Promise!Tick(Head(batch))
<1> DEFINE t == Head(batch)
<1>1. /\ t \in Tasks /\ t \in InBatch /\ request[t] # None
  BY HeadKnown DEF Tick, TimerInv, HasTask
<1>2. /\ wpc = "tick" /\ wpc' = "ticked" /\ Head(batch') = t
      /\ ticks' = [ticks EXCEPT ![t] = @ + 1]
      /\ stale' = [stale EXCEPT ![t] = IF t \in erased THEN @ + 1 ELSE @]
      /\ UNCHANGED <<now, request, due, erased>>
  BY DEF Tick, dataVars
<1>3. KeyOf(t) \in AlarmKeys => ticks[t] = 0
  BY <1>1, <1>2 DEF PromiseInv, AlarmsToCome, InTick, Armed
<1>4. t \in armed
  <2>1. ticks[t] \in Nat BY <1>1 DEF TimerInv, TypeOK
  <2>2. QED BY <1>1, <1>2, <1>3, <2>1 DEF armed
<1>5. now >= due[t]
  <2>1. due[t] <= now BY <1>1 DEF PromiseInv, BatchIsDue
  <2>2. QED BY <2>1
<1>6. armed' = armed \ {t}
  <2>1. \A u \in Tasks \ {t} : ticks'[u] = ticks[u]
    BY <1>2 DEF TimerInv, TypeOK
  <2>2. t \notin armed' BY <1>2 DEF armed
  <2>3. ASSUME NEW u \in Tasks \ {t} PROVE u \in armed' <=> u \in armed
    BY <1>2, <2>1, <2>3 DEF armed, KeyOf
  <2>4. armed \subseteq Tasks /\ armed' \subseteq Tasks BY DEF armed
  <2>5. QED BY <2>2, <2>3, <2>4
<1>7. \/ t \notin erased /\ UNCHANGED stale
      \/ t \in erased /\ stale[t] = 0 /\ stale' = [stale EXCEPT ![t] = 1]
  <2>1. stale[t] = 0 BY <1>2 DEF StaleInv
  <2>2. stale \in [Tasks -> Nat] BY DEF TimerInv, TypeOK
  <2>3. CASE t \notin erased
    <3>1. stale' = [stale EXCEPT ![t] = stale[t]] BY <1>2, <2>3
    <3>2. QED BY <1>1, <2>2, <2>3, <3>1
  <2>4. CASE t \in erased
    <3>1. stale' = [stale EXCEPT ![t] = stale[t] + 1] BY <1>2, <2>4
    <3>2. QED BY <2>1, <2>4, <3>1
  <2>5. QED BY <2>3, <2>4
<1>8. QED BY <1>1, <1>2, <1>4, <1>5, <1>6, <1>7 DEF Promise!Tick

\* The worker's re-arming is the promise's.
LEMMA RearmSimulates ==
    ASSUME TimerInv, PromiseInv, RearmTimer
    PROVE  \E t \in Tasks, d \in Times : Promise!Rearm(t, d)
<1> DEFINE t == Head(batch)
           d == Deadline(request[t].period)
<1>1. /\ t \in Tasks /\ request[t] \in Request /\ request[t] # None
  BY HeadKnown DEF RearmTimer, TimerInv, HasTask
<1>2. /\ wpc = "ticked" /\ wpc' = "batch" /\ KeyOf(t) \in TimerKeys
      /\ due' = [due EXCEPT ![t] = d]
      /\ UNCHANGED <<now, request, erased, ticks, stale>>
  BY DEF RearmTimer, historyVars
<1>3. d \in Times /\ d > now
  <2>1. request[t].period \in Delays BY <1>1 DEF Request
  <2>2. now \in 0 .. Horizon BY DEF TimerInv, TypeOK
  <2>3. request[t].period \in Nat \ {0}
    BY <2>1, DelaysAssumption
  <2>4. d > now
    <3>1. now \in Nat BY <2>2, BoundsAssumption
    <3>2. QED BY <2>3, <3>1 DEF Deadline
  <2>5. QED BY <2>1, <2>2, <2>4, DeadlineInTimes
<1>4. t \notin armed /\ ticks[t] > 0
  BY <1>2 DEF armed, PromiseInv, HeadTicked
<1>5. armed' = armed \cup {t}
  <2>1. t \in armed'
    BY <1>1, <1>2, KeysAssumption DEF armed, KeyOf
  <2>2. ASSUME NEW u \in Tasks \ {t} PROVE u \in armed' <=> u \in armed
    BY <1>2, <2>2 DEF armed, KeyOf
  <2>3. armed \subseteq Tasks /\ armed' \subseteq Tasks BY DEF armed
  <2>4. QED BY <1>1, <2>1, <2>2, <2>3
<1>6. Promise!Rearm(t, d)
  BY <1>2, <1>3, <1>4, <1>5 DEF Promise!Rearm, Promise!Arm
<1>7. QED BY <1>1, <1>3, <1>6

\* No other step changes what a request owes.
LEMMA ArmedStays ==
    ASSUME UNCHANGED <<request, ticks>>,
           \/ wpc # "ticked" /\ wpc' # "ticked"
           \/ UNCHANGED <<wpc, batch>>
    PROVE  armed' = armed
  BY DEF armed, KeyOf

LEMMA StepSimulates ==
    ASSUME TimerInv, PromiseInv, StaleInv, [Next]_vars
    PROVE  [Promise!Next]_(Promise!vars)
<1> USE DEF handlerVars, workerVars, deinitVars, historyVars, dataVars
<1>1. ASSUME NEW t \in Tasks, NEW k \in Keys, NEW d \in Delays,
             Set(t, k, d) \/ ResetAlarm(t, k, d)
      PROVE  Promise!Next
  <2>1. now + d \in Times BY <1>1, RequestEffect
  <2>2. Promise!Request(t, now + d) BY <1>1, RequestSimulates
  <2>3. QED BY <2>1, <2>2 DEF Promise!Next
<1>2. ASSUME NEW k \in Keys, Stop(k) PROVE Promise!Next
  <2>1. erased' = erased \cup timers[k] /\ UNCHANGED <<now, request, due, ticks, stale, wpc, batch>>
    BY <1>2 DEF Stop
  <2>2. armed' = armed BY <2>1, ArmedStays
  <2>3. erased' \in SUBSET Tasks
    BY <2>1 DEF TimerInv, TypeOK
  <2>4. Promise!Cancel BY <2>1, <2>2, <2>3 DEF Promise!Cancel
  <2>5. QED BY <2>4 DEF Promise!Next
<1>3. CASE HandleRequest BY <1>1, <1>2, <1>3 DEF HandleRequest
<1>4. CASE Tick BY <1>4, TickSimulates DEF Promise!Next
<1>5. CASE RearmTimer
  <2>1. PICK t \in Tasks, d \in Times : Promise!Rearm(t, d)
    BY <1>5, RearmSimulates
  <2>2. QED BY <2>1 DEF Promise!Next
<1>6. CASE ClockTick
  <2>1. now' = now + 1 /\ UNCHANGED <<request, due, erased, ticks, stale, wpc, batch>>
    BY <1>6 DEF ClockTick
  <2>2. Promise!Time BY <2>1, ArmedStays DEF Promise!Time
  <2>3. QED BY <2>2 DEF Promise!Next
<1>7. CASE ForgetAlarm
  <2>1. /\ wpc = "ticked" /\ wpc' = "batch" /\ KeyOf(Head(batch)) \in AlarmKeys
        /\ UNCHANGED <<now, request, due, erased, ticks, stale>>
    BY <1>7 DEF ForgetAlarm
  <2>2. ticks[Head(batch)] > 0 BY <2>1 DEF PromiseInv, HeadTicked
  <2>3. armed' = armed BY <2>1, <2>2 DEF armed, KeyOf
  <2>4. QED BY <2>1, <2>3 DEF Promise!vars
<1>8. CASE UNCHANGED <<now, request, due, erased, ticks, stale>>
           /\ ((wpc # "ticked" /\ wpc' # "ticked") \/ UNCHANGED <<wpc, batch>>)
  BY <1>8, ArmedStays DEF Promise!vars
<1>9. CASE StartService \/ OuterTest \/ OuterWait \/ InnerTest \/ TimedWait \/ Timeout
           \/ TestTask \/ TickThrows
  BY <1>8, <1>9
  DEF StartService, OuterTest, OuterWait, InnerTest, TimedWait, Timeout, TestTask, TickThrows
<1>10. CASE Handler \/ SpuriousWakeup \/ Deinit \/ DeinitSetFlag \/ DeinitJoin \/ UNCHANGED vars
  BY <1>8, <1>10
  DEF Handler, Schedule, Signal, SpuriousWakeup, Deinit, DeinitClearNexts, DeinitClearAll,
      DeinitBroadcast, DeinitSetFlag, DeinitJoin, vars, WakeUp
<1>11. QED
  BY <1>3, <1>4, <1>5, <1>6, <1>7, <1>9, <1>10, NextIsMoving DEF Moving, Worker

\* The timer service implements the promise: no request ticks early, no alarm
\* twice, a timer only after its next deadline, and a task that StopTimer,
\* StopAlarm or ResetAlarm erased a single time at the most.
THEOREM ServiceKeepsPromise == Spec => KeepsPromise
<1>1. Init => Promise!Init
  BY DEF Init, Promise!Init, armed
<1>2. Init => StaleInv BY DEF Init, StaleInv, OneStaleTick
<1>3. QED
  BY <1>1, <1>2, InitPromise, StepPromise, StepStale, StepSimulates, TimerInvariant, PTL
  DEF Spec, KeepsPromise, Promise!Spec
=============================================================================
