---------------------- MODULE ListenerBufferedProofs ----------------------
(***************************************************************************)
(* Theorems about the multithreaded listener, for any number of events,    *)
(* threads and senders, and at the end about the single-threaded one.      *)
(***************************************************************************)
EXTENDS ListenerBuffered, FiniteSetTheorems, SequenceTheorems, TLAPS

\* The sequence operations of EventDeque stay within the items of a deque.
LEMMA PushItem ==
    ASSUME NEW s \in Seq(Items), NEW x \in Items
    PROVE  Append(s, x) \in Seq(Items)
  OBVIOUS

LEMMA PopItem ==
    ASSUME NEW s \in Seq(Items), s # <<>>
    PROVE  Head(s) \in Items /\ Tail(s) \in Seq(Items)
  OBVIOUS

LEMMA ItemsFact == NULL \in Items /\ Events \subseteq Items /\ Items \ {NULL} \subseteq Events
  BY NullAssumption DEF Items

\* Every value stays in its declared range, and a call that is about to push
\* has a worker to push to (the test of __ed in listenToEvent).
THEOREM TypeCorrect == Spec => []TypeOK
<1> USE DEF TypeOK, WorkerPC, CallPC, MainPC
<1>1. Init => TypeOK
  <2> SUFFICES ASSUME Init PROVE TypeOK
    OBVIOUS
  <2>1. deque \in [Workers -> Seq(Items)]
    BY DEF Init
  <2>2. QED BY <2>1, ItemsFact DEF Init
<1>2. TypeOK /\ [Next]_vars => TypeOK'
  <2> SUFFICES ASSUME TypeOK, [Next]_vars PROVE TypeOK'
    OBVIOUS
  <2> USE DEF Woken, callVars, deinitVars, workerVars
  <2>1. ASSUME NEW e \in Events, Submit(e) PROVE TypeOK'
    BY <2>1 DEF Submit
  <2>2. ASSUME NEW e \in Events, Call(e) PROVE TypeOK'
    <3>1. CASE PickIdle(e)
      <4>1. CASE UNCHANGED target /\ call' = [call EXCEPT ![e] = "grow"]
        BY <3>1, <4>1 DEF PickIdle
      <4>2. ASSUME NEW w \in m_container, target' = [target EXCEPT ![e] = w],
                   call' = [call EXCEPT ![e] = "push"]
            PROVE  TypeOK'
        <5>1. w \in Workers OBVIOUS
        <5>2. call' \in [Events -> CallPC] BY <4>2
        <5>3. target' \in [Events -> Workers \cup {NULL}] BY <4>2, <5>1
        <5>4. \A f \in Events : call'[f] = "push" => target'[f] \in Workers
          BY <4>2, <5>1
        <5>5. QED BY <3>1, <5>2, <5>3, <5>4 DEF PickIdle
      <4>3. QED BY <3>1, <4>1, <4>2 DEF PickIdle
    <3>2. CASE StartThread(e) BY <3>2 DEF StartThread, Chosen
    <3>3. CASE StartThreadFails(e) BY <3>3 DEF StartThreadFails
    <3>4. CASE PickAny(e) BY <3>4 DEF PickAny
    <3>5. CASE PushEvent(e)
      <4>1. deque' \in [Workers -> Seq(Items)]
        BY <3>5, PushItem, ItemsFact DEF PushEvent, PushTo
      <4>2. QED BY <3>5, <4>1 DEF PushEvent, PushTo
    <3>6. QED BY <2>2, <3>1, <3>2, <3>3, <3>4, <3>5 DEF Call
  <2>3. ASSUME NEW w \in Workers, Worker(w) PROVE TypeOK'
    <3>1. CASE FetchDeque(w) BY <3>1 DEF FetchDeque
    <3>2. CASE TestTerminating(w) BY <3>2 DEF TestTerminating, ExitOrPop
    <3>3. CASE PopNull(w)
      <4>1. deque' \in [Workers -> Seq(Items)]
        <5>1. CASE UNCHANGED deque BY <5>1
        <5>2. CASE deque[w] # <<>> /\ deque' = [deque EXCEPT ![w] = Tail(@)]
          BY <5>2, PopItem
        <5>3. QED BY <3>3, <5>1, <5>2 DEF PopNull
      <4>2. QED BY <3>3, <4>1 DEF PopNull
    <3>4. CASE PopEvent(w)
      <4>1. Head(deque[w]) \in Items /\ Tail(deque[w]) \in Seq(Items)
        BY <3>4, PopItem DEF PopEvent
      <4>2. QED BY <3>4, <4>1, ItemsFact DEF PopEvent, Popped
    <3>5. CASE PopEmpty(w) BY <3>5 DEF PopEmpty
    <3>6. CASE Wait(w) BY <3>6 DEF Wait
    <3>7. CASE ClaimBusy(w) BY <3>7 DEF ClaimBusy, TakenOut
    <3>8. CASE ClaimThrows(w) BY <3>8, ItemsFact DEF ClaimThrows
    <3>9. CASE FinishEvent(w) BY <3>9, ItemsFact DEF FinishEvent, PutBack
    <3>10. QED BY <2>3, <3>1, <3>2, <3>3, <3>4, <3>5, <3>6, <3>7, <3>8, <3>9 DEF Worker
  <2>4. ASSUME NEW w \in Workers, SpuriousWakeup(w) PROVE TypeOK'
    BY <2>4 DEF SpuriousWakeup
  <2>5. CASE DeinitSetFlag BY <2>5 DEF DeinitSetFlag
  <2>6. CASE Deinit
    <3>1. CASE DeinitSnapshot BY <3>1 DEF DeinitSnapshot
    <3>2. CASE DeinitNext BY <3>2 DEF DeinitNext
    <3>3. CASE DeinitClear
      <4>1. deque' \in [Workers -> Seq(Items)]
        <5>1. <<>> \in Seq(Items) OBVIOUS
        <5>2. ASSUME NEW s \in Seq(Items)
              PROVE  [deque EXCEPT ![joining] = s] \in [Workers -> Seq(Items)]
          OBVIOUS
        <5>3. QED BY <3>3, <5>1, <5>2 DEF DeinitClear
      <4>2. QED BY <3>3, <4>1 DEF DeinitClear
    <3>4. CASE DeinitPushNull BY <3>4, PushItem, ItemsFact DEF DeinitPushNull, PushTo
    <3>5. CASE DeinitDeque BY <3>5 DEF DeinitDeque
    <3>6. CASE DeinitJoin BY <3>6 DEF DeinitJoin
    <3>7. QED BY <2>6, <3>1, <3>2, <3>3, <3>4, <3>5, <3>6 DEF Deinit
  <2>7. CASE UNCHANGED vars BY <2>7 DEF vars
  <2>8. QED BY <2>1, <2>2, <2>3, <2>4, <2>5, <2>6, <2>7 DEF Next
<1>3. QED BY <1>1, <1>2, PTL DEF Spec

-----------------------------------------------------------------------------
\* The second test of the number of threads, under the lock, is what bounds it:
\* whatever the senders saw in the first section, no more than MaxThreadsCount
\* threads are ever started (listenToEvent).
THEOREM ThreadLimitHolds == Spec => []ThreadLimit
<1>1. Init => ThreadLimit
  BY FS_EmptySet, MaxThreadsAssumption DEF Init, ThreadLimit
<1>2. TypeOK /\ ThreadLimit /\ [Next]_vars => ThreadLimit'
  <2> SUFFICES ASSUME TypeOK, ThreadLimit, [Next]_vars PROVE ThreadLimit'
    OBVIOUS
  <2>1. CASE \E e \in Events : StartThread(e)
    <3>1. PICK w \in Workers : m_vector' = m_vector \cup {w}
      BY <2>1 DEF StartThread
    <3>2. IsFiniteSet(m_vector)
      BY FS_Subset, EnoughWorkers DEF TypeOK
    <3>3. Cardinality(m_vector) \in Nat
      BY <3>2, FS_CardinalityType
    <3>4. Cardinality(m_vector) < MaxThreads
      BY <2>1 DEF StartThread, BelowLimit
    <3>5. Cardinality(m_vector') <= Cardinality(m_vector) + 1
      <4>1. CASE w \in m_vector
        <5>1. m_vector' = m_vector BY <3>1, <4>1
        <5>2. QED BY <5>1, <3>3
      <4>2. CASE w \notin m_vector
        <5>1. Cardinality(m_vector \cup {w}) = Cardinality(m_vector) + 1
          BY <3>2, <4>2, FS_AddElement
        <5>2. QED BY <3>1, <3>3, <5>1
      <4>3. QED BY <4>1, <4>2
    <3>6. IsFiniteSet(m_vector') /\ Cardinality(m_vector') \in Nat
      BY <3>1, <3>2, FS_AddElement, FS_CardinalityType
    <3>7. QED
      BY <3>3, <3>4, <3>5, <3>6, MaxThreadsAssumption DEF ThreadLimit
  <2>2. CASE ~\E e \in Events : StartThread(e)
    <3>1. UNCHANGED m_vector
      BY <2>2 DEF Next, vars, callVars, Call, Worker, Deinit, Submit, PickIdle,
         StartThreadFails, PickAny, PushEvent, FetchDeque, TestTerminating, PopNull,
         PopEvent, PopEmpty, Wait, SpuriousWakeup, ClaimBusy, ClaimThrows, FinishEvent,
         DeinitSetFlag, DeinitSnapshot, DeinitNext, DeinitClear, DeinitPushNull,
         DeinitDeque, DeinitJoin
    <3>2. QED BY <3>1 DEF ThreadLimit
  <2>3. QED BY <2>1, <2>2
<1>3. QED BY <1>1, <1>2, TypeCorrect, PTL DEF Spec

-----------------------------------------------------------------------------
(* The inductive invariant that ties the idle map, the threads and the     *)
(* progress of deinit together.                                            *)

Started == \A w \in Workers : pc[w] = "none" <=> w \notin m_vector

NoDropYet == main \in {"run", "flagged"} => dropped = {}

\* Since the snapshot a worker can be anywhere near its deque only if deinit
\* has still to join it: the others re-enter their loop with the flag up.
ShutdownInv ==
    /\ main # "run" => m_isTerminating_lb
    /\ main \in {"clear", "pill", "dqdeinit", "join"} <=> joining # NULL
    /\ main = "done" => m_evts = {}
    /\ main \notin {"run", "flagged"} =>
          \A w \in Workers :
              pc[w] \in {"pop", "towait", "waiting", "claim"} =>
                  w \in m_evts \/ w = joining

PoolInv == TypeOK /\ Started /\ IdleMapExact /\ NoDropYet /\ ShutdownInv

\* PoolInv holds in every reachable state.
THEOREM PoolInvariant == Spec => []PoolInv
<1> USE DEF PoolInv, Started, IdleMapExact, NoDropYet, ShutdownInv
<1>1. Init => PoolInv
  <2> SUFFICES ASSUME Init PROVE PoolInv
    OBVIOUS
  <2>1. TypeOK
    <3>1. deque \in [Workers -> Seq(Items)]
      BY DEF Init
    <3>2. QED BY <3>1, ItemsFact DEF Init, TypeOK, WorkerPC, CallPC, MainPC
  <2>2. QED BY <2>1 DEF Init
<1>2. PoolInv /\ TypeOK' /\ [Next]_vars => PoolInv'
  <2> SUFFICES ASSUME PoolInv, TypeOK', [Next]_vars PROVE PoolInv'
    OBVIOUS
  <2> USE NullAssumption DEF Woken, callVars, deinitVars, workerVars, TypeOK
  <2>1. ASSUME NEW e \in Events, Submit(e) PROVE PoolInv'
    BY <2>1 DEF Submit
  <2>2. ASSUME NEW e \in Events, Call(e) PROVE PoolInv'
    <3>1. CASE PickIdle(e) BY <3>1 DEF PickIdle
    <3>2. CASE StartThread(e)
      <4>1. PICK w \in Workers \ m_vector :
                /\ m_container' = m_container \cup {w}
                /\ m_vector' = m_vector \cup {w}
                /\ pc' = [pc EXCEPT ![w] = "fetch"]
        BY <3>2 DEF StartThread
      <4>2. QED BY <3>2, <4>1 DEF StartThread
    <3>3. CASE StartThreadFails(e) BY <3>3 DEF StartThreadFails
    <3>4. CASE PickAny(e) BY <3>4 DEF PickAny
    <3>5. CASE PushEvent(e) BY <3>5 DEF PushEvent, PushTo
    <3>6. QED BY <2>2, <3>1, <3>2, <3>3, <3>4, <3>5 DEF Call
  <2>3. ASSUME NEW w \in Workers, Worker(w) PROVE PoolInv'
    <3>1. CASE FetchDeque(w) BY <3>1 DEF FetchDeque
    <3>2. CASE TestTerminating(w) BY <3>2 DEF TestTerminating, ExitOrPop
    <3>3. CASE PopNull(w) BY <3>3 DEF PopNull
    <3>4. CASE PopEvent(w) BY <3>4 DEF PopEvent, Popped
    <3>5. CASE PopEmpty(w) BY <3>5 DEF PopEmpty
    <3>6. CASE Wait(w) BY <3>6 DEF Wait
    <3>7. CASE ClaimBusy(w) BY <3>7 DEF ClaimBusy, TakenOut
    <3>8. CASE ClaimThrows(w) BY <3>8 DEF ClaimThrows
    <3>9. CASE FinishEvent(w) BY <3>9 DEF FinishEvent, PutBack
    <3>10. QED BY <2>3, <3>1, <3>2, <3>3, <3>4, <3>5, <3>6, <3>7, <3>8, <3>9 DEF Worker
  <2>4. ASSUME NEW w \in Workers, SpuriousWakeup(w) PROVE PoolInv'
    BY <2>4 DEF SpuriousWakeup
  <2>5. CASE DeinitSetFlag BY <2>5 DEF DeinitSetFlag
  <2>6. CASE Deinit
    <3>1. CASE DeinitSnapshot BY <3>1 DEF DeinitSnapshot
    <3>2. CASE DeinitNext BY <3>2 DEF DeinitNext
    <3>3. CASE DeinitClear BY <3>3 DEF DeinitClear
    <3>4. CASE DeinitPushNull BY <3>4 DEF DeinitPushNull, PushTo
    <3>5. CASE DeinitDeque BY <3>5 DEF DeinitDeque
    <3>6. CASE DeinitJoin BY <3>6 DEF DeinitJoin, Joined
    <3>7. QED BY <2>6, <3>1, <3>2, <3>3, <3>4, <3>5, <3>6 DEF Deinit
  <2>7. CASE UNCHANGED vars BY <2>7 DEF vars
  <2>8. QED BY <2>1, <2>2, <2>3, <2>4, <2>5, <2>6, <2>7 DEF Next
<1>3. QED BY <1>1, <1>2, TypeCorrect, PTL DEF Spec

\* Until deinit empties m_container a worker is missing from it exactly while
\* it runs a handler, so st_busy never throws and drops an event.
THEOREM IdleMapIsExact == Spec => [](IdleMapExact /\ NoDropYet)
  BY PoolInvariant, PTL DEF PoolInv

\* Whatever the threads were doing when deinit was called, after it returns none
\* of them pops, waits on a deque or begins a handler.
THEOREM QuietAfterDeinitHolds == Spec => []QuietAfterDeinit
<1>1. PoolInv => QuietAfterDeinit
  BY NullAssumption DEF PoolInv, ShutdownInv, QuietAfterDeinit, TypeOK, WorkerPC
<1>2. QED BY <1>1, PoolInvariant, PTL
-----------------------------------------------------------------------------
(* Where an event is, once its call has pushed it: the invariant behind    *)
(* NothingLost and behind the refinement of the executor.                  *)

\* Event e is the i-th item of worker w's deque.
ItemAt(e, w, i) == i \in DOMAIN deque[w] /\ deque[w][i] = e
Queued(e) == \E w \in Workers, i \in Nat : ItemAt(e, w, i)
Held(e) == \E w \in Workers : current[w] = e

\* No event is in two places of one kind ...
QueuedOnce ==
    \A e \in Events, w, v \in Workers, i, j \in Nat :
        ItemAt(e, w, i) /\ ItemAt(e, v, j) => w = v /\ i = j

HeldOnce ==
    \A e \in Events, w, v \in Workers : current[w] = e /\ current[v] = e => w = v

\* ... or in places of two kinds ...
OnePlace ==
    \A e \in Events :
        /\ Queued(e) => ~Held(e) /\ e \notin handled \cup dropped
        /\ Held(e) => e \notin handled \cup dropped
        /\ e \notin handled \cap dropped

\* ... or anywhere before its call has pushed it.
NowhereYet ==
    \A e \in Events :
        call[e] # "done" => ~Queued(e) /\ ~Held(e) /\ e \notin handled \cup dropped

\* Only deinit and the workers it has stopped lose an event.
SomewhereStill ==
    main \in {"run", "flagged"} =>
        \A e \in Events : call[e] = "done" => Queued(e) \/ Held(e) \/ e \in handled

\* A worker holds an event from the pop to the end of the handler.
HoldsInHand ==
    \A w \in Workers : current[w] # NULL => pc[w] \in {"claim", "handle"}

PlacesInv == QueuedOnce /\ HeldOnce /\ OnePlace /\ NowhereYet /\ SomewhereStill /\ HoldsInHand

\* What an append, a pop and a clear of one deque do to the places in the deques.
LEMMA PushMoves ==
    ASSUME TypeOK, NEW t \in Workers, NEW x \in Items,
           deque' = [deque EXCEPT ![t] = Append(@, x)]
    PROVE  \A e \in Events, w \in Workers, i \in Nat :
              ItemAt(e, w, i)' <=>
                  ItemAt(e, w, i) \/ (w = t /\ i = Len(deque[t]) + 1 /\ e = x)
<1> SUFFICES ASSUME NEW e \in Events, NEW w \in Workers, NEW i \in Nat
             PROVE  ItemAt(e, w, i)' <=>
                      ItemAt(e, w, i) \/ (w = t /\ i = Len(deque[t]) + 1 /\ e = x)
  OBVIOUS
<1>1. deque[t] \in Seq(Items) /\ deque \in [Workers -> Seq(Items)] BY DEF TypeOK
<1>2. CASE w = t
  <2> DEFINE s == deque[t]
  <2>1. deque'[w] = Append(s, x) BY <1>1, <1>2
  <2>2. DOMAIN s = 1 .. Len(s) /\ Len(s) \in Nat BY <1>1
  <2>3. DOMAIN Append(s, x) = 1 .. Len(s) + 1 BY <1>1
  <2>4. \A k \in 1 .. Len(s) : Append(s, x)[k] = s[k] BY <1>1
  <2>5. Append(s, x)[Len(s) + 1] = x BY <1>1
  <2> HIDE DEF s
  <2>6. (i \in DOMAIN Append(s, x) /\ Append(s, x)[i] = e) <=>
            (i \in DOMAIN s /\ s[i] = e) \/ (i = Len(s) + 1 /\ e = x)
    BY <2>2, <2>3, <2>4, <2>5
  <2>7. QED BY <1>2, <2>1, <2>6 DEF ItemAt, s
<1>3. CASE w # t BY <1>1, <1>3 DEF ItemAt
<1>4. QED BY <1>2, <1>3

LEMMA PopMoves ==
    ASSUME TypeOK, NEW t \in Workers, deque[t] # <<>>,
           deque' = [deque EXCEPT ![t] = Tail(@)]
    PROVE  \A e \in Events, w \in Workers, i \in Nat :
              ItemAt(e, w, i)' <=>
                  IF w = t THEN i # 0 /\ ItemAt(e, w, i + 1) ELSE ItemAt(e, w, i)
<1> SUFFICES ASSUME NEW e \in Events, NEW w \in Workers, NEW i \in Nat
             PROVE  ItemAt(e, w, i)' <=>
                  IF w = t THEN i # 0 /\ ItemAt(e, w, i + 1) ELSE ItemAt(e, w, i)
  OBVIOUS
<1>1. deque[t] \in Seq(Items) /\ deque \in [Workers -> Seq(Items)] BY DEF TypeOK
<1>2. CASE w = t
  <2> DEFINE s == deque[t]
  <2>1. deque'[w] = Tail(s) BY <1>1, <1>2
  <2>2. DOMAIN s = 1 .. Len(s) /\ Len(s) \in Nat BY <1>1
  <2>3. DOMAIN Tail(s) = 1 .. Len(s) - 1 BY <1>1
  <2>4. \A k \in 1 .. Len(s) - 1 : Tail(s)[k] = s[k + 1] BY <1>1
  <2> HIDE DEF s
  <2>5. (i \in DOMAIN Tail(s) /\ Tail(s)[i] = e) <=>
            (i # 0 /\ i + 1 \in DOMAIN s /\ s[i + 1] = e)
    BY <2>2, <2>3, <2>4
  <2>6. QED BY <1>2, <2>1, <2>5 DEF ItemAt, s
<1>3. CASE w # t BY <1>1, <1>3 DEF ItemAt
<1>4. QED BY <1>2, <1>3

LEMMA ClearMoves ==
    ASSUME TypeOK, NEW t \in Workers, deque' = [deque EXCEPT ![t] = <<>>]
    PROVE  \A e \in Events, w \in Workers, i \in Nat :
              ItemAt(e, w, i)' <=> w # t /\ ItemAt(e, w, i)
<1> SUFFICES ASSUME NEW e \in Events, NEW w \in Workers, NEW i \in Nat
             PROVE  ItemAt(e, w, i)' <=> w # t /\ ItemAt(e, w, i)
  OBVIOUS
<1>1. deque \in [Workers -> Seq(Items)] BY DEF TypeOK
<1>2. CASE w = t
  <2>1. deque'[w] = <<>> BY <1>1, <1>2
  <2>2. DOMAIN <<>> = {} OBVIOUS
  <2>3. QED BY <1>2, <2>1, <2>2 DEF ItemAt
<1>3. CASE w # t BY <1>1, <1>3 DEF ItemAt
<1>4. QED BY <1>2, <1>3

\* The head of a deque is its first place.
LEMMA HeadPlace ==
    ASSUME TypeOK, NEW t \in Workers, deque[t] # <<>>
    PROVE  \A e \in Events : ItemAt(e, t, 1) <=> Head(deque[t]) = e
<1>1. deque[t] \in Seq(Items) BY DEF TypeOK
<1>2. 1 \in DOMAIN deque[t] /\ Head(deque[t]) = deque[t][1] BY <1>1
<1>3. QED BY <1>2 DEF ItemAt

LEMMA PlaceIsPositive ==
    ASSUME TypeOK, NEW e \in Events, NEW w \in Workers, NEW i \in Nat, ItemAt(e, w, i)
    PROVE  i # 0
<1>1. deque[w] \in Seq(Items) BY DEF TypeOK
<1>2. DOMAIN deque[w] = 1 .. Len(deque[w]) /\ Len(deque[w]) \in Nat BY <1>1
<1>3. QED BY <1>2 DEF ItemAt

\* A pop leaves every other event where it was relative to the rest.
LEMMA PopKeepsQueued ==
    ASSUME TypeOK, QueuedOnce, NEW t \in Workers, deque[t] # <<>>,
           deque' = [deque EXCEPT ![t] = Tail(@)]
    PROVE  /\ QueuedOnce'
           /\ \A e \in Events : Queued(e)' <=> Queued(e) /\ Head(deque[t]) # e
<1>0. \A e \in Events, w \in Workers, i \in Nat :
          ItemAt(e, w, i)' <=>
              IF w = t THEN i # 0 /\ ItemAt(e, w, i + 1) ELSE ItemAt(e, w, i)
  BY PopMoves
<1>1. QueuedOnce'
  <2> SUFFICES ASSUME NEW e \in Events, NEW w \in Workers, NEW v \in Workers,
                      NEW i \in Nat, NEW j \in Nat, ItemAt(e, w, i)', ItemAt(e, v, j)'
               PROVE  w = v /\ i = j
    BY DEF QueuedOnce
  <2> DEFINE k == IF w = t THEN i + 1 ELSE i
             l == IF v = t THEN j + 1 ELSE j
  <2>1. k \in Nat /\ l \in Nat OBVIOUS
  <2>2. ItemAt(e, w, k) BY <1>0
  <2>3. ItemAt(e, v, l) BY <1>0
  <2>4. w = v /\ k = l BY <2>1, <2>2, <2>3 DEF QueuedOnce
  <2>5. QED BY <2>4
<1>2. ASSUME NEW e \in Events, Queued(e)' PROVE Queued(e) /\ Head(deque[t]) # e
  <2>1. PICK w \in Workers, i \in Nat : ItemAt(e, w, i)'
    BY <1>2 DEF Queued
  <2> DEFINE k == IF w = t THEN i + 1 ELSE i
  <2>2. k \in Nat /\ ItemAt(e, w, k) BY <2>1, <1>0
  <2>3. w = t => k # 1 BY <2>1, <1>0
  <2> HIDE DEF k
  <2>4. ASSUME Head(deque[t]) = e PROVE FALSE
    <3>1. ItemAt(e, t, 1) BY <2>4, HeadPlace
    <3>2. w = t /\ k = 1 BY <2>2, <3>1 DEF QueuedOnce
    <3>3. QED BY <2>3, <3>2
  <2>5. QED BY <2>2, <2>4 DEF Queued
<1>3. ASSUME NEW e \in Events, Queued(e), Head(deque[t]) # e PROVE Queued(e)'
  <2>1. PICK w \in Workers, i \in Nat : ItemAt(e, w, i)
    BY <1>3 DEF Queued
  <2>2. i # 0 BY <2>1, PlaceIsPositive
  <2>3. CASE w = t
    <3>1. i # 1 BY <1>3, <2>1, <2>3, HeadPlace
    <3>2. i - 1 \in Nat /\ i - 1 # 0 /\ (i - 1) + 1 = i BY <2>2, <3>1
    <3>3. ItemAt(e, w, i - 1)' BY <2>1, <2>3, <3>2, <1>0
    <3>4. QED BY <3>2, <3>3 DEF Queued
  <2>4. CASE w # t
    <3>1. ItemAt(e, w, i)' BY <2>1, <2>4, <1>0
    <3>2. QED BY <3>1 DEF Queued
  <2>5. QED BY <2>3, <2>4
<1>4. QED BY <1>1, <1>2, <1>3

\* A step that pushes, pops and finishes nothing leaves the events in place; one
\* of deinit may clear a deque.
LEMMA PlacesKept ==
    ASSUME PlacesInv, QueuedOnce', UNCHANGED <<current, handled, dropped>>,
           \A e \in Events : Queued(e)' => Queued(e),
           main' \in {"run", "flagged"} =>
               main \in {"run", "flagged"} /\ \A e \in Events : Queued(e) => Queued(e)',
           \A e \in Events : call'[e] = "done" <=> call[e] = "done",
           \A w \in Workers : pc[w] \in {"claim", "handle"} => pc'[w] \in {"claim", "handle"}
    PROVE  PlacesInv'
<1>0. \A e \in Events : Held(e)' <=> Held(e)
  BY DEF Held
<1>1. HeldOnce'
  BY DEF PlacesInv, HeldOnce
<1>2. OnePlace'
  BY <1>0 DEF PlacesInv, OnePlace
<1>3. NowhereYet'
  BY <1>0 DEF PlacesInv, NowhereYet
<1>4. SomewhereStill'
  BY <1>0 DEF PlacesInv, SomewhereStill
<1>5. HoldsInHand'
  BY DEF PlacesInv, HoldsInHand
<1>6. QED BY <1>1, <1>2, <1>3, <1>4, <1>5 DEF PlacesInv

LEMMA SameDeques ==
    ASSUME QueuedOnce, \A e \in Events, w \in Workers, i \in Nat :
                           ItemAt(e, w, i)' <=> ItemAt(e, w, i)
    PROVE  QueuedOnce' /\ \A e \in Events : Queued(e)' <=> Queued(e)
<1>1. QueuedOnce' BY DEF QueuedOnce
<1>2. \A e \in Events : Queued(e)' <=> Queued(e) BY DEF Queued
<1>3. QED BY <1>1, <1>2

LEMMA UntouchedDeques ==
    ASSUME QueuedOnce, UNCHANGED deque
    PROVE  QueuedOnce' /\ \A e \in Events : Queued(e)' <=> Queued(e)
<1>1. \A e \in Events, w \in Workers, i \in Nat : ItemAt(e, w, i)' <=> ItemAt(e, w, i)
  BY DEF ItemAt
<1>2. QED BY <1>1, SameDeques

\* The push puts the event in one place.
LEMMA PushPlaces ==
    ASSUME PoolInv, PlacesInv, NEW e \in Events, PushEvent(e)
    PROVE  /\ PlacesInv'
           /\ Queued(e)'
           /\ \A f \in Events \ {e} : Queued(f)' <=> Queued(f)
<1> DEFINE t == target[e]
           n == Len(deque[t]) + 1
<1>1. t \in Workers /\ TypeOK BY DEF PushEvent, PoolInv, TypeOK
<1>2. e \in Items BY ItemsFact
<1>3. \A f \in Events, w \in Workers, i \in Nat :
          ItemAt(f, w, i)' <=> ItemAt(f, w, i) \/ (w = t /\ i = n /\ f = e)
  <2>1. deque' = [deque EXCEPT ![t] = Append(@, e)] BY DEF PushEvent, PushTo
  <2>2. PICK c \in Workers : c = t BY <1>1
  <2>3. deque' = [deque EXCEPT ![c] = Append(@, e)] BY <2>1, <2>2
  <2>4. \A f \in Events, w \in Workers, i \in Nat :
          ItemAt(f, w, i)' <=>
              ItemAt(f, w, i) \/ (w = c /\ i = Len(deque[c]) + 1 /\ f = e)
    BY <1>1, <1>2, <2>3, PushMoves
  <2>5. QED BY <2>2, <2>4
<1>4. n \in Nat
  <2>1. deque[t] \in Seq(Items) BY <1>1 DEF TypeOK
  <2>2. QED BY <2>1
<1>5. ~Queued(e) /\ ~Held(e) /\ e \notin handled \cup dropped
  BY DEF PushEvent, PlacesInv, NowhereYet
<1>6. PICK p \in Workers, q \in Nat :
          \A f \in Events, w \in Workers, i \in Nat :
              ItemAt(f, w, i)' <=> ItemAt(f, w, i) \/ (w = p /\ i = q /\ f = e)
  BY <1>1, <1>3, <1>4
<1> HIDE DEF t, n
<1>7. \A f \in Events \ {e} : Queued(f)' <=> Queued(f)
  BY <1>6 DEF Queued
<1>8. Queued(e)'
  BY <1>6 DEF Queued
<1>9. QueuedOnce'
  <2> SUFFICES ASSUME NEW f \in Events, NEW w \in Workers, NEW v \in Workers,
                      NEW i \in Nat, NEW j \in Nat, ItemAt(f, w, i)', ItemAt(f, v, j)'
               PROVE  w = v /\ i = j
    BY DEF QueuedOnce
  <2>1. CASE f = e
    <3>1. ~ItemAt(f, w, i) /\ ~ItemAt(f, v, j) BY <1>5, <2>1 DEF Queued
    <3>2. QED BY <3>1, <1>6
  <2>2. CASE f # e
    <3>1. ItemAt(f, w, i) /\ ItemAt(f, v, j) BY <1>6, <2>2
    <3>2. QED BY <3>1 DEF PlacesInv, QueuedOnce
  <2>3. QED BY <2>1, <2>2
<1>10. UNCHANGED <<current, handled, dropped, main>>
  BY DEF PushEvent, deinitVars
<1>11. \A f \in Events : Held(f)' <=> Held(f)
  BY <1>10 DEF Held
<1>12. call' = [call EXCEPT ![e] = "done"] /\ call \in [Events -> CallPC]
  BY <1>1 DEF PushEvent, TypeOK
<1>13. HeldOnce' /\ HoldsInHand'
  <2>1. HeldOnce' BY <1>10 DEF PlacesInv, HeldOnce
  <2>2. \A w \in Workers : pc[w] \in {"claim", "handle"} => pc'[w] \in {"claim", "handle"}
    BY <1>1 DEF PushEvent, PushTo, Woken, TypeOK
  <2>3. HoldsInHand' BY <1>10, <2>2 DEF PlacesInv, HoldsInHand
  <2>4. QED BY <2>1, <2>3
<1>14. OnePlace'
  <2> SUFFICES ASSUME NEW f \in Events
               PROVE  /\ Queued(f)' => ~Held(f)' /\ f \notin handled' \cup dropped'
                      /\ Held(f)' => f \notin handled' \cup dropped'
                      /\ f \notin handled' \cap dropped'
    BY DEF OnePlace
  <2>1. CASE f = e BY <2>1, <1>5, <1>10, <1>11
  <2>2. CASE f # e BY <2>2, <1>7, <1>10, <1>11 DEF PlacesInv, OnePlace
  <2>3. QED BY <2>1, <2>2
<1>15. NowhereYet'
  <2> SUFFICES ASSUME NEW f \in Events, call'[f] # "done"
               PROVE  ~Queued(f)' /\ ~Held(f)' /\ f \notin handled' \cup dropped'
    BY DEF NowhereYet
  <2>1. f # e /\ call[f] # "done" BY <1>12
  <2>2. QED BY <2>1, <1>7, <1>10, <1>11 DEF PlacesInv, NowhereYet
<1>16. SomewhereStill'
  <2> SUFFICES ASSUME main' \in {"run", "flagged"}, NEW f \in Events, call'[f] = "done"
               PROVE  Queued(f)' \/ Held(f)' \/ f \in handled'
    BY DEF SomewhereStill
  <2>1. CASE f = e BY <2>1, <1>8
  <2>2. CASE f # e
    <3>1. call[f] = "done" BY <2>2, <1>12
    <3>2. QED BY <2>2, <3>1, <1>7, <1>10, <1>11 DEF PlacesInv, SomewhereStill
  <2>3. QED BY <2>1, <2>2
<1>17. QED BY <1>7, <1>8, <1>9, <1>13, <1>14, <1>15, <1>16 DEF PlacesInv

\* The pop moves its event from the deque into the worker's hands.
LEMMA PopPlaces ==
    ASSUME PoolInv, PlacesInv, NEW t \in Workers, PopEvent(t)
    PROVE  /\ PlacesInv'
           /\ Queued(Head(deque[t]))
           /\ \A f \in Events : Queued(f)' <=> Queued(f) /\ f # Head(deque[t])
<1>1. TypeOK BY DEF PoolInv
<1>2. PICK e \in Events : e = Head(deque[t])
  <2>1. Head(deque[t]) \in Items BY <1>1, PopItem DEF PopEvent, TypeOK
  <2>2. QED BY <2>1, ItemsFact DEF PopEvent
<1>3. /\ deque[t] # <<>> /\ deque' = [deque EXCEPT ![t] = Tail(@)]
      /\ current' = [current EXCEPT ![t] = e]
      /\ pc' = [pc EXCEPT ![t] = "claim"]
      /\ pc[t] = "pop"
      /\ UNCHANGED <<handled, dropped, main, call>>
  BY <1>2 DEF PopEvent, Popped, deinitVars, callVars
<1>4. current \in [Workers -> Items] /\ pc \in [Workers -> WorkerPC] BY <1>1 DEF TypeOK
<1>5. /\ QueuedOnce'
      /\ \A f \in Events : Queued(f)' <=> Queued(f) /\ f # e
  <2>1. QueuedOnce BY DEF PlacesInv
  <2>2. QED BY <1>1, <1>2, <1>3, <2>1, PopKeepsQueued
<1>6. Queued(e)
  <2>1. ItemAt(e, t, 1) BY <1>1, <1>2, <1>3, HeadPlace
  <2>2. QED BY <2>1 DEF Queued
<1>7. ~Held(e) /\ e \notin handled \cup dropped
  BY <1>6 DEF PlacesInv, OnePlace
<1>8. current[t] = NULL
  BY <1>3 DEF PlacesInv, HoldsInHand
<1>9. \A f \in Events, w \in Workers :
          current'[w] = f <=> current[w] = f \/ (w = t /\ f = e)
  BY <1>3, <1>4, <1>8, NullAssumption
<1>10. \A f \in Events : Held(f)' <=> Held(f) \/ f = e
  BY <1>9 DEF Held
<1>11. HeldOnce'
  <2> SUFFICES ASSUME NEW f \in Events, NEW w \in Workers, NEW v \in Workers,
                      current'[w] = f, current'[v] = f
               PROVE  w = v
    BY DEF HeldOnce
  <2>1. CASE f = e BY <2>1, <1>7, <1>9 DEF Held
  <2>2. CASE f # e BY <2>2, <1>9 DEF PlacesInv, HeldOnce
  <2>3. QED BY <2>1, <2>2
<1>12. OnePlace'
  BY <1>3, <1>5, <1>7, <1>10 DEF PlacesInv, OnePlace
<1>13. NowhereYet'
  BY <1>3, <1>5, <1>6, <1>10 DEF PlacesInv, NowhereYet
<1>14. SomewhereStill'
  BY <1>3, <1>5, <1>10 DEF PlacesInv, SomewhereStill
<1>15. HoldsInHand'
  BY <1>3, <1>4 DEF PlacesInv, HoldsInHand
<1>16. PlacesInv'
  BY <1>5, <1>11, <1>12, <1>13, <1>14, <1>15 DEF PlacesInv
<1>17. QED BY <1>2, <1>5, <1>6, <1>16

\* The end of a handler, or st_busy throwing, takes the event out of the
\* worker's hands for good.
LEMMA SettlePlaces ==
    ASSUME PoolInv, PlacesInv, NEW t \in Workers, FinishEvent(t) \/ ClaimThrows(t)
    PROVE  /\ PlacesInv'
           /\ current[t] \in Events /\ Held(current[t])
           /\ \A f \in Events : Held(f)' <=> Held(f) /\ f # current[t]
           /\ \A f \in Events : Queued(f)' <=> Queued(f)
<1>1. TypeOK BY DEF PoolInv
<1>2. PICK e \in Events : e = current[t]
  BY <1>1 DEF TypeOK, FinishEvent, ClaimThrows
<1>3. /\ current' = [current EXCEPT ![t] = NULL]
      /\ pc' = [pc EXCEPT ![t] = "top"]
      /\ UNCHANGED <<deque, main, call>>
      /\ FinishEvent(t) => handled' = handled \cup {e} /\ UNCHANGED dropped
      /\ ClaimThrows(t) => dropped' = dropped \cup {e} /\ UNCHANGED handled
  BY <1>2 DEF FinishEvent, ClaimThrows, deinitVars, callVars
<1>4. current \in [Workers -> Items] /\ pc \in [Workers -> WorkerPC] BY <1>1 DEF TypeOK
<1>5. /\ handled' \cup dropped' = handled \cup dropped \cup {e}
      /\ handled \subseteq handled' /\ dropped \subseteq dropped'
  BY <1>3
<1>6. QueuedOnce' /\ \A f \in Events : Queued(f)' <=> Queued(f)
  BY <1>3, UntouchedDeques DEF PlacesInv
<1>7. Held(e) BY <1>2 DEF Held
<1>8. ~Queued(e) /\ e \notin handled \cup dropped
  BY <1>7 DEF PlacesInv, OnePlace
<1>9. \A f \in Events, w \in Workers : current'[w] = f <=> current[w] = f /\ w # t
  BY <1>3, <1>4, NullAssumption
<1>10. \A f \in Events : Held(f)' <=> Held(f) /\ f # e
  <2> SUFFICES ASSUME NEW f \in Events PROVE Held(f)' <=> Held(f) /\ f # e
    OBVIOUS
  <2>1. ASSUME Held(f)' PROVE Held(f) /\ f # e
    <3>1. PICK w \in Workers : current'[w] = f BY <2>1 DEF Held
    <3>2. current[w] = f /\ w # t BY <3>1, <1>9
    <3>3. f # e BY <3>2, <1>2 DEF PlacesInv, HeldOnce
    <3>4. QED BY <3>2, <3>3 DEF Held
  <2>2. ASSUME Held(f), f # e PROVE Held(f)'
    <3>1. PICK w \in Workers : current[w] = f BY <2>2 DEF Held
    <3>2. w # t BY <3>1, <2>2, <1>2
    <3>3. current'[w] = f BY <3>1, <3>2, <1>9
    <3>4. QED BY <3>3 DEF Held
  <2>3. QED BY <2>1, <2>2
<1>11. HeldOnce'
  BY <1>9 DEF PlacesInv, HeldOnce
<1>12. OnePlace'
  <2> SUFFICES ASSUME NEW f \in Events
               PROVE  /\ Queued(f)' => ~Held(f)' /\ f \notin handled' \cup dropped'
                      /\ Held(f)' => f \notin handled' \cup dropped'
                      /\ f \notin handled' \cap dropped'
    BY DEF OnePlace
  <2>1. CASE f = e
    <3>1. f \notin handled' \cap dropped' BY <2>1, <1>3, <1>8
    <3>2. QED BY <2>1, <3>1, <1>6, <1>8, <1>10
  <2>2. CASE f # e
    <3>1. f \notin handled' \cap dropped' BY <2>2, <1>3 DEF PlacesInv, OnePlace
    <3>2. QED BY <2>2, <3>1, <1>5, <1>6, <1>10 DEF PlacesInv, OnePlace
  <2>3. QED BY <2>1, <2>2
<1>13. NowhereYet'
  <2> SUFFICES ASSUME NEW f \in Events, call[f] # "done"
               PROVE  ~Queued(f)' /\ ~Held(f)' /\ f \notin handled' \cup dropped'
    BY <1>3 DEF NowhereYet
  <2>1. ~Queued(f) /\ ~Held(f) /\ f \notin handled \cup dropped
    BY DEF PlacesInv, NowhereYet
  <2>2. f # e BY <2>1, <1>7
  <2>3. QED BY <2>1, <2>2, <1>5, <1>6, <1>10
<1>14. SomewhereStill'
  <2> SUFFICES ASSUME main \in {"run", "flagged"}, NEW f \in Events, call[f] = "done"
               PROVE  Queued(f)' \/ Held(f)' \/ f \in handled'
    BY <1>3 DEF SomewhereStill
  <2>1. CASE f = e
    <3>1. FinishEvent(t)
      BY DEF PoolInv, IdleMapExact, ClaimThrows, TypeOK, Started
    <3>2. QED BY <2>1, <3>1, <1>3
  <2>2. CASE f # e
    BY <2>2, <1>5, <1>6, <1>10 DEF PlacesInv, SomewhereStill
  <2>3. QED BY <2>1, <2>2
<1>15. HoldsInHand'
  BY <1>3, <1>4 DEF PlacesInv, HoldsInHand
<1>16. PlacesInv'
  BY <1>6, <1>11, <1>12, <1>13, <1>14, <1>15 DEF PlacesInv
<1>17. QED BY <1>2, <1>6, <1>7, <1>10, <1>16

\* Only the push and a failed pthread_create end a call.
CallIsOpen(e) == call[e] \in {"new", "pick", "grow", "push"}

LEMMA CallsKept ==
    ASSUME TypeOK, [Next]_vars, ~\E e \in Events : PushEvent(e) \/ StartThreadFails(e)
    PROVE  \A e \in Events : /\ CallIsOpen(e)' <=> CallIsOpen(e)
                             /\ ~CallIsOpen(e) => call'[e] = call[e]
<1>1. CASE UNCHANGED call BY <1>1 DEF CallIsOpen
<1>2. CASE \E e \in Events : Submit(e) \/ Call(e)
  <2>1. PICK e \in Events : Submit(e) \/ Call(e) BY <1>2
  <2>2. /\ call[e] \in {"new", "pick", "grow", "push"}
        /\ \E at \in {"new", "pick", "grow", "push"} : call' = [call EXCEPT ![e] = at]
    BY <2>1 DEF Call, Submit, PickIdle, StartThread, PickAny
  <2>3. call \in [Events -> CallPC] BY DEF TypeOK
  <2>4. QED BY <2>2, <2>3 DEF CallIsOpen
<1>3. CASE ~\E e \in Events : Submit(e) \/ Call(e)
  <2>1. UNCHANGED call
    BY <1>3 DEF Next, vars, callVars, Worker, Deinit, FetchDeque, TestTerminating,
       PopNull, PopEvent, PopEmpty, Wait, SpuriousWakeup, ClaimBusy, ClaimThrows,
       FinishEvent, DeinitSetFlag, DeinitSnapshot, DeinitNext, DeinitClear,
       DeinitPushNull, DeinitDeque, DeinitJoin
  <2>2. QED BY <2>1, <1>1
<1>4. QED BY <1>2, <1>3

\* What a worker holds stays in its hands until it claims or settles it itself.
LEMMA HandsKept ==
    ASSUME PoolInv, [Next]_vars,
           ~\E w \in Workers : PopEvent(w) \/ ClaimBusy(w) \/ ClaimThrows(w) \/ FinishEvent(w)
    PROVE  \A w \in Workers : pc[w] \in {"claim", "handle"} => pc'[w] = pc[w]
<1>1. TypeOK /\ Started BY DEF PoolInv
<1>2. ASSUME NEW t \in Workers \cup {NULL}, pc[t] \notin {"claim", "handle"}, NEW at,
             pc' = [pc EXCEPT ![t] = at]
      PROVE  \A w \in Workers : pc[w] \in {"claim", "handle"} => pc'[w] = pc[w]
  BY <1>2, <1>1 DEF TypeOK
<1>3. CASE UNCHANGED pc BY <1>3
<1>4. CASE \E e \in Events : StartThread(e)
  <2>1. PICK t \in Workers \ m_vector : pc' = [pc EXCEPT ![t] = "fetch"]
    BY <1>4 DEF StartThread
  <2>2. pc[t] = "none" BY <1>1 DEF Started
  <2>3. QED BY <2>1, <2>2, <1>2
<1>5. ASSUME NEW t \in Workers, Worker(t) \/ SpuriousWakeup(t)
      PROVE  \A w \in Workers : pc[w] \in {"claim", "handle"} => pc'[w] = pc[w]
  <2>1. pc[t] \notin {"claim", "handle"} /\ \E at : pc' = [pc EXCEPT ![t] = at]
    BY <1>5 DEF Worker, FetchDeque, TestTerminating, PopNull, PopEmpty, Wait,
       SpuriousWakeup, Woken
  <2>2. QED BY <2>1, <1>2
<1>6. ASSUME NEW t \in Workers \cup {NULL}, pc' = Woken(t)
      PROVE  \A w \in Workers : pc[w] \in {"claim", "handle"} => pc'[w] = pc[w]
  <2>1. CASE pc[t] = "waiting"
    <3>1. pc' = [pc EXCEPT ![t] = "pop"] BY <1>6, <2>1 DEF Woken
    <3>2. QED BY <2>1, <3>1, <1>2
  <2>2. CASE pc[t] # "waiting"
    <3>1. UNCHANGED pc BY <1>6, <2>2 DEF Woken
    <3>2. QED BY <3>1, <1>3
  <2>3. QED BY <2>1, <2>2
<1>7. CASE \E e \in Events : PushEvent(e)
  <2>1. PICK e \in Events : PushEvent(e) BY <1>7
  <2>2. target[e] \in Workers \cup {NULL} /\ pc' = Woken(target[e])
    BY <2>1, <1>1 DEF PushEvent, PushTo, TypeOK
  <2>3. PICK t \in Workers \cup {NULL} : t = target[e] BY <2>2
  <2>4. pc' = Woken(t) BY <2>2, <2>3
  <2>5. QED BY <2>4, <1>6
<1>8. CASE DeinitClear \/ DeinitPushNull \/ DeinitDeque
  <2>1. joining \in Workers \cup {NULL} /\ pc' = Woken(joining)
    BY <1>8, <1>1 DEF DeinitClear, DeinitPushNull, DeinitDeque, PushTo, TypeOK
  <2>2. PICK t \in Workers \cup {NULL} : t = joining BY <2>1
  <2>3. pc' = Woken(t) BY <2>1, <2>2
  <2>4. QED BY <2>3, <1>6
<1>9. CASE \/ \E e \in Events : Submit(e) \/ PickIdle(e) \/ StartThreadFails(e) \/ PickAny(e)
           \/ DeinitSetFlag \/ DeinitSnapshot \/ DeinitNext \/ DeinitJoin
           \/ UNCHANGED vars
  <2>1. UNCHANGED pc
    BY <1>9 DEF vars, workerVars, Submit, PickIdle, StartThreadFails, PickAny,
       DeinitSetFlag, DeinitSnapshot, DeinitNext, DeinitJoin
  <2>2. QED BY <2>1, <1>3
<1>10. QED BY <1>4, <1>5, <1>7, <1>8, <1>9 DEF Next, Call, Deinit

\* The steps that leave every event in its place, except that PopNull takes the
\* pill from a deque, deinit pushes it, and deinit clears a deque.
LEMMA OtherPlaces ==
    ASSUME PoolInv, PlacesInv, [Next]_vars,
           ~\E e \in Events : PushEvent(e),
           ~\E w \in Workers : PopEvent(w) \/ FinishEvent(w) \/ ClaimThrows(w)
    PROVE  /\ PlacesInv'
           /\ UNCHANGED <<current, handled, dropped>>
           /\ \A e \in Events : Queued(e)' => Queued(e)
           /\ m_isTerminating_lb \/ \A e \in Events : Queued(e) => Queued(e)'
<1>1. TypeOK /\ QueuedOnce /\ ShutdownInv BY DEF PoolInv, PlacesInv
<1>2. UNCHANGED <<current, handled, dropped>>
  BY DEF Next, vars, workerVars, deinitVars, callVars, Call, Worker, Deinit, Submit, PickIdle,
     StartThread, StartThreadFails, PickAny, FetchDeque, TestTerminating, PopNull, PopEmpty,
     Wait, SpuriousWakeup, ClaimBusy, DeinitSetFlag, DeinitSnapshot, DeinitNext,
     DeinitClear, DeinitPushNull, DeinitDeque, DeinitJoin
<1>3. main' \in {"run", "flagged"} => main \in {"run", "flagged"}
  BY DEF Next, vars, workerVars, deinitVars, callVars, Call, Worker, Deinit, Submit, PickIdle,
     StartThread, StartThreadFails, PickAny, FetchDeque, TestTerminating, PopNull, PopEmpty,
     Wait, SpuriousWakeup, ClaimBusy, DeinitSetFlag, DeinitSnapshot, DeinitNext,
     DeinitClear, DeinitPushNull, DeinitDeque, DeinitJoin
<1>4. \A e \in Events : call'[e] = "done" <=> call[e] = "done"
  <2>1. CASE \E e \in Events : StartThreadFails(e)
    BY <2>1, <1>1 DEF StartThreadFails, TypeOK
  <2>2. CASE ~\E e \in Events : StartThreadFails(e)
    <3>1. \A e \in Events : /\ CallIsOpen(e)' <=> CallIsOpen(e)
                            /\ ~CallIsOpen(e) => call'[e] = call[e]
      BY <1>1, <2>2, CallsKept
    <3>2. QED BY <3>1 DEF CallIsOpen
  <2>3. QED BY <2>1, <2>2
<1>5. \A w \in Workers : pc[w] \in {"claim", "handle"} => pc'[w] \in {"claim", "handle"}
  <2>1. CASE \E t \in Workers : ClaimBusy(t)
    BY <2>1, <1>1 DEF ClaimBusy, TypeOK
  <2>2. CASE ~\E t \in Workers : ClaimBusy(t)
    <3>1. \A w \in Workers : pc[w] \in {"claim", "handle"} => pc'[w] = pc[w]
      BY <2>2, HandsKept
    <3>2. QED BY <3>1
  <2>3. QED BY <2>1, <2>2
<1>6. /\ QueuedOnce'
      /\ \A e \in Events : Queued(e)' => Queued(e)
      /\ \/ m_isTerminating_lb /\ main \notin {"run", "flagged"}
         \/ \A e \in Events : Queued(e) => Queued(e)'
  <2>1. CASE UNCHANGED deque BY <2>1, <1>1, UntouchedDeques
  <2>2. ASSUME NEW t \in Workers, PopNull(t), deque' # deque
        PROVE  QueuedOnce' /\ \A e \in Events : Queued(e)' <=> Queued(e)
    <3>1. deque[t] # <<>> /\ Head(deque[t]) = NULL /\ deque' = [deque EXCEPT ![t] = Tail(@)]
      BY <2>2 DEF PopNull
    <3>2. QED BY <1>1, <3>1, PopKeepsQueued, NullAssumption
  <2>3. ASSUME DeinitClear \/ DeinitPushNull
        PROVE  joining \in Workers /\ m_isTerminating_lb /\ main \notin {"run", "flagged"}
    BY <1>1, <2>3 DEF DeinitClear, DeinitPushNull, ShutdownInv, TypeOK
  <2>4. CASE DeinitClear
    <3>1. PICK t \in Workers : t = joining BY <2>3, <2>4
    <3>2. deque' = [deque EXCEPT ![t] = <<>>] BY <2>4, <3>1 DEF DeinitClear
    <3>3. \A e \in Events, w \in Workers, i \in Nat :
              ItemAt(e, w, i)' <=> w # t /\ ItemAt(e, w, i)
      BY <1>1, <3>2, ClearMoves
    <3>4. QueuedOnce' BY <1>1, <3>3 DEF QueuedOnce
    <3>5. \A e \in Events : Queued(e)' => Queued(e) BY <3>3 DEF Queued
    <3>6. QED BY <2>3, <2>4, <3>4, <3>5
  <2>5. CASE DeinitPushNull
    <3>1. PICK t \in Workers : t = joining BY <2>3, <2>5
    <3>2. deque' = [deque EXCEPT ![t] = Append(@, NULL)]
      BY <2>5, <3>1 DEF DeinitPushNull, PushTo
    <3>3. \A e \in Events, w \in Workers, i \in Nat :
              ItemAt(e, w, i)' <=>
                  ItemAt(e, w, i) \/ (w = t /\ i = Len(deque[t]) + 1 /\ e = NULL)
      BY <1>1, <3>2, ItemsFact, PushMoves
    <3>4. \A e \in Events, w \in Workers, i \in Nat : ItemAt(e, w, i)' <=> ItemAt(e, w, i)
      BY <3>3, NullAssumption
    <3>5. QED BY <1>1, <3>4, SameDeques
  <2>6. UNCHANGED deque \/ DeinitClear \/ DeinitPushNull \/ \E t \in Workers : PopNull(t)
    BY DEF Next, vars, workerVars, deinitVars, callVars, Call, Worker, Deinit, Submit, PickIdle,
     StartThread, StartThreadFails, PickAny, FetchDeque, TestTerminating, PopNull, PopEmpty,
     Wait, SpuriousWakeup, ClaimBusy, DeinitSetFlag, DeinitSnapshot, DeinitNext,
     DeinitClear, DeinitPushNull, DeinitDeque, DeinitJoin
  <2>7. QED BY <2>1, <2>2, <2>4, <2>5, <2>6
<1>7. PlacesInv'
  BY <1>2, <1>3, <1>4, <1>5, <1>6, PlacesKept
<1>8. QED BY <1>2, <1>6, <1>7

LEMMA InitPlaces == Init => PlacesInv
<1> SUFFICES ASSUME Init PROVE PlacesInv
  OBVIOUS
<1>1. \A e \in Events : ~Queued(e) /\ ~Held(e)
  <2>1. \A e \in Events, w \in Workers, i \in Nat : ~ItemAt(e, w, i)
    <3>1. \A w \in Workers : deque[w] = <<>> BY DEF Init
    <3>2. DOMAIN <<>> = {} OBVIOUS
    <3>3. QED BY <3>1, <3>2 DEF ItemAt
  <2>2. \A e \in Events : ~Held(e) BY NullAssumption DEF Init, Held
  <2>3. QED BY <2>1, <2>2 DEF Queued
<1>2. QueuedOnce BY <1>1 DEF QueuedOnce, Queued
<1>3. HeldOnce BY <1>1 DEF HeldOnce, Held
<1>4. handled = {} /\ dropped = {} /\ \A e \in Events : call[e] = "new"
  BY DEF Init
<1>5. HoldsInHand BY DEF Init, HoldsInHand
<1>6. QED BY <1>1, <1>2, <1>3, <1>4, <1>5 DEF PlacesInv, OnePlace, NowhereYet, SomewhereStill

LEMMA StepPlaces == PoolInv /\ PlacesInv /\ [Next]_vars => PlacesInv'
  BY PushPlaces, PopPlaces, SettlePlaces, OtherPlaces

\* In every reachable state an event that has been pushed is in one place at
\* most, and while the listener is up in one place exactly.
THEOREM PlacesInvariant == Spec => []PlacesInv
  BY InitPlaces, StepPlaces, PoolInvariant, PTL DEF Spec

\* What the places of an event count to when it is in the one place of one kind.
LEMMA QueuedAtFact ==
    ASSUME TypeOK, NEW e \in Events
    PROVE  /\ Queued(e) <=> QueuedAt(e) # {}
           /\ QueuedOnce => \A p, q \in QueuedAt(e) : p = q
<1>1. \A w \in Workers : DOMAIN deque[w] \subseteq Nat
  <2> SUFFICES ASSUME NEW w \in Workers PROVE DOMAIN deque[w] \subseteq Nat
    OBVIOUS
  <2>1. deque[w] \in Seq(Items) BY DEF TypeOK
  <2>2. QED BY <2>1
<1>2. \A p : p \in QueuedAt(e) <=>
                \E w \in Workers, i \in Nat : p = <<w, i>> /\ ItemAt(e, w, i)
  <2>1. \A w \in Workers : \A p : p \in {w} \X {i \in DOMAIN deque[w] : deque[w][i] = e} <=>
            \E i \in Nat : p = <<w, i>> /\ ItemAt(e, w, i)
    BY <1>1 DEF ItemAt
  <2>2. QED BY <2>1 DEF QueuedAt
<1>3. Queued(e) <=> QueuedAt(e) # {}
  BY <1>2 DEF Queued
<1>4. QueuedOnce => \A p, q \in QueuedAt(e) : p = q
  BY <1>2 DEF QueuedOnce
<1>5. QED BY <1>3, <1>4

LEMMA OneAtMost ==
    ASSUME NEW S, \A p, q \in S : p = q
    PROVE  Cardinality(S) = IF S = {} THEN 0 ELSE 1
<1>1. CASE S = {} BY <1>1, FS_EmptySet
<1>2. CASE S # {}
  <2>1. PICK x \in S : TRUE BY <1>2
  <2>2. S = {x} BY <2>1
  <2>3. QED BY <2>2, FS_Singleton
<1>3. QED BY <1>1, <1>2

\* Until deinit empties m_container an event whose call has returned is in one
\* deque, in the hands of one worker, or has been handled: between the push, the
\* pop and st_busy none is lost and none is taken twice.
THEOREM NothingLostHolds == Spec => []NothingLost
<1>1. PoolInv /\ PlacesInv => NothingLost
  <2> SUFFICES ASSUME PoolInv, PlacesInv, main \in {"run", "flagged"},
                      NEW e \in Events, call[e] = "done"
               PROVE  Places(e) = 1 /\ e \notin dropped
    BY DEF NothingLost
  <2>1. e \notin dropped BY DEF PoolInv, NoDropYet
  <2>2. Cardinality(QueuedAt(e)) = IF Queued(e) THEN 1 ELSE 0
    <3>1. \A p, q \in QueuedAt(e) : p = q
      BY QueuedAtFact DEF PoolInv, PlacesInv
    <3>2. Cardinality(QueuedAt(e)) = IF QueuedAt(e) = {} THEN 0 ELSE 1
      BY <3>1, OneAtMost
    <3>3. Queued(e) <=> QueuedAt(e) # {} BY QueuedAtFact DEF PoolInv
    <3>4. QED BY <3>2, <3>3
  <2>3. Cardinality(HeldBy(e)) = IF Held(e) THEN 1 ELSE 0
    <3>1. \A w, v \in HeldBy(e) : w = v BY DEF HeldBy, PlacesInv, HeldOnce
    <3>2. Cardinality(HeldBy(e)) = IF HeldBy(e) = {} THEN 0 ELSE 1
      BY <3>1, OneAtMost
    <3>3. Held(e) <=> HeldBy(e) # {} BY DEF Held, HeldBy
    <3>4. QED BY <3>2, <3>3
  <2>4. Cardinality(Settled(e)) = IF e \in handled THEN 1 ELSE 0
    <3>1. Settled(e) = IF e \in handled THEN {"handled"} ELSE {}
      BY <2>1 DEF Settled
    <3>2. QED BY <3>1, FS_EmptySet, FS_Singleton
  <2>5. /\ Queued(e) \/ Held(e) \/ e \in handled
        /\ Queued(e) => ~Held(e) /\ e \notin handled
        /\ Held(e) => e \notin handled
    BY DEF PlacesInv, OnePlace, SomewhereStill
  <2>6. Places(e) = 1 BY <2>2, <2>3, <2>4, <2>5 DEF Places
  <2>7. QED BY <2>1, <2>6
<1>2. QED BY <1>1, PoolInvariant, PlacesInvariant, PTL

-----------------------------------------------------------------------------
(* The pool implements the executor: the phase that the refinement gives   *)
(* an event, and how each step of the pool moves it.                       *)

Runs(e) == \E w \in Workers : current[w] = e /\ pc[w] = "handle"
Claims(e) == \E w \in Workers : current[w] = e /\ pc[w] = "claim"

Life(e) ==
    IF call[e] = "failed" THEN "refused"
    ELSE IF CallIsOpen(e) THEN "new"
    ELSE IF e \in handled THEN "done"
    ELSE IF Runs(e) THEN "running"
    ELSE IF Claims(e) \/ Queued(e) THEN "accepted"
    ELSE "lost"

\* The guards of the mapping exclude each other, so it is a function of the state.
LEMMA LifeIsPhase == TypeOK /\ PlacesInv => phase = [e \in Events |-> Life(e)]
<1> SUFFICES ASSUME TypeOK, PlacesInv, NEW e \in Events PROVE phase[e] = Life(e)
  BY Zenon DEF phase
<1>1. Queued(e) <=> QueuedAt(e) # {} BY QueuedAtFact
<1>2. phase[e] =
        CASE call[e] = "failed" -> "refused"
          [] call[e] \in {"new", "pick", "grow", "push"} -> "new"
          [] e \in handled -> "done"
          [] \E w \in Workers : current[w] = e /\ pc[w] = "handle" -> "running"
          [] \E w \in Workers : current[w] = e /\ pc[w] = "claim" -> "accepted"
          [] QueuedAt(e) # {} -> "accepted"
          [] OTHER -> "lost"
  BY Zenon DEF phase
<1>3. phase[e] =
        CASE call[e] = "failed" -> "refused"
          [] CallIsOpen(e) -> "new"
          [] e \in handled -> "done"
          [] Runs(e) -> "running"
          [] Claims(e) -> "accepted"
          [] Queued(e) -> "accepted"
          [] OTHER -> "lost"
  BY <1>1, <1>2 DEF CallIsOpen, Runs, Claims
<1>4. ~(CallIsOpen(e) /\ call[e] = "failed") BY DEF CallIsOpen
<1>5. call[e] = "failed" \/ CallIsOpen(e) =>
          ~Queued(e) /\ ~Held(e) /\ e \notin handled
  BY DEF PlacesInv, NowhereYet, CallIsOpen
<1>6. Runs(e) \/ Claims(e) => Held(e) BY DEF Runs, Claims, Held
<1>7. ~(Runs(e) /\ Claims(e))
  BY DEF Runs, Claims, PlacesInv, HeldOnce
<1>8. /\ Queued(e) => ~Held(e) /\ e \notin handled
      /\ Held(e) => e \notin handled
  BY DEF PlacesInv, OnePlace
<1>9. CASE call[e] = "failed" BY <1>3, <1>4, <1>5, <1>6, <1>9 DEF Life
<1>10. CASE CallIsOpen(e) BY <1>3, <1>4, <1>5, <1>6, <1>10 DEF Life
<1>11. CASE call[e] # "failed" /\ ~CallIsOpen(e)
  <2>1. CASE e \in handled BY <1>3, <1>6, <1>8, <1>11, <2>1 DEF Life
  <2>2. CASE Runs(e) BY <1>3, <1>6, <1>7, <1>8, <1>11, <2>2 DEF Life
  <2>3. CASE e \notin handled /\ ~Runs(e) BY <1>3, <1>11, <2>3 DEF Life
  <2>4. QED BY <2>1, <2>2, <2>3
<1>12. QED BY <1>9, <1>10, <1>11

LEMMA LifeIsPhaseNext ==
    TypeOK' /\ PlacesInv' => phase' = [e \in Events |-> Life(e)']
<1>1. (TypeOK /\ PlacesInv => phase = [e \in Events |-> Life(e)])'
  BY LifeIsPhase, PTL
<1>2. QED BY <1>1

LEMMA PhaseMoves ==
    ASSUME TypeOK /\ PlacesInv, (TypeOK /\ PlacesInv)', NEW e \in Events, NEW to,
           Life(e)' = to, \A f \in Events \ {e} : Life(f)' = Life(f)
    PROVE  phase[e] = Life(e) /\ phase' = [phase EXCEPT ![e] = to]
<1>1. phase = [f \in Events |-> Life(f)] /\ phase' = [f \in Events |-> Life(f)']
  BY LifeIsPhase, LifeIsPhaseNext
<1>2. phase[e] = Life(e) BY <1>1
<1>3. [phase EXCEPT ![e] = to] = [f \in Events |-> IF f = e THEN to ELSE Life(f)]
  BY <1>1
<1>4. [f \in Events |-> Life(f)'] = [f \in Events |-> IF f = e THEN to ELSE Life(f)]
  OBVIOUS
<1>5. QED BY <1>1, <1>2, <1>3, <1>4, Zenon

LEMMA PhaseStays ==
    ASSUME TypeOK /\ PlacesInv, (TypeOK /\ PlacesInv)',
           \A f \in Events : Life(f)' = Life(f)
    PROVE  phase' = phase
<1>1. phase = [f \in Events |-> Life(f)] /\ phase' = [f \in Events |-> Life(f)']
  BY LifeIsPhase, LifeIsPhaseNext
<1>2. [f \in Events |-> Life(f)'] = [f \in Events |-> Life(f)] OBVIOUS
<1>3. QED BY <1>1, <1>2, Zenon

LEMMA LifeKept ==
    ASSUME NEW f \in Events,
           CallIsOpen(f)' <=> CallIsOpen(f), ~CallIsOpen(f) => call'[f] = call[f],
           (f \in handled)' <=> f \in handled,
           Runs(f)' <=> Runs(f), Claims(f)' <=> Claims(f), Queued(f)' <=> Queued(f)
    PROVE  Life(f)' = Life(f)
<1>1. CASE CallIsOpen(f) BY <1>1 DEF Life, CallIsOpen
<1>2. CASE ~CallIsOpen(f)
  <2>1. ~CallIsOpen(f)' /\ call'[f] = call[f] BY <1>2
  <2> HIDE DEF CallIsOpen
  <2>2. QED BY <1>2, <2>1 DEF Life
<1>3. QED BY <1>1, <1>2

LEMMA SameCalls ==
    ASSUME UNCHANGED call
    PROVE  \A f \in Events : /\ CallIsOpen(f)' <=> CallIsOpen(f)
                             /\ ~CallIsOpen(f) => call'[f] = call[f]
  BY DEF CallIsOpen

\* What one worker does with its event does not touch the other events.
LEMMA OtherHands ==
    ASSUME NEW t \in Workers, NEW e \in Events,
           \A w \in Workers \ {t} : current'[w] = current[w] /\ pc'[w] = pc[w],
           current[t] \in {e, NULL}, current'[t] \in {e, NULL}
    PROVE  \A f \in Events \ {e} : (Runs(f)' <=> Runs(f)) /\ (Claims(f)' <=> Claims(f))
<1> SUFFICES ASSUME NEW f \in Events \ {e}
             PROVE  (Runs(f)' <=> Runs(f)) /\ (Claims(f)' <=> Claims(f))
  OBVIOUS
<1>1. current[t] # f /\ current'[t] # f BY NullAssumption
<1>2. \A w \in Workers : /\ current'[w] = f <=> current[w] = f
                         /\ current[w] = f => pc'[w] = pc[w]
  BY <1>1
<1>3. Runs(f)' <=> Runs(f) BY <1>2 DEF Runs
<1>4. Claims(f)' <=> Claims(f) BY <1>2 DEF Claims
<1>5. QED BY <1>3, <1>4

LEMMA SameHands ==
    ASSUME PlacesInv, UNCHANGED current,
           \A w \in Workers : pc[w] \in {"claim", "handle"} => pc'[w] = pc[w]
    PROVE  \A f \in Events : (Runs(f)' <=> Runs(f)) /\ (Claims(f)' <=> Claims(f))
<1> SUFFICES ASSUME NEW f \in Events
             PROVE  (Runs(f)' <=> Runs(f)) /\ (Claims(f)' <=> Claims(f))
  OBVIOUS
<1>1. \A w \in Workers : current[w] = f => pc'[w] = pc[w]
  BY NullAssumption DEF PlacesInv, HoldsInHand
<1>2. Runs(f)' <=> Runs(f) BY <1>1 DEF Runs
<1>3. Claims(f)' <=> Claims(f) BY <1>1 DEF Claims
<1>4. QED BY <1>2, <1>3

AllInv == TypeOK /\ PoolInv /\ PlacesInv /\ ThreadLimit

\* The push is the executor's Accept.
LEMMA PushAccepts ==
    ASSUME AllInv, AllInv', NEW e \in Events, PushEvent(e)
    PROVE  Abs!Accept(e)
<1>1. TypeOK /\ PoolInv /\ PlacesInv /\ (TypeOK /\ PlacesInv)' BY DEF AllInv
<1>2. Queued(e)' /\ \A f \in Events \ {e} : Queued(f)' <=> Queued(f)
  BY <1>1, PushPlaces
<1>3. /\ call[e] = "push" /\ call' = [call EXCEPT ![e] = "done"]
      /\ UNCHANGED <<current, handled, m_isTerminating_lb>>
  BY DEF PushEvent, deinitVars
<1>4. \A w \in Workers : pc[w] \in {"claim", "handle"} => pc'[w] = pc[w]
  <2>1. pc' = Woken(target[e]) BY DEF PushEvent, PushTo
  <2>2. target[e] \in Workers BY <1>1, <1>3 DEF TypeOK
  <2>3. QED BY <1>1, <2>1, <2>2 DEF Woken, TypeOK
<1>5. \A f \in Events : (Runs(f)' <=> Runs(f)) /\ (Claims(f)' <=> Claims(f))
  BY <1>1, <1>3, <1>4, SameHands
<1>6. call'[e] = "done" /\ \A f \in Events \ {e} : call'[f] = call[f]
  BY <1>1, <1>3 DEF TypeOK
<1>7. ~Runs(e) /\ ~Claims(e) /\ e \notin handled
  BY <1>1, <1>3 DEF PlacesInv, NowhereYet, Held, Runs, Claims
<1>8. Life(e) = "new" /\ Life(e)' = "accepted"
  <2>1. CallIsOpen(e) /\ ~CallIsOpen(e)' BY <1>3, <1>6 DEF CallIsOpen
  <2>2. Life(e) = "new" BY <1>3, <2>1 DEF Life
  <2>3. Life(e)' = "accepted" BY <1>2, <1>3, <1>5, <1>6, <1>7, <2>1 DEF Life
  <2>4. QED BY <2>2, <2>3
<1>9. \A f \in Events \ {e} : Life(f)' = Life(f)
  <2> SUFFICES ASSUME NEW f \in Events \ {e} PROVE Life(f)' = Life(f)
    OBVIOUS
  <2>1. (CallIsOpen(f)' <=> CallIsOpen(f)) /\ call'[f] = call[f]
    BY <1>6 DEF CallIsOpen
  <2>2. QED BY <1>2, <1>3, <1>5, <2>1, LifeKept
<1>10. phase[e] = "new" /\ phase' = [phase EXCEPT ![e] = "accepted"]
  BY <1>1, <1>8, <1>9, PhaseMoves
<1>11. QED BY <1>3, <1>10 DEF Abs!Accept, Abs!Move

\* A failed pthread_create is the executor's Refuse.
LEMMA FailureRefuses ==
    ASSUME AllInv, AllInv', NEW e \in Events, StartThreadFails(e)
    PROVE  Abs!Refuse(e)
<1>1. TypeOK /\ PoolInv /\ PlacesInv /\ (TypeOK /\ PlacesInv)' BY DEF AllInv
<1>2. /\ call[e] = "grow" /\ call' = [call EXCEPT ![e] = "failed"]
      /\ UNCHANGED <<deque, pc, current, handled, m_isTerminating_lb>>
  BY DEF StartThreadFails, workerVars, deinitVars
<1>3. call'[e] = "failed" /\ \A f \in Events \ {e} : call'[f] = call[f]
  BY <1>1, <1>2 DEF TypeOK
<1>4. \A f \in Events : (Runs(f)' <=> Runs(f)) /\ (Claims(f)' <=> Claims(f))
  BY <1>2 DEF Runs, Claims
<1>5. \A f \in Events : Queued(f)' <=> Queued(f)
  BY <1>1, <1>2, UntouchedDeques DEF PlacesInv
<1>6. Life(e) = "new" /\ Life(e)' = "refused"
  BY <1>2, <1>3 DEF Life, CallIsOpen
<1>7. \A f \in Events \ {e} : Life(f)' = Life(f)
  <2> SUFFICES ASSUME NEW f \in Events \ {e} PROVE Life(f)' = Life(f)
    OBVIOUS
  <2>1. (CallIsOpen(f)' <=> CallIsOpen(f)) /\ call'[f] = call[f]
    BY <1>3 DEF CallIsOpen
  <2>2. QED BY <1>2, <1>4, <1>5, <2>1, LifeKept
<1>8. phase[e] = "new" /\ phase' = [phase EXCEPT ![e] = "refused"]
  BY <1>1, <1>6, <1>7, PhaseMoves
<1>9. QED BY <1>2, <1>8 DEF Abs!Refuse, Abs!Move

\* The pop moves its event on within what the executor calls accepted.
LEMMA PopStutters ==
    ASSUME AllInv, AllInv', NEW t \in Workers, PopEvent(t)
    PROVE  UNCHANGED <<phase, m_isTerminating_lb>>
<1>1. TypeOK /\ PoolInv /\ PlacesInv /\ (TypeOK /\ PlacesInv)' BY DEF AllInv
<1>2. PICK e \in Events : e = Head(deque[t])
  <2>1. Head(deque[t]) \in Items BY <1>1, PopItem DEF PopEvent, TypeOK
  <2>2. QED BY <2>1, ItemsFact DEF PopEvent
<1>3. /\ current' = [current EXCEPT ![t] = e]
      /\ pc' = [pc EXCEPT ![t] = "claim"]
      /\ pc[t] = "pop"
      /\ UNCHANGED <<handled, call, m_isTerminating_lb>>
  BY <1>2 DEF PopEvent, deinitVars, callVars
<1>4. Queued(e) /\ \A f \in Events : Queued(f)' <=> Queued(f) /\ f # e
  BY <1>1, <1>2, PopPlaces
<1>5. current[t] = NULL
  BY <1>1, <1>3 DEF PlacesInv, HoldsInHand
<1>6. /\ \A w \in Workers \ {t} : current'[w] = current[w] /\ pc'[w] = pc[w]
      /\ current'[t] = e /\ pc'[t] = "claim"
  BY <1>1, <1>3 DEF TypeOK
<1>7. \A f \in Events \ {e} : (Runs(f)' <=> Runs(f)) /\ (Claims(f)' <=> Claims(f))
  BY <1>5, <1>6, OtherHands
<1>8. Claims(e)' BY <1>6 DEF Claims
<1>9. ~Runs(e)' BY <1>1, <1>6 DEF Runs, PlacesInv, HeldOnce
<1>10. ~Runs(e) /\ e \notin handled
  BY <1>1, <1>4 DEF PlacesInv, OnePlace, Runs, Held
<1>11. \A f \in Events : Life(f)' = Life(f)
  <2> SUFFICES ASSUME NEW f \in Events PROVE Life(f)' = Life(f)
    OBVIOUS
  <2>1. CASE f = e
    <3>1. ~CallIsOpen(e) /\ call[e] # "failed"
      BY <1>1, <1>4 DEF PlacesInv, NowhereYet, CallIsOpen
    <3>2. CallIsOpen(e)' <=> CallIsOpen(e) BY <1>3 DEF CallIsOpen
    <3>3. Life(e) = "accepted" BY <3>1, <1>4, <1>10 DEF Life
    <3>4. Life(e)' = "accepted" BY <3>1, <3>2, <1>3, <1>8, <1>9, <1>10 DEF Life
    <3>5. QED BY <2>1, <3>3, <3>4
  <2>2. CASE f # e
    <3>1. \A g \in Events : /\ CallIsOpen(g)' <=> CallIsOpen(g)
                            /\ ~CallIsOpen(g) => call'[g] = call[g]
      BY <1>3, SameCalls
    <3>2. QED BY <2>2, <3>1, <1>3, <1>4, <1>7, LifeKept
  <2>3. QED BY <2>1, <2>2
<1>12. QED BY <1>1, <1>3, <1>11, PhaseStays

\* Each handler that runs has a worker of its own, so with one worker only about
\* to begin there are fewer than MaxThreads handlers.
LEMMA RoomToRun ==
    ASSUME AllInv, NEW t \in Workers, pc[t] = "claim"
    PROVE  Cardinality({e \in Events : Runs(e)}) < MaxThreads
<1> DEFINE S == {e \in Events : Runs(e)}
           T == m_vector \ {t}
           h == [e \in S |-> CHOOSE w \in Workers : current[w] = e /\ pc[w] = "handle"]
<1>1. TypeOK /\ PoolInv /\ PlacesInv /\ ThreadLimit BY DEF AllInv
<1>2. \A e \in S : h[e] \in T /\ current[h[e]] = e
  <2> SUFFICES ASSUME NEW e \in S PROVE h[e] \in T /\ current[h[e]] = e
    OBVIOUS
  <2>1. h[e] \in Workers /\ current[h[e]] = e /\ pc[h[e]] = "handle"
    BY DEF Runs
  <2>2. h[e] \in m_vector /\ h[e] # t BY <1>1, <2>1 DEF PoolInv, Started
  <2>3. QED BY <2>1, <2>2
<1>3. h \in Injection(S, T)
  <2>1. h \in [S -> T]
    <3>1. h = [e \in S |-> h[e]] OBVIOUS
    <3>2. QED BY <1>2, <3>1
  <2> HIDE DEF h, S, T
  <2>2. \A a, b \in S : h[a] = h[b] => a = b BY <1>2
  <2>3. QED BY <2>1, <2>2 DEF Injection, IsInjective
<1>4. IsFiniteSet(m_vector) /\ Cardinality(m_vector) \in Nat
  BY <1>1, FS_Subset, FS_CardinalityType, EnoughWorkers DEF TypeOK
<1>5. t \in m_vector BY <1>1 DEF PoolInv, Started
<1>6. IsFiniteSet(T) /\ Cardinality(T) = Cardinality(m_vector) - 1
  BY <1>4, <1>5, FS_RemoveElement
<1> HIDE DEF h, S, T
<1>7. IsFiniteSet(S) /\ Cardinality(S) <= Cardinality(T)
  BY <1>3, <1>6, FS_Injection
<1>8. Cardinality(S) \in Nat /\ Cardinality(m_vector) <= MaxThreads /\ MaxThreads \in Nat
  BY <1>1, <1>7, FS_CardinalityType, MaxThreadsAssumption DEF ThreadLimit
<1>9. Cardinality(S) < MaxThreads BY <1>4, <1>6, <1>7, <1>8
<1>10. QED BY <1>9 DEF S

\* The executor counts as the pool does.
LEMMA SameCardinality == \A S : Abs!Cardinality(S) = Cardinality(S)
  BY Zenon DEF Abs!Cardinality, Cardinality

\* st_busy is the executor's Start.
LEMMA ClaimStarts ==
    ASSUME AllInv, AllInv', NEW t \in Workers, ClaimBusy(t)
    PROVE  \E e \in Events : Abs!Start(e)
<1>1. TypeOK /\ PoolInv /\ PlacesInv /\ (TypeOK /\ PlacesInv)' BY DEF AllInv
<1>2. /\ pc[t] = "claim" /\ pc' = [pc EXCEPT ![t] = "handle"]
      /\ UNCHANGED <<deque, current, handled, call, m_isTerminating_lb>>
  BY DEF ClaimBusy, deinitVars, callVars
<1>3. PICK e \in Events : e = current[t]
  BY <1>1, <1>2 DEF TypeOK
<1>4. \A f \in Events : Queued(f)' <=> Queued(f)
  BY <1>1, <1>2, UntouchedDeques DEF PlacesInv
<1>5. /\ \A w \in Workers \ {t} : current'[w] = current[w] /\ pc'[w] = pc[w]
      /\ current'[t] = e /\ pc'[t] = "handle"
  BY <1>1, <1>2, <1>3 DEF TypeOK
<1>6. \A f \in Events \ {e} : (Runs(f)' <=> Runs(f)) /\ (Claims(f)' <=> Claims(f))
  BY <1>3, <1>5, OtherHands
<1>7. Held(e) /\ Claims(e) BY <1>2, <1>3 DEF Held, Claims
<1>8. ~Runs(e) BY <1>1, <1>2, <1>3 DEF Runs, PlacesInv, HeldOnce
<1>9. Runs(e)' BY <1>5 DEF Runs
<1>10. e \notin handled /\ ~CallIsOpen(e) /\ call[e] # "failed"
  BY <1>1, <1>7 DEF PlacesInv, OnePlace, NowhereYet, CallIsOpen
<1>11. \A g \in Events : /\ CallIsOpen(g)' <=> CallIsOpen(g)
                         /\ ~CallIsOpen(g) => call'[g] = call[g]
  BY <1>2, SameCalls
<1>12. Life(e) = "accepted" BY <1>7, <1>8, <1>10 DEF Life
<1>13. Life(e)' = "running" BY <1>2, <1>9, <1>10, <1>11 DEF Life
<1>14. \A f \in Events \ {e} : Life(f)' = Life(f)
  BY <1>2, <1>4, <1>6, <1>11, LifeKept
<1>15. phase[e] = "accepted" /\ phase' = [phase EXCEPT ![e] = "running"]
  BY <1>1, <1>12, <1>13, <1>14, PhaseMoves
<1>16. Cardinality({f \in Events : phase[f] = "running"}) < MaxThreads
  <2>1. \A f \in Events : phase[f] = Life(f) BY <1>1, LifeIsPhase
  <2>2. \A f \in Events : Life(f) = "running" => Runs(f) BY DEF Life
  <2>3. \A f \in Events : Runs(f) => Life(f) = "running"
    BY <1>1 DEF Life, Runs, Held, PlacesInv, OnePlace, NowhereYet, CallIsOpen
  <2>4. {f \in Events : phase[f] = "running"} = {f \in Events : Runs(f)}
    BY <2>1, <2>2, <2>3
  <2>5. QED BY <1>2, <2>4, RoomToRun
<1>17. Abs!Start(e)
  <2>1. UNCHANGED m_isTerminating_lb BY <1>2
  <2>2. Abs!Move(e, "accepted", "running") BY <1>15 DEF Abs!Move
  <2>3. Abs!Cardinality(Abs!Running) < MaxThreads
    BY <1>16, SameCardinality DEF Abs!Running
  <2>4. QED BY <2>1, <2>2, <2>3 DEF Abs!Start
<1>18. QED BY <1>17

\* The end of a handler is the executor's Finish; a worker that st_busy throws out
\* of its loop loses its event, which the executor allows once deinit has begun.
LEMMA FinishOrLose ==
    ASSUME AllInv, AllInv', NEW t \in Workers, FinishEvent(t) \/ ClaimThrows(t)
    PROVE  (\E e \in Events : Abs!Finish(e)) \/ Abs!Lose
<1>1. TypeOK /\ PoolInv /\ PlacesInv /\ (TypeOK /\ PlacesInv)' BY DEF AllInv
<1>2. PICK e \in Events : e = current[t]
  BY <1>1 DEF TypeOK, FinishEvent, ClaimThrows
<1>3. /\ current' = [current EXCEPT ![t] = NULL]
      /\ pc' = [pc EXCEPT ![t] = "top"]
      /\ UNCHANGED <<deque, call, m_isTerminating_lb>>
      /\ FinishEvent(t) => pc[t] = "handle" /\ handled' = handled \cup {e}
      /\ ClaimThrows(t) => pc[t] = "claim" /\ t \notin m_container /\ UNCHANGED handled
  BY <1>2 DEF FinishEvent, ClaimThrows, deinitVars, callVars
<1>4. \A f \in Events : Queued(f)' <=> Queued(f)
  BY <1>1, <1>3, UntouchedDeques DEF PlacesInv
<1>5. /\ \A w \in Workers \ {t} : current'[w] = current[w] /\ pc'[w] = pc[w]
      /\ current'[t] = NULL
  BY <1>1, <1>3 DEF TypeOK
<1>6. \A f \in Events \ {e} : (Runs(f)' <=> Runs(f)) /\ (Claims(f)' <=> Claims(f))
  BY <1>2, <1>5, OtherHands
<1>7. Held(e) /\ ~Held(e)' BY <1>1, <1>2, SettlePlaces
<1>8. ~Queued(e) /\ e \notin handled /\ ~CallIsOpen(e) /\ call[e] # "failed"
  BY <1>1, <1>7 DEF PlacesInv, OnePlace, NowhereYet, CallIsOpen
<1>9. \A g \in Events : /\ CallIsOpen(g)' <=> CallIsOpen(g)
                        /\ ~CallIsOpen(g) => call'[g] = call[g]
  BY <1>3, SameCalls
<1>10. \A f \in Events \ {e} : (f \in handled)' <=> f \in handled
  BY <1>3
<1>11. \A f \in Events \ {e} : Life(f)' = Life(f)
  BY <1>4, <1>6, <1>9, <1>10, LifeKept
<1>12. CASE FinishEvent(t)
  <2>1. Runs(e) BY <1>2, <1>3, <1>12 DEF Runs
  <2>2. Life(e) = "running" BY <1>8, <2>1 DEF Life
  <2>3. Life(e)' = "done" BY <1>3, <1>8, <1>9, <1>12 DEF Life
  <2>4. phase[e] = "running" /\ phase' = [phase EXCEPT ![e] = "done"]
    BY <1>1, <1>11, <2>2, <2>3, PhaseMoves
  <2>5. Abs!Finish(e) BY <1>3, <2>4 DEF Abs!Finish, Abs!Move
  <2>6. QED BY <2>5
<1>13. CASE ClaimThrows(t)
  <2>1. Claims(e) BY <1>2, <1>3, <1>13 DEF Claims
  <2>2. ~Runs(e) BY <1>1, <1>2, <1>3, <1>13 DEF Runs, PlacesInv, HeldOnce
  <2>3. Life(e) = "accepted" BY <1>8, <2>1, <2>2 DEF Life
  <2>4. ~Runs(e)' /\ ~Claims(e)' BY <1>7 DEF Runs, Claims, Held
  <2>5. Life(e)' = "lost" BY <1>3, <1>4, <1>8, <1>9, <1>13, <2>4 DEF Life
  <2>6. m_isTerminating_lb
    <3>1. t \in m_vector BY <1>1, <1>3, <1>13 DEF PoolInv, Started
    <3>2. main \notin {"run", "flagged"}
      BY <1>1, <1>3, <1>13, <3>1 DEF PoolInv, IdleMapExact
    <3>3. QED BY <1>1, <3>2 DEF PoolInv, ShutdownInv
  <2>7. phase[e] = "accepted" /\ phase' = [phase EXCEPT ![e] = "lost"]
    BY <1>1, <1>11, <2>3, <2>5, PhaseMoves
  <2>8. \E S \in SUBSET {f \in Events : phase[f] = "accepted"} :
            phase' = [f \in Events |-> IF f \in S THEN "lost" ELSE phase[f]]
    <3>1. phase' = [f \in Events |-> IF f \in {e} THEN "lost" ELSE phase[f]]
      <4>1. phase = [f \in Events |-> Life(f)] BY <1>1, LifeIsPhase
      <4>2. QED BY <2>7, <4>1
    <3>2. {e} \in SUBSET {f \in Events : phase[f] = "accepted"} BY <2>7
    <3>3. QED BY <3>1, <3>2
  <2>9. UNCHANGED m_isTerminating_lb BY <1>3
  <2>10. QED BY <2>6, <2>8, <2>9 DEF Abs!Lose
<1>14. QED BY <1>12, <1>13

\* No other step moves an event, but deinit may clear a deque and lose what is in
\* it, and raises the flag.
LEMMA OthersStutterOrLose ==
    ASSUME AllInv, AllInv', [Next]_vars,
           ~\E e \in Events : PushEvent(e) \/ StartThreadFails(e),
           ~\E w \in Workers : PopEvent(w) \/ ClaimBusy(w) \/ FinishEvent(w) \/ ClaimThrows(w)
    PROVE  /\ DeinitSetFlag => UNCHANGED phase
           /\ ~DeinitSetFlag => Abs!Lose \/ UNCHANGED <<phase, m_isTerminating_lb>>
<1>1. TypeOK /\ PoolInv /\ PlacesInv /\ (TypeOK /\ PlacesInv)' BY DEF AllInv
<1>2. /\ UNCHANGED <<current, handled>>
      /\ \A e \in Events : Queued(e)' => Queued(e)
      /\ m_isTerminating_lb \/ \A e \in Events : Queued(e) => Queued(e)'
  BY <1>1, OtherPlaces
<1>3. \A e \in Events : /\ CallIsOpen(e)' <=> CallIsOpen(e)
                        /\ ~CallIsOpen(e) => call'[e] = call[e]
  BY <1>1, CallsKept
<1>4. \A w \in Workers : pc[w] \in {"claim", "handle"} => pc'[w] = pc[w]
  BY <1>1, HandsKept
<1>5. \A f \in Events : (Runs(f)' <=> Runs(f)) /\ (Claims(f)' <=> Claims(f))
  BY <1>1, <1>2, <1>4, SameHands
<1>6. \A f \in Events : (Queued(f) => Queued(f)') => Life(f)' = Life(f)
  BY <1>2, <1>3, <1>5, LifeKept
<1>7. (\A f \in Events : Queued(f) => Queued(f)') => UNCHANGED phase
  BY <1>1, <1>6, PhaseStays
<1>8. DeinitSetFlag => UNCHANGED phase
  <2>1. DeinitSetFlag => UNCHANGED deque BY DEF DeinitSetFlag, workerVars
  <2>2. QED BY <1>1, <1>7, <2>1, UntouchedDeques DEF PlacesInv
<1>9. ~DeinitSetFlag => UNCHANGED m_isTerminating_lb
  BY DEF Next, vars, deinitVars, Call, Worker, Deinit, Submit, PickIdle,
     StartThread, StartThreadFails, PickAny, PushEvent, FetchDeque, TestTerminating,
     PopNull, PopEvent, PopEmpty, Wait, SpuriousWakeup, ClaimBusy, ClaimThrows,
     FinishEvent, DeinitSnapshot, DeinitNext, DeinitClear, DeinitPushNull, DeinitDeque,
     DeinitJoin
<1>10. m_isTerminating_lb =>
          \E S \in SUBSET {f \in Events : phase[f] = "accepted"} :
              phase' = [f \in Events |-> IF f \in S THEN "lost" ELSE phase[f]]
  <2> DEFINE S == {f \in Events : Queued(f) /\ ~Queued(f)'}
  <2>1. \A f \in S : Life(f) = "accepted" /\ Life(f)' = "lost"
    <3> SUFFICES ASSUME NEW f \in S PROVE Life(f) = "accepted" /\ Life(f)' = "lost"
      OBVIOUS
    <3>1. f \in Events /\ Queued(f) /\ ~Queued(f)' OBVIOUS
    <3>2. ~Held(f) /\ f \notin handled /\ ~CallIsOpen(f) /\ call[f] # "failed"
      BY <1>1, <3>1 DEF PlacesInv, OnePlace, NowhereYet, CallIsOpen
    <3>3. ~Runs(f) /\ ~Claims(f) BY <3>2 DEF Runs, Claims, Held
    <3>4. Life(f) = "accepted" BY <3>1, <3>2, <3>3 DEF Life
    <3>5. Life(f)' = "lost" BY <1>2, <1>3, <1>5, <3>1, <3>2, <3>3 DEF Life
    <3>6. QED BY <3>4, <3>5
  <2>2. \A f \in Events \ S : Life(f)' = Life(f) BY <1>6
  <2>3. phase = [f \in Events |-> Life(f)] /\ phase' = [f \in Events |-> Life(f)']
    BY <1>1, LifeIsPhase, LifeIsPhaseNext
  <2> HIDE DEF S
  <2>4. \A f \in Events : phase'[f] = IF f \in S THEN "lost" ELSE phase[f]
    BY <2>1, <2>2, <2>3
  <2>5. phase' = [f \in Events |-> IF f \in S THEN "lost" ELSE phase[f]]
    BY <2>3, <2>4
  <2>6. S \in SUBSET {f \in Events : phase[f] = "accepted"}
    <3>1. S \subseteq Events BY DEF S
    <3>2. QED BY <2>1, <2>3, <3>1
  <2>7. QED BY <2>5, <2>6
<1>11. m_isTerminating_lb /\ UNCHANGED m_isTerminating_lb => Abs!Lose
  BY <1>10 DEF Abs!Lose
<1>12. QED BY <1>2, <1>7, <1>8, <1>9, <1>11

\* deinit raises the flag once.
FlagDown == main = "run" => ~m_isTerminating_lb

LEMMA FlagDownInvariant == Spec => []FlagDown
<1>1. Init => FlagDown BY DEF Init, FlagDown
<1>2. FlagDown /\ [Next]_vars => FlagDown'
  BY DEF FlagDown, Next, vars, deinitVars, Call, Worker, Deinit, Submit, PickIdle,
     StartThread, StartThreadFails, PickAny, PushEvent, FetchDeque, TestTerminating,
     PopNull, PopEvent, PopEmpty, Wait, SpuriousWakeup, ClaimBusy, ClaimThrows,
     FinishEvent, DeinitSetFlag, DeinitSnapshot, DeinitNext, DeinitClear,
     DeinitPushNull, DeinitDeque, DeinitJoin
<1>3. QED BY <1>1, <1>2, PTL DEF Spec

LEMMA InitRefines == Init => Abs!Init
<1> SUFFICES ASSUME Init PROVE Abs!Init
  OBVIOUS
<1>1. TypeOK
  <2>1. deque \in [Workers -> Seq(Items)]
    BY DEF Init
  <2>2. QED BY <2>1, ItemsFact DEF Init, TypeOK, WorkerPC, CallPC, MainPC
<1>2. phase = [e \in Events |-> Life(e)] BY <1>1, InitPlaces, LifeIsPhase
<1>3. \A e \in Events : Life(e) = "new" BY DEF Init, Life, CallIsOpen
<1>4. phase = [e \in Events |-> "new"] BY <1>2, <1>3
<1>5. QED BY <1>4 DEF Init, Abs!Init

LEMMA StepRefines ==
    AllInv /\ AllInv' /\ FlagDown /\ [Next]_vars => [Abs!Next]_(Abs!vars)
<1> SUFFICES ASSUME AllInv, AllInv', FlagDown, [Next]_vars PROVE [Abs!Next]_(Abs!vars)
  OBVIOUS
<1>1. CASE \E e \in Events : PushEvent(e) BY <1>1, PushAccepts DEF Abs!Next
<1>2. CASE \E e \in Events : StartThreadFails(e) BY <1>2, FailureRefuses DEF Abs!Next
<1>3. CASE \E w \in Workers : PopEvent(w) BY <1>3, PopStutters DEF Abs!vars
<1>4. CASE \E w \in Workers : ClaimBusy(w) BY <1>4, ClaimStarts DEF Abs!Next
<1>5. CASE \E w \in Workers : FinishEvent(w) \/ ClaimThrows(w)
  BY <1>5, FinishOrLose DEF Abs!Next
<1>6. CASE /\ ~\E e \in Events : PushEvent(e) \/ StartThreadFails(e)
           /\ ~\E w \in Workers :
                  PopEvent(w) \/ ClaimBusy(w) \/ FinishEvent(w) \/ ClaimThrows(w)
  <2>1. CASE DeinitSetFlag
    <3>1. UNCHANGED phase BY <1>6, <2>1, OthersStutterOrLose
    <3>2. ~m_isTerminating_lb /\ m_isTerminating_lb' = TRUE
      BY <2>1 DEF DeinitSetFlag, FlagDown
    <3>3. QED BY <3>1, <3>2 DEF Abs!Stop, Abs!Next
  <2>2. CASE ~DeinitSetFlag
    <3>1. Abs!Lose \/ UNCHANGED <<phase, m_isTerminating_lb>>
      BY <1>6, <2>2, OthersStutterOrLose
    <3>2. QED BY <3>1 DEF Abs!Next, Abs!vars
  <2>3. QED BY <2>1, <2>2
<1>7. QED BY <1>1, <1>2, <1>3, <1>4, <1>5, <1>6

\* Every step of the pool is a step of the executor or none: an accepted event
\* begins and ends its handler once, no more than MaxThreadsCount handlers run at a
\* time, and only a listener that is being stopped gives an event up.
THEOREM PoolImplementsExecutor == Spec => ImplementsExecutor
<1>1. Spec => []AllInv
  BY TypeCorrect, PoolInvariant, PlacesInvariant, ThreadLimitHolds, PTL DEF AllInv
<1>2. QED
  BY <1>1, InitRefines, StepRefines, FlagDownInvariant, PTL
     DEF Spec, ImplementsExecutor, Abs!Spec

-----------------------------------------------------------------------------
(* The single-threaded listener                                            *)
(*                                                                         *)
(* Its variables are its own, also those it calls by the same names: a     *)
(* theorem about One!Spec says nothing of Spec.  Of the constants it needs *)
(* NullAssumption only.                                                    *)

VARIABLES m_isTerminating, order

One == INSTANCE ListenerBuffered1Thread

\* The sequence operations of EventDeque stay within the items of the deque.
LEMMA PushOne ==
    ASSUME NEW S, NEW s \in Seq(S), NEW x \in S
    PROVE  Append(s, x) \in Seq(S)
  OBVIOUS

LEMMA PopOne ==
    ASSUME NEW S, NEW s \in Seq(S), s # <<>>
    PROVE  Head(s) \in S /\ Tail(s) \in Seq(S)
  OBVIOUS

LEMMA EmptyOne == ASSUME NEW S PROVE <<>> \in Seq(S)
  OBVIOUS

LEMMA OneItems ==
    NULL \in One!Items /\ Events \subseteq One!Items /\ One!Items \ {NULL} \subseteq Events
  BY NullAssumption DEF One!Items

LEMMA AppendItems ==
    \A s, t \in Seq(One!Items), x \in One!Items : Append(s \o t, x) = s \o Append(t, x)
<1> SUFFICES ASSUME NEW s \in Seq(One!Items), NEW t \in Seq(One!Items), NEW x \in One!Items
             PROVE  Append(s \o t, x) = s \o Append(t, x)
  OBVIOUS
<1>1. s \o t \in Seq(One!Items) /\ <<x>> \in Seq(One!Items)
  OBVIOUS
<1>2. Append(s \o t, x) = (s \o t) \o <<x>> BY <1>1, AppendIsConcat
<1>3. Append(t, x) = t \o <<x>> BY AppendIsConcat
<1>4. QED BY <1>1, <1>2, <1>3, ConcatAssociative

\* The pill is not in the deque before deinit pushes it.
NoPillYet == main \in {"run", "clear", "pill"} => deque \in Seq(Events)

\* The flags go up in deinit, and only there.
FlagsInv ==
    main \in {"run", "clear", "pill", "flag"} => ~m_isTerminating /\ ~dqTerminating

\* A worker that holds an event is on its way to a handler.
HoldsInv == current # NULL => pc \in {"popped", "process", "handle"}

JoinedInv == main = "done" => pc = "exit"

ListenerInv ==
    One!TypeOK /\ NoPillYet /\ FlagsInv /\ HoldsInv /\ JoinedInv /\ One!HandledInOrder

LEMMA InitListener == One!Init => ListenerInv
<1> SUFFICES ASSUME One!Init PROVE ListenerInv
  OBVIOUS
<1>1. One!TypeOK /\ NoPillYet
  BY EmptyOne, OneItems DEF One!Init, One!TypeOK, NoPillYet
<1>2. One!HandledInOrder
  BY EmptyOne DEF One!Init, One!HandledInOrder, One!InHand
<1>3. QED BY <1>1, <1>2 DEF One!Init, ListenerInv, FlagsInv, HoldsInv, JoinedInv

\* Events that are pushed keep their place in the order.
LEMMA PushListener ==
    ASSUME ListenerInv, NEW e \in Events, One!Push(e) PROVE ListenerInv'
<1> USE DEF ListenerInv, One!Push, One!To, One!deinitVars, One!Enqueued
<1>1. e \in One!Items /\ deque' \in Seq(One!Items) /\ order' \in Seq(Events)
  BY OneItems, PushOne DEF One!TypeOK
<1>2. One!TypeOK' BY <1>1 DEF One!TypeOK, One!Woken
<1>3. NoPillYet' BY PushOne DEF NoPillYet
<1>4. One!HandledInOrder'
  <2> SUFFICES ASSUME main = "run" PROVE order' = handled \o One!InHand \o Append(deque, e)
    BY DEF One!HandledInOrder, One!InHand
  <2>1. /\ One!InHand \in Seq(One!Items) /\ handled \in Seq(One!Items)
        /\ handled \o One!InHand \in Seq(One!Items)
    BY OneItems DEF One!InHand, One!TypeOK
  <2>2. order = handled \o One!InHand \o deque BY DEF One!HandledInOrder
  <2>3. Append(handled \o One!InHand \o deque, e) = handled \o One!InHand \o Append(deque, e)
    <3>1. deque \in Seq(One!Items) BY DEF One!TypeOK
    <3>2. QED BY <1>1, <2>1, <3>1, AppendItems
  <2>4. QED BY <2>2, <2>3
<1>5. QED
  BY <1>2, <1>3, <1>4 DEF FlagsInv, HoldsInv, JoinedInv, One!Woken

\* The worker takes the first event of the deque into its hand.
LEMMA PopListener ==
    ASSUME ListenerInv, One!PopEvent PROVE ListenerInv'
<1> USE DEF ListenerInv, One!PopEvent, One!Removed, One!deinitVars, One!callVars
<1>1. Head(deque) \in One!Items /\ Tail(deque) \in Seq(One!Items)
  BY PopOne DEF One!TypeOK
<1>2. One!TypeOK' BY <1>1 DEF One!TypeOK
<1>3. NoPillYet' BY PopOne DEF NoPillYet
<1>4. One!HandledInOrder'
  <2> SUFFICES ASSUME main = "run" PROVE order = handled \o One!InHand' \o Tail(deque)
    BY DEF One!HandledInOrder
  <2>1. current = NULL /\ One!InHand = <<>> BY DEF HoldsInv, One!InHand
  <2>2. Head(deque) \in Events BY PopOne DEF NoPillYet
  <2>3. One!InHand' = <<Head(deque)>> BY <2>2, NullAssumption DEF One!InHand
  <2>4. order = handled \o deque
    BY <2>1, ConcatEmptySeq DEF One!HandledInOrder, One!TypeOK
  <2>5. \A s, t \in Seq(One!Items) : t # <<>> => s \o t = s \o <<Head(t)>> \o Tail(t)
    OBVIOUS
  <2>6. handled \in Seq(One!Items) BY OneItems DEF One!TypeOK
  <2>7. QED BY <2>3, <2>4, <2>5, <2>6 DEF One!TypeOK
<1>5. QED BY <1>2, <1>3, <1>4 DEF FlagsInv, HoldsInv, JoinedInv

\* A handler that returned appends its event to what was handled.
LEMMA FinishListener ==
    ASSUME ListenerInv, One!FinishEvent PROVE ListenerInv'
<1> USE DEF ListenerInv, One!FinishEvent, One!deinitVars, One!callVars
<1>1. current \in Events /\ handled' \in Seq(Events)
  BY PushOne DEF One!TypeOK
<1>2. One!TypeOK' BY <1>1, OneItems DEF One!TypeOK
<1>3. One!HandledInOrder'
  <2> SUFFICES ASSUME main = "run" PROVE order = handled' \o <<>> \o deque
    BY DEF One!HandledInOrder, One!InHand
  <2>1. handled' \o <<>> = handled \o <<current>>
    BY <1>1 DEF One!TypeOK
  <2>2. QED BY <1>1, <2>1, NullAssumption DEF One!HandledInOrder, One!InHand
<1>4. QED BY <1>2, <1>3 DEF FlagsInv, HoldsInv, JoinedInv, NoPillYet

\* Steps that leave the queue and the worker's hand alone.
LEMMA SameQueue ==
    ASSUME ListenerInv, UNCHANGED <<deque, current, handled, order>>,
           main' = "run" => main = "run",
           main' \in {"run", "clear", "pill"} => main \in {"run", "clear", "pill"}
    PROVE  NoPillYet' /\ One!HandledInOrder'
  BY DEF ListenerInv, NoPillYet, One!HandledInOrder, One!InHand

LEMMA StepListener ==
    ASSUME ListenerInv, [One!Next]_(One!vars) PROVE ListenerInv'
<1> USE DEF ListenerInv, One!workerVars, One!callVars, One!deinitVars
<1>1. ASSUME NEW e \in Events, One!Push(e) PROVE ListenerInv'
  BY <1>1, PushListener
<1>2. CASE One!PopEvent BY <1>2, PopListener
<1>3. CASE One!FinishEvent BY <1>3, FinishListener
<1>4. ASSUME NEW e \in Events, One!TestContainer(e) \/ One!TestFlag(e) \/ One!PushOnNull(e)
      PROVE  ListenerInv'
  <2>1. NoPillYet' /\ One!HandledInOrder'
    BY <1>4, SameQueue DEF One!TestContainer, One!TestFlag, One!PushOnNull
  <2>2. \E to \in {"valid", "push", "refused", "crashed"} : call' = [call EXCEPT ![e] = to]
    BY <1>4 DEF One!TestContainer, One!TestFlag, One!PushOnNull, One!To
  <2>3. UNCHANGED <<deque, order, One!workerVars, One!deinitVars>>
    BY <1>4 DEF One!TestContainer, One!TestFlag, One!PushOnNull
  <2>4. One!TypeOK' BY <2>2, <2>3 DEF One!TypeOK
  <2>5. FlagsInv' /\ HoldsInv' /\ JoinedInv' BY <2>3 DEF FlagsInv, HoldsInv, JoinedInv
  <2>6. QED BY <2>1, <2>4, <2>5
<1>5. CASE \/ One!FetchDeque \/ One!TestTerminating \/ One!PopNull \/ One!PopEmpty
           \/ One!Wait \/ One!SpuriousWakeup
  <2> USE <1>5 DEF One!FetchDeque, One!TestTerminating, One!PopNull, One!PopEmpty, One!Wait,
          One!SpuriousWakeup
  <2>1. NoPillYet' /\ One!HandledInOrder' BY SameQueue
  <2>2. One!TypeOK' BY DEF One!TypeOK
  <2>3. QED BY <2>1, <2>2 DEF FlagsInv, HoldsInv, JoinedInv
<1>6. CASE One!TestPopped \/ One!ProcessEvent
  <2> USE <1>6 DEF One!TestPopped, One!ProcessEvent, One!ExitOrProcess, One!SecondTest
  <2>1. main = "run" => UNCHANGED current BY DEF FlagsInv, One!TypeOK
  <2>2. NoPillYet' /\ One!HandledInOrder' BY <2>1 DEF NoPillYet, One!HandledInOrder, One!InHand
  <2>3. One!TypeOK' BY OneItems DEF One!TypeOK
  <2>4. QED BY <2>2, <2>3 DEF FlagsInv, HoldsInv, JoinedInv
<1>7. CASE One!DeinitClear \/ One!DeinitPushNull
  <2>1. deque' \in Seq(One!Items)
    <3>1. deque \in Seq(One!Items) /\ NULL \in One!Items BY OneItems DEF One!TypeOK
    <3>2. CASE One!DeinitClear BY <3>1, <3>2, EmptyOne DEF One!DeinitClear
    <3>3. CASE One!DeinitPushNull
      BY <3>1, <3>3, EmptyOne, PushOne DEF One!DeinitPushNull, One!PillPushed
    <3>4. QED BY <1>7, <3>2, <3>3
  <2>2. NoPillYet' BY <1>7, EmptyOne DEF One!DeinitClear, One!DeinitPushNull, NoPillYet
  <2> USE <1>7 DEF One!DeinitClear, One!DeinitPushNull, One!Woken
  <2>3. One!TypeOK' BY <2>1 DEF One!TypeOK
  <2>4. FlagsInv' /\ HoldsInv' /\ JoinedInv' BY DEF FlagsInv, HoldsInv, JoinedInv
  <2>5. One!HandledInOrder' BY DEF One!HandledInOrder
  <2>6. QED BY <2>2, <2>3, <2>4, <2>5
<1>8. CASE \/ One!DeinitTakeContainer \/ One!DeinitSetFlag \/ One!DeinitDeque
           \/ One!DeinitBroadcast \/ One!DeinitJoin
  <2> USE <1>8 DEF One!DeinitTakeContainer, One!DeinitSetFlag, One!DeinitDeque,
          One!DeinitBroadcast, One!DeinitJoin, One!Joined, One!Woken
  <2>1. NoPillYet' /\ One!HandledInOrder' BY SameQueue
  <2>2. One!TypeOK' BY DEF One!TypeOK
  <2>3. QED BY <2>1, <2>2 DEF FlagsInv, HoldsInv, JoinedInv
<1>9. CASE UNCHANGED One!vars
  <2>1. NoPillYet' /\ One!HandledInOrder' BY <1>9, SameQueue DEF One!vars
  <2>2. QED BY <1>9, <2>1 DEF One!vars, One!TypeOK, FlagsInv, HoldsInv, JoinedInv
<1>10. QED
  BY <1>1, <1>2, <1>3, <1>4, <1>5, <1>6, <1>7, <1>8, <1>9
     DEF One!Next, One!Sender, One!Worker, One!Deinit

LEMMA ListenerInvariant == One!Spec => []ListenerInv
  BY InitListener, StepListener, PTL DEF One!Spec

\* Every value stays in its declared range; in particular a handler always gets
\* an event, never the pill.
THEOREM OneTypeCorrect == One!Spec => []One!TypeOK
<1>1. ListenerInv => One!TypeOK BY DEF ListenerInv
<1>2. QED BY <1>1, ListenerInvariant, PTL

\* The order in which any number of senders pushed is the order in which the
\* events are handled.
THEOREM OneHandledInOrderHolds == One!Spec => []One!HandledInOrder
<1>1. ListenerInv => One!HandledInOrder BY DEF ListenerInv
<1>2. QED BY <1>1, ListenerInvariant, PTL

\* After deinit the worker is gone and holds nothing.
THEOREM OneQuietAfterDeinitHolds == One!Spec => []One!QuietAfterDeinit
<1>1. ListenerInv => One!QuietAfterDeinit
  BY DEF ListenerInv, JoinedInv, HoldsInv, One!QuietAfterDeinit
<1>2. QED BY <1>1, ListenerInvariant, PTL

\* With the flag up no handler is entered.
THEOREM OneNoNewWorkAfterFlagHolds == One!Spec => One!NoNewWorkAfterFlag
<1>1. [One!Next]_(One!vars) => [m_isTerminating /\ pc' = "handle" => pc = "handle"]_(One!vars)
  BY DEF One!Next, One!vars, One!workerVars, One!callVars, One!deinitVars, One!Sender,
     One!TestContainer, One!TestFlag, One!Push, One!PushOnNull, One!Worker, One!FetchDeque,
     One!TestTerminating, One!PopNull, One!PopEvent, One!PopEmpty, One!Wait, One!SpuriousWakeup,
     One!TestPopped, One!ExitOrProcess, One!ProcessEvent, One!SecondTest, One!FinishEvent,
     One!DeinitTakeContainer, One!Deinit, One!DeinitClear, One!DeinitPushNull,
     One!DeinitSetFlag, One!DeinitDeque, One!DeinitBroadcast, One!DeinitJoin, One!Woken
<1>2. QED BY <1>1, PTL DEF One!Spec, One!NoNewWorkAfterFlag
=============================================================================
