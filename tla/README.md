# A TLA+ verification of the megatron server

The repository is an event driven C++ server and client framework (`src/megatron`). A process
holds an *instance*; an instance holds *services*; services exchange *events*, inside the process
through listeners and between processes through RPC on framed TCP connections. This directory
holds models of the parts that carry the concurrency and the protocols, the TLC runs that check
them on small instances, and TLAPS proofs of what matters most for every instance.

Contents: [parts of the system](#1-the-system) · [modules](#2-modules-and-their-correspondence-to-the-code)
· [runs](#3-what-the-runs-check) · [fairness](#4-fairness) · [what the code does not guarantee](#5-exceptions-written-into-the-properties)
· [proofs](#6-proofs) · [not modelled](#7-what-is-not-modelled) · [plan](#8-plan)

To check a run, `tlc -config X.cfg MCModule`, with the pairs of the table in section 3; to check the
proofs, `tlapm XProofs.tla`.

## 1. The system

Paths are relative to `src/megatron`.

### How the parts interact

    application, telnet, http, web handler, dfsReferrer, dfsCaps ...
            |  events through routes (LocalServiceRoute, RemoteAddrRoute, ObjectProxyRoute ...)
            v
    Instance: forwardEvent -> getServiceOrCreate -> listener of the service
            |
            +-- ListenerBuffered         a pool of threads (the services of test/rpc)
            +-- ListenerBuffered1Thread  one thread; the service has no mutexes of its own (timer,
            |                            dfsReferrer, dfsCaps, oscarSecure, telnet, webHandler ...)
            +-- ListenerSimple           the sender's thread (rpc, oscar, socket, http, databases)
            +-- ListenerPolled           the application polls (object proxy of a client)
            |
    timer  <- SetAlarm/ResetAlarm/StopAlarm/SetTimer/StopTimer - TickAlarm/TickTimer ->
            |
    RPC: SendPacket(address), PassPacket(socketId)   sessions, caches of packets
            |  Connect / SendPacket                  ^ Connected, PacketOnConnector/-Acceptor, Disconnected ...
    Oscar (or Oscar with encryption): frames         |
            |  AddToConnectTCP, write_               ^ Connected, StreamRead, Disaccepted ...
    Socket service: pollers (epoll), one socket record per connection

RPC, Oscar and the socket service are `ListenerSimple`s: a `SendPacket` of any thread runs through
all three in that thread, while the events of a connection come up through them in the thread of the
poller that serves the socket. These layers therefore run concurrently with themselves. The buffered
listeners isolate the services above them.

### Inventory

| Part | State | Operations | Hard because |
|---|---|---|---|
| `corelib/listenerBuffered`, `eventDeque` | `m_container` (idle workers), `m_vector` (all workers), a deque, a mutex and a condition per worker, two flags | `listenToEvent`, `worker`, `processEvent`/`st_busy`, `deinit` | the sender takes the lock twice, pushes after releasing it; workers leave and enter the idle map; the deque's flag is set without its mutex; deinit joins only whom it finds |
| `corelib/listenerBuffered1Thread` | `m_container`, one deque, `m_isTerminating` | the same | tests without any lock while deinit changes what is tested |
| `modules/timer` | `timers` (tasks by search key), `mx_nexts` (tasks by deadline), each task's `erased` | Set/Reset/Stop of alarms and timers, the worker's tick and re-arm, `deinit` | worker and handler share tasks; a batch is ticked without locks; sleeping until a deadline that may be overtaken; shut-down against a sleeping worker |
| `modules/socket`, `corelib/epoll_socket_info`, `corelib/networkMultiplexor` | per socket: descriptor, `inConnection`, `markedToDestroyOnSend`, buffers; per poller: the container of sockets and the epoll set | `on_AddToConnectTCP`, `on_AddToListenTCP`, the poller's handlers of EPOLLERR/IN/OUT and accept, `write_`, `close`, `closeSocket` | caller, pollers, users and kernel act on one socket; several events per `epoll_wait`; closing by two ways |
| `modules/oscar` | the socket's `m_inBuffer`; the peer's HELLO | `sendPacketPlain`, `on_StreamRead` | bytes arrive in any pieces; HELLO ends the loop |
| `corelib/ioBuffer` (packed numbers) | none | `put_PN`, `get_PN_nothrow` | bit boundaries; prefixes |
| `modules/rpc` | sessions by address (`mx_sa2Session`) and by socket (`mx_socketId2session`); each session's `esi` and cache | `on_SendPacket`, `on_PassPacket`, `on_Connected`, `on_Accepted`, `on_Disconnected`, `on_Disaccepted`, `on_ConnectFailed`, `doSend`, `doSendAll`; subscriptions; waits for bind addresses | two maps under locks, sessions without: push against drain, connect against emplace, end against send |
| `main/CInstance` | the container of services, a mutex per service being created, `m_terminating` | `getServiceOrCreate`, `initService`, `forwardEvent`, `~CInstance` | a service becomes visible before it is started; creation nests |
| `modules/dfsReferrer` | the stage of the search for an uplink, pongs by latency, uplink, downlinks, neighbours, alarms | Ping, Pong, Connected/Disconnected/Disaccepted, GetReferrersRSP, the deliveries along the tree, nine alarms | alarms of earlier attempts; several ways out of a connected stage |
| `modules/referrerClient` | the client's half of the same, the configuration, subscribers | the same stages, InitClient, UpdateConfigRSP, SubscribeNotifications | the same; a configuration is stored whoever sends it, and a second InitClient may come at any time |
| `modules/dfsCaps` | tables of referrers by hour | registration and requests | `CapsAlgorithm.cpp:9-16` enters a referrer for this hour and the next by two readings of the clock, between which the hour may end; the next hour's table lacks it then |
| `modules/oscarSecure` | per connection: stage of the handshake, RSA and AES keys | HELLO_SSL, SET_AES_KEY, HELLO_SSL2, packets | a handshake of three messages before the first packet |
| `modules/objectProxy`, `corelib/objectHandler` | objects by address | registration in constructors and destructors, delivery by address | objects die while events for them are under way |
| `corelib/listenerPolled` | a deque | `listenToEvent`, `poll` | none but the swap of the deque |
| `modules/http`, `modules/telnet`, `modules/webHandler`, `modules/errorDispatcher` | parsers, command trees, tables | text protocols | closing after the last write |
| configuration, logging, buffers, numbers, routes, events, databases, images, tools, tests, vendored libraries | | | data conversions and library calls |

### What makes each part correct

- *Listeners*: an accepted event is handled exactly once until shut-down begins, at most `MaxThreadsCount`
  handlers run, the single thread handles in order of arrival, and `deinit` returns.
- *Timer*: no tick before its deadline, alarms tick once, a stop or a reset reaches whatever is armed and
  is overtaken by one tick at most, nothing sleeps past its deadline, `deinit` returns.
- *Socket service*: one answer per connection attempt; the end is told, once and last; bytes to write are
  always being waited for; a lost peer and a socket to be closed after its last byte are closed.
- *Oscar and packed numbers*: packets arrive whole, once, in order, for every way of cutting the bytes.
- *RPC*: a cached packet of a session with a connection is in somebody's hands; packets of a session go out in
  order; the address never leads to a dead connection for ever.
- *Instance*: one instance of each service, started before it is used except in the creator's window, and
  creation never deadlocks.
- *Referrer*: at most one uplink at a time; while there is none an alarm that begins another attempt is armed, and
  while there is one something watches it; subscribers and downlinks learn when it is gone; a downlink whose
  connection ended is forgotten.
- *Client of the referrers*: the same search, and the subscriber gets the configuration that the uplink has.

`PROJECT.json` lists under `hazards` what is hard to test about these, each at its line of code.

## 2. Modules and their correspondence to the code

A variable has the name of the field it stands for (`m_container`, `mx_nexts`, `m_inBuffer`, `sa2Session` ...).
An action is one stretch of code that other threads cannot see inside: a critical section, or a single access to
shared state where the code takes no lock. Thread program counters (`pc`, `wpc`, `caller`, `thread`, `poller`)
say between which two such stretches a thread is. Variables described as "history" record what has happened, for
properties, and no guard that stands for code reads them.

Some small operators come in pairs: `TakenOut(w)` beside `StillIdle(w)`, `ErasedByReset` beside
`NoneErased`, `Lock` beside `LockHeld`. The first of each is what the code does and is what the actions use. The
other is the same line with a plausible mistake; no specification uses it, and `mutants` in `PROJECT.json` puts
each in the place of its partner and names the property that then fails.

| Module | Models | Notes on the abstraction |
|---|---|---|
| `ListenerBuffered` | `corelib/listenerBuffered.*`, `eventDeque.*` | An event stands for the call of `listenToEvent` that submits it, so any number of senders overlap; a worker for its `pthread_t`. `begin()` of the idle map is any idle worker, since the order of thread identifiers is the system's. `EventDeque`'s mutex is observable only between `pop`'s test and its wait (`towait`). `pthread_create` may fail. Wake-ups may be spurious. |
| `ListenerBuffered1Thread` | `corelib/listenerBuffered1Thread.*` | The dereference of a container that `deinit` has just set to NULL is a step of its own (`PushOnNull`). |
| `Executor` | the promise of the pool | Accept, start, finish; at most `Limit` running; losses only after the stop. `ListenerBuffered` refines it. |
| `Timer` | `modules/timer` | A search key stands for (id, type, destination, data). Handlers are atomic up to the shared push and signal (they run one at a time on the service's listener thread); the worker, the handlers and `deinit` interleave. The inner loop's spinning with nothing scheduled changes nothing and is a stutter. |
| `AlarmPromise` | the promise of the timer service | Armed once, ticks at or after the deadline, one stale tick. `Timer` refines it. |
| `SocketIO` | `modules/socket/socketService.*`, `epoll_socket_info.*`, `networkMultiplexor.*`; the marks that http and telnet set | A buffer is its number of bytes. Both orders of marking and last write are there (`MarkFirst` as in http, `MarkLast` as in telnet). The kernel's side of a connection is `kernel[s]`; its actions are the environment. `getPoller` draws at random, so the owners are drawn in `Init`. UDP sockets are left out. |
| `PackedNumber` | `put_PN`, `get_PN_nothrow`, signed conversions | Pure operators and what a reader may rely on (`ReadsBack`, `PrefixFails`, `NarrowReadsBack`); `Width` 64 and `GroupBits` 7 in the code. Shifts go by the recursive function `Pow2`. Checked and proved through `Oscar`, whose frames use it. |
| `Oscar` | `modules/oscar/oscarService.*` | One direction of one connection; the bytes themselves are modelled, because the property is about where they are cut. It uses `PackedNumber` for lengths. |
| `Channel` | the promise of Oscar to RPC | In order, once, until broken. `Oscar` refines it. |
| `Rpc` | sessions of `modules/rpc` | One address, since addresses share nothing. The drain of a cache is four steps (`size`, `front`, `pop_front`, the send) because it has no lock; reading or popping an empty `std::deque` is undefined, here it sets `corrupt` and goes on. Connections behave as `SocketIO` promises them (`OneAnswer`, `EndIsLast`). The waits for bind addresses and the subscriptions are left out. |
| `Instance` | creation and deletion of services in `main/CInstance` | A stack of nested creations is a function from services to steps. The look into the container without its lock may miss an element while another thread inserts. |
| `TimerHelper` | `corelib/timerHelper.*` as a service sees it | The alarms a service has armed and the ticks that are `late`: sent before their alarm was stopped or reset, handled after it. How long an alarm waits is left open, so any armed alarm may go off next. `Referrer` and `ReferrerClient` extend it. |
| `Referrer` | `modules/dfsReferrer` in a node that is not a top server | An action is a whole handler. Addresses are model values; latencies are left out, so where the code takes the fastest of those who answered any of them may be it. `Sees` says under which name each peer sees this node, the NAT test of the choice. Pongs, answers, pings from below and the end of connections come in any order or never. |
| `ReferrerClient` | `modules/referrerClient`, and what a referrer does to one downlink's configuration | As above. A configuration is told apart by its sender and by whether the sender has had another since. |
| `MC*` | instances for TLC | Model values, symmetry, constants too large for a `.cfg`. |
| `*Proofs` | theorems and proofs | Section 6. |

Composition: `SocketIO` is checked to keep the two promises that `Rpc` assumes of a connection;
`Oscar` is checked to be a `Channel` between them; the bytes of a stream are conserved by `Left` and
`Closed` in `SocketIO` and become `wire` in `Oscar`. The timer's handlers are taken to run one at a time because
`ListenerBuffered1Thread` hands them out so (`HandledInOrder`), and so are those of the referrer and its client: that
is what allows a whole handler to be one action there. `TimerHelper` lets a stopped alarm tick once more because the timer
does (`OneStaleTick`, and `AlarmPromise` allows no more than that); conversely the invariants of the
referrer end at "the alarm is armed", and that an armed alarm ticks is the timer's `EventuallyTicks`.

What the two referrer modules show of the code besides their properties, for a reader who changes it:

- The comment that describes the stages (`dfsReferrerService.h:81-105`) and the code differ in detail: the
  code begins with the cached neighbours and turns to the top servers only when there are none or none
  answers, and the stage D5 is never entered.
- T_007, which pings the uplink, is armed again by its own tick; T_009, which gives the uplink up, is first armed by the
  first short pong. An uplink that never answers a short ping is pinged for ever
  (`UplinkIsWatched` holds, by T_007).
- A downlink whose socket record is closed before its ping is handled is entered under the id -1, and no
  Disaccepted can remove it; T_011 does, if it pings again.
- A top server does not register a client that pings it (`dfsReferrerService.cpp:866-870`).
- T_040 waits for the time configured under the name of T_004.

## 3. What the runs check

`PROJECT.json` has the same list. No run has a deadlock check: every thread of these models ends after
`deinit` or after its last bounded request, so states without successors are normal ends, and in the two
referrer models whatever is to come from outside may fail to come. That nobody is stuck
is what the liveness properties, and `GoesOn` there, say.

| Run | Config, module | Instance | Shows |
|---|---|---|---|
| `pool_safety` | `ListenerBufferedSafety`, `MCListenerBuffered` | 3 events, 3 workers, limit 2 | No race of senders passes the limit (`ThreadLimit`); between push and handler an event is in exactly one place (`NothingLost`); the idle map is exact (`IdleMapExact`). |
| `pool_liveness` | `ListenerBufferedLive`, `MCListenerBuffered` | 2 events, 2 workers | Every queued event is handled (`EventuallyHandled`), shut-down ends (`JoinReturns`), and the pool is an `Executor` (`ImplementsExecutor`). |
| `single` | `ListenerBuffered1Thread`, `MCListenerBuffered1Thread` | 3 events | Order and exactly-once until `deinit` (`HandledInOrder`), `DeinitReturns`. |
| `timer` | `Timer`, `MCTimer` | 2 tasks, an alarm key and a timer key, delays 1 and 2, requests at 0, clock to 2, one exception | `StopReachesArmed`, `OneStaleTick`, `NoOversleep`; the service is an `AlarmPromise` (`KeepsPromise`); `EventuallyTicks`, `DeinitReturns`. |
| `socket` | `SocketIO`, `MCSocketIO` | 1 socket, connecting with one poller or accepted with two | `OneAnswer`, `OutputIsWatched`, `EndIsLast`, `ClosedIsTold`; under fairness `ConnectIsAnswered`, `LossIsNoticed`, `MarkedIsClosed`. |
| `oscar` | `Oscar`, `MCOscar` | bytes of 3 bits, 3 packets of 4 payloads, every cut; numbers of 7 bits in groups of 2 | `ImplementsChannel`, `EventuallyDelivered`, and `RoundTrip` for every number and every proper prefix of its bytes. |
| `rpc` | `RpcSafety`, `MCRpc` | 2 senders, 2 connections, 2 packets | `NothingStranded`, `InOrder`, `NoDeadSession`. |
| `rpc_liveness` | `RpcLive`, `MCRpc` | 1 sender, 1 connection made, 1 accepted, 2 packets | `CachedIsSent`. |
| `instance` | `Instance`, `MCInstance` | rpc needs oscar needs socket; socket not registered; 2 threads, 2 calls each | `OneInstance`, `ReadyOrBeingStarted`, `StartedIsWired`, `EveryCallReturns`. |
| `referrer` | `Referrer`, `MCReferrer` | 2 top servers, 1 other node, 1 connection from below, 1 late tick at a time | `GoesOn`: it never stops looking, and an uplink is watched; `OneUplink`, `LossIsTold`, `DeadDownlinkIsWatched`. |
| `client` | `ReferrerClient`, `MCReferrerClient` | 2 referrers, one named by InitClient and one it may remember, 1 late tick at a time | `GoesOn`, `LossIsTold`, and the subscriber has the uplink's configuration (`ConfigIsHad`). |
| `client_named` | `ReferrerClientNamed`, `MCReferrerClient` | the same, no late ticks | `NamedArePinged` is violated: see below. |

**A disagreement.** The stage after GetReferrersRSP is called, in the client, after sending pings to the referrers that the
answer lists, and the referrer's own code does so in the same place. The client's handler
(`referrerClientService.cpp:322`) takes the addresses to ping from a set `sas` that nothing has been
put into, so none is pinged; it waits in that stage for pongs that were not asked for, until T_020 makes it
choose one of those who have answered before. `client_named` shows it, and the finding in `PROJECT.json`
quotes the lines.

### Why the bounds are enough

- *Pool.* Exceeding the limit takes one more sender than the limit, all past the first test at once: 3 events for a
  limit of 2, and a third worker for the mistake to start. The liveness run needs an event queued behind a
  busy worker while another becomes idle: two of each.
- *Single.* Two pushes overlapping a shut-down while a third event is in the handler: three events.
- *Timer.* Two tasks under one key (a reset that erases the other), under two keys (independence), delays that
  order the deadlines both ways, and a clock that leaves room for a repeated timer to tick twice. Further requests
  and ticks do not add a place a task can be in.
- *Sockets.* Sockets share only the pollers, and a poller handles one event to its end, so one socket per run
  shows all interleavings of what belongs to it; two pollers because an accepted socket may be served by another
  poller than the one that accepts it, and one for a connecting socket, which only its own poller touches. `MaxOut` 2 lets a write fall between a partial and a final send.
- *Oscar.* The payloads imitate frames (they contain the start bytes and short lengths); 5 bytes need a length of two bytes
  with `GroupBits` 2; three packets allow one to be cut while another is complete in the same read.
- *Packed numbers.* 7 bits in groups of 2 leave one bit in the top group, as 64 bits in groups of 7 do, and make numbers of
  one to four bytes. `RoundTrip` looks at every number in every state before the first packet, with
  whatever the reads have left of a HELLO, or of a frame that is not understood, behind the number.
- *RPC.* Two senders who both find no session make two connections; two packets show an exchange or a loss.
  With an accepted connection in place of the second one the liveness run has `PassPacket` and
  `on_Disaccepted`.
- *Referrers.* Two top servers, so that one may answer while another is asked, and one other node, which the answers may name
  and the database remember: an uplink of either sort, and a second candidate for it. Connections from below share
  only the uplink, so one of them meets everything. A second late tick at the same time would have to be of
  another alarm; each handler looks at its own.
- *Client.* A referrer named at the start and one that is only remembered: the old uplink and the new, which is what
  `ConfigIsHad` is about.
- *Instance.* A chain of three makes a nested creation inside a nested creation; the unregistered service makes
  the exception pass through it; two threads start at different ends of the chain.

Named bounds in guards: `LastRequest`, `Horizon`, `MaxThrows` (Timer), `MaxOut` (SocketIO), `MaxPackets`
(Oscar), `MaxCalls` (Instance), `MaxLate` (TimerHelper), and the finite sets `Events`, `Tasks`, `Packets`.

## 4. Fairness

- *Weak fairness of each thread's steps*: the operating system runs threads, and handlers return. Steps that are a
  decision of somebody outside are not fair: submitting an event, a request or a packet, calling `deinit`, an exception,
  a spurious wake-up, the peer's sending, closing or resetting.
- *Strong fairness of taking a mutex* that another thread takes again and again (`PushEvent`, `DeinitClear`,
  `DeinitPushNull`, `Schedule`, `DeinitClearNexts`). Weak fairness would not do, since the mutex is free and
  taken in turn; a pthread mutex starves nobody for ever in practice, and the code relies on it.
- *Strong fairness of `EpollWait` for each socket*: `epoll_wait` with more ready descriptors than it returns
  serves them in rotation. *Of `SendSome`*: a peer that stays connected reads in the end, so `send` does
  not answer EAGAIN for ever; and *weak fairness of `Resolve`*: TCP's own timeout ends every attempt to
  connect.
- *Weak fairness of `FinalWrite`*: a handler that marks a socket and has its last write to do gets to it.
- *Oscar*: bytes written arrive unless the connection breaks.
- *Referrer and client*: none. Their properties say that an alarm is armed, which is safety; peers need not answer at all.

## 5. Exceptions written into the properties

The code was written without a specification, and some of what one would like to be true has exceptions. They are
states the code really reaches; each is named in the property and is a hazard in `PROJECT.json`.

| Property | Exception | Why |
|---|---|---|
| `JoinReturns` | a worker still looking for its deque (`fetch`) | `deinit` empties `m_container` before the new worker has found itself there; `getDeque` then never succeeds and the worker does not test the flag in that loop |
| `NothingLost`, `IdleMapExact` | after `deinit`'s snapshot | workers return to a map nobody looks at, and an event claimed meanwhile is dropped |
| `EventuallyTicks` | an exception in the batch | `passEvent` throws and the rest of the batch, already taken out of `mx_nexts`, is forgotten |
| `OneStaleTick` | one tick after a stop | `erased` is read before the tick, without a lock |
| `ConnectIsAnswered` | `early` | the socket is registered for EPOLLOUT before `connect()`; a fresh socket is writable, its handler stops watching and `getpeername` fails |
| `OneAnswer`, `EndIsLast` | `instant` | an immediate error of `connect()` passes ConnectFailed from `closeSocket` and again; an immediate success leaves `inConnection` set |
| `EndIsLast` | Accepted after the end | `handle_accepted1` gives the socket to another poller before it passes Accepted |
| `ClosedIsTold` | `direct` | `esi->close()` passes no event and sets `m_id` to -1, so the entry stays in the container |
| `MarkedIsClosed` | marked after the last byte was sent | only the handler of EPOLLOUT acts on the mark, and nothing is left to send |
| `EventuallyDelivered` | `afterHello` | the loop of `on_StreamRead` breaks after HELLO although the buffer may hold a packet |
| `InOrder` | `raced` | `doSend` has no lock |
| `NoDeadSession`, `CachedIsSent` | `late`, direct closing | the session is put into the map after Connect has been sent, and direct closing passes no event |
| `OneInstance` | after the destructor took the services | a call past the test of `m_terminating` creates again |
| `OneUplink` | `overtaken` | a pong chooses an uplink and stops T_020; if its tick is already queued, the handler of T_020 chooses another without a look at the stage (`dfsReferrerService.cpp:585`) |
| `LossIsTold` | `silent` | T_001 and T_009, and in the client a second InitClient, begin a new attempt without the notification that the uplink is gone, and downlinks are not closed |
| `DeadDownlinkIsWatched` | `once` | a new downlink gets no T_011 before its second ping; if the record is closed before Disaccepted is handled its id is -1 by then and nothing removes the entry |
| `ConfigIsHad` | `gap` | a subscriber who comes while there is no uplink gets the notification of the next one but not the configuration the client already has |
| `ConfigIsHad` | another sender (`config_bod # p`) | UpdateConfigRSP is stored whoever sends it: a referrer that is no longer the uplink, but has not yet closed its downlink, overwrites the uplink's |

The step `PushOnNull` of `ListenerBuffered1Thread` (a NULL dereference in `listenToEvent` that overlaps
`deinit`) is reachable as well; the model ends that call and no property excuses or forbids it. So is
`OnDisconnectedBeforeInit` of `ReferrerClient`: the handler uses `uplinkConnectionState`, which InitClient creates.

## 6. Proofs

Each `*Proofs` module extends its component's module and proves, for every value of the constants, the
statements below. A theorem whose name ends in `Holds` is about the property without that ending.

**`ListenerBufferedProofs`.** `TypeCorrect`; `ThreadLimitHolds`: a thread is started in the same critical
section that counts them. `IdleMapIsExact` and `QuietAfterDeinitHolds` follow from the invariant `PoolInv`:
exactly the started workers have a program counter (`Started`); the idle map agrees with them
(`IdleMapExact`) and no event is dropped before the shut-down (`NoDropYet`), because a worker about to claim is in
the map; and `ShutdownInv` follows `deinit` from worker to worker.
`ShutdownInv` is what `QuietAfterDeinit` needs: since the snapshot, a worker near its deque is one that is still
to be joined.
`PlacesInv` follows an event through the pool: it is queued at one place of one deque at most (`QueuedOnce`), in
one worker's hand at most (`HeldOnce`), never in two of deque, hand and past (`OnePlace`), nowhere
before its call has pushed it (`NowhereYet`), and afterwards somewhere until `deinit` has taken its snapshot
(`SomewhereStill`). `NothingLostHolds` follows. `PoolImplementsExecutor` is the refinement of `Executor`, by the place
of one event (`Life`): each step of the pool moves it to its next phase in the abstract specification, or
leaves it where it is.
Assumed: the limit is positive and there are enough thread identifiers.

The last section of the module is about the single-threaded listener, as the instance `One` of its module, with
variables of its own. `ListenerInv` adds to the types and `HandledInOrder`: no NULL is in the
deque until the pill is pushed (`NoPillYet`), the flags follow `deinit`'s position (`FlagsInv`), an event is in
the worker's hand only between pop and the handler's return (`HoldsInv`), and a joined worker is gone
(`JoinedInv`). The order is a concatenation of what is handled, in hand and queued; `PushListener`,
`PopListener` and `FinishListener` show that the three steps that move an event keep it.
Theorems: `OneTypeCorrect`, `OneHandledInOrderHolds`, `OneQuietAfterDeinitHolds`, and
`OneNoNewWorkAfterFlagHolds`, an action property: the flag is tested in the step that enters the handler.

**`TimerProofs`.** `TimerInv`: types, `ArmedOnce`, every armed task has a request, the worker that ticks has a
task in its batch, and `StopReachesArmed`. `ArmedOnce` is what makes the invariant inductive: removing a task
from `timers` after its tick is right only if it is not scheduled anywhere else. The lemmas `PushPlaces`,
`TakePlaces`, `PopPlaces` say what the three operations on `mx_nexts` and the batch do to the places of
a task. `OneStaleTickHolds` follows from `StaleInv` (a task with a stale tick is erased for good, and is never again the one
about to tick) and `NoOversleepHolds` from `SleepInv`, which ties the time slept until to the
earliest deadline unless a signal is to come.
`ServiceKeepsPromise` is the refinement of `AlarmPromise`. Its steps need `PromiseInv`: a task filed in `mx_nexts` is filed
under its own deadline (`PushedAtDue`) and a task in the batch has reached it (`BatchIsDue`), so no tick comes early; a
scheduled alarm has not ticked yet, but for the one that just did (`AlarmsToCome`), so none ticks twice; and nothing happened to a
task before its request (`Fresh`), so a reset does not erase the request it makes. `RequestSimulates`,
`TickSimulates` and `RearmSimulates` are the steps that change what the service owes; in every other step of the
worker, the handlers and `deinit`, `armed` stays (`ArmedStays`).

**`InstanceProofs`.** `IInv`: a thread's nested creations form one stack that follows `Needs` (`StackOK`); a
thread holds the mutex of a service exactly between locking and unlocking it (`HolderOK`); a service being created is not in the container and its instance has a number
(`CreatingOK`); until the destructor takes the services there is at most one instance constructed, in the container or
with the thread that is about to insert it (`CountOK`); and an instance
in the container is ready or being started (`ReadyOK`). `AnsweredOK`, that a search for a registered service that has come
to its end has an instance to give, is added for `StartedIsWiredHolds`. From these: `OneInstanceHolds`,
`ReadyOrBeingStartedHolds`, and `LocksDescendHolds`, which excludes a circle of threads waiting for
creation mutexes. Assumed: `RankAssumption`, that no service needs itself directly or through others. It holds
for the services of the repository and is what the deadlock freedom rests on.

**`RpcProofs`.** Four invariants, each on top of the first.
`TypeInv`: types, and that a thread is nowhere without what it needs there (`Placed`).
`StrandInv` is for `NothingStrandedHolds`: the property says that a non-empty cache of a connected session has a
thread that will drain it; `Unheard`, that before Accepted is handled nobody knows the session of an accepted connection
and its cache is empty, is what carries it over Accepted.
`LiveInv` is for `NoDeadSessionHolds`: `NewInv` says that a session still being created is known
to its creator only, `AliveInv` that what the map leads to lives, or has its end still to be handled, or was entered late.
`OrderInv` is for `InOrderHolds`. While no two threads drain one session there is one drainer at most
(`OneDrainer`), what it has read is still the head of the cache (`SeenInv`), and the packets sent, in its hand and
cached are, in this order, those pushed (`FlowInv`); an empty deque is read only after two have drained
together (`CorruptInv`).
The lemmas come in rows: what each group of actions does to one session and to one thread (`DrainMoves`, `SenderMoves`,
`HandlerMoves` ...), and then, per invariant, that such a move keeps it.

**`SocketIOProofs`.** `SocketInv` has the types, `OwnInv`, and for every socket `SockInv` and `LogInv`. `OwnInv`
says which poller may have a socket in hand: its owner, which serves it, or the one that accepts it. Of the parts of `SockInv`,
`UnbornInv` says that a socket without a descriptor has been seen by nobody; `KindInv` keeps connectors out of
the accepting poller's hand and accepted sockets out of the caller's; `DialInv` and `AcceptInv` say how far a poller gets
with a socket that is registered already while `connect()` has not returned, or while the container does not have
it; `EndInv` ties the end that has been told to what is left to remove and to close; and `PeerInv` ties
`inConnection`, the bytes to write and the interest in EPOLLOUT to the place of the poller that is changing them.
`LogInv` is the order of the notices themselves. The properties alone are not inductive: that no second end is told
depends on where the caller and both pollers stand. The lemmas `Turn`, `Serve`, `AcceptOn` and `Take` say
who has a socket in hand after a poller's step, `Bystander` that every other socket keeps its invariant, and then there
is one lemma for each group of handlers. Theorems: `SocketInvariant`, `TypeCorrect`, `OneAnswerHolds`, `EndIsLastHolds`,
`ClosedIsToldHolds`, `OutputIsWatchedHolds`, for any number of sockets and pollers and any bound on the bytes.

**`ReferrerProofs`.** It begins with what setting and stopping some alarms does to the others (`AlarmsDiffer`,
`SetAlarmsKeeps`): one not stopped stays due (`AlarmKept`), and handling a tick leaves the other alarms due
(`TakingLeavesOthers`). `IInv`: types, the properties of the run, and what they need. `SearchInv` ties the stage to
the uplink: D6 exactly when there is one, T_001 due while there is none, an uplink is among those who have
ponged, and T_020 is armed in D3_1 only and late in D6 only (`NamedAreAwaited`), which is what leaves the late tick as
the one way to a second uplink. `DownlinksAreWatched` is the invariant behind `DeadDownlinkIsWatched`: it speaks of every downlink, whether its connection
is still open or not, since a connection closes without a look at the alarms. `NewAttempt`,
`NewUplink` and `SameUplink` are the three ways a handler leaves the search, and each action is brought to
one of them. Theorems: `NeverStuck`, `UplinkIsOne`, `UplinksHavePonged`, `LossesAreTold`,
`DeadDownlinksAreWatched`, for every number of top servers, nodes, connections and late ticks.

**`ReferrerClientProofs`.** The same for the client, the lemmas about alarms included, with `ConfigIsSent`: a referrer that has the client as a downlink and a
configuration the client has not had has it on its way. Theorems: `NeverStuck`, `LossesAreTold`,
`ConfigArrives`.

**`OscarProofs`.** The packed numbers first. Writer and reader are loops, so what they do to every number is shown by induction;
it is done over a set of naturals (`SetInduction`, from the library's theorem that a well-founded relation has
minimal elements), since the library's induction theorems take the statement as an operator, which the provers cannot instantiate.
With it: `Pow2` is the function its definition describes (`Pow2Defined`), turns sums into products (`Pow2Sum`)
and grows; dividing by the weight of a group and then by a group is dividing by the next weight
(`QuotientOfQuotient`, `GroupStep`); above the last group nothing is left of a number
(`NothingBeyond`), and nothing is in the groups the writer leaves out (`NothingLeftOut`); the reader's fold
goes through the bytes in their order (`ReaderFolds`), and after each byte of `Put(n)` it holds the number without the groups
still to come (`PutFolds`). `ReadsBackHolds`, `PrefixFailsHolds` and `NarrowReadsBackHolds` are what
follows for the reader.
Then the framing. `Cut` says that a stream is a sequence of frames, one written behind the other;
`CutAppend` and `CutFirst` are what writing a frame and losing the first one do to it. `FrameAtFront` is the
step the framing rests on: when `on_StreamRead` takes the front of `m_inBuffer` for a complete
frame, it is the first one, whatever of the rest has arrived; too few bytes of its length do not pass for a length because of
`PrefixFails`. The invariant is `FramingInv`: the bytes received and not consumed, and behind them those on the wire, are whole
frames, and among these the packets not yet delivered, each once and in order (`FramesDue`). `ImplementsChannel`
alone is not inductive: it says nothing about the bytes. Theorems: `TypeCorrect`, `RoundTripHolds`, and the
refinement `OscarImplementsChannel`, for numbers of any width, groups of any size, any packets whose lengths are
numbers (`PayloadAssumption`), any number of them and any pieces.

**Only model-checked.** Liveness and everything under fairness, which is out of the prover's reach. Every invariant and every
action property of the runs, and the three refinements, are stated by a theorem.

## 7. What is not modelled

`PROJECT.json` says it per component. In short: data conversions (addresses, URLs, JSON, configuration, checksums,
encryption, big numbers, images); libraries (databases, SSL, SQLite); generated event classes; text protocols
(HTTP, telnet) beyond their use of sockets; UDP; the table of plugins, which is filled
before threads start.

Of the protocols:

- *Referrer*: the top server's side, a node's deliveries along the tree (requests that go up and answers
  that go down by the route they carry) and the distribution of configurations except as the client sees it.
- *Oscar with encryption.* The framing is the same code as `Oscar`'s. Around it there is a handshake of three messages,
  HELLO_SSL with the public key, SET_AES_KEY, and HELLO_SSL2, after which RPC is told Connected. It differs from
  plain Oscar for RPC in that it passes no Accepted and leaves the loop of `on_StreamRead` after the
  first and the third message, too; a wrong version closes the connection before
  Connected, and RPC, which is told nothing by a direct close, keeps the session.
- *Object proxy.* Handlers are found under the lock and called after it is released.
- *RPC's waits for bind addresses and its subscriptions.* `getInternalListenAddrs` (`rpcService.cpp:573`) waits for
  NotifyBindAddress without a look at `m_isTerminating`, so a bind that fails lets it wait for ever.
- *The instance's forwarding*: `CInstance.cpp:237` uses a pointer found under the read lock after releasing it, while
  `deinitServices` may be deleting the service.
- *Capabilities*: a table by hour and no protocol of its own; see the clock in section 1.

## 8. Plan

Done, in this order: `ListenerBuffered` with `Executor`, `ListenerBuffered1Thread`, `Timer` with `AlarmPromise`,
`SocketIO`, `PackedNumber`, `Oscar` with `Channel`, `Rpc`, `Instance`, `TimerHelper`, `Referrer`, `ReferrerClient`, and the
proofs of section 6.

Next modules:

1. `OscarSecure`: the handshake over `Channel`, with keys as values, and RPC's sessions above it.
2. `ObjectProxy` with the polled listener: registration, delivery by address and destruction.
3. The referrer's deliveries along the tree, and the top server, as the composition of several nodes.
4. RPC's waits for bind addresses, the subscriptions, and the broadcasts to subscribers.
5. The tables of `DfsCaps` over the change of the hour.

Next theorems: the properties of `OscarSecure` and `ObjectProxy`, with their modules. The handshake's frames are those of
`Oscar`, so `Cut` and `FrameAtFront` carry over.
