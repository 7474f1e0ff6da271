-------------------------------- MODULE Rpc --------------------------------
(***************************************************************************)
(* The sessions of the RPC service (modules/rpc/rpcService.cpp): packets   *)
(* for an address are cached in its session until the connection is there, *)
(* replies go out on the session of an accepted connection.                *)
(*                                                                         *)
(* The service is a ListenerSimple, so its handlers run in the threads     *)
(* that send the events: the application's senders, the pollers of the     *)
(* connections (one thread per connection here) and the thread of          *)
(* NotifyBindAddress.  The maps have a lock, the cache of a session has    *)
(* none.  Addresses do not interact: there is one.                         *)
(*                                                                         *)
(* The connections behave as SocketIO and Oscar pass their events on: one  *)
(* answer per attempt, nothing after the end (OneAnswer, EndIsLast).       *)
(***************************************************************************)
EXTENDS Naturals, Sequences, FiniteSets

CONSTANTS
    Senders,    \* threads that send packets, one packet after the other
    Outgoing,   \* the connections to the address, and the sessions created with them
    Incoming,   \* the accepted connections, and their sessions
    Packets,    \* bound: packets ever sent
    None        \* no session, an invalid esi

Conns == Outgoing \cup Incoming
Threads == Senders \cup Conns \cup {"bind"}

ASSUME ThreadsAssumption ==
    /\ None \notin Conns
    /\ Senders \cap Conns = {} /\ Outgoing \cap Incoming = {} /\ "bind" \notin Senders \cup Conns

VARIABLES
    sa2Session,   \* mx_sa2Session at the address
    socketIds,    \* mx_socketId2session
    esi,          \* Session::esi
    cache,        \* Session::m_OutEventCache
    stage,        \* each connection, as its events tell
    thread,       \* each thread: where it is, its session and the packet it holds
    corrupt,      \* a cache was read or popped empty
    taken,        \* history: the packets of each session handed to Oscar
    pushed,       \* history: the packets put into each cache
    raced,        \* history: two threads were draining the cache at once
    late          \* history: the session was entered, or the acceptance heard of, too late

sessionVars == <<sa2Session, socketIds, esi, cache>>
historyVars == <<taken, pushed, raced, late>>
vars == <<sessionVars, stage, thread, corrupt, historyVars>>

Places == {"idle", "ask", "failed", "failedAgain", "emplace", "push", "test", "size", "front", "pop",
           "send", "find", "esi", "notified", "erase", "accepted", "done"}

TypeOK ==
    /\ sa2Session \in Outgoing \cup {None} /\ socketIds \subseteq Incoming
    /\ esi \in [Conns -> Conns \cup {None}]
    /\ cache \in [Conns -> Seq(Packets)]
    /\ stage \in [Conns -> {"idle", "asked", "up", "down", "gone", "silent"}]
    /\ thread \in [Threads -> [at : Places, sess : Conns \cup {None}, pkt : Packets \cup {None}]]
    /\ corrupt \in BOOLEAN
    /\ taken \in [Conns -> Seq(Packets)] /\ pushed \in [Conns -> Seq(Packets)]
    /\ raced \in [Conns -> BOOLEAN] /\ late \in [Conns -> BOOLEAN]

Resting == [at |-> "idle", sess |-> None, pkt |-> None]

Init ==
    /\ sa2Session = None /\ socketIds = {}
    /\ esi = [c \in Conns |-> None]
    /\ cache = [c \in Conns |-> <<>>]
    /\ stage = [c \in Conns |-> "idle"]
    /\ thread = [t \in Threads |-> Resting]
    /\ corrupt = FALSE
    /\ taken = [c \in Conns |-> <<>>] /\ pushed = [c \in Conns |-> <<>>]
    /\ raced = [c \in Conns |-> FALSE] /\ late = [c \in Conns |-> FALSE]

-----------------------------------------------------------------------------
At(t, where) == thread[t].at = where
Sess(t) == thread[t].sess
Goto(t, where) == thread' = [thread EXCEPT ![t] = IF where = "idle" THEN Resting ELSE [@ EXCEPT !.at = where]]

Draining(s) == {t \in Threads : thread[t].at \in {"size", "front", "pop", "send"} /\ Sess(t) = s}

\* A packet no thread has sent yet.
Sent(m) == \E t \in Threads : thread[t].pkt = m
Queued(m) == \E c \in Conns : \E i \in DOMAIN pushed[c] : pushed[c][i] = m
Fresh(m) == ~Sent(m) /\ ~Queued(m)

-----------------------------------------------------------------------------
(* doSend, in any thread: size, front, pop_front, and the write *)

\* The thread enters the loop of doSend on its session.
EnterDrain(t) ==
    /\ Goto(t, "size")
    /\ raced' = [raced EXCEPT ![Sess(t)] = @ \/ Draining(Sess(t)) \ {t} # {}]

SizeOf(s) == IF cache[s] = <<>> THEN "idle" ELSE "front"

Size(t) ==
    /\ At(t, "size")
    /\ Goto(t, SizeOf(Sess(t)))
    /\ UNCHANGED <<sessionVars, stage, corrupt, historyVars>>

Front(t) ==
    LET s == Sess(t) IN
    /\ At(t, "front")
    /\ IF cache[s] = <<>>
       THEN corrupt' = TRUE /\ Goto(t, "idle")
       ELSE UNCHANGED corrupt /\ thread' = [thread EXCEPT ![t].at = "pop", ![t].pkt = Head(cache[s])]
    /\ UNCHANGED <<sessionVars, stage, historyVars>>

Popped(s) == Tail(cache[s])

Pop(t) ==
    LET s == Sess(t) IN
    /\ At(t, "pop")
    /\ IF cache[s] = <<>>
       THEN corrupt' = TRUE /\ UNCHANGED cache
       ELSE UNCHANGED corrupt /\ cache' = [cache EXCEPT ![s] = Popped(s)]
    /\ Goto(t, "send")
    /\ UNCHANGED <<sa2Session, socketIds, esi, stage, historyVars>>

\* To Oscar, which writes it; the write is dropped if the socket has been closed.
SendFront(t) ==
    LET s == Sess(t) IN
    /\ At(t, "send")
    /\ taken' = [taken EXCEPT ![s] = Append(@, thread[t].pkt)]
    /\ thread' = [thread EXCEPT ![t].at = "size", ![t].pkt = None]
    /\ UNCHANGED <<sessionVars, stage, corrupt, pushed, raced, late>>

DoSend(t) == Size(t) \/ Front(t) \/ Pop(t) \/ SendFront(t)

-----------------------------------------------------------------------------
(* addSendPacket *)

PushFront(s, m) == <<m>> \o cache[s]
PushBack(s, m) == Append(cache[s], m)

Push(t) ==
    LET s == Sess(t) m == thread[t].pkt IN
    /\ At(t, "push")
    /\ cache' = [cache EXCEPT ![s] = PushBack(s, m)]
    /\ pushed' = [pushed EXCEPT ![s] = Append(@, m)]
    /\ thread' = [thread EXCEPT ![t].at = "test", ![t].pkt = None]
    /\ UNCHANGED <<sa2Session, socketIds, esi, stage, corrupt, taken, raced, late>>

\* if(S->esi.valid()) doSend(S)
Valid(s) == esi[s] # None
NotSeen(s) == FALSE
EsiSeen(s) == Valid(s)

TestEsi(t) ==
    /\ At(t, "test")
    /\ IF EsiSeen(Sess(t)) THEN EnterDrain(t) ELSE Goto(t, "idle") /\ UNCHANGED raced
    /\ UNCHANGED <<sessionVars, stage, corrupt, taken, pushed, late>>

-----------------------------------------------------------------------------
(* on_SendPacket *)

FindSession(t, m) ==
    /\ t \in Senders /\ At(t, "idle")
    /\ Fresh(m)
    /\ thread' = [thread EXCEPT ![t] =
          [at |-> IF sa2Session = None THEN "ask" ELSE "push", sess |-> sa2Session, pkt |-> m]]
    /\ UNCHANGED <<sessionVars, stage, corrupt, historyVars>>

\* A new session and Connect, which Oscar and the socket service run in this
\* thread: the attempt is in progress, has failed at once, or no socket could be
\* created and nobody is told.
Ask(t, c) ==
    /\ At(t, "ask")
    /\ stage[c] = "idle"
    /\ \/ stage' = [stage EXCEPT ![c] = "asked"] /\ thread' = [thread EXCEPT ![t].at = "emplace", ![t].sess = c]
       \/ stage' = [stage EXCEPT ![c] = "down"] /\ thread' = [thread EXCEPT ![t].at = "failed", ![t].sess = c]
       \/ stage' = [stage EXCEPT ![c] = "silent"] /\ thread' = [thread EXCEPT ![t].at = "emplace", ![t].sess = c]
    /\ UNCHANGED <<sessionVars, corrupt, historyVars>>

\* on_ConnectFailed, twice, for an attempt that failed at once.
FailedAtOnce(t) ==
    /\ \/ At(t, "failed") /\ Goto(t, "failedAgain")
       \/ At(t, "failedAgain") /\ Goto(t, "emplace")
    /\ sa2Session' = None
    /\ UNCHANGED <<socketIds, esi, cache, stage, corrupt, historyVars>>

\* emplace keeps a session another thread has entered meanwhile.
Emplaced(c) == IF sa2Session = None THEN c ELSE sa2Session

Emplace(t) ==
    LET c == Sess(t) IN
    /\ At(t, "emplace")
    /\ sa2Session' = Emplaced(c)
    /\ late' = [late EXCEPT ![c] = stage[c] # "asked"]
    /\ Goto(t, "push")
    /\ UNCHANGED <<socketIds, esi, cache, stage, corrupt, taken, pushed, raced>>

-----------------------------------------------------------------------------
(* on_PassPacket *)

\* A socketId without a session is an exception, and the packet is gone.
PassPacket(t, c, m) ==
    /\ t \in Senders /\ At(t, "idle")
    /\ Fresh(m)
    /\ c \in socketIds
    /\ thread' = [thread EXCEPT ![t] = [at |-> "push", sess |-> c, pkt |-> m]]
    /\ UNCHANGED <<sessionVars, stage, corrupt, historyVars>>

-----------------------------------------------------------------------------
(* on_Connected, in the poller's thread *)

\* The session is looked up by address: it need not be the one the connection
\* was made for.  Without one the handler throws.
FindConnected(c) ==
    /\ c \in Outgoing /\ At(c, "idle")
    /\ stage[c] = "asked"
    /\ stage' = [stage EXCEPT ![c] = "up"]
    /\ thread' = [thread EXCEPT ![c] =
          IF sa2Session = None THEN Resting ELSE [at |-> "esi", sess |-> sa2Session, pkt |-> None]]
    /\ UNCHANGED <<sessionVars, corrupt, historyVars>>

\* S->esi=E->esi, after the subscribers have been told; then doSend.
EsiForgotten(s, c) == esi
EsiSet(s, c) == [esi EXCEPT ![s] = c]

SetEsi(c) ==
    /\ At(c, "esi")
    /\ esi' = EsiSet(Sess(c), c)
    /\ EnterDrain(c)
    /\ UNCHANGED <<sa2Session, socketIds, cache, stage, corrupt, taken, pushed, late>>

-----------------------------------------------------------------------------
(* on_ConnectFailed, on_Disconnected, on_Disaccepted *)

Kept == sa2Session
Erased == None
Forgotten(c) == socketIds \ {c}

\* Erased first, then the subscribers are told.
ConnectFailed(c) ==
    /\ c \in Outgoing /\ At(c, "idle")
    /\ stage[c] = "asked"
    /\ stage' = [stage EXCEPT ![c] = "down"]
    /\ sa2Session' = Erased
    /\ UNCHANGED <<socketIds, esi, cache, thread, corrupt, historyVars>>

\* The subscribers are told first.  Erased is what the address has by then.
Ends(c) ==
    /\ At(c, "idle")
    /\ stage[c] = "up"
    /\ stage' = [stage EXCEPT ![c] = "down"]
    /\ Goto(c, "erase")
    /\ UNCHANGED <<sessionVars, corrupt, historyVars>>

\* on_Disaccepted erases the socketId.
Erase(c) ==
    /\ At(c, "erase")
    /\ IF c \in Outgoing
       THEN sa2Session' = Erased /\ UNCHANGED socketIds
       ELSE socketIds' = Forgotten(c) /\ UNCHANGED sa2Session
    /\ Goto(c, "idle")
    /\ UNCHANGED <<esi, cache, stage, corrupt, historyVars>>

\* Oscar, RPC or a service closes the socket directly: no event.
ClosedDirectly(c) ==
    /\ stage[c] = "up"
    /\ stage' = [stage EXCEPT ![c] = "gone"]
    /\ UNCHANGED <<sessionVars, thread, corrupt, historyVars>>

-----------------------------------------------------------------------------
(* on_Accepted, in the thread of the poller that accepts *)

\* The connection is there, and may end, before Accepted is handled, if another
\* poller serves it.
Accept(c) ==
    /\ c \in Incoming
    /\ stage[c] = "idle"
    /\ stage' = [stage EXCEPT ![c] = "up"]
    /\ UNCHANGED <<sessionVars, thread, corrupt, historyVars>>

Accepted(c) ==
    /\ c \in Incoming /\ esi[c] = None
    /\ stage[c] # "idle"
    /\ esi' = [esi EXCEPT ![c] = c]
    /\ socketIds' = socketIds \cup {c}
    /\ late' = [late EXCEPT ![c] = stage[c] # "up"]
    /\ UNCHANGED <<sa2Session, cache, stage, thread, corrupt, taken, pushed, raced>>

-----------------------------------------------------------------------------
(* on_NotifyBindAddress: doSendAll *)

\* The sessions are collected under the lock and drained one after the other.
NotifyBindAddress(s) ==
    /\ At("bind", "idle")
    /\ s = sa2Session \/ s \in socketIds
    /\ s # None /\ Valid(s)
    /\ thread' = [thread EXCEPT !["bind"] = [at |-> "size", sess |-> s, pkt |-> None]]
    /\ raced' = [raced EXCEPT ![s] = @ \/ Draining(s) # {}]
    /\ UNCHANGED <<sessionVars, stage, corrupt, taken, pushed, late>>

-----------------------------------------------------------------------------
Step(t) ==
    \/ DoSend(t) \/ Push(t) \/ TestEsi(t) \/ FailedAtOnce(t) \/ Emplace(t)
    \/ \E c \in Outgoing : Ask(t, c)

Handler(c) == SetEsi(c) \/ Erase(c)

Next ==
    \/ \E t \in Senders, m \in Packets : FindSession(t, m)
    \/ \E t \in Senders, c \in Incoming, m \in Packets : PassPacket(t, c, m)
    \/ \E t \in Threads : Step(t)
    \/ \E c \in Conns : Handler(c) \/ Ends(c) \/ ClosedDirectly(c)
    \/ \E c \in Outgoing : FindConnected(c) \/ ConnectFailed(c)
    \/ \E c \in Incoming : Accept(c) \/ Accepted(c)
    \/ \E s \in Conns : NotifyBindAddress(s)

Spec == Init /\ [][Next]_vars

\* Threads run to the end of the handler they are in.
FairSpec ==
    /\ Spec
    /\ \A t \in Threads : WF_vars(Step(t))
    /\ \A c \in Conns : WF_vars(Handler(c))

-----------------------------------------------------------------------------
(* Properties *)

\* addSendPacket pushes and then tests esi, on_Connected sets esi and then drains:
\* whichever way the two cross, somebody is on the way to a packet that is cached
\* in a session with a connection.
NothingStranded ==
    \A s \in Conns : Valid(s) /\ cache[s] # <<>> =>
        \E t \in Threads : Sess(t) = s /\ thread[t].at \in {"test", "size", "front", "pop", "send"}

InHand(s) ==
    IF \E t \in Threads : At(t, "send") /\ Sess(t) = s
    THEN <<thread[CHOOSE t \in Threads : At(t, "send") /\ Sess(t) = s].pkt>> ELSE <<>>

\* As long as no two threads have drained a session at once, each packet put into
\* it is handed to Oscar once, in the order they were put in; and only such a race
\* empties a cache under its reader.
InOrder ==
    /\ \A s \in Conns : ~raced[s] => pushed[s] = taken[s] \o InHand(s) \o cache[s]
    /\ corrupt => \E s \in Conns : raced[s]

\* The map leads to no dead connection once the handler that reports its end is
\* done, so the next SendPacket connects anew.  A session entered only after its
\* attempt had ended, or had never begun, is never erased.
NoDeadSession ==
    sa2Session # None =>
        /\ stage[sa2Session] \in {"down", "silent"} => late[sa2Session] \/ At(sa2Session, "erase")
        /\ LET c == esi[sa2Session] IN c # None => (stage[c] = "down" => At(c, "erase"))

\* What is cached for a connection that comes about is sent, if the session was
\* entered before the answer and is still the address's session.
CachedIsSent ==
    \A s \in Outgoing :
        s = sa2Session /\ stage[s] = "up" /\ cache[s] # <<>> ~>
            cache[s] = <<>> \/ late[s] \/ s # sa2Session
=============================================================================
