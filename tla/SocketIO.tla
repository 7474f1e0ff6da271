------------------------------ MODULE SocketIO ------------------------------
(***************************************************************************)
(* The socket service (modules/socket/socketService.cpp) with the socket   *)
(* record (corelib/epoll_socket_info.cpp) and the epoll set of a poller    *)
(* (corelib/networkMultiplexor.cpp): stream sockets that connect, stream   *)
(* sockets that are accepted, and the poller threads that serve them.      *)
(*                                                                         *)
(* A poller handles one epoll event at a time, in steps; the thread that   *)
(* asks for a connection runs on_AddToConnectTCP itself, in steps; users   *)
(* of a socket write to it and close it directly from any thread.  What    *)
(* the kernel does to a socket is a set of actions of its own.             *)
(***************************************************************************)
EXTENDS Naturals, Sequences, FiniteSets

CONSTANTS
    Sockets,      \* stream sockets, of one type or the other
    Pollers,      \* the worker threads, each with its own container and epoll set
    NoSocket,     \* what a poller handles between two epoll events
    MaxOut        \* bound: bytes in an output buffer

Kinds == {"connector", "acceptor"}

ASSUME SocketsAssumption ==
    /\ NoSocket \notin Sockets
    /\ MaxOut \in Nat \ {0}

VARIABLES
    kind,           \* STREAMTYPE_CONNECTED or STREAMTYPE_ACCEPTED
    fd,             \* m_fd: not created yet, open, or closed (and then m_id is -1 too)
    inConnection,
    marked,         \* markedToDestroyOnSend; "owes": set, with the last write to come
    outBuffer,      \* bytes in m_outBuffer
    entry,          \* the poller's container holds the socket
    interest,       \* what the poller's epoll set watches the socket for
    owner,          \* the poller getPoller draws for the socket
    server,         \* the poller of the listening socket
    listening,      \* the listening socket
    kernel,         \* the connection as the kernel has it
    avail,          \* there are bytes to read
    caller,         \* the thread in on_AddToConnectTCP, for a connector
    poller,         \* each poller: where it is, the socket and the events it handles
    main,           \* the thread that destroys the service
    log,            \* history: the events passed for a socket
    direct,         \* history: a user closed the socket directly
    instant,        \* history: connect() did not return EINPROGRESS
    early           \* history: getpeername failed in the handler of EPOLLOUT

socketVars == <<fd, inConnection, marked, outBuffer>>
epollVars  == <<entry, interest>>
kernelVars == <<kernel, avail>>
historyVars == <<direct, instant, early>>
drawn == <<kind, owner, server>>
netVars == <<drawn, listening>>
vars == <<socketVars, epollVars, netVars, kernelVars, caller, poller, main, log, historyVars>>

Connectors == {s \in Sockets : kind[s] = "connector"}
Acceptors == {s \in Sockets : kind[s] = "acceptor"}

Watched == {"err", "in", "out"}
Notices == {"Connected", "ConnectFailed", "Disconnected", "Accepted", "Disaccepted", "StreamRead"}
Last == {"ConnectFailed", "Disconnected", "Disaccepted"}

TypeOK ==
    /\ kind \in [Sockets -> Kinds]
    /\ fd \in [Sockets -> {"none", "open", "closed"}]
    /\ inConnection \in [Sockets -> BOOLEAN] /\ marked \in [Sockets -> {"no", "owes", "yes"}]
    /\ outBuffer \in [Sockets -> 0 .. MaxOut]
    /\ entry \in [Sockets -> BOOLEAN] /\ interest \in [Sockets -> SUBSET {"in", "out"}]
    /\ owner \in [Sockets -> Pollers] /\ server \in Pollers
    /\ listening \in {"none", "bound", "registered", "serving", "failed"}
    /\ kernel \in [Sockets -> {"fresh", "connecting", "up", "refused", "eof", "reset", "dead"}]
    /\ avail \in [Sockets -> BOOLEAN]
    /\ caller \in [Sockets -> {"start", "register", "add", "connect", "tell", "remove",
                                  "close", "again", "done"}]
    /\ poller \in [Pollers -> [at : {"test", "wait", "lookup", "err", "in", "out", "size", "stop", "name",
                                     "unset", "sent", "doomed", "remove", "close", "acceptRegister", "acceptAdd",
                                     "acceptTell", "exit"},
                               sock : Sockets \cup {NoSocket}, mask : SUBSET Watched,
                               back : {"in", "out", "test"}]]
    /\ main \in {"run", "join", "done"}
    /\ log \in [Sockets -> Seq(Notices)]
    /\ direct \in [Sockets -> BOOLEAN] /\ instant \in [Sockets -> BOOLEAN]
    /\ early \in [Sockets -> BOOLEAN]

Idle == [at |-> "test", sock |-> NoSocket, mask |-> {}, back |-> "test"]
NotStarted == [Idle EXCEPT !.at = "exit"]

\* n_workers of the pollers are started; nobody may ask the service to listen.
Init ==
    /\ fd = [s \in Sockets |-> "none"]
    /\ inConnection = [s \in Sockets |-> FALSE] /\ marked = [s \in Sockets |-> "no"]
    /\ outBuffer = [s \in Sockets |-> 0]
    /\ entry = [s \in Sockets |-> FALSE] /\ interest = [s \in Sockets |-> {}]
    /\ kind \in [Sockets -> Kinds]
    /\ listening \in {"none", "failed"}
    /\ kernel = [s \in Sockets |-> "fresh"] /\ avail = [s \in Sockets |-> FALSE]
    /\ caller = [s \in Sockets |-> "start"]
    /\ \E started \in SUBSET Pollers \ {{}} :
          /\ owner \in [Sockets -> started] /\ server \in started
          /\ poller = [p \in Pollers |-> IF p \in started THEN Idle ELSE NotStarted]
    /\ main = "run"
    /\ log = [s \in Sockets |-> <<>>]
    /\ direct = [s \in Sockets |-> FALSE] /\ instant = [s \in Sockets |-> FALSE]
    /\ early = [s \in Sockets |-> FALSE]

-----------------------------------------------------------------------------
(* Helpers *)

Open(s) == fd[s] = "open"
Heard(s) == {log[s][i] : i \in DOMAIN log[s]}

\* passEvent.  Successive StreamReads are one entry of the history.
Pass(s, what) ==
    log' = IF what = "StreamRead" /\ log[s] # <<>> /\ log[s][Len(log[s])] = "StreamRead"
           THEN log ELSE [log EXCEPT ![s] = Append(@, what)]

\* The event closeSocket passes.
EndNotice(s) ==
    IF s \in Acceptors THEN "Disaccepted"
    ELSE IF inConnection[s] THEN "ConnectFailed" ELSE "Disconnected"

\* MS->remove(esi->m_id): a closed socket has lost its m_id.
NotRemoved(s) == entry
Removed(s) == IF Open(s) THEN [entry EXCEPT ![s] = FALSE] ELSE entry

\* epoll_socket_info::close
LeftOpen(s) == fd
Closed(s) == [fd EXCEPT ![s] = IF @ = "open" THEN "closed" ELSE @]

\* The kernel drops a closed descriptor from its epoll set.
CloseFd(s) ==
    /\ fd' = Closed(s)
    /\ interest' = [interest EXCEPT ![s] = {}]

\* The peer is gone: it closed, or there is an error, pending or already read.
Lost == {"refused", "eof", "reset", "dead"}

\* What epoll_wait reports of a watched socket: errors always; a socket that was
\* never connected is writable.
Ready(s) ==
    IF ~Open(s) \/ interest[s] = {} THEN {}
    ELSE    {e \in {"err"} : kernel[s] \in {"refused", "reset"}}
       \cup {e \in {"in"} : avail[s] \/ kernel[s] \in Lost}
       \cup {e \in {"out"} : e \in interest[s] /\ kernel[s] # "connecting"}

-----------------------------------------------------------------------------
(* on_AddToConnectTCP, in the thread that asks *)

Caller(s, from, to) == caller[s] = from /\ caller' = [caller EXCEPT ![s] = to]

\* socket() fails and nobody is told.
SocketFails(s) ==
    /\ Caller(s, "start", "done")
    /\ UNCHANGED <<socketVars, epollVars, netVars, kernelVars, poller, main, log, historyVars>>

\* With the pollers destroyed getPoller throws.
NewConnector(s) ==
    /\ Caller(s, "start", IF main = "done" THEN "done" ELSE "register")
    /\ main # "done" => /\ fd' = [fd EXCEPT ![s] = "open"]
                        /\ inConnection' = [inConnection EXCEPT ![s] = TRUE]
    /\ main = "done" => UNCHANGED <<fd, inConnection>>
    /\ UNCHANGED <<marked, outBuffer, epollVars, netVars, kernelVars, poller, main, log, historyVars>>

\* sockAddRWOnNew
ReadOnNew == {"in"}
RWOnNew == {"in", "out"}

RegisterConnector(s) ==
    /\ Caller(s, "register", "add")
    /\ interest' = [interest EXCEPT ![s] = RWOnNew]
    /\ UNCHANGED <<socketVars, entry, netVars, kernelVars, poller, main, log, historyVars>>

\* MS->add
AddConnector(s) ==
    /\ Caller(s, "add", "connect")
    /\ entry' = [entry EXCEPT ![s] = TRUE]
    /\ UNCHANGED <<socketVars, interest, netVars, kernelVars, poller, main, log, historyVars>>

\* connect() returns EINPROGRESS, 0, or another error.
ConnectInProgress(s) ==
    /\ Caller(s, "connect", "done")
    /\ kernel' = [kernel EXCEPT ![s] = "connecting"]
    /\ UNCHANGED <<socketVars, epollVars, netVars, avail, poller, main, log, historyVars>>

ConnectAtOnce(s) ==
    /\ Caller(s, "connect", "tell")
    /\ kernel' = [kernel EXCEPT ![s] = "up"]
    /\ instant' = [instant EXCEPT ![s] = TRUE]
    /\ UNCHANGED <<socketVars, epollVars, netVars, avail, poller, main, log, direct, early>>

\* inConnection stays set.
TellConnected(s) ==
    /\ Caller(s, "tell", "done")
    /\ Pass(s, "Connected")
    /\ UNCHANGED <<socketVars, epollVars, netVars, kernelVars, poller, main, historyVars>>

ConnectError(s) ==
    /\ Caller(s, "connect", "remove")
    /\ Pass(s, EndNotice(s))
    /\ instant' = [instant EXCEPT ![s] = TRUE]
    /\ UNCHANGED <<socketVars, epollVars, netVars, kernelVars, poller, main, direct, early>>

ErrorRemove(s) ==
    /\ Caller(s, "remove", "close")
    /\ entry' = Removed(s)
    /\ UNCHANGED <<socketVars, interest, netVars, kernelVars, poller, main, log, historyVars>>

ErrorClose(s) ==
    /\ Caller(s, "close", "again")
    /\ CloseFd(s)
    /\ UNCHANGED <<inConnection, marked, outBuffer, entry, netVars, kernelVars, poller, main, log, historyVars>>

\* ConnectFailed is passed a second time.
FailedAgain(s) ==
    /\ Caller(s, "again", "done")
    /\ Pass(s, "ConnectFailed")
    /\ UNCHANGED <<socketVars, epollVars, netVars, kernelVars, poller, main, historyVars>>

AddToConnectTCP(s) ==
    \/ RegisterConnector(s) \/ AddConnector(s)
    \/ ConnectInProgress(s) \/ ConnectAtOnce(s) \/ TellConnected(s)
    \/ ConnectError(s) \/ ErrorRemove(s) \/ ErrorClose(s) \/ FailedAgain(s)

-----------------------------------------------------------------------------
(* on_AddToListenTCP *)

\* bind() fails and the whole program is told to terminate.
BindFails ==
    /\ listening = "none"
    /\ listening' = "failed"
    /\ UNCHANGED <<socketVars, epollVars, drawn, kernelVars, caller, poller, main, log, historyVars>>

\* NotifyBindAddress, sockAddReadOnNew, MS->add
Listen ==
    /\ \/ listening = "none" /\ listening' = "bound"
       \/ listening = "bound" /\ listening' = "registered"
       \/ listening = "registered" /\ listening' = "serving"
    /\ UNCHANGED <<socketVars, epollVars, drawn, kernelVars, caller, poller, main, log, historyVars>>

-----------------------------------------------------------------------------
(* worker *)

At(p, where) == poller[p].at = where
Go(p, where) == poller' = [poller EXCEPT ![p] = IF where = "test" THEN Idle ELSE [@ EXCEPT !.at = where]]

Terminating == main # "run"

\* m_isTerminating is tested before each epoll_wait, which returns in time.
TestTerminating(p) ==
    /\ At(p, "test")
    /\ Go(p, IF Terminating THEN "exit" ELSE "wait")
    /\ UNCHANGED <<socketVars, epollVars, netVars, kernelVars, caller, main, log, historyVars>>

EpollTimeout(p) ==
    /\ At(p, "wait")
    /\ Go(p, "test")
    /\ UNCHANGED <<socketVars, epollVars, netVars, kernelVars, caller, main, log, historyVars>>

EpollWait(p, s) ==
    /\ At(p, "wait")
    /\ owner[s] = p
    /\ Ready(s) # {}
    /\ poller' = [poller EXCEPT ![p] = [Idle EXCEPT !.at = "lookup", !.sock = s, !.mask = Ready(s)]]
    /\ UNCHANGED <<socketVars, epollVars, netVars, kernelVars, caller, main, log, historyVars>>

\* getOrNull
Lookup(p) ==
    /\ At(p, "lookup")
    /\ Go(p, IF entry[poller[p].sock] THEN "err" ELSE "test")
    /\ UNCHANGED <<socketVars, epollVars, netVars, kernelVars, caller, main, log, historyVars>>

\* closeSocket: the notice, MS->remove, close; back is where the poller goes on.
Notify(p, back) ==
    LET s == poller[p].sock IN
    IF Open(s)
    THEN /\ Pass(s, EndNotice(s))
         /\ poller' = [poller EXCEPT ![p].at = "remove", ![p].back = back]
    ELSE /\ Go(p, back)
         /\ UNCHANGED log

CloseRemove(p) ==
    /\ At(p, "remove")
    /\ entry' = Removed(poller[p].sock)
    /\ Go(p, "close")
    /\ UNCHANGED <<socketVars, interest, netVars, kernelVars, caller, main, log, historyVars>>

CloseClose(p) ==
    /\ At(p, "close")
    /\ CloseFd(poller[p].sock)
    /\ Go(p, poller[p].back)
    /\ UNCHANGED <<inConnection, marked, outBuffer, entry, netVars, kernelVars, caller, main, log, historyVars>>

OnEPOLLERR(p) ==
    /\ At(p, "err")
    /\ IF "err" \in poller[p].mask THEN Notify(p, "in") ELSE Go(p, "in") /\ UNCHANGED log
    /\ UNCHANGED <<socketVars, epollVars, netVars, kernelVars, caller, main, historyVars>>

\* recv: nothing on a closed descriptor, bytes, the peer's close, or an error,
\* which is consumed and leads to an early return before closeSocket.
SkipIn(p) ==
    /\ At(p, "in")
    /\ "in" \notin poller[p].mask \/ ~Open(poller[p].sock)
    /\ Go(p, "out")
    /\ UNCHANGED <<socketVars, epollVars, netVars, kernelVars, caller, main, log, historyVars>>

RecvBytes(p) ==
    LET s == poller[p].sock IN
    /\ At(p, "in")
    /\ "in" \in poller[p].mask /\ Open(s) /\ avail[s]
    /\ avail' = [avail EXCEPT ![s] = FALSE]
    /\ Pass(s, "StreamRead")
    /\ Go(p, "out")
    /\ UNCHANGED <<socketVars, epollVars, netVars, kernel, caller, main, historyVars>>

RecvZero(p) ==
    LET s == poller[p].sock IN
    /\ At(p, "in")
    /\ "in" \in poller[p].mask /\ Open(s) /\ ~avail[s] /\ kernel[s] \in {"eof", "dead"}
    /\ Notify(p, "out")
    /\ UNCHANGED <<socketVars, epollVars, netVars, kernelVars, caller, main, historyVars>>

RecvError(p) ==
    LET s == poller[p].sock IN
    /\ At(p, "in")
    /\ "in" \in poller[p].mask /\ Open(s) /\ ~avail[s] /\ kernel[s] \notin {"eof", "dead"}
    /\ kernel' = [kernel EXCEPT ![s] = IF @ \in {"refused", "reset"} THEN "dead" ELSE @]
    /\ Go(p, "out")
    /\ UNCHANGED <<socketVars, epollVars, netVars, avail, caller, main, log, historyVars>>

OnEPOLLIN(p) == SkipIn(p) \/ RecvBytes(p) \/ RecvZero(p) \/ RecvError(p)

\* Where a connection is being made: the count, the unlocked size and the
\* sockStopWrite, getpeername and Connected, and the flag.
SkipOut(p) ==
    LET s == poller[p].sock IN
    /\ At(p, "out")
    /\ \/ "out" \notin poller[p].mask
       \/ ~Open(s)
       \/ inConnection[s] /\ ~entry[s]
    /\ Go(p, "test")
    /\ UNCHANGED <<socketVars, epollVars, netVars, kernelVars, caller, main, log, historyVars>>

Connecting(p) ==
    LET s == poller[p].sock IN
    /\ At(p, "out")
    /\ "out" \in poller[p].mask /\ Open(s) /\ inConnection[s] /\ entry[s]
    /\ Go(p, "size")
    /\ UNCHANGED <<socketVars, epollVars, netVars, kernelVars, caller, main, log, historyVars>>

ReadSize(p) ==
    /\ At(p, "size")
    /\ Go(p, IF outBuffer[poller[p].sock] = 0 THEN "stop" ELSE "name")
    /\ UNCHANGED <<socketVars, epollVars, netVars, kernelVars, caller, main, log, historyVars>>

StopWrite(s) == [interest EXCEPT ![s] = @ \ {"out"}]

StopWhileConnecting(p) ==
    /\ At(p, "stop")
    /\ interest' = StopWrite(poller[p].sock)
    /\ Go(p, "name")
    /\ UNCHANGED <<socketVars, entry, netVars, kernelVars, caller, main, log, historyVars>>

\* getsockname throws on a closed descriptor; getpeername fails on a socket that
\* is not connected.
HasPeer(s) == Open(s) /\ kernel[s] \in {"up", "eof"}

NoPeer(p) ==
    LET s == poller[p].sock IN
    /\ At(p, "name")
    /\ ~HasPeer(s)
    /\ early' = [early EXCEPT ![s] = @ \/ kernel[s] \in {"fresh", "connecting"}]
    /\ Go(p, "test")
    /\ UNCHANGED <<socketVars, epollVars, netVars, kernelVars, caller, main, log, direct, instant>>

PassConnected(p) ==
    LET s == poller[p].sock IN
    /\ At(p, "name")
    /\ HasPeer(s)
    /\ Pass(s, "Connected")
    /\ Go(p, "unset")
    /\ UNCHANGED <<socketVars, epollVars, netVars, kernelVars, caller, main, historyVars>>

StillConnecting(s) == inConnection
NoLongerConnecting(s) == [inConnection EXCEPT ![s] = FALSE]

Unset(p) ==
    /\ At(p, "unset")
    /\ inConnection' = NoLongerConnecting(poller[p].sock)
    /\ Go(p, "test")
    /\ UNCHANGED <<fd, marked, outBuffer, epollVars, netVars, kernelVars, caller, main, log, historyVars>>

\* A connected socket: send and, with the buffer empty, sockStopWrite in one
\* critical section of the buffer.
\* There is something to send: only the poller takes bytes
\* out of the buffer, and it stops watching for EPOLLOUT with the last of them.
Flushing(p) ==
    LET s == poller[p].sock IN
    At(p, "out") /\ "out" \in poller[p].mask /\ Open(s) /\ ~inConnection[s]

StoppedIfEmpty(s, left) == IF left = 0 THEN StopWrite(s) ELSE interest

Left(s, n) == outBuffer[s] - n

SendSome(p) ==
    LET s == poller[p].sock IN
    /\ Flushing(p)
    /\ kernel[s] \notin {"reset", "dead"}
    /\ \E n \in 1 .. outBuffer[s] :
          /\ outBuffer' = [outBuffer EXCEPT ![s] = Left(s, n)]
          /\ interest' = StoppedIfEmpty(s, Left(s, n))
    /\ Go(p, "sent")
    /\ UNCHANGED <<fd, inConnection, marked, entry, netVars, kernelVars, caller, main, log, historyVars>>

\* EAGAIN
SendWouldBlock(p) ==
    LET s == poller[p].sock IN
    /\ Flushing(p)
    /\ outBuffer[s] > 0 /\ kernel[s] \notin {"reset", "dead"}
    /\ Go(p, "test")
    /\ UNCHANGED <<socketVars, epollVars, netVars, kernelVars, caller, main, log, historyVars>>

SendError(p) ==
    LET s == poller[p].sock IN
    /\ Flushing(p)
    /\ outBuffer[s] > 0 /\ kernel[s] \in {"reset", "dead"}
    /\ Notify(p, "test")
    /\ UNCHANGED <<socketVars, epollVars, netVars, kernelVars, caller, main, historyVars>>

\* need_to_close is decided before NotifyOutBufferEmpty is passed and acted on after.
NeverDestroyed(s) == FALSE
DestroyOnSend(s) == outBuffer[s] = 0 /\ marked[s] # "no"

AfterSend(p) ==
    /\ At(p, "sent")
    /\ Go(p, IF DestroyOnSend(poller[p].sock) THEN "doomed" ELSE "test")
    /\ UNCHANGED <<socketVars, epollVars, netVars, kernelVars, caller, main, log, historyVars>>

Destroy(p) ==
    /\ At(p, "doomed")
    /\ Notify(p, "test")
    /\ UNCHANGED <<socketVars, epollVars, netVars, kernelVars, caller, main, historyVars>>

OnEPOLLOUT(p) ==
    \/ SkipOut(p) \/ Connecting(p) \/ ReadSize(p) \/ StopWhileConnecting(p) \/ NoPeer(p)
    \/ PassConnected(p) \/ Unset(p) \/ SendSome(p) \/ SendError(p)
    \/ AfterSend(p) \/ Destroy(p)

-----------------------------------------------------------------------------
(* onEPOLLIN of the listening socket: accept and handle_accepted1 *)

AcceptNew(p, s) ==
    /\ At(p, "wait")
    /\ listening = "serving" /\ server = p
    /\ fd[s] = "none"
    /\ fd' = [fd EXCEPT ![s] = "open"]
    /\ kernel' = [kernel EXCEPT ![s] = "up"]
    /\ poller' = [poller EXCEPT ![p] = [Idle EXCEPT !.at = "acceptRegister", !.sock = s]]
    /\ UNCHANGED <<inConnection, marked, outBuffer, epollVars, netVars, avail, caller, main, log, historyVars>>

\* sockAddReadOnNew
AcceptRegister(p) ==
    /\ At(p, "acceptRegister")
    /\ interest' = [interest EXCEPT ![poller[p].sock] = {"in"}]
    /\ Go(p, "acceptAdd")
    /\ UNCHANGED <<socketVars, entry, netVars, kernelVars, caller, main, log, historyVars>>

\* MS2->add, and then Accepted
AfterAdd == "acceptTell"

AcceptAdd(p) ==
    /\ At(p, "acceptAdd")
    /\ entry' = [entry EXCEPT ![poller[p].sock] = TRUE]
    /\ Go(p, AfterAdd)
    /\ UNCHANGED <<socketVars, interest, netVars, kernelVars, caller, main, log, historyVars>>

AcceptTell(p) ==
    /\ At(p, "acceptTell")
    /\ Pass(poller[p].sock, "Accepted")
    /\ Go(p, "test")
    /\ UNCHANGED <<socketVars, epollVars, netVars, kernelVars, caller, main, historyVars>>

Accepting(p) == AcceptRegister(p) \/ AcceptAdd(p) \/ AcceptTell(p)

Handle(p) ==
    \/ TestTerminating(p) \/ EpollTimeout(p) \/ Lookup(p) \/ CloseRemove(p) \/ CloseClose(p) \/ OnEPOLLERR(p) \/ OnEPOLLIN(p)
    \/ OnEPOLLOUT(p) \/ Accepting(p)

-----------------------------------------------------------------------------
(* Users of a socket, on any thread once an event has given it to them *)

MayWrite(s) == IF s \in Acceptors THEN Heard(s) # {} ELSE "Connected" \in Heard(s)

\* write_: the append and sockStartWrite are one critical section of the buffer.
AppendSilently(s) == interest
StartWriteOnly(s) == [interest EXCEPT ![s] = {"out"}]
StartWrite(s) == [interest EXCEPT ![s] = {"in", "out"}]

AppendOne(s) ==
    /\ MayWrite(s) /\ Open(s)
    /\ outBuffer[s] < MaxOut
    /\ outBuffer' = [outBuffer EXCEPT ![s] = @ + 1]
    /\ interest' = StartWrite(s)
    /\ UNCHANGED <<fd, inConnection, entry, netVars, kernelVars, caller, poller, main, log, historyVars>>

Write(s) ==
    /\ marked[s] = "no"
    /\ AppendOne(s)
    /\ UNCHANGED marked

\* Marked before the last write, as http does, or after it, as telnet does.
MarkFirst(s) ==
    /\ MayWrite(s) /\ marked[s] = "no"
    /\ marked' = [marked EXCEPT ![s] = "owes"]
    /\ UNCHANGED <<fd, inConnection, outBuffer, epollVars, netVars, kernelVars, caller, poller, main, log, historyVars>>

FinalWrite(s) ==
    /\ marked[s] = "owes"
    /\ AppendOne(s)
    /\ marked' = [marked EXCEPT ![s] = "yes"]

MarkLast(s) ==
    /\ MayWrite(s) /\ marked[s] = "no"
    /\ marked' = [marked EXCEPT ![s] = "yes"]
    /\ UNCHANGED <<fd, inConnection, outBuffer, epollVars, netVars, kernelVars, caller, poller, main, log, historyVars>>

\* esi->close() by Oscar, RPC or a service: no event, and the container keeps
\* the entry.
UserClose(s) ==
    /\ Heard(s) # {} /\ Open(s)
    /\ CloseFd(s)
    /\ direct' = [direct EXCEPT ![s] = TRUE]
    /\ UNCHANGED <<inConnection, marked, outBuffer, entry, netVars, kernelVars, caller, poller, main, log, instant, early>>

User(s) == Write(s) \/ MarkFirst(s) \/ FinalWrite(s) \/ MarkLast(s) \/ UserClose(s)

-----------------------------------------------------------------------------
(* The kernel and the peer *)

Kernel(s, from, to) ==
    /\ kernel[s] \in from
    /\ kernel' = [kernel EXCEPT ![s] = to]
    /\ UNCHANGED <<socketVars, epollVars, netVars, caller, poller, main, log, historyVars>>

Established(s) == Kernel(s, {"connecting"}, "up") /\ UNCHANGED avail
Refused(s) == Kernel(s, {"connecting"}, "refused") /\ UNCHANGED avail
PeerCloses(s) == Kernel(s, {"up"}, "eof") /\ UNCHANGED avail
PeerResets(s) == Kernel(s, {"up", "eof"}, "reset") /\ avail' = [avail EXCEPT ![s] = FALSE]

PeerSends(s) ==
    /\ kernel[s] = "up" /\ ~avail[s] /\ Open(s)
    /\ avail' = [avail EXCEPT ![s] = TRUE]
    /\ UNCHANGED <<socketVars, epollVars, netVars, kernel, caller, poller, main, log, historyVars>>

Resolve(s) == Established(s) \/ Refused(s)
Peer(s) == PeerCloses(s) \/ PeerResets(s) \/ PeerSends(s)

-----------------------------------------------------------------------------
(* ~Service *)

Terminate ==
    /\ main = "run"
    /\ main' = "join"
    /\ UNCHANGED <<socketVars, epollVars, netVars, kernelVars, caller, poller, log, historyVars>>

Joined == \A p \in Pollers : At(p, "exit")

Join ==
    /\ main = "join"
    /\ Joined
    /\ main' = "done"
    /\ UNCHANGED <<socketVars, epollVars, netVars, kernelVars, caller, poller, log, historyVars>>

-----------------------------------------------------------------------------
Next ==
    \/ \E s \in Connectors : SocketFails(s) \/ NewConnector(s) \/ AddToConnectTCP(s) \/ Resolve(s)
    \/ BindFails \/ Listen
    \/ \E p \in Pollers : Handle(p) \/ SendWouldBlock(p)
    \/ \E p \in Pollers, s \in Sockets : EpollWait(p, s)
    \/ \E p \in Pollers, s \in Acceptors : AcceptNew(p, s)
    \/ \E s \in Sockets : User(s) \/ Peer(s)
    \/ Terminate \/ Join

Spec == Init /\ [][Next]_vars

\* Threads run; epoll_wait returns every ready socket, so none is passed over for
\* ever; a connection attempt ends; a peer that is there reads what is sent; and
\* a user who marked a socket writes the response it owes.
Fairness ==
    /\ \A s \in Sockets : WF_vars(AddToConnectTCP(s)) /\ WF_vars(Resolve(s))
    /\ \A p \in Pollers :
          /\ WF_vars(Handle(p)) /\ SF_vars(SendSome(p))
          /\ \A s \in Sockets : SF_vars(EpollWait(p, s))
    /\ \A s \in Sockets : WF_vars(FinalWrite(s))
    /\ WF_vars(Join)

FairSpec == Spec /\ Fairness

-----------------------------------------------------------------------------
(* Properties *)

\* Oscar and RPC take one answer per connection attempt: Connected or
\* ConnectFailed, and one of them only, unless connect() itself gave the answer.
OneAnswer ==
    \A s \in Connectors : ~instant[s] =>
        Cardinality({i \in DOMAIN log[s] : log[s][i] \in {"Connected", "ConnectFailed"}}) <= 1

\* ConnectFailed, Disconnected or Disaccepted is the last event of a socket,
\* whatever else the poller was told of in the same epoll event.  The exceptions:
\* connect() failed at once, and a socket accepted by one poller for another, which
\* may serve and lose it before the first has passed Accepted.
EndIsLast ==
    \A s \in Sockets : \A i, j \in DOMAIN log[s] :
        i < j /\ log[s][i] \in Last =>
            \/ instant[s]
            \/ log[s][j] = "Accepted" /\ owner[s] # server

\* The service never closes a socket in silence, and the container keeps only
\* open sockets; a socket that Oscar, RPC or a service closed directly is the
\* exception in both.
ClosedIsTold ==
    \A s \in Sockets : fd[s] = "closed" /\ ~direct[s] =>
        Heard(s) \cap Last # {} /\ ~entry[s]

\* Bytes in the buffer of a connected socket are never without a watch for
\* EPOLLOUT: a writer's append against the poller's send.
OutputIsWatched ==
    \A s \in Sockets : Open(s) /\ outBuffer[s] > 0 /\ ~instant[s] => "out" \in interest[s]

\* A connection asked for is answered, unless the socket could not be created or the poller
\* handled EPOLLOUT of the socket before connect() had finished: it then has
\* stopped watching for it.
ConnectIsAnswered ==
    \A s \in Sockets : fd[s] = "open" /\ s \in Connectors ~>
        Heard(s) \cap {"Connected", "ConnectFailed"} # {} \/ early[s] \/ direct[s] \/ main # "run"

\* A peer that is gone is noticed and the socket closed.
LossIsNoticed ==
    \A s \in Sockets : kernel[s] \in Lost ~> ~Open(s) \/ main # "run"

\* A socket marked before its last write, or marked with bytes still to send, is
\* closed once they are sent.
MarkedIsClosed ==
    \A s \in Sockets :
        marked[s] = "owes" \/ (marked[s] = "yes" /\ outBuffer[s] > 0) ~>
            ~Open(s) \/ instant[s] \/ main # "run"

=============================================================================
