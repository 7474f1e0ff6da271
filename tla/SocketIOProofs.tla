--------------------------- MODULE SocketIOProofs ---------------------------
(***************************************************************************)
(* What holds of the socket service for any number of sockets and pollers  *)
(* and output buffers of any size.                                         *)
(***************************************************************************)
EXTENDS SocketIO, FiniteSetTheorems, TLAPS

\* What a poller does with the socket it handles: it serves a socket of its own, or
\* it accepts one, which then belongs to any poller.
Serving == {"lookup", "err", "in", "out", "size", "stop", "name", "unset", "sent", "doomed",
            "remove", "close"}
Accept == {"acceptRegister", "acceptAdd", "acceptTell"}

OwnInv ==
    \A p \in Pollers :
        /\ poller[p].at \in Serving => poller[p].sock \in Sockets /\ owner[poller[p].sock] = p
        /\ poller[p].at \in Accept => poller[p].sock \in Sockets /\ server = p
        /\ poller[p].at \notin Serving \cup Accept => poller[p].sock = NoSocket

\* Where a socket is in the hands of the poller that serves it, and of the one that accepts it.
Served(s) ==
    IF poller[owner[s]].sock = s /\ poller[owner[s]].at \in Serving
    THEN poller[owner[s]].at ELSE "no"
Accepted(s) ==
    IF poller[server].sock = s /\ poller[server].at \in Accept THEN poller[server].at ELSE "no"
Mask(s) == IF Served(s) = "no" THEN {} ELSE poller[owner[s]].mask

Ended(s) == Heard(s) \cap Last # {}
Told(s) == "Connected" \in Heard(s)

\* The steps of a poller that can meet a socket before connect() has returned.
BeforePeer == {"no", "lookup", "err", "in", "out", "size", "stop", "name"}
Dialing == {"register", "add", "connect"}

\* A socket that has no descriptor yet has been seen by nobody.
UnbornInv(s) ==
    fd[s] = "none" =>
        /\ log[s] = <<>> /\ outBuffer[s] = 0 /\ ~entry[s] /\ kernel[s] = "fresh" /\ ~avail[s]
        /\ caller[s] \in {"start", "done"} /\ Served(s) = "no" /\ Accepted(s) = "no"

KindInv(s) ==
    /\ kind[s] = "acceptor" => caller[s] = "start" /\ ~inConnection[s]
    /\ kind[s] = "connector" => (caller[s] = "start" => fd[s] = "none") /\ Accepted(s) = "no"

\* Until connect() returns, the poller may see EPOLLOUT of the socket and nothing else.
DialInv(s) ==
    caller[s] \in Dialing =>
        /\ fd[s] = "open" /\ log[s] = <<>> /\ kernel[s] = "fresh" /\ ~avail[s] /\ inConnection[s]
        /\ Served(s) \in BeforePeer
        /\ Mask(s) \subseteq {"out"}

\* Until the container has an accepted socket, its poller does not get past the lookup.
AcceptInv(s) ==
    /\ Accepted(s) \in {"acceptRegister", "acceptAdd"} =>
          /\ fd[s] = "open" /\ log[s] = <<>> /\ ~entry[s] /\ outBuffer[s] = 0
          /\ Served(s) \in {"no", "lookup"}
    /\ Accepted(s) # "no" /\ owner[s] = server => log[s] = <<>>

\* The end of a socket has been told exactly when it is closed or about to be.
EndInv(s) ==
    /\ Ended(s) /\ ~instant[s] => fd[s] = "closed" \/ Served(s) \in {"remove", "close"}
    /\ Served(s) \in {"remove", "close"} => Ended(s)
    /\ Served(s) = "close" /\ fd[s] = "open" => ~entry[s]
    /\ caller[s] \in {"remove", "close"} => Ended(s)
    /\ caller[s] = "close" /\ fd[s] = "open" => ~entry[s]
    /\ caller[s] \in {"tell", "remove", "close", "again"} => instant[s]
    /\ fd[s] = "closed" /\ ~direct[s] => Ended(s) /\ ~entry[s]

\* A connector is told Connected once, by the poller that then resets inConnection.
PeerInv(s) ==
    /\ Served(s) \in {"size", "stop", "name"} => inConnection[s]
    /\ kind[s] = "connector" /\ Told(s) /\ ~instant[s] => ~inConnection[s] \/ Served(s) = "unset"
    /\ kind[s] = "connector" /\ outBuffer[s] > 0 => Told(s)
    /\ fd[s] = "open" /\ outBuffer[s] > 0 /\ ~instant[s] => "out" \in interest[s]

IsAnswer(what) == what \in {"Connected", "ConnectFailed"}
LogInv(s) ==
    ~instant[s] => \A i, j \in DOMAIN log[s] :
        /\ i < j /\ log[s][i] \in Last => log[s][j] = "Accepted" /\ owner[s] # server
        /\ kind[s] = "connector" /\ IsAnswer(log[s][i]) /\ IsAnswer(log[s][j]) => i = j

SockInv(s) ==
    UnbornInv(s) /\ KindInv(s) /\ DialInv(s) /\ AcceptInv(s) /\ EndInv(s) /\ PeerInv(s)

SocketInv == TypeOK /\ OwnInv /\ \A s \in Sockets : SockInv(s) /\ LogInv(s)

-----------------------------------------------------------------------------
(* Types *)

Places == {"test", "wait", "lookup", "err", "in", "out", "size", "stop", "name", "unset", "sent",
           "doomed", "remove", "close", "acceptRegister", "acceptAdd", "acceptTell", "exit"}
Returns == {"in", "out", "test"}
PollerStates == [at : Places, sock : Sockets \cup {NoSocket}, mask : SUBSET Watched, back : Returns]

LEMMA PollerTypes == TypeOK => poller \in [Pollers -> PollerStates]
  BY DEF TypeOK, PollerStates, Places, Returns

LEMMA IdleTypes == Idle \in PollerStates
  BY DEF Idle, PollerStates, Places, Returns, Watched

\* Going to a place of worker keeps the types.
LEMMA GoTypes ==
  ASSUME TypeOK, NEW p \in Pollers, NEW where \in Places, Go(p, where)
  PROVE  poller' \in [Pollers -> PollerStates]
<1>1. poller[p] \in PollerStates BY PollerTypes
<1>2. [poller[p] EXCEPT !.at = where] \in PollerStates BY <1>1 DEF PollerStates
<1>3. QED BY <1>2, PollerTypes, IdleTypes DEF Go

\* Passing a notice keeps the types.
LEMMA PassTypes ==
  ASSUME TypeOK, NEW s \in Sockets, NEW what \in Notices, Pass(s, what)
  PROVE  log' \in [Sockets -> Seq(Notices)]
<1>1. log[s] \in Seq(Notices) /\ log \in [Sockets -> Seq(Notices)] BY DEF TypeOK
<1>2. Append(log[s], what) \in Seq(Notices) BY <1>1
<1>3. QED BY <1>1, <1>2 DEF Pass

LEMMA EndNoticeTypes ==
  ASSUME NEW s PROVE EndNotice(s) \in Last /\ EndNotice(s) \in Notices
  BY DEF EndNotice, Last, Notices

DataTypes ==
    /\ kind \in [Sockets -> Kinds]
    /\ fd \in [Sockets -> {"none", "open", "closed"}]
    /\ inConnection \in [Sockets -> BOOLEAN] /\ marked \in [Sockets -> {"no", "owes", "yes"}]
    /\ outBuffer \in [Sockets -> 0 .. MaxOut]
    /\ entry \in [Sockets -> BOOLEAN] /\ interest \in [Sockets -> SUBSET {"in", "out"}]
    /\ owner \in [Sockets -> Pollers] /\ server \in Pollers
    /\ listening \in {"none", "bound", "registered", "serving", "failed"}
    /\ kernel \in [Sockets -> {"fresh", "connecting", "up", "refused", "eof", "reset", "dead"}]
    /\ avail \in [Sockets -> BOOLEAN]
    /\ caller \in [Sockets -> {"start", "register", "add", "connect", "tell", "remove",
                                  "close", "again", "done"}]
    /\ main \in {"run", "join", "done"}
    /\ log \in [Sockets -> Seq(Notices)]
    /\ direct \in [Sockets -> BOOLEAN] /\ instant \in [Sockets -> BOOLEAN]
    /\ early \in [Sockets -> BOOLEAN]

LEMMA SplitTypes == TypeOK <=> DataTypes /\ poller \in [Pollers -> PollerStates]
  BY DEF TypeOK, DataTypes, PollerStates, Places, Returns

LEMMA JoinTypes == DataTypes' /\ poller' \in [Pollers -> PollerStates] => TypeOK'
  BY DEF TypeOK, DataTypes, PollerStates, Places, Returns

LEMMA InitTypes == Init => TypeOK
<1> SUFFICES ASSUME Init PROVE TypeOK
    OBVIOUS
<1>1. PICK started \in SUBSET Pollers \ {{}} :
        /\ owner \in [Sockets -> started] /\ server \in started
        /\ poller = [p \in Pollers |-> IF p \in started THEN Idle ELSE NotStarted]
  BY DEF Init
<1>2. NotStarted \in PollerStates BY IdleTypes DEF NotStarted, PollerStates, Places
<1>3. poller \in [Pollers -> PollerStates] BY <1>1, <1>2, IdleTypes
<1>4. owner \in [Sockets -> Pollers] /\ server \in Pollers BY <1>1
<1>5. 0 \in 0 .. MaxOut BY SocketsAssumption
<1>6. <<>> \in Seq(Notices) OBVIOUS
<1>7. DataTypes BY <1>4, <1>5, <1>6 DEF Init, DataTypes
<1>8. QED BY <1>3, <1>7, SplitTypes

LEMMA CallerTypes ==
  ASSUME TypeOK, NEW s \in Sockets,
         SocketFails(s) \/ NewConnector(s) \/ AddToConnectTCP(s) \/ Resolve(s)
  PROVE  TypeOK'
<1>1. DataTypes /\ poller \in [Pollers -> PollerStates] BY SplitTypes
<1> USE <1>1 DEF Caller, socketVars, epollVars, netVars, kernelVars, historyVars, drawn
<1>2. CASE SocketFails(s) BY <1>2, JoinTypes DEF SocketFails, DataTypes
<1>3. CASE NewConnector(s) BY <1>3, JoinTypes DEF NewConnector, DataTypes
<1>4. CASE RegisterConnector(s)
  BY <1>4, JoinTypes DEF RegisterConnector, RWOnNew, DataTypes
<1>5. CASE AddConnector(s) BY <1>5, JoinTypes DEF AddConnector, DataTypes
<1>6. CASE ConnectInProgress(s) BY <1>6, JoinTypes DEF ConnectInProgress, DataTypes
<1>7. CASE ConnectAtOnce(s) BY <1>7, JoinTypes DEF ConnectAtOnce, DataTypes
<1>8. CASE TellConnected(s)
  <2>1. log' \in [Sockets -> Seq(Notices)] BY <1>8, PassTypes DEF TellConnected, Notices
  <2>2. QED BY <1>8, <2>1, JoinTypes DEF TellConnected, DataTypes
<1>9. CASE ConnectError(s)
  <2>1. log' \in [Sockets -> Seq(Notices)] BY <1>9, PassTypes, EndNoticeTypes DEF ConnectError
  <2>2. QED BY <1>9, <2>1, JoinTypes DEF ConnectError, DataTypes
<1>10. CASE ErrorRemove(s) BY <1>10, JoinTypes DEF ErrorRemove, Removed, DataTypes
<1>11. CASE ErrorClose(s) BY <1>11, JoinTypes DEF ErrorClose, CloseFd, Closed, DataTypes
<1>12. CASE FailedAgain(s)
  <2>1. log' \in [Sockets -> Seq(Notices)] BY <1>12, PassTypes DEF FailedAgain, Notices
  <2>2. QED BY <1>12, <2>1, JoinTypes DEF FailedAgain, DataTypes
<1>13. CASE Resolve(s)
  <2>1. PICK to \in {"up", "refused"} : Kernel(s, {"connecting"}, to) /\ avail' = avail
    BY <1>13 DEF Resolve, Established, Refused
  <2>2. QED BY <2>1, JoinTypes DEF Kernel, DataTypes
<1>14. QED BY <1>2, <1>3, <1>4, <1>5, <1>6, <1>7, <1>8, <1>9, <1>10, <1>11, <1>12, <1>13
            DEF AddToConnectTCP

LEMMA UserTypes ==
  ASSUME TypeOK, NEW s \in Sockets, User(s) \/ Peer(s)
  PROVE  TypeOK'
<1>1. DataTypes /\ poller \in [Pollers -> PollerStates] BY SplitTypes
<1> USE <1>1 DEF socketVars, epollVars, netVars, kernelVars, historyVars, drawn
<1>2. ASSUME AppendOne(s) PROVE outBuffer' \in [Sockets -> 0 .. MaxOut]
  <2>1. outBuffer[s] + 1 \in 0 .. MaxOut
    BY <1>2, SocketsAssumption DEF AppendOne, DataTypes
  <2>2. QED BY <1>2, <2>1 DEF AppendOne, DataTypes
<1>3. CASE Write(s)
  BY <1>2, <1>3, JoinTypes DEF Write, AppendOne, StartWrite, DataTypes
<1>4. CASE FinalWrite(s)
  BY <1>2, <1>4, JoinTypes DEF FinalWrite, AppendOne, StartWrite, DataTypes
<1>5. CASE MarkFirst(s) BY <1>5, JoinTypes DEF MarkFirst, DataTypes
<1>6. CASE MarkLast(s) BY <1>6, JoinTypes DEF MarkLast, DataTypes
<1>7. CASE UserClose(s) BY <1>7, JoinTypes DEF UserClose, CloseFd, Closed, DataTypes
<1>8. CASE Peer(s)
  <2>1. CASE PeerCloses(s) BY <2>1, JoinTypes DEF PeerCloses, Kernel, DataTypes
  <2>2. CASE PeerResets(s) BY <2>2, JoinTypes DEF PeerResets, Kernel, DataTypes
  <2>3. CASE PeerSends(s) BY <2>3, JoinTypes DEF PeerSends, DataTypes
  <2>4. QED BY <1>8, <2>1, <2>2, <2>3 DEF Peer
<1>9. QED BY <1>3, <1>4, <1>5, <1>6, <1>7, <1>8 DEF User

\* closeSocket, as the poller p runs it: it passes the notice or goes on.
LEMMA NotifyTypes ==
  ASSUME TypeOK, NEW p \in Pollers, poller[p].sock \in Sockets, NEW back \in Returns, Notify(p, back)
  PROVE  log' \in [Sockets -> Seq(Notices)] /\ poller' \in [Pollers -> PollerStates]
<1>1. back \in Places BY DEF Returns, Places
<1>2. CASE Open(poller[p].sock)
  <2>1. Pass(poller[p].sock, EndNotice(poller[p].sock))
        /\ poller' = [poller EXCEPT ![p].at = "remove", ![p].back = back]
    BY <1>2 DEF Notify
  <2>2. poller[p] \in PollerStates BY PollerTypes
  <2>3. [poller[p] EXCEPT !.at = "remove", !.back = back] \in PollerStates
    BY <2>2 DEF PollerStates, Places
  <2>4. poller' = [poller EXCEPT ![p] = [poller[p] EXCEPT !.at = "remove", !.back = back]]
    BY <2>1, PollerTypes
  <2>5. poller' \in [Pollers -> PollerStates] BY <2>3, <2>4, PollerTypes
  <2>6. QED BY <2>1, <2>5, EndNoticeTypes, PassTypes
<1>3. CASE ~Open(poller[p].sock)
  <2>1. Go(p, back) /\ log' = log BY <1>3 DEF Notify
  <2>2. QED BY <1>1, <2>1, GoTypes, SplitTypes DEF DataTypes
<1>4. QED BY <1>2, <1>3

LEMMA WorkerTypes ==
  ASSUME TypeOK, OwnInv, NEW p \in Pollers, Handle(p) \/ SendWouldBlock(p)
  PROVE  TypeOK'
<1>1. DataTypes /\ poller \in [Pollers -> PollerStates] BY SplitTypes
<1>2. poller[p].at \in Serving \cup Accept => poller[p].sock \in Sockets BY DEF OwnInv
<1>3. poller[p] \in PollerStates BY PollerTypes
<1> DEFINE x == poller[p].sock
<1> USE DEF socketVars, epollVars, netVars, kernelVars, historyVars, drawn, At
<1>4. ASSUME NEW where \in Places, Go(p, where) PROVE poller' \in [Pollers -> PollerStates]
  BY <1>4, GoTypes
<1>5. CASE TestTerminating(p)
  BY <1>1, <1>4, <1>5, JoinTypes DEF TestTerminating, Places, DataTypes
<1>6. CASE EpollTimeout(p)
  BY <1>1, <1>4, <1>6, JoinTypes DEF EpollTimeout, Places, DataTypes
<1>7. CASE Lookup(p) BY <1>1, <1>4, <1>7, JoinTypes DEF Lookup, Places, DataTypes
<1>8. CASE CloseRemove(p)
  BY <1>1, <1>4, <1>8, JoinTypes DEF CloseRemove, Removed, Places, DataTypes
<1>9. CASE CloseClose(p)
  <2>1. poller[p].back \in Places BY <1>3 DEF PollerStates, Returns, Places
  <2>2. QED BY <1>1, <1>4, <1>9, <2>1, JoinTypes DEF CloseClose, CloseFd, Closed, DataTypes
<1>10. CASE OnEPOLLERR(p)
  <2>1. x \in Sockets BY <1>2, <1>10 DEF OnEPOLLERR, Serving
  <2>2. log' \in [Sockets -> Seq(Notices)] /\ poller' \in [Pollers -> PollerStates]
    <3>1. CASE "err" \in poller[p].mask
      BY <1>10, <2>1, <3>1, NotifyTypes DEF OnEPOLLERR, Returns
    <3>2. CASE "err" \notin poller[p].mask
      BY <1>1, <1>4, <1>10, <3>2 DEF OnEPOLLERR, Places, DataTypes
    <3>3. QED BY <3>1, <3>2
  <2>3. QED BY <1>1, <1>10, <2>2, JoinTypes DEF OnEPOLLERR, DataTypes
<1>11. CASE OnEPOLLIN(p)
  <2>1. CASE SkipIn(p) BY <1>1, <1>4, <2>1, JoinTypes DEF SkipIn, Places, DataTypes
  <2>2. CASE RecvBytes(p)
    <3>1. log' \in [Sockets -> Seq(Notices)]
      BY <1>2, <2>2, PassTypes DEF RecvBytes, Serving, Notices
    <3>2. QED BY <1>1, <1>4, <2>2, <3>1, JoinTypes DEF RecvBytes, Places, DataTypes
  <2>3. CASE RecvZero(p)
    <3>1. log' \in [Sockets -> Seq(Notices)] /\ poller' \in [Pollers -> PollerStates]
      BY <1>2, <2>3, NotifyTypes DEF RecvZero, Serving, Returns
    <3>2. QED BY <1>1, <2>3, <3>1, JoinTypes DEF RecvZero, DataTypes
  <2>4. CASE RecvError(p) BY <1>1, <1>4, <2>4, JoinTypes DEF RecvError, Places, DataTypes
  <2>5. QED BY <1>11, <2>1, <2>2, <2>3, <2>4 DEF OnEPOLLIN
<1>12. CASE OnEPOLLOUT(p)
  <2>1. CASE SkipOut(p) BY <1>1, <1>4, <2>1, JoinTypes DEF SkipOut, Places, DataTypes
  <2>2. CASE Connecting(p) BY <1>1, <1>4, <2>2, JoinTypes DEF Connecting, Places, DataTypes
  <2>3. CASE ReadSize(p) BY <1>1, <1>4, <2>3, JoinTypes DEF ReadSize, Places, DataTypes
  <2>4. CASE StopWhileConnecting(p)
    BY <1>1, <1>4, <2>4, JoinTypes DEF StopWhileConnecting, StopWrite, Places, DataTypes
  <2>5. CASE NoPeer(p) BY <1>1, <1>4, <2>5, JoinTypes DEF NoPeer, Places, DataTypes
  <2>6. CASE PassConnected(p)
    <3>1. log' \in [Sockets -> Seq(Notices)]
      BY <1>2, <2>6, PassTypes DEF PassConnected, Serving, Notices
    <3>2. QED BY <1>1, <1>4, <2>6, <3>1, JoinTypes DEF PassConnected, Places, DataTypes
  <2>7. CASE Unset(p)
    BY <1>1, <1>4, <2>7, JoinTypes DEF Unset, NoLongerConnecting, Places, DataTypes
  <2>8. CASE SendSome(p)
    <3>1. x \in Sockets BY <1>2, <2>8 DEF SendSome, Flushing, Serving
    <3>2. PICK n \in 1 .. outBuffer[x] :
            /\ outBuffer' = [outBuffer EXCEPT ![x] = Left(x, n)]
            /\ interest' = StoppedIfEmpty(x, Left(x, n))
      BY <2>8 DEF SendSome
    <3>3. Left(x, n) \in 0 .. MaxOut BY <1>1, <3>1, SocketsAssumption DEF DataTypes, Left
    <3>4. outBuffer' \in [Sockets -> 0 .. MaxOut] BY <1>1, <3>2, <3>3 DEF DataTypes
    <3>5. interest' \in [Sockets -> SUBSET {"in", "out"}]
      BY <1>1, <3>2 DEF DataTypes, StoppedIfEmpty, StopWrite
    <3>6. QED BY <1>1, <1>4, <2>8, <3>4, <3>5, JoinTypes DEF SendSome, Places, DataTypes
  <2>9. CASE SendError(p)
    <3>1. log' \in [Sockets -> Seq(Notices)] /\ poller' \in [Pollers -> PollerStates]
      BY <1>2, <2>9, NotifyTypes DEF SendError, Flushing, Serving, Returns
    <3>2. QED BY <1>1, <2>9, <3>1, JoinTypes DEF SendError, DataTypes
  <2>10. CASE AfterSend(p) BY <1>1, <1>4, <2>10, JoinTypes DEF AfterSend, Places, DataTypes
  <2>11. CASE Destroy(p)
    <3>1. log' \in [Sockets -> Seq(Notices)] /\ poller' \in [Pollers -> PollerStates]
      BY <1>2, <2>11, NotifyTypes DEF Destroy, Serving, Returns
    <3>2. QED BY <1>1, <2>11, <3>1, JoinTypes DEF Destroy, DataTypes
  <2>12. QED BY <1>12, <2>1, <2>2, <2>3, <2>4, <2>5, <2>6, <2>7, <2>8, <2>9, <2>10, <2>11
              DEF OnEPOLLOUT
<1>13. CASE Accepting(p)
  <2>1. CASE AcceptRegister(p)
    BY <1>1, <1>4, <2>1, JoinTypes DEF AcceptRegister, Places, DataTypes
  <2>2. CASE AcceptAdd(p)
    BY <1>1, <1>4, <2>2, JoinTypes DEF AcceptAdd, AfterAdd, Places, DataTypes
  <2>3. CASE AcceptTell(p)
    <3>1. log' \in [Sockets -> Seq(Notices)]
      BY <1>2, <2>3, PassTypes DEF AcceptTell, Accept, Notices
    <3>2. QED BY <1>1, <1>4, <2>3, <3>1, JoinTypes DEF AcceptTell, Places, DataTypes
  <2>4. QED BY <1>13, <2>1, <2>2, <2>3 DEF Accepting
<1>14. CASE SendWouldBlock(p)
  BY <1>1, <1>4, <1>14, JoinTypes DEF SendWouldBlock, Places, DataTypes
<1>15. QED BY <1>5, <1>6, <1>7, <1>8, <1>9, <1>10, <1>11, <1>12, <1>13, <1>14 DEF Handle

\* Taking an epoll event, or a connection, keeps the types.
LEMMA TakingTypes ==
  ASSUME TypeOK, NEW p \in Pollers, NEW s \in Sockets, EpollWait(p, s) \/ AcceptNew(p, s)
  PROVE  TypeOK'
<1>1. DataTypes /\ poller \in [Pollers -> PollerStates] BY SplitTypes
<1>2. Ready(s) \subseteq Watched BY DEF Ready, Watched
<1> USE DEF socketVars, epollVars, netVars, kernelVars, historyVars, drawn
<1>3. CASE EpollWait(p, s)
  <2>1. [Idle EXCEPT !.at = "lookup", !.sock = s, !.mask = Ready(s)] \in PollerStates
    BY <1>2, IdleTypes DEF PollerStates, Places
  <2>2. QED BY <1>1, <1>3, <2>1, JoinTypes DEF EpollWait, DataTypes
<1>4. CASE AcceptNew(p, s)
  <2>1. [Idle EXCEPT !.at = "acceptRegister", !.sock = s] \in PollerStates
    BY IdleTypes DEF PollerStates, Places
  <2>2. QED BY <1>1, <1>4, <2>1, JoinTypes DEF AcceptNew, DataTypes
<1>5. QED BY <1>3, <1>4

LEMMA ServiceTypes ==
  ASSUME TypeOK, BindFails \/ Listen \/ Terminate \/ Join
  PROVE  TypeOK'
<1>1. DataTypes /\ poller \in [Pollers -> PollerStates] BY SplitTypes
<1>2. QED BY <1>1, JoinTypes DEF BindFails, Listen, Terminate, Join, DataTypes,
              socketVars, epollVars, netVars, kernelVars, historyVars, drawn

\* Every step keeps the types.
LEMMA TypeStep == TypeOK /\ OwnInv /\ [Next]_vars => TypeOK'
<1> SUFFICES ASSUME TypeOK, OwnInv, [Next]_vars PROVE TypeOK'
    OBVIOUS
<1>1. CASE vars' = vars
  BY <1>1, SplitTypes, JoinTypes DEF vars, DataTypes, socketVars, epollVars, netVars, kernelVars,
     historyVars, drawn
<1>2. CASE Next
  <2>1. ASSUME NEW s \in Connectors,
               SocketFails(s) \/ NewConnector(s) \/ AddToConnectTCP(s) \/ Resolve(s)
        PROVE  TypeOK'
    BY <2>1, CallerTypes DEF Connectors
  <2>2. ASSUME NEW p \in Pollers, Handle(p) \/ SendWouldBlock(p) PROVE TypeOK'
    BY <2>2, WorkerTypes
  <2>3. ASSUME NEW p \in Pollers, NEW s \in Sockets, EpollWait(p, s) PROVE TypeOK'
    BY <2>3, TakingTypes
  <2>4. ASSUME NEW p \in Pollers, NEW s \in Acceptors, AcceptNew(p, s) PROVE TypeOK'
    BY <2>4, TakingTypes DEF Acceptors
  <2>5. ASSUME NEW s \in Sockets, User(s) \/ Peer(s) PROVE TypeOK'
    BY <2>5, UserTypes
  <2>6. CASE BindFails \/ Listen \/ Terminate \/ Join BY <2>6, ServiceTypes
  <2>7. QED BY <1>2, <2>1, <2>2, <2>3, <2>4, <2>5, <2>6 DEF Next
<1>3. QED BY <1>1, <1>2

-----------------------------------------------------------------------------
(* Who has a socket in hand *)

\* The socket r is in the same hands after the step.
Same(r) == Served(r)' = Served(r) /\ Accepted(r)' = Accepted(r) /\ Mask(r)' = Mask(r)

\* What p may turn to: serving a socket of its own, accepting one, or neither.
Lawful(p, n) ==
    /\ n.at \in Serving => n.sock \in Sockets /\ owner[n.sock] = p
    /\ n.at \in Accept => n.sock \in Sockets /\ server = p
    /\ n.at \notin Serving \cup Accept => n.sock = NoSocket

LEMMA Turn ==
  ASSUME TypeOK, OwnInv, NEW p \in Pollers, NEW n \in PollerStates, Lawful(p, n),
         poller' = [poller EXCEPT ![p] = n], drawn' = drawn
  PROVE  /\ OwnInv'
         /\ \A r \in Sockets : r # poller[p].sock /\ r # n.sock => Same(r)
         /\ owner' = owner /\ server' = server /\ kind' = kind
         /\ poller'[p] = n /\ \A q \in Pollers : q # p => poller'[q] = poller[q]
<1>1. owner' = owner /\ server' = server /\ kind' = kind BY DEF drawn
<1>2. poller'[p] = n /\ \A q \in Pollers : q # p => poller'[q] = poller[q] BY PollerTypes
<1>3. OwnInv' BY <1>1, <1>2 DEF OwnInv, Lawful
<1>4. ASSUME NEW r \in Sockets, r # poller[p].sock, r # n.sock PROVE Same(r)
  <2>1. owner[r] \in Pollers /\ server \in Pollers BY DEF TypeOK
  <2>2. Served(r)' = Served(r) BY <1>1, <1>2, <1>4, <2>1 DEF Served
  <2>3. Accepted(r)' = Accepted(r) BY <1>1, <1>2, <1>4, <2>1 DEF Accepted
  <2>4. CASE owner[r] = p
    <3>1. Served(r) = "no" BY <1>4, <2>4 DEF Served
    <3>2. QED BY <2>2, <2>3, <3>1 DEF Same, Mask
  <2>5. CASE owner[r] # p
    <3>1. poller'[owner[r]] = poller[owner[r]] BY <1>2, <2>1, <2>5
    <3>2. QED BY <1>1, <2>2, <2>3, <3>1 DEF Same, Mask
  <2>6. QED BY <2>4, <2>5
<1>5. QED BY <1>1, <1>2, <1>3, <1>4

\* A step of no poller leaves every socket in the hands it is in.
LEMMA HandsOff ==
  ASSUME OwnInv, poller' = poller, drawn' = drawn
  PROVE  OwnInv' /\ \A r \in Sockets : Same(r)
  BY DEF OwnInv, Same, Served, Accepted, Mask, drawn

\* The poller p goes on with the socket it serves, or lays it down.
LEMMA Serve ==
  ASSUME TypeOK, OwnInv, NEW p \in Pollers, poller[p].at \in Serving, NEW n \in PollerStates,
         \/ n = Idle
         \/ n.at \in Serving /\ n.sock = poller[p].sock /\ n.mask = poller[p].mask,
         poller' = [poller EXCEPT ![p] = n], drawn' = drawn,
         NEW x, x = poller[p].sock
  PROVE  /\ OwnInv' /\ x \in Sockets /\ \A r \in Sockets : r # x => Same(r)
         /\ Served(x) = poller[p].at /\ Mask(x) = poller[p].mask /\ Mask(x)' \subseteq Mask(x)
         /\ Served(x)' = (IF n = Idle THEN "no" ELSE n.at)
         /\ Accepted(x)' = Accepted(x) /\ (Accepted(x) = "no" \/ owner[x] # server)
<1>1. x \in Sockets /\ owner[x] = p BY DEF OwnInv
<1>2. Idle.at \notin Serving \cup Accept /\ Idle.sock = NoSocket BY DEF Idle, Serving, Accept
<1>3. Lawful(p, n) BY <1>1, <1>2 DEF Lawful, Serving, Accept
<1>4. /\ OwnInv' /\ \A r \in Sockets : r # x /\ r # n.sock => Same(r)
      /\ owner' = owner /\ server' = server
      /\ poller'[p] = n /\ \A q \in Pollers : q # p => poller'[q] = poller[q]
  BY <1>3, Turn
<1>5. Served(x) = poller[p].at BY <1>1 DEF Served
<1>6. "no" \notin Serving BY DEF Serving
<1>7. Mask(x) = poller[p].mask BY <1>1, <1>5, <1>6 DEF Mask
<1>8. NoSocket \notin Sockets BY SocketsAssumption
<1>9. Served(x)' = IF n = Idle THEN "no" ELSE n.at
  BY <1>1, <1>2, <1>4, <1>8 DEF Served
<1>10. Mask(x)' \subseteq Mask(x)
  <2>1. CASE n = Idle BY <1>9, <2>1 DEF Mask
  <2>2. CASE n # Idle BY <1>1, <1>4, <1>6, <1>7, <1>9, <2>2 DEF Mask
  <2>3. QED BY <2>1, <2>2
<1>11. Serving \cap Accept = {} BY DEF Serving, Accept
<1>12. Accepted(x) = "no" \/ owner[x] # server BY <1>1, <1>11 DEF Accepted
<1>13. Accepted(x)' = Accepted(x)
  <2>1. server \in Pollers BY DEF TypeOK
  <2>2. CASE server = p BY <1>1, <1>2, <1>4, <1>11, <2>2 DEF Accepted
  <2>3. CASE server # p BY <1>4, <2>1, <2>3 DEF Accepted
  <2>4. QED BY <2>2, <2>3
<1>14. \A r \in Sockets : r # x => Same(r) BY <1>2, <1>4, <1>8
<1>15. QED BY <1>1, <1>4, <1>5, <1>7, <1>9, <1>10, <1>12, <1>13, <1>14

\* The poller p goes on with the socket it accepts, or lays it down.
LEMMA AcceptOn ==
  ASSUME TypeOK, OwnInv, NEW p \in Pollers, poller[p].at \in Accept, NEW n \in PollerStates,
         n = Idle \/ (n.at \in Accept /\ n.sock = poller[p].sock),
         poller' = [poller EXCEPT ![p] = n], drawn' = drawn,
         NEW x, x = poller[p].sock
  PROVE  /\ OwnInv' /\ x \in Sockets /\ \A r \in Sockets : r # x => Same(r)
         /\ Accepted(x) = poller[p].at
         /\ Accepted(x)' = (IF n = Idle THEN "no" ELSE n.at)
         /\ Served(x)' = Served(x) /\ Mask(x)' = Mask(x)
         /\ Served(x) = "no" \/ owner[x] # server
<1>1. x \in Sockets /\ server = p BY DEF OwnInv
<1>2. Idle.at \notin Serving \cup Accept /\ Idle.sock = NoSocket BY DEF Idle, Serving, Accept
<1>3. Serving \cap Accept = {} BY DEF Serving, Accept
<1>4. Lawful(p, n) BY <1>1, <1>2, <1>3 DEF Lawful
<1>5. /\ OwnInv' /\ \A r \in Sockets : r # x /\ r # n.sock => Same(r)
      /\ owner' = owner /\ server' = server
      /\ poller'[p] = n /\ \A q \in Pollers : q # p => poller'[q] = poller[q]
  BY <1>4, Turn
<1>6. NoSocket \notin Sockets BY SocketsAssumption
<1>7. Accepted(x) = poller[p].at BY <1>1 DEF Accepted
<1>8. Accepted(x)' = IF n = Idle THEN "no" ELSE n.at BY <1>1, <1>2, <1>5, <1>6 DEF Accepted
<1>9. Served(x) = "no" \/ owner[x] # server BY <1>1, <1>3 DEF Served
<1>10. Served(x)' = Served(x) /\ Mask(x)' = Mask(x)
  <2>1. owner[x] \in Pollers BY <1>1 DEF TypeOK
  <2>2. CASE owner[x] = p
    <3>1. Served(x)' = "no" BY <1>1, <1>2, <1>3, <1>5, <2>2 DEF Served
    <3>2. QED BY <1>1, <1>9, <2>2, <3>1 DEF Mask
  <2>3. CASE owner[x] # p BY <1>5, <2>1, <2>3 DEF Served, Mask
  <2>4. QED BY <2>2, <2>3
<1>11. \A r \in Sockets : r # x => Same(r) BY <1>2, <1>5, <1>6
<1>12. QED BY <1>1, <1>5, <1>7, <1>8, <1>9, <1>10, <1>11

\* The poller p, with no socket in hand, takes one to serve or to accept.
LEMMA Take ==
  ASSUME TypeOK, OwnInv, NEW p \in Pollers, poller[p].at = "wait", NEW n \in PollerStates,
         NEW s \in Sockets, n.sock = s,
         \/ n.at \in Serving /\ owner[s] = p
         \/ n.at \in Accept /\ server = p,
         poller' = [poller EXCEPT ![p] = n], drawn' = drawn
  PROVE  /\ OwnInv' /\ \A r \in Sockets : r # s => Same(r)
         /\ n.at \in Serving => /\ Served(s) = "no" /\ Served(s)' = n.at
                                /\ Mask(s)' = n.mask /\ Accepted(s)' = Accepted(s)
         /\ n.at \in Accept => /\ Accepted(s) = "no" /\ Accepted(s)' = n.at
                               /\ Served(s)' = Served(s) /\ Mask(s)' = Mask(s)
                               /\ Served(s) = "no" \/ owner[s] # server
<1>1. poller[p].sock = NoSocket BY DEF OwnInv, Serving, Accept
<1>2. NoSocket \notin Sockets BY SocketsAssumption
<1>3. Serving \cap Accept = {} /\ "no" \notin Serving BY DEF Serving, Accept
<1>4. Lawful(p, n) BY <1>3 DEF Lawful
<1>5. /\ OwnInv' /\ \A r \in Sockets : r # NoSocket /\ r # s => Same(r)
      /\ owner' = owner /\ server' = server
      /\ poller'[p] = n /\ \A q \in Pollers : q # p => poller'[q] = poller[q]
  BY <1>1, <1>4, Turn
<1>6. owner[s] \in Pollers /\ server \in Pollers BY DEF TypeOK
<1>7. CASE n.at \in Serving /\ owner[s] = p
  <2>1. Served(s) = "no" BY <1>1, <1>2, <1>7 DEF Served
  <2>2. Served(s)' = n.at /\ Mask(s)' = n.mask BY <1>3, <1>5, <1>7 DEF Served, Mask
  <2>3. Accepted(s)' = Accepted(s) BY <1>1, <1>2, <1>3, <1>5, <1>6, <1>7 DEF Accepted
  <2>4. QED BY <1>2, <1>3, <1>5, <1>7, <2>1, <2>2, <2>3
<1>8. CASE n.at \in Accept /\ server = p
  <2>1. Accepted(s) = "no" BY <1>1, <1>2, <1>8 DEF Accepted
  <2>2. Accepted(s)' = n.at BY <1>5, <1>8 DEF Accepted
  <2>3. Served(s)' = Served(s) BY <1>1, <1>2, <1>3, <1>5, <1>6, <1>8 DEF Served
  <2>4. Served(s) = "no" \/ owner[s] # server BY <1>1, <1>2, <1>8 DEF Served
  <2>5. Mask(s)' = Mask(s) BY <1>5, <1>6, <1>8, <2>3, <2>4 DEF Mask
  <2>6. QED BY <1>2, <1>3, <1>5, <1>8, <2>1, <2>2, <2>3, <2>4, <2>5
<1>9. QED BY <1>7, <1>8

-----------------------------------------------------------------------------
(* What a step does to the sockets *)

\* Nothing of the socket r that the invariant speaks of changes.
SameLog(r) == log'[r] = log[r] /\ instant'[r] = instant[r]
Kept(r) ==
    /\ fd'[r] = fd[r] /\ inConnection'[r] = inConnection[r] /\ outBuffer'[r] = outBuffer[r]
    /\ entry'[r] = entry[r] /\ interest'[r] = interest[r]
    /\ kernel'[r] = kernel[r] /\ avail'[r] = avail[r]
    /\ caller'[r] = caller[r] /\ direct'[r] = direct[r] /\ SameLog(r)

LEMMA SameLogKeeps ==
  ASSUME NEW r, SameLog(r)
  PROVE  Heard(r)' = Heard(r) /\ (Ended(r) <=> Ended(r)') /\ (Told(r) <=> Told(r)')
  BY DEF SameLog, Heard, Ended, Told

\* A socket that the step does not touch keeps the invariant.
LEMMA Bystander ==
  ASSUME NEW r \in Sockets, Kept(r), Same(r), drawn' = drawn, SockInv(r), LogInv(r)
  PROVE  SockInv(r)' /\ LogInv(r)'
<1> USE DEF Kept, SameLog, Same, drawn
<1>1. (Ended(r) <=> Ended(r)') /\ (Told(r) <=> Told(r)') BY SameLogKeeps
<1>2. UnbornInv(r)' BY DEF SockInv, UnbornInv
<1>3. KindInv(r)' BY DEF SockInv, KindInv
<1>4. DialInv(r)' BY DEF SockInv, DialInv
<1>5. AcceptInv(r)' BY DEF SockInv, AcceptInv
<1>6. EndInv(r)' BY <1>1 DEF SockInv, EndInv
<1>7. PeerInv(r)' BY <1>1 DEF SockInv, PeerInv
<1>8. LogInv(r)' BY DEF LogInv
<1>9. QED BY <1>2, <1>3, <1>4, <1>5, <1>6, <1>7, <1>8 DEF SockInv

\* What a step has to keep beside the types.
StepGoal == OwnInv' /\ \A s \in Sockets : SockInv(s)' /\ LogInv(s)'

\* A step that touches one socket keeps the invariant if it keeps it for that socket.
LEMMA Focus ==
  ASSUME SocketInv, OwnInv', drawn' = drawn, NEW x \in Sockets, SockInv(x)', LogInv(x)',
         \A r \in Sockets : r # x => Kept(r) /\ Same(r)
  PROVE  StepGoal
  BY Bystander DEF SocketInv, StepGoal

\* A step that touches no socket keeps the invariant.
LEMMA NoFocus ==
  ASSUME SocketInv, OwnInv', drawn' = drawn, \A r \in Sockets : Kept(r) /\ Same(r)
  PROVE  StepGoal
  BY Bystander DEF SocketInv, StepGoal

\* The log of a socket is what it was, and that was in order.
LEMMA LogKept ==
  ASSUME NEW x, SameLog(x), drawn' = drawn, LogInv(x)
  PROVE  LogInv(x)'
  BY DEF SameLog, LogInv, drawn

\* Passing a notice to the end of the log.
LEMMA PassLog ==
  ASSUME TypeOK, NEW s \in Sockets, NEW what \in Notices, Pass(s, what)
  PROVE  /\ \A r \in Sockets : r # s => log'[r] = log[r]
         /\ log'[s] # <<>> /\ Heard(s)' = Heard(s) \cup {what}
         /\ \/ log'[s] = log[s] /\ what = "StreamRead"
            \/ log'[s] = Append(log[s], what)
<1>1. log \in [Sockets -> Seq(Notices)] /\ log[s] \in Seq(Notices) BY DEF TypeOK
<1>2. CASE what = "StreamRead" /\ log[s] # <<>> /\ log[s][Len(log[s])] = "StreamRead"
  <2>1. log' = log BY <1>2 DEF Pass
  <2>2. Len(log[s]) \in DOMAIN log[s] BY <1>1, <1>2
  <2>3. "StreamRead" \in Heard(s) BY <1>2, <2>2 DEF Heard
  <2>4. QED BY <1>2, <2>1, <2>3 DEF Heard
<1>3. CASE ~(what = "StreamRead" /\ log[s] # <<>> /\ log[s][Len(log[s])] = "StreamRead")
  <2>1. log' = [log EXCEPT ![s] = Append(@, what)] BY <1>3 DEF Pass
  <2>2. log'[s] = Append(log[s], what) /\ \A r \in Sockets : r # s => log'[r] = log[r]
    BY <1>1, <2>1
  <2>3. /\ DOMAIN log'[s] = 1 .. Len(log[s]) + 1 /\ DOMAIN log[s] = 1 .. Len(log[s])
        /\ Len(log[s]) \in Nat
        /\ \A i \in DOMAIN log[s] : log'[s][i] = log[s][i]
        /\ log'[s][Len(log[s]) + 1] = what
    BY <1>1, <2>2
  <2>4. Heard(s)' = {log'[s][i] : i \in DOMAIN log'[s]} BY DEF Heard
  <2>5. Heard(s) \cup {what} \subseteq Heard(s)'
    <3>1. Len(log[s]) + 1 \in DOMAIN log'[s] BY <2>3
    <3>2. DOMAIN log[s] \subseteq DOMAIN log'[s] BY <2>3
    <3>3. QED BY <2>3, <2>4, <3>1, <3>2 DEF Heard
  <2>6. Heard(s)' \subseteq Heard(s) \cup {what}
    <3>1. \A i \in DOMAIN log'[s] : i \in DOMAIN log[s] \/ i = Len(log[s]) + 1 BY <2>3
    <3>2. QED BY <2>3, <2>4, <3>1 DEF Heard
  <2>7. log'[s] # <<>> BY <1>1, <2>2
  <2>8. QED BY <2>2, <2>5, <2>6, <2>7
<1>4. QED BY <1>2, <1>3

\* Passing a notice keeps the log in order: after an end, the late Accepted of a socket of
\* another poller only, and the one answer of a connection attempt while it has none.
LEMMA PassInOrder ==
  ASSUME TypeOK, NEW s \in Sockets, NEW what \in Notices, Pass(s, what),
         drawn' = drawn, LogInv(s), instant[s] => instant'[s],
         Ended(s) /\ ~instant'[s] => what = "Accepted" /\ owner[s] # server,
         kind[s] = "connector" /\ IsAnswer(what) /\ ~instant'[s] =>
            "Connected" \notin Heard(s) /\ "ConnectFailed" \notin Heard(s)
  PROVE  LogInv(s)'
<1>1. CASE log'[s] = log[s] BY <1>1 DEF LogInv, drawn
<1>2. CASE log'[s] = Append(log[s], what)
  <2>1. log[s] \in Seq(Notices) BY DEF TypeOK
  <2>2. /\ DOMAIN log'[s] = 1 .. Len(log[s]) + 1 /\ DOMAIN log[s] = 1 .. Len(log[s])
        /\ Len(log[s]) \in Nat
        /\ \A i \in DOMAIN log[s] : log'[s][i] = log[s][i]
        /\ log'[s][Len(log[s]) + 1] = what
    BY <1>2, <2>1
  <2>3. SUFFICES ASSUME ~instant'[s], NEW i \in DOMAIN log'[s], NEW j \in DOMAIN log'[s]
                 PROVE  /\ i < j /\ log'[s][i] \in Last =>
                              log'[s][j] = "Accepted" /\ owner[s] # server
                        /\ kind[s] = "connector" /\ IsAnswer(log'[s][i]) /\ IsAnswer(log'[s][j])
                              => i = j
    BY DEF LogInv, drawn, IsAnswer
  <2>4. ~instant[s] BY <2>3
  <2>5. \A k \in DOMAIN log[s] : log[s][k] \in Heard(s) BY DEF Heard
  <2>6. CASE i \in DOMAIN log[s] /\ j \in DOMAIN log[s]
    BY <2>2, <2>4, <2>6 DEF LogInv
  <2>7. CASE i \in DOMAIN log[s] /\ j = Len(log[s]) + 1
    <3>1. log'[s][i] \in Heard(s) /\ log'[s][j] = what BY <2>2, <2>5, <2>7
    <3>2. log'[s][i] \in Last => Ended(s) BY <3>1 DEF Ended
    <3>3. QED BY <2>3, <3>1, <3>2 DEF IsAnswer
  <2>8. CASE j \in DOMAIN log[s] /\ i = Len(log[s]) + 1
    <3>1. log'[s][j] \in Heard(s) /\ log'[s][i] = what /\ ~(i < j) BY <2>2, <2>5, <2>8
    <3>2. QED BY <2>3, <3>1 DEF IsAnswer
  <2>9. QED BY <2>2, <2>6, <2>7, <2>8
<1>3. QED BY <1>1, <1>2, PassLog

-----------------------------------------------------------------------------
(* The steps of the thread that asks for a connection *)

\* socket() fails or succeeds.
LEMMA AskStep ==
  ASSUME SocketInv, NEW s \in Connectors, SocketFails(s) \/ NewConnector(s)
  PROVE  StepGoal
<1> USE DEF socketVars, epollVars, netVars, kernelVars, historyVars
<1>1. s \in Sockets /\ kind[s] = "connector" BY DEF Connectors
<1>2. TypeOK /\ OwnInv /\ SockInv(s) /\ LogInv(s) BY <1>1 DEF SocketInv
<1>3. caller[s] = "start" /\ poller' = poller /\ drawn' = drawn
  BY DEF SocketFails, NewConnector, Caller
<1>4. OwnInv' /\ \A r \in Sockets : Same(r) BY <1>2, <1>3, HandsOff
<1>5. \A r \in Sockets : r # s => Kept(r)
  BY <1>2 DEF TypeOK, SocketFails, NewConnector, Caller, Kept, SameLog
<1>6. /\ fd[s] = "none" /\ log[s] = <<>> /\ outBuffer[s] = 0 /\ ~entry[s] /\ kernel[s] = "fresh"
      /\ ~avail[s] /\ Served(s) = "no" /\ Accepted(s) = "no" /\ Mask(s) = {}
  BY <1>1, <1>2, <1>3 DEF SockInv, KindInv, UnbornInv, Mask
<1>7. /\ outBuffer' = outBuffer /\ entry' = entry /\ kernel' = kernel /\ avail' = avail
      /\ log' = log /\ kind' = kind /\ instant' = instant
  BY DEF SocketFails, NewConnector, drawn
<1>8. \/ fd'[s] = "none" /\ caller'[s] = "done"
      \/ fd'[s] = "open" /\ inConnection'[s] /\ caller'[s] = "register"
  BY <1>1, <1>2, <1>6 DEF TypeOK, SocketFails, NewConnector, Caller
<1>9. SameLog(s) BY <1>7 DEF SameLog
<1>10. ~Ended(s)' /\ ~Told(s)' /\ Served(s)' = "no" /\ Accepted(s)' = "no" /\ Mask(s)' = {}
  <2>1. Heard(s)' = {} BY <1>6, <1>7 DEF Heard
  <2>2. QED BY <1>1, <1>4, <1>6, <2>1 DEF Ended, Told, Same
<1>11. SockInv(s)'
  BY <1>1, <1>6, <1>7, <1>8, <1>10
     DEF SockInv, UnbornInv, KindInv, DialInv, AcceptInv, EndInv, PeerInv, BeforePeer, Dialing
<1>12. LogInv(s)' BY <1>2, <1>3, <1>9, LogKept
<1>13. QED BY <1>1, <1>3, <1>4, <1>5, <1>11, <1>12, Focus

\* The registrations: with the epoll set, and with the container.
LEMMA RegisterStep ==
  ASSUME SocketInv, NEW s \in Connectors, RegisterConnector(s) \/ AddConnector(s)
  PROVE  StepGoal
<1> USE DEF socketVars, epollVars, netVars, kernelVars, historyVars
<1>1. s \in Sockets /\ kind[s] = "connector" BY DEF Connectors
<1>2. TypeOK /\ OwnInv /\ SockInv(s) /\ LogInv(s) BY <1>1 DEF SocketInv
<1>3. caller[s] \in {"register", "add"} /\ poller' = poller /\ drawn' = drawn
  BY DEF RegisterConnector, AddConnector, Caller
<1>4. OwnInv' /\ \A r \in Sockets : Same(r) BY <1>2, <1>3, HandsOff
<1>5. \A r \in Sockets : r # s => Kept(r)
  BY <1>2 DEF TypeOK, RegisterConnector, AddConnector, Caller, Kept, SameLog
<1>6. /\ fd' = fd /\ inConnection' = inConnection /\ outBuffer' = outBuffer /\ kernel' = kernel
      /\ avail' = avail /\ log' = log /\ kind' = kind /\ instant' = instant /\ direct' = direct
      /\ caller'[s] \in {"add", "connect"}
  BY <1>1, <1>2 DEF TypeOK, RegisterConnector, AddConnector, Caller, drawn
<1>7. SameLog(s) BY <1>6 DEF SameLog
<1>8. /\ fd[s] = "open" /\ log[s] = <<>> /\ kernel[s] = "fresh" /\ ~avail[s] /\ inConnection[s]
      /\ Served(s) \in BeforePeer /\ Mask(s) \subseteq {"out"} /\ Accepted(s) = "no"
  BY <1>1, <1>2, <1>3 DEF SockInv, DialInv, KindInv, Dialing
<1>9. outBuffer[s] = 0
  <2>1. ~Told(s) BY <1>8 DEF Told, Heard
  <2>2. outBuffer[s] \in Nat BY <1>1, <1>2, SocketsAssumption DEF TypeOK
  <2>3. QED BY <1>1, <1>2, <2>1, <2>2 DEF SockInv, PeerInv
<1>10. ~Ended(s)' /\ ~Told(s)'
  <2>1. Heard(s)' = {} BY <1>6, <1>8 DEF Heard
  <2>2. QED BY <2>1 DEF Ended, Told
<1>11. Served(s)' = Served(s) /\ Accepted(s)' = Accepted(s) /\ Mask(s)' = Mask(s)
  BY <1>1, <1>4 DEF Same
<1>12. SockInv(s)'
  BY <1>1, <1>6, <1>8, <1>9, <1>10, <1>11
     DEF SockInv, UnbornInv, KindInv, DialInv, AcceptInv, EndInv, PeerInv, BeforePeer, Dialing
<1>13. LogInv(s)' BY <1>2, <1>3, <1>7, LogKept
<1>14. QED BY <1>1, <1>3, <1>4, <1>5, <1>12, <1>13, Focus

\* connect() returns 0, or that the connection is being made.
LEMMA ConnectStep ==
  ASSUME SocketInv, NEW s \in Connectors, ConnectInProgress(s) \/ ConnectAtOnce(s)
  PROVE  StepGoal
<1> USE DEF socketVars, epollVars, netVars, kernelVars, historyVars
<1>1. s \in Sockets /\ kind[s] = "connector" BY DEF Connectors
<1>2. TypeOK /\ OwnInv /\ SockInv(s) /\ LogInv(s) BY <1>1 DEF SocketInv
<1>3. caller[s] = "connect" /\ poller' = poller /\ drawn' = drawn
  BY DEF ConnectInProgress, ConnectAtOnce, Caller
<1>4. OwnInv' /\ \A r \in Sockets : Same(r) BY <1>2, <1>3, HandsOff
<1>5. \A r \in Sockets : r # s => Kept(r)
  BY <1>2 DEF TypeOK, ConnectInProgress, ConnectAtOnce, Caller, Kept, SameLog
<1>6. /\ fd' = fd /\ inConnection' = inConnection /\ outBuffer' = outBuffer /\ entry' = entry
      /\ interest' = interest /\ log' = log /\ kind' = kind /\ direct' = direct
      /\ instant[s] => instant'[s]
      /\ caller'[s] \in {"done", "tell"} /\ (caller'[s] = "tell" => instant'[s])
  BY <1>1, <1>2 DEF TypeOK, ConnectInProgress, ConnectAtOnce, Caller, drawn
<1>7. /\ fd[s] = "open" /\ log[s] = <<>> /\ Served(s) \in BeforePeer /\ Accepted(s) = "no"
  BY <1>1, <1>2, <1>3 DEF SockInv, DialInv, KindInv, Dialing
<1>8. /\ ~Ended(s) /\ ~Told(s) /\ ~Ended(s)' /\ ~Told(s)'
  <2>1. Heard(s)' = {} /\ Heard(s) = {} BY <1>6, <1>7 DEF Heard
  <2>2. QED BY <2>1 DEF Ended, Told
<1>9. Served(s)' = Served(s) /\ Accepted(s)' = Accepted(s) /\ Mask(s)' = Mask(s)
  BY <1>1, <1>4 DEF Same
<1>10. SockInv(s)'
  BY <1>1, <1>2, <1>6, <1>7, <1>8, <1>9
     DEF SockInv, UnbornInv, KindInv, DialInv, AcceptInv, EndInv, PeerInv, BeforePeer, Dialing
<1>11. LogInv(s)' BY <1>6, <1>7 DEF LogInv
<1>12. QED BY <1>1, <1>3, <1>4, <1>5, <1>10, <1>11, Focus

\* connect() itself gave the answer: it is told, and with an error the socket is removed and
\* closed, and told of again.
LEMMA TellStep ==
  ASSUME SocketInv, NEW s \in Connectors, TellConnected(s) \/ ConnectError(s) \/ FailedAgain(s)
  PROVE  StepGoal
<1> USE DEF socketVars, epollVars, netVars, kernelVars, historyVars
<1>1. s \in Sockets /\ kind[s] = "connector" BY DEF Connectors
<1>2. TypeOK /\ OwnInv /\ SockInv(s) /\ LogInv(s) BY <1>1 DEF SocketInv
<1>3. PICK what \in Notices : Pass(s, what) /\ (caller[s] = "connect" => what \in Last)
  BY EndNoticeTypes DEF TellConnected, ConnectError, FailedAgain, Caller, Notices
<1>4. caller[s] \in {"connect", "tell", "again"} /\ poller' = poller /\ drawn' = drawn
  BY DEF TellConnected, ConnectError, FailedAgain, Caller
<1>5. OwnInv' /\ \A r \in Sockets : Same(r) BY <1>2, <1>4, HandsOff
<1>6. /\ \A r \in Sockets : r # s => log'[r] = log[r]
      /\ log'[s] # <<>> /\ Heard(s)' = Heard(s) \cup {what}
  BY <1>1, <1>2, <1>3, PassLog
<1>7. \A r \in Sockets : r # s => Kept(r)
  BY <1>2, <1>6 DEF TypeOK, TellConnected, ConnectError, FailedAgain, Caller, Kept, SameLog
<1>8. /\ fd' = fd /\ inConnection' = inConnection /\ outBuffer' = outBuffer /\ entry' = entry
      /\ interest' = interest /\ kind' = kind /\ direct' = direct /\ kernel' = kernel
      /\ avail' = avail /\ instant'[s]
      /\ caller'[s] \in {"done", "remove"} /\ (caller'[s] = "remove" => caller[s] = "connect")
  BY <1>1, <1>2
     DEF TypeOK, TellConnected, ConnectError, FailedAgain, Caller, drawn, SockInv, EndInv
<1>9. /\ (Ended(s) => Ended(s)') /\ (Told(s) => Told(s)')
      /\ (caller'[s] = "remove" => Ended(s)')
  BY <1>3, <1>6, <1>8 DEF Ended, Told
<1>10. Accepted(s) = "no" /\ fd[s] # "none"
  BY <1>1, <1>2, <1>4 DEF SockInv, KindInv, UnbornInv
<1>11. Served(s)' = Served(s) /\ Accepted(s)' = Accepted(s) /\ Mask(s)' = Mask(s)
  BY <1>1, <1>5 DEF Same
<1>12. SockInv(s)'
  <2>1. UnbornInv(s)' /\ KindInv(s)' /\ DialInv(s)' /\ AcceptInv(s)'
    BY <1>1, <1>8, <1>10, <1>11 DEF UnbornInv, KindInv, DialInv, AcceptInv, Dialing
  <2>2. EndInv(s)' BY <1>2, <1>8, <1>9, <1>11 DEF SockInv, EndInv
  <2>3. PeerInv(s)' BY <1>2, <1>8, <1>9, <1>11 DEF SockInv, PeerInv
  <2>4. QED BY <2>1, <2>2, <2>3 DEF SockInv
<1>13. LogInv(s)' BY <1>8 DEF LogInv
<1>14. QED BY <1>1, <1>4, <1>5, <1>7, <1>12, <1>13, Focus

LEMMA UndoStep ==
  ASSUME SocketInv, NEW s \in Connectors, ErrorRemove(s) \/ ErrorClose(s)
  PROVE  StepGoal
<1> USE DEF socketVars, epollVars, netVars, kernelVars, historyVars
<1>1. s \in Sockets /\ kind[s] = "connector" BY DEF Connectors
<1>2. TypeOK /\ OwnInv /\ SockInv(s) /\ LogInv(s) BY <1>1 DEF SocketInv
<1>3. caller[s] \in {"remove", "close"} /\ poller' = poller /\ drawn' = drawn
  BY DEF ErrorRemove, ErrorClose, Caller
<1>4. OwnInv' /\ \A r \in Sockets : Same(r) BY <1>2, <1>3, HandsOff
<1>5. \A r \in Sockets : r # s => Kept(r)
  BY <1>2 DEF TypeOK, ErrorRemove, Removed, ErrorClose, CloseFd, Closed, Caller, Kept, SameLog
<1>6. /\ inConnection' = inConnection /\ outBuffer' = outBuffer /\ log' = log
      /\ kind' = kind /\ direct' = direct /\ kernel' = kernel /\ avail' = avail
      /\ instant' = instant
  BY DEF ErrorRemove, ErrorClose, CloseFd, drawn
<1>7. instant[s] /\ Ended(s) /\ Accepted(s) = "no" /\ fd[s] # "none"
  BY <1>1, <1>2, <1>3 DEF SockInv, EndInv, KindInv, UnbornInv
<1>8. \/ /\ caller'[s] = "close" /\ fd'[s] = fd[s]
         /\ fd[s] = "open" => ~entry'[s]
         /\ entry'[s] => entry[s]
      \/ /\ caller[s] = "close" /\ caller'[s] = "again"
         /\ fd'[s] = "closed" /\ entry' = entry
  <2>1. CASE ErrorRemove(s)
    BY <1>1, <1>2, <2>1 DEF TypeOK, ErrorRemove, Removed, Open, Caller
  <2>2. CASE ErrorClose(s)
    BY <1>1, <1>2, <1>7, <2>2 DEF TypeOK, ErrorClose, CloseFd, Closed, Caller
  <2>3. QED BY <2>1, <2>2
<1>9. SameLog(s) BY <1>6 DEF SameLog
<1>10. (Ended(s) <=> Ended(s)') /\ (Told(s) <=> Told(s)') BY <1>9, SameLogKeeps
<1>11. Served(s)' = Served(s) /\ Accepted(s)' = Accepted(s) /\ Mask(s)' = Mask(s)
  BY <1>1, <1>4 DEF Same
<1>12. SockInv(s)'
  <2>1. UnbornInv(s)' /\ KindInv(s)' /\ DialInv(s)' /\ AcceptInv(s)'
    <3>1. fd'[s] # "none" /\ caller'[s] \in {"close", "again"} BY <1>7, <1>8
    <3>2. Accepted(s)' = "no" /\ kind'[s] = "connector" BY <1>1, <1>6, <1>7, <1>11
    <3>3. QED BY <3>1, <3>2 DEF UnbornInv, KindInv, DialInv, AcceptInv, Dialing
  <2>2. EndInv(s)'
    <3>1. EndInv(s) /\ fd[s] \in {"open", "closed"} BY <1>1, <1>2, <1>7 DEF SockInv, TypeOK
    <3>2. fd'[s] = "closed" /\ ~direct'[s] => ~entry'[s] BY <1>6, <1>8, <3>1 DEF EndInv
    <3>3. fd'[s] = "open" => ~entry'[s] BY <1>8
    <3>4. Ended(s)' /\ instant'[s] BY <1>6, <1>7, <1>10
    <3>5. QED BY <1>11, <3>1, <3>2, <3>3, <3>4 DEF EndInv
  <2>3. PeerInv(s)' BY <1>2, <1>6, <1>7, <1>10, <1>11 DEF SockInv, PeerInv
  <2>4. QED BY <2>1, <2>2, <2>3 DEF SockInv
<1>13. LogInv(s)' BY <1>2, <1>3, <1>9, LogKept
<1>14. QED BY <1>1, <1>3, <1>4, <1>5, <1>12, <1>13, Focus

-----------------------------------------------------------------------------
(* The steps of users, the kernel and the peer, and of the service as a whole *)

\* A socket that somebody has heard of is past its registrations.
LEMMA HeardOf ==
  ASSUME NEW s \in Sockets, SockInv(s), log[s] # <<>>
  PROVE  /\ fd[s] # "none" /\ caller[s] \notin Dialing
         /\ Accepted(s) \notin {"acceptRegister", "acceptAdd"}
         /\ Accepted(s) # "no" => owner[s] # server
  BY DEF SockInv, UnbornInv, DialInv, AcceptInv

LEMMA HeardNotEmpty ==
  ASSUME NEW s, Heard(s) # {} PROVE log[s] # <<>>
  BY DEF Heard

LEMMA WriteStep ==
  ASSUME SocketInv, NEW s \in Sockets, AppendOne(s)
  PROVE  StepGoal
<1> USE DEF netVars, kernelVars, historyVars
<1>1. TypeOK /\ OwnInv /\ SockInv(s) /\ LogInv(s) BY DEF SocketInv
<1>2. poller' = poller /\ drawn' = drawn BY DEF AppendOne
<1>3. OwnInv' /\ \A r \in Sockets : Same(r) BY <1>1, <1>2, HandsOff
<1>4. \A r \in Sockets : r # s => Kept(r)
  BY <1>1 DEF TypeOK, AppendOne, StartWrite, Kept, SameLog
<1>5. /\ fd' = fd /\ inConnection' = inConnection /\ entry' = entry /\ kernel' = kernel
      /\ avail' = avail /\ caller' = caller /\ log' = log /\ kind' = kind /\ direct' = direct
      /\ instant' = instant /\ interest'[s] = {"in", "out"}
  BY <1>1 DEF TypeOK, AppendOne, StartWrite, drawn
<1>6. log[s] # <<>> /\ (kind[s] = "connector" => Told(s))
  <2>1. MayWrite(s) BY DEF AppendOne
  <2>2. kind[s] = "connector" => s \notin Acceptors BY DEF Acceptors
  <2>3. Heard(s) # {} /\ (kind[s] = "connector" => Told(s)) BY <2>1, <2>2 DEF MayWrite, Told
  <2>4. QED BY <2>3, HeardNotEmpty
<1>7. /\ fd[s] # "none" /\ caller[s] \notin Dialing
      /\ Accepted(s) \notin {"acceptRegister", "acceptAdd"}
      /\ Accepted(s) # "no" => owner[s] # server
  BY <1>1, <1>6, HeardOf
<1>8. SameLog(s) BY <1>5 DEF SameLog
<1>9. (Ended(s) <=> Ended(s)') /\ (Told(s) <=> Told(s)') BY <1>8, SameLogKeeps
<1>10. Served(s)' = Served(s) /\ Accepted(s)' = Accepted(s) BY <1>3 DEF Same
<1>11. SockInv(s)'
  <2>1. UnbornInv(s)' /\ DialInv(s)' BY <1>5, <1>7 DEF UnbornInv, DialInv
  <2>2. KindInv(s)' BY <1>1, <1>5, <1>10 DEF SockInv, KindInv
  <2>3. AcceptInv(s)' BY <1>2, <1>7, <1>10 DEF AcceptInv, drawn
  <2>4. EndInv(s)' BY <1>1, <1>5, <1>9, <1>10 DEF SockInv, EndInv
  <2>5. PeerInv(s)' BY <1>1, <1>5, <1>6, <1>9, <1>10 DEF SockInv, PeerInv
  <2>6. QED BY <2>1, <2>2, <2>3, <2>4, <2>5 DEF SockInv
<1>12. LogInv(s)' BY <1>1, <1>2, <1>8, LogKept
<1>13. QED BY <1>2, <1>3, <1>4, <1>11, <1>12, Focus

LEMMA UserCloseStep ==
  ASSUME SocketInv, NEW s \in Sockets, UserClose(s)
  PROVE  StepGoal
<1> USE DEF netVars, kernelVars, historyVars
<1>1. TypeOK /\ OwnInv /\ SockInv(s) /\ LogInv(s) BY DEF SocketInv
<1>2. poller' = poller /\ drawn' = drawn BY DEF UserClose
<1>3. OwnInv' /\ \A r \in Sockets : Same(r) BY <1>1, <1>2, HandsOff
<1>4. \A r \in Sockets : r # s => Kept(r)
  BY <1>1 DEF TypeOK, UserClose, CloseFd, Closed, Kept, SameLog
<1>5. /\ fd'[s] = "closed" /\ inConnection' = inConnection /\ outBuffer' = outBuffer
      /\ entry' = entry /\ kernel' = kernel /\ avail' = avail /\ caller' = caller /\ log' = log
      /\ kind' = kind /\ direct'[s] /\ instant' = instant
  BY <1>1 DEF TypeOK, UserClose, CloseFd, Closed, Open, drawn
<1>6. log[s] # <<>> BY HeardNotEmpty DEF UserClose
<1>7. /\ fd[s] # "none" /\ caller[s] \notin Dialing
      /\ Accepted(s) \notin {"acceptRegister", "acceptAdd"}
      /\ Accepted(s) # "no" => owner[s] # server
  BY <1>1, <1>6, HeardOf
<1>8. SameLog(s) BY <1>5 DEF SameLog
<1>9. (Ended(s) <=> Ended(s)') /\ (Told(s) <=> Told(s)') BY <1>8, SameLogKeeps
<1>10. Served(s)' = Served(s) /\ Accepted(s)' = Accepted(s) BY <1>3 DEF Same
<1>11. SockInv(s)'
  <2>1. UnbornInv(s)' /\ DialInv(s)' BY <1>5, <1>7 DEF UnbornInv, DialInv
  <2>2. KindInv(s)' BY <1>1, <1>5, <1>7, <1>10 DEF SockInv, KindInv
  <2>3. AcceptInv(s)' BY <1>2, <1>7, <1>10 DEF AcceptInv, drawn
  <2>4. EndInv(s)' BY <1>1, <1>5, <1>9, <1>10 DEF SockInv, EndInv
  <2>5. PeerInv(s)' BY <1>1, <1>5, <1>9, <1>10 DEF SockInv, PeerInv
  <2>6. QED BY <2>1, <2>2, <2>3, <2>4, <2>5 DEF SockInv
<1>12. LogInv(s)' BY <1>1, <1>2, <1>8, LogKept
<1>13. QED BY <1>2, <1>3, <1>4, <1>11, <1>12, Focus

LEMMA UserStep ==
  ASSUME SocketInv, NEW s \in Sockets, User(s)
  PROVE  StepGoal
<1>1. CASE Write(s) \/ FinalWrite(s) BY <1>1, WriteStep DEF Write, FinalWrite
<1>2. CASE MarkFirst(s) \/ MarkLast(s)
  <2>1. poller' = poller /\ drawn' = drawn BY <1>2 DEF MarkFirst, MarkLast, netVars
  <2>2. OwnInv' /\ \A r \in Sockets : Same(r) BY <2>1, HandsOff DEF SocketInv
  <2>3. \A r \in Sockets : Kept(r)
    BY <1>2 DEF MarkFirst, MarkLast, Kept, SameLog, epollVars, netVars, kernelVars, historyVars
  <2>4. QED BY <2>1, <2>2, <2>3, NoFocus
<1>3. CASE UserClose(s) BY <1>3, UserCloseStep
<1>4. QED BY <1>1, <1>2, <1>3 DEF User

\* The kernel and the peer change the connection of a socket that has one.
LEMMA KernelStep ==
  ASSUME SocketInv, NEW s \in Sockets, Resolve(s) \/ Peer(s)
  PROVE  StepGoal
<1> USE DEF socketVars, epollVars, netVars, historyVars
<1>1. TypeOK /\ OwnInv /\ SockInv(s) /\ LogInv(s) BY DEF SocketInv
<1>2. /\ poller' = poller /\ drawn' = drawn /\ fd' = fd /\ inConnection' = inConnection
      /\ outBuffer' = outBuffer /\ entry' = entry /\ interest' = interest /\ caller' = caller
      /\ log' = log /\ direct' = direct /\ instant' = instant /\ kernel[s] # "fresh"
      /\ \A r \in Sockets : r # s => kernel'[r] = kernel[r] /\ avail'[r] = avail[r]
  <2>1. CASE Resolve(s)
    BY <1>1, <2>1 DEF Resolve, Established, Refused, Kernel, TypeOK
  <2>2. CASE PeerCloses(s) BY <1>1, <2>2 DEF PeerCloses, Kernel, TypeOK
  <2>3. CASE PeerResets(s) BY <1>1, <2>3 DEF PeerResets, Kernel, TypeOK
  <2>4. CASE PeerSends(s) BY <1>1, <2>4 DEF PeerSends, TypeOK
  <2>5. QED BY <2>1, <2>2, <2>3, <2>4 DEF Peer
<1>3. OwnInv' /\ \A r \in Sockets : Same(r) BY <1>1, <1>2, HandsOff
<1>4. \A r \in Sockets : r # s => Kept(r) BY <1>2 DEF Kept, SameLog
<1>5. fd[s] # "none" /\ caller[s] \notin Dialing
  BY <1>1, <1>2 DEF SockInv, UnbornInv, DialInv
<1>6. SameLog(s) BY <1>2 DEF SameLog
<1>7. (Ended(s) <=> Ended(s)') /\ (Told(s) <=> Told(s)') BY <1>6, SameLogKeeps
<1>8. Served(s)' = Served(s) /\ Accepted(s)' = Accepted(s) BY <1>3 DEF Same
<1>9. SockInv(s)'
  <2>1. UnbornInv(s)' /\ DialInv(s)' BY <1>2, <1>5 DEF UnbornInv, DialInv
  <2>2. KindInv(s)' BY <1>1, <1>2, <1>8 DEF SockInv, KindInv, drawn
  <2>3. AcceptInv(s)' BY <1>1, <1>2, <1>8 DEF SockInv, AcceptInv, drawn
  <2>4. EndInv(s)' BY <1>1, <1>2, <1>7, <1>8 DEF SockInv, EndInv
  <2>5. PeerInv(s)' BY <1>1, <1>2, <1>7, <1>8 DEF SockInv, PeerInv, drawn
  <2>6. QED BY <2>1, <2>2, <2>3, <2>4, <2>5 DEF SockInv
<1>10. LogInv(s)' BY <1>1, <1>2, <1>6, LogKept
<1>11. QED BY <1>2, <1>3, <1>4, <1>9, <1>10, Focus

LEMMA ServiceStep ==
  ASSUME SocketInv, BindFails \/ Listen \/ Terminate \/ Join \/ vars' = vars
  PROVE  StepGoal
<1>1. /\ poller' = poller /\ drawn' = drawn /\ \A r \in Sockets : Kept(r)
  BY DEF BindFails, Listen, Terminate, Join, vars, Kept, SameLog,
         socketVars, epollVars, netVars, kernelVars, historyVars
<1>2. OwnInv' /\ \A r \in Sockets : Same(r) BY <1>1, HandsOff DEF SocketInv
<1>3. QED BY <1>1, <1>2, NoFocus

-----------------------------------------------------------------------------
(* The steps of a poller *)

\* Going on in worker with the socket in hand, or back to the test that lays it down.
LEMMA GoServes ==
  ASSUME TypeOK, OwnInv, NEW p \in Pollers, poller[p].at \in Serving,
         NEW where \in Serving \cup {"test"}, Go(p, where), drawn' = drawn,
         NEW x, x = poller[p].sock
  PROVE  /\ OwnInv' /\ x \in Sockets /\ \A r \in Sockets : r # x => Same(r)
         /\ Served(x) = poller[p].at /\ Mask(x) = poller[p].mask /\ Mask(x)' \subseteq Mask(x)
         /\ Served(x)' = (IF where = "test" THEN "no" ELSE where)
         /\ Accepted(x)' = Accepted(x) /\ (Accepted(x) = "no" \/ owner[x] # server)
<1>1. poller[p] \in PollerStates BY PollerTypes
<1>2. CASE where = "test"
  <2>1. PICK n : n = Idle OBVIOUS
  <2>2. poller' = [poller EXCEPT ![p] = n] /\ n \in PollerStates
    BY <1>2, <2>1, IdleTypes DEF Go
  <2>3. /\ OwnInv' /\ x \in Sockets /\ \A r \in Sockets : r # x => Same(r)
        /\ Served(x) = poller[p].at /\ Mask(x) = poller[p].mask /\ Mask(x)' \subseteq Mask(x)
        /\ Served(x)' = "no"
        /\ Accepted(x)' = Accepted(x) /\ (Accepted(x) = "no" \/ owner[x] # server)
    BY <2>1, <2>2, Serve
  <2>4. QED BY <1>2, <2>3
<1>3. CASE where # "test"
  <2>1. PICK n : n = [poller[p] EXCEPT !.at = where] OBVIOUS
  <2>2. poller' = [poller EXCEPT ![p] = n] BY <1>3, <2>1 DEF Go
  <2>3. where \in Places /\ where \in Serving BY <1>3 DEF Serving, Places
  <2>4. n \in PollerStates /\ n.at = where /\ n.sock = poller[p].sock /\ n.mask = poller[p].mask
    BY <1>1, <2>1, <2>3 DEF PollerStates
  <2>5. n # Idle BY <1>3, <2>4 DEF Idle
  <2>6. QED BY <1>3, <2>2, <2>3, <2>4, <2>5, Serve
<1>4. QED BY <1>2, <1>3

\* A step of the poller that changes nothing but its place, and what the kernel has of a
\* socket that is past connect().
LEMMA Quiet ==
  ASSUME SocketInv, NEW p \in Pollers, poller[p].at \in Serving \ {"unset"},
         NEW where \in (Serving \ {"remove", "close", "unset"}) \cup {"test"},
         Go(p, where), drawn' = drawn,
         NEW x, x = poller[p].sock,
         fd' = fd, inConnection' = inConnection, outBuffer' = outBuffer, entry' = entry,
         interest' = interest, avail' = avail, caller' = caller, log' = log,
         direct' = direct, instant' = instant,
         \A r \in Sockets : kernel'[r] = kernel[r] \/ (r = x /\ kernel[r] # "fresh"),
         poller[p].at \in BeforePeer => where \in BeforePeer \cup {"test"} \/ ~inConnection[x],
         poller[p].at = "lookup" => where = "test" \/ entry[x],
         poller[p].at \in {"remove", "close"} => fd[x] = "closed",
         where \in {"size", "stop", "name"} => inConnection[x]
  PROVE  StepGoal
<1>1. TypeOK /\ OwnInv BY DEF SocketInv
<1>2. /\ OwnInv' /\ x \in Sockets /\ \A r \in Sockets : r # x => Same(r)
      /\ Served(x) = poller[p].at /\ Mask(x)' \subseteq Mask(x)
      /\ Served(x)' = (IF where = "test" THEN "no" ELSE where)
      /\ Accepted(x)' = Accepted(x) /\ (Accepted(x) = "no" \/ owner[x] # server)
  BY <1>1, GoServes
<1>3. SockInv(x) /\ LogInv(x) BY <1>2 DEF SocketInv
<1>4. \A r \in Sockets : r # x => Kept(r) BY DEF Kept, SameLog
<1>5. SameLog(x) BY DEF SameLog
<1>6. (Ended(x) <=> Ended(x)') /\ (Told(x) <=> Told(x)') BY <1>5, SameLogKeeps
<1>7. kind' = kind /\ owner' = owner /\ server' = server BY DEF drawn
<1>8. fd[x] # "none" BY <1>2, <1>3 DEF SockInv, UnbornInv, Serving
<1>9. UnbornInv(x)' BY <1>8 DEF UnbornInv
<1>10. KindInv(x)' BY <1>2, <1>3, <1>7 DEF SockInv, KindInv
<1>11. DialInv(x)'
  <2>1. SUFFICES ASSUME caller[x] \in Dialing
                 PROVE  /\ fd[x] = "open" /\ log[x] = <<>> /\ kernel'[x] = "fresh" /\ ~avail[x]
                        /\ inConnection[x] /\ Served(x)' \in BeforePeer
                        /\ Mask(x)' \subseteq {"out"}
    BY DEF DialInv
  <2>2. /\ fd[x] = "open" /\ log[x] = <<>> /\ kernel[x] = "fresh" /\ ~avail[x] /\ inConnection[x]
        /\ Served(x) \in BeforePeer /\ Mask(x) \subseteq {"out"}
    BY <1>3, <2>1 DEF SockInv, DialInv
  <2>3. Served(x)' \in BeforePeer BY <1>2, <2>2 DEF BeforePeer
  <2>4. QED BY <1>2, <2>2, <2>3
<1>12. AcceptInv(x)' BY <1>2, <1>3, <1>7 DEF SockInv, AcceptInv, Serving
<1>13. EndInv(x)'
  <2>1. Served(x)' \notin {"remove", "close"} BY <1>2 DEF Serving
  <2>2. Served(x) \in {"remove", "close"} => fd[x] = "closed" BY <1>2
  <2>3. QED BY <1>3, <1>6, <2>1, <2>2 DEF SockInv, EndInv
<1>14. PeerInv(x)'
  <2>1. Served(x)' # "unset" /\ Served(x) # "unset" BY <1>2
  <2>2. Served(x)' \in {"size", "stop", "name"} => inConnection[x] BY <1>2
  <2>3. QED BY <1>3, <1>6, <1>7, <2>1, <2>2 DEF SockInv, PeerInv
<1>15. SockInv(x)' BY <1>9, <1>10, <1>11, <1>12, <1>13, <1>14 DEF SockInv
<1>16. LogInv(x)' BY <1>3, <1>5, LogKept
<1>17. QED BY <1>2, <1>4, <1>15, <1>16, Focus

\* Where closeSocket is called from.
Closers == {"err", "in", "out", "doomed"}
DataKept ==
    /\ fd' = fd /\ inConnection' = inConnection /\ outBuffer' = outBuffer /\ entry' = entry
    /\ interest' = interest /\ kernel' = kernel /\ avail' = avail /\ caller' = caller
    /\ direct' = direct /\ instant' = instant

\* closeSocket passes the notice of an open socket, and removes and closes it after.
LEMMA NotifyOpen ==
  ASSUME SocketInv, NEW p \in Pollers, poller[p].at \in Closers, NEW back \in Returns,
         Open(poller[p].sock), Notify(p, back), DataKept, drawn' = drawn,
         caller[poller[p].sock] \notin Dialing
  PROVE  StepGoal
<1>1. TypeOK /\ OwnInv /\ poller[p].at \in Serving BY DEF SocketInv, Closers, Serving
<1>2. PICK x : x = poller[p].sock OBVIOUS
<1>3. PICK n : n = [poller[p] EXCEPT !.at = "remove", !.back = back] OBVIOUS
<1>4. poller[p] \in PollerStates /\ poller \in [Pollers -> PollerStates] BY <1>1, PollerTypes
<1>5. n \in PollerStates /\ n.at = "remove" /\ n.sock = x /\ n.mask = poller[p].mask
  BY <1>2, <1>3, <1>4 DEF PollerStates, Places
<1>6. poller' = [poller EXCEPT ![p] = n] /\ Pass(x, EndNotice(x))
  BY <1>2, <1>3, <1>4 DEF Notify
<1>7. n # Idle /\ n.at \in Serving BY <1>5 DEF Idle, Serving
<1>8. /\ OwnInv' /\ x \in Sockets /\ \A r \in Sockets : r # x => Same(r)
      /\ Served(x) = poller[p].at /\ Served(x)' = "remove"
      /\ Accepted(x)' = Accepted(x) /\ (Accepted(x) = "no" \/ owner[x] # server)
  <2>1. n.at \in Serving /\ n.sock = poller[p].sock /\ n.mask = poller[p].mask
    BY <1>2, <1>5, <1>7
  <2>2. /\ OwnInv' /\ x \in Sockets /\ \A r \in Sockets : r # x => Same(r)
        /\ Served(x) = poller[p].at /\ Served(x)' = (IF n = Idle THEN "no" ELSE n.at)
        /\ Accepted(x)' = Accepted(x) /\ (Accepted(x) = "no" \/ owner[x] # server)
    BY <1>1, <1>2, <1>5, <1>6, <2>1, Serve
  <2>3. QED BY <1>5, <1>7, <2>2
<1>9. SockInv(x) /\ LogInv(x) BY <1>8 DEF SocketInv
<1>10. EndNotice(x) \in Notices /\ EndNotice(x) \in Last /\ EndNotice(x) # "Connected"
  BY EndNoticeTypes DEF Last
<1>11. /\ \A r \in Sockets : r # x => log'[r] = log[r]
       /\ Heard(x)' = Heard(x) \cup {EndNotice(x)}
  BY <1>1, <1>6, <1>8, <1>10, PassLog
<1>12. \A r \in Sockets : r # x => Kept(r) BY <1>11 DEF DataKept, Kept, SameLog
<1>13. Ended(x)' /\ (Told(x) <=> Told(x)') BY <1>10, <1>11 DEF Ended, Told
<1>14. fd[x] = "open" /\ caller[x] \notin Dialing BY <1>2 DEF Open
<1>15. Ended(x) => instant[x]
  BY <1>8, <1>9, <1>14 DEF SockInv, EndInv, Closers
<1>16. kind[x] = "connector" /\ inConnection[x] /\ Told(x) => instant[x]
  BY <1>8, <1>9 DEF SockInv, PeerInv, Closers
<1>17. kind' = kind /\ owner' = owner /\ server' = server BY DEF drawn
<1>18. SockInv(x)'
  <2> USE DEF DataKept
  <2>1. UnbornInv(x)' /\ DialInv(x)' BY <1>14 DEF UnbornInv, DialInv
  <2>2. KindInv(x)' BY <1>8, <1>9, <1>17 DEF SockInv, KindInv
  <2>3. Accepted(x) \notin {"acceptRegister", "acceptAdd"}
    BY <1>8, <1>9 DEF SockInv, AcceptInv, Closers
  <2>4. AcceptInv(x)' BY <1>8, <1>17, <2>3 DEF AcceptInv
  <2>5. EndInv(x)' BY <1>8, <1>9, <1>13, <1>14 DEF SockInv, EndInv
  <2>6. PeerInv(x)' BY <1>8, <1>9, <1>13, <1>17 DEF SockInv, PeerInv, Closers
  <2>7. QED BY <2>1, <2>2, <2>4, <2>5, <2>6 DEF SockInv
<1>19. LogInv(x)'
  <2>1. Ended(x) /\ ~instant'[x] => EndNotice(x) = "Accepted" /\ owner[x] # server
    BY <1>15 DEF DataKept
  <2>2. ASSUME kind[x] = "connector", IsAnswer(EndNotice(x)), ~instant'[x]
        PROVE  "Connected" \notin Heard(x) /\ "ConnectFailed" \notin Heard(x)
    <3>1. EndNotice(x) = "ConnectFailed" BY <1>10, <2>2 DEF IsAnswer
    <3>2. inConnection[x] BY <3>1 DEF EndNotice
    <3>3. ~Told(x) /\ ~Ended(x) BY <1>15, <1>16, <2>2, <3>2 DEF DataKept
    <3>4. QED BY <3>3 DEF Told, Ended, Last
  <2>3. instant[x] => instant'[x] BY DEF DataKept
  <2>4. QED BY <1>1, <1>6, <1>8, <1>9, <1>10, <2>1, <2>2, <2>3, PassInOrder
<1>20. QED BY <1>8, <1>12, <1>18, <1>19, Focus

\* closeSocket, as worker calls it: a socket that is not open any more is passed over.
LEMMA NotifyStep ==
  ASSUME SocketInv, NEW p \in Pollers, poller[p].at \in Closers,
         NEW back \in Returns, poller[p].at = "doomed" => back = "test",
         Notify(p, back), DataKept, drawn' = drawn,
         Open(poller[p].sock) => caller[poller[p].sock] \notin Dialing
  PROVE  StepGoal
<1>1. CASE Open(poller[p].sock) BY <1>1, NotifyOpen
<1>2. CASE ~Open(poller[p].sock)
  <2>1. Go(p, back) /\ log' = log BY <1>2 DEF Notify
  <2>2. back \in (Serving \ {"remove", "close", "unset"}) \cup {"test"}
        /\ back \in BeforePeer \cup {"test"} /\ back \notin {"size", "stop", "name"}
    BY DEF Returns, Serving, BeforePeer
  <2>3. poller[p].at \in Serving \ {"unset"} /\ poller[p].at \notin {"lookup", "remove", "close"}
    BY DEF Closers, Serving
  <2>4. PICK x : x = poller[p].sock OBVIOUS
  <2>5. QED BY <2>1, <2>2, <2>3, <2>4, Quiet DEF DataKept
<1>3. QED BY <1>1, <1>2

\* What is known of the socket that a poller serves.
LEMMA InHand ==
  ASSUME SocketInv, NEW p \in Pollers, poller[p].at \in Serving, NEW x, x = poller[p].sock
  PROVE  /\ x \in Sockets /\ owner[x] = p /\ SockInv(x) /\ LogInv(x)
         /\ Served(x) = poller[p].at /\ Mask(x) = poller[p].mask /\ fd[x] # "none"
<1>1. x \in Sockets /\ owner[x] = p BY DEF SocketInv, OwnInv
<1>2. SockInv(x) /\ LogInv(x) BY <1>1 DEF SocketInv
<1>3. "no" \notin Serving BY DEF Serving
<1>4. Served(x) = poller[p].at /\ Mask(x) = poller[p].mask BY <1>1, <1>3 DEF Served, Mask
<1>5. fd[x] # "none" BY <1>2, <1>3, <1>4 DEF SockInv, UnbornInv
<1>6. QED BY <1>1, <1>2, <1>4, <1>5

\* Until connect() returns, a poller that serves the socket has been told of EPOLLOUT only.
LEMMA NotDialing ==
  ASSUME SocketInv, NEW p \in Pollers, poller[p].at \in Serving, NEW x, x = poller[p].sock,
         \/ "err" \in poller[p].mask \/ "in" \in poller[p].mask
         \/ poller[p].at \notin BeforePeer \/ ~inConnection[x] \/ kernel[x] # "fresh"
  PROVE  caller[x] \notin Dialing
<1>1. /\ SockInv(x) /\ Served(x) = poller[p].at /\ Mask(x) = poller[p].mask BY InHand
<1>2. QED BY <1>1 DEF SockInv, DialInv

QuietData ==
    /\ fd' = fd /\ inConnection' = inConnection /\ outBuffer' = outBuffer /\ entry' = entry
    /\ interest' = interest /\ avail' = avail /\ caller' = caller /\ log' = log
    /\ direct' = direct /\ instant' = instant /\ drawn' = drawn

LEMMA QuietStep ==
  ASSUME SocketInv, NEW p \in Pollers,
         \/ Lookup(p) \/ SkipIn(p) \/ RecvError(p) \/ SkipOut(p) \/ Connecting(p)
         \/ ReadSize(p) \/ NoPeer(p) \/ SendWouldBlock(p) \/ AfterSend(p)
         \/ OnEPOLLERR(p) /\ "err" \notin poller[p].mask
  PROVE  StepGoal
<1> USE DEF socketVars, epollVars, netVars, kernelVars, historyVars, At
<1>1. PICK x : x = poller[p].sock OBVIOUS
<1>2. ASSUME NEW where \in (Serving \ {"remove", "close", "unset"}) \cup {"test"},
             poller[p].at \in Serving \ {"unset", "remove", "close"},
             Go(p, where), QuietData, kernel' = kernel,
             poller[p].at \in BeforePeer => where \in BeforePeer \cup {"test"} \/ ~inConnection[x],
             poller[p].at = "lookup" => where = "test" \/ entry[x],
             where \in {"size", "stop", "name"} => inConnection[x]
      PROVE  StepGoal
  BY <1>1, <1>2, Quiet DEF QuietData
<1>3. CASE Lookup(p)
  <2>1. PICK where \in {"err", "test"} : Go(p, where) /\ (where = "err" => entry[x])
    BY <1>1, <1>3 DEF Lookup
  <2>2. QuietData /\ kernel' = kernel /\ poller[p].at = "lookup" BY <1>3 DEF Lookup, QuietData
  <2>3. QED BY <1>2, <2>1, <2>2 DEF Serving, BeforePeer
<1>4. CASE SkipIn(p)
  <2>1. /\ Go(p, "out") /\ QuietData /\ kernel' = kernel /\ poller[p].at = "in"
    BY <1>4 DEF SkipIn, QuietData
  <2>2. QED BY <1>2, <2>1 DEF Serving, BeforePeer
<1>5. CASE RecvError(p)
  <2>1. /\ Go(p, "out") /\ QuietData /\ poller[p].at = "in" BY <1>5 DEF RecvError, QuietData
  <2>2. kernel \in [Sockets -> {"fresh", "connecting", "up", "refused", "eof", "reset", "dead"}]
    BY DEF SocketInv, TypeOK
  <2>3. \A r \in Sockets : kernel'[r] = kernel[r] \/ (r = x /\ kernel[r] # "fresh")
    BY <1>1, <1>5, <2>2 DEF RecvError
  <2>4. "out" \in (Serving \ {"remove", "close", "unset"}) \cup {"test"} /\ "out" \in BeforePeer
        /\ "in" \in Serving \ {"unset"}
    BY DEF Serving, BeforePeer
  <2>5. QED BY <1>1, <2>1, <2>3, <2>4, Quiet DEF QuietData
<1>6. CASE SkipOut(p)
  <2>1. Go(p, "test") /\ QuietData /\ kernel' = kernel /\ poller[p].at = "out"
    BY <1>6 DEF SkipOut, QuietData
  <2>2. QED BY <1>2, <2>1 DEF Serving
<1>7. CASE Connecting(p)
  <2>1. /\ Go(p, "size") /\ QuietData /\ kernel' = kernel /\ poller[p].at = "out"
        /\ inConnection[x]
    BY <1>1, <1>7 DEF Connecting, QuietData
  <2>2. QED BY <1>2, <2>1 DEF Serving, BeforePeer
<1>8. CASE ReadSize(p)
  <2>1. PICK where \in {"stop", "name"} : Go(p, where) BY <1>8 DEF ReadSize
  <2>2. QuietData /\ kernel' = kernel /\ poller[p].at = "size" BY <1>8 DEF ReadSize, QuietData
  <2>3. inConnection[x]
    <3>1. SockInv(x) /\ Served(x) = "size" BY <1>1, <2>2, InHand DEF Serving
    <3>2. QED BY <3>1 DEF SockInv, PeerInv
  <2>4. QED BY <1>2, <2>1, <2>2, <2>3 DEF Serving, BeforePeer
<1>9. CASE NoPeer(p)
  <2>1. Go(p, "test") /\ QuietData /\ kernel' = kernel /\ poller[p].at = "name"
    BY <1>9 DEF NoPeer, QuietData
  <2>2. QED BY <1>2, <2>1 DEF Serving
<1>10. CASE SendWouldBlock(p)
  <2>1. Go(p, "test") /\ QuietData /\ kernel' = kernel /\ poller[p].at = "out"
    BY <1>10 DEF SendWouldBlock, Flushing, QuietData
  <2>2. QED BY <1>2, <2>1 DEF Serving
<1>11. CASE AfterSend(p)
  <2>1. PICK where \in {"doomed", "test"} : Go(p, where) BY <1>11 DEF AfterSend
  <2>2. QuietData /\ kernel' = kernel /\ poller[p].at = "sent" BY <1>11 DEF AfterSend, QuietData
  <2>3. QED BY <1>2, <2>1, <2>2 DEF Serving, BeforePeer
<1>12. CASE OnEPOLLERR(p) /\ "err" \notin poller[p].mask
  <2>1. Go(p, "in") /\ QuietData /\ kernel' = kernel /\ poller[p].at = "err"
    BY <1>12 DEF OnEPOLLERR, QuietData
  <2>2. QED BY <1>2, <2>1 DEF Serving, BeforePeer
<1>13. QED BY <1>3, <1>4, <1>5, <1>6, <1>7, <1>8, <1>9, <1>10, <1>11, <1>12

\* The four calls of closeSocket in worker.
LEMMA CloserStep ==
  ASSUME SocketInv, NEW p \in Pollers,
         \/ OnEPOLLERR(p) /\ "err" \in poller[p].mask
         \/ RecvZero(p) \/ SendError(p) \/ Destroy(p)
  PROVE  StepGoal
<1> USE DEF socketVars, epollVars, netVars, kernelVars, historyVars, At
<1>1. PICK x : x = poller[p].sock OBVIOUS
<1>2. /\ poller[p].at \in Closers /\ DataKept /\ drawn' = drawn
      /\ \/ "err" \in poller[p].mask \/ "in" \in poller[p].mask
         \/ poller[p].at = "doomed" \/ ~inConnection[x]
      /\ \E back \in Returns : Notify(p, back) /\ (poller[p].at = "doomed" => back = "test")
  BY <1>1 DEF OnEPOLLERR, RecvZero, SendError, Destroy, Flushing, Closers, DataKept, Returns
<1>3. poller[p].at \in Serving /\ "doomed" \notin BeforePeer
  BY <1>2 DEF Closers, Serving, BeforePeer
<1>4. caller[x] \notin Dialing BY <1>1, <1>2, <1>3, NotDialing
<1>5. QED BY <1>1, <1>2, <1>4, NotifyStep

\* closeSocket after its notice: MS->remove, and close.
LEMMA ClosingStep ==
  ASSUME SocketInv, NEW p \in Pollers, CloseRemove(p) \/ CloseClose(p)
  PROVE  StepGoal
<1> USE DEF netVars, kernelVars, historyVars, At
<1>1. PICK x : x = poller[p].sock OBVIOUS
<1>2. TypeOK /\ OwnInv BY DEF SocketInv
<1>3. poller[p].at \in {"remove", "close"} BY DEF CloseRemove, CloseClose
<1>4. poller[p].at \in Serving BY <1>3 DEF Serving
<1>5. x \in Sockets /\ SockInv(x) /\ LogInv(x) /\ Served(x) = poller[p].at /\ fd[x] # "none"
  BY <1>1, <1>4, InHand
<1>6. PICK where \in Returns \cup {"close"} :
        Go(p, where) /\ (where = "close" <=> CloseRemove(p))
  <2>1. poller[p].back \in Returns BY <1>2, PollerTypes DEF PollerStates
  <2>2. CASE CloseRemove(p) BY <2>2 DEF CloseRemove
  <2>3. CASE CloseClose(p) /\ ~CloseRemove(p) BY <2>1, <2>3 DEF CloseClose, Returns
  <2>4. QED BY <2>2, <2>3
<1>7. where \in Serving \cup {"test"} /\ where \notin {"remove", "size", "stop", "name"}
  BY DEF Returns, Serving
<1>8. drawn' = drawn BY DEF CloseRemove, CloseClose
<1>9. /\ OwnInv' /\ \A r \in Sockets : r # x => Same(r)
      /\ Served(x)' = (IF where = "test" THEN "no" ELSE where)
      /\ Accepted(x)' = Accepted(x) /\ (Accepted(x) = "no" \/ owner[x] # server)
  BY <1>1, <1>2, <1>4, <1>6, <1>7, <1>8, GoServes
<1>10. /\ inConnection' = inConnection /\ outBuffer' = outBuffer /\ kernel' = kernel
       /\ avail' = avail /\ caller' = caller /\ log' = log /\ direct' = direct
       /\ instant' = instant /\ kind' = kind /\ owner' = owner /\ server' = server
  BY DEF CloseRemove, CloseClose, drawn, socketVars, epollVars
<1>11. \A r \in Sockets : r # x => Kept(r)
  <2>1. CASE CloseRemove(p)
    BY <1>1, <1>2, <1>10, <2>1 DEF TypeOK, CloseRemove, Removed, Kept, SameLog, socketVars
  <2>2. CASE CloseClose(p)
    BY <1>1, <1>2, <1>10, <2>2 DEF TypeOK, CloseClose, CloseFd, Closed, Kept, SameLog
  <2>3. QED BY <2>1, <2>2
<1>12. EndInv(x) /\ fd[x] \in {"open", "closed"} BY <1>2, <1>5 DEF TypeOK, SockInv
<1>13. \/ /\ where = "close" /\ fd'[x] = fd[x] /\ (entry'[x] => entry[x])
          /\ fd[x] = "open" => ~entry'[x]
       \/ /\ where # "close" /\ Served(x) = "close" /\ fd'[x] = "closed"
          /\ entry'[x] = entry[x] /\ interest'[x] = {}
  <2>1. CASE CloseRemove(p)
    BY <1>1, <1>2, <1>5, <1>6, <2>1 DEF TypeOK, CloseRemove, Removed, Open, socketVars
  <2>2. CASE CloseClose(p) /\ ~CloseRemove(p)
    BY <1>1, <1>2, <1>5, <1>6, <1>12, <2>2 DEF TypeOK, CloseClose, CloseFd, Closed
  <2>3. QED BY <2>1, <2>2
<1>14. SameLog(x) BY <1>10 DEF SameLog
<1>15. (Ended(x) <=> Ended(x)') /\ (Told(x) <=> Told(x)') BY <1>14, SameLogKeeps
<1>16. Ended(x) BY <1>3, <1>5, <1>12 DEF EndInv
<1>17. log[x] # <<>> BY <1>16, HeardNotEmpty DEF Ended
<1>18. caller[x] \notin Dialing /\ Accepted(x) \notin {"acceptRegister", "acceptAdd"}
  BY <1>5, <1>17, HeardOf
<1>19. SockInv(x)'
  <2>1. UnbornInv(x)' /\ DialInv(x)' BY <1>10, <1>12, <1>13, <1>18 DEF UnbornInv, DialInv
  <2>2. KindInv(x)' BY <1>5, <1>9, <1>10, <1>12, <1>13 DEF SockInv, KindInv
  <2>3. AcceptInv(x)' BY <1>9, <1>10, <1>18 DEF AcceptInv
  <2>4. EndInv(x)'
    <3>1. fd'[x] = "closed" /\ ~direct'[x] => ~entry'[x]
      BY <1>10, <1>12, <1>13 DEF EndInv
    <3>2. Served(x)' \in {"remove", "close"} => where = "close" BY <1>7, <1>9
    <3>3. Served(x)' \notin {"remove", "close"} => fd'[x] = "closed"
      BY <1>9, <1>13
    <3>4. fd'[x] = "open" => ~entry'[x] BY <1>13
    <3>5. QED BY <1>10, <1>12, <1>15, <1>16, <3>1, <3>2, <3>3, <3>4 DEF EndInv
  <2>5. PeerInv(x)'
    <3>1. Served(x)' \notin {"size", "stop", "name"} BY <1>7, <1>9
    <3>2. fd'[x] = "open" => interest'[x] = interest[x]
      BY <1>6, <1>13 DEF CloseRemove
    <3>3. kind[x] = "connector" /\ Told(x) /\ ~instant[x] => ~inConnection[x]
      BY <1>3, <1>5 DEF SockInv, PeerInv
    <3>4. fd'[x] = "open" => fd[x] = "open" BY <1>12, <1>13
    <3>5. QED BY <1>5, <1>10, <1>15, <3>1, <3>2, <3>3, <3>4 DEF SockInv, PeerInv
  <2>6. QED BY <2>1, <2>2, <2>3, <2>4, <2>5 DEF SockInv
<1>20. LogInv(x)' BY <1>5, <1>8, <1>14, LogKept
<1>21. QED BY <1>5, <1>8, <1>9, <1>11, <1>19, <1>20, Focus

\* What the poller passes while it serves an open socket: bytes that came, and Connected.
LEMMA TellingStep ==
  ASSUME SocketInv, NEW p \in Pollers, RecvBytes(p) \/ PassConnected(p)
  PROVE  StepGoal
<1> USE DEF socketVars, epollVars, netVars, kernelVars, historyVars, At
<1>1. PICK x : x = poller[p].sock OBVIOUS
<1>2. TypeOK /\ OwnInv BY DEF SocketInv
<1>3. /\ poller[p].at \in {"in", "name"} /\ drawn' = drawn /\ Open(x)
      /\ \/ "in" \in poller[p].mask \/ kernel[x] # "fresh"
  BY <1>1 DEF RecvBytes, PassConnected, HasPeer
<1>4. poller[p].at \in Serving BY <1>3 DEF Serving
<1>5. x \in Sockets /\ SockInv(x) /\ LogInv(x) /\ Served(x) = poller[p].at /\ fd[x] # "none"
  BY <1>1, <1>4, InHand
<1>6. caller[x] \notin Dialing BY <1>1, <1>3, <1>4, NotDialing
<1>7. PICK what \in {"StreamRead", "Connected"}, where \in {"out", "unset"} :
        /\ Pass(x, what) /\ Go(p, where)
        /\ what = "Connected" => where = "unset" /\ Served(x) = "name"
  <2>1. CASE RecvBytes(p) BY <1>1, <2>1 DEF RecvBytes
  <2>2. CASE PassConnected(p) BY <1>1, <1>5, <2>2 DEF PassConnected
  <2>3. QED BY <2>1, <2>2
<1>8. where \in Serving \cup {"test"} BY DEF Serving
<1>9. /\ OwnInv' /\ \A r \in Sockets : r # x => Same(r)
      /\ Served(x)' = where
      /\ Accepted(x)' = Accepted(x) /\ (Accepted(x) = "no" \/ owner[x] # server)
  BY <1>1, <1>2, <1>3, <1>4, <1>7, <1>8, GoServes
<1>10. what \in Notices /\ what \notin Last BY DEF Notices, Last
<1>11. /\ \A r \in Sockets : r # x => log'[r] = log[r]
       /\ Heard(x)' = Heard(x) \cup {what}
  BY <1>2, <1>5, <1>7, <1>10, PassLog
<1>12. /\ fd' = fd /\ inConnection' = inConnection /\ outBuffer' = outBuffer /\ entry' = entry
       /\ interest' = interest /\ caller' = caller /\ direct' = direct
       /\ instant' = instant /\ kind' = kind /\ owner' = owner /\ server' = server
  BY DEF RecvBytes, PassConnected, drawn
<1>13. \A r \in Sockets : r # x => kernel'[r] = kernel[r] /\ avail'[r] = avail[r]
  BY <1>1, <1>2 DEF TypeOK, RecvBytes, PassConnected
<1>14. \A r \in Sockets : r # x => Kept(r) BY <1>11, <1>12, <1>13 DEF Kept, SameLog
<1>15. /\ Ended(x)' <=> Ended(x)
       /\ Told(x)' => Told(x) \/ Served(x)' = "unset"
       /\ Told(x) => Told(x)'
  BY <1>7, <1>9, <1>10, <1>11 DEF Ended, Told
<1>16. fd[x] = "open" BY <1>3 DEF Open
<1>17. Ended(x) => instant[x] BY <1>3, <1>5, <1>16 DEF SockInv, EndInv
<1>18. SockInv(x)'
  <2>1. UnbornInv(x)' /\ DialInv(x)' BY <1>5, <1>6, <1>12 DEF UnbornInv, DialInv
  <2>2. KindInv(x)' BY <1>5, <1>9, <1>12 DEF SockInv, KindInv
  <2>3. AcceptInv(x)' BY <1>3, <1>5, <1>9, <1>12 DEF SockInv, AcceptInv
  <2>4. EndInv(x)' BY <1>5, <1>9, <1>12, <1>15, <1>16, <1>17 DEF SockInv, EndInv
  <2>5. PeerInv(x)' BY <1>3, <1>5, <1>9, <1>12, <1>15 DEF SockInv, PeerInv
  <2>6. QED BY <2>1, <2>2, <2>3, <2>4, <2>5 DEF SockInv
<1>19. LogInv(x)'
  <2>1. ASSUME kind[x] = "connector", IsAnswer(what), ~instant'[x]
        PROVE  "Connected" \notin Heard(x) /\ "ConnectFailed" \notin Heard(x)
    <3>1. Served(x) = "name" BY <1>7, <2>1 DEF IsAnswer
    <3>2. inConnection[x] BY <1>5, <3>1 DEF SockInv, PeerInv
    <3>3. ~Told(x) BY <1>5, <1>12, <2>1, <3>1, <3>2 DEF SockInv, PeerInv
    <3>4. ~Ended(x) BY <1>12, <1>17, <2>1
    <3>5. QED BY <3>3, <3>4 DEF Told, Ended, Last
  <2>2. QED BY <1>2, <1>3, <1>5, <1>7, <1>10, <1>12, <1>17, <2>1, PassInOrder
<1>20. QED BY <1>3, <1>5, <1>9, <1>14, <1>18, <1>19, Focus

\* Steps of the poller that change the watch for EPOLLOUT, the output buffer, or inConnection.
LEMMA OutputStep ==
  ASSUME SocketInv, NEW p \in Pollers, StopWhileConnecting(p) \/ Unset(p) \/ SendSome(p)
  PROVE  StepGoal
<1> USE DEF netVars, kernelVars, historyVars, At
<1>1. PICK x : x = poller[p].sock OBVIOUS
<1>2. TypeOK /\ OwnInv BY DEF SocketInv
<1>3. /\ drawn' = drawn /\ poller[p].at \in {"stop", "unset", "out"}
      /\ poller[p].at = "out" => ~inConnection[x] /\ Open(x)
  BY <1>1 DEF StopWhileConnecting, Unset, SendSome, Flushing
<1>4. poller[p].at \in Serving BY <1>3 DEF Serving
<1>5. x \in Sockets /\ SockInv(x) /\ LogInv(x) /\ Served(x) = poller[p].at /\ fd[x] # "none"
  BY <1>1, <1>4, InHand
<1>6. PICK where \in {"name", "test", "sent"} :
        Go(p, where) /\ (where = "name" <=> poller[p].at = "stop")
  BY DEF StopWhileConnecting, Unset, SendSome, Flushing
<1>7. where \in Serving \cup {"test"} BY DEF Serving
<1>8. /\ OwnInv' /\ \A r \in Sockets : r # x => Same(r)
      /\ Served(x)' = (IF where = "test" THEN "no" ELSE where) /\ Mask(x)' \subseteq Mask(x)
      /\ Accepted(x)' = Accepted(x) /\ (Accepted(x) = "no" \/ owner[x] # server)
  BY <1>1, <1>2, <1>3, <1>4, <1>6, <1>7, GoServes
<1>9. /\ fd' = fd /\ entry' = entry /\ kernel' = kernel /\ avail' = avail /\ caller' = caller
      /\ log' = log /\ direct' = direct /\ instant' = instant /\ kind' = kind
      /\ owner' = owner /\ server' = server
      /\ inConnection'[x] => inConnection[x] /\ poller[p].at = "stop"
  <2>1. CASE StopWhileConnecting(p) BY <2>1 DEF StopWhileConnecting, drawn, socketVars
  <2>2. CASE Unset(p)
    <3>1. inConnection' = [inConnection EXCEPT ![x] = FALSE]
      BY <1>1, <2>2 DEF Unset, NoLongerConnecting
    <3>2. ~inConnection'[x] BY <1>2, <1>5, <3>1 DEF TypeOK
    <3>3. QED BY <2>2, <3>2 DEF Unset, drawn, epollVars
  <2>3. CASE SendSome(p) BY <1>1, <2>3 DEF SendSome, Flushing, drawn
  <2>4. QED BY <2>1, <2>2, <2>3
<1>10. poller[p].at = "stop" => inConnection' = inConnection /\ outBuffer' = outBuffer
  BY DEF StopWhileConnecting, Unset, SendSome, Flushing, socketVars
<1>11. /\ outBuffer'[x] \in Nat /\ outBuffer[x] \in Nat
       /\ outBuffer'[x] > 0 => outBuffer[x] > 0 /\ (interest'[x] = interest[x] \/ poller[p].at = "stop")
       /\ \A r \in Sockets : r # x => /\ interest'[r] = interest[r] /\ outBuffer'[r] = outBuffer[r]
                                      /\ inConnection'[r] = inConnection[r]
  <2>1. outBuffer[x] \in Nat /\ outBuffer \in [Sockets -> 0 .. MaxOut]
        /\ interest \in [Sockets -> SUBSET {"in", "out"}] /\ inConnection \in [Sockets -> BOOLEAN]
    BY <1>2, <1>5, SocketsAssumption DEF TypeOK
  <2>2. CASE StopWhileConnecting(p)
    BY <1>1, <1>5, <2>1, <2>2 DEF StopWhileConnecting, StopWrite, socketVars
  <2>3. CASE Unset(p) BY <1>1, <1>5, <2>1, <2>3 DEF Unset, NoLongerConnecting, epollVars
  <2>4. CASE SendSome(p)
    <3>1. PICK k \in 1 .. outBuffer[x] :
            /\ outBuffer' = [outBuffer EXCEPT ![x] = Left(x, k)]
            /\ interest' = StoppedIfEmpty(x, Left(x, k))
      BY <1>1, <2>4 DEF SendSome
    <3>2. Left(x, k) \in Nat /\ Left(x, k) = outBuffer[x] - k BY <2>1 DEF Left
    <3>3. outBuffer'[x] = Left(x, k) /\ \A r \in Sockets : r # x => outBuffer'[r] = outBuffer[r]
      BY <1>5, <2>1, <3>1
    <3>4. \A r \in Sockets : r # x => interest'[r] = interest[r]
      BY <2>1, <3>1 DEF StoppedIfEmpty, StopWrite
    <3>5. Left(x, k) > 0 => interest' = interest BY <3>1, <3>2 DEF StoppedIfEmpty
    <3>6. inConnection' = inConnection BY <2>4 DEF SendSome
    <3>7. Left(x, k) > 0 => outBuffer[x] > 0 BY <2>1, <3>2
    <3>8. QED BY <2>1, <3>2, <3>3, <3>4, <3>5, <3>6, <3>7
  <2>5. QED BY <2>2, <2>3, <2>4
<1>12. \A r \in Sockets : r # x => Kept(r) BY <1>9, <1>11 DEF Kept, SameLog
<1>13. SameLog(x) BY <1>9 DEF SameLog
<1>14. (Ended(x) <=> Ended(x)') /\ (Told(x) <=> Told(x)') BY <1>13, SameLogKeeps
<1>15. SockInv(x)'
  <2>1. UnbornInv(x)' BY <1>5, <1>9 DEF UnbornInv
  <2>2. KindInv(x)' BY <1>5, <1>8, <1>9 DEF SockInv, KindInv
  <2>3. DialInv(x)'
    <3>1. poller[p].at # "stop" => caller[x] \notin Dialing
      BY <1>1, <1>3, <1>4, NotDialing DEF BeforePeer
    <3>2. poller[p].at = "stop" => Served(x)' = "name" BY <1>6, <1>8
    <3>3. QED BY <1>5, <1>8, <1>9, <1>10, <3>1, <3>2 DEF SockInv, DialInv, BeforePeer
  <2>4. AcceptInv(x)'
    <3>1. Accepted(x) \notin {"acceptRegister", "acceptAdd"}
      BY <1>3, <1>5 DEF SockInv, AcceptInv
    <3>2. QED BY <1>8, <1>9, <3>1 DEF AcceptInv
  <2>5. EndInv(x)'
    <3>1. Served(x) \notin {"remove", "close"} /\ Served(x)' \notin {"remove", "close"}
      BY <1>3, <1>5, <1>8
    <3>2. QED BY <1>5, <1>9, <1>14, <3>1 DEF SockInv, EndInv
  <2>6. PeerInv(x)'
    <3>1. Served(x)' \in {"size", "stop", "name"} => inConnection'[x]
      <4>1. Served(x)' \in {"size", "stop", "name"} => poller[p].at = "stop" BY <1>6, <1>8
      <4>2. poller[p].at = "stop" => inConnection[x] BY <1>5 DEF SockInv, PeerInv
      <4>3. QED BY <1>10, <4>1, <4>2
    <3>2. kind[x] = "connector" /\ Told(x) /\ ~instant[x] => ~inConnection'[x]
      BY <1>5, <1>9 DEF SockInv, PeerInv
    <3>3. kind[x] = "connector" /\ outBuffer'[x] > 0 => Told(x)
      BY <1>5, <1>11 DEF SockInv, PeerInv
    <3>4. poller[p].at = "stop" /\ outBuffer'[x] > 0 => instant[x]
      <4>1. SUFFICES ASSUME poller[p].at = "stop", outBuffer'[x] > 0 PROVE instant[x]
        OBVIOUS
      <4>2. inConnection[x] BY <1>5, <4>1 DEF SockInv, PeerInv
      <4>3. kind[x] = "connector"
        <5>1. kind[x] \in Kinds BY <1>2, <1>5 DEF TypeOK
        <5>2. QED BY <1>5, <4>2, <5>1 DEF SockInv, KindInv, Kinds
      <4>4. QED BY <1>5, <3>3, <4>1, <4>2, <4>3 DEF SockInv, PeerInv
    <3>5. fd[x] = "open" /\ outBuffer'[x] > 0 /\ ~instant[x] => "out" \in interest'[x]
      BY <1>5, <1>11, <3>4 DEF SockInv, PeerInv
    <3>6. QED BY <1>9, <1>14, <3>1, <3>2, <3>3, <3>5 DEF PeerInv
  <2>7. QED BY <2>1, <2>2, <2>3, <2>4, <2>5, <2>6 DEF SockInv
<1>16. LogInv(x)' BY <1>3, <1>5, <1>13, LogKept
<1>17. QED BY <1>3, <1>5, <1>8, <1>12, <1>15, <1>16, Focus

\* A poller with no socket in hand tests the flag, or finds nothing ready.
LEMMA IdleStep ==
  ASSUME SocketInv, NEW p \in Pollers, TestTerminating(p) \/ EpollTimeout(p)
  PROVE  StepGoal
<1> USE DEF socketVars, epollVars, netVars, kernelVars, historyVars, At
<1>1. TypeOK /\ OwnInv /\ drawn' = drawn BY DEF SocketInv, TestTerminating, EpollTimeout
<1>2. poller[p].at \in {"test", "wait"} BY DEF TestTerminating, EpollTimeout
<1>3. poller[p].sock = NoSocket /\ poller[p] \in PollerStates
  BY <1>1, <1>2, PollerTypes DEF OwnInv, Serving, Accept
<1>4. PICK n \in PollerStates :
        /\ n.sock = NoSocket /\ n.at \notin Serving \cup Accept
        /\ poller' = [poller EXCEPT ![p] = n]
  <2>1. PICK where \in {"test", "wait", "exit"} : Go(p, where)
    BY DEF TestTerminating, EpollTimeout
  <2>2. CASE where = "test"
    BY <2>1, <2>2, IdleTypes DEF Go, Idle, Serving, Accept
  <2>3. CASE where # "test"
    <3>1. [poller[p] EXCEPT !.at = where] \in PollerStates
          /\ [poller[p] EXCEPT !.at = where].at = where
          /\ [poller[p] EXCEPT !.at = where].sock = NoSocket
      BY <1>3, <2>3 DEF PollerStates, Places
    <3>2. poller' = [poller EXCEPT ![p] = [poller[p] EXCEPT !.at = where]]
      BY <2>1, <2>3 DEF Go
    <3>3. where \notin Serving \cup Accept BY <2>3 DEF Serving, Accept
    <3>4. QED BY <3>1, <3>2, <3>3
  <2>4. QED BY <2>2, <2>3
<1>5. Lawful(p, n) BY <1>4 DEF Lawful
<1>6. OwnInv' /\ \A r \in Sockets : r # NoSocket => Same(r) BY <1>1, <1>3, <1>4, <1>5, Turn
<1>7. \A r \in Sockets : Same(r) BY <1>6, SocketsAssumption
<1>8. \A r \in Sockets : Kept(r) BY DEF TestTerminating, EpollTimeout, Kept, SameLog
<1>9. QED BY <1>1, <1>6, <1>7, <1>8, NoFocus

\* epoll_wait returns a socket that is ready.
LEMMA WaitStep ==
  ASSUME SocketInv, NEW p \in Pollers, NEW s \in Sockets, EpollWait(p, s)
  PROVE  StepGoal
<1> USE DEF socketVars, epollVars, netVars, kernelVars, historyVars, At
<1>1. TypeOK /\ OwnInv /\ SockInv(s) /\ LogInv(s) /\ drawn' = drawn BY DEF SocketInv, EpollWait
<1>2. PICK n : n = [Idle EXCEPT !.at = "lookup", !.sock = s, !.mask = Ready(s)] OBVIOUS
<1>3. n \in PollerStates /\ n.at = "lookup" /\ n.sock = s /\ n.mask = Ready(s)
  <2>1. Ready(s) \subseteq Watched BY DEF Ready, Watched
  <2>2. QED BY <1>2, <2>1, IdleTypes DEF PollerStates, Places
<1>4. "lookup" \in Serving BY DEF Serving
<1>5. poller' = [poller EXCEPT ![p] = n] /\ poller[p].at = "wait" /\ owner[s] = p /\ Ready(s) # {}
  BY <1>2 DEF EpollWait
<1>6. /\ OwnInv' /\ \A r \in Sockets : r # s => Same(r)
      /\ Served(s) = "no" /\ Served(s)' = "lookup" /\ Mask(s)' = Ready(s)
      /\ Accepted(s)' = Accepted(s)
  <2>1. n.at \in Serving /\ owner[s] = p BY <1>3, <1>4, <1>5
  <2>2. /\ OwnInv' /\ \A r \in Sockets : r # s => Same(r)
        /\ Served(s) = "no" /\ Served(s)' = n.at /\ Mask(s)' = n.mask
        /\ Accepted(s)' = Accepted(s)
    BY <1>1, <1>3, <1>5, <2>1, Take
  <2>3. QED BY <1>3, <2>2
<1>7. \A r \in Sockets : Kept(r) BY DEF EpollWait, Kept, SameLog
<1>8. (Ended(s) <=> Ended(s)') /\ (Told(s) <=> Told(s)') BY <1>7, SameLogKeeps DEF Kept
<1>9. fd[s] = "open" BY <1>5 DEF Ready, Open
<1>10. caller[s] \in Dialing => Ready(s) \subseteq {"out"}
  BY <1>1 DEF SockInv, DialInv, Ready, Lost
<1>11. SockInv(s)'
  <2> USE <1>7 DEF Kept, SameLog, drawn
  <2>1. UnbornInv(s)' BY <1>9 DEF UnbornInv
  <2>2. KindInv(s)' BY <1>1, <1>6 DEF SockInv, KindInv
  <2>3. DialInv(s)' BY <1>1, <1>6, <1>10 DEF SockInv, DialInv, BeforePeer
  <2>4. AcceptInv(s)' BY <1>1, <1>6 DEF SockInv, AcceptInv
  <2>5. EndInv(s)' BY <1>1, <1>6, <1>8 DEF SockInv, EndInv
  <2>6. PeerInv(s)' BY <1>1, <1>6, <1>8 DEF SockInv, PeerInv
  <2>7. QED BY <2>1, <2>2, <2>3, <2>4, <2>5, <2>6 DEF SockInv
<1>12. LogInv(s)' BY <1>1, <1>7, LogKept DEF Kept
<1>13. QED BY <1>1, <1>6, <1>7, <1>11, <1>12, Focus

\* accept() returns a new socket.
LEMMA NewAcceptedStep ==
  ASSUME SocketInv, NEW p \in Pollers, NEW s \in Acceptors, AcceptNew(p, s)
  PROVE  StepGoal
<1> USE DEF socketVars, epollVars, netVars, kernelVars, historyVars, At
<1>1. s \in Sockets /\ kind[s] = "acceptor" BY DEF Acceptors
<1>2. TypeOK /\ OwnInv /\ SockInv(s) /\ LogInv(s) /\ drawn' = drawn
  BY <1>1 DEF SocketInv, AcceptNew
<1>3. PICK n : n = [Idle EXCEPT !.at = "acceptRegister", !.sock = s] OBVIOUS
<1>4. n \in PollerStates /\ n.at = "acceptRegister" /\ n.sock = s
  BY <1>1, <1>3, IdleTypes DEF PollerStates, Places
<1>5. "acceptRegister" \in Accept BY DEF Accept
<1>6. poller' = [poller EXCEPT ![p] = n] /\ poller[p].at = "wait" /\ server = p /\ fd[s] = "none"
  BY <1>3 DEF AcceptNew
<1>7. /\ OwnInv' /\ \A r \in Sockets : r # s => Same(r)
      /\ Accepted(s)' = "acceptRegister" /\ Served(s)' = Served(s) /\ Mask(s)' = Mask(s)
  BY <1>1, <1>2, <1>4, <1>5, <1>6, Take
<1>8. \A r \in Sockets : r # s => Kept(r) BY <1>2 DEF TypeOK, AcceptNew, Kept, SameLog
<1>9. /\ fd'[s] = "open" /\ inConnection' = inConnection /\ outBuffer' = outBuffer
      /\ entry' = entry /\ caller' = caller /\ log' = log /\ direct' = direct
      /\ instant' = instant /\ kind' = kind
  BY <1>1, <1>2 DEF TypeOK, AcceptNew, drawn
<1>10. log[s] = <<>> /\ outBuffer[s] = 0 /\ ~entry[s] /\ Served(s) = "no" /\ caller[s] = "start"
  BY <1>1, <1>2, <1>6 DEF SockInv, UnbornInv, KindInv
<1>11. ~Ended(s)' /\ ~Told(s)'
  <2>1. Heard(s)' = {} BY <1>9, <1>10 DEF Heard
  <2>2. QED BY <2>1 DEF Ended, Told
<1>12. SockInv(s)'
  BY <1>1, <1>2, <1>7, <1>9, <1>10, <1>11
     DEF SockInv, UnbornInv, KindInv, DialInv, AcceptInv, EndInv, PeerInv, Dialing
<1>13. LogInv(s)' BY <1>9, <1>10 DEF LogInv
<1>14. QED BY <1>1, <1>2, <1>7, <1>8, <1>12, <1>13, Focus

\* The registrations of an accepted socket.
LEMMA AcceptRegisterStep ==
  ASSUME SocketInv, NEW p \in Pollers, AcceptRegister(p) \/ AcceptAdd(p)
  PROVE  StepGoal
<1> USE DEF socketVars, epollVars, netVars, kernelVars, historyVars, At
<1>1. PICK x : x = poller[p].sock OBVIOUS
<1>2. TypeOK /\ OwnInv /\ drawn' = drawn BY DEF SocketInv, AcceptRegister, AcceptAdd
<1>3. PICK where \in {"acceptAdd", "acceptTell"} :
        /\ Go(p, where)
        /\ where = "acceptAdd" => entry' = entry
        /\ where = "acceptAdd" \/ poller[p].at = "acceptAdd"
  BY DEF AcceptRegister, AcceptAdd, AfterAdd
<1>4. poller[p].at \in {"acceptRegister", "acceptAdd"} BY DEF AcceptRegister, AcceptAdd
<1>5. PICK n : n = [poller[p] EXCEPT !.at = where] OBVIOUS
<1>6. n \in PollerStates /\ n.at = where /\ n.sock = x /\ n # Idle
  <2>1. poller[p] \in PollerStates BY <1>2, PollerTypes
  <2>2. n \in PollerStates /\ n.at = where /\ n.sock = x
    BY <1>1, <1>5, <2>1 DEF PollerStates, Places
  <2>3. QED BY <2>2 DEF Idle
<1>7. poller' = [poller EXCEPT ![p] = n] BY <1>3, <1>5 DEF Go
<1>8. /\ OwnInv' /\ x \in Sockets /\ \A r \in Sockets : r # x => Same(r)
      /\ Accepted(x) = poller[p].at /\ Accepted(x)' = where
      /\ Served(x)' = Served(x) /\ Mask(x)' = Mask(x)
      /\ Served(x) = "no" \/ owner[x] # server
  BY <1>1, <1>2, <1>4, <1>6, <1>7, AcceptOn DEF Accept
<1>9. SockInv(x) /\ LogInv(x) BY <1>8 DEF SocketInv
<1>10. \A r \in Sockets : r # x => Kept(r)
  BY <1>1, <1>2 DEF TypeOK, AcceptRegister, AcceptAdd, Kept, SameLog
<1>11. /\ fd' = fd /\ inConnection' = inConnection /\ outBuffer' = outBuffer /\ kernel' = kernel
       /\ avail' = avail /\ caller' = caller /\ log' = log /\ direct' = direct
       /\ instant' = instant /\ kind' = kind /\ owner' = owner /\ server' = server
  BY DEF AcceptRegister, AcceptAdd, drawn
<1>12. /\ fd[x] = "open" /\ log[x] = <<>> /\ ~entry[x] /\ outBuffer[x] = 0
       /\ Served(x) \in {"no", "lookup"}
  BY <1>4, <1>8, <1>9 DEF SockInv, AcceptInv
<1>13. ~Ended(x) /\ ~Ended(x)' /\ ~Told(x)'
  <2>1. Heard(x) = {} /\ Heard(x)' = {} BY <1>11, <1>12 DEF Heard
  <2>2. QED BY <2>1 DEF Ended, Told
<1>14. SockInv(x)'
  <2>1. UnbornInv(x)' BY <1>11, <1>12 DEF UnbornInv
  <2>2. KindInv(x)' BY <1>8, <1>9, <1>4, <1>11 DEF SockInv, KindInv
  <2>3. DialInv(x)' BY <1>8, <1>9, <1>11 DEF SockInv, DialInv
  <2>4. AcceptInv(x)' BY <1>3, <1>8, <1>11, <1>12 DEF AcceptInv
  <2>5. EndInv(x)' BY <1>8, <1>9, <1>11, <1>12, <1>13 DEF SockInv, EndInv
  <2>6. PeerInv(x)' BY <1>8, <1>9, <1>11, <1>12, <1>13 DEF SockInv, PeerInv
  <2>7. QED BY <2>1, <2>2, <2>3, <2>4, <2>5, <2>6 DEF SockInv
<1>15. LogInv(x)' BY <1>11, <1>12 DEF LogInv
<1>16. QED BY <1>2, <1>8, <1>10, <1>14, <1>15, Focus

\* Accepted is passed after the container has the socket, so that the poller that serves it
\* may have served and lost it.
LEMMA AcceptTellStep ==
  ASSUME SocketInv, NEW p \in Pollers, AcceptTell(p)
  PROVE  StepGoal
<1> USE DEF socketVars, epollVars, netVars, kernelVars, historyVars, At
<1>1. PICK x : x = poller[p].sock OBVIOUS
<1>2. TypeOK /\ OwnInv /\ drawn' = drawn BY DEF SocketInv, AcceptTell
<1>3. poller[p].at = "acceptTell" /\ Pass(x, "Accepted") BY <1>1 DEF AcceptTell
<1>4. PICK n : n = Idle OBVIOUS
<1>5. poller' = [poller EXCEPT ![p] = n] /\ n \in PollerStates
  BY <1>4, IdleTypes DEF AcceptTell, Go
<1>6. /\ OwnInv' /\ x \in Sockets /\ \A r \in Sockets : r # x => Same(r)
      /\ Accepted(x) = "acceptTell" /\ Accepted(x)' = "no"
      /\ Served(x)' = Served(x) /\ Mask(x)' = Mask(x)
  BY <1>1, <1>2, <1>3, <1>4, <1>5, AcceptOn DEF Accept
<1>7. SockInv(x) /\ LogInv(x) BY <1>6 DEF SocketInv
<1>8. "Accepted" \in Notices /\ "Accepted" \notin Last BY DEF Notices, Last
<1>9. /\ \A r \in Sockets : r # x => log'[r] = log[r]
      /\ Heard(x)' = Heard(x) \cup {"Accepted"}
  BY <1>2, <1>3, <1>6, <1>8, PassLog
<1>10. /\ fd' = fd /\ inConnection' = inConnection /\ outBuffer' = outBuffer /\ entry' = entry
       /\ interest' = interest /\ kernel' = kernel /\ avail' = avail /\ caller' = caller
       /\ direct' = direct /\ instant' = instant
       /\ kind' = kind /\ owner' = owner /\ server' = server
  BY DEF AcceptTell, drawn
<1>11. \A r \in Sockets : r # x => Kept(r) BY <1>9, <1>10 DEF Kept, SameLog
<1>12. (Ended(x) <=> Ended(x)') /\ (Told(x) <=> Told(x)') BY <1>8, <1>9 DEF Ended, Told
<1>13. kind[x] # "connector" /\ kind[x] \in Kinds
  BY <1>2, <1>6, <1>7 DEF SockInv, KindInv, TypeOK
<1>14. caller[x] = "start" /\ fd[x] # "none"
  BY <1>6, <1>7, <1>13 DEF SockInv, KindInv, UnbornInv, Kinds
<1>15. SockInv(x)'
  <2>1. UnbornInv(x)' /\ DialInv(x)' BY <1>10, <1>14 DEF UnbornInv, DialInv, Dialing
  <2>2. KindInv(x)' BY <1>6, <1>7, <1>10 DEF SockInv, KindInv
  <2>3. AcceptInv(x)' BY <1>6 DEF AcceptInv
  <2>4. EndInv(x)' BY <1>6, <1>7, <1>10, <1>12 DEF SockInv, EndInv
  <2>5. PeerInv(x)' BY <1>6, <1>7, <1>10, <1>12 DEF SockInv, PeerInv
  <2>6. QED BY <2>1, <2>2, <2>3, <2>4, <2>5 DEF SockInv
<1>16. LogInv(x)'
  <2>1. Ended(x) => owner[x] # server
    <3>1. Ended(x) => log[x] # <<>> BY HeardNotEmpty DEF Ended
    <3>2. QED BY <1>6, <1>7, <3>1 DEF SockInv, AcceptInv
  <2>2. ~IsAnswer("Accepted") BY DEF IsAnswer
  <2>3. QED BY <1>2, <1>3, <1>6, <1>7, <1>8, <1>10, <2>1, <2>2, PassInOrder
<1>17. QED BY <1>2, <1>6, <1>11, <1>15, <1>16, Focus

-----------------------------------------------------------------------------
(* The invariant and what follows from it *)

LEMMA InitSocketInv == Init => SocketInv
<1> SUFFICES ASSUME Init PROVE SocketInv
    OBVIOUS
<1>1. TypeOK BY InitTypes
<1>2. \A p \in Pollers : poller[p].at \in {"test", "exit"} /\ poller[p].sock = NoSocket
  BY DEF Init, Idle, NotStarted
<1>3. OwnInv BY <1>2 DEF OwnInv, Serving, Accept
<1>4. ASSUME NEW s \in Sockets PROVE SockInv(s) /\ LogInv(s)
  <2>1. /\ fd[s] = "none" /\ ~inConnection[s] /\ outBuffer[s] = 0 /\ ~entry[s]
        /\ kernel[s] = "fresh" /\ ~avail[s] /\ caller[s] = "start" /\ log[s] = <<>>
    BY DEF Init
  <2>2. owner[s] \in Pollers /\ server \in Pollers BY <1>1 DEF TypeOK
  <2>3. Served(s) = "no" /\ Accepted(s) = "no"
    BY <1>2, <2>2 DEF Served, Accepted, Serving, Accept
  <2>4. ~Ended(s) /\ ~Told(s)
    <3>1. Heard(s) = {} BY <2>1 DEF Heard
    <3>2. QED BY <3>1 DEF Ended, Told
  <2>5. SockInv(s)
    BY <2>1, <2>3, <2>4
       DEF SockInv, UnbornInv, KindInv, DialInv, AcceptInv, EndInv, PeerInv, Dialing
  <2>6. LogInv(s) BY <2>1 DEF LogInv
  <2>7. QED BY <2>5, <2>6
<1>5. QED BY <1>1, <1>3, <1>4 DEF SocketInv

LEMMA NextSocketInv == SocketInv /\ [Next]_vars => SocketInv'
<1> SUFFICES ASSUME SocketInv, [Next]_vars PROVE SocketInv'
    OBVIOUS
<1>1. TypeOK' BY TypeStep DEF SocketInv
<1>2. StepGoal
  <2>1. ASSUME NEW s \in Connectors,
               SocketFails(s) \/ NewConnector(s) \/ AddToConnectTCP(s) \/ Resolve(s)
        PROVE  StepGoal
    BY <2>1, AskStep, RegisterStep, ConnectStep, TellStep, UndoStep, KernelStep
       DEF AddToConnectTCP, Connectors
  <2>2. ASSUME NEW p \in Pollers, Handle(p) \/ SendWouldBlock(p) PROVE StepGoal
    <3>1. CASE TestTerminating(p) \/ EpollTimeout(p) BY <3>1, IdleStep
    <3>2. CASE Lookup(p) \/ SendWouldBlock(p) BY <3>2, QuietStep
    <3>3. CASE CloseRemove(p) \/ CloseClose(p) BY <3>3, ClosingStep
    <3>4. CASE OnEPOLLERR(p) BY <3>4, QuietStep, CloserStep
    <3>5. CASE OnEPOLLIN(p) BY <3>5, QuietStep, CloserStep, TellingStep DEF OnEPOLLIN
    <3>6. CASE OnEPOLLOUT(p)
      BY <3>6, QuietStep, CloserStep, TellingStep, OutputStep DEF OnEPOLLOUT
    <3>7. CASE Accepting(p) BY <3>7, AcceptRegisterStep, AcceptTellStep DEF Accepting
    <3>8. QED BY <2>2, <3>1, <3>2, <3>3, <3>4, <3>5, <3>6, <3>7 DEF Handle
  <2>3. ASSUME NEW p \in Pollers, NEW s \in Sockets, EpollWait(p, s) PROVE StepGoal
    BY <2>3, WaitStep
  <2>4. ASSUME NEW p \in Pollers, NEW s \in Acceptors, AcceptNew(p, s) PROVE StepGoal
    BY <2>4, NewAcceptedStep
  <2>5. ASSUME NEW s \in Sockets, User(s) \/ Peer(s) PROVE StepGoal
    BY <2>5, UserStep, KernelStep
  <2>6. CASE BindFails \/ Listen \/ Terminate \/ Join \/ vars' = vars BY <2>6, ServiceStep
  <2>7. QED BY <2>1, <2>2, <2>3, <2>4, <2>5, <2>6 DEF Next
<1>3. QED BY <1>1, <1>2 DEF SocketInv, StepGoal

\* The invariant holds in every state.
THEOREM SocketInvariant == Spec => []SocketInv
  BY InitSocketInv, NextSocketInv, PTL DEF Spec

\* Every variable has its type: in particular a poller in worker handles a socket or none, and
\* the bytes in an output buffer stay within their bound.
THEOREM TypeCorrect == Spec => []TypeOK
<1>1. SocketInv => TypeOK BY DEF SocketInv
<1>2. QED BY <1>1, SocketInvariant, PTL

\* A set of positions any two of which are equal has one member at most.
LEMMA AtMostOne ==
  ASSUME NEW S, \A i, j \in S : i = j PROVE Cardinality(S) <= 1
<1>1. CASE S = {} BY <1>1, FS_EmptySet
<1>2. CASE S # {}
  <2>1. PICK i \in S : TRUE BY <1>2
  <2>2. S = {i} BY <2>1
  <2>3. Cardinality({i}) = 1 BY FS_Singleton, Zenon
  <2>4. Cardinality(S) = 1 BY <2>2, <2>3
  <2>5. QED BY <2>4
<1>3. QED BY <1>1, <1>2

\* on_AddToConnectTCP and EPOLLOUT: one answer per connection attempt, whatever the poller, the
\* thread that asks and the users of the socket do in between.
THEOREM OneAnswerHolds == Spec => []OneAnswer
<1>1. SocketInv => OneAnswer
  <2>1. SUFFICES ASSUME SocketInv, NEW s \in Connectors, ~instant[s]
                 PROVE  Cardinality({i \in DOMAIN log[s] :
                                        log[s][i] \in {"Connected", "ConnectFailed"}}) <= 1
    BY DEF OneAnswer
  <2>2. kind[s] = "connector" /\ LogInv(s) BY <2>1 DEF Connectors, SocketInv
  <2>3. \A i, j \in {k \in DOMAIN log[s] : log[s][k] \in {"Connected", "ConnectFailed"}} : i = j
    BY <2>1, <2>2 DEF LogInv, IsAnswer
  <2>4. QED BY <2>3, AtMostOne
<1>2. QED BY <1>1, SocketInvariant, PTL

\* closeSocket and the error path of on_AddToConnectTCP: nothing is passed for a socket after
\* its end, in the handling of the same epoll event or of a later one.
THEOREM EndIsLastHolds == Spec => []EndIsLast
<1>1. SocketInv => EndIsLast BY DEF SocketInv, LogInv, EndIsLast
<1>2. QED BY <1>1, SocketInvariant, PTL

\* closeSocket: the service tells of every socket that it closes, and removes it from the
\* container before it does.
THEOREM ClosedIsToldHolds == Spec => []ClosedIsTold
<1>1. SocketInv => ClosedIsTold BY DEF SocketInv, SockInv, EndInv, Ended, ClosedIsTold
<1>2. QED BY <1>1, SocketInvariant, PTL

\* write_ and onEPOLLOUT: bytes in the buffer of an open socket are watched for.
THEOREM OutputIsWatchedHolds == Spec => []OutputIsWatched
<1>1. SocketInv => OutputIsWatched
  BY DEF SocketInv, SockInv, PeerInv, OutputIsWatched, Open
<1>2. QED BY <1>1, SocketInvariant, PTL
=============================================================================
