------------------------------ MODULE Referrer ------------------------------
(* A node of the tree of referrers, modules/dfsReferrer.  A node that is not   *)
(* a top server looks for an uplink: it pings the neighbours it remembers, or  *)
(* else the top servers (D2, D21), asks the first that answers for referrers   *)
(* (D3), pings those (D31) and maintains a connection with one that answers    *)
(* (D6).  Connections accepted from below become its downlinks.  Alarms move   *)
(* it on when answers fail to come.                                            *)
(*                                                                             *)
(* The service has a listener of one thread, so an action is a whole handler.  *)
(* An attempt is what begins with D2: pongs and ticks carry the number of the  *)
(* attempt they belong to, those of an earlier one are dropped, and here they  *)
(* are forgotten as the next attempt begins.  Requests to RPC and answers of   *)
(* peers may be lost, so nothing that is on its way must ever arrive.          *)
EXTENDS TimerHelper

CONSTANTS
  Tops,      \* addresses of the top servers, saCapsFromConfig
  Nodes,     \* addresses of other nodes
  Incoming,  \* ids of the connections that peers below make to this node
  Sees,      \* Sees[p]: the name under which p sees this node
  Closed     \* the id of a socket record that is closed, -1

Peers == Tops \cup Nodes
Ids == Incoming \cup {Closed}

ASSUME ReferrerAssumption ==
  /\ Tops \cap Nodes = {}
  /\ Closed \notin Incoming

VARIABLES
  stage,       \* rd.stage; "off" before startService
  uplink,      \* uplinkConnectionState->uplink
  ponged,      \* ponged_all: who has answered in this attempt
  neighbours,  \* rd.neighbours, kept in the configuration's database
  downlinks,   \* rd.urirefs->m_downlinks, by id of the socket
  pings,       \* pings of this attempt that may still be answered
  asked,       \* whom GetReferrersREQ went to that may still answer
  conn,        \* conn[d]: the record of socket d
  waiting,     \* connections with a ping in this listener's queue
  notices,     \* connections with a Disaccepted in this listener's queue
  told,        \* what the subscriber has last been told of the uplink
  silent,      \* history: an uplink was given up and nobody told
  overtaken,   \* history: T_020 ticked after it was stopped
  once         \* history: downlinks that have not pinged again in this attempt

search == <<stage, uplink, ponged, neighbours, pings, asked>>
links  == <<downlinks, conn, waiting, notices, once>>
vars   == <<search, links, armed, late, told, silent, overtaken>>

Alarms ==
  ({"T_001", "T_002", "T_012", "T_020", "T_040"} \X {None})
    \cup ({"T_007", "T_008", "T_009"} \X Peers)
    \cup ({"T_011"} \X Ids)

TypeOK ==
  /\ stage \in {"off", "D2", "D21", "D3", "D31", "D6"}
  /\ uplink \subseteq Peers
  /\ ponged \subseteq Peers
  /\ neighbours \subseteq Peers
  /\ downlinks \subseteq Ids
  /\ armed \subseteq Alarms
  /\ late \subseteq Alarms
  /\ pings \subseteq Peers \X {"cached", "short", "long"}
  /\ asked \subseteq Peers
  /\ conn \in [Incoming -> {"open", "going", "closed"}]
  /\ waiting \subseteq Incoming
  /\ notices \subseteq Incoming
  /\ told \in {"unsubscribed", "nothing", "up", "down"}
  /\ silent \in BOOLEAN
  /\ overtaken \in BOOLEAN
  /\ once \subseteq Incoming

Init ==
  /\ stage = "off"
  /\ uplink = {}
  /\ ponged = {}
  /\ neighbours \in SUBSET Peers
  /\ downlinks = {}
  /\ armed = {}
  /\ late = {}
  /\ pings = {}
  /\ asked = {}
  /\ conn = [d \in Incoming |-> "open"]
  /\ waiting = {}
  /\ notices = {}
  /\ told = "unsubscribed"
  /\ silent = FALSE
  /\ overtaken = FALSE
  /\ once = {}

-----------------------------------------------------------------------------
(* The stages.                                                                 *)

Cached(ps) == ps \X {"cached"}

\* What D2 arms before it pings the neighbours.
D2AlarmsOfNeighboursOnly == {Alarm("T_040")}
D2Alarms == {Alarm("T_001"), Alarm("T_040")}

\* STAGE_D2_PING_NEIGHBOURS_start, with STAGE_D21_PING_CAPS_start where there
\* are no neighbours.  A new _uplinkConnectionState, a new number of attempt.
\* All downlinks there still are lose T_011, an alarm of the attempt before.
D2Start ==
  /\ uplink' = {}
  /\ ponged' = {}
  /\ neighbours' = {}
  /\ late' = {}
  /\ overtaken' = FALSE
  /\ once' = downlinks' \cap Incoming
  /\ \/ /\ neighbours # {}
        /\ stage' = "D2"
        /\ armed' = D2Alarms
        /\ pings' = Cached(neighbours \ Tops)
     \/ /\ neighbours = {}
        /\ stage' = "D21"
        /\ armed' = {Alarm("T_001")}
        /\ pings' = Cached(Tops)

\* d4_uplink_mode, on_connectionEstablished, registerReferrer and d6_start: p,
\* which has ponged, becomes an uplink; a and l are the alarms before, `others`
\* is stopped as well.  The connections to others that have ponged are closed,
\* whereby pings to them are lost, as they may be at any time.
Establish(p, a, l, others) ==
  /\ stage' = "D6"
  /\ uplink' = uplink \cup {p}
  /\ told' = IF told = "unsubscribed" THEN told ELSE "up"
  /\ silent' = FALSE
  /\ SetAlarms(a, l, others \cup {Alarm("T_001")},
               {Alarm("T_012"), AlarmOf("T_007", p)})

\* The two loops over ponged_all: somebody whose name for this node is not
\* that of a top server, or else anybody.  Pings differ in time at random.
Choosable ==
  LET plain == {p \in ponged : Sees[p] \notin Tops}
  IN  IF plain # {} THEN plain ELSE ponged

\* on_startService of a node that is not a top server.
OnStartService ==
  /\ stage = "off"
  /\ UNCHANGED <<downlinks, conn, waiting, notices, asked, told, silent>>
  /\ D2Start

-----------------------------------------------------------------------------
(* Pongs and the answer of a top server, handleEvent and on_Pong.              *)

\* What every pong of the present attempt does first.
NotePong(p, kind) ==
  /\ <<p, kind>> \in pings
  /\ ponged' = ponged \cup {p}
  /\ neighbours' = neighbours \cup {p}

\* D2 goes on with the first node that answers, D21 with the first top server.
Awaited(p) ==
  \/ stage = "D2" /\ p \notin Tops
  \/ stage = "D21" /\ p \in Tops

\* STAGE_D3_GET_GEFERRERS_start
OnPongStartsD3(p) ==
  /\ NotePong(p, "cached")
  /\ Awaited(p)
  /\ stage' = "D3"
  /\ asked' = asked \cup {p}
  /\ pings' = pings \ {<<p, "cached">>}
  /\ SetAlarms(armed, late, {}, {Alarm("T_001"), Alarm("T_002")})
  /\ UNCHANGED <<links, uplink, told, silent, overtaken>>

\* Who may become the uplink when p answers in D31: nodes that see this one
\* under the same name, or else the top server that comes first.
SeenAlike(p) == {q \in (ponged \cup {p}) \ Tops : Sees[q] = Sees[p]}
Candidates(p) ==
  IF SeenAlike(p) # {} THEN SeenAlike(p) ELSE (ponged \cup {p}) \cap Tops

\* The uplink is found before T_020 has ticked.
NotStoppedByPong == {}
StoppedByPong == {Alarm("T_020")}

\* on_Pong, PT_CACHED in D31.
OnPongInD31(p) ==
  /\ stage = "D31"
  /\ NotePong(p, "cached")
  /\ \E q \in Candidates(p) :
       /\ Sees[q] = Sees[p]
       /\ Establish(q, armed, late, StoppedByPong)
       /\ pings' = (pings \ {<<p, "cached">>}) \cup {<<q, "short">>}
  /\ UNCHANGED <<links, asked, overtaken>>

\* The top server that comes first sees this node under another name: an
\* exception ends the handler.
OnPongThrows(p) ==
  /\ stage = "D31"
  /\ NotePong(p, "cached")
  /\ \E q \in Candidates(p) : Sees[q] # Sees[p]
  /\ pings' = pings \ {<<p, "cached">>}
  /\ UNCHANGED <<links, stage, uplink, asked, armed, late, told, silent, overtaken>>

\* PT_CACHED in a stage that does not wait for it.
OnPongUnawaited(p) ==
  /\ NotePong(p, "cached")
  /\ ~Awaited(p)
  /\ stage # "D31"
  /\ pings' = pings \ {<<p, "cached">>}
  /\ UNCHANGED <<links, stage, uplink, asked, armed, late, told, silent, overtaken>>

\* d6_on_pong_PT_CAPS_SHORT
ResetByShortPongOnce(p) == {AlarmOf("T_008", p)}
ResetByShortPong(p) == {AlarmOf("T_008", p), AlarmOf("T_009", p)}
OnPongShort(p) ==
  /\ NotePong(p, "short")
  /\ pings' = pings \ {<<p, "short">>}
  /\ SetAlarms(armed, late,
               {AlarmOf("T_007", p), AlarmOf("T_008", p), AlarmOf("T_009", p)},
               ResetByShortPong(p))
  /\ UNCHANGED <<links, stage, uplink, asked, told, silent, overtaken>>

\* d6_on_pong_PT_CAPS_LONG
OnPongLong(p) ==
  /\ NotePong(p, "long")
  /\ pings' = pings \ {<<p, "long">>}
  /\ SetAlarms(armed, late, {}, {AlarmOf("T_008", p), AlarmOf("T_009", p)})
  /\ UNCHANGED <<links, stage, uplink, asked, told, silent, overtaken>>

OnPong(p) ==
  \/ OnPongStartsD3(p)
  \/ OnPongInD31(p)
  \/ OnPongThrows(p)
  \/ OnPongUnawaited(p)
  \/ OnPongShort(p)
  \/ OnPongLong(p)

\* GetReferrersRSP without addresses: whoever has ponged.  The answer does not
\* say which attempt asked.
OnNoReferrers(p) ==
  /\ p \in asked
  /\ asked' = asked \ {p}
  /\ stage = "D3"
  /\ \E q \in Choosable :
       /\ Establish(q, armed \cup {Alarm("T_001")}, late, {Alarm("T_002")})
       /\ pings' = pings \cup {<<q, "short">>}
  /\ UNCHANGED <<links, ponged, neighbours, overtaken>>

\* GetReferrersRSP with the addresses rs.
OnReferrers(p, rs) ==
  /\ p \in asked
  /\ asked' = asked \ {p}
  /\ stage = "D3"
  /\ stage' = "D31"
  /\ pings' = pings \cup Cached(rs)
  /\ SetAlarms(armed, late, {Alarm("T_002")}, {Alarm("T_001"), Alarm("T_020")})
  /\ UNCHANGED <<links, uplink, ponged, neighbours, told, silent, overtaken>>

\* GetReferrersRSP in any other stage.
OnReferrersTooLate(p) ==
  /\ p \in asked
  /\ stage # "D3"
  /\ asked' = asked \ {p}
  /\ UNCHANGED <<links, stage, uplink, ponged, neighbours, pings,
                 armed, late, told, silent, overtaken>>

-----------------------------------------------------------------------------
(* Alarms, on_TickAlarm.                                                       *)

\* T_001: the attempt has taken too long.  An uplink there may be is given up
\* without a word.
TickCommonFailed ==
  /\ Ticks(Alarm("T_001"))
  /\ silent' = (silent \/ uplink # {})
  /\ UNCHANGED <<downlinks, conn, waiting, notices, asked, told>>
  /\ D2Start

\* T_002: no answer to GetReferrersREQ.
TickNoReferrers ==
  LET k == Alarm("T_002") IN
  /\ Ticks(k)
  /\ stage = "D3"
  /\ \E q \in Choosable :
       /\ Establish(q, ArmedAfter(k), LateAfter(k), {})
       /\ pings' = pings \cup {<<q, "short">>}
  /\ UNCHANGED <<links, ponged, neighbours, asked, overtaken>>

\* T_020: none of the referrers that were named has answered in time.  The
\* stage is not looked at.
TickNobodyNamedAnswers ==
  LET k == Alarm("T_020") IN
  /\ Ticks(k)
  /\ \E q \in Choosable :
       /\ Establish(q, ArmedAfter(k), LateAfter(k), {})
       /\ pings' = pings \cup {<<q, "short">>}
  /\ overtaken' = (overtaken \/ k \in late)
  /\ UNCHANGED <<links, ponged, neighbours, asked>>

\* T_040: no neighbour has answered in time, STAGE_D21_PING_CAPS_start.
TickNoNeighbour ==
  LET k == Alarm("T_040") IN
  /\ Ticks(k)
  /\ stage = "D2"
  /\ stage' = "D21"
  /\ pings' = pings \cup Cached(Tops)
  /\ SetAlarms(ArmedAfter(k), LateAfter(k), {}, {Alarm("T_001")})
  /\ UNCHANGED <<links, uplink, ponged, neighbours, asked, told, silent, overtaken>>

\* T_007: ping p again, and again, until it answers.
TickPingShort(p) ==
  LET k == AlarmOf("T_007", p) IN
  /\ Ticks(k)
  /\ pings' = pings \cup {<<p, "short">>}
  /\ SetAlarms(ArmedAfter(k), LateAfter(k), {}, {k})
  /\ UNCHANGED <<links, stage, uplink, ponged, neighbours, asked, told, silent, overtaken>>

\* T_008: ping p, which has answered before.
TickPingLong(p) ==
  /\ Ticks(AlarmOf("T_008", p))
  /\ stage = "D6"
  /\ TakeTick(AlarmOf("T_008", p))
  /\ pings' = pings \cup {<<p, "long">>}
  /\ UNCHANGED <<links, stage, uplink, ponged, neighbours, asked, told, silent, overtaken>>

\* T_009: p has not answered for too long, d6_on_disconnected.  Unlike
\* LinkLost it tells nobody and keeps the downlinks.
TickPongTimedOut(p) ==
  /\ Ticks(AlarmOf("T_009", p))
  /\ p \in uplink
  /\ silent' = TRUE
  /\ UNCHANGED <<downlinks, conn, waiting, notices, asked, told>>
  /\ D2Start

\* T_011: a downlink has stopped to ping, on_deleteDownlink.
TickDownlink(id) ==
  /\ Ticks(AlarmOf("T_011", id))
  /\ TakeTick(AlarmOf("T_011", id))
  /\ downlinks' = downlinks \ {id}
  /\ once' = once \ {id}
  /\ UNCHANGED <<search, conn, waiting, notices, told, silent, overtaken>>

\* T_012: registerReferrer again, at the first of the uplinks.
TickRegister ==
  LET k == Alarm("T_012") IN
  /\ Ticks(k)
  /\ uplink # {}
  /\ SetAlarms(ArmedAfter(k), LateAfter(k), {}, {k})
  /\ UNCHANGED <<search, links, told, silent, overtaken>>

\* A tick that comes in a stage that has no use for it.
TickUseless(k) ==
  /\ Ticks(k)
  /\ \/ k = Alarm("T_002") /\ stage # "D3"
     \/ k = Alarm("T_040") /\ stage # "D2"
  /\ TakeTick(k)
  /\ UNCHANGED <<search, links, told, silent, overtaken>>

OnTickAlarm ==
  \/ TickCommonFailed
  \/ TickNoReferrers
  \/ TickNobodyNamedAnswers
  \/ TickNoNeighbour
  \/ \E p \in Peers : TickPingShort(p) \/ TickPingLong(p) \/ TickPongTimedOut(p)
  \/ \E id \in Ids : TickDownlink(id)
  \/ TickRegister
  \/ \E t \in {"T_002", "T_040"} : TickUseless(Alarm(t))

-----------------------------------------------------------------------------
(* The uplink is lost, and the connections from below.                         *)

DownlinksKept == downlinks
DownlinksAfterLoss == {}

\* on_Disconnected and on_ConnectFailed of an uplink: d4_on_disconnected tells
\* the subscriber, closes and forgets the downlinks and begins anew.
LinkLost(p) ==
  /\ p \in uplink
  /\ told' = IF told = "unsubscribed" THEN told ELSE "down"
  /\ conn' = [d \in Incoming |-> IF d \in downlinks THEN "closed" ELSE conn[d]]
  /\ downlinks' = DownlinksAfterLoss
  /\ D2Start
  /\ UNCHANGED <<waiting, notices, asked, silent>>

\* on_SubscribeNotifications, of one subscriber.
OnSubscribeNotifications ==
  /\ told = "unsubscribed"
  /\ told' = IF uplink # {} THEN "up" ELSE "nothing"
  /\ UNCHANGED <<search, links, armed, late, silent, overtaken>>

\* The poller passes a ping of d up, and RPC queues it here.
PingArrives(d) ==
  /\ conn[d] = "open"
  /\ waiting' = waiting \cup {d}
  /\ UNCHANGED <<search, armed, late, downlinks, conn, notices, once, told, silent, overtaken>>

\* The peer ends connection d: the poller's closeSocket passes Disaccepted,
\* which is queued here, and closes the record after that.
PeerLeaves(d) ==
  /\ conn[d] = "open"
  /\ conn' = [conn EXCEPT ![d] = "going"]
  /\ notices' = notices \cup {d}
  /\ UNCHANGED <<search, armed, late, downlinks, waiting, once, told, silent, overtaken>>

PollerCloses(d) ==
  /\ conn[d] = "going"
  /\ conn' = [conn EXCEPT ![d] = "closed"]
  /\ UNCHANGED <<search, armed, late, downlinks, waiting, notices, once, told, silent, overtaken>>

\* esi->m_id, read from the record that the event points to.
IdOf(d) == IF conn[d] = "closed" THEN Closed ELSE d

\* on_IncomingOnAcceptor resets T_011 of a downlink that pings again.
NoResetOfDownlink(id) == {}
ResetOfDownlink(id) ==
  IF id \in downlinks THEN {AlarmOf("T_011", id)} ELSE {}

\* on_Ping without an uplink: the socket is closed, and no event tells of it.
OnPingTurnedAway(d) ==
  /\ d \in waiting
  /\ uplink = {}
  /\ waiting' = waiting \ {d}
  /\ conn' = [conn EXCEPT ![d] = "closed"]
  /\ once' = once \ {IdOf(d)}
  /\ SetAlarms(armed, late, {}, ResetOfDownlink(IdOf(d)))
  /\ UNCHANGED <<search, downlinks, notices, told, silent, overtaken>>

\* on_Ping with an uplink.  A peer that maintains its connection becomes a
\* downlink, getDownlinkOrCreate, under whatever id the record has by now.
OnPing(d, maintains) ==
  /\ d \in waiting
  /\ uplink # {}
  /\ waiting' = waiting \ {d}
  /\ downlinks' = downlinks \cup (IF maintains THEN {IdOf(d)} ELSE {})
  /\ once' = IF IdOf(d) \in downlinks THEN once \ {IdOf(d)}
             ELSE once \cup ((downlinks' \ downlinks) \cap Incoming)
  /\ SetAlarms(armed, late, {}, ResetOfDownlink(IdOf(d)))
  /\ UNCHANGED <<search, conn, notices, told, silent, overtaken>>

\* A ping with this node's own cookie, or a ToplinkDeliverREQ that has been
\* here before: the socket is closed, and no event tells of it.
OnOwnEcho(d) ==
  /\ conn[d] = "open"
  /\ conn' = [conn EXCEPT ![d] = "closed"]
  /\ UNCHANGED <<search, armed, late, downlinks, waiting, notices, once, told, silent, overtaken>>

\* on_Disaccepted, on_deleteDownlink.  The event comes after d's pings.
OnDisaccepted(d) ==
  /\ d \in notices \ waiting
  /\ notices' = notices \ {d}
  /\ downlinks' = downlinks \ {IdOf(d)}
  /\ once' = once \ {IdOf(d)}
  /\ UNCHANGED <<search, armed, late, conn, waiting, told, silent, overtaken>>

FromBelow(d) ==
  \/ PingArrives(d)
  \/ PeerLeaves(d)
  \/ PollerCloses(d)
  \/ OnPingTurnedAway(d)
  \/ \E maintains \in BOOLEAN : OnPing(d, maintains)
  \/ OnOwnEcho(d)
  \/ OnDisaccepted(d)

FromAbove(p) ==
  \/ OnPong(p)
  \/ OnNoReferrers(p)
  \/ \E rs \in SUBSET Nodes \ {{}} : OnReferrers(p, rs)
  \/ OnReferrersTooLate(p)
  \/ LinkLost(p)

Next ==
  \/ OnStartService
  \/ OnSubscribeNotifications
  \/ OnTickAlarm
  \/ \E p \in Peers : FromAbove(p)
  \/ \E d \in Incoming : FromBelow(d)

Spec == Init /\ [][Next]_vars

-----------------------------------------------------------------------------
(* Properties.                                                                 *)

\* A node without an uplink never stops looking: T_001, which begins a new
\* attempt, is armed or has ticked (dfsReferrerService.cpp:591).
SearchGoesOn ==
  (stage # "off" /\ uplink = {}) => Ticks(Alarm("T_001"))

\* Whatever the order of pongs and alarms, an uplink is being pinged until it
\* answers, or has a time by which it must answer again.
UplinkIsWatched ==
  \A p \in uplink : Ticks(AlarmOf("T_007", p)) \/ Ticks(AlarmOf("T_009", p))

\* So a node is never stuck.
GoesOn == SearchGoesOn /\ UplinkIsWatched

\* A node hangs below one peer, unless T_020 was on its way when the pong that
\* stops it was handled: its handler does not look at the stage.
OneUplink == overtaken \/ (\A p, q \in uplink : p = q)

\* An uplink has answered in the attempt that chose it, and is the reason why
\* the node is in its last stage.
UplinkHasPonged == uplink \subseteq ponged /\ (stage = "D6" <=> uplink # {})

\* The subscriber knows whether there is an uplink, and there are no downlinks
\* without one, except after T_001 or T_009 gave up an uplink in silence.
LossIsTold ==
  silent \/ /\ told = "up" => uplink # {}
            /\ uplink # {} => told \in {"unsubscribed", "up"}
            /\ uplink = {} => downlinks = {}

\* The end of a downlink's connection is told with a record that may be closed,
\* and has lost its id, by the time it is read.  T_011 removes what is left
\* then, unless the downlink has not pinged a second time in this attempt.
DeadDownlinkIsWatched ==
  \A d \in downlinks \cap Incoming :
    conn[d] = "closed" => d \in notices \cup once \/ Ticks(AlarmOf("T_011", d))
=============================================================================
