--------------------------- MODULE ReferrerClient ---------------------------
(* A client of the tree of referrers, modules/referrerClient: it looks for an  *)
(* uplink in the stages that Referrer describes, hangs below a referrer and    *)
(* passes the configuration that comes down the tree on to its subscribers.    *)
(* Unlike a referrer it is started by InitClient, takes anybody who answers    *)
(* for an uplink, and has no downlinks.                                        *)
(*                                                                             *)
(* The service has a listener of one thread, so an action is a whole handler.  *)
(* Pongs and ticks of an earlier attempt are dropped by their number and here  *)
(* forgotten as the next attempt begins.  A configuration is told apart by who *)
(* has sent it, and by whether that peer has had another one since.            *)
EXTENDS TimerHelper

CONSTANTS
  Peers,     \* addresses of referrers
  Caps,      \* those InitClient names
  Sees       \* Sees[p]: the name under which p sees this client

ASSUME ClientAssumption ==
  /\ Caps \subseteq Peers
  /\ None \notin Peers

VARIABLES
  stage,       \* stage; "none" before InitClient, "crashed" when the process is
  uplink,      \* uplinkConnectionState->uplink
  ponged,      \* ponged_all: who has answered in this attempt
  sockets,     \* ponged_for_cleanup_sockets, by peer
  neighbours,  \* neighbours, kept in the configuration's database
  pings,       \* pings of this attempt that may still be answered
  asked,       \* whom GetReferrersREQ went to that may still answer
  config_bod,  \* who has sent the configuration, None while there is none
  told,        \* what the subscriber has last been told of the uplink
  downlinked,  \* peers that hold the present connection of this client as a downlink
  sent,        \* peers that have an UpdateConfigRSP on its way here
  changed,     \* history: peers with a configuration that has not come from them
  given,       \* history: the subscriber has been sent config_bod
  silent,      \* history: an uplink was given up and nobody told
  gap,         \* history: subscribed without an uplink, and sent nothing since
  named        \* history: the referrers that the answer in this D31 named

search == <<stage, uplink, ponged, sockets, neighbours, pings, asked, named>>
peers  == <<downlinked, sent, changed>>
news   == <<config_bod, given, gap>>
vars   == <<search, armed, late, peers, news, told, silent>>

Alarms ==
  ({"T_001", "T_002", "T_020", "T_040"} \X {None})
    \cup ({"T_007", "T_008", "T_009"} \X Peers)

TypeOK ==
  /\ stage \in {"none", "crashed", "D2", "D21", "D3", "D31", "D6"}
  /\ uplink \subseteq Peers
  /\ ponged \subseteq Peers
  /\ sockets \subseteq Peers
  /\ neighbours \subseteq Peers
  /\ pings \subseteq Peers \X {"cached", "short", "long"}
  /\ asked \subseteq Peers
  /\ armed \subseteq Alarms
  /\ late \subseteq Alarms
  /\ config_bod \in Peers \cup {None}
  /\ told \in {"unsubscribed", "nothing", "up", "down"}
  /\ downlinked \subseteq Peers
  /\ sent \subseteq Peers
  /\ changed \subseteq Peers
  /\ given \in BOOLEAN
  /\ silent \in BOOLEAN
  /\ gap \in BOOLEAN
  /\ named \subseteq Peers

Init ==
  /\ stage = "none"
  /\ uplink = {} /\ ponged = {} /\ sockets = {}
  /\ neighbours \in SUBSET Peers
  /\ pings = {} /\ asked = {} /\ named = {}
  /\ armed = {} /\ late = {}
  /\ config_bod = None /\ given = FALSE /\ gap = FALSE
  /\ told = "unsubscribed"
  /\ downlinked = {} /\ sent = {} /\ changed = Peers
  /\ silent = FALSE

-----------------------------------------------------------------------------
(* The stages.                                                                 *)

Cached(ps) == ps \X {"cached"}

\* What D2 arms before it pings the neighbours.
D2AlarmsOfNeighboursOnly == {Alarm("T_040")}
D2Alarms == {Alarm("T_001"), Alarm("T_040")}

\* STAGE_D2_PING_NEIGHBOURS_start, with STAGE_D21_PING_CAPS_start where there
\* are no neighbours.  A new _uplinkConnectionState, a new number of attempt.
D2Start ==
  /\ uplink' = {}
  /\ ponged' = {}
  /\ sockets' = {}
  /\ neighbours' = {}
  /\ named' = {}
  /\ late' = {}
  /\ \/ /\ neighbours # {}
        /\ stage' = "D2"
        /\ armed' = D2Alarms
        /\ pings' = Cached(neighbours)
     \/ /\ neighbours = {}
        /\ stage' = "D21"
        /\ armed' = {Alarm("T_001")}
        /\ pings' = Cached(Caps)

\* d4_uplink_mode, on_connectionEstablished and d6_start: p, which has ponged,
\* becomes an uplink; `known` are the sockets before, a and l the alarms, and
\* `others` is stopped as well.  The connections to the other known are closed,
\* and no event tells of it.
Establish(p, known, a, l, others) ==
  /\ stage' = "D6"
  /\ uplink' = uplink \cup {p}
  /\ told' = IF told = "unsubscribed" THEN told ELSE "up"
  /\ silent' = FALSE
  /\ sockets' = {}
  /\ named' = {}
  /\ downlinked' = downlinked \ (known \ {p})
  /\ SetAlarms(a, l, others \cup {Alarm("T_001")}, {AlarmOf("T_007", p)})

\* on_InitClient, which may come again.
OnInitClient ==
  /\ stage # "crashed"
  /\ silent' = (silent \/ uplink # {})
  /\ UNCHANGED <<asked, peers, news, told>>
  /\ D2Start

\* on_Disconnected and on_ConnectFailed look at uplinkConnectionState, which is
\* null before InitClient; RPC has been subscribed to as the service started.
OnDisconnectedBeforeInit ==
  /\ stage = "none"
  /\ stage' = "crashed"
  /\ UNCHANGED <<uplink, ponged, sockets, neighbours, pings, asked, named,
                 armed, late, peers, news, told, silent>>

-----------------------------------------------------------------------------
(* Pongs and the answer to GetReferrersREQ, handleEvent and on_Pong.           *)

\* What every pong of the present attempt does first.
Pong(p, kind) ==
  /\ <<p, kind>> \in pings
  /\ ponged' = ponged \cup {p}
  /\ neighbours' = neighbours \cup {p}

\* STAGE_D3_GET_GEFERRERS_start, whoever answers first.
OnPongStartsD3(p) ==
  /\ Pong(p, "cached")
  /\ stage \in {"D2", "D21"}
  /\ stage' = "D3"
  /\ sockets' = sockets \cup {p}
  /\ asked' = asked \cup {p}
  /\ pings' = pings \ {<<p, "cached">>}
  /\ SetAlarms(armed, late, {}, {Alarm("T_001"), Alarm("T_002")})
  /\ UNCHANGED <<uplink, named, peers, news, told, silent>>

\* The uplink is found before T_020 has ticked.
StoppedByPong == {Alarm("T_020")}

\* on_Pong, PT_CACHED in D31: the quickest of all that have answered.
OnPongInD31(p) ==
  /\ stage = "D31"
  /\ Pong(p, "cached")
  /\ \E q \in ponged' :
       /\ Sees[q] = Sees[p]
       /\ Establish(q, sockets \cup {p}, armed, late, StoppedByPong)
       /\ pings' = (pings \ {<<p, "cached">>}) \cup {<<q, "short">>}
  /\ UNCHANGED <<asked, sent, changed, news>>

\* The quickest sees this client under another name: an exception ends the handler.
OnPongThrows(p) ==
  /\ stage = "D31"
  /\ Pong(p, "cached")
  /\ \E q \in ponged' : Sees[q] # Sees[p]
  /\ sockets' = sockets \cup {p}
  /\ pings' = pings \ {<<p, "cached">>}
  /\ UNCHANGED <<stage, uplink, asked, named, armed, late, peers, news, told, silent>>

\* PT_CACHED in a stage that does not wait for it.
OnPongUnawaited(p) ==
  /\ Pong(p, "cached")
  /\ stage \notin {"D2", "D21", "D31"}
  /\ sockets' = sockets \cup {p}
  /\ pings' = pings \ {<<p, "cached">>}
  /\ UNCHANGED <<stage, uplink, asked, named, armed, late, peers, news, told, silent>>

\* d6_on_pong_PT_CAPS_SHORT
OnPongShort(p) ==
  LET watch == {AlarmOf("T_008", p), AlarmOf("T_009", p)} IN
  /\ Pong(p, "short")
  /\ sockets' = sockets \cup {p}
  /\ pings' = pings \ {<<p, "short">>}
  /\ SetAlarms(armed, late, watch \cup {AlarmOf("T_007", p)}, watch)
  /\ UNCHANGED <<stage, uplink, asked, named, peers, news, told, silent>>

\* d6_on_pong_PT_CAPS_LONG
OnPongLong(p) ==
  /\ Pong(p, "long")
  /\ sockets' = sockets \cup {p}
  /\ pings' = pings \ {<<p, "long">>}
  /\ SetAlarms(armed, late, {}, {AlarmOf("T_008", p), AlarmOf("T_009", p)})
  /\ UNCHANGED <<stage, uplink, asked, named, peers, news, told, silent>>

OnPong(p) ==
  \/ OnPongStartsD3(p)
  \/ OnPongInD31(p)
  \/ OnPongThrows(p)
  \/ OnPongUnawaited(p)
  \/ OnPongShort(p)
  \/ OnPongLong(p)

\* GetReferrersRSP without addresses: whoever has ponged.  The answer does not
\* say which attempt asked.
OnNoReferrers(p) ==
  /\ p \in asked
  /\ asked' = asked \ {p}
  /\ stage = "D3"
  /\ \E q \in ponged :
       /\ Establish(q, sockets, armed \cup {Alarm("T_001")}, late, {Alarm("T_002")})
       /\ pings' = pings \cup {<<q, "short">>}
  /\ UNCHANGED <<ponged, neighbours, sent, changed, news>>

\* The loop over the addresses named runs over a list that is never filled.
PingedOf(rs) == {}

\* GetReferrersRSP with the addresses rs.
OnReferrers(p, rs) ==
  /\ p \in asked
  /\ asked' = asked \ {p}
  /\ stage = "D3"
  /\ stage' = "D31"
  /\ named' = rs
  /\ pings' = pings \cup Cached(PingedOf(rs))
  /\ SetAlarms(armed, late, {Alarm("T_002")}, {Alarm("T_001"), Alarm("T_020")})
  /\ UNCHANGED <<uplink, ponged, sockets, neighbours, peers, news, told, silent>>

\* GetReferrersRSP in any other stage.
OnReferrersTooLate(p) ==
  /\ p \in asked
  /\ stage # "D3"
  /\ asked' = asked \ {p}
  /\ UNCHANGED <<stage, uplink, ponged, sockets, neighbours, pings, named,
                 armed, late, peers, news, told, silent>>

-----------------------------------------------------------------------------
(* Alarms, on_TickAlarm.                                                       *)

\* T_001: the attempt has taken too long.
TickCommonFailed ==
  /\ Ticks(Alarm("T_001"))
  /\ silent' = (silent \/ uplink # {})
  /\ UNCHANGED <<asked, peers, news, told>>
  /\ D2Start

\* T_002, no answer to GetReferrersREQ, and T_020, no pong after the answer.
\* Only T_002 looks at the stage.
TickChooses(t) ==
  LET k == Alarm(t) IN
  /\ Ticks(k)
  /\ t = "T_020" \/ stage = "D3"
  /\ \E q \in ponged :
       /\ Establish(q, sockets, ArmedAfter(k), LateAfter(k), {})
       /\ pings' = pings \cup {<<q, "short">>}
  /\ UNCHANGED <<ponged, neighbours, asked, sent, changed, news>>

\* T_040: no neighbour has answered in time, STAGE_D21_PING_CAPS_start.
TickNoNeighbour ==
  LET k == Alarm("T_040") IN
  /\ Ticks(k)
  /\ stage = "D2"
  /\ stage' = "D21"
  /\ pings' = pings \cup Cached(Caps)
  /\ SetAlarms(ArmedAfter(k), LateAfter(k), {}, {Alarm("T_001")})
  /\ UNCHANGED <<uplink, ponged, sockets, neighbours, asked, named, peers, news, told, silent>>

\* T_007: ping p again, and again, until it answers.
TickPingShort(p) ==
  LET k == AlarmOf("T_007", p) IN
  /\ Ticks(k)
  /\ pings' = pings \cup {<<p, "short">>}
  /\ SetAlarms(ArmedAfter(k), LateAfter(k), {}, {k})
  /\ UNCHANGED <<stage, uplink, ponged, sockets, neighbours, asked, named,
                 peers, news, told, silent>>

\* T_008: ping p, which has answered before.
TickPingLong(p) ==
  /\ Ticks(AlarmOf("T_008", p))
  /\ stage = "D6"
  /\ TakeTick(AlarmOf("T_008", p))
  /\ pings' = pings \cup {<<p, "long">>}
  /\ UNCHANGED <<stage, uplink, ponged, sockets, neighbours, asked, named,
                 peers, news, told, silent>>

\* T_009: p has not answered for too long, d6_on_disconnected.  Unlike LinkLost
\* it tells nobody.
TickPongTimedOut(p) ==
  /\ Ticks(AlarmOf("T_009", p))
  /\ p \in uplink
  /\ silent' = TRUE
  /\ UNCHANGED <<asked, peers, news, told>>
  /\ D2Start

\* A tick that comes in a stage that has no use for it.
TickUseless(t) ==
  /\ Ticks(Alarm(t))
  /\ stage # (IF t = "T_002" THEN "D3" ELSE "D2")
  /\ TakeTick(Alarm(t))
  /\ UNCHANGED <<search, peers, news, told, silent>>

OnTickAlarm ==
  \/ TickCommonFailed
  \/ \E t \in {"T_002", "T_020"} : TickChooses(t)
  \/ TickNoNeighbour
  \/ \E p \in Peers : TickPingShort(p) \/ TickPingLong(p) \/ TickPongTimedOut(p)
  \/ \E t \in {"T_002", "T_040"} : TickUseless(t)

-----------------------------------------------------------------------------
(* The uplink is lost; subscribers and the configuration.                      *)

\* What subscribers are told in d4_on_disconnected.
NobodyTold == told
ToldDown == IF told = "unsubscribed" THEN told ELSE "down"

\* on_Disconnected and on_ConnectFailed of p.  Nothing comes after it from the
\* connection that has ended.
LinkLost(p) ==
  /\ stage \notin {"none", "crashed"}
  /\ downlinked' = downlinked \ {p}
  /\ sent' = sent \ {p}
  /\ UNCHANGED <<asked, changed, news, silent>>
  /\ \/ /\ p \in uplink
        /\ told' = ToldDown
        /\ D2Start
     \/ /\ p \notin uplink
        /\ UNCHANGED <<stage, uplink, ponged, sockets, neighbours, pings, named,
                       armed, late, told>>

\* Whether SubscribeNotifications is answered with the configuration.
NotifiedOnly == FALSE
ConfigOnSubscribe == uplink # {} /\ config_bod # None

\* on_SubscribeNotifications, of one subscriber.
OnSubscribeNotifications ==
  /\ stage # "crashed"
  /\ told = "unsubscribed"
  /\ told' = IF uplink # {} THEN "up" ELSE "nothing"
  /\ given' = ConfigOnSubscribe
  /\ gap' = (uplink = {})
  /\ UNCHANGED <<search, armed, late, peers, config_bod, silent>>

\* UpdateConfigRSP in on_IncomingOnConnector, whoever p is by now.  It is the
\* last that p has sent, or another is on its way.
OnUpdateConfig(p) ==
  /\ stage # "crashed"
  /\ p \in sent
  /\ \/ sent' = sent \ {p} /\ changed' = changed \ {p}
     \/ UNCHANGED <<sent, changed>>
  /\ config_bod' = p
  /\ given' = (told # "unsubscribed")
  /\ gap' = FALSE
  /\ UNCHANGED <<search, armed, late, downlinked, told, silent>>

\* on_Ping of referrer p: the client's connection becomes a downlink and is sent
\* the configuration, unless it is one already.
PeerTakesDownlink(p) ==
  /\ \E kind \in {"short", "long"} : <<p, kind>> \in pings
  /\ p \notin downlinked
  /\ downlinked' = downlinked \cup {p}
  /\ sent' = sent \cup {p}
  /\ UNCHANGED <<search, armed, late, changed, news, told, silent>>

\* on_UpdateConfigREQ and on_UpdateConfigRSP of referrer p.
PeerUpdates(p) ==
  /\ changed' = changed \cup {p}
  /\ sent' = sent \cup (downlinked \cap {p})
  /\ UNCHANGED <<search, armed, late, downlinked, news, told, silent>>

\* T_011 of referrer p.
PeerForgets(p) ==
  /\ p \in downlinked
  /\ downlinked' = downlinked \ {p}
  /\ UNCHANGED <<search, armed, late, sent, changed, news, told, silent>>

\* The connection to p was closed by on_connectionEstablished: what had not been
\* received by then is lost.
ConfigLost(p) ==
  /\ p \in sent \ downlinked
  /\ sent' = sent \ {p}
  /\ UNCHANGED <<search, armed, late, downlinked, changed, news, told, silent>>

FromAbove(p) ==
  \/ OnPong(p)
  \/ OnNoReferrers(p)
  \/ \E rs \in SUBSET Peers \ {{}} : OnReferrers(p, rs)
  \/ OnReferrersTooLate(p)
  \/ LinkLost(p)
  \/ OnUpdateConfig(p)

Peer(p) ==
  \/ PeerTakesDownlink(p)
  \/ PeerUpdates(p)
  \/ PeerForgets(p)
  \/ ConfigLost(p)

Next ==
  \/ OnInitClient
  \/ OnDisconnectedBeforeInit
  \/ OnSubscribeNotifications
  \/ OnTickAlarm
  \/ \E p \in Peers : FromAbove(p) \/ Peer(p)

Spec == Init /\ [][Next]_vars

-----------------------------------------------------------------------------
(* Properties.                                                                 *)

\* Once started a client without an uplink has an alarm that begins a new
\* attempt, and an uplink is being pinged or has a time by which it must answer
\* again, whatever the order of pongs, answers and late ticks
\* (referrerClientService.cpp:986).
GoesOn ==
  /\ (stage \notin {"none", "crashed"} /\ uplink = {}) => Ticks(Alarm("T_001"))
  /\ \A p \in uplink : Ticks(AlarmOf("T_007", p)) \/ Ticks(AlarmOf("T_009", p))

\* The subscriber knows whether there is an uplink, except after T_001, T_009 or
\* a second InitClient gave one up in silence.
LossIsTold ==
  silent \/ /\ told = "up" => uplink # {}
            /\ uplink # {} => told \in {"unsubscribed", "up"}

\* When everything an uplink has sent is received, the client and its subscriber
\* have what the uplink has, unless the subscriber came while there was no uplink,
\* or the last configuration is from another peer that still has the client as a
\* downlink or had it before (referrerClientService.cpp:207, :230).
ConfigIsHad ==
  \A p \in (uplink \cap downlinked) \ sent :
    (config_bod = p /\ told = "up" /\ ~gap) => given /\ p \notin changed

\* The referrers that GetReferrersRSP names are pinged before one of those that
\* have answered is chosen instead.
NamedArePinged ==
  \A p \in named : p \in ponged \/ <<p, "cached">> \in pings
=============================================================================
