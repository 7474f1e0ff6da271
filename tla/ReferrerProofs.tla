--------------------------- MODULE ReferrerProofs ---------------------------
(* What Referrer's runs check on a small instance, proved for every set of     *)
(* servers, nodes and connections and every way in which peers see this node.  *)
(* One inductive invariant carries all of it.                                  *)
EXTENDS Referrer, TLAPS

-----------------------------------------------------------------------------
(* What setting alarms and taking ticks keep.                                  *)

\* Alarms are told apart by their name and their argument.
LEMMA AlarmsDiffer ==
  ASSUME NEW t, NEW u, NEW x, NEW y
  PROVE  AlarmOf(t, x) = AlarmOf(u, y) <=> t = u /\ x = y
  BY DEF AlarmOf

\* An alarm that has not gone off stays with the timer unless it is stopped,
\* and one that has stays in the queue.
LEMMA SetAlarmsKeeps ==
  ASSUME NEW a, NEW l, NEW stopped, NEW reset, SetAlarms(a, l, stopped, reset)
  PROVE  /\ armed' = (a \ stopped) \cup reset
         /\ l \subseteq late'
         /\ late' \subseteq l \cup (a \cap (stopped \cup reset))
  BY DEF SetAlarms

\* Taking the tick of k leaves every other alarm where it is.
LEMMA TakingLeavesOthers ==
  ASSUME NEW k
  PROVE  /\ ArmedAfter(k) \subseteq armed
         /\ LateAfter(k) \subseteq late
         /\ \A j : j # k => (j \in armed <=> j \in ArmedAfter(k))
         /\ \A j : j # k => (j \in late <=> j \in LateAfter(k))
  BY DEF ArmedAfter, LateAfter

\* An alarm is kept unless it is stopped.
LEMMA AlarmKept ==
  ASSUME NEW a, NEW l, NEW stopped, NEW reset, SetAlarms(a, l, stopped, reset),
         NEW k, k \in a \cup l, k \notin stopped \/ k \in reset
  PROVE  Ticks(k)'
  BY SetAlarmsKeeps DEF Ticks

\* The types of what SetAlarms leaves.
LEMMA SetAlarmsTypes ==
  ASSUME NEW A, NEW a \in SUBSET A, NEW l \in SUBSET A, NEW stopped,
         NEW reset \in SUBSET A, SetAlarms(a, l, stopped, reset)
  PROVE  armed' \subseteq A /\ late' \subseteq A
  BY SetAlarmsKeeps

-----------------------------------------------------------------------------

\* T_020 is armed in D31 only, and late in D6 only: what makes a second uplink
\* impossible but for a late tick.
NamedAreAwaited ==
  /\ Alarm("T_020") \in armed => stage = "D31"
  /\ Alarm("T_020") \in late => stage = "D6"

\* Closed or not, a downlink that has pinged again has T_011.
DownlinksAreWatched ==
  \A d \in downlinks \cap Incoming : d \in once \/ Ticks(AlarmOf("T_011", d))

IInv ==
  /\ TypeOK
  /\ SearchGoesOn
  /\ UplinkIsWatched
  /\ UplinkHasPonged
  /\ NamedAreAwaited
  /\ OneUplink
  /\ LossIsTold
  /\ DownlinksAreWatched

-----------------------------------------------------------------------------
\* The alarms that the actions name are alarms.
LEMMA AlarmTypes ==
  /\ \A t \in {"T_001", "T_002", "T_012", "T_020", "T_040"} : Alarm(t) \in Alarms
  /\ \A t \in {"T_007", "T_008", "T_009"}, p \in Peers : AlarmOf(t, p) \in Alarms
  /\ \A id \in Ids : AlarmOf("T_011", id) \in Alarms
  BY DEF Alarm, AlarmOf, Alarms

-----------------------------------------------------------------------------
(* The three kinds of steps of the search: a new attempt, a new uplink, and    *)
(* one that does neither.                                                      *)

\* The part of the invariant that is about the search for an uplink.
SearchInv ==
  /\ SearchGoesOn
  /\ UplinkIsWatched
  /\ UplinkHasPonged
  /\ NamedAreAwaited
  /\ OneUplink

\* The part of the type invariant that D2Start and Establish are about.
SearchTypes ==
  /\ stage \in {"off", "D2", "D21", "D3", "D31", "D6"}
  /\ uplink \subseteq Peers
  /\ ponged \subseteq Peers
  /\ neighbours \subseteq Peers
  /\ armed \subseteq Alarms
  /\ late \subseteq Alarms
  /\ pings \subseteq Peers \X {"cached", "short", "long"}
  /\ overtaken \in BOOLEAN

\* A new attempt has T_001 and no uplink.
LEMMA NewAttempt ==
  ASSUME TypeOK, D2Start
  PROVE  SearchTypes' /\ SearchInv'
<1>1. SearchTypes'
  BY AlarmTypes DEF D2Start, TypeOK, SearchTypes, D2Alarms, Cached, Peers
<1>2. uplink' = {} /\ ponged' = {} /\ late' = {} /\ stage' \in {"D2", "D21"}
      /\ Alarm("T_001") \in armed' /\ armed' \subseteq {Alarm("T_001"), Alarm("T_040")}
  BY DEF D2Start, D2Alarms
<1>3. SearchGoesOn' BY <1>2 DEF SearchGoesOn, Ticks
<1>4. UplinkIsWatched' BY <1>2 DEF UplinkIsWatched
<1>5. UplinkHasPonged' BY <1>2 DEF UplinkHasPonged
<1>6. NamedAreAwaited'
  <2>1. Alarm("T_020") \notin {Alarm("T_001"), Alarm("T_040")} BY DEF Alarm
  <2>2. QED BY <1>2, <2>1 DEF NamedAreAwaited
<1>7. OneUplink' BY <1>2 DEF OneUplink
<1>8. QED BY <1>1, <1>3, <1>4, <1>5, <1>6, <1>7 DEF SearchInv

\* Whoever is chosen is watched by T_007, and the uplinks there were already
\* are watched as before.
LEMMA NewUplink ==
  ASSUME TypeOK, UplinkIsWatched, UplinkHasPonged,
         NEW q \in Peers, NEW a \in SUBSET Alarms, NEW l \in SUBSET Alarms, NEW others,
         others \subseteq {Alarm("T_002"), Alarm("T_020")},
         \A p \in Peers, t \in {"T_007", "T_009"} :
           Ticks(AlarmOf(t, p)) => AlarmOf(t, p) \in a \cup l,
         ponged \subseteq ponged', q \in ponged',
         Establish(q, a, l, others)
  PROVE  /\ armed' \subseteq Alarms /\ late' \subseteq Alarms
         /\ stage' = "D6" /\ uplink' = uplink \cup {q}
         /\ SearchGoesOn' /\ UplinkIsWatched' /\ UplinkHasPonged'
<1> DEFINE stopped == others \cup {Alarm("T_001")}
           reset == {Alarm("T_012"), AlarmOf("T_007", q)}
<1>1. stage' = "D6" /\ uplink' = uplink \cup {q} /\ SetAlarms(a, l, stopped, reset)
  BY DEF Establish
<1>2. reset \subseteq Alarms BY AlarmTypes
<1>3. /\ armed' = (a \ stopped) \cup reset
      /\ l \subseteq late'
      /\ late' \subseteq l \cup (a \cap (stopped \cup reset))
  BY <1>1, SetAlarmsKeeps
<1>4. armed' \subseteq Alarms /\ late' \subseteq Alarms
  BY <1>2, <1>3
<1>5. \A p \in Peers, t \in {"T_007", "T_009"} : AlarmOf(t, p) \notin stopped
  BY DEF Alarm, AlarmOf
<1>6. UplinkIsWatched'
  <2> SUFFICES ASSUME NEW p \in uplink'
               PROVE  AlarmOf("T_007", p) \in armed' \cup late' \/ AlarmOf("T_009", p) \in armed' \cup late'
    BY DEF UplinkIsWatched, Ticks
  <2>1. CASE p = q BY <1>3, <2>1
  <2>2. CASE p # q
    <3>1. p \in uplink /\ p \in Peers BY <1>1, <2>2 DEF TypeOK
    <3>2. PICK t \in {"T_007", "T_009"} : Ticks(AlarmOf(t, p))
      BY <3>1 DEF UplinkIsWatched
    <3>3. AlarmOf(t, p) \in a \cup l BY <3>1, <3>2
    <3>4. AlarmOf(t, p) \in armed' \cup late' BY <1>3, <1>5, <3>1, <3>3
    <3>5. QED BY <3>4
  <2>3. QED BY <2>1, <2>2
<1>7. SearchGoesOn' BY <1>1 DEF SearchGoesOn
<1>8. UplinkHasPonged' BY <1>1 DEF UplinkHasPonged
<1>9. QED BY <1>1, <1>4, <1>6, <1>7, <1>8

\* Alarms may be set as long as T_001 and the alarms of uplinks are not lost.
LEMMA SameUplink ==
  ASSUME TypeOK, SearchInv, uplink' = uplink, ponged \subseteq ponged', overtaken' = overtaken,
         stage' = stage \/ (stage # "D6" /\ stage' # "D6" /\ stage # "off"),
         Ticks(Alarm("T_001")) => Ticks(Alarm("T_001"))',
         \A p \in uplink : (Ticks(AlarmOf("T_007", p)) \/ Ticks(AlarmOf("T_009", p)))
                        => (Ticks(AlarmOf("T_007", p)) \/ Ticks(AlarmOf("T_009", p)))',
         NamedAreAwaited'
  PROVE  SearchInv'
<1>1. SearchGoesOn' BY DEF SearchInv, SearchGoesOn
<1>2. UplinkIsWatched' BY DEF SearchInv, UplinkIsWatched
<1>3. UplinkHasPonged' BY DEF SearchInv, UplinkHasPonged
<1>4. OneUplink' BY DEF SearchInv, OneUplink
<1>5. QED BY <1>1, <1>2, <1>3, <1>4 DEF SearchInv

\* The downlinks' alarms are none of the search's.
LEMMA DownlinkAlarmsKept ==
  ASSUME DownlinksAreWatched, UNCHANGED <<downlinks, once>>,
         \A d \in Incoming : Ticks(AlarmOf("T_011", d)) => Ticks(AlarmOf("T_011", d))'
  PROVE  DownlinksAreWatched'
  BY DEF DownlinksAreWatched

-----------------------------------------------------------------------------
(* Pongs and answers.                                                          *)

LEMMA PongStartsD3 ==
  ASSUME IInv, NEW p \in Peers, OnPongStartsD3(p)
  PROVE  IInv'
<1> USE DEF IInv
<1>1. /\ stage \in {"D2", "D21"} /\ stage' = "D3"
      /\ UNCHANGED <<downlinks, conn, waiting, notices, once, uplink, told, silent, overtaken>>
      /\ ponged' = ponged \cup {p} /\ neighbours' = neighbours \cup {p}
      /\ pings' \subseteq pings /\ asked' = asked \cup {p}
      /\ SetAlarms(armed, late, {}, {Alarm("T_001"), Alarm("T_002")})
  BY DEF OnPongStartsD3, NotePong, Awaited, links
<1>2. {Alarm("T_001"), Alarm("T_002")} \subseteq Alarms BY AlarmTypes
<1>3. armed' \subseteq Alarms /\ late' \subseteq Alarms
  BY <1>1, <1>2, SetAlarmsTypes DEF TypeOK
<1>4. TypeOK' BY <1>1, <1>3 DEF TypeOK
<1>5. \A k : Ticks(k) => Ticks(k)'
  BY <1>1, AlarmKept DEF Ticks
<1>6. NamedAreAwaited'
  <2>1. Alarm("T_020") \notin {Alarm("T_001"), Alarm("T_002")} BY DEF Alarm
  <2>2. Alarm("T_020") \notin armed \cup late BY <1>1 DEF NamedAreAwaited
  <2>3. QED BY <1>1, <2>1, <2>2, SetAlarmsKeeps DEF NamedAreAwaited
<1>7. SearchInv' BY <1>1, <1>5, <1>6, SameUplink DEF SearchInv
<1>8. LossIsTold' BY <1>1 DEF LossIsTold
<1>9. DownlinksAreWatched' BY <1>1, <1>5, DownlinkAlarmsKept
<1>10. QED BY <1>4, <1>7, <1>8, <1>9 DEF SearchInv

\* A pong that changes no alarm and no stage.
LEMMA PongOnlyNoted ==
  ASSUME IInv, NEW p \in Peers, OnPongThrows(p) \/ OnPongUnawaited(p)
  PROVE  IInv'
<1> USE DEF IInv
<1>1. /\ UNCHANGED <<downlinks, conn, waiting, notices, once, uplink, told, silent,
                     overtaken, stage, asked, armed, late>>
      /\ ponged' = ponged \cup {p} /\ neighbours' = neighbours \cup {p}
      /\ pings' \subseteq pings
  BY DEF OnPongThrows, OnPongUnawaited, NotePong, links
<1>2. TypeOK' BY <1>1 DEF TypeOK
<1>3. NamedAreAwaited' BY <1>1 DEF NamedAreAwaited
<1>4. \A k : Ticks(k) => Ticks(k)' BY <1>1 DEF Ticks
<1>5. SearchInv' BY <1>1, <1>3, <1>4, SameUplink DEF SearchInv
<1>6. LossIsTold' BY <1>1 DEF LossIsTold
<1>7. DownlinksAreWatched' BY <1>1, <1>4, DownlinkAlarmsKept
<1>8. QED BY <1>2, <1>5, <1>6, <1>7 DEF SearchInv

\* A new uplink keeps the whole invariant, whoever is chosen in whichever
\* handler, if there was none before or T_020 was late.
LEMMA EstablishKeeps ==
  ASSUME IInv, NEW q \in Peers, NEW a \in SUBSET Alarms, NEW l \in SUBSET Alarms, NEW others,
         others \subseteq {Alarm("T_002"), Alarm("T_020")},
         \A k \in Alarms : k # Alarm("T_002") /\ k # Alarm("T_020") /\ Ticks(k) => k \in a \cup l,
         Alarm("T_020") \in a => Alarm("T_020") \in others,
         ponged \subseteq ponged', ponged' \subseteq Peers, q \in ponged',
         neighbours' \subseteq Peers, asked' \subseteq Peers,
         pings' \subseteq pings \cup {<<q, "short">>},
         overtaken' \in BOOLEAN, overtaken' \/ uplink = {},
         UNCHANGED links,
         Establish(q, a, l, others)
  PROVE  IInv'
<1> USE DEF IInv
<1>0. /\ UNCHANGED <<downlinks, conn, waiting, notices, once>>
      /\ told' = IF told = "unsubscribed" THEN told ELSE "up"
      /\ silent' = FALSE
  BY DEF Establish, links
<1>1. \A p \in Peers, t \in {"T_007", "T_009"} :
        Ticks(AlarmOf(t, p)) => AlarmOf(t, p) \in a \cup l
  <2>1. \A p \in Peers, t \in {"T_007", "T_009"} :
          AlarmOf(t, p) \in Alarms /\ AlarmOf(t, p) \notin {Alarm("T_002"), Alarm("T_020")}
    BY AlarmTypes DEF Alarm, AlarmOf
  <2>2. QED BY <2>1
<1>2. /\ armed' \subseteq Alarms /\ late' \subseteq Alarms
      /\ stage' = "D6" /\ uplink' = uplink \cup {q}
      /\ SearchGoesOn' /\ UplinkIsWatched' /\ UplinkHasPonged'
  BY <1>1, NewUplink
<1>3. TypeOK'
  <2>1. /\ stage' \in {"off", "D2", "D21", "D3", "D31", "D6"}
        /\ uplink' \subseteq Peers
        /\ told' \in {"unsubscribed", "nothing", "up", "down"}
        /\ silent' \in BOOLEAN
    BY <1>0, <1>2 DEF TypeOK
  <2>2. pings' \subseteq Peers \X {"cached", "short", "long"} BY DEF TypeOK
  <2>3. QED BY <1>0, <1>2, <2>1, <2>2 DEF TypeOK
<1>4. NamedAreAwaited'
  <2>1. Alarm("T_020") \notin {Alarm("T_012"), AlarmOf("T_007", q)} BY DEF Alarm, AlarmOf
  <2>2. armed' = (a \ (others \cup {Alarm("T_001")})) \cup {Alarm("T_012"), AlarmOf("T_007", q)}
    BY SetAlarmsKeeps DEF Establish
  <2>3. Alarm("T_020") \notin armed' BY <2>1, <2>2
  <2>4. QED BY <1>2, <2>3 DEF NamedAreAwaited
<1>5. OneUplink' BY <1>2 DEF OneUplink
<1>6. LossIsTold' BY <1>0, <1>2 DEF LossIsTold, TypeOK
<1>7. DownlinksAreWatched'
  <2> SUFFICES ASSUME NEW d \in Incoming, Ticks(AlarmOf("T_011", d))
               PROVE  Ticks(AlarmOf("T_011", d))'
    BY <1>0, DownlinkAlarmsKept
  <2>1. AlarmOf("T_011", d) \in Alarms BY AlarmTypes DEF Ids
  <2>2. AlarmOf("T_011", d) \notin {Alarm("T_001"), Alarm("T_002"), Alarm("T_020")}
    BY DEF Alarm, AlarmOf
  <2>3. AlarmOf("T_011", d) \in a \cup l BY <2>1, <2>2
  <2>4. QED BY <2>2, <2>3, AlarmKept DEF Establish
<1>8. QED BY <1>2, <1>3, <1>4, <1>5, <1>6, <1>7

LEMMA PongInD31 ==
  ASSUME IInv, NEW p \in Peers, OnPongInD31(p)
  PROVE  IInv'
<1>1. PICK q \in Candidates(p) :
        /\ Establish(q, armed, late, StoppedByPong)
        /\ pings' = (pings \ {<<p, "cached">>}) \cup {<<q, "short">>}
  BY DEF OnPongInD31
<1>2. /\ stage = "D31" /\ UNCHANGED <<links, asked, overtaken>>
      /\ ponged' = ponged \cup {p} /\ neighbours' = neighbours \cup {p}
  BY DEF OnPongInD31, NotePong
<1>3. q \in ponged' BY <1>2 DEF Candidates, SeenAlike
<1>4. ponged' \subseteq Peers /\ neighbours' \subseteq Peers /\ asked' \subseteq Peers
      /\ overtaken' \in BOOLEAN /\ armed \subseteq Alarms /\ late \subseteq Alarms
  BY <1>2 DEF IInv, TypeOK
<1>5. uplink = {} BY <1>2 DEF IInv, UplinkHasPonged
<1>6. QED
  BY <1>1, <1>2, <1>3, <1>4, <1>5, EstablishKeeps DEF StoppedByPong, Ticks

LEMMA NoReferrers ==
  ASSUME IInv, NEW p \in Peers, OnNoReferrers(p)
  PROVE  IInv'
<1>1. PICK q \in Choosable :
        /\ Establish(q, armed \cup {Alarm("T_001")}, late, {Alarm("T_002")})
        /\ pings' = pings \cup {<<q, "short">>}
  BY DEF OnNoReferrers
<1>2. /\ stage = "D3" /\ UNCHANGED <<links, ponged, neighbours, overtaken>>
      /\ asked' = asked \ {p}
  BY DEF OnNoReferrers
<1>3. q \in ponged' BY <1>2 DEF Choosable
<1>4. ponged' \subseteq Peers /\ neighbours' \subseteq Peers /\ asked' \subseteq Peers
      /\ overtaken' \in BOOLEAN /\ armed \cup {Alarm("T_001")} \subseteq Alarms /\ late \subseteq Alarms
  BY <1>2, AlarmTypes DEF IInv, TypeOK
<1>5. uplink = {} BY <1>2 DEF IInv, UplinkHasPonged
<1>6. Alarm("T_020") \notin armed \cup {Alarm("T_001")}
  BY <1>2 DEF IInv, NamedAreAwaited, Alarm
<1>7. \A k \in Alarms : Ticks(k) => k \in (armed \cup {Alarm("T_001")}) \cup late
  BY DEF Ticks
<1>8. q \in Peers /\ ponged \subseteq ponged' /\ UNCHANGED links
      /\ pings' \subseteq pings \cup {<<q, "short">>}
  BY <1>1, <1>2, <1>3, <1>4
<1>9. QED
  BY <1>1, <1>3, <1>4, <1>5, <1>6, <1>7, <1>8, EstablishKeeps

LEMMA Referrers ==
  ASSUME IInv, NEW p \in Peers, NEW rs \in SUBSET Nodes, OnReferrers(p, rs)
  PROVE  IInv'
<1> USE DEF IInv
<1> DEFINE reset == {Alarm("T_001"), Alarm("T_020")}
<1>1. /\ stage = "D3" /\ stage' = "D31"
      /\ UNCHANGED <<downlinks, conn, waiting, notices, once, uplink, ponged, neighbours,
                     told, silent, overtaken>>
      /\ asked' = asked \ {p} /\ pings' = pings \cup Cached(rs)
      /\ SetAlarms(armed, late, {Alarm("T_002")}, reset)
  BY DEF OnReferrers, links
<1>2. reset \subseteq Alarms BY AlarmTypes
<1>3. armed' \subseteq Alarms /\ late' \subseteq Alarms
  BY <1>1, <1>2, SetAlarmsTypes DEF TypeOK
<1>4. TypeOK'
  <2>1. pings' \subseteq Peers \X {"cached", "short", "long"}
    BY <1>1 DEF TypeOK, Cached, Peers
  <2>2. QED BY <1>1, <1>3, <2>1 DEF TypeOK
<1>5. \A k : Ticks(k) /\ k # Alarm("T_002") => Ticks(k)'
  BY <1>1, AlarmKept DEF Ticks
<1>6. NamedAreAwaited'
  <2>1. Alarm("T_020") \notin armed \cup late BY <1>1 DEF NamedAreAwaited
  <2>2. Alarm("T_020") \notin late' BY <1>1, <2>1, SetAlarmsKeeps
  <2>3. QED BY <1>1, <2>2 DEF NamedAreAwaited
<1>7. SearchInv'
  <2>1. Alarm("T_001") # Alarm("T_002") BY DEF Alarm
  <2>2. \A q \in Peers : AlarmOf("T_007", q) # Alarm("T_002") /\ AlarmOf("T_009", q) # Alarm("T_002")
    BY DEF Alarm, AlarmOf
  <2>3. uplink \subseteq Peers BY DEF TypeOK
  <2>4. QED BY <1>1, <1>5, <1>6, <2>1, <2>2, <2>3, SameUplink DEF SearchInv
<1>8. LossIsTold' BY <1>1 DEF LossIsTold
<1>9. DownlinksAreWatched'
  <2>1. \A d : AlarmOf("T_011", d) # Alarm("T_002") BY DEF Alarm, AlarmOf
  <2>2. QED BY <1>1, <1>5, <2>1, DownlinkAlarmsKept
<1>10. QED BY <1>4, <1>7, <1>8, <1>9 DEF SearchInv

LEMMA ReferrersTooLate ==
  ASSUME IInv, NEW p \in Peers, OnReferrersTooLate(p)
  PROVE  IInv'
<1> USE DEF IInv
<1>1. /\ UNCHANGED <<downlinks, conn, waiting, notices, once, stage, uplink, ponged, neighbours,
                     pings, armed, late, told, silent, overtaken>>
      /\ asked' = asked \ {p}
  BY DEF OnReferrersTooLate, links
<1>2. TypeOK' BY <1>1 DEF TypeOK
<1>3. NamedAreAwaited' BY <1>1 DEF NamedAreAwaited
<1>4. \A k : Ticks(k) => Ticks(k)' BY <1>1 DEF Ticks
<1>5. SearchInv' BY <1>1, <1>3, <1>4, SameUplink DEF SearchInv
<1>6. LossIsTold' BY <1>1 DEF LossIsTold
<1>7. DownlinksAreWatched' BY <1>1, <1>4, DownlinkAlarmsKept
<1>8. QED BY <1>2, <1>5, <1>6, <1>7 DEF SearchInv

\* The pongs of a maintained connection, and the ticks that ping it, set none
\* but T_007, T_008 and T_009 of the peer, and leave it T_007 or T_009.
LEMMA MaintainingKeeps ==
  ASSUME IInv, NEW p \in Peers, NEW a \in SUBSET Alarms, NEW l \in SUBSET Alarms,
         NEW stopped, NEW reset,
         stopped \cup reset \subseteq {AlarmOf("T_007", p), AlarmOf("T_008", p), AlarmOf("T_009", p)},
         SetAlarms(a, l, stopped, reset),
         a \subseteq armed, l \subseteq late,
         \A k : k # AlarmOf("T_007", p) /\ Ticks(k) => k \in a \cup l,
         AlarmOf("T_007", p) \in reset \/ AlarmOf("T_009", p) \in reset,
         ponged \subseteq ponged', ponged' \subseteq Peers, neighbours' \subseteq Peers,
         pings' \subseteq Peers \X {"cached", "short", "long"},
         UNCHANGED <<links, stage, uplink, asked, told, silent, overtaken>>
  PROVE  IInv'
<1> USE DEF IInv
<1> DEFINE own == {AlarmOf("T_007", p), AlarmOf("T_008", p), AlarmOf("T_009", p)}
<1>0. UNCHANGED <<downlinks, conn, waiting, notices, once>> BY DEF links
<1>1. own \subseteq Alarms BY AlarmTypes
<1>2. armed' \subseteq Alarms /\ late' \subseteq Alarms
  BY <1>1, SetAlarmsTypes
<1>3. TypeOK' BY <1>0, <1>2 DEF TypeOK
<1>4. \A k : k \notin own /\ Ticks(k) => Ticks(k)'
  BY AlarmKept
<1>5. \A t : Alarm(t) \notin own \/ t \in {"T_007", "T_008", "T_009"}
  BY DEF Alarm, AlarmOf
<1>6. NamedAreAwaited'
  <2>1. Alarm("T_020") \notin own BY DEF Alarm, AlarmOf
  <2>2. /\ armed' = (a \ stopped) \cup reset
        /\ late' \subseteq l \cup (a \cap (stopped \cup reset))
    BY SetAlarmsKeeps
  <2>3. QED BY <2>1, <2>2 DEF NamedAreAwaited
<1>7. SearchInv'
  <2>1. Ticks(Alarm("T_001")) => Ticks(Alarm("T_001"))' BY <1>4, <1>5
  <2>2. ASSUME NEW q \in uplink, q # p,
               Ticks(AlarmOf("T_007", q)) \/ Ticks(AlarmOf("T_009", q))
        PROVE  (Ticks(AlarmOf("T_007", q)) \/ Ticks(AlarmOf("T_009", q)))'
    <3>1. AlarmOf("T_007", q) \notin own /\ AlarmOf("T_009", q) \notin own
      BY <2>2, AlarmsDiffer
    <3>2. QED BY <1>4, <2>2, <3>1
  <2>3. (Ticks(AlarmOf("T_007", p)) \/ Ticks(AlarmOf("T_009", p)))'
    BY SetAlarmsKeeps DEF Ticks
  <2>4. QED BY <1>6, <2>1, <2>2, <2>3, SameUplink DEF SearchInv
<1>8. LossIsTold' BY <1>0 DEF LossIsTold
<1>9. DownlinksAreWatched'
  <2>1. \A d : AlarmOf("T_011", d) \notin own BY AlarmsDiffer
  <2>2. QED BY <1>0, <1>4, <2>1, DownlinkAlarmsKept
<1>10. QED BY <1>3, <1>7, <1>8, <1>9 DEF SearchInv

LEMMA PongMaintained ==
  ASSUME IInv, NEW p \in Peers, OnPongShort(p) \/ OnPongLong(p)
  PROVE  IInv'
<1>1. /\ UNCHANGED <<links, stage, uplink, asked, told, silent, overtaken>>
      /\ ponged' = ponged \cup {p} /\ neighbours' = neighbours \cup {p}
      /\ pings' \subseteq pings
  BY DEF OnPongShort, OnPongLong, NotePong
<1>2. PICK stopped \in SUBSET {AlarmOf("T_007", p), AlarmOf("T_008", p), AlarmOf("T_009", p)} :
        SetAlarms(armed, late, stopped, ResetByShortPong(p))
  BY DEF OnPongShort, OnPongLong, ResetByShortPong
<1>3. /\ armed \subseteq Alarms /\ late \subseteq Alarms
      /\ ponged' \subseteq Peers /\ neighbours' \subseteq Peers
      /\ pings' \subseteq Peers \X {"cached", "short", "long"}
  BY <1>1 DEF IInv, TypeOK
<1>4. QED
  BY <1>1, <1>2, <1>3, MaintainingKeeps DEF ResetByShortPong, Ticks

-----------------------------------------------------------------------------
(* Ticks.                                                                      *)

\* A tick that is taken leaves all alarms but its own.
LEMMA OthersTick ==
  ASSUME NEW k, TakeTick(k)
  PROVE  /\ \A j : j # k /\ Ticks(j) => Ticks(j)'
         /\ armed' \subseteq armed /\ late' \subseteq late
  BY TakingLeavesOthers DEF TakeTick, Ticks

LEMMA TickNoReferrersKeeps ==
  ASSUME IInv, TickNoReferrers
  PROVE  IInv'
<1> DEFINE k == Alarm("T_002")
<1>1. PICK q \in Choosable :
        /\ Establish(q, ArmedAfter(k), LateAfter(k), {})
        /\ pings' = pings \cup {<<q, "short">>}
  BY DEF TickNoReferrers
<1>2. stage = "D3" /\ UNCHANGED <<links, ponged, neighbours, asked, overtaken>>
  BY DEF TickNoReferrers
<1>3. q \in ponged' /\ q \in Peers /\ uplink = {}
  BY <1>2 DEF Choosable, IInv, TypeOK, UplinkHasPonged
<1>4. /\ ponged' \subseteq Peers /\ neighbours' \subseteq Peers /\ asked' \subseteq Peers
      /\ overtaken' \in BOOLEAN
      /\ ArmedAfter(k) \subseteq Alarms /\ LateAfter(k) \subseteq Alarms
  BY <1>2, TakingLeavesOthers DEF IInv, TypeOK
<1>5. \A j \in Alarms : j # k /\ Ticks(j) => j \in ArmedAfter(k) \cup LateAfter(k)
  BY TakingLeavesOthers DEF Ticks
<1>6. Alarm("T_020") \notin ArmedAfter(k)
  BY <1>2, TakingLeavesOthers DEF IInv, NamedAreAwaited
<1>7. QED
  BY <1>1, <1>2, <1>3, <1>4, <1>5, <1>6, EstablishKeeps

LEMMA TickNobodyNamedAnswersKeeps ==
  ASSUME IInv, TickNobodyNamedAnswers
  PROVE  IInv'
<1> DEFINE k == Alarm("T_020")
<1>1. PICK q \in Choosable :
        /\ Establish(q, ArmedAfter(k), LateAfter(k), {})
        /\ pings' = pings \cup {<<q, "short">>}
  BY DEF TickNobodyNamedAnswers
<1>2. /\ UNCHANGED <<links, ponged, neighbours, asked>>
      /\ overtaken' = (overtaken \/ k \in late)
      /\ k \in armed \cup late
  BY DEF TickNobodyNamedAnswers, Ticks
<1>3. q \in ponged' /\ q \in Peers
  BY <1>2 DEF Choosable, IInv, TypeOK
<1>4. /\ ponged' \subseteq Peers /\ neighbours' \subseteq Peers /\ asked' \subseteq Peers
      /\ overtaken' \in BOOLEAN
      /\ ArmedAfter(k) \subseteq Alarms /\ LateAfter(k) \subseteq Alarms
  BY <1>2, TakingLeavesOthers DEF IInv, TypeOK
<1>5. \A j \in Alarms : j # k /\ Ticks(j) => j \in ArmedAfter(k) \cup LateAfter(k)
  BY TakingLeavesOthers DEF Ticks
<1>6. Alarm("T_020") \notin ArmedAfter(k)
  BY DEF IInv, NamedAreAwaited, ArmedAfter
<1>7. overtaken' \/ uplink = {}
  BY <1>2 DEF IInv, NamedAreAwaited, UplinkHasPonged
<1>8. QED
  BY <1>1, <1>2, <1>3, <1>4, <1>5, <1>6, <1>7, EstablishKeeps

LEMMA TickNoNeighbourKeeps ==
  ASSUME IInv, TickNoNeighbour
  PROVE  IInv'
<1> USE DEF IInv
<1> DEFINE k == Alarm("T_040")
<1>1. /\ stage = "D2" /\ stage' = "D21" /\ pings' = pings \cup Cached(Tops)
      /\ UNCHANGED <<downlinks, conn, waiting, notices, once, uplink, ponged, neighbours,
                     asked, told, silent, overtaken>>
      /\ SetAlarms(ArmedAfter(k), LateAfter(k), {}, {Alarm("T_001")})
  BY DEF TickNoNeighbour, links
<1>2. {Alarm("T_001")} \subseteq Alarms BY AlarmTypes
<1>3. armed' \subseteq Alarms /\ late' \subseteq Alarms
  BY <1>1, <1>2, SetAlarmsTypes, TakingLeavesOthers DEF TypeOK
<1>4. TypeOK'
  <2>1. pings' \subseteq Peers \X {"cached", "short", "long"}
    BY <1>1 DEF TypeOK, Cached, Peers
  <2>2. QED BY <1>1, <1>3, <2>1 DEF TypeOK
<1>5. \A j : j # k /\ Ticks(j) => Ticks(j)'
  BY <1>1, AlarmKept, TakingLeavesOthers DEF Ticks
<1>6. NamedAreAwaited'
  <2>1. Alarm("T_020") # Alarm("T_001") BY DEF Alarm
  <2>2. Alarm("T_020") \notin armed \cup late BY <1>1 DEF NamedAreAwaited
  <2>3. QED BY <1>1, <2>1, <2>2, SetAlarmsKeeps, TakingLeavesOthers DEF NamedAreAwaited
<1>7. SearchInv'
  <2>1. Alarm("T_001") # k BY DEF Alarm
  <2>2. uplink = {} BY <1>1 DEF UplinkHasPonged
  <2>3. QED BY <1>1, <1>5, <1>6, <2>1, <2>2, SameUplink DEF SearchInv
<1>8. LossIsTold' BY <1>1 DEF LossIsTold
<1>9. DownlinksAreWatched'
  <2>1. \A d : AlarmOf("T_011", d) # k BY DEF Alarm, AlarmOf
  <2>2. QED BY <1>1, <1>5, <2>1, DownlinkAlarmsKept
<1>10. QED BY <1>4, <1>7, <1>8, <1>9 DEF SearchInv

LEMMA TickPingShortKeeps ==
  ASSUME IInv, NEW p \in Peers, TickPingShort(p)
  PROVE  IInv'
<1> DEFINE k == AlarmOf("T_007", p)
<1>1. /\ pings' = pings \cup {<<p, "short">>}
      /\ UNCHANGED <<links, stage, uplink, ponged, neighbours, asked, told, silent, overtaken>>
      /\ SetAlarms(ArmedAfter(k), LateAfter(k), {}, {k})
  BY DEF TickPingShort
<1>2. /\ ArmedAfter(k) \subseteq armed /\ LateAfter(k) \subseteq late
      /\ \A j : j # k /\ Ticks(j) => j \in ArmedAfter(k) \cup LateAfter(k)
  BY TakingLeavesOthers DEF Ticks
<1>3. /\ ArmedAfter(k) \in SUBSET Alarms /\ LateAfter(k) \in SUBSET Alarms
      /\ ponged' \subseteq Peers /\ neighbours' \subseteq Peers
      /\ pings' \subseteq Peers \X {"cached", "short", "long"}
  BY <1>1, <1>2 DEF IInv, TypeOK
<1>4. QED BY <1>1, <1>2, <1>3, MaintainingKeeps

\* Of the ticks that are only taken, none is T_001's, T_007's or T_009's.
LEMMA TakenTickKeeps ==
  ASSUME IInv, NEW k, TakeTick(k),
         k # Alarm("T_001"),
         \A p \in Peers : k # AlarmOf("T_007", p) /\ k # AlarmOf("T_009", p),
         UNCHANGED <<stage, uplink, ponged, neighbours, asked, told, silent, overtaken>>
  PROVE  /\ SearchInv'
         /\ armed' \subseteq Alarms /\ late' \subseteq Alarms
<1> USE DEF IInv
<1>1. NamedAreAwaited' BY OthersTick DEF NamedAreAwaited
<1>2. uplink \subseteq Peers BY DEF TypeOK
<1>3. SearchInv' BY <1>1, <1>2, OthersTick, SameUplink DEF SearchInv
<1>4. QED BY <1>3, OthersTick DEF TypeOK

LEMMA TickPingLongKeeps ==
  ASSUME IInv, NEW p \in Peers, TickPingLong(p)
  PROVE  IInv'
<1> DEFINE k == AlarmOf("T_008", p)
<1>1. /\ pings' = pings \cup {<<p, "long">>} /\ TakeTick(k)
      /\ UNCHANGED <<downlinks, conn, waiting, notices, once, stage, uplink, ponged, neighbours,
                     asked, told, silent, overtaken>>
  BY DEF TickPingLong, links
<1>2. /\ k # Alarm("T_001")
      /\ \A q \in Peers : k # AlarmOf("T_007", q) /\ k # AlarmOf("T_009", q)
      /\ \A d : AlarmOf("T_011", d) # k
  BY AlarmsDiffer DEF Alarm, AlarmOf
<1>3. SearchInv' /\ armed' \subseteq Alarms /\ late' \subseteq Alarms
  BY <1>1, <1>2, TakenTickKeeps
<1>4. TypeOK'
  <2>1. pings' \subseteq Peers \X {"cached", "short", "long"} BY <1>1 DEF IInv, TypeOK
  <2>2. QED BY <1>1, <1>3, <2>1 DEF IInv, TypeOK
<1>5. LossIsTold' BY <1>1 DEF IInv, LossIsTold
<1>6. DownlinksAreWatched'
  BY <1>1, <1>2, OthersTick, DownlinkAlarmsKept DEF IInv
<1>7. QED BY <1>3, <1>4, <1>5, <1>6 DEF SearchInv, IInv

LEMMA TickDownlinkKeeps ==
  ASSUME IInv, NEW id \in Ids, TickDownlink(id)
  PROVE  IInv'
<1> DEFINE k == AlarmOf("T_011", id)
<1>1. /\ TakeTick(k) /\ downlinks' = downlinks \ {id} /\ once' = once \ {id}
      /\ UNCHANGED <<stage, uplink, ponged, neighbours, pings, asked, conn, waiting, notices,
                     told, silent, overtaken>>
  BY DEF TickDownlink, search
<1>2. /\ k # Alarm("T_001")
      /\ \A q \in Peers : k # AlarmOf("T_007", q) /\ k # AlarmOf("T_009", q)
  BY AlarmsDiffer DEF Alarm, AlarmOf
<1>3. SearchInv' /\ armed' \subseteq Alarms /\ late' \subseteq Alarms
  BY <1>1, <1>2, TakenTickKeeps
<1>4. TypeOK' BY <1>1, <1>3 DEF IInv, TypeOK
<1>5. LossIsTold' BY <1>1 DEF IInv, LossIsTold
<1>6. DownlinksAreWatched'
  <2> SUFFICES ASSUME NEW d \in downlinks \cap Incoming, d # id,
                      Ticks(AlarmOf("T_011", d))
               PROVE  Ticks(AlarmOf("T_011", d))'
    BY <1>1 DEF IInv, DownlinksAreWatched
  <2>1. AlarmOf("T_011", d) # k BY AlarmsDiffer
  <2>2. QED BY <1>1, <2>1, OthersTick
<1>7. QED BY <1>3, <1>4, <1>5, <1>6 DEF SearchInv, IInv

LEMMA TickUselessKeeps ==
  ASSUME IInv, NEW t \in {"T_002", "T_040"}, TickUseless(Alarm(t))
  PROVE  IInv'
<1>1. /\ TakeTick(Alarm(t))
      /\ UNCHANGED <<stage, uplink, ponged, neighbours, pings, asked, downlinks, conn, waiting,
                     notices, once, told, silent, overtaken>>
  BY DEF TickUseless, search, links
<1>2. /\ Alarm(t) # Alarm("T_001")
      /\ \A q \in Peers : Alarm(t) # AlarmOf("T_007", q) /\ Alarm(t) # AlarmOf("T_009", q)
      /\ \A d : AlarmOf("T_011", d) # Alarm(t)
  BY DEF Alarm, AlarmOf
<1>3. SearchInv' /\ armed' \subseteq Alarms /\ late' \subseteq Alarms
  BY <1>1, <1>2, TakenTickKeeps
<1>4. TypeOK' BY <1>1, <1>3 DEF IInv, TypeOK
<1>5. LossIsTold' BY <1>1 DEF IInv, LossIsTold
<1>6. DownlinksAreWatched'
  BY <1>1, <1>2, OthersTick, DownlinkAlarmsKept DEF IInv
<1>7. QED BY <1>3, <1>4, <1>5, <1>6 DEF SearchInv, IInv

LEMMA TickRegisterKeeps ==
  ASSUME IInv, TickRegister
  PROVE  IInv'
<1> DEFINE k == Alarm("T_012")
<1>1. /\ SetAlarms(ArmedAfter(k), LateAfter(k), {}, {k})
      /\ UNCHANGED <<stage, uplink, ponged, neighbours, pings, asked, downlinks, conn, waiting,
                     notices, once, told, silent, overtaken>>
  BY DEF TickRegister, search, links
<1>2. \A j : Ticks(j) => Ticks(j)'
  BY <1>1, SetAlarmsKeeps, TakingLeavesOthers DEF Ticks
<1>3. armed' \subseteq Alarms /\ late' \subseteq Alarms
  BY <1>1, AlarmTypes, SetAlarmsKeeps, TakingLeavesOthers DEF IInv, TypeOK
<1>4. TypeOK' BY <1>1, <1>3 DEF IInv, TypeOK
<1>5. NamedAreAwaited'
  <2>1. Alarm("T_020") # k BY DEF Alarm
  <2>2. QED BY <1>1, <2>1, SetAlarmsKeeps, TakingLeavesOthers DEF IInv, NamedAreAwaited
<1>6. SearchInv' BY <1>1, <1>2, <1>5, SameUplink DEF IInv, SearchInv
<1>7. LossIsTold' BY <1>1 DEF IInv, LossIsTold
<1>8. DownlinksAreWatched' BY <1>1, <1>2, DownlinkAlarmsKept DEF IInv
<1>9. QED BY <1>4, <1>6, <1>7, <1>8 DEF SearchInv, IInv

-----------------------------------------------------------------------------
(* New attempts, and the connections from below.                               *)

\* A new attempt keeps the invariant if it says truthfully what became of the
\* uplink, or is silent about one there was.
LEMMA RestartKeeps ==
  ASSUME IInv, D2Start,
         downlinks' = downlinks \/ downlinks' = {},
         conn' \in [Incoming -> {"open", "going", "closed"}],
         UNCHANGED <<waiting, notices, asked>>,
         told' \in {"unsubscribed", "nothing", "up", "down"}, silent' \in BOOLEAN,
         silent' \/ (told' # "up" /\ downlinks' = {})
  PROVE  IInv'
<1>1. SearchTypes' /\ SearchInv' BY NewAttempt DEF IInv
<1>2. uplink' = {} /\ once' = downlinks' \cap Incoming BY DEF D2Start
<1>3. TypeOK' BY <1>1, <1>2 DEF IInv, TypeOK, SearchTypes
<1>4. LossIsTold' BY <1>2 DEF LossIsTold
<1>5. DownlinksAreWatched' BY <1>2 DEF DownlinksAreWatched
<1>6. QED BY <1>1, <1>3, <1>4, <1>5 DEF IInv, SearchInv

LEMMA AnyRestartKeeps ==
  ASSUME IInv, \/ OnStartService
               \/ TickCommonFailed
               \/ \E p \in Peers : TickPongTimedOut(p) \/ LinkLost(p)
  PROVE  IInv'
<1> USE DEF IInv
<1>1. CASE OnStartService
  <2>1. uplink = {} BY <1>1 DEF OnStartService, UplinkHasPonged
  <2>2. silent \/ (told # "up" /\ downlinks = {}) BY <2>1 DEF LossIsTold
  <2>3. QED BY <1>1, <2>2, RestartKeeps DEF OnStartService, TypeOK
<1>2. CASE TickCommonFailed
  <2>1. /\ silent' = (silent \/ uplink # {}) /\ D2Start
        /\ UNCHANGED <<downlinks, conn, waiting, notices, asked, told>>
    BY <1>2 DEF TickCommonFailed
  <2>2. silent' \in BOOLEAN /\ (silent' \/ (told' # "up" /\ downlinks' = {}))
    BY <2>1 DEF LossIsTold, TypeOK
  <2>3. QED BY <2>1, <2>2, RestartKeeps DEF TypeOK
<1>3. ASSUME NEW p \in Peers, TickPongTimedOut(p) PROVE IInv'
  BY <1>3, RestartKeeps DEF TickPongTimedOut, TypeOK
<1>4. ASSUME NEW p \in Peers, LinkLost(p) PROVE IInv'
  <2>1. /\ told' = IF told = "unsubscribed" THEN told ELSE "down"
        /\ conn' = [d \in Incoming |-> IF d \in downlinks THEN "closed" ELSE conn[d]]
        /\ downlinks' = {} /\ D2Start
        /\ UNCHANGED <<waiting, notices, asked, silent>>
    BY <1>4 DEF LinkLost, DownlinksAfterLoss
  <2>2. conn' \in [Incoming -> {"open", "going", "closed"}] BY <2>1 DEF TypeOK
  <2>3. QED BY <2>1, <2>2, RestartKeeps DEF TypeOK
<1>5. QED BY <1>1, <1>2, <1>3, <1>4

\* Steps of the connections from below leave the search alone.
LEMMA SearchUntouched ==
  ASSUME IInv, UNCHANGED <<search, told, silent, overtaken>>,
         \/ armed' = armed /\ late' = late
         \/ \E id \in Ids : SetAlarms(armed, late, {}, ResetOfDownlink(id))
  PROVE  /\ SearchInv'
         /\ armed' \subseteq Alarms /\ late' \subseteq Alarms
         /\ \A k : Ticks(k) => Ticks(k)'
<1> USE DEF IInv
<1>1. PICK reset \in SUBSET Alarms :
        /\ armed' \subseteq armed \cup reset /\ armed \subseteq armed'
        /\ late' \subseteq late \cup reset /\ late \subseteq late'
        /\ reset \subseteq {AlarmOf("T_011", i) : i \in Ids}
  <2>1. CASE armed' = armed /\ late' = late
    <3>1. /\ {} \in SUBSET Alarms
          /\ armed' \subseteq armed \cup {} /\ armed \subseteq armed'
          /\ late' \subseteq late \cup {} /\ late \subseteq late'
          /\ {} \subseteq {AlarmOf("T_011", i) : i \in Ids}
      BY <2>1
    <3>2. QED BY <3>1
  <2>2. ASSUME NEW id \in Ids, SetAlarms(armed, late, {}, ResetOfDownlink(id))
        PROVE  /\ ResetOfDownlink(id) \in SUBSET Alarms
               /\ armed' \subseteq armed \cup ResetOfDownlink(id) /\ armed \subseteq armed'
               /\ late' \subseteq late \cup ResetOfDownlink(id) /\ late \subseteq late'
               /\ ResetOfDownlink(id) \subseteq {AlarmOf("T_011", i) : i \in Ids}
    <3>1. ResetOfDownlink(id) \subseteq {AlarmOf("T_011", i) : i \in Ids}
      BY DEF ResetOfDownlink
    <3>2. ResetOfDownlink(id) \subseteq Alarms BY AlarmTypes DEF ResetOfDownlink
    <3>3. QED BY <2>2, <3>1, <3>2, SetAlarmsKeeps
  <2>3. QED BY <2>1, <2>2
<1>2. \A k : Ticks(k) => Ticks(k)' BY <1>1 DEF Ticks
<1>3. NamedAreAwaited'
  <2>1. Alarm("T_020") \notin {AlarmOf("T_011", i) : i \in Ids} BY DEF Alarm, AlarmOf
  <2>2. QED BY <1>1, <2>1 DEF NamedAreAwaited, search
<1>4. SearchInv' BY <1>2, <1>3, SameUplink DEF search, SearchInv
<1>5. QED BY <1>1, <1>2, <1>4 DEF TypeOK

LEMMA SubscribeKeeps ==
  ASSUME IInv, OnSubscribeNotifications
  PROVE  IInv'
<1> USE DEF IInv
<1>1. /\ UNCHANGED <<stage, uplink, ponged, neighbours, pings, asked, armed, late, downlinks,
                     conn, waiting, notices, once, silent, overtaken>>
      /\ told' = IF uplink # {} THEN "up" ELSE "nothing"
  BY DEF OnSubscribeNotifications, search, links
<1>2. TypeOK' BY <1>1 DEF TypeOK
<1>3. \A k : Ticks(k) => Ticks(k)' BY <1>1 DEF Ticks
<1>4. NamedAreAwaited' BY <1>1 DEF NamedAreAwaited
<1>5. SearchInv' BY <1>1, <1>3, <1>4, SameUplink DEF SearchInv
<1>6. LossIsTold' BY <1>1 DEF LossIsTold
<1>7. DownlinksAreWatched' BY <1>1, <1>3, DownlinkAlarmsKept
<1>8. QED BY <1>2, <1>5, <1>6, <1>7 DEF SearchInv

\* The end of a connection and its notice only take downlinks away.
LEMMA ConnectionsKeep ==
  ASSUME IInv, NEW d \in Incoming,
         PingArrives(d) \/ PeerLeaves(d) \/ PollerCloses(d) \/ OnOwnEcho(d) \/ OnDisaccepted(d)
  PROVE  IInv'
<1> USE DEF IInv
<1>1. /\ UNCHANGED <<search, told, silent, overtaken>> /\ armed' = armed /\ late' = late
      /\ waiting' \in {waiting, waiting \cup {d}}
      /\ notices' \in {notices, notices \cup {d}, notices \ {d}}
      /\ conn' \in {conn, [conn EXCEPT ![d] = "going"], [conn EXCEPT ![d] = "closed"]}
      /\ \/ downlinks' = downlinks /\ once' = once
         \/ downlinks' = downlinks \ {IdOf(d)} /\ once' = once \ {IdOf(d)}
  BY DEF PingArrives, PeerLeaves, PollerCloses, OnOwnEcho, OnDisaccepted
<1>2. /\ SearchInv' /\ armed' \subseteq Alarms /\ late' \subseteq Alarms
      /\ \A k : Ticks(k) => Ticks(k)'
  BY <1>1, SearchUntouched
<1>3. conn' \in [Incoming -> {"open", "going", "closed"}] BY <1>1 DEF TypeOK
<1>4. TypeOK' BY <1>1, <1>2, <1>3 DEF TypeOK, search
<1>5. LossIsTold' BY <1>1 DEF LossIsTold, search
<1>6. DownlinksAreWatched' BY <1>1, <1>2 DEF DownlinksAreWatched
<1>7. QED BY <1>2, <1>4, <1>5, <1>6 DEF SearchInv

LEMMA PingKeeps ==
  ASSUME IInv, NEW d \in Incoming,
         OnPingTurnedAway(d) \/ \E maintains \in BOOLEAN : OnPing(d, maintains)
  PROVE  IInv'
<1> USE DEF IInv
<1> DEFINE id == IdOf(d)
<1>0. id \in Ids BY DEF IdOf, Ids
<1>1. /\ UNCHANGED <<search, notices, told, silent, overtaken>>
      /\ SetAlarms(armed, late, {}, ResetOfDownlink(id))
      /\ waiting' = waiting \ {d}
      /\ conn' \in {conn, [conn EXCEPT ![d] = "closed"]}
      /\ \/ uplink = {} /\ downlinks' = downlinks /\ once' = once \ {id}
         \/ /\ uplink # {} /\ downlinks' \in {downlinks, downlinks \cup {id}}
            /\ once' = IF id \in downlinks THEN once \ {id}
                       ELSE once \cup ((downlinks' \ downlinks) \cap Incoming)
  BY DEF OnPingTurnedAway, OnPing
<1>2. /\ SearchInv' /\ armed' \subseteq Alarms /\ late' \subseteq Alarms
      /\ \A k : Ticks(k) => Ticks(k)'
  BY <1>0, <1>1, SearchUntouched
<1>3. conn' \in [Incoming -> {"open", "going", "closed"}] BY <1>1 DEF TypeOK
<1>4. TypeOK' BY <1>0, <1>1, <1>2, <1>3 DEF TypeOK, search
<1>5. LossIsTold' BY <1>1 DEF LossIsTold, search
<1>6. DownlinksAreWatched'
  <2> SUFFICES ASSUME NEW e \in downlinks' \cap Incoming, e \notin once'
               PROVE  Ticks(AlarmOf("T_011", e))'
    BY DEF DownlinksAreWatched
  <2>1. CASE e = id /\ e \in downlinks
    <3>1. AlarmOf("T_011", e) \in armed' BY <1>1, <2>1, SetAlarmsKeeps DEF ResetOfDownlink
    <3>2. QED BY <3>1 DEF Ticks
  <2>2. CASE e # id \/ e \notin downlinks
    <3>1. e \in downlinks /\ e \notin once BY <1>1, <2>2
    <3>2. QED BY <1>2, <3>1 DEF DownlinksAreWatched
  <2>3. QED BY <2>1, <2>2
<1>7. QED BY <1>2, <1>4, <1>5, <1>6 DEF SearchInv

-----------------------------------------------------------------------------
(* The theorems.                                                               *)

\* The invariant is inductive.
THEOREM InvariantHolds == Spec => []IInv
<1>1. Init => IInv
  BY DEF Init, IInv, TypeOK, SearchGoesOn, UplinkIsWatched, UplinkHasPonged, NamedAreAwaited,
         OneUplink, LossIsTold, DownlinksAreWatched, Ids
<1>2. ASSUME IInv, [Next]_vars PROVE IInv'
  <2>1. CASE OnStartService BY <1>2, <2>1, AnyRestartKeeps
  <2>2. CASE OnSubscribeNotifications BY <1>2, <2>2, SubscribeKeeps
  <2>3. CASE OnTickAlarm
    BY <1>2, <2>3, AnyRestartKeeps, TickNoReferrersKeeps, TickNobodyNamedAnswersKeeps,
       TickNoNeighbourKeeps, TickPingShortKeeps, TickPingLongKeeps, TickDownlinkKeeps,
       TickRegisterKeeps, TickUselessKeeps DEF OnTickAlarm
  <2>4. ASSUME NEW p \in Peers, FromAbove(p) PROVE IInv'
    <3>1. CASE OnPong(p)
      BY <1>2, <3>1, PongStartsD3, PongInD31, PongOnlyNoted, PongMaintained DEF OnPong
    <3>2. CASE OnNoReferrers(p) BY <1>2, <3>2, NoReferrers
    <3>3. CASE \E rs \in SUBSET Nodes \ {{}} : OnReferrers(p, rs)
      BY <1>2, <3>3, Referrers
    <3>4. CASE OnReferrersTooLate(p) BY <1>2, <3>4, ReferrersTooLate
    <3>5. CASE LinkLost(p) BY <1>2, <3>5, AnyRestartKeeps
    <3>6. QED BY <2>4, <3>1, <3>2, <3>3, <3>4, <3>5 DEF FromAbove
  <2>5. ASSUME NEW d \in Incoming, FromBelow(d) PROVE IInv'
    BY <1>2, <2>5, ConnectionsKeep, PingKeeps DEF FromBelow
  <2>6. CASE UNCHANGED vars
    BY <1>2, <2>6 DEF vars, search, links, IInv, TypeOK, SearchGoesOn, UplinkIsWatched,
       UplinkHasPonged, NamedAreAwaited, OneUplink, LossIsTold, DownlinksAreWatched, Ticks
  <2>7. QED BY <1>2, <2>1, <2>2, <2>3, <2>4, <2>5, <2>6 DEF Next
<1>3. QED BY <1>1, <1>2, PTL DEF Spec

\* The variables keep their types.
THEOREM Types == Spec => []TypeOK
  BY InvariantHolds, PTL DEF IInv

\* A node without an uplink goes on looking for one, and an uplink is pinged or
\* has a time to answer by, for any servers, nodes and connections.
THEOREM NeverStuck == Spec => []GoesOn
<1>1. IInv => GoesOn BY DEF IInv, GoesOn
<1>2. QED BY <1>1, InvariantHolds, PTL

\* There is one uplink unless a tick of T_020 was late.
THEOREM UplinkIsOne == Spec => []OneUplink
  BY InvariantHolds, PTL DEF IInv

\* An uplink has answered in the attempt that chose it.
THEOREM UplinksHavePonged == Spec => []UplinkHasPonged
  BY InvariantHolds, PTL DEF IInv

\* The subscriber knows of the uplink, and downlinks go with it, unless T_001 or
\* T_009 gave it up.
THEOREM LossesAreTold == Spec => []LossIsTold
  BY InvariantHolds, PTL DEF IInv

\* A downlink whose connection has ended is about to be removed, or pinged once.
THEOREM DeadDownlinksAreWatched == Spec => []DeadDownlinkIsWatched
<1>1. IInv => DeadDownlinkIsWatched
  BY DEF IInv, DownlinksAreWatched, DeadDownlinkIsWatched
<1>2. QED BY <1>1, InvariantHolds, PTL
=============================================================================
