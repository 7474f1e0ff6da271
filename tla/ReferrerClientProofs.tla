------------------------ MODULE ReferrerClientProofs ------------------------
(* What ReferrerClient's runs check on a small instance, proved for every set  *)
(* of peers and every way in which they see the client.                        *)
EXTENDS ReferrerClient, TLAPS

-----------------------------------------------------------------------------
(* What setting alarms and taking ticks keep.                                  *)

\* Alarms are told apart by their name and their argument.
LEMMA AlarmsDiffer ==
  ASSUME NEW t, NEW u, NEW x, NEW y
  PROVE  AlarmOf(t, x) = AlarmOf(u, y) <=> t = u /\ x = y
  BY DEF AlarmOf

\* An alarm that has not gone off stays with the timer unless it is stopped,
\* and one that has stays in the queue.
LEMMA SetAlarmsKeeps ==
  ASSUME NEW a, NEW l, NEW stopped, NEW reset, SetAlarms(a, l, stopped, reset)
  PROVE  /\ armed' = (a \ stopped) \cup reset
         /\ l \subseteq late'
         /\ late' \subseteq l \cup (a \cap (stopped \cup reset))
  BY DEF SetAlarms

\* Taking the tick of k leaves every other alarm where it is.
LEMMA TakingLeavesOthers ==
  ASSUME NEW k
  PROVE  /\ ArmedAfter(k) \subseteq armed
         /\ LateAfter(k) \subseteq late
         /\ \A j : j # k => (j \in armed <=> j \in ArmedAfter(k))
         /\ \A j : j # k => (j \in late <=> j \in LateAfter(k))
  BY DEF ArmedAfter, LateAfter

\* An alarm is kept unless it is stopped.
LEMMA AlarmKept ==
  ASSUME NEW a, NEW l, NEW stopped, NEW reset, SetAlarms(a, l, stopped, reset),
         NEW k, k \in a \cup l, k \notin stopped \/ k \in reset
  PROVE  Ticks(k)'
  BY SetAlarmsKeeps DEF Ticks

\* The types of what SetAlarms leaves.
LEMMA SetAlarmsTypes ==
  ASSUME NEW A, NEW a \in SUBSET A, NEW l \in SUBSET A, NEW stopped,
         NEW reset \in SUBSET A, SetAlarms(a, l, stopped, reset)
  PROVE  armed' \subseteq A /\ late' \subseteq A
  BY SetAlarmsKeeps

-----------------------------------------------------------------------------

\* A subscriber that knows of an uplink has been sent the configuration there
\* is, or else subscribed too early to be.
ConfigIsGiven ==
  (told # "unsubscribed" /\ config_bod # None /\ ~gap) => given

\* A peer below which the client hangs has sent its configuration.
ConfigIsSent == downlinked \cap changed \subseteq sent

IInv ==
  /\ TypeOK
  /\ GoesOn
  /\ LossIsTold
  /\ ConfigIsGiven
  /\ ConfigIsSent

\* The alarms that the actions name are alarms.
LEMMA AlarmTypes ==
  /\ \A t \in {"T_001", "T_002", "T_020", "T_040"} : Alarm(t) \in Alarms
  /\ \A t \in {"T_007", "T_008", "T_009"}, p \in Peers : AlarmOf(t, p) \in Alarms
  BY DEF Alarm, AlarmOf, Alarms

-----------------------------------------------------------------------------
(* A new attempt.                                                              *)

\* Whatever has begun the attempt, it has T_001 and no uplink.
LEMMA NewAttempt ==
  ASSUME IInv, D2Start, UNCHANGED news,
         downlinked' \subseteq downlinked, sent' \subseteq Peers,
         sent \cap downlinked' \subseteq sent', UNCHANGED <<asked, changed>>,
         silent' \in BOOLEAN, silent => silent',
         \/ told' = told /\ (uplink # {} => silent')
         \/ told' = ToldDown
  PROVE  IInv'
<1> USE DEF IInv
<1>1. /\ stage' \in {"D2", "D21"} /\ uplink' = {} /\ ponged' = {} /\ sockets' = {}
      /\ neighbours' = {} /\ named' = {} /\ late' = {}
      /\ Alarm("T_001") \in armed' /\ armed' \subseteq {Alarm("T_001"), Alarm("T_040")}
      /\ pings' \subseteq Peers \X {"cached"}
  BY ClientAssumption DEF D2Start, D2Alarms, Cached, TypeOK
<1>2. /\ UNCHANGED <<config_bod, given, gap>>
      /\ told' \in {"unsubscribed", "nothing", "up", "down"}
      /\ told' = "unsubscribed" <=> told = "unsubscribed"
      /\ (told' = told /\ (uplink # {} => silent')) \/ told' # "up"
  BY DEF news, TypeOK, ToldDown
<1>3. armed' \subseteq Alarms BY <1>1, AlarmTypes
<1>4. TypeOK'
  <2>1. /\ downlinked' \subseteq Peers /\ asked' \subseteq Peers /\ changed' \subseteq Peers
        /\ config_bod' \in Peers \cup {None} /\ given' \in BOOLEAN /\ gap' \in BOOLEAN
    BY <1>2 DEF TypeOK
  <2>2. pings' \subseteq Peers \X {"cached", "short", "long"} BY <1>1
  <2>3. QED BY <1>1, <1>2, <1>3, <2>1, <2>2 DEF TypeOK
<1>5. GoesOn'
  <2>1. Ticks(Alarm("T_001"))' BY <1>1 DEF Ticks
  <2>2. QED BY <1>1, <2>1 DEF GoesOn
<1>6. LossIsTold' BY <1>1, <1>2 DEF LossIsTold
<1>7. ConfigIsGiven' BY <1>2 DEF ConfigIsGiven
<1>8. ConfigIsSent' BY DEF ConfigIsSent
<1>9. QED BY <1>4, <1>5, <1>6, <1>7, <1>8

\* InitClient, T_001, T_009.
LEMMA SilentRestart ==
  ASSUME IInv, OnInitClient \/ TickCommonFailed \/ \E p \in Peers : TickPongTimedOut(p)
  PROVE  IInv'
<1>1. /\ D2Start /\ UNCHANGED <<asked, peers, news, told>>
      /\ silent' \in BOOLEAN
      /\ silent => silent'
      /\ uplink # {} => silent'
  BY DEF OnInitClient, TickCommonFailed, TickPongTimedOut, IInv, TypeOK
<1>2. downlinked' = downlinked /\ sent' = sent /\ changed' = changed
  BY <1>1 DEF peers
<1>3. sent' \subseteq Peers BY <1>2 DEF IInv, TypeOK
<1>4. QED BY <1>1, <1>2, <1>3, NewAttempt

LEMMA LinkLostKeeps ==
  ASSUME IInv, NEW p \in Peers, LinkLost(p)
  PROVE  IInv'
<1>1. /\ downlinked' = downlinked \ {p} /\ sent' = sent \ {p}
      /\ UNCHANGED <<asked, changed, news, silent>>
  BY DEF LinkLost
<1>2. /\ sent' \subseteq Peers /\ silent' \in BOOLEAN
  BY <1>1 DEF IInv, TypeOK
<1>3. CASE told' = ToldDown /\ D2Start
  BY <1>1, <1>2, <1>3, NewAttempt
<1>4. CASE UNCHANGED <<stage, uplink, ponged, sockets, neighbours, pings, named,
                       armed, late, told>>
  <2>1. TypeOK' BY <1>1, <1>4 DEF IInv, TypeOK, news
  <2>2. GoesOn' BY <1>4 DEF IInv, GoesOn, Ticks
  <2>3. LossIsTold' BY <1>1, <1>4 DEF IInv, LossIsTold
  <2>4. ConfigIsGiven' BY <1>1, <1>4 DEF IInv, ConfigIsGiven, news
  <2>5. ConfigIsSent' BY <1>1 DEF IInv, ConfigIsSent
  <2>6. QED BY <2>1, <2>2, <2>3, <2>4, <2>5 DEF IInv
<1>5. QED BY <1>3, <1>4 DEF LinkLost

-----------------------------------------------------------------------------
(* A new uplink.                                                               *)

\* Whoever is chosen is watched by T_007, and an uplink there was already is
\* watched as before.
LEMMA EstablishKeeps ==
  ASSUME IInv, NEW q \in Peers, NEW known,
         NEW a \in SUBSET Alarms, NEW l \in SUBSET Alarms, NEW others,
         others \subseteq {Alarm("T_002"), Alarm("T_020")},
         \A p \in Peers, t \in {"T_007", "T_009"} :
           Ticks(AlarmOf(t, p)) => AlarmOf(t, p) \in a \cup l,
         ponged' \subseteq Peers, neighbours' \subseteq Peers, asked' \subseteq Peers,
         pings' \subseteq pings \cup {<<q, "short">>},
         UNCHANGED <<sent, changed, news>>,
         Establish(q, known, a, l, others)
  PROVE  IInv'
<1> USE DEF IInv
<1> DEFINE stopped == others \cup {Alarm("T_001")}
           reset == {AlarmOf("T_007", q)}
<1>1. /\ stage' = "D6" /\ uplink' = uplink \cup {q} /\ silent' = FALSE
      /\ told' = IF told = "unsubscribed" THEN told ELSE "up"
      /\ sockets' = {} /\ named' = {} /\ downlinked' \subseteq downlinked
      /\ SetAlarms(a, l, stopped, reset)
      /\ UNCHANGED <<config_bod, given, gap>>
  BY DEF Establish, news
<1>2. reset \subseteq Alarms BY AlarmTypes
<1>3. armed' \subseteq Alarms /\ late' \subseteq Alarms
  BY <1>1, <1>2, SetAlarmsTypes
<1>4. TypeOK'
  <2>1. pings' \subseteq Peers \X {"cached", "short", "long"} BY DEF TypeOK
  <2>2. /\ uplink' \subseteq Peers /\ told' \in {"unsubscribed", "nothing", "up", "down"}
        /\ downlinked' \subseteq Peers
    BY <1>1 DEF TypeOK
  <2>3. QED BY <1>1, <1>3, <2>1, <2>2 DEF TypeOK
<1>5. GoesOn'
  <2> SUFFICES ASSUME NEW p \in uplink'
               PROVE  Ticks(AlarmOf("T_007", p))' \/ Ticks(AlarmOf("T_009", p))'
    BY <1>1 DEF GoesOn
  <2>1. CASE p = q
    <3>1. AlarmOf("T_007", q) \in armed' BY <1>1, SetAlarmsKeeps
    <3>2. QED BY <2>1, <3>1 DEF Ticks
  <2>2. CASE p # q
    <3>1. p \in uplink /\ p \in Peers BY <1>1, <2>2 DEF TypeOK
    <3>2. PICK t \in {"T_007", "T_009"} : Ticks(AlarmOf(t, p))
      BY <3>1 DEF GoesOn
    <3>3. AlarmOf(t, p) \in a \cup l BY <3>1, <3>2
    <3>4. AlarmOf(t, p) \notin stopped BY DEF Alarm, AlarmOf
    <3>5. Ticks(AlarmOf(t, p))' BY <1>1, <3>3, <3>4, AlarmKept
    <3>6. QED BY <3>5
  <2>3. QED BY <2>1, <2>2
<1>6. LossIsTold' BY <1>1 DEF LossIsTold
<1>7. ConfigIsGiven' BY <1>1 DEF ConfigIsGiven
<1>8. ConfigIsSent' BY <1>1 DEF ConfigIsSent
<1>9. QED BY <1>4, <1>5, <1>6, <1>7, <1>8

LEMMA ChoiceKeeps ==
  ASSUME IInv,
         \/ \E p \in Peers : OnPongInD31(p) \/ OnNoReferrers(p)
         \/ \E t \in {"T_002", "T_020"} : TickChooses(t)
  PROVE  IInv'
<1>1. armed \subseteq Alarms /\ late \subseteq Alarms /\ ponged \subseteq Peers
      /\ neighbours \subseteq Peers /\ asked \subseteq Peers
  BY DEF IInv, TypeOK
<1>2. ASSUME NEW p \in Peers, OnPongInD31(p) PROVE IInv'
  <2>1. /\ ponged' = ponged \cup {p} /\ neighbours' = neighbours \cup {p}
        /\ UNCHANGED <<asked, sent, changed, news>>
    BY <1>2 DEF OnPongInD31, Pong
  <2>2. PICK q \in ponged' :
          /\ Establish(q, sockets \cup {p}, armed, late, StoppedByPong)
          /\ pings' = (pings \ {<<p, "cached">>}) \cup {<<q, "short">>}
    BY <1>2 DEF OnPongInD31
  <2>3. q \in Peers /\ pings' \subseteq pings \cup {<<q, "short">>}
    BY <1>1, <2>1, <2>2
  <2>4. StoppedByPong \subseteq {Alarm("T_002"), Alarm("T_020")} BY DEF StoppedByPong
  <2>5. QED BY <1>1, <2>1, <2>2, <2>3, <2>4, EstablishKeeps DEF Ticks
<1>3. ASSUME NEW p \in Peers, OnNoReferrers(p) PROVE IInv'
  <2>1. /\ asked' = asked \ {p} /\ UNCHANGED <<ponged, neighbours, sent, changed, news>>
    BY <1>3 DEF OnNoReferrers
  <2>2. PICK q \in ponged :
          /\ Establish(q, sockets, armed \cup {Alarm("T_001")}, late, {Alarm("T_002")})
          /\ pings' = pings \cup {<<q, "short">>}
    BY <1>3 DEF OnNoReferrers
  <2>3. armed \cup {Alarm("T_001")} \subseteq Alarms BY <1>1, AlarmTypes
  <2>4. q \in Peers BY <1>1, <2>2
  <2>5. QED BY <1>1, <2>1, <2>2, <2>3, <2>4, EstablishKeeps DEF Ticks
<1>4. ASSUME NEW t \in {"T_002", "T_020"}, TickChooses(t) PROVE IInv'
  <2> DEFINE k == Alarm(t)
  <2>1. UNCHANGED <<ponged, neighbours, asked, sent, changed, news>>
    BY <1>4 DEF TickChooses
  <2>2. PICK q \in ponged :
          /\ Establish(q, sockets, ArmedAfter(k), LateAfter(k), {})
          /\ pings' = pings \cup {<<q, "short">>}
    BY <1>4 DEF TickChooses
  <2>3. ArmedAfter(k) \subseteq Alarms /\ LateAfter(k) \subseteq Alarms /\ q \in Peers
    BY <1>1, <2>2, TakingLeavesOthers
  <2>4. ASSUME NEW p \in Peers, NEW u \in {"T_007", "T_009"}, Ticks(AlarmOf(u, p))
        PROVE  AlarmOf(u, p) \in ArmedAfter(k) \cup LateAfter(k)
    <3>1. AlarmOf(u, p) # k BY DEF Alarm, AlarmOf
    <3>2. QED BY <2>4, <3>1, TakingLeavesOthers DEF Ticks
  <2>5. QED BY <1>1, <2>1, <2>2, <2>3, <2>4, EstablishKeeps
<1>5. QED BY <1>2, <1>3, <1>4

-----------------------------------------------------------------------------
(* Steps that change neither the uplink nor what is known of it.               *)

\* Alarms may be set as long as T_001 and those of uplinks are not lost.
LEMMA SearchStep ==
  ASSUME IInv, UNCHANGED <<uplink, peers, news, told, silent>>,
         stage' \in {"crashed", "D2", "D21", "D3", "D31", "D6"} \/ stage' = stage,
         stage \notin {"none", "crashed"} \/ stage' = stage \/ stage' = "crashed",
         ponged' \subseteq Peers, sockets' \subseteq Peers, neighbours' \subseteq Peers,
         asked' \subseteq Peers, named' \subseteq Peers,
         pings' \subseteq Peers \X {"cached", "short", "long"},
         armed' \subseteq Alarms, late' \subseteq Alarms,
         Ticks(Alarm("T_001")) => Ticks(Alarm("T_001"))',
         \A p \in uplink : (Ticks(AlarmOf("T_007", p)) \/ Ticks(AlarmOf("T_009", p)))
                        => (Ticks(AlarmOf("T_007", p)) \/ Ticks(AlarmOf("T_009", p)))'
  PROVE  IInv'
<1>1. /\ UNCHANGED <<downlinked, sent, changed, config_bod, given, gap>>
  BY DEF peers, news
<1>2. TypeOK' BY <1>1 DEF IInv, TypeOK
<1>3. GoesOn' BY DEF IInv, GoesOn
<1>4. LossIsTold' BY DEF IInv, LossIsTold
<1>5. ConfigIsGiven' BY <1>1 DEF IInv, ConfigIsGiven
<1>6. ConfigIsSent' BY <1>1 DEF IInv, ConfigIsSent
<1>7. QED BY <1>2, <1>3, <1>4, <1>5, <1>6 DEF IInv

\* What a pong and a ping leave well-typed.
LEMMA PongTypes ==
  ASSUME TypeOK, NEW p \in Peers, NEW kind, Pong(p, kind)
  PROVE  /\ ponged' \subseteq Peers /\ neighbours' \subseteq Peers
         /\ sockets \cup {p} \subseteq Peers
         /\ pings \ {<<p, kind>>} \subseteq Peers \X {"cached", "short", "long"}
  BY DEF Pong, TypeOK

\* Pongs that find no uplink.
LEMMA PongStep ==
  ASSUME IInv, NEW p \in Peers,
         OnPongStartsD3(p) \/ OnPongThrows(p) \/ OnPongUnawaited(p)
  PROVE  IInv'
<1> USE DEF IInv
<1>1. /\ Pong(p, "cached") /\ pings' = pings \ {<<p, "cached">>}
      /\ sockets' = sockets \cup {p} /\ UNCHANGED <<uplink, named, peers, news, told, silent>>
      /\ asked' \subseteq asked \cup {p}
      /\ stage' = stage \/ (stage \in {"D2", "D21"} /\ stage' = "D3")
      /\ (armed' = armed /\ late' = late) \/ SetAlarms(armed, late, {}, {Alarm("T_001"), Alarm("T_002")})
  BY DEF OnPongStartsD3, OnPongThrows, OnPongUnawaited
<1>2. {Alarm("T_001"), Alarm("T_002")} \subseteq Alarms BY AlarmTypes
<1>3. armed \subseteq Alarms /\ late \subseteq Alarms /\ named \subseteq Peers /\ asked \subseteq Peers
  BY DEF TypeOK
<1>4. armed' \subseteq Alarms /\ late' \subseteq Alarms
  BY <1>1, <1>2, <1>3, SetAlarmsTypes
<1>5. \A k : Ticks(k) => Ticks(k)'
  BY <1>1, AlarmKept DEF Ticks
<1>6. asked' \subseteq Peers /\ named' \subseteq Peers BY <1>1, <1>3
<1>7. QED BY <1>1, <1>4, <1>5, <1>6, PongTypes, SearchStep

\* Pongs of an uplink: T_007 goes as T_009 comes.
LEMMA PongOfUplink ==
  ASSUME IInv, NEW p \in Peers, OnPongShort(p) \/ OnPongLong(p)
  PROVE  IInv'
<1> USE DEF IInv
<1> DEFINE reset == {AlarmOf("T_008", p), AlarmOf("T_009", p)}
<1>1. PICK kind \in {"short", "long"}, stopped \in SUBSET (reset \cup {AlarmOf("T_007", p)}) :
        /\ Pong(p, kind) /\ pings' = pings \ {<<p, kind>>}
        /\ sockets' = sockets \cup {p}
        /\ SetAlarms(armed, late, stopped, reset)
        /\ UNCHANGED <<stage, uplink, asked, named, peers, news, told, silent>>
  <2>1. CASE OnPongShort(p)
    <3>1. reset \cup {AlarmOf("T_007", p)} \in SUBSET (reset \cup {AlarmOf("T_007", p)})
      OBVIOUS
    <3>2. QED BY <2>1, <3>1 DEF OnPongShort
  <2>2. CASE OnPongLong(p)
    <3>1. {} \in SUBSET (reset \cup {AlarmOf("T_007", p)}) OBVIOUS
    <3>2. QED BY <2>2, <3>1 DEF OnPongLong
  <2>3. QED BY <2>1, <2>2
<1>2. reset \subseteq Alarms BY AlarmTypes
<1>3. armed \subseteq Alarms /\ late \subseteq Alarms /\ named \subseteq Peers /\ asked \subseteq Peers
  BY DEF TypeOK
<1>4. armed' \subseteq Alarms /\ late' \subseteq Alarms
  BY <1>1, <1>2, <1>3, SetAlarmsTypes
<1>5. Ticks(Alarm("T_001")) => Ticks(Alarm("T_001"))'
  <2>1. Alarm("T_001") \notin reset \cup {AlarmOf("T_007", p)} BY DEF Alarm, AlarmOf
  <2>2. QED BY <1>1, <2>1, AlarmKept DEF Ticks
<1>6. ASSUME NEW q \in uplink, Ticks(AlarmOf("T_007", q)) \/ Ticks(AlarmOf("T_009", q))
      PROVE  Ticks(AlarmOf("T_007", q))' \/ Ticks(AlarmOf("T_009", q))'
  <2>1. CASE q = p
    <3>1. AlarmOf("T_009", p) \in armed' BY <1>1, SetAlarmsKeeps
    <3>2. QED BY <2>1, <3>1 DEF Ticks
  <2>2. CASE q # p
    <3>1. \A t : AlarmOf(t, q) \notin reset \cup {AlarmOf("T_007", p)}
      BY <2>2, AlarmsDiffer
    <3>2. QED BY <1>1, <1>6, <3>1, AlarmKept DEF Ticks
  <2>3. QED BY <2>1, <2>2
<1>7. QED BY <1>1, <1>3, <1>4, <1>5, <1>6, PongTypes, SearchStep

\* Answers that choose nobody.
LEMMA AnswerStep ==
  ASSUME IInv, NEW p \in Peers,
         OnReferrersTooLate(p) \/ \E rs \in SUBSET Peers \ {{}} : OnReferrers(p, rs)
  PROVE  IInv'
<1> USE DEF IInv
<1>1. armed \subseteq Alarms /\ late \subseteq Alarms BY DEF TypeOK
<1>2. CASE OnReferrersTooLate(p)
  <2>1. /\ UNCHANGED <<stage, uplink, ponged, sockets, neighbours, pings, named,
                       armed, late, peers, news, told, silent>>
        /\ asked' = asked \ {p}
    BY <1>2 DEF OnReferrersTooLate
  <2>2. \A k : Ticks(k) => Ticks(k)' BY <2>1 DEF Ticks
  <2>3. /\ ponged' \subseteq Peers /\ sockets' \subseteq Peers /\ neighbours' \subseteq Peers
        /\ asked' \subseteq Peers /\ named' \subseteq Peers
        /\ pings' \subseteq Peers \X {"cached", "short", "long"}
        /\ armed' \subseteq Alarms /\ late' \subseteq Alarms
    BY <2>1 DEF TypeOK
  <2>4. QED BY <2>1, <2>2, <2>3, SearchStep
<1>3. ASSUME NEW rs \in SUBSET Peers \ {{}}, OnReferrers(p, rs) PROVE IInv'
  <2> DEFINE reset == {Alarm("T_001"), Alarm("T_020")}
  <2>1. /\ stage = "D3" /\ stage' = "D31" /\ named' = rs /\ asked' = asked \ {p}
        /\ pings' = pings
        /\ SetAlarms(armed, late, {Alarm("T_002")}, reset)
        /\ UNCHANGED <<uplink, ponged, sockets, neighbours, peers, news, told, silent>>
    BY <1>3 DEF OnReferrers, PingedOf, Cached
  <2>2. reset \subseteq Alarms BY AlarmTypes
  <2>3. /\ ponged' \subseteq Peers /\ sockets' \subseteq Peers /\ neighbours' \subseteq Peers
        /\ asked' \subseteq Peers /\ named' \subseteq Peers
        /\ pings' \subseteq Peers \X {"cached", "short", "long"}
    BY <2>1 DEF TypeOK
  <2>4. armed' \subseteq Alarms /\ late' \subseteq Alarms
    BY <1>1, <2>1, <2>2, SetAlarmsTypes
  <2>5. \A k : Ticks(k) /\ k # Alarm("T_002") => Ticks(k)'
    BY <2>1, AlarmKept DEF Ticks
  <2>6. Alarm("T_001") # Alarm("T_002") /\ \A t, q : q \in Peers => AlarmOf(t, q) # Alarm("T_002")
    BY ClientAssumption DEF Alarm, AlarmOf
  <2>7. uplink \subseteq Peers BY DEF TypeOK
  <2>8. QED BY <2>1, <2>3, <2>4, <2>5, <2>6, <2>7, SearchStep
<1>4. QED BY <1>2, <1>3

\* Taking the tick of k, and perhaps setting alarms, loses no other alarm.
LEMMA OthersTick ==
  ASSUME NEW k, NEW reset,
         TakeTick(k) \/ SetAlarms(ArmedAfter(k), LateAfter(k), {}, reset)
  PROVE  \A j : j # k /\ Ticks(j) => Ticks(j)'
<1>1. CASE TakeTick(k) BY <1>1, TakingLeavesOthers DEF TakeTick, Ticks
<1>2. CASE SetAlarms(ArmedAfter(k), LateAfter(k), {}, reset)
  BY <1>2, TakingLeavesOthers, SetAlarmsKeeps DEF Ticks
<1>3. QED BY <1>1, <1>2

\* The types of the alarms after that.
LEMMA TickTypes ==
  ASSUME TypeOK, NEW k, NEW reset \in SUBSET Alarms,
         TakeTick(k) \/ SetAlarms(ArmedAfter(k), LateAfter(k), {}, reset)
  PROVE  armed' \subseteq Alarms /\ late' \subseteq Alarms
<1>1. ArmedAfter(k) \subseteq Alarms /\ LateAfter(k) \subseteq Alarms
  BY TakingLeavesOthers DEF TypeOK
<1>2. CASE TakeTick(k) BY <1>1, <1>2 DEF TakeTick
<1>3. CASE SetAlarms(ArmedAfter(k), LateAfter(k), {}, reset)
  BY <1>1, <1>3, SetAlarmsTypes
<1>4. QED BY <1>2, <1>3

\* A tick that gives up no attempt and starts none.
LEMMA TickKeeps ==
  ASSUME IInv, NEW k \in Alarms, NEW reset \in SUBSET Alarms,
         TakeTick(k) \/ SetAlarms(ArmedAfter(k), LateAfter(k), {}, reset),
         k # Alarm("T_001"),
         \A p \in Peers : k # AlarmOf("T_009", p),
         \A p \in Peers : k = AlarmOf("T_007", p) => Ticks(k)',
         UNCHANGED <<uplink, peers, news, told, silent, ponged, sockets, neighbours, asked, named>>,
         stage' = stage \/ (stage = "D2" /\ stage' = "D21"),
         pings' \subseteq pings \cup (Peers \X {"cached", "short", "long"})
  PROVE  IInv'
<1> USE DEF IInv
<1>2. armed' \subseteq Alarms /\ late' \subseteq Alarms BY TickTypes
<1>3. \A j : j # k /\ Ticks(j) => Ticks(j)' BY OthersTick
<1>4. uplink \subseteq Peers BY DEF TypeOK
<1>6. /\ ponged' \subseteq Peers /\ sockets' \subseteq Peers /\ neighbours' \subseteq Peers
      /\ asked' \subseteq Peers /\ named' \subseteq Peers
      /\ pings' \subseteq Peers \X {"cached", "short", "long"}
  BY DEF TypeOK
<1>7. \A p \in uplink : (Ticks(AlarmOf("T_007", p)) \/ Ticks(AlarmOf("T_009", p)))
        => (Ticks(AlarmOf("T_007", p))' \/ Ticks(AlarmOf("T_009", p))')
  BY <1>3, <1>4
<1>8. QED BY <1>2, <1>3, <1>6, <1>7, SearchStep

\* T_040.
LEMMA TickNoNeighbourStep ==
  ASSUME IInv, TickNoNeighbour
  PROVE  IInv'
<1>1. /\ Alarm("T_040") \in Alarms /\ {Alarm("T_001")} \in SUBSET Alarms
      /\ Alarm("T_040") # Alarm("T_001")
      /\ \A t : \A p \in Peers : Alarm("T_040") # AlarmOf(t, p)
  BY AlarmTypes, ClientAssumption DEF Alarm, AlarmOf
<1>2. SetAlarms(ArmedAfter(Alarm("T_040")), LateAfter(Alarm("T_040")), {}, {Alarm("T_001")})
  BY DEF TickNoNeighbour
<1>3. /\ UNCHANGED <<uplink, peers, news, told, silent, ponged, sockets, neighbours, asked, named>>
      /\ stage = "D2" /\ stage' = "D21"
      /\ pings' \subseteq pings \cup (Peers \X {"cached", "short", "long"})
  BY ClientAssumption DEF TickNoNeighbour, Cached
<1>4. QED BY <1>1, <1>2, <1>3, TickKeeps

\* T_007, which is armed again at once.
LEMMA TickPingShortStep ==
  ASSUME IInv, NEW p \in Peers, TickPingShort(p)
  PROVE  IInv'
<1> DEFINE j == AlarmOf("T_007", p)
<1>1. SetAlarms(ArmedAfter(j), LateAfter(j), {}, {j}) BY DEF TickPingShort
<1>2. Ticks(j)' BY <1>1, SetAlarmsKeeps DEF Ticks
<1>3. j \in Alarms /\ {j} \in SUBSET Alarms BY AlarmTypes
<1>4. j # Alarm("T_001") /\ \A q \in Peers : j # AlarmOf("T_009", q)
  BY DEF Alarm, AlarmOf
<1>5. /\ UNCHANGED <<uplink, peers, news, told, silent, ponged, sockets, neighbours, asked, named>>
      /\ stage' = stage
      /\ pings' \subseteq pings \cup (Peers \X {"cached", "short", "long"})
  BY DEF TickPingShort
<1> HIDE DEF j
<1>6. QED BY <1>1, <1>2, <1>3, <1>4, <1>5, TickKeeps

\* T_008.
LEMMA TickPingLongStep ==
  ASSUME IInv, NEW p \in Peers, TickPingLong(p)
  PROVE  IInv'
<1> DEFINE j == AlarmOf("T_008", p)
<1>1. TakeTick(j) BY DEF TickPingLong
<1>2. j \in Alarms /\ {} \in SUBSET Alarms BY AlarmTypes
<1>3. j # Alarm("T_001") /\ \A q \in Peers, t \in {"T_007", "T_009"} : j # AlarmOf(t, q)
  BY DEF Alarm, AlarmOf
<1>4. /\ UNCHANGED <<uplink, peers, news, told, silent, ponged, sockets, neighbours, asked, named>>
      /\ stage' = stage
      /\ pings' \subseteq pings \cup (Peers \X {"cached", "short", "long"})
  BY DEF TickPingLong
<1> HIDE DEF j
<1>5. QED BY <1>1, <1>2, <1>3, <1>4, TickKeeps

\* Ticks nobody has use for.
LEMMA TickUselessStep ==
  ASSUME IInv, NEW t \in {"T_002", "T_040"}, TickUseless(t)
  PROVE  IInv'
<1>1. TakeTick(Alarm(t)) BY DEF TickUseless
<1>2. Alarm(t) \in Alarms /\ {} \in SUBSET Alarms BY AlarmTypes
<1>3. Alarm(t) # Alarm("T_001")
      /\ \A q \in Peers, u \in {"T_007", "T_009"} : Alarm(t) # AlarmOf(u, q)
  BY ClientAssumption DEF Alarm, AlarmOf
<1>4. /\ UNCHANGED <<uplink, peers, news, told, silent, ponged, sockets, neighbours, asked, named>>
      /\ stage' = stage /\ pings' = pings
  BY DEF TickUseless, search
<1>5. QED BY <1>1, <1>2, <1>3, <1>4, TickKeeps

-----------------------------------------------------------------------------
(* Subscribers and the configuration.                                          *)

\* Steps that leave the search and its alarms alone.
LEMMA NewsStep ==
  ASSUME IInv,
         \/ OnSubscribeNotifications
         \/ \E p \in Peers : OnUpdateConfig(p) \/ Peer(p)
  PROVE  IInv'
<1> USE DEF IInv
<1>1. UNCHANGED <<search, armed, late, silent>>
  BY DEF OnSubscribeNotifications, OnUpdateConfig, Peer, PeerTakesDownlink, PeerUpdates,
         PeerForgets, ConfigLost
<1>2. UNCHANGED <<stage, uplink, ponged, sockets, neighbours, pings, asked, named>>
  BY <1>1 DEF search
<1>3. GoesOn' BY <1>1, <1>2 DEF GoesOn, Ticks
<1>4. CASE OnSubscribeNotifications
  <2>1. /\ told = "unsubscribed" /\ told' = IF uplink # {} THEN "up" ELSE "nothing"
        /\ given' = ConfigOnSubscribe /\ gap' = (uplink = {})
        /\ UNCHANGED <<downlinked, sent, changed, config_bod>>
    BY <1>4 DEF OnSubscribeNotifications, peers
  <2>2. told' \in {"up", "nothing"} /\ given' \in BOOLEAN /\ gap' \in BOOLEAN
    BY <2>1 DEF ConfigOnSubscribe
  <2>3. TypeOK' BY <1>1, <1>2, <2>1, <2>2 DEF TypeOK
  <2>4. LossIsTold' BY <1>1, <1>2, <2>1 DEF LossIsTold
  <2>5. ConfigIsGiven' BY <2>1 DEF ConfigIsGiven, ConfigOnSubscribe
  <2>6. ConfigIsSent' BY <2>1 DEF ConfigIsSent
  <2>7. QED BY <1>3, <2>3, <2>4, <2>5, <2>6
<1>5. ASSUME NEW p \in Peers, OnUpdateConfig(p) PROVE IInv'
  <2>1. /\ config_bod' = p /\ given' = (told # "unsubscribed") /\ gap' = FALSE
        /\ UNCHANGED <<downlinked, told>>
        /\ \/ sent' = sent \ {p} /\ changed' = changed \ {p}
           \/ UNCHANGED <<sent, changed>>
    BY <1>5 DEF OnUpdateConfig
  <2>2. TypeOK' BY <1>1, <1>2, <2>1 DEF TypeOK
  <2>3. LossIsTold' BY <1>1, <1>2, <2>1 DEF LossIsTold
  <2>4. ConfigIsGiven' BY <2>1 DEF ConfigIsGiven
  <2>5. ConfigIsSent' BY <2>1 DEF ConfigIsSent
  <2>6. QED BY <1>3, <2>2, <2>3, <2>4, <2>5
<1>6. ASSUME NEW p \in Peers, Peer(p) PROVE IInv'
  <2>1. /\ UNCHANGED <<config_bod, given, gap, told>>
        /\ downlinked' \subseteq Peers /\ sent' \subseteq Peers /\ changed' \subseteq Peers
        /\ downlinked' \cap changed' \subseteq sent'
    BY <1>6 DEF Peer, PeerTakesDownlink, PeerUpdates, PeerForgets, ConfigLost, news, TypeOK,
                ConfigIsSent
  <2>2. TypeOK' BY <1>1, <1>2, <2>1 DEF TypeOK
  <2>3. LossIsTold' BY <1>1, <1>2, <2>1 DEF LossIsTold
  <2>4. ConfigIsGiven' BY <2>1 DEF ConfigIsGiven
  <2>5. ConfigIsSent' BY <2>1 DEF ConfigIsSent
  <2>6. QED BY <1>3, <2>2, <2>3, <2>4, <2>5
<1>7. QED BY <1>4, <1>5, <1>6

-----------------------------------------------------------------------------
\* Every step keeps the invariant.
THEOREM InvariantHolds == Spec => []IInv
<1>1. Init => IInv
  BY DEF Init, IInv, TypeOK, GoesOn, LossIsTold, ConfigIsGiven, ConfigIsSent
<1>2. ASSUME IInv, [Next]_vars PROVE IInv'
  <2>1. CASE OnInitClient BY <1>2, <2>1, SilentRestart
  <2>2. CASE OnDisconnectedBeforeInit
    <3>1. /\ UNCHANGED <<uplink, ponged, sockets, neighbours, pings, asked, named,
                         armed, late, peers, news, told, silent>>
          /\ stage' = "crashed"
      BY <2>2 DEF OnDisconnectedBeforeInit
    <3>2. \A k : Ticks(k) => Ticks(k)' BY <3>1 DEF Ticks
    <3>3. /\ ponged' \subseteq Peers /\ sockets' \subseteq Peers /\ neighbours' \subseteq Peers
          /\ asked' \subseteq Peers /\ named' \subseteq Peers
          /\ pings' \subseteq Peers \X {"cached", "short", "long"}
          /\ armed' \subseteq Alarms /\ late' \subseteq Alarms
      BY <1>2, <3>1 DEF IInv, TypeOK
    <3>4. QED BY <1>2, <3>1, <3>2, <3>3, SearchStep
  <2>3. CASE OnSubscribeNotifications BY <1>2, <2>3, NewsStep
  <2>4. CASE OnTickAlarm
    BY <1>2, <2>4, SilentRestart, ChoiceKeeps, TickNoNeighbourStep,
       TickPingShortStep, TickPingLongStep, TickUselessStep DEF OnTickAlarm
  <2>5. ASSUME NEW p \in Peers, FromAbove(p) PROVE IInv'
    <3>1. CASE OnPong(p)
      BY <1>2, <3>1, PongStep, PongOfUplink, ChoiceKeeps DEF OnPong
    <3>2. CASE OnNoReferrers(p) BY <1>2, <3>2, ChoiceKeeps
    <3>3. CASE OnReferrersTooLate(p) \/ \E rs \in SUBSET Peers \ {{}} : OnReferrers(p, rs)
      BY <1>2, <3>3, AnswerStep
    <3>4. CASE LinkLost(p) BY <1>2, <3>4, LinkLostKeeps
    <3>5. CASE OnUpdateConfig(p) BY <1>2, <3>5, NewsStep
    <3>6. QED BY <2>5, <3>1, <3>2, <3>3, <3>4, <3>5 DEF FromAbove
  <2>6. ASSUME NEW p \in Peers, Peer(p) PROVE IInv' BY <1>2, <2>6, NewsStep
  <2>7. CASE UNCHANGED vars
    BY <1>2, <2>7 DEF IInv, TypeOK, GoesOn, LossIsTold, ConfigIsGiven, ConfigIsSent, Ticks,
                      vars, search, peers, news
  <2>8. QED BY <1>2, <2>1, <2>2, <2>3, <2>4, <2>5, <2>6, <2>7 DEF Next
<1>3. QED BY <1>1, <1>2, PTL DEF Spec

\* Type correctness.
THEOREM Types == Spec => []TypeOK
  BY InvariantHolds, PTL DEF IInv

\* For any peers, and however many ticks are late, the client goes on.
THEOREM NeverStuck == Spec => []GoesOn
  BY InvariantHolds, PTL DEF IInv

\* The subscriber knows of the uplink unless it was given up in silence.
THEOREM LossesAreTold == Spec => []LossIsTold
  BY InvariantHolds, PTL DEF IInv

\* What the uplink has sent last is what the client and its subscriber have.
THEOREM ConfigArrives == Spec => []ConfigIsHad
<1>1. IInv => ConfigIsHad
  <2> SUFFICES ASSUME IInv, NEW p \in (uplink \cap downlinked) \ sent,
                      config_bod = p, told = "up", ~gap
               PROVE  given /\ p \notin changed
    BY DEF ConfigIsHad
  <2>1. p \in Peers /\ p # None BY ClientAssumption DEF IInv, TypeOK
  <2>2. given BY <2>1 DEF IInv, ConfigIsGiven
  <2>3. p \notin changed BY DEF IInv, ConfigIsSent
  <2>4. QED BY <2>2, <2>3
<1>2. QED BY <1>1, InvariantHolds, PTL
=============================================================================
