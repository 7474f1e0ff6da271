----------------------------- MODULE RpcProofs -----------------------------
(* Theorems about the sessions of the RPC service, for every number of senders, *)
(* connections and packets.                                                     *)
EXTENDS Rpc, SequenceTheorems, TLAPS

USE DEF At, Sess

(* Where a thread is says what it has in hand.                                  *)

Creating == {"failed", "failedAgain", "emplace"}
Serving  == {"push", "test", "size", "front", "pop", "send", "esi"}
Holding  == Creating \cup {"ask", "push", "pop", "send"}

Placed ==
  \A t \in Threads :
    /\ thread[t].at \in Creating => Sess(t) \in Outgoing
    /\ thread[t].at \in Serving => Sess(t) \in Conns
    /\ thread[t].at \in Holding => thread[t].pkt \in Packets
    /\ At(t, "esi") => t \in Outgoing /\ Sess(t) \in Outgoing

TypeInv == TypeOK /\ Placed

-----------------------------------------------------------------------------
(* What a step of a thread does to the threads.                                 *)

LEMMA ConnFacts ==
  /\ Outgoing \subseteq Conns /\ Incoming \subseteq Conns
  /\ Conns \subseteq Threads /\ Senders \subseteq Threads /\ "bind" \in Threads
  /\ None \notin Conns
BY ThreadsAssumption DEF Conns, Threads

\* A step of t, after which it is at `where`, with session s and packet m.
Moves(t, where, s, m) ==
  /\ thread' \in [Threads -> [at : Places, sess : Conns \cup {None}, pkt : Packets \cup {None}]]
  /\ \A u \in Threads : u # t => thread'[u] = thread[u]
  /\ thread'[t].at = where /\ thread'[t].sess = s /\ thread'[t].pkt = m

\* Goto moves one thread, which keeps its session and its packet unless it is done.
LEMMA GotoMoves ==
  ASSUME TypeOK, NEW t \in Threads, NEW where \in Places, Goto(t, where)
  PROVE  /\ where # "idle" => Moves(t, where, thread[t].sess, thread[t].pkt)
         /\ where = "idle" => Moves(t, "idle", None, None)
<1> DEFINE Kinds == [at : Places, sess : Conns \cup {None}, pkt : Packets \cup {None}]
<1>1. thread \in [Threads -> Kinds] BY DEF TypeOK
<1>2. CASE where = "idle"
  <2>1. Resting \in Kinds BY DEF Resting, Places
  <2>2. thread' = [thread EXCEPT ![t] = Resting] BY <1>2 DEF Goto
  <2>3. thread' \in [Threads -> Kinds] BY <1>1, <2>1, <2>2
  <2>4. QED BY <1>1, <1>2, <2>2, <2>3 DEF Moves, Resting
<1>3. CASE where # "idle"
  <2> DEFINE r == [thread[t] EXCEPT !.at = where]
  <2>1. thread[t] \in Kinds BY <1>1
  <2>2. r \in Kinds /\ r.at = where /\ r.sess = thread[t].sess /\ r.pkt = thread[t].pkt BY <2>1
  <2>3. thread' = [thread EXCEPT ![t] = r] BY <1>3 DEF Goto
  <2> HIDE DEF r
  <2>4. thread' \in [Threads -> Kinds] BY <1>1, <2>2, <2>3
  <2>5. QED BY <1>1, <1>3, <2>2, <2>3, <2>4 DEF Moves
<1>4. QED BY <1>2, <1>3

\* Setting a thread to a record of the right kind.
LEMMA SetMoves ==
  ASSUME TypeOK, NEW t \in Threads, NEW where \in Places,
         NEW s \in Conns \cup {None}, NEW m \in Packets \cup {None},
         thread' = [thread EXCEPT ![t] = [at |-> where, sess |-> s, pkt |-> m]]
  PROVE  Moves(t, where, s, m)
<1> DEFINE Kinds == [at : Places, sess : Conns \cup {None}, pkt : Packets \cup {None}]
<1>1. thread \in [Threads -> Kinds] BY DEF TypeOK
<1>2. QED BY <1>1 DEF Moves

\* A move keeps Placed if what it arrives with fits the place.
LEMMA MovesPlaced ==
  ASSUME Placed, NEW t \in Threads, NEW where, NEW s, NEW m, Moves(t, where, s, m),
         where \in Creating => s \in Outgoing,
         where \in Serving => s \in Conns,
         where \in Holding => m \in Packets,
         where = "esi" => t \in Outgoing /\ s \in Outgoing
  PROVE  Placed'
BY DEF Moves, Placed

\* The same for the steps that set two fields of a thread.
LEMMA FieldsMove ==
  ASSUME TypeOK, NEW t \in Threads, NEW where \in Places,
         NEW s \in Conns \cup {None}, NEW m \in Packets \cup {None}
  PROVE  /\ thread' = [thread EXCEPT ![t].at = where, ![t].pkt = m]
            => Moves(t, where, thread[t].sess, m)
         /\ thread' = [thread EXCEPT ![t].at = where, ![t].sess = s]
            => Moves(t, where, s, thread[t].pkt)
<1> DEFINE Kinds == [at : Places, sess : Conns \cup {None}, pkt : Packets \cup {None}]
<1>1. thread \in [Threads -> Kinds] /\ thread[t] \in Kinds BY DEF TypeOK
<1>2. ASSUME thread' = [thread EXCEPT ![t].at = where, ![t].pkt = m]
      PROVE  Moves(t, where, thread[t].sess, m)
  <2> DEFINE r == [[thread[t] EXCEPT !.at = where] EXCEPT !.pkt = m]
  <2>1. r \in Kinds /\ r.at = where /\ r.sess = thread[t].sess /\ r.pkt = m BY <1>1
  <2>2. thread' = [thread EXCEPT ![t] = r] BY <1>1, <1>2
  <2> HIDE DEF r
  <2>3. thread' \in [Threads -> Kinds] BY <1>1, <2>1, <2>2
  <2>4. QED BY <1>1, <2>1, <2>2, <2>3 DEF Moves
<1>3. ASSUME thread' = [thread EXCEPT ![t].at = where, ![t].sess = s]
      PROVE  Moves(t, where, s, thread[t].pkt)
  <2> DEFINE r == [[thread[t] EXCEPT !.at = where] EXCEPT !.sess = s]
  <2>1. r \in Kinds /\ r.at = where /\ r.sess = s /\ r.pkt = thread[t].pkt BY <1>1
  <2>2. thread' = [thread EXCEPT ![t] = r] BY <1>1, <1>3
  <2> HIDE DEF r
  <2>3. thread' \in [Threads -> Kinds] BY <1>1, <2>1, <2>2
  <2>4. QED BY <1>1, <2>1, <2>2, <2>3 DEF Moves
<1>4. QED BY <1>2, <1>3

-----------------------------------------------------------------------------
(* Where each step takes its thread.                                            *)

LEMMA DrainMoves ==
  ASSUME TypeInv, NEW t \in Threads
  PROVE  /\ Size(t) =>
              /\ At(t, "size") /\ Sess(t) \in Conns
              /\ \/ cache[Sess(t)] = <<>> /\ Moves(t, "idle", None, None)
                 \/ cache[Sess(t)] # <<>> /\ Moves(t, "front", Sess(t), thread[t].pkt)
         /\ Front(t) =>
              /\ At(t, "front") /\ Sess(t) \in Conns
              /\ \/ cache[Sess(t)] = <<>> /\ corrupt' /\ Moves(t, "idle", None, None)
                 \/ /\ cache[Sess(t)] # <<>> /\ corrupt' = corrupt
                    /\ Head(cache[Sess(t)]) \in Packets
                    /\ Moves(t, "pop", Sess(t), Head(cache[Sess(t)]))
         /\ Pop(t) => At(t, "pop") /\ Sess(t) \in Conns /\ Moves(t, "send", Sess(t), thread[t].pkt)
         /\ SendFront(t) => At(t, "send") /\ Sess(t) \in Conns /\ Moves(t, "size", Sess(t), None)
<1>1. thread[t].at \in Serving => Sess(t) \in Conns BY DEF TypeInv, Placed
<1>2. \A x \in {"idle", "front", "pop", "send", "size"} : x \in Places BY DEF Places
<1>3. ASSUME Size(t)
      PROVE  /\ At(t, "size") /\ Sess(t) \in Conns
             /\ \/ cache[Sess(t)] = <<>> /\ Moves(t, "idle", None, None)
                \/ cache[Sess(t)] # <<>> /\ Moves(t, "front", Sess(t), thread[t].pkt)
  <2>1. At(t, "size") /\ Sess(t) \in Conns BY <1>1, <1>3 DEF Size, Serving
  <2>2. Goto(t, SizeOf(Sess(t))) BY <1>3 DEF Size
  <2>3. CASE cache[Sess(t)] = <<>>
    <3>1. Goto(t, "idle") BY <2>2, <2>3 DEF SizeOf
    <3>2. QED BY <1>2, <2>1, <2>3, <3>1, GotoMoves DEF TypeInv
  <2>4. CASE cache[Sess(t)] # <<>>
    <3>1. Goto(t, "front") BY <2>2, <2>4 DEF SizeOf
    <3>2. QED BY <1>2, <2>1, <2>4, <3>1, GotoMoves DEF TypeInv
  <2>5. QED BY <2>3, <2>4
<1>4. ASSUME Front(t)
      PROVE  /\ At(t, "front") /\ Sess(t) \in Conns
             /\ \/ cache[Sess(t)] = <<>> /\ corrupt' /\ Moves(t, "idle", None, None)
                \/ /\ cache[Sess(t)] # <<>> /\ corrupt' = corrupt
                   /\ Head(cache[Sess(t)]) \in Packets
                   /\ Moves(t, "pop", Sess(t), Head(cache[Sess(t)]))
  <2>1. At(t, "front") /\ Sess(t) \in Conns BY <1>1, <1>4 DEF Front, Serving
  <2>2. CASE cache[Sess(t)] = <<>>
    <3>1. corrupt' = TRUE /\ Goto(t, "idle") BY <1>4, <2>2 DEF Front
    <3>2. QED BY <1>2, <2>1, <2>2, <3>1, GotoMoves DEF TypeInv
  <2>3. CASE cache[Sess(t)] # <<>>
    <3>1. cache[Sess(t)] \in Seq(Packets) BY <2>1 DEF TypeInv, TypeOK
    <3>2. Head(cache[Sess(t)]) \in Packets BY <2>3, <3>1
    <3>3. corrupt' = corrupt /\ thread' = [thread EXCEPT ![t].at = "pop", ![t].pkt = Head(cache[Sess(t)])]
      BY <1>4, <2>3 DEF Front
    <3>4. "pop" \in Places /\ None \in Conns \cup {None} /\ Head(cache[Sess(t)]) \in Packets \cup {None}
      BY <1>2, <3>2
    <3>5. Moves(t, "pop", Sess(t), Head(cache[Sess(t)])) BY <3>3, <3>4, FieldsMove DEF TypeInv
    <3>6. QED BY <2>1, <2>3, <3>2, <3>3, <3>5
  <2>4. QED BY <2>2, <2>3
<1>5. ASSUME Pop(t)
      PROVE  At(t, "pop") /\ Sess(t) \in Conns /\ Moves(t, "send", Sess(t), thread[t].pkt)
  <2>1. At(t, "pop") /\ Goto(t, "send") /\ Sess(t) \in Conns BY <1>1, <1>5 DEF Pop, Serving
  <2>2. QED BY <1>2, <2>1, GotoMoves DEF TypeInv
<1>6. ASSUME SendFront(t)
      PROVE  At(t, "send") /\ Sess(t) \in Conns /\ Moves(t, "size", Sess(t), None)
  <2>1. At(t, "send") /\ Sess(t) \in Conns BY <1>1, <1>6 DEF SendFront, Serving
  <2>2. thread' = [thread EXCEPT ![t].at = "size", ![t].pkt = None] BY <1>6 DEF SendFront
  <2>3. "size" \in Places /\ None \in Conns \cup {None} /\ None \in Packets \cup {None} BY <1>2
  <2>4. Moves(t, "size", Sess(t), None) BY <2>2, <2>3, FieldsMove DEF TypeInv
  <2>5. QED BY <2>1, <2>4
<1>7. QED BY <1>3, <1>4, <1>5, <1>6

LEMMA DrainEntered ==
  ASSUME TypeInv, NEW t \in Threads, EnterDrain(t)
  PROVE  Moves(t, "size", Sess(t), thread[t].pkt)
<1>1. Goto(t, "size") /\ "size" \in Places BY DEF EnterDrain, Places
<1>2. QED BY <1>1, GotoMoves DEF TypeInv

LEMMA SenderMoves ==
  ASSUME TypeInv, NEW t \in Threads
  PROVE  /\ Push(t) => At(t, "push") /\ Sess(t) \in Conns /\ thread[t].pkt \in Packets
                       /\ Moves(t, "test", Sess(t), None)
         /\ TestEsi(t) => At(t, "test") /\ Sess(t) \in Conns
              /\ \/ Valid(Sess(t)) /\ EnterDrain(t) /\ Moves(t, "size", Sess(t), thread[t].pkt)
                 \/ ~Valid(Sess(t)) /\ Moves(t, "idle", None, None) /\ UNCHANGED raced
         /\ FailedAtOnce(t) => Sess(t) \in Outgoing
              /\ \/ At(t, "failed") /\ Moves(t, "failedAgain", Sess(t), thread[t].pkt)
                 \/ At(t, "failedAgain") /\ Moves(t, "emplace", Sess(t), thread[t].pkt)
         /\ Emplace(t) => At(t, "emplace") /\ Sess(t) \in Outgoing
                          /\ Moves(t, "push", Sess(t), thread[t].pkt)
<1>1. /\ thread[t].at \in Serving => Sess(t) \in Conns
      /\ thread[t].at \in Creating => Sess(t) \in Outgoing
      /\ thread[t].at \in Holding => thread[t].pkt \in Packets
  BY DEF TypeInv, Placed
<1>2. \A x \in {"idle", "test", "size", "failedAgain", "emplace", "push"} : x \in Places BY DEF Places
<1>3. ASSUME Push(t)
      PROVE  At(t, "push") /\ Sess(t) \in Conns /\ thread[t].pkt \in Packets
             /\ Moves(t, "test", Sess(t), None)
  <2>1. At(t, "push") /\ Sess(t) \in Conns /\ thread[t].pkt \in Packets
    BY <1>1, <1>3 DEF Push, Serving, Holding
  <2>2. thread' = [thread EXCEPT ![t].at = "test", ![t].pkt = None] BY <1>3 DEF Push
  <2>3. "test" \in Places /\ None \in Conns \cup {None} /\ None \in Packets \cup {None} BY <1>2
  <2>4. Moves(t, "test", Sess(t), None) BY <2>2, <2>3, FieldsMove DEF TypeInv
  <2>5. QED BY <2>1, <2>4
<1>4. ASSUME TestEsi(t)
      PROVE  At(t, "test") /\ Sess(t) \in Conns
             /\ \/ Valid(Sess(t)) /\ EnterDrain(t) /\ Moves(t, "size", Sess(t), thread[t].pkt)
                \/ ~Valid(Sess(t)) /\ Moves(t, "idle", None, None) /\ UNCHANGED raced
  <2>1. At(t, "test") /\ Sess(t) \in Conns BY <1>1, <1>4 DEF TestEsi, Serving
  <2>2. CASE Valid(Sess(t))
    <3>1. EnterDrain(t) BY <1>4, <2>2 DEF TestEsi, EsiSeen
    <3>2. QED BY <2>1, <2>2, <3>1, DrainEntered
  <2>3. CASE ~Valid(Sess(t))
    <3>1. Goto(t, "idle") /\ UNCHANGED raced BY <1>4, <2>3 DEF TestEsi, EsiSeen
    <3>2. QED BY <1>2, <2>1, <2>3, <3>1, GotoMoves DEF TypeInv
  <2>4. QED BY <2>2, <2>3
<1>5. ASSUME FailedAtOnce(t)
      PROVE  Sess(t) \in Outgoing
             /\ \/ At(t, "failed") /\ Moves(t, "failedAgain", Sess(t), thread[t].pkt)
                \/ At(t, "failedAgain") /\ Moves(t, "emplace", Sess(t), thread[t].pkt)
  <2>1. \/ At(t, "failed") /\ Goto(t, "failedAgain")
        \/ At(t, "failedAgain") /\ Goto(t, "emplace")
    BY <1>5 DEF FailedAtOnce
  <2>2. Sess(t) \in Outgoing BY <1>1, <2>1 DEF Creating
  <2>3. QED BY <1>2, <2>1, <2>2, GotoMoves DEF TypeInv
<1>6. ASSUME Emplace(t)
      PROVE  At(t, "emplace") /\ Sess(t) \in Outgoing /\ Moves(t, "push", Sess(t), thread[t].pkt)
  <2>1. At(t, "emplace") /\ Goto(t, "push") BY <1>6 DEF Emplace
  <2>2. Sess(t) \in Outgoing BY <1>1, <2>1 DEF Creating
  <2>3. QED BY <1>2, <2>1, <2>2, GotoMoves DEF TypeInv
<1>7. QED BY <1>3, <1>4, <1>5, <1>6

LEMMA RequestMoves ==
  ASSUME TypeInv, NEW t \in Threads
  PROVE  /\ \A m \in Packets : FindSession(t, m) => At(t, "idle")
              /\ Moves(t, IF sa2Session = None THEN "ask" ELSE "push", sa2Session, m)
         /\ \A c \in Incoming, m \in Packets : PassPacket(t, c, m) => At(t, "idle") /\ Moves(t, "push", c, m)
         /\ \A c \in Outgoing : Ask(t, c) => At(t, "ask") /\ stage[c] = "idle" /\ thread[t].pkt \in Packets
              /\ \/ stage' = [stage EXCEPT ![c] = "asked"] /\ Moves(t, "emplace", c, thread[t].pkt)
                 \/ stage' = [stage EXCEPT ![c] = "down"] /\ Moves(t, "failed", c, thread[t].pkt)
                 \/ stage' = [stage EXCEPT ![c] = "silent"] /\ Moves(t, "emplace", c, thread[t].pkt)
<1>1. \A x \in {"ask", "push", "emplace", "failed"} : x \in Places BY DEF Places
<1>2. ASSUME NEW m \in Packets, FindSession(t, m)
      PROVE  At(t, "idle") /\ Moves(t, IF sa2Session = None THEN "ask" ELSE "push", sa2Session, m)
  <2> DEFINE w == IF sa2Session = None THEN "ask" ELSE "push"
  <2>1. At(t, "idle") /\ thread' = [thread EXCEPT ![t] = [at |-> w, sess |-> sa2Session, pkt |-> m]]
    BY <1>2 DEF FindSession
  <2>2. w \in Places /\ sa2Session \in Conns \cup {None} /\ m \in Packets \cup {None}
    BY <1>1, ConnFacts DEF TypeInv, TypeOK
  <2> HIDE DEF w
  <2>3. Moves(t, w, sa2Session, m) BY <2>1, <2>2, SetMoves DEF TypeInv
  <2>4. QED BY <2>1, <2>3 DEF w
<1>3. ASSUME NEW c \in Incoming, NEW m \in Packets, PassPacket(t, c, m)
      PROVE  At(t, "idle") /\ Moves(t, "push", c, m)
  <2>1. At(t, "idle") /\ thread' = [thread EXCEPT ![t] = [at |-> "push", sess |-> c, pkt |-> m]]
    BY <1>3 DEF PassPacket
  <2>2. "push" \in Places /\ c \in Conns \cup {None} /\ m \in Packets \cup {None} BY <1>1, ConnFacts
  <2>3. QED BY <2>1, <2>2, SetMoves DEF TypeInv
<1>4. ASSUME NEW c \in Outgoing, Ask(t, c)
      PROVE  /\ At(t, "ask") /\ stage[c] = "idle" /\ thread[t].pkt \in Packets
             /\ \/ stage' = [stage EXCEPT ![c] = "asked"] /\ Moves(t, "emplace", c, thread[t].pkt)
                \/ stage' = [stage EXCEPT ![c] = "down"] /\ Moves(t, "failed", c, thread[t].pkt)
                \/ stage' = [stage EXCEPT ![c] = "silent"] /\ Moves(t, "emplace", c, thread[t].pkt)
  <2>1. /\ At(t, "ask") /\ stage[c] = "idle"
        /\ \/ stage' = [stage EXCEPT ![c] = "asked"] /\ thread' = [thread EXCEPT ![t].at = "emplace", ![t].sess = c]
           \/ stage' = [stage EXCEPT ![c] = "down"] /\ thread' = [thread EXCEPT ![t].at = "failed", ![t].sess = c]
           \/ stage' = [stage EXCEPT ![c] = "silent"] /\ thread' = [thread EXCEPT ![t].at = "emplace", ![t].sess = c]
    BY <1>4 DEF Ask
  <2>2. thread[t].pkt \in Packets BY <2>1 DEF TypeInv, Placed, Holding
  <2>3. c \in Conns \cup {None} /\ None \in Packets \cup {None} BY ConnFacts
  <2>4. \A w \in {"emplace", "failed"} :
          thread' = [thread EXCEPT ![t].at = w, ![t].sess = c] => Moves(t, w, c, thread[t].pkt)
    BY <1>1, <2>3, FieldsMove DEF TypeInv
  <2>5. QED BY <2>1, <2>2, <2>4
<1>5. QED BY <1>2, <1>3, <1>4

LEMMA HandlerMoves ==
  ASSUME TypeInv, NEW c \in Conns
  PROVE  /\ SetEsi(c) => At(c, "esi") /\ c \in Outgoing /\ Sess(c) \in Outgoing
                         /\ EnterDrain(c) /\ Moves(c, "size", Sess(c), thread[c].pkt)
         /\ Ends(c) => At(c, "idle") /\ Moves(c, "erase", Sess(c), thread[c].pkt)
         /\ Erase(c) => At(c, "erase") /\ Moves(c, "idle", None, None)
         /\ FindConnected(c) => At(c, "idle")
              /\ \/ sa2Session = None /\ Moves(c, "idle", None, None)
                 \/ sa2Session \in Outgoing /\ Moves(c, "esi", sa2Session, None)
         /\ NotifyBindAddress(c) => At("bind", "idle") /\ Moves("bind", "size", c, None)
<1>1. \A x \in {"idle", "esi", "size", "erase"} : x \in Places BY DEF Places
<1>2. c \in Threads BY ConnFacts
<1>3. ASSUME SetEsi(c)
      PROVE  /\ At(c, "esi") /\ c \in Outgoing /\ Sess(c) \in Outgoing
             /\ EnterDrain(c) /\ Moves(c, "size", Sess(c), thread[c].pkt)
  <2>1. At(c, "esi") /\ EnterDrain(c) BY <1>3 DEF SetEsi
  <2>2. QED BY <1>2, <2>1, DrainEntered DEF TypeInv, Placed
<1>4. ASSUME Ends(c)
      PROVE  At(c, "idle") /\ Moves(c, "erase", Sess(c), thread[c].pkt)
  <2>1. At(c, "idle") /\ Goto(c, "erase") BY <1>4 DEF Ends
  <2>2. QED BY <1>1, <1>2, <2>1, GotoMoves DEF TypeInv
<1>5. ASSUME Erase(c)
      PROVE  At(c, "erase") /\ Moves(c, "idle", None, None)
  <2>1. At(c, "erase") /\ Goto(c, "idle") BY <1>5 DEF Erase
  <2>2. QED BY <1>1, <1>2, <2>1, GotoMoves DEF TypeInv
<1>6. ASSUME FindConnected(c)
      PROVE  /\ At(c, "idle")
             /\ \/ sa2Session = None /\ Moves(c, "idle", None, None)
                \/ sa2Session \in Outgoing /\ Moves(c, "esi", sa2Session, None)
  <2>1. /\ At(c, "idle")
        /\ thread' = [thread EXCEPT ![c] =
             IF sa2Session = None THEN Resting ELSE [at |-> "esi", sess |-> sa2Session, pkt |-> None]]
    BY <1>6 DEF FindConnected
  <2>2. sa2Session \in Outgoing \cup {None} BY DEF TypeInv, TypeOK
  <2>3. CASE sa2Session = None
    <3>1. thread' = [thread EXCEPT ![c] = [at |-> "idle", sess |-> None, pkt |-> None]]
      BY <2>1, <2>3 DEF Resting
    <3>2. Moves(c, "idle", None, None) BY <1>1, <1>2, <3>1, SetMoves DEF TypeInv
    <3>3. QED BY <2>1, <2>3, <3>2
  <2>4. CASE sa2Session \in Outgoing
    <3>1. thread' = [thread EXCEPT ![c] = [at |-> "esi", sess |-> sa2Session, pkt |-> None]]
      BY <2>1, <2>4, ConnFacts
    <3>2. Moves(c, "esi", sa2Session, None) BY <1>1, <1>2, <2>4, <3>1, ConnFacts, SetMoves DEF TypeInv
    <3>3. QED BY <2>1, <2>4, <3>2
  <2>5. QED BY <2>2, <2>3, <2>4
<1>7. ASSUME NotifyBindAddress(c)
      PROVE  At("bind", "idle") /\ Moves("bind", "size", c, None)
  <2>1. At("bind", "idle")
        /\ thread' = [thread EXCEPT !["bind"] = [at |-> "size", sess |-> c, pkt |-> None]]
    BY <1>7 DEF NotifyBindAddress
  <2>2. Moves("bind", "size", c, None) BY <1>1, <2>1, ConnFacts, SetMoves DEF TypeInv
  <2>3. QED BY <2>1, <2>2
<1>8. QED BY <1>3, <1>4, <1>5, <1>6, <1>7

-----------------------------------------------------------------------------
(* Type correctness.                                                            *)

\* The state apart from the threads.
RestTypes ==
  /\ sa2Session \in Outgoing \cup {None} /\ socketIds \subseteq Incoming
  /\ esi \in [Conns -> Conns \cup {None}]
  /\ cache \in [Conns -> Seq(Packets)]
  /\ stage \in [Conns -> {"idle", "asked", "up", "down", "gone", "silent"}]
  /\ corrupt \in BOOLEAN
  /\ taken \in [Conns -> Seq(Packets)] /\ pushed \in [Conns -> Seq(Packets)]
  /\ raced \in [Conns -> BOOLEAN] /\ late \in [Conns -> BOOLEAN]

LEMMA RestOfTypes == TypeOK => RestTypes
BY DEF TypeOK, RestTypes

LEMMA TypesKept ==
  ASSUME TypeInv, NEW t \in Threads, NEW where, NEW s, NEW m, Moves(t, where, s, m), RestTypes',
         where \in Creating => s \in Outgoing,
         where \in Serving => s \in Conns,
         where \in Holding => m \in Packets,
         where = "esi" => t \in Outgoing /\ s \in Outgoing
  PROVE  TypeInv'
<1>1. Placed' BY MovesPlaced DEF TypeInv
<1>2. TypeOK' BY DEF Moves, RestTypes, TypeOK
<1>3. QED BY <1>1, <1>2 DEF TypeInv

\* Steps that leave the threads alone.
LEMMA TypesKeptStill ==
  ASSUME TypeInv, UNCHANGED thread, RestTypes'
  PROVE  TypeInv'
BY DEF TypeInv, TypeOK, Placed, RestTypes

LEMMA DrainTypes ==
  ASSUME TypeInv, NEW t \in Threads, DoSend(t)
  PROVE  TypeInv'
<1> DEFINE s == Sess(t)
<1>1. RestTypes BY RestOfTypes DEF TypeInv
<1>2. CASE Size(t)
  <2>1. RestTypes' BY <1>1, <1>2 DEF RestTypes, Size, sessionVars, historyVars
  <2>2. s \in Conns /\ (Moves(t, "idle", None, None) \/ Moves(t, "front", s, thread[t].pkt))
    BY <1>2, DrainMoves
  <2>3. QED BY <2>1, <2>2, TypesKept DEF Creating, Serving, Holding
<1>3. CASE Front(t)
  <2>1. s \in Conns
        /\ \/ corrupt' /\ Moves(t, "idle", None, None)
           \/ /\ corrupt' = corrupt /\ Head(cache[s]) \in Packets
              /\ Moves(t, "pop", s, Head(cache[s]))
    BY <1>3, DrainMoves
  <2>2. UNCHANGED <<sessionVars, stage, historyVars>> /\ corrupt' \in BOOLEAN
    BY <1>1, <1>3 DEF Front, RestTypes
  <2>3. RestTypes' BY <1>1, <2>2 DEF RestTypes, sessionVars, historyVars
  <2>4. QED BY <2>1, <2>3, TypesKept DEF Creating, Serving, Holding
<1>4. CASE Pop(t)
  <2>1. s \in Conns /\ Moves(t, "send", s, thread[t].pkt) /\ At(t, "pop") BY <1>4, DrainMoves
  <2>2. thread[t].pkt \in Packets BY <2>1 DEF TypeInv, Placed, Holding
  <2>3. cache[s] \in Seq(Packets) BY <1>1, <2>1 DEF RestTypes
  <2>4. cache[s] # <<>> => Tail(cache[s]) \in Seq(Packets) BY <2>3
  <2>5. cache' \in [Conns -> Seq(Packets)] /\ corrupt' \in BOOLEAN
    BY <1>1, <1>4, <2>1, <2>4 DEF Pop, Popped, RestTypes
  <2>6. UNCHANGED <<sa2Session, socketIds, esi, stage, historyVars>> BY <1>4 DEF Pop
  <2>7. RestTypes' BY <1>1, <2>5, <2>6 DEF RestTypes, historyVars
  <2>8. QED BY <2>1, <2>2, <2>7, TypesKept DEF Creating, Serving, Holding
<1>5. CASE SendFront(t)
  <2>1. s \in Conns /\ Moves(t, "size", s, None) /\ At(t, "send") BY <1>5, DrainMoves
  <2>2. thread[t].pkt \in Packets BY <2>1 DEF TypeInv, Placed, Holding
  <2>3. taken' = [taken EXCEPT ![s] = Append(taken[s], thread[t].pkt)] BY <1>5 DEF SendFront
  <2>4. taken[s] \in Seq(Packets) BY <1>1, <2>1 DEF RestTypes
  <2>5. Append(taken[s], thread[t].pkt) \in Seq(Packets) BY <2>2, <2>4
  <2>6. taken' \in [Conns -> Seq(Packets)] BY <1>1, <2>3, <2>5 DEF RestTypes
  <2>7. UNCHANGED <<sessionVars, stage, corrupt, pushed, raced, late>> BY <1>5 DEF SendFront
  <2>8. RestTypes' BY <1>1, <2>6, <2>7 DEF RestTypes, sessionVars
  <2>9. QED BY <2>1, <2>8, TypesKept DEF Creating, Serving, Holding
<1>6. QED BY <1>2, <1>3, <1>4, <1>5 DEF DoSend

LEMMA SenderTypes ==
  ASSUME TypeInv, NEW t \in Threads,
         Push(t) \/ TestEsi(t) \/ FailedAtOnce(t) \/ Emplace(t)
  PROVE  TypeInv'
<1> DEFINE s == Sess(t)
<1>1. RestTypes BY RestOfTypes DEF TypeInv
<1>2. CASE Push(t)
  <2>1. s \in Conns /\ thread[t].pkt \in Packets /\ Moves(t, "test", s, None) BY <1>2, SenderMoves
  <2>2. /\ cache' = [cache EXCEPT ![s] = Append(cache[s], thread[t].pkt)]
        /\ pushed' = [pushed EXCEPT ![s] = Append(pushed[s], thread[t].pkt)]
    BY <1>2 DEF Push, PushBack
  <2>3. cache[s] \in Seq(Packets) /\ pushed[s] \in Seq(Packets) BY <1>1, <2>1 DEF RestTypes
  <2>4. Append(cache[s], thread[t].pkt) \in Seq(Packets) /\ Append(pushed[s], thread[t].pkt) \in Seq(Packets)
    BY <2>1, <2>3
  <2>5. cache' \in [Conns -> Seq(Packets)] /\ pushed' \in [Conns -> Seq(Packets)]
    BY <1>1, <2>2, <2>4 DEF RestTypes
  <2>6. UNCHANGED <<sa2Session, socketIds, esi, stage, corrupt, taken, raced, late>> BY <1>2 DEF Push
  <2>7. RestTypes' BY <1>1, <2>5, <2>6 DEF RestTypes
  <2>8. QED BY <2>1, <2>7, TypesKept DEF Creating, Serving, Holding
<1>3. CASE TestEsi(t)
  <2>1. At(t, "test") /\ Sess(t) \in Conns
        /\ \/ Valid(Sess(t)) /\ EnterDrain(t) /\ Moves(t, "size", Sess(t), thread[t].pkt)
           \/ ~Valid(Sess(t)) /\ Moves(t, "idle", None, None) /\ UNCHANGED raced
    BY <1>3, SenderMoves
  <2>2. raced' \in [Conns -> BOOLEAN] BY <1>1, <2>1 DEF RestTypes, EnterDrain
  <2>3. UNCHANGED <<sessionVars, stage, corrupt, taken, pushed, late>> BY <1>3 DEF TestEsi
  <2>4. RestTypes' BY <1>1, <2>2, <2>3 DEF RestTypes, sessionVars
  <2>5. QED BY <2>1, <2>4, TypesKept DEF Creating, Serving, Holding
<1>4. CASE FailedAtOnce(t)
  <2>1. s \in Outgoing
        /\ \/ At(t, "failed") /\ Moves(t, "failedAgain", s, thread[t].pkt)
           \/ At(t, "failedAgain") /\ Moves(t, "emplace", s, thread[t].pkt)
    BY <1>4, SenderMoves
  <2>2. thread[t].pkt \in Packets BY <2>1 DEF TypeInv, Placed, Holding, Creating
  <2>3. sa2Session' = None /\ UNCHANGED <<socketIds, esi, cache, stage, corrupt, historyVars>>
    BY <1>4 DEF FailedAtOnce
  <2>4. RestTypes' BY <1>1, <2>3 DEF RestTypes, historyVars
  <2>5. QED BY <2>1, <2>2, <2>4, TypesKept DEF Creating, Serving, Holding
<1>5. CASE Emplace(t)
  <2>1. s \in Outgoing /\ At(t, "emplace") /\ Moves(t, "push", s, thread[t].pkt) BY <1>5, SenderMoves
  <2>2. thread[t].pkt \in Packets BY <2>1 DEF TypeInv, Placed, Holding, Creating
  <2>3. /\ sa2Session' \in Outgoing \cup {None}
        /\ late' \in [Conns -> BOOLEAN]
        /\ UNCHANGED <<socketIds, esi, cache, stage, corrupt, taken, pushed, raced>>
    BY <1>1, <1>5, <2>1 DEF Emplace, Emplaced, RestTypes
  <2>4. RestTypes' BY <1>1, <2>3 DEF RestTypes
  <2>5. QED BY <2>1, <2>2, <2>4, ConnFacts, TypesKept DEF Creating, Serving, Holding
<1>6. QED BY <1>2, <1>3, <1>4, <1>5

LEMMA RequestTypes ==
  ASSUME TypeInv, NEW t \in Threads,
         \/ \E m \in Packets : FindSession(t, m)
         \/ \E c \in Incoming, m \in Packets : PassPacket(t, c, m)
         \/ \E c \in Outgoing : Ask(t, c)
  PROVE  TypeInv'
<1>1. RestTypes BY RestOfTypes DEF TypeInv
<1>2. ASSUME NEW m \in Packets, FindSession(t, m) PROVE TypeInv'
  <2>1. Moves(t, IF sa2Session = None THEN "ask" ELSE "push", sa2Session, m) BY <1>2, RequestMoves
  <2>2. RestTypes' BY <1>1, <1>2 DEF FindSession, RestTypes, sessionVars, historyVars
  <2>3. CASE sa2Session = None
    <3>1. Moves(t, "ask", sa2Session, m) BY <2>1, <2>3
    <3>2. QED BY <2>2, <3>1, TypesKept DEF Creating, Serving, Holding
  <2>4. CASE sa2Session # None
    <3>1. Moves(t, "push", sa2Session, m) BY <2>1, <2>4
    <3>2. sa2Session \in Conns BY <1>1, <2>4, ConnFacts DEF RestTypes
    <3>3. QED BY <2>2, <3>1, <3>2, TypesKept DEF Creating, Serving, Holding
  <2>5. QED BY <2>3, <2>4
<1>3. ASSUME NEW c \in Incoming, NEW m \in Packets, PassPacket(t, c, m) PROVE TypeInv'
  <2>1. Moves(t, "push", c, m) BY <1>3, RequestMoves
  <2>2. RestTypes' BY <1>1, <1>3 DEF PassPacket, RestTypes, sessionVars, historyVars
  <2>3. QED BY <2>1, <2>2, ConnFacts, TypesKept DEF Creating, Serving, Holding
<1>4. ASSUME NEW c \in Outgoing, Ask(t, c) PROVE TypeInv'
  <2>1. /\ At(t, "ask") /\ stage[c] = "idle" /\ thread[t].pkt \in Packets
        /\ \/ stage' = [stage EXCEPT ![c] = "asked"] /\ Moves(t, "emplace", c, thread[t].pkt)
           \/ stage' = [stage EXCEPT ![c] = "down"] /\ Moves(t, "failed", c, thread[t].pkt)
           \/ stage' = [stage EXCEPT ![c] = "silent"] /\ Moves(t, "emplace", c, thread[t].pkt)
    BY <1>4, RequestMoves
  <2>2. UNCHANGED <<sessionVars, corrupt, historyVars>> BY <1>4 DEF Ask
  <2>3. stage' \in [Conns -> {"idle", "asked", "up", "down", "gone", "silent"}]
    BY <1>1, <2>1 DEF RestTypes
  <2>4. RestTypes' BY <1>1, <2>2, <2>3 DEF RestTypes, sessionVars, historyVars
  <2>5. QED BY <2>1, <2>4, TypesKept DEF Creating, Serving, Holding
<1>5. QED BY <1>2, <1>3, <1>4

LEMMA HandlerTypes ==
  ASSUME TypeInv, NEW c \in Conns,
         Handler(c) \/ Ends(c) \/ ClosedDirectly(c) \/ NotifyBindAddress(c)
  PROVE  TypeInv'
<1>1. RestTypes /\ c \in Threads BY RestOfTypes, ConnFacts DEF TypeInv
<1>2. CASE SetEsi(c)
  <2>1. At(c, "esi") /\ c \in Outgoing /\ Sess(c) \in Outgoing
        /\ EnterDrain(c) /\ Moves(c, "size", Sess(c), thread[c].pkt)
    BY <1>2, HandlerMoves
  <2>2. Sess(c) \in Conns BY <2>1, ConnFacts
  <2>3. esi' = [esi EXCEPT ![Sess(c)] = c] BY <1>2 DEF SetEsi, EsiSet
  <2>4. esi' \in [Conns -> Conns \cup {None}] BY <1>1, <2>3 DEF RestTypes
  <2>5. raced' \in [Conns -> BOOLEAN] BY <1>1, <2>1 DEF RestTypes, EnterDrain
  <2>6. UNCHANGED <<sa2Session, socketIds, cache, stage, corrupt, taken, pushed, late>> BY <1>2 DEF SetEsi
  <2>7. RestTypes' BY <1>1, <2>4, <2>5, <2>6 DEF RestTypes
  <2>8. QED BY <1>1, <2>1, <2>2, <2>7, TypesKept DEF Creating, Serving, Holding
<1>3. CASE Erase(c)
  <2>1. Moves(c, "idle", None, None) BY <1>3, HandlerMoves
  <2>2. /\ sa2Session' \in Outgoing \cup {None} /\ socketIds' \subseteq Incoming
        /\ UNCHANGED <<esi, cache, stage, corrupt, historyVars>>
    BY <1>1, <1>3 DEF Erase, Erased, Forgotten, RestTypes
  <2>3. RestTypes' BY <1>1, <2>2 DEF RestTypes, historyVars
  <2>4. QED BY <1>1, <2>1, <2>3, TypesKept DEF Creating, Serving, Holding
<1>4. CASE Ends(c)
  <2>1. Moves(c, "erase", Sess(c), thread[c].pkt) BY <1>4, HandlerMoves
  <2>2. stage' = [stage EXCEPT ![c] = "down"] /\ UNCHANGED <<sessionVars, corrupt, historyVars>>
    BY <1>4 DEF Ends
  <2>3. RestTypes' BY <1>1, <2>2 DEF RestTypes, sessionVars, historyVars
  <2>4. QED BY <1>1, <2>1, <2>3, TypesKept DEF Creating, Serving, Holding
<1>5. CASE ClosedDirectly(c)
  <2>1. stage' = [stage EXCEPT ![c] = "gone"] /\ UNCHANGED <<sessionVars, thread, corrupt, historyVars>>
    BY <1>5 DEF ClosedDirectly
  <2>2. RestTypes' BY <1>1, <2>1 DEF RestTypes, sessionVars, historyVars
  <2>3. QED BY <2>1, <2>2, TypesKeptStill
<1>6. CASE NotifyBindAddress(c)
  <2>1. Moves("bind", "size", c, None) BY <1>6, HandlerMoves
  <2>2. /\ raced' \in [Conns -> BOOLEAN]
        /\ UNCHANGED <<sessionVars, stage, corrupt, taken, pushed, late>>
    BY <1>1, <1>6 DEF NotifyBindAddress, RestTypes
  <2>3. RestTypes' BY <1>1, <2>2 DEF RestTypes, sessionVars
  <2>4. QED BY <2>1, <2>3, ConnFacts, TypesKept DEF Creating, Serving, Holding
<1>7. QED BY <1>2, <1>3, <1>4, <1>5, <1>6 DEF Handler

LEMMA AnswerTypes ==
  ASSUME TypeInv, NEW c \in Conns,
         FindConnected(c) \/ ConnectFailed(c) \/ Accept(c) \/ Accepted(c)
  PROVE  TypeInv'
<1>1. RestTypes /\ c \in Threads BY RestOfTypes, ConnFacts DEF TypeInv
<1>2. CASE FindConnected(c)
  <2>1. \/ sa2Session = None /\ Moves(c, "idle", None, None)
        \/ sa2Session \in Outgoing /\ Moves(c, "esi", sa2Session, None)
    BY <1>2, HandlerMoves
  <2>2. /\ stage' = [stage EXCEPT ![c] = "up"] /\ c \in Outgoing
        /\ UNCHANGED <<sessionVars, corrupt, historyVars>>
    BY <1>2 DEF FindConnected
  <2>3. RestTypes' BY <1>1, <2>2 DEF RestTypes, sessionVars, historyVars
  <2>4. QED BY <1>1, <2>1, <2>2, <2>3, ConnFacts, TypesKept DEF Creating, Serving, Holding
<1>3. CASE ConnectFailed(c)
  <2>1. /\ stage' = [stage EXCEPT ![c] = "down"] /\ sa2Session' = None
        /\ UNCHANGED <<socketIds, esi, cache, thread, corrupt, historyVars>>
    BY <1>3 DEF ConnectFailed, Erased
  <2>2. RestTypes' BY <1>1, <2>1 DEF RestTypes, historyVars
  <2>3. QED BY <2>1, <2>2, TypesKeptStill
<1>4. CASE Accept(c)
  <2>1. stage' = [stage EXCEPT ![c] = "up"] /\ UNCHANGED <<sessionVars, thread, corrupt, historyVars>>
    BY <1>4 DEF Accept
  <2>2. RestTypes' BY <1>1, <2>1 DEF RestTypes, sessionVars, historyVars
  <2>3. QED BY <2>1, <2>2, TypesKeptStill
<1>5. CASE Accepted(c)
  <2>1. /\ esi' \in [Conns -> Conns \cup {None}] /\ socketIds' \subseteq Incoming
        /\ late' \in [Conns -> BOOLEAN]
        /\ UNCHANGED <<sa2Session, cache, stage, thread, corrupt, taken, pushed, raced>>
    BY <1>1, <1>5 DEF Accepted, RestTypes
  <2>2. RestTypes' BY <1>1, <2>1 DEF RestTypes
  <2>3. QED BY <2>1, <2>2, TypesKeptStill
<1>6. QED BY <1>2, <1>3, <1>4, <1>5

LEMMA TypeInit == Init => TypeInv
<1> SUFFICES ASSUME Init PROVE TypeInv OBVIOUS
<1>1. <<>> \in Seq(Packets) OBVIOUS
<1>2. Resting \in [at : Places, sess : Conns \cup {None}, pkt : Packets \cup {None}] /\ Resting.at = "idle"
  BY DEF Resting, Places
<1>3. TypeOK BY <1>1, <1>2 DEF Init, TypeOK
<1>4. Placed BY <1>2 DEF Init, Placed, Creating, Serving, Holding
<1>5. QED BY <1>3, <1>4 DEF TypeInv

LEMMA TypeStep == TypeInv /\ [Next]_vars => TypeInv'
<1> SUFFICES ASSUME TypeInv, [Next]_vars PROVE TypeInv' OBVIOUS
<1>1. CASE UNCHANGED vars
  <2>1. RestTypes BY RestOfTypes DEF TypeInv
  <2>2. RestTypes' /\ UNCHANGED thread BY <1>1, <2>1 DEF vars, sessionVars, historyVars, RestTypes
  <2>3. QED BY <2>2, TypesKeptStill
<1>2. ASSUME NEW t \in Threads, Step(t) PROVE TypeInv'
  BY <1>2, DrainTypes, SenderTypes, RequestTypes DEF Step
<1>3. ASSUME NEW t \in Senders, NEW m \in Packets,
             FindSession(t, m) \/ \E c \in Incoming : PassPacket(t, c, m)
      PROVE  TypeInv'
  BY <1>3, ConnFacts, RequestTypes
<1>4. ASSUME NEW c \in Conns, Handler(c) \/ Ends(c) \/ ClosedDirectly(c) \/ NotifyBindAddress(c)
      PROVE  TypeInv'
  BY <1>4, HandlerTypes
<1>5. ASSUME NEW c \in Conns, FindConnected(c) \/ ConnectFailed(c) \/ Accept(c) \/ Accepted(c)
      PROVE  TypeInv'
  BY <1>5, AnswerTypes
<1>6. QED BY <1>1, <1>2, <1>3, <1>4, <1>5, ConnFacts DEF Next

\* Type correctness, with what a thread has in hand at each place.
THEOREM TypeCorrect == Spec => []TypeInv
BY TypeInit, TypeStep, PTL DEF Spec

-----------------------------------------------------------------------------
(* Nothing is stranded.                                                         *)

Working == {"test", "size", "front", "pop", "send"}

\* Before Accepted has been handled nobody knows the session of an accepted connection.
Unheard ==
  \A c \in Incoming : esi[c] = None =>
    c \notin socketIds /\ cache[c] = <<>> /\ \A t \in Threads : Sess(t) # c

StrandInv == NothingStranded /\ Unheard

\* A thread that works on a session goes on doing so, or there is nothing left to do,
\* and what is put into a cache is looked after by the thread that put it there.
LEMMA StrandMoves ==
  ASSUME TypeInv, NothingStranded, NEW t \in Threads, NEW where, NEW s, NEW m, Moves(t, where, s, m),
         UNCHANGED esi,
         \A c \in Conns : cache'[c] = cache[c] \/ (c = s /\ where \in Working) \/ cache'[c] = <<>>,
         \/ thread[t].at \notin Working
         \/ s = Sess(t) /\ where \in Working
         \/ ~Valid(Sess(t)) \/ cache[Sess(t)] = <<>>
  PROVE  NothingStranded'
<1> SUFFICES ASSUME NEW c \in Conns, Valid(c)', cache'[c] # <<>>
             PROVE  \E u \in Threads : thread'[u].sess = c /\ thread'[u].at \in Working
  BY DEF NothingStranded, Working
<1>1. CASE c = s /\ where \in Working BY <1>1 DEF Moves
<1>2. CASE cache'[c] = cache[c]
  <2>1. Valid(c) /\ cache[c] # <<>> BY <1>2 DEF Valid
  <2>2. PICK u \in Threads : Sess(u) = c /\ thread[u].at \in Working
    BY <2>1 DEF NothingStranded, Working
  <2>3. CASE u # t BY <2>2, <2>3 DEF Moves
  <2>4. CASE u = t
    <3>1. s = c /\ where \in Working BY <2>1, <2>2, <2>4
    <3>2. QED BY <3>1 DEF Moves
  <2>5. QED BY <2>3, <2>4
<1>3. QED BY <1>1, <1>2

LEMMA UnheardMoves ==
  ASSUME TypeInv, Unheard, NEW t \in Threads, NEW where, NEW s, NEW m, Moves(t, where, s, m),
         \A c \in Incoming : esi'[c] = None => esi[c] = None,
         socketIds' \subseteq socketIds,
         \A c \in Incoming : cache[c] = <<>> /\ Sess(t) # c => cache'[c] = <<>>,
         s \in Incoming => s = Sess(t) \/ s \in socketIds \/ Valid(s)
  PROVE  Unheard'
<1> SUFFICES ASSUME NEW c \in Incoming, esi'[c] = None
             PROVE  c \notin socketIds' /\ cache'[c] = <<>> /\ \A u \in Threads : thread'[u].sess # c
  BY DEF Unheard
<1>1. esi[c] = None /\ c \notin socketIds /\ cache[c] = <<>> /\ \A u \in Threads : Sess(u) # c
  BY DEF Unheard
<1>2. s # c BY <1>1 DEF Valid
<1>3. QED BY <1>1, <1>2 DEF Moves

LEMMA StrandDrain ==
  ASSUME TypeInv, StrandInv, NEW t \in Threads, DoSend(t)
  PROVE  StrandInv'
<1> USE DEF StrandInv
<1> DEFINE s == Sess(t)
<1>1. CASE Size(t)
  <2>1. At(t, "size") /\ Sess(t) \in Conns
        /\ \/ cache[Sess(t)] = <<>> /\ Moves(t, "idle", None, None)
           \/ cache[Sess(t)] # <<>> /\ Moves(t, "front", Sess(t), thread[t].pkt)
    BY <1>1, DrainMoves
  <2>2. UNCHANGED <<sa2Session, socketIds, esi, cache>> BY <1>1 DEF Size, sessionVars
  <2>3. NothingStranded' BY <2>1, <2>2, StrandMoves DEF Working
  <2>4. Unheard' BY <2>1, <2>2, ConnFacts, UnheardMoves
  <2>5. QED BY <2>3, <2>4
<1>2. CASE Front(t)
  <2>1. At(t, "front") /\ Sess(t) \in Conns
        /\ \/ cache[Sess(t)] = <<>> /\ corrupt' /\ Moves(t, "idle", None, None)
           \/ /\ cache[Sess(t)] # <<>> /\ corrupt' = corrupt
              /\ Head(cache[Sess(t)]) \in Packets
              /\ Moves(t, "pop", Sess(t), Head(cache[Sess(t)]))
    BY <1>2, DrainMoves
  <2>2. UNCHANGED <<sa2Session, socketIds, esi, cache>> BY <1>2 DEF Front, sessionVars
  <2>3. NothingStranded' BY <2>1, <2>2, StrandMoves DEF Working
  <2>4. Unheard' BY <2>1, <2>2, ConnFacts, UnheardMoves
  <2>5. QED BY <2>3, <2>4
<1>3. CASE Pop(t)
  <2>1. At(t, "pop") /\ s \in Conns /\ Moves(t, "send", s, thread[t].pkt) BY <1>3, DrainMoves
  <2>2. UNCHANGED <<socketIds, esi>> BY <1>3 DEF Pop
  <2>3. \A c \in Conns : c # s => cache'[c] = cache[c]
    BY <1>3, <2>1 DEF Pop, Popped, TypeInv, TypeOK
  <2>4. NothingStranded' BY <2>1, <2>2, <2>3, StrandMoves DEF Working
  <2>5. Unheard' BY <2>1, <2>2, <2>3, ConnFacts, UnheardMoves
  <2>6. QED BY <2>4, <2>5
<1>4. CASE SendFront(t)
  <2>1. At(t, "send") /\ s \in Conns /\ Moves(t, "size", s, None) BY <1>4, DrainMoves
  <2>2. UNCHANGED <<socketIds, esi, cache>> BY <1>4 DEF SendFront, sessionVars
  <2>3. NothingStranded' BY <2>1, <2>2, StrandMoves DEF Working
  <2>4. Unheard' BY <2>1, <2>2, ConnFacts, UnheardMoves
  <2>5. QED BY <2>3, <2>4
<1>5. QED BY <1>1, <1>2, <1>3, <1>4 DEF DoSend

\* A packet is pushed, or the session tested after the push; or the thread works on none.
LEMMA StrandSender ==
  ASSUME TypeInv, StrandInv, NEW t \in Threads,
         Push(t) \/ TestEsi(t) \/ FailedAtOnce(t) \/ Emplace(t)
  PROVE  StrandInv'
<1> USE DEF StrandInv
<1> DEFINE s == Sess(t)
<1>1. CASE Push(t)
  <2>1. At(t, "push") /\ s \in Conns /\ Moves(t, "test", s, None) BY <1>1, SenderMoves
  <2>2. UNCHANGED <<socketIds, esi>> BY <1>1 DEF Push
  <2>3. \A c \in Conns : c # s => cache'[c] = cache[c] BY <1>1, <2>1 DEF Push, TypeInv, TypeOK
  <2>4. NothingStranded' BY <2>1, <2>2, <2>3, StrandMoves DEF Working
  <2>5. Unheard' BY <2>1, <2>2, <2>3, ConnFacts, UnheardMoves
  <2>6. QED BY <2>4, <2>5
<1>2. CASE TestEsi(t)
  <2>1. At(t, "test") /\ Sess(t) \in Conns
        /\ \/ Valid(Sess(t)) /\ EnterDrain(t) /\ Moves(t, "size", Sess(t), thread[t].pkt)
           \/ ~Valid(Sess(t)) /\ Moves(t, "idle", None, None) /\ UNCHANGED raced
    BY <1>2, SenderMoves
  <2>2. UNCHANGED <<socketIds, esi, cache>> BY <1>2 DEF TestEsi, sessionVars
  <2>3. NothingStranded' BY <2>1, <2>2, StrandMoves DEF Working
  <2>4. Unheard' BY <2>1, <2>2, ConnFacts, UnheardMoves
  <2>5. QED BY <2>3, <2>4
<1>3. CASE FailedAtOnce(t)
  <2>1. s \in Outgoing
        /\ \/ At(t, "failed") /\ Moves(t, "failedAgain", s, thread[t].pkt)
           \/ At(t, "failedAgain") /\ Moves(t, "emplace", s, thread[t].pkt)
    BY <1>3, SenderMoves
  <2>2. UNCHANGED <<socketIds, esi, cache>> BY <1>3 DEF FailedAtOnce
  <2>3. NothingStranded' BY <2>1, <2>2, StrandMoves DEF Working
  <2>4. Unheard' BY <2>1, <2>2, ConnFacts, UnheardMoves
  <2>5. QED BY <2>3, <2>4
<1>4. CASE Emplace(t)
  <2>1. At(t, "emplace") /\ s \in Outgoing /\ Moves(t, "push", s, thread[t].pkt) BY <1>4, SenderMoves
  <2>2. UNCHANGED <<socketIds, esi, cache>> BY <1>4 DEF Emplace
  <2>3. NothingStranded' BY <2>1, <2>2, StrandMoves DEF Working
  <2>4. Unheard' BY <2>1, <2>2, ConnFacts, UnheardMoves
  <2>5. QED BY <2>3, <2>4
<1>5. QED BY <1>1, <1>2, <1>3, <1>4

LEMMA StrandRequest ==
  ASSUME TypeInv, StrandInv, NEW t \in Threads,
         \/ \E m \in Packets : FindSession(t, m)
         \/ \E c \in Incoming, m \in Packets : PassPacket(t, c, m)
         \/ \E c \in Outgoing : Ask(t, c)
  PROVE  StrandInv'
<1> USE DEF StrandInv
<1>1. ASSUME NEW m \in Packets, FindSession(t, m) PROVE StrandInv'
  <2> DEFINE w == IF sa2Session = None THEN "ask" ELSE "push"
  <2>1. At(t, "idle") /\ Moves(t, w, sa2Session, m) BY <1>1, RequestMoves
  <2>2. UNCHANGED <<socketIds, esi, cache>> BY <1>1 DEF FindSession, sessionVars
  <2>3. sa2Session \notin Incoming BY ThreadsAssumption, ConnFacts DEF TypeInv, TypeOK
  <2> HIDE DEF w
  <2>4. NothingStranded' BY <2>1, <2>2, StrandMoves DEF Working
  <2>5. Unheard' BY <2>1, <2>2, <2>3, UnheardMoves
  <2>6. QED BY <2>4, <2>5
<1>2. ASSUME NEW c \in Incoming, NEW m \in Packets, PassPacket(t, c, m) PROVE StrandInv'
  <2>1. At(t, "idle") /\ Moves(t, "push", c, m) BY <1>2, RequestMoves
  <2>2. UNCHANGED <<socketIds, esi, cache>> /\ c \in socketIds
    BY <1>2 DEF PassPacket, sessionVars
  <2>3. NothingStranded' BY <2>1, <2>2, StrandMoves DEF Working
  <2>4. Unheard' BY <2>1, <2>2, UnheardMoves
  <2>5. QED BY <2>3, <2>4
<1>3. ASSUME NEW c \in Outgoing, Ask(t, c) PROVE StrandInv'
  <2>1. At(t, "ask")
        /\ (Moves(t, "emplace", c, thread[t].pkt) \/ Moves(t, "failed", c, thread[t].pkt))
    BY <1>3, RequestMoves
  <2>2. UNCHANGED <<socketIds, esi, cache>> /\ c \notin Incoming
    BY <1>3, ThreadsAssumption DEF Ask, sessionVars
  <2>3. NothingStranded' BY <2>1, <2>2, StrandMoves DEF Working
  <2>4. Unheard' BY <2>1, <2>2, UnheardMoves
  <2>5. QED BY <2>3, <2>4
<1>4. QED BY <1>1, <1>2, <1>3

\* The handlers of an outgoing connection: esi is set by the thread that then drains.
LEMMA StrandHandler ==
  ASSUME TypeInv, StrandInv, NEW c \in Conns,
         Handler(c) \/ Ends(c) \/ ClosedDirectly(c) \/ NotifyBindAddress(c)
  PROVE  StrandInv'
<1> USE DEF StrandInv
<1>0. c \in Threads /\ "bind" \in Threads BY ConnFacts
<1>1. CASE SetEsi(c)
  <2>1. At(c, "esi") /\ c \in Outgoing /\ Sess(c) \in Outgoing
        /\ Moves(c, "size", Sess(c), thread[c].pkt)
    BY <1>1, HandlerMoves
  <2>2. UNCHANGED <<socketIds, cache>> /\ esi' = [esi EXCEPT ![Sess(c)] = c]
    BY <1>1 DEF SetEsi, EsiSet
  <2>3. \A x \in Conns : x # Sess(c) => esi'[x] = esi[x] BY <2>2 DEF TypeInv, TypeOK
  <2>4. Sess(c) \notin Incoming BY <2>1, ThreadsAssumption
  <2>5. NothingStranded'
    <3> SUFFICES ASSUME NEW x \in Conns, Valid(x)', cache'[x] # <<>>
                 PROVE  \E u \in Threads : thread'[u].sess = x /\ thread'[u].at \in Working
      BY DEF NothingStranded, Working
    <3>1. CASE x = Sess(c) BY <1>0, <2>1, <3>1 DEF Moves, Working
    <3>2. CASE x # Sess(c)
      <4>1. Valid(x) /\ cache[x] # <<>> BY <2>2, <2>3, <3>2 DEF Valid
      <4>2. PICK u \in Threads : Sess(u) = x /\ thread[u].at \in Working
        BY <4>1 DEF NothingStranded, Working
      <4>3. u # c BY <3>2, <4>2
      <4>4. QED BY <2>1, <4>2, <4>3 DEF Moves
    <3>3. QED BY <3>1, <3>2
  <2>6. Unheard'
    <3>1. \A x \in Incoming : esi'[x] = None => esi[x] = None BY <2>3, <2>4, ConnFacts
    <3>2. QED BY <1>0, <2>1, <2>2, <3>1, UnheardMoves
  <2>7. QED BY <2>5, <2>6
<1>2. CASE Erase(c)
  <2>1. At(c, "erase") /\ Moves(c, "idle", None, None) BY <1>2, HandlerMoves
  <2>2. UNCHANGED <<esi, cache>> /\ socketIds' \subseteq socketIds BY <1>2 DEF Erase, Forgotten
  <2>3. NothingStranded' BY <1>0, <2>1, <2>2, StrandMoves DEF Working
  <2>4. Unheard' BY <1>0, <2>1, <2>2, ConnFacts, UnheardMoves
  <2>5. QED BY <2>3, <2>4
<1>3. CASE Ends(c)
  <2>1. At(c, "idle") /\ Moves(c, "erase", Sess(c), thread[c].pkt) BY <1>3, HandlerMoves
  <2>2. UNCHANGED <<socketIds, esi, cache>> BY <1>3 DEF Ends, sessionVars
  <2>3. NothingStranded' BY <1>0, <2>1, <2>2, StrandMoves DEF Working
  <2>4. Unheard' BY <1>0, <2>1, <2>2, UnheardMoves
  <2>5. QED BY <2>3, <2>4
<1>4. CASE ClosedDirectly(c)
  BY <1>4 DEF ClosedDirectly, sessionVars, NothingStranded, Unheard, Valid
<1>5. CASE NotifyBindAddress(c)
  <2>1. At("bind", "idle") /\ Moves("bind", "size", c, None) BY <1>5, HandlerMoves
  <2>2. UNCHANGED <<socketIds, esi, cache>> /\ Valid(c)
    BY <1>5 DEF NotifyBindAddress, sessionVars
  <2>3. NothingStranded' BY <1>0, <2>1, <2>2, StrandMoves DEF Working
  <2>4. Unheard' BY <1>0, <2>1, <2>2, UnheardMoves
  <2>5. QED BY <2>3, <2>4
<1>6. QED BY <1>1, <1>2, <1>3, <1>4, <1>5 DEF Handler

\* The answers to an attempt, and an acceptance.
LEMMA StrandAnswer ==
  ASSUME TypeInv, StrandInv, NEW c \in Conns,
         FindConnected(c) \/ ConnectFailed(c) \/ Accept(c) \/ Accepted(c)
  PROVE  StrandInv'
<1> USE DEF StrandInv
<1>0. c \in Threads BY ConnFacts
<1>1. CASE FindConnected(c)
  <2>1. At(c, "idle")
        /\ \/ sa2Session = None /\ Moves(c, "idle", None, None)
           \/ sa2Session \in Outgoing /\ Moves(c, "esi", sa2Session, None)
    BY <1>1, HandlerMoves
  <2>2. UNCHANGED <<socketIds, esi, cache>> BY <1>1 DEF FindConnected, sessionVars
  <2>3. NothingStranded' BY <1>0, <2>1, <2>2, StrandMoves DEF Working
  <2>4. Unheard' BY <1>0, <2>1, <2>2, ThreadsAssumption, ConnFacts, UnheardMoves
  <2>5. QED BY <2>3, <2>4
<1>2. CASE ConnectFailed(c)
  BY <1>2 DEF ConnectFailed, NothingStranded, Unheard, Valid
<1>3. CASE Accept(c)
  BY <1>3 DEF Accept, sessionVars, NothingStranded, Unheard, Valid
<1>4. CASE Accepted(c)
  <2>1. /\ c \in Incoming /\ esi[c] = None
        /\ esi' = [esi EXCEPT ![c] = c] /\ socketIds' = socketIds \cup {c}
        /\ UNCHANGED <<cache, thread>>
    BY <1>4 DEF Accepted
  <2>2. cache[c] = <<>> BY <2>1 DEF Unheard
  <2>3. esi'[c] = c /\ \A x \in Conns : x # c => esi'[x] = esi[x] BY <2>1 DEF TypeInv, TypeOK
  <2>4. NothingStranded' BY <2>1, <2>2, <2>3 DEF NothingStranded, Valid
  <2>5. Unheard' BY <2>1, <2>3, ConnFacts DEF Unheard
  <2>6. QED BY <2>4, <2>5
<1>5. QED BY <1>1, <1>2, <1>3, <1>4

LEMMA StrandInit == Init => StrandInv
<1> SUFFICES ASSUME Init PROVE StrandInv OBVIOUS
<1>1. NothingStranded BY DEF Init, NothingStranded, Valid
<1>2. Unheard BY ConnFacts DEF Init, Unheard, Resting
<1>3. QED BY <1>1, <1>2 DEF StrandInv

LEMMA StrandStep == TypeInv /\ StrandInv /\ [Next]_vars => StrandInv'
<1> SUFFICES ASSUME TypeInv, StrandInv, [Next]_vars PROVE StrandInv' OBVIOUS
<1>1. CASE UNCHANGED vars
  BY <1>1 DEF vars, sessionVars, StrandInv, NothingStranded, Unheard, Valid
<1>2. ASSUME NEW t \in Threads, Step(t) PROVE StrandInv'
  BY <1>2, StrandDrain, StrandSender, StrandRequest DEF Step
<1>3. ASSUME NEW t \in Senders, NEW m \in Packets,
             FindSession(t, m) \/ \E c \in Incoming : PassPacket(t, c, m)
      PROVE  StrandInv'
  BY <1>3, ConnFacts, StrandRequest
<1>4. ASSUME NEW c \in Conns, Handler(c) \/ Ends(c) \/ ClosedDirectly(c) \/ NotifyBindAddress(c)
      PROVE  StrandInv'
  BY <1>4, StrandHandler
<1>5. ASSUME NEW c \in Conns, FindConnected(c) \/ ConnectFailed(c) \/ Accept(c) \/ Accepted(c)
      PROVE  StrandInv'
  BY <1>5, StrandAnswer
<1>6. QED BY <1>1, <1>2, <1>3, <1>4, <1>5, ConnFacts DEF Next

\* addSendPacket and on_Connected leave no packet behind, in whatever order their
\* steps fall: whatever is cached in a session with a connection has a thread on its way.
THEOREM NothingStrandedHolds == Spec => []NothingStranded
<1>1. Init => TypeInv /\ StrandInv BY TypeInit, StrandInit
<1>2. TypeInv /\ StrandInv /\ [Next]_vars => (TypeInv /\ StrandInv)' BY TypeStep, StrandStep
<1>3. TypeInv /\ StrandInv => NothingStranded BY DEF StrandInv
<1>4. QED BY <1>1, <1>2, <1>3, PTL DEF Spec

-----------------------------------------------------------------------------
(* The address leads to no dead connection.                                     *)

\* No handler and no thread knows this session but the one that is creating it.
Unentered(c) ==
  /\ c # sa2Session /\ esi[c] = None
  /\ \A u \in Threads : At(u, "esi") => Sess(u) # c

NewInv ==
  /\ \A c \in Outgoing : stage[c] = "idle" =>
       Unentered(c) /\ \A u \in Threads : thread[u].at \in Creating => Sess(u) # c
  /\ \A u \in Threads : thread[u].at \in Creating =>
       Unentered(Sess(u)) /\ \A v \in Threads : v # u /\ thread[v].at \in Creating => Sess(v) # Sess(u)
  /\ \A c \in Outgoing : At(c, "esi") => stage[c] \in {"up", "gone"}

\* A connection whose end is still to be handled, if it has ended with an event.
Alive(c) == stage[c] \in {"up", "gone"} \/ (stage[c] = "down" /\ At(c, "erase"))

AliveInv ==
  sa2Session # None =>
    /\ late[sa2Session] \/ stage[sa2Session] = "asked" \/ Alive(sa2Session)
    /\ esi[sa2Session] # None => esi[sa2Session] \in Outgoing /\ Alive(esi[sa2Session])

LiveInv == NewInv /\ AliveInv

LEMMA LiveMoves ==
  ASSUME TypeInv, LiveInv, NEW t \in Threads, NEW where, NEW s, NEW m, Moves(t, where, s, m),
         UNCHANGED <<stage, late, esi>>, sa2Session' = sa2Session \/ sa2Session' = None,
         At(t, "erase") => t \notin Outgoing \/ sa2Session' = None,
         where \in Creating => thread[t].at \in Creating /\ s = Sess(t),
         where # "esi"
  PROVE  LiveInv'
<1> USE DEF LiveInv
<1>1. ASSUME NEW c \in Outgoing, Unentered(c) PROVE Unentered(c)'
  BY <1>1, ConnFacts DEF Unentered, Moves
<1>2. ASSUME NEW u \in Threads, thread'[u].at \in Creating
      PROVE  thread[u].at \in Creating /\ thread'[u].sess = Sess(u) /\ Sess(u) \in Outgoing
  BY <1>2 DEF Moves, TypeInv, Placed
<1>3. ASSUME NEW c \in Outgoing, stage'[c] = "idle"
      PROVE  Unentered(c)' /\ \A u \in Threads : thread'[u].at \in Creating => thread'[u].sess # c
  <2>1. Unentered(c) /\ \A u \in Threads : thread[u].at \in Creating => Sess(u) # c
    BY <1>3 DEF NewInv
  <2>2. QED BY <1>1, <1>2, <2>1
<1>4. ASSUME NEW u \in Threads, thread'[u].at \in Creating
      PROVE  /\ Unentered(Sess(u))'
             /\ \A v \in Threads : v # u /\ thread'[v].at \in Creating => thread'[v].sess # thread'[u].sess
  <2>1. thread[u].at \in Creating /\ thread'[u].sess = Sess(u) /\ Sess(u) \in Outgoing BY <1>2, <1>4
  <2>2. Unentered(Sess(u)) /\ \A v \in Threads : v # u /\ thread[v].at \in Creating => Sess(v) # Sess(u)
    BY <2>1 DEF NewInv
  <2>3. Unentered(Sess(u))'
    BY <2>1, <2>2, ConnFacts DEF Unentered, Moves
  <2>4. QED BY <1>2, <2>1, <2>2, <2>3
<1>5. ASSUME NEW c \in Outgoing, thread'[c].at = "esi" PROVE stage'[c] \in {"up", "gone"}
  BY <1>5, ConnFacts DEF NewInv, Moves
<1>6. NewInv' BY <1>3, <1>4, <1>5 DEF NewInv
<1>7. AliveInv'
  <2> SUFFICES ASSUME sa2Session' # None
               PROVE  /\ late'[sa2Session] \/ stage'[sa2Session] = "asked" \/ Alive(sa2Session)'
                      /\ esi'[sa2Session] # None =>
                           esi'[sa2Session] \in Outgoing /\ (stage'[esi'[sa2Session]] \in {"up", "gone"}
                             \/ (stage'[esi'[sa2Session]] = "down" /\ thread'[esi'[sa2Session]].at = "erase"))
    BY DEF AliveInv, Alive
  <2>1. sa2Session' = sa2Session /\ sa2Session \in Outgoing BY DEF TypeInv, TypeOK
  <2>2. ASSUME NEW c \in Outgoing, Alive(c)
        PROVE  stage'[c] \in {"up", "gone"} \/ (stage'[c] = "down" /\ thread'[c].at = "erase")
    BY <2>1, <2>2, ConnFacts DEF Alive, Moves
  <2>3. /\ late[sa2Session] \/ stage[sa2Session] = "asked" \/ Alive(sa2Session)
        /\ esi[sa2Session] # None => esi[sa2Session] \in Outgoing /\ Alive(esi[sa2Session])
    BY <2>1 DEF AliveInv
  <2>4. QED BY <2>1, <2>2, <2>3 DEF Alive
<1>8. QED BY <1>6, <1>7

LEMMA LiveDrain ==
  ASSUME TypeInv, LiveInv, NEW t \in Threads, DoSend(t) \/ Push(t) \/ TestEsi(t) \/ FailedAtOnce(t)
  PROVE  LiveInv'
<1>1. CASE Size(t) \/ Front(t)
  <2>1. thread[t].at \in {"size", "front"}
        /\ \E w \in {"idle", "front", "pop"} : \E s, m : Moves(t, w, s, m)
    BY <1>1, DrainMoves
  <2>2. UNCHANGED <<sa2Session, stage, late, esi>> BY <1>1 DEF Size, Front, sessionVars, historyVars
  <2>3. QED BY <2>1, <2>2, LiveMoves DEF Creating
<1>2. CASE Pop(t)
  <2>1. At(t, "pop") /\ Moves(t, "send", Sess(t), thread[t].pkt) BY <1>2, DrainMoves
  <2>2. UNCHANGED <<sa2Session, stage, late, esi>> BY <1>2 DEF Pop, historyVars
  <2>3. QED BY <2>1, <2>2, LiveMoves DEF Creating
<1>3. CASE SendFront(t)
  <2>1. At(t, "send") /\ Moves(t, "size", Sess(t), None) BY <1>3, DrainMoves
  <2>2. UNCHANGED <<sa2Session, stage, late, esi>> BY <1>3 DEF SendFront, sessionVars
  <2>3. QED BY <2>1, <2>2, LiveMoves DEF Creating
<1>4. CASE Push(t)
  <2>1. At(t, "push") /\ Moves(t, "test", Sess(t), None) BY <1>4, SenderMoves
  <2>2. UNCHANGED <<sa2Session, stage, late, esi>> BY <1>4 DEF Push
  <2>3. QED BY <2>1, <2>2, LiveMoves DEF Creating
<1>5. CASE TestEsi(t)
  <2>1. At(t, "test") /\ (Moves(t, "size", Sess(t), thread[t].pkt) \/ Moves(t, "idle", None, None))
    BY <1>5, SenderMoves
  <2>2. UNCHANGED <<sa2Session, stage, late, esi>> BY <1>5 DEF TestEsi, sessionVars
  <2>3. QED BY <2>1, <2>2, LiveMoves DEF Creating
<1>6. CASE FailedAtOnce(t)
  <2>1. thread[t].at \in {"failed", "failedAgain"}
        /\ (Moves(t, "failedAgain", Sess(t), thread[t].pkt) \/ Moves(t, "emplace", Sess(t), thread[t].pkt))
    BY <1>6, SenderMoves
  <2>2. sa2Session' = None /\ UNCHANGED <<stage, late, esi>> BY <1>6 DEF FailedAtOnce, historyVars
  <2>3. QED BY <2>1, <2>2, LiveMoves DEF Creating
<1>7. QED BY <1>1, <1>2, <1>3, <1>4, <1>5, <1>6 DEF DoSend

\* A session is created with a connection nothing has been heard of.
LEMMA LiveAsk ==
  ASSUME TypeInv, LiveInv, NEW t \in Threads, NEW c \in Outgoing, Ask(t, c)
  PROVE  LiveInv'
<1> USE DEF LiveInv
<1>1. /\ At(t, "ask") /\ stage[c] = "idle"
      /\ \E w \in {"emplace", "failed"} : Moves(t, w, c, thread[t].pkt)
      /\ \E x \in {"asked", "down", "silent"} : stage' = [stage EXCEPT ![c] = x]
  BY RequestMoves
<1>2. UNCHANGED <<sa2Session, esi, late>> BY DEF Ask, sessionVars, historyVars
<1>3. /\ Unentered(c) /\ \A u \in Threads : thread[u].at \in Creating => Sess(u) # c
      /\ \A u \in Threads : thread[u].at \in Creating => Sess(u) \in Outgoing
  BY <1>1 DEF NewInv, TypeInv, Placed
<1>4. /\ \A d \in Conns : d # c => stage'[d] = stage[d]
      /\ stage'[c] # "idle" BY <1>1, ConnFacts DEF TypeInv, TypeOK
<1>5. \A u \in Threads : u # t => thread'[u] = thread[u] BY <1>1 DEF Moves
<1>6. thread'[t].at \in Creating /\ thread'[t].sess = c BY <1>1 DEF Moves, Creating
<1>7. \A d : Unentered(d) => Unentered(d)'
  BY <1>2, <1>5, <1>6 DEF Unentered, Creating
<1>8. ASSUME NEW u \in Threads, thread'[u].at \in Creating
      PROVE  /\ Unentered(Sess(u))'
             /\ \A v \in Threads : v # u /\ thread'[v].at \in Creating => thread'[v].sess # thread'[u].sess
  <2>1. CASE u = t
    <3>1. c # sa2Session' /\ esi'[c] = None /\ \A v \in Threads : thread'[v].at = "esi" => thread'[v].sess # c
      BY <1>2, <1>3, <1>5, <1>6 DEF Unentered, Creating
    <3>2. QED BY <1>3, <1>5, <1>6, <2>1, <3>1 DEF Unentered
  <2>2. CASE u # t
    <3>1. thread'[u] = thread[u] /\ Unentered(Sess(u))
          /\ \A v \in Threads : v # u /\ thread[v].at \in Creating => Sess(v) # Sess(u)
      BY <1>5, <1>8, <2>2 DEF NewInv
    <3>2. Sess(u) # c BY <1>3, <1>8, <3>1
    <3>3. Unentered(Sess(u))' BY <1>2, <1>5, <1>6, <3>1 DEF Unentered, Creating
    <3>4. QED BY <1>5, <1>6, <3>1, <3>2, <3>3
  <2>3. QED BY <2>1, <2>2
<1>9. ASSUME NEW d \in Outgoing, stage'[d] = "idle"
      PROVE  Unentered(d)' /\ \A u \in Threads : thread'[u].at \in Creating => thread'[u].sess # d
  <2>1. d # c /\ stage[d] = "idle" BY <1>4, <1>9, ConnFacts
  <2>2. Unentered(d) /\ \A u \in Threads : thread[u].at \in Creating => Sess(u) # d
    BY <2>1 DEF NewInv
  <2>3. Unentered(d)' BY <1>7, <2>2
  <2>4. QED BY <1>5, <1>6, <2>1, <2>2, <2>3
<1>10. ASSUME NEW d \in Outgoing, thread'[d].at = "esi" PROVE stage'[d] \in {"up", "gone"}
  <2>1. d # t BY <1>6, <1>10 DEF Creating
  <2>2. stage[d] \in {"up", "gone"} BY <1>5, <1>10, <2>1, ConnFacts DEF NewInv
  <2>3. QED BY <1>1, <1>4, <2>2, ConnFacts
<1>11. NewInv' BY <1>8, <1>9, <1>10 DEF NewInv
<1>12. AliveInv'
  <2>1. \A d \in Outgoing : Alive(d) => d # c /\ stage'[d] = stage[d]
    BY <1>1, <1>4, ConnFacts DEF Alive
  <2>2. \A d \in Outgoing : At(d, "erase") => d # t /\ thread'[d].at = "erase" BY <1>1, <1>5, ConnFacts
  <2>3. \A d \in Outgoing : Alive(d) => Alive(d)' BY <2>1, <2>2 DEF Alive
  <2>4. sa2Session # c /\ sa2Session \in Outgoing \cup {None} BY <1>3 DEF Unentered, TypeInv, TypeOK
  <2>5. sa2Session # None => stage'[sa2Session] = stage[sa2Session] BY <1>4, <2>4, ConnFacts
  <2>6. sa2Session # None => (Alive(sa2Session) => Alive(sa2Session)') BY <1>2, <2>3, <2>4 DEF Alive
  <2>7. sa2Session # None /\ esi[sa2Session] # None => Alive(esi[sa2Session])'
    BY <1>2, <2>1, <2>2 DEF AliveInv, Alive
  <2>8. QED BY <1>2, <2>4, <2>5, <2>6, <2>7 DEF AliveInv
<1>13. QED BY <1>11, <1>12

\* The session is entered, known until then to its creator only: no esi yet, and its
\* attempt is in progress or the entry is late.
LEMMA LiveEmplace ==
  ASSUME TypeInv, LiveInv, NEW t \in Threads, Emplace(t)
  PROVE  LiveInv'
<1> USE DEF LiveInv
<1> DEFINE c == Sess(t)
<1>1. At(t, "emplace") /\ c \in Outgoing /\ Moves(t, "push", c, thread[t].pkt) BY SenderMoves
<1>2. /\ UNCHANGED <<esi, stage>> /\ sa2Session' = Emplaced(c)
      /\ late' = [late EXCEPT ![c] = stage[c] # "asked"]
  BY DEF Emplace
<1>3. /\ Unentered(c)
      /\ \A v \in Threads : v # t /\ thread[v].at \in Creating => Sess(v) # c
  BY <1>1 DEF NewInv, Creating
<1>4. \A u \in Threads : u # t => thread'[u] = thread[u] BY <1>1 DEF Moves
<1>5. thread'[t].at \notin Creating /\ thread'[t].at # "esi" /\ thread'[t].at # "erase"
  BY <1>1 DEF Moves, Creating
<1>6. ASSUME NEW d, Unentered(d), d # c PROVE Unentered(d)'
  BY <1>2, <1>4, <1>5, <1>6 DEF Unentered, Emplaced
<1>7. NewInv'
  <2>1. ASSUME NEW d \in Outgoing, stage'[d] = "idle"
        PROVE  Unentered(d)' /\ \A u \in Threads : thread'[u].at \in Creating => thread'[u].sess # d
    <3>1. Unentered(d) /\ \A u \in Threads : thread[u].at \in Creating => Sess(u) # d
      BY <1>2, <2>1 DEF NewInv
    <3>2. d # c BY <1>1, <3>1 DEF Creating
    <3>3. QED BY <1>4, <1>5, <1>6, <3>1, <3>2
  <2>2. ASSUME NEW u \in Threads, thread'[u].at \in Creating
        PROVE  /\ Unentered(Sess(u))'
               /\ \A v \in Threads : v # u /\ thread'[v].at \in Creating => thread'[v].sess # thread'[u].sess
    <3>1. u # t /\ thread'[u] = thread[u] BY <1>4, <1>5, <2>2
    <3>2. Unentered(Sess(u)) /\ Sess(u) # c
          /\ \A v \in Threads : v # u /\ thread[v].at \in Creating => Sess(v) # Sess(u)
      BY <1>3, <2>2, <3>1 DEF NewInv
    <3>3. Unentered(Sess(u))' BY <1>2, <1>4, <1>5, <3>1, <3>2 DEF Unentered, Emplaced
    <3>4. QED BY <1>4, <1>5, <3>1, <3>2, <3>3
  <2>3. ASSUME NEW d \in Outgoing, thread'[d].at = "esi" PROVE stage'[d] \in {"up", "gone"}
    <3>1. d # t BY <1>5, <2>3
    <3>2. QED BY <1>2, <1>4, <2>3, <3>1, ConnFacts DEF NewInv
  <2>4. QED BY <2>1, <2>2, <2>3 DEF NewInv
<1>8. AliveInv'
  <2>1. \A d \in Outgoing : At(d, "erase") => thread'[d] = thread[d] BY <1>1, <1>4, ConnFacts
  <2>2. ASSUME NEW d \in Outgoing, Alive(d)
        PROVE  stage'[d] \in {"up", "gone"} \/ (stage'[d] = "down" /\ thread'[d].at = "erase")
    BY <1>2, <2>1, <2>2 DEF Alive
  <2>3. CASE sa2Session = None
    <3>1. sa2Session' = c BY <1>2, <2>3 DEF Emplaced
    <3>2. esi'[c] = None BY <1>2, <1>3 DEF Unentered
    <3>3. late'[c] \/ stage'[c] = "asked" BY <1>1, <1>2, ConnFacts DEF TypeInv, TypeOK
    <3>4. QED BY <3>1, <3>2, <3>3 DEF AliveInv
  <2>4. CASE sa2Session # None
    <3>1. sa2Session' = sa2Session /\ sa2Session \in Outgoing BY <1>2, <2>4 DEF Emplaced, TypeInv, TypeOK
    <3>2. sa2Session # c BY <1>3 DEF Unentered
    <3>3. late'[sa2Session] = late[sa2Session] BY <1>2, <3>1, <3>2, ConnFacts DEF TypeInv, TypeOK
    <3>4. /\ late[sa2Session] \/ stage[sa2Session] = "asked" \/ Alive(sa2Session)
          /\ esi[sa2Session] # None => esi[sa2Session] \in Outgoing /\ Alive(esi[sa2Session])
      BY <2>4 DEF AliveInv
    <3>5. Alive(sa2Session) => Alive(sa2Session)' BY <2>2, <3>1 DEF Alive
    <3>6. esi[sa2Session] # None => esi'[sa2Session'] \in Outgoing /\ Alive(esi[sa2Session])'
      BY <1>2, <2>2, <3>1, <3>4 DEF Alive
    <3>7. QED BY <1>2, <3>1, <3>3, <3>4, <3>5, <3>6 DEF AliveInv
  <2>5. QED BY <2>3, <2>4
<1>9. QED BY <1>7, <1>8

LEMMA LiveRequest ==
  ASSUME TypeInv, LiveInv, NEW t \in Threads,
         \/ \E m \in Packets : FindSession(t, m)
         \/ \E c \in Incoming, m \in Packets : PassPacket(t, c, m)
  PROVE  LiveInv'
<1>1. ASSUME NEW m \in Packets, FindSession(t, m) PROVE LiveInv'
  <2>1. At(t, "idle") /\ \E w \in {"ask", "push"} : Moves(t, w, sa2Session, m) BY <1>1, RequestMoves
  <2>2. UNCHANGED <<sa2Session, stage, late, esi>> BY <1>1 DEF FindSession, sessionVars, historyVars
  <2>3. QED BY <2>1, <2>2, LiveMoves DEF Creating
<1>2. ASSUME NEW c \in Incoming, NEW m \in Packets, PassPacket(t, c, m) PROVE LiveInv'
  <2>1. At(t, "idle") /\ Moves(t, "push", c, m) BY <1>2, RequestMoves
  <2>2. UNCHANGED <<sa2Session, stage, late, esi>> BY <1>2 DEF PassPacket, sessionVars, historyVars
  <2>3. QED BY <2>1, <2>2, LiveMoves DEF Creating
<1>3. QED BY <1>1, <1>2

\* A step of a connection's own: it changes the stage of that connection, which may be
\* going to set the esi of the address's session or to erase the address.
LEMMA LiveStage ==
  ASSUME TypeInv, LiveInv, NEW c \in Conns, stage[c] # "idle" \/ c \notin Outgoing,
         \A d \in Conns : d # c => stage'[d] = stage[d],
         stage'[c] # "idle",
         UNCHANGED <<esi, late>>, sa2Session' = sa2Session \/ sa2Session' = None,
         \A u \in Threads : u # c => thread'[u] = thread[u],
         thread'[c] = thread[c] \/ thread'[c].at \in {"idle", "erase"}
           \/ (At(c, "idle") /\ thread'[c].at = "esi" /\ thread'[c].sess = sa2Session /\ stage'[c] = "up"),
         At(c, "esi") => stage'[c] \in {"up", "gone"},
         Alive(c) \/ stage[c] = "asked" => sa2Session' = None \/ Alive(c)'
  PROVE  LiveInv'
<1> USE DEF LiveInv
<1>0. c \in Threads BY ConnFacts
<1>1. \A u \in Threads : thread'[u].at \in Creating => thread[u].at \in Creating /\ thread'[u] = thread[u]
  BY DEF Creating
<1>2. ASSUME NEW d \in Outgoing, Unentered(d) PROVE Unentered(d)'
  <2>1. \A u \in Threads : thread'[u].at = "esi" => thread'[u].sess # d BY <1>2 DEF Unentered
  <2>2. QED BY <1>2, <2>1, ConnFacts DEF Unentered
<1>3. NewInv'
  <2>1. ASSUME NEW d \in Outgoing, stage'[d] = "idle"
        PROVE  Unentered(d)' /\ \A u \in Threads : thread'[u].at \in Creating => thread'[u].sess # d
    <3>1. stage[d] = "idle" BY <2>1, ConnFacts
    <3>2. QED BY <1>1, <1>2, <3>1 DEF NewInv
  <2>2. ASSUME NEW u \in Threads, thread'[u].at \in Creating
        PROVE  /\ Unentered(Sess(u))'
               /\ \A v \in Threads : v # u /\ thread'[v].at \in Creating => thread'[v].sess # thread'[u].sess
    <3>1. thread[u].at \in Creating /\ thread'[u] = thread[u] /\ Sess(u) \in Outgoing
      BY <1>1, <2>2 DEF TypeInv, Placed
    <3>2. /\ Unentered(Sess(u))
          /\ \A v \in Threads : v # u /\ thread[v].at \in Creating => Sess(v) # Sess(u)
      BY <3>1 DEF NewInv
    <3>3. \A v \in Threads : thread'[v].at = "esi" => thread'[v].sess # Sess(u) BY <3>2 DEF Unentered
    <3>4. Sess(u) # sa2Session' /\ esi'[Sess(u)] = None BY <3>1, <3>2, ConnFacts DEF Unentered
    <3>5. Unentered(Sess(u))' BY <3>1, <3>3, <3>4 DEF Unentered
    <3>6. QED BY <1>1, <3>1, <3>2, <3>5
  <2>3. ASSUME NEW d \in Outgoing, thread'[d].at = "esi" PROVE stage'[d] \in {"up", "gone"}
    BY <1>0, <2>3, ConnFacts DEF NewInv
  <2>4. QED BY <2>1, <2>2, <2>3 DEF NewInv
<1>4. AliveInv'
  <2> SUFFICES ASSUME sa2Session' # None PROVE AliveInv' BY DEF AliveInv
  <2>1. sa2Session' = sa2Session /\ sa2Session \in Outgoing BY DEF TypeInv, TypeOK
  <2>2. \A d \in Outgoing : Alive(d) => Alive(d)' BY <2>1, ConnFacts DEF Alive
  <2>3. stage[sa2Session] = "asked" => stage'[sa2Session] = "asked" \/ Alive(sa2Session)'
    BY <2>1, ConnFacts DEF Alive
  <2>4. /\ late[sa2Session] \/ stage[sa2Session] = "asked" \/ Alive(sa2Session)
        /\ esi[sa2Session] # None => esi[sa2Session] \in Outgoing /\ Alive(esi[sa2Session])
    BY <2>1 DEF AliveInv
  <2>5. Alive(sa2Session) => Alive(sa2Session)' BY <2>1, <2>2
  <2>6. esi[sa2Session] # None => Alive(esi[sa2Session])' BY <2>2, <2>4
  <2>7. QED BY <2>1, <2>3, <2>4, <2>5, <2>6 DEF AliveInv
<1>5. QED BY <1>3, <1>4

\* The session that gets an esi is no new one, and the connection is up or was closed directly.
LEMMA LiveSetEsi ==
  ASSUME TypeInv, LiveInv, NEW c \in Conns, SetEsi(c)
  PROVE  LiveInv'
<1> USE DEF LiveInv
<1> DEFINE s == Sess(c)
<1>0. c \in Threads BY ConnFacts
<1>1. At(c, "esi") /\ c \in Outgoing /\ s \in Outgoing /\ Moves(c, "size", s, thread[c].pkt)
  BY HandlerMoves
<1>2. UNCHANGED <<sa2Session, stage, late>> /\ esi' = [esi EXCEPT ![s] = c] BY DEF SetEsi, EsiSet
<1>3. esi'[s] = c /\ \A d \in Conns : d # s => esi'[d] = esi[d]
  BY <1>1, <1>2, ConnFacts DEF TypeInv, TypeOK
<1>4. \A u \in Threads : u # c => thread'[u] = thread[u] BY <1>1 DEF Moves
<1>5. thread'[c].at = "size" BY <1>1 DEF Moves
<1>6. ASSUME NEW d \in Outgoing, Unentered(d) PROVE Unentered(d)'
  <2>1. d # s BY <1>0, <1>1, <1>6 DEF Unentered
  <2>2. QED BY <1>2, <1>3, <1>4, <1>5, <1>6, <2>1, ConnFacts DEF Unentered
<1>7. \A u \in Threads : thread'[u].at \in Creating => thread[u].at \in Creating /\ thread'[u] = thread[u]
  BY <1>4, <1>5 DEF Creating
<1>8. NewInv'
  <2>1. ASSUME NEW d \in Outgoing, stage'[d] = "idle"
        PROVE  Unentered(d)' /\ \A u \in Threads : thread'[u].at \in Creating => thread'[u].sess # d
    BY <1>2, <1>6, <1>7, <2>1 DEF NewInv
  <2>2. ASSUME NEW u \in Threads, thread'[u].at \in Creating
        PROVE  /\ Unentered(Sess(u))'
               /\ \A v \in Threads : v # u /\ thread'[v].at \in Creating => thread'[v].sess # thread'[u].sess
    <3>1. thread[u].at \in Creating /\ thread'[u] = thread[u] /\ Sess(u) \in Outgoing
      BY <1>7, <2>2 DEF TypeInv, Placed
    <3>2. /\ Unentered(Sess(u))
          /\ \A v \in Threads : v # u /\ thread[v].at \in Creating => Sess(v) # Sess(u)
      BY <3>1 DEF NewInv
    <3>3. Sess(u) # s BY <1>0, <1>1, <3>2 DEF Unentered
    <3>4. esi'[Sess(u)] = None BY <1>3, <3>1, <3>2, <3>3, ConnFacts DEF Unentered
    <3>5. \A v \in Threads : thread'[v].at = "esi" => thread'[v].sess # Sess(u)
      BY <1>4, <1>5, <3>2 DEF Unentered
    <3>6. Unentered(Sess(u))' BY <1>2, <3>1, <3>2, <3>4, <3>5 DEF Unentered
    <3>7. QED BY <1>7, <3>1, <3>2, <3>6
  <2>3. ASSUME NEW d \in Outgoing, thread'[d].at = "esi" PROVE stage'[d] \in {"up", "gone"}
    BY <1>2, <1>4, <1>5, <2>3, ConnFacts DEF NewInv
  <2>4. QED BY <2>1, <2>2, <2>3 DEF NewInv
<1>9. AliveInv'
  <2> SUFFICES ASSUME sa2Session # None PROVE AliveInv' BY <1>2 DEF AliveInv
  <2>1. sa2Session \in Outgoing BY DEF TypeInv, TypeOK
  <2>2. \A d \in Outgoing : Alive(d) => Alive(d)' BY <1>1, <1>2, <1>4, ConnFacts DEF Alive
  <2>3. stage[c] \in {"up", "gone"} BY <1>1 DEF NewInv
  <2>4. Alive(c)' BY <1>2, <2>3 DEF Alive
  <2>5. /\ late[sa2Session] \/ stage[sa2Session] = "asked" \/ Alive(sa2Session)
        /\ esi[sa2Session] # None => esi[sa2Session] \in Outgoing /\ Alive(esi[sa2Session])
    BY DEF AliveInv
  <2>6. CASE sa2Session = s BY <1>1, <1>2, <1>3, <2>1, <2>2, <2>4, <2>5, <2>6 DEF AliveInv
  <2>7. CASE sa2Session # s
    <3>1. esi'[sa2Session] = esi[sa2Session] BY <1>3, <2>1, <2>7, ConnFacts
    <3>2. QED BY <1>2, <2>1, <2>2, <2>5, <3>1 DEF AliveInv
  <2>8. QED BY <2>6, <2>7
<1>10. QED BY <1>8, <1>9

LEMMA LiveHandler ==
  ASSUME TypeInv, LiveInv, NEW c \in Conns,
         Handler(c) \/ Ends(c) \/ ClosedDirectly(c) \/ NotifyBindAddress(c)
  PROVE  LiveInv'
<1>0. c \in Threads /\ "bind" \in Threads BY ConnFacts
<1>1. CASE SetEsi(c) BY <1>1, LiveSetEsi
<1>2. CASE Erase(c)
  <2>1. At(c, "erase") /\ Moves(c, "idle", None, None) BY <1>2, HandlerMoves
  <2>2. /\ UNCHANGED <<stage, late, esi>>
        /\ sa2Session' = sa2Session \/ sa2Session' = None
        /\ c \in Outgoing => sa2Session' = None
    BY <1>2 DEF Erase, Erased, historyVars
  <2>3. QED BY <1>0, <2>1, <2>2, LiveMoves DEF Creating
<1>3. CASE Ends(c)
  <2>1. At(c, "idle") /\ Moves(c, "erase", Sess(c), thread[c].pkt) BY <1>3, HandlerMoves
  <2>2. /\ stage[c] = "up" /\ stage' = [stage EXCEPT ![c] = "down"]
        /\ UNCHANGED <<sa2Session, esi, late>>
    BY <1>3 DEF Ends, sessionVars, historyVars
  <2>3. stage'[c] = "down" /\ \A d \in Conns : d # c => stage'[d] = stage[d]
    BY <2>2 DEF TypeInv, TypeOK
  <2>4. thread'[c].at = "erase" /\ \A u \in Threads : u # c => thread'[u] = thread[u]
    BY <2>1 DEF Moves
  <2>5. Alive(c)' BY <2>3, <2>4 DEF Alive
  <2>6. QED BY <2>1, <2>2, <2>3, <2>4, <2>5, LiveStage
<1>4. CASE ClosedDirectly(c)
  <2>1. /\ stage[c] = "up" /\ stage' = [stage EXCEPT ![c] = "gone"]
        /\ UNCHANGED <<sa2Session, esi, late, thread>>
    BY <1>4 DEF ClosedDirectly, sessionVars, historyVars
  <2>2. stage'[c] = "gone" /\ \A d \in Conns : d # c => stage'[d] = stage[d]
    BY <2>1 DEF TypeInv, TypeOK
  <2>3. Alive(c)' BY <2>2 DEF Alive
  <2>4. QED BY <2>1, <2>2, <2>3, LiveStage
<1>5. CASE NotifyBindAddress(c)
  <2>1. At("bind", "idle") /\ Moves("bind", "size", c, None) BY <1>5, HandlerMoves
  <2>2. UNCHANGED <<sa2Session, stage, late, esi>> BY <1>5 DEF NotifyBindAddress, sessionVars
  <2>3. QED BY <1>0, <2>1, <2>2, LiveMoves DEF Creating
<1>6. QED BY <1>1, <1>2, <1>3, <1>4, <1>5 DEF Handler

LEMMA LiveAnswer ==
  ASSUME TypeInv, LiveInv, NEW c \in Conns,
         FindConnected(c) \/ ConnectFailed(c) \/ Accept(c) \/ Accepted(c)
  PROVE  LiveInv'
<1>1. CASE FindConnected(c)
  <2>1. At(c, "idle")
        /\ \/ sa2Session = None /\ Moves(c, "idle", None, None)
           \/ sa2Session \in Outgoing /\ Moves(c, "esi", sa2Session, None)
    BY <1>1, HandlerMoves
  <2>2. /\ stage[c] = "asked" /\ stage' = [stage EXCEPT ![c] = "up"]
        /\ UNCHANGED <<sa2Session, esi, late>>
    BY <1>1 DEF FindConnected, sessionVars, historyVars
  <2>3. stage'[c] = "up" /\ \A d \in Conns : d # c => stage'[d] = stage[d]
    BY <2>2 DEF TypeInv, TypeOK
  <2>4. /\ \A u \in Threads : u # c => thread'[u] = thread[u]
        /\ thread'[c].at = "idle" \/ (thread'[c].at = "esi" /\ thread'[c].sess = sa2Session)
    BY <2>1 DEF Moves
  <2>5. Alive(c)' BY <2>3 DEF Alive
  <2>6. QED BY <2>1, <2>2, <2>3, <2>4, <2>5, LiveStage
<1>2. CASE ConnectFailed(c)
  <2>1. /\ At(c, "idle") /\ stage[c] = "asked" /\ stage' = [stage EXCEPT ![c] = "down"]
        /\ sa2Session' = None /\ UNCHANGED <<esi, late, thread>>
    BY <1>2 DEF ConnectFailed, Erased, historyVars
  <2>2. stage'[c] = "down" /\ \A d \in Conns : d # c => stage'[d] = stage[d]
    BY <2>1 DEF TypeInv, TypeOK
  <2>3. QED BY <2>1, <2>2, LiveStage
<1>3. CASE Accept(c)
  <2>1. /\ c \notin Outgoing /\ stage' = [stage EXCEPT ![c] = "up"]
        /\ UNCHANGED <<sa2Session, esi, late, thread>>
    BY <1>3, ThreadsAssumption DEF Accept, sessionVars, historyVars
  <2>2. stage'[c] = "up" /\ \A d \in Conns : d # c => stage'[d] = stage[d]
    BY <2>1 DEF TypeInv, TypeOK
  <2>3. Alive(c)' BY <2>2 DEF Alive
  <2>4. QED BY <2>1, <2>2, <2>3, LiveStage
<1>4. CASE Accepted(c)
  <2>1. /\ c \notin Outgoing /\ esi' = [esi EXCEPT ![c] = c]
        /\ late' = [late EXCEPT ![c] = stage[c] # "up"]
        /\ UNCHANGED <<sa2Session, stage, thread>>
    BY <1>4, ThreadsAssumption DEF Accepted
  <2>2. \A d \in Outgoing : esi'[d] = esi[d] /\ late'[d] = late[d]
    BY <2>1, ConnFacts DEF TypeInv, TypeOK
  <2>3. \A u \in Threads : thread[u].at \in Creating => Sess(u) \in Outgoing BY DEF TypeInv, Placed
  <2>4. \A d \in Outgoing : Unentered(d) => Unentered(d)' BY <2>1, <2>2 DEF Unentered
  <2>5. \A u \in Threads : thread[u].at \in Creating => Unentered(Sess(u))'
    BY <2>1, <2>2, <2>3 DEF LiveInv, NewInv, Unentered
  <2>6. NewInv' BY <2>1, <2>4, <2>5 DEF LiveInv, NewInv
  <2>7. sa2Session \in Outgoing \cup {None} BY DEF TypeInv, TypeOK
  <2>8. AliveInv' BY <2>1, <2>2, <2>7 DEF LiveInv, AliveInv, Alive
  <2>9. QED BY <2>6, <2>8 DEF LiveInv
<1>5. QED BY <1>1, <1>2, <1>3, <1>4

LEMMA LiveInit == Init => LiveInv
<1> SUFFICES ASSUME Init PROVE LiveInv OBVIOUS
<1>1. NewInv BY ConnFacts DEF Init, NewInv, Unentered, Resting, Creating
<1>2. AliveInv BY DEF Init, AliveInv
<1>3. QED BY <1>1, <1>2 DEF LiveInv

LEMMA LiveStep == TypeInv /\ LiveInv /\ [Next]_vars => LiveInv'
<1> SUFFICES ASSUME TypeInv, LiveInv, [Next]_vars PROVE LiveInv' OBVIOUS
<1>1. CASE UNCHANGED vars
  <2>1. UNCHANGED <<sa2Session, esi, stage, thread, late>> BY <1>1 DEF vars, sessionVars, historyVars
  <2>2. NewInv' BY <2>1 DEF LiveInv, NewInv, Unentered
  <2>3. AliveInv' BY <2>1 DEF LiveInv, AliveInv, Alive
  <2>4. QED BY <2>2, <2>3 DEF LiveInv
<1>2. ASSUME NEW t \in Threads, Step(t) PROVE LiveInv'
  BY <1>2, LiveDrain, LiveEmplace, LiveAsk DEF Step
<1>3. ASSUME NEW t \in Senders, NEW m \in Packets,
             FindSession(t, m) \/ \E c \in Incoming : PassPacket(t, c, m)
      PROVE  LiveInv'
  BY <1>3, ConnFacts, LiveRequest
<1>4. ASSUME NEW c \in Conns, Handler(c) \/ Ends(c) \/ ClosedDirectly(c) \/ NotifyBindAddress(c)
      PROVE  LiveInv'
  BY <1>4, LiveHandler
<1>5. ASSUME NEW c \in Conns, FindConnected(c) \/ ConnectFailed(c) \/ Accept(c) \/ Accepted(c)
      PROVE  LiveInv'
  BY <1>5, LiveAnswer
<1>6. QED BY <1>1, <1>2, <1>3, <1>4, <1>5, ConnFacts DEF Next

\* The address never leads to a connection whose end has been handled, unless the session
\* was entered after the answer to its attempt: the next SendPacket connects anew.
THEOREM NoDeadSessionHolds == Spec => []NoDeadSession
<1>1. Init => TypeInv /\ LiveInv BY TypeInit, LiveInit
<1>2. TypeInv /\ LiveInv /\ [Next]_vars => (TypeInv /\ LiveInv)' BY TypeStep, LiveStep
<1>3. TypeInv /\ LiveInv => NoDeadSession
  <2> SUFFICES ASSUME TypeInv, LiveInv PROVE NoDeadSession OBVIOUS
  <2>1. QED BY DEF LiveInv, AliveInv, Alive, NoDeadSession
<1>4. QED BY <1>1, <1>2, <1>3, PTL DEF Spec

-----------------------------------------------------------------------------
(* Packets are handed over once and in order.                                   *)

DrainPlaces == {"size", "front", "pop", "send"}

Draws(t, s) == thread[t].at \in DrainPlaces /\ Sess(t) = s

OneDrainer ==
  \A s \in Conns : ~raced[s] => \A t, u \in Threads : Draws(t, s) /\ Draws(u, s) => t = u

\* What the drainer has seen of the cache still holds.
SeenInv ==
  \A t \in Threads : ~raced[Sess(t)] =>
    /\ thread[t].at \in {"front", "pop"} => cache[Sess(t)] # <<>>
    /\ At(t, "pop") => thread[t].pkt = Head(cache[Sess(t)])

\* All that was put in was taken, is in the drainer's hand or is in the cache.
Sends(t, s) == At(t, "send") /\ Sess(t) = s

Flows(s) ==
  /\ (\A t \in Threads : ~Sends(t, s)) => pushed[s] = taken[s] \o cache[s]
  /\ \A t \in Threads : Sends(t, s) => pushed[s] = taken[s] \o <<thread[t].pkt>> \o cache[s]

FlowInv == \A s \in Conns : ~raced[s] => Flows(s)

CorruptInv == corrupt => \E s \in Conns : raced[s]

OrderInv == OneDrainer /\ SeenInv /\ FlowInv /\ CorruptInv

LEMMA BehindAll ==
  \A a, b \in Seq(Packets), m \in Packets : Append(a \o b, m) = a \o Append(b, m)
<1> TAKE a, b \in Seq(Packets), m \in Packets
<1>1. <<m>> \in Seq(Packets) /\ a \o b \in Seq(Packets) BY ConcatProperties
<1>2. Append(b, m) = b \o <<m>> /\ Append(a \o b, m) = (a \o b) \o <<m>> BY <1>1, AppendIsConcat
<1>3. (a \o b) \o <<m>> = a \o (b \o <<m>>) BY <1>1, ConcatAssociative
<1>4. QED BY <1>2, <1>3, Zenon

LEMMA FromHand ==
  ASSUME NEW P, NEW a \in Seq(P), NEW b \in Seq(P), NEW p \in P
  PROVE  a \o <<p>> \o b = Append(a, p) \o b
BY AppendIsConcat, Zenon

LEMMA IntoHand ==
  ASSUME NEW P, NEW a \in Seq(P), NEW b \in Seq(P), b # <<>>
  PROVE  a \o b = a \o <<Head(b)>> \o Tail(b)
<1>1. b = <<Head(b)>> \o Tail(b) /\ <<Head(b)>> \in Seq(P) /\ Tail(b) \in Seq(P) OBVIOUS
<1>2. (a \o <<Head(b)>>) \o Tail(b) = a \o (<<Head(b)>> \o Tail(b)) BY <1>1, ConcatAssociative
<1>3. QED BY <1>1, <1>2, Zenon

LEMMA SameHead ==
  ASSUME NEW P, NEW b \in Seq(P), NEW m \in P
  PROVE  Append(b, m) # <<>> /\ (b # <<>> => Head(Append(b, m)) = Head(b))
OBVIOUS

LEMMA EmptyHand ==
  ASSUME NEW P, NEW a \in Seq(P), NEW b \in Seq(P)
  PROVE  a \o <<>> \o b = a \o b
BY ConcatEmptySeq, Zenon

\* A session is undisturbed while its packets and those who send them are.
LEMMA FlowKept ==
  ASSUME NEW c \in Conns, Flows(c),
         taken'[c] = taken[c], pushed'[c] = pushed[c], cache'[c] = cache[c],
         \A u \in Threads : Sends(u, c)' <=> Sends(u, c),
         \A u \in Threads : Sends(u, c) => thread'[u].pkt = thread[u].pkt
  PROVE  Flows(c)'
<1>1. ASSUME \A u \in Threads : ~Sends(u, c)' PROVE pushed'[c] = taken'[c] \o cache'[c]
  BY <1>1, Zenon DEF Flows
<1>2. ASSUME NEW u \in Threads, Sends(u, c)'
      PROVE  pushed'[c] = taken'[c] \o <<thread'[u].pkt>> \o cache'[c]
  BY <1>2, Zenon DEF Flows
<1>3. QED BY <1>1, <1>2, Zenon DEF Flows

\* A step that leaves the caches alone and is none of the drainer's reads and writes; if
\* it enters the drain it is alone there or the session is marked.
LEMMA OrderMoves ==
  ASSUME TypeInv, OrderInv, NEW t \in Threads, NEW where, NEW s, NEW m, Moves(t, where, s, m),
         UNCHANGED <<cache, taken, pushed, corrupt>>,
         \A c \in Conns : raced[c] => raced'[c],
         ~At(t, "send"), where \notin {"front", "pop", "send"},
         where = "size" => s \in Conns /\ (raced'[s] \/ \A u \in Threads : u # t => ~Draws(u, s))
  PROVE  OrderInv'
<1> USE DEF OrderInv
<1>1. OneDrainer'
  <2> SUFFICES ASSUME NEW c \in Conns, ~raced'[c], NEW u \in Threads, NEW v \in Threads,
                      Draws(u, c)', Draws(v, c)', u # v
               PROVE  FALSE
    BY DEF OneDrainer
  <2>1. ~raced[c] OBVIOUS
  <2>2. CASE u # t /\ v # t BY <2>1, <2>2 DEF OneDrainer, Draws, Moves
  <2>3. CASE u = t
    <3>1. where = "size" /\ s = c BY <2>3 DEF Draws, DrainPlaces, Moves
    <3>2. Draws(v, c) BY <2>3 DEF Draws, Moves
    <3>3. QED BY <2>3, <3>1, <3>2
  <2>4. CASE v = t
    <3>1. where = "size" /\ s = c BY <2>4 DEF Draws, DrainPlaces, Moves
    <3>2. Draws(u, c) BY <2>4 DEF Draws, Moves
    <3>3. QED BY <2>4, <3>1, <3>2
  <2>5. QED BY <2>2, <2>3, <2>4
<1>2. SeenInv'
  <2> SUFFICES ASSUME NEW u \in Threads, ~raced'[thread'[u].sess], thread'[u].at \in {"front", "pop"}
               PROVE  /\ cache'[thread'[u].sess] # <<>>
                      /\ thread'[u].at = "pop" => thread'[u].pkt = Head(cache'[thread'[u].sess])
    BY DEF SeenInv
  <2>1. u # t /\ thread'[u] = thread[u] BY DEF Moves
  <2>2. Sess(u) \in Conns BY <2>1 DEF TypeInv, Placed, Serving
  <2>3. ~raced[Sess(u)] BY <2>1, <2>2
  <2>4. QED BY <2>1, <2>3 DEF SeenInv
<1>3. FlowInv'
  <2> SUFFICES ASSUME NEW c \in Conns, ~raced'[c] PROVE Flows(c)' BY DEF FlowInv
  <2>1. ~raced[c] /\ Flows(c) BY DEF FlowInv
  <2>2. \A u \in Threads : thread'[u].at = "send" => u # t /\ thread'[u] = thread[u] BY DEF Moves
  <2>3. \A u \in Threads : thread[u].at = "send" => u # t /\ thread'[u] = thread[u] BY DEF Moves
  <2>4. /\ \A u \in Threads : Sends(u, c)' <=> Sends(u, c)
        /\ \A u \in Threads : Sends(u, c) => thread'[u].pkt = thread[u].pkt
    BY <2>2, <2>3 DEF Sends
  <2>5. QED BY <2>1, <2>4, FlowKept
<1>4. CorruptInv' BY DEF CorruptInv
<1>5. QED BY <1>1, <1>2, <1>3, <1>4

\* The same for a step of no thread's.
LEMMA OrderStill ==
  ASSUME TypeInv, OrderInv, UNCHANGED <<thread, cache, taken, pushed, corrupt, raced>>
  PROVE  OrderInv'
BY DEF OrderInv, OneDrainer, SeenInv, FlowInv, Flows, Sends, CorruptInv, Draws

\* A thread that enters the drain marks the session if another is draining it.
LEMMA EnterMarks ==
  ASSUME TypeInv, NEW t \in Threads, EnterDrain(t), Sess(t) \in Conns
  PROVE  /\ \A c \in Conns : raced[c] => raced'[c]
         /\ raced'[Sess(t)] \/ \A u \in Threads : u # t => ~Draws(u, Sess(t))
<1>1. raced' = [raced EXCEPT ![Sess(t)] = @ \/ Draining(Sess(t)) \ {t} # {}] BY DEF EnterDrain
<1>2. raced \in [Conns -> BOOLEAN] BY DEF TypeInv, TypeOK
<1>3. \A c \in Conns : raced'[c] = IF c = Sess(t) THEN raced[c] \/ Draining(c) \ {t} # {} ELSE raced[c]
  BY <1>1, <1>2
<1>4. \A u \in Threads : u # t /\ Draws(u, Sess(t)) => u \in Draining(Sess(t)) \ {t}
  BY DEF Draws, DrainPlaces, Draining
<1>5. QED BY <1>3, <1>4

LEMMA DrainerKept ==
  ASSUME TypeInv, OneDrainer, NEW t \in Threads, NEW where, NEW s, NEW m, Moves(t, where, s, m),
         UNCHANGED raced, where \in DrainPlaces => Draws(t, s)
  PROVE  OneDrainer'
<1>1. \A u \in Threads, c \in Conns : Draws(u, c)' => Draws(u, c) BY DEF Draws, Moves
<1>2. QED BY <1>1 DEF OneDrainer

\* The drainer looks at the cache.
LEMMA OrderReads ==
  ASSUME TypeInv, OrderInv, NEW t \in Threads, NEW where, NEW s, NEW m, Moves(t, where, s, m),
         UNCHANGED <<cache, taken, pushed, raced>>,
         thread[t].at \in {"size", "front"}, where \in {"idle", "front", "pop"},
         where # "idle" => s = Sess(t) /\ cache[s] # <<>>,
         where = "pop" => m = Head(cache[s]),
         corrupt' => corrupt \/ \E c \in Conns : raced[c]
  PROVE  OrderInv'
<1> USE DEF OrderInv
<1>1. OneDrainer' BY DrainerKept DEF Draws, DrainPlaces
<1>2. SeenInv' BY DEF SeenInv, Moves
<1>3. FlowInv'
  <2> SUFFICES ASSUME NEW c \in Conns, ~raced'[c] PROVE Flows(c)' BY DEF FlowInv
  <2>1. ~raced[c] /\ Flows(c) BY DEF FlowInv
  <2>2. \A u \in Threads : thread'[u].at = "send" => u # t /\ thread'[u] = thread[u] BY DEF Moves
  <2>3. \A u \in Threads : thread[u].at = "send" => u # t /\ thread'[u] = thread[u] BY DEF Moves
  <2>4. /\ \A u \in Threads : Sends(u, c)' <=> Sends(u, c)
        /\ \A u \in Threads : Sends(u, c) => thread'[u].pkt = thread[u].pkt
    BY <2>2, <2>3 DEF Sends
  <2>5. QED BY <2>1, <2>4, FlowKept
<1>4. CorruptInv' BY DEF CorruptInv
<1>5. QED BY <1>1, <1>2, <1>3, <1>4

\* pop_front takes what front returned.
LEMMA OrderPop ==
  ASSUME TypeInv, OrderInv, NEW t \in Threads, Pop(t)
  PROVE  OrderInv'
<1> USE DEF OrderInv
<1> DEFINE s == Sess(t)
<1>1. At(t, "pop") /\ s \in Conns /\ Moves(t, "send", s, thread[t].pkt) BY DrainMoves
<1>2. UNCHANGED <<taken, pushed, raced>> BY DEF Pop, historyVars
<1>3. \A c \in Conns : c # s => cache'[c] = cache[c] BY <1>1 DEF Pop, Popped, TypeInv, TypeOK
<1>4. \A u \in Threads : u # t => thread'[u] = thread[u] BY <1>1 DEF Moves
<1>5. thread'[t].at = "send" /\ thread'[t].sess = s /\ thread'[t].pkt = thread[t].pkt BY <1>1 DEF Moves
<1>6. \A u \in Threads : ~raced[s] /\ Draws(u, s) => u = t BY <1>1 DEF OneDrainer, Draws, DrainPlaces
<1>7. ~raced[s] => cache[s] # <<>> /\ thread[t].pkt = Head(cache[s]) BY <1>1 DEF SeenInv
<1>8. cache[s] # <<>> => corrupt' = corrupt /\ cache'[s] = Tail(cache[s])
  BY <1>1 DEF Pop, Popped, TypeInv, TypeOK
<1>9. OneDrainer' BY <1>1, <1>2, DrainerKept DEF Draws, DrainPlaces
<1>10. SeenInv'
  <2> SUFFICES ASSUME NEW u \in Threads, ~raced'[thread'[u].sess], thread'[u].at \in {"front", "pop"}
               PROVE  /\ cache'[thread'[u].sess] # <<>>
                      /\ thread'[u].at = "pop" => thread'[u].pkt = Head(cache'[thread'[u].sess])
    BY DEF SeenInv
  <2>1. u # t /\ thread'[u] = thread[u] BY <1>4, <1>5
  <2>2. Sess(u) # s BY <1>2, <1>6, <2>1 DEF Draws, DrainPlaces
  <2>3. Sess(u) \in Conns BY <2>1 DEF TypeInv, Placed, Serving
  <2>4. cache'[Sess(u)] = cache[Sess(u)] BY <1>3, <2>2, <2>3
  <2>5. QED BY <1>2, <2>1, <2>4 DEF SeenInv
<1>11. ASSUME NEW c \in Conns, ~raced[c] PROVE Flows(c)'
  <2>0. Flows(c) BY <1>11 DEF FlowInv
  <2>1. CASE c = s
    <3>1. \A u \in Threads : ~Sends(u, s)
      BY <1>1, <1>6, <1>11, <2>1 DEF Draws, DrainPlaces, Sends
    <3>2. pushed[s] = taken[s] \o cache[s] BY <2>0, <2>1, <3>1, Zenon DEF Flows
    <3>3. taken[s] \in Seq(Packets) /\ cache[s] \in Seq(Packets) /\ cache[s] # <<>>
      BY <1>1, <1>7, <1>11, <2>1 DEF TypeInv, TypeOK
    <3>5. pushed[s] = taken[s] \o <<Head(cache[s])>> \o Tail(cache[s]) BY <3>2, <3>3, IntoHand, Zenon
    <3>6. /\ pushed'[s] = pushed[s] /\ taken'[s] = taken[s] /\ cache'[s] = Tail(cache[s])
          /\ thread[t].pkt = Head(cache[s]) /\ thread'[t].pkt = thread[t].pkt
      BY <1>2, <1>5, <1>7, <1>8, <1>11, <2>1, <3>3
    <3>7. \A u \in Threads : Sends(u, c)' => u = t
      <4>1. \A u \in Threads : u # t => ~(thread[u].at = "send" /\ thread[u].sess = c)
        BY <2>1, <3>1, Zenon DEF Sends
      <4>2. QED BY <1>4, <4>1, Zenon DEF Sends
    <3>8. /\ pushed'[c] = taken[c] \o <<Head(cache[c])>> \o Tail(cache[c])
          /\ taken'[c] = taken[c] /\ cache'[c] = Tail(cache[c])
          /\ thread'[t].pkt = Head(cache[c])
      BY <2>1, <3>5, <3>6, Zenon
    <3>9. Sends(t, c)' BY <1>5, <2>1 DEF Sends
    <3>10. ASSUME NEW u \in Threads, Sends(u, c)'
           PROVE  pushed'[c] = taken'[c] \o <<thread'[u].pkt>> \o cache'[c]
      <4>1. u = t BY <3>7, <3>10
      <4>2. QED BY <3>8, <4>1, Zenon
    <3>11. QED BY <3>9, <3>10, Zenon DEF Flows
  <2>2. CASE c # s
    <3>1. cache'[c] = cache[c] BY <1>3, <2>2
    <3>2. \A u \in Threads : thread'[u].sess = c => u # t /\ thread'[u] = thread[u] BY <1>4, <1>5, <2>2
    <3>3. \A u \in Threads : thread[u].sess = c => u # t /\ thread'[u] = thread[u] BY <1>4, <2>2
    <3>4. /\ \A u \in Threads : Sends(u, c)' <=> Sends(u, c)
          /\ \A u \in Threads : Sends(u, c) => thread'[u].pkt = thread[u].pkt
      BY <3>2, <3>3 DEF Sends
    <3>5. QED BY <1>2, <2>0, <3>1, <3>4, FlowKept
  <2>3. QED BY <2>1, <2>2
<1>12. FlowInv' BY <1>2, <1>11 DEF FlowInv
<1>13. CorruptInv' BY <1>1, <1>2, <1>7, <1>8 DEF CorruptInv
<1>14. QED BY <1>9, <1>10, <1>12, <1>13

\* The packet in hand is the next that Oscar gets.
LEMMA OrderSend ==
  ASSUME TypeInv, OrderInv, NEW t \in Threads, SendFront(t)
  PROVE  OrderInv'
<1> USE DEF OrderInv
<1> DEFINE s == Sess(t)
<1>1. At(t, "send") /\ s \in Conns /\ Moves(t, "size", s, None) BY DrainMoves
<1>2. /\ UNCHANGED <<cache, pushed, raced, corrupt>>
      /\ taken' = [taken EXCEPT ![s] = Append(@, thread[t].pkt)]
  BY DEF SendFront, sessionVars
<1>3. taken'[s] = Append(taken[s], thread[t].pkt) /\ \A c \in Conns : c # s => taken'[c] = taken[c]
  BY <1>1, <1>2 DEF TypeInv, TypeOK
<1>4. \A u \in Threads : u # t => thread'[u] = thread[u] BY <1>1 DEF Moves
<1>5. thread'[t].at = "size" /\ thread'[t].sess = s BY <1>1 DEF Moves
<1>6. \A u \in Threads : ~raced[s] /\ Draws(u, s) => u = t BY <1>1 DEF OneDrainer, Draws, DrainPlaces
<1>7. OneDrainer' BY <1>1, <1>2, DrainerKept DEF Draws, DrainPlaces
<1>8. SeenInv' BY <1>2, <1>4, <1>5 DEF SeenInv
<1>9. ASSUME NEW c \in Conns, ~raced[c] PROVE Flows(c)'
  <2>0. Flows(c) BY <1>9 DEF FlowInv
  <2>1. CASE c = s
    <3>1. \A u \in Threads : ~Sends(u, c)'
      BY <1>4, <1>5, <1>6, <1>9, <2>1 DEF Draws, DrainPlaces, Sends
    <3>2. Sends(t, s) BY <1>1 DEF Sends
    <3>3. pushed[s] = taken[s] \o <<thread[t].pkt>> \o cache[s] BY <2>0, <2>1, <3>2, Zenon DEF Flows
    <3>4. taken[s] \in Seq(Packets) /\ cache[s] \in Seq(Packets) /\ thread[t].pkt \in Packets
      BY <1>1 DEF TypeInv, TypeOK, Placed, Holding
    <3>5. pushed[s] = Append(taken[s], thread[t].pkt) \o cache[s]
      <4>1. taken[s] \o <<thread[t].pkt>> \o cache[s] = Append(taken[s], thread[t].pkt) \o cache[s]
        BY <3>4, FromHand, Zenon
      <4>2. QED BY <3>3, <4>1, Zenon
    <3>6. /\ pushed'[s] = pushed[s] /\ cache'[s] = cache[s]
          /\ taken'[s] = Append(taken[s], thread[t].pkt)
      BY <1>2, <1>3
    <3>7. pushed'[c] = taken'[c] \o cache'[c] BY <2>1, <3>5, <3>6, Zenon
    <3>8. QED BY <3>1, <3>7, Zenon DEF Flows
  <2>2. CASE c # s
    <3>1. taken'[c] = taken[c] BY <1>3, <2>2
    <3>2. \A u \in Threads : thread'[u].sess = c => u # t /\ thread'[u] = thread[u] BY <1>4, <1>5, <2>2
    <3>3. \A u \in Threads : thread[u].sess = c => u # t /\ thread'[u] = thread[u] BY <1>4, <2>2
    <3>4. /\ \A u \in Threads : Sends(u, c)' <=> Sends(u, c)
          /\ \A u \in Threads : Sends(u, c) => thread'[u].pkt = thread[u].pkt
      BY <3>2, <3>3 DEF Sends
    <3>5. QED BY <1>2, <2>0, <3>1, <3>4, FlowKept
  <2>3. QED BY <2>1, <2>2
<1>10. FlowInv' BY <1>2, <1>9 DEF FlowInv
<1>11. CorruptInv' BY <1>2 DEF CorruptInv
<1>12. QED BY <1>7, <1>8, <1>10, <1>11

\* What is put in goes behind what is there.
LEMMA OrderPush ==
  ASSUME TypeInv, OrderInv, NEW t \in Threads, Push(t)
  PROVE  OrderInv'
<1> USE DEF OrderInv
<1> DEFINE s == Sess(t)
           p == thread[t].pkt
<1>1. At(t, "push") /\ s \in Conns /\ p \in Packets /\ Moves(t, "test", s, None) BY SenderMoves
<1>2. /\ UNCHANGED <<taken, raced, corrupt>>
      /\ cache' = [cache EXCEPT ![s] = Append(cache[s], p)]
      /\ pushed' = [pushed EXCEPT ![s] = Append(@, p)]
  BY DEF Push, PushBack
<1>3. /\ cache'[s] = Append(cache[s], p) /\ pushed'[s] = Append(pushed[s], p)
      /\ \A c \in Conns : c # s => cache'[c] = cache[c] /\ pushed'[c] = pushed[c]
  BY <1>1, <1>2 DEF TypeInv, TypeOK
<1>4. \A u \in Threads : u # t => thread'[u] = thread[u] BY <1>1 DEF Moves
<1>5. thread'[t].at = "test" BY <1>1 DEF Moves
<1>6. /\ taken[s] \in Seq(Packets) /\ cache[s] \in Seq(Packets)
      /\ \A u \in Threads : At(u, "send") => thread[u].pkt \in Packets
  BY <1>1 DEF TypeInv, TypeOK, Placed, Holding
<1>7. OneDrainer' BY <1>1, <1>2, DrainerKept DEF DrainPlaces
<1>8. SeenInv'
  <2> SUFFICES ASSUME NEW u \in Threads, ~raced'[thread'[u].sess], thread'[u].at \in {"front", "pop"}
               PROVE  /\ cache'[thread'[u].sess] # <<>>
                      /\ thread'[u].at = "pop" => thread'[u].pkt = Head(cache'[thread'[u].sess])
    BY DEF SeenInv
  <2>1. u # t /\ thread'[u] = thread[u] BY <1>4, <1>5
  <2>2. cache[Sess(u)] # <<>> /\ (At(u, "pop") => thread[u].pkt = Head(cache[Sess(u)]))
    BY <1>2, <2>1 DEF SeenInv
  <2>3. Sess(u) \in Conns BY <2>1 DEF TypeInv, Placed, Serving
  <2>4. cache'[Sess(u)] # <<>> /\ Head(cache'[Sess(u)]) = Head(cache[Sess(u)])
    <3>1. CASE Sess(u) = s
      <4>1. cache[s] # <<>> /\ cache[s] \in Seq(Packets) /\ p \in Packets BY <1>1, <1>6, <2>2, <3>1
      <4>2. Append(cache[s], p) # <<>> /\ Head(Append(cache[s], p)) = Head(cache[s])
        BY <4>1, SameHead
      <4>3. QED BY <1>3, <3>1, <4>2
    <3>2. CASE Sess(u) # s BY <1>3, <2>2, <2>3, <3>2
    <3>3. QED BY <3>1, <3>2
  <2>5. QED BY <2>1, <2>2, <2>4
<1>9. ASSUME NEW c \in Conns, ~raced[c] PROVE Flows(c)'
  <2>0. Flows(c) BY <1>9 DEF FlowInv
  <2>1. /\ \A u \in Threads : thread'[u].at = "send" => thread'[u] = thread[u]
        /\ \A u \in Threads : thread[u].at = "send" => thread'[u] = thread[u]
    BY <1>1, <1>4, <1>5
  <2>2. /\ \A u \in Threads : Sends(u, c)' <=> Sends(u, c)
        /\ \A u \in Threads : Sends(u, c) => thread'[u].pkt = thread[u].pkt
    BY <2>1 DEF Sends
  <2>3. CASE c = s
    <3>1. ASSUME \A u \in Threads : ~Sends(u, c)' PROVE pushed'[c] = taken'[c] \o cache'[c]
      <4>1. pushed[s] = taken[s] \o cache[s] BY <2>0, <2>2, <2>3, <3>1, Zenon DEF Flows
      <4>2. Append(taken[s] \o cache[s], p) = taken[s] \o Append(cache[s], p)
        <5>1. taken[s] \in Seq(Packets) /\ cache[s] \in Seq(Packets) /\ p \in Packets BY <1>1, <1>6
        <5>2. QED BY <5>1, BehindAll, Zenon
      <4>3. /\ taken'[s] = taken[s] /\ cache'[s] = Append(cache[s], p)
            /\ pushed'[s] = Append(pushed[s], p)
        BY <1>2, <1>3
      <4>4. QED BY <2>3, <4>1, <4>2, <4>3, Zenon
    <3>2. ASSUME NEW u \in Threads, Sends(u, c)'
          PROVE  pushed'[c] = taken'[c] \o <<thread'[u].pkt>> \o cache'[c]
      <4>1. Sends(u, c) /\ thread'[u].pkt = thread[u].pkt BY <2>2, <3>2
      <4>2. thread[u].pkt \in Packets BY <1>6, <4>1 DEF Sends
      <4>3. pushed[s] = taken[s] \o <<thread[u].pkt>> \o cache[s] BY <2>0, <2>3, <4>1, Zenon DEF Flows
      <4>4. Append(taken[s] \o <<thread[u].pkt>> \o cache[s], p)
              = taken[s] \o <<thread[u].pkt>> \o Append(cache[s], p)
        <5>1. taken[s] \in Seq(Packets) /\ cache[s] \in Seq(Packets) /\ p \in Packets BY <1>1, <1>6
        <5> DEFINE a == taken[s] \o <<thread[u].pkt>>
        <5>2. a \in Seq(Packets) BY <4>2, <5>1, ConcatProperties
        <5> HIDE DEF a
        <5>3. Append(a \o cache[s], p) = a \o Append(cache[s], p) BY <5>1, <5>2, BehindAll, Zenon
        <5>4. QED BY <5>3, Zenon DEF a
      <4>5. /\ taken'[s] = taken[s] /\ cache'[s] = Append(cache[s], p)
            /\ pushed'[s] = Append(pushed[s], p)
        BY <1>2, <1>3
      <4>6. QED BY <2>3, <4>1, <4>3, <4>4, <4>5, Zenon
    <3>3. QED BY <3>1, <3>2, Zenon DEF Flows
  <2>4. CASE c # s
    <3>1. cache'[c] = cache[c] /\ pushed'[c] = pushed[c] BY <1>3, <2>4
    <3>2. QED BY <1>2, <2>0, <2>2, <3>1, FlowKept
  <2>5. QED BY <2>3, <2>4
<1>10. FlowInv' BY <1>2, <1>9 DEF FlowInv
<1>11. CorruptInv' BY <1>2 DEF CorruptInv
<1>12. QED BY <1>7, <1>8, <1>10, <1>11

LEMMA OrderThread ==
  ASSUME TypeInv, OrderInv, NEW t \in Threads,
         DoSend(t) \/ Push(t) \/ TestEsi(t) \/ FailedAtOnce(t) \/ Emplace(t)
  PROVE  OrderInv'
<1>1. CASE Size(t)
  <2>1. /\ At(t, "size") /\ Sess(t) \in Conns
        /\ \/ cache[Sess(t)] = <<>> /\ Moves(t, "idle", None, None)
           \/ cache[Sess(t)] # <<>> /\ Moves(t, "front", Sess(t), thread[t].pkt)
    BY <1>1, DrainMoves
  <2>2. UNCHANGED <<cache, taken, pushed, raced, corrupt>> BY <1>1 DEF Size, sessionVars, historyVars
  <2>3. QED BY <2>1, <2>2, OrderReads
<1>2. CASE Front(t)
  <2>1. /\ At(t, "front") /\ Sess(t) \in Conns
        /\ \/ cache[Sess(t)] = <<>> /\ corrupt' /\ Moves(t, "idle", None, None)
           \/ /\ cache[Sess(t)] # <<>> /\ corrupt' = corrupt
              /\ Moves(t, "pop", Sess(t), Head(cache[Sess(t)]))
    BY <1>2, DrainMoves
  <2>2. UNCHANGED <<cache, taken, pushed, raced>> BY <1>2 DEF Front, sessionVars, historyVars
  <2>3. cache[Sess(t)] = <<>> => raced[Sess(t)] BY <2>1 DEF OrderInv, SeenInv
  <2>4. QED BY <2>1, <2>2, <2>3, OrderReads
<1>3. CASE Pop(t) BY <1>3, OrderPop
<1>4. CASE SendFront(t) BY <1>4, OrderSend
<1>5. CASE Push(t) BY <1>5, OrderPush
<1>6. CASE TestEsi(t)
  <2>1. /\ At(t, "test") /\ Sess(t) \in Conns
        /\ \/ EnterDrain(t) /\ Moves(t, "size", Sess(t), thread[t].pkt)
           \/ Moves(t, "idle", None, None) /\ UNCHANGED raced
    BY <1>6, SenderMoves
  <2>2. UNCHANGED <<cache, taken, pushed, corrupt>> BY <1>6 DEF TestEsi, sessionVars
  <2>3. CASE EnterDrain(t) /\ Moves(t, "size", Sess(t), thread[t].pkt)
    BY <2>1, <2>2, <2>3, EnterMarks, OrderMoves
  <2>4. CASE Moves(t, "idle", None, None) /\ UNCHANGED raced BY <2>1, <2>2, <2>4, OrderMoves
  <2>5. QED BY <2>1, <2>3, <2>4
<1>7. CASE FailedAtOnce(t)
  <2>1. thread[t].at \in {"failed", "failedAgain"}
        /\ (Moves(t, "failedAgain", Sess(t), thread[t].pkt) \/ Moves(t, "emplace", Sess(t), thread[t].pkt))
    BY <1>7, SenderMoves
  <2>2. UNCHANGED <<cache, taken, pushed, corrupt, raced>> BY <1>7 DEF FailedAtOnce, historyVars
  <2>3. QED BY <2>1, <2>2, OrderMoves
<1>8. CASE Emplace(t)
  <2>1. At(t, "emplace") /\ Moves(t, "push", Sess(t), thread[t].pkt) BY <1>8, SenderMoves
  <2>2. UNCHANGED <<cache, taken, pushed, corrupt, raced>> BY <1>8 DEF Emplace
  <2>3. QED BY <2>1, <2>2, OrderMoves
<1>9. QED BY <1>1, <1>2, <1>3, <1>4, <1>5, <1>6, <1>7, <1>8 DEF DoSend

LEMMA OrderRequest ==
  ASSUME TypeInv, OrderInv, NEW t \in Threads,
         \/ \E m \in Packets : FindSession(t, m)
         \/ \E c \in Incoming, m \in Packets : PassPacket(t, c, m)
         \/ \E c \in Outgoing : Ask(t, c)
  PROVE  OrderInv'
<1>1. ASSUME NEW m \in Packets, FindSession(t, m) PROVE OrderInv'
  <2>1. At(t, "idle") /\ \E w \in {"ask", "push"} : Moves(t, w, sa2Session, m) BY <1>1, RequestMoves
  <2>2. UNCHANGED <<cache, taken, pushed, corrupt, raced>>
    BY <1>1 DEF FindSession, sessionVars, historyVars
  <2>3. QED BY <2>1, <2>2, OrderMoves
<1>2. ASSUME NEW c \in Incoming, NEW m \in Packets, PassPacket(t, c, m) PROVE OrderInv'
  <2>1. At(t, "idle") /\ Moves(t, "push", c, m) BY <1>2, RequestMoves
  <2>2. UNCHANGED <<cache, taken, pushed, corrupt, raced>>
    BY <1>2 DEF PassPacket, sessionVars, historyVars
  <2>3. QED BY <2>1, <2>2, OrderMoves
<1>3. ASSUME NEW c \in Outgoing, Ask(t, c) PROVE OrderInv'
  <2>1. At(t, "ask")
        /\ (Moves(t, "emplace", c, thread[t].pkt) \/ Moves(t, "failed", c, thread[t].pkt))
    BY <1>3, RequestMoves
  <2>2. UNCHANGED <<cache, taken, pushed, corrupt, raced>> BY <1>3 DEF Ask, sessionVars, historyVars
  <2>3. QED BY <2>1, <2>2, OrderMoves
<1>4. QED BY <1>1, <1>2, <1>3

LEMMA OrderHandler ==
  ASSUME TypeInv, OrderInv, NEW c \in Conns,
         \/ Handler(c) \/ Ends(c) \/ ClosedDirectly(c) \/ NotifyBindAddress(c)
         \/ FindConnected(c) \/ ConnectFailed(c) \/ Accept(c) \/ Accepted(c)
  PROVE  OrderInv'
<1>0. c \in Threads /\ "bind" \in Threads BY ConnFacts
<1>1. CASE SetEsi(c)
  <2>1. At(c, "esi") /\ Sess(c) \in Conns /\ EnterDrain(c) /\ Moves(c, "size", Sess(c), thread[c].pkt)
    BY <1>1, ConnFacts, HandlerMoves
  <2>2. UNCHANGED <<cache, taken, pushed, corrupt>> BY <1>1 DEF SetEsi
  <2>3. QED BY <1>0, <2>1, <2>2, EnterMarks, OrderMoves
<1>2. CASE Erase(c) \/ Ends(c)
  <2>1. thread[c].at \in {"erase", "idle"}
        /\ (Moves(c, "idle", None, None) \/ Moves(c, "erase", Sess(c), thread[c].pkt))
    BY <1>2, HandlerMoves
  <2>2. UNCHANGED <<cache, taken, pushed, corrupt, raced>>
    BY <1>2 DEF Erase, Ends, sessionVars, historyVars
  <2>3. QED BY <1>0, <2>1, <2>2, OrderMoves
<1>3. CASE NotifyBindAddress(c)
  <2>1. At("bind", "idle") /\ Moves("bind", "size", c, None) BY <1>3, HandlerMoves
  <2>2. /\ UNCHANGED <<cache, taken, pushed, corrupt>>
        /\ raced' = [raced EXCEPT ![c] = @ \/ Draining(c) # {}]
    BY <1>3 DEF NotifyBindAddress, sessionVars
  <2>3. \A d \in Conns : raced'[d] = IF d = c THEN raced[d] \/ Draining(d) # {} ELSE raced[d]
    BY <2>2 DEF TypeInv, TypeOK
  <2>4. \A u \in Threads : Draws(u, c) => u \in Draining(c) BY DEF Draws, DrainPlaces, Draining
  <2>5. raced'[c] \/ \A u \in Threads : u # "bind" => ~Draws(u, c) BY <2>3, <2>4
  <2>6. QED BY <1>0, <2>1, <2>2, <2>3, <2>5, OrderMoves
<1>4. CASE FindConnected(c)
  <2>1. At(c, "idle") /\ \E w \in {"idle", "esi"} : \E s : Moves(c, w, s, None)
    BY <1>4, HandlerMoves
  <2>2. UNCHANGED <<cache, taken, pushed, corrupt, raced>>
    BY <1>4 DEF FindConnected, sessionVars, historyVars
  <2>3. QED BY <1>0, <2>1, <2>2, OrderMoves
<1>5. CASE ClosedDirectly(c) \/ ConnectFailed(c) \/ Accept(c) \/ Accepted(c)
  <2>1. UNCHANGED <<thread, cache, taken, pushed, corrupt, raced>>
    BY <1>5 DEF ClosedDirectly, ConnectFailed, Accept, Accepted, sessionVars, historyVars
  <2>2. QED BY <2>1, OrderStill
<1>6. QED BY <1>1, <1>2, <1>3, <1>4, <1>5 DEF Handler

LEMMA OrderInit == Init => OrderInv
<1> SUFFICES ASSUME Init PROVE OrderInv OBVIOUS
<1>1. \A t \in Threads : thread[t].at = "idle" BY DEF Init, Resting
<1>2. OneDrainer /\ SeenInv BY <1>1 DEF OneDrainer, SeenInv, Draws, DrainPlaces
<1>3. \A s \in Conns : pushed[s] = <<>> /\ taken[s] = <<>> /\ cache[s] = <<>> BY DEF Init
<1>4. <<>> = <<>> \o <<>> OBVIOUS
<1>5. FlowInv BY <1>1, <1>3, <1>4 DEF FlowInv, Flows, Sends
<1>6. CorruptInv BY DEF Init, CorruptInv
<1>7. QED BY <1>2, <1>5, <1>6 DEF OrderInv

LEMMA OrderStep == TypeInv /\ OrderInv /\ [Next]_vars => OrderInv'
<1> SUFFICES ASSUME TypeInv, OrderInv, [Next]_vars PROVE OrderInv' OBVIOUS
<1>1. CASE UNCHANGED vars
  <2>1. UNCHANGED <<thread, cache, taken, pushed, corrupt, raced>>
    BY <1>1 DEF vars, sessionVars, historyVars
  <2>2. QED BY <2>1, OrderStill
<1>2. ASSUME NEW t \in Threads, Step(t) PROVE OrderInv'
  BY <1>2, OrderThread, OrderRequest DEF Step
<1>3. ASSUME NEW t \in Senders, NEW m \in Packets,
             FindSession(t, m) \/ \E c \in Incoming : PassPacket(t, c, m)
      PROVE  OrderInv'
  BY <1>3, ConnFacts, OrderRequest
<1>4. ASSUME NEW c \in Conns,
             \/ Handler(c) \/ Ends(c) \/ ClosedDirectly(c) \/ NotifyBindAddress(c)
             \/ FindConnected(c) \/ ConnectFailed(c) \/ Accept(c) \/ Accepted(c)
      PROVE  OrderInv'
  BY <1>4, OrderHandler
<1>5. QED BY <1>1, <1>2, <1>3, <1>4, ConnFacts DEF Next

LEMMA OrderShown == TypeInv /\ OrderInv => InOrder
<1> SUFFICES ASSUME TypeInv, OrderInv PROVE InOrder OBVIOUS
<1>1. ASSUME NEW s \in Conns, ~raced[s] PROVE pushed[s] = taken[s] \o InHand(s) \o cache[s]
  <2>1. CASE \E t \in Threads : At(t, "send") /\ Sess(t) = s
    <3> DEFINE u == CHOOSE t \in Threads : At(t, "send") /\ Sess(t) = s
    <3>1. u \in Threads /\ At(u, "send") /\ Sess(u) = s BY <2>1
    <3>2. InHand(s) = <<thread[u].pkt>> BY <2>1 DEF InHand
    <3> HIDE DEF u
    <3>3. pushed[s] = taken[s] \o <<thread[u].pkt>> \o cache[s]
      BY <1>1, <3>1, Zenon DEF OrderInv, FlowInv, Flows, Sends
    <3>4. QED BY <3>2, <3>3
  <2>2. CASE ~\E t \in Threads : At(t, "send") /\ Sess(t) = s
    <3>1. InHand(s) = <<>> BY <2>2 DEF InHand
    <3>2. pushed[s] = taken[s] \o cache[s] BY <1>1, <2>2, Zenon DEF OrderInv, FlowInv, Flows, Sends
    <3>3. taken[s] \in Seq(Packets) /\ cache[s] \in Seq(Packets) BY DEF TypeInv, TypeOK
    <3>4. taken[s] \o <<>> \o cache[s] = taken[s] \o cache[s] BY <3>3, EmptyHand
    <3>5. QED BY <3>1, <3>2, <3>4
  <2>3. QED BY <2>1, <2>2
<1>2. QED BY <1>1 DEF InOrder, OrderInv, CorruptInv

\* As long as two threads have not drained a session at once, every packet put into it is
\* handed to Oscar once and in the order it was put in.
THEOREM InOrderHolds == Spec => []InOrder
<1>1. Init => TypeInv /\ OrderInv BY TypeInit, OrderInit
<1>2. TypeInv /\ OrderInv /\ [Next]_vars => (TypeInv /\ OrderInv)' BY TypeStep, OrderStep
<1>3. TypeInv /\ OrderInv => InOrder BY OrderShown
<1>4. QED BY <1>1, <1>2, <1>3, PTL DEF Spec
=============================================================================
