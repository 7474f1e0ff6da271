--------------------------- MODULE InstanceProofs ---------------------------
(***************************************************************************)
(* What holds of the registry of services for any number of services and   *)
(* threads and any needs that descend.                                     *)
(***************************************************************************)
EXTENDS Instance, TLAPS

Passive == {"idle", "wire"}

\* A thread works for one service at a time; the calls that wait for it are of services above
\* it, in the order of their needs, and the call from outside is the highest.
StackOK ==
    \A t \in Threads : \A s \in Services :
        /\ pc[t][s] # "idle" => call[t] \in Services /\ Rank[s] <= Rank[call[t]]
        /\ pc[t][s] = "wire" => Needs[s] \in Services
        /\ \A r \in Services :
            /\ pc[t][s] \notin Passive /\ pc[t][r] \notin Passive => s = r
            /\ pc[t][s] = "wire" /\ pc[t][r] \notin Passive => Rank[r] < Rank[s]
            /\ pc[t][s] = "wire" /\ pc[t][r] = "wire" /\ Rank[r] = Rank[s] => r = s
            /\ pc[t][s] = "wire" /\ pc[t][r] # "idle" /\ Rank[r] < Rank[s]
                  => Rank[r] <= Rank[Needs[s]]

\* The mutex of a service is held by the thread that works between its locking and unlocking.
HolderOK ==
    \A t \in Threads, s \in Services : pc[t][s] \in Holding <=> holder[s] = t

\* A service that is being created is not in the container yet, and its instance has a number.
CreatingOK ==
    \A t \in Threads, s \in Services :
        /\ pc[t][s] \in {"build", "insert", "inserting"} => container[s] = 0
        /\ pc[t][s] \in {"insert", "inserting"} => result[t][s] > 0

\* Before the destructor takes the services, an instance that was constructed is in the
\* container or on its way there, and is the only one.
Early == destroyer \in {"no", "flagged"}
Inserting(s) == \E t \in Threads : pc[t][s] \in {"insert", "inserting"}
CountOK ==
    Early => \A s \in Services :
        /\ built[s] <= 1
        /\ built[s] = 1 /\ container[s] = 0 => Inserting(s)
        /\ \A t \in Threads : pc[t][s] = "build" => built[s] = 0

\* An instance in the container is ready, or its creator is sending it startService.
Starting(s) == \E t \in Threads : pc[t][s] \in {"start", "wire"} /\ result[t][s] = container[s]
ReadyOK ==
    \A s \in Services : container[s] # 0 => <<s, container[s]>> \in ready \/ Starting(s)

IInv == TypeOK /\ StackOK /\ HolderOK /\ CreatingOK /\ CountOK /\ ReadyOK

-----------------------------------------------------------------------------
LEMMA InitIInv == Init => IInv
<1> SUFFICES ASSUME Init PROVE IInv
    OBVIOUS
<1>1. TypeOK
  <2>1. /\ container \in [Services -> Nat] /\ built \in [Services -> Nat]
        /\ alive \subseteq Instances /\ ready \subseteq Instances /\ wired \subseteq Instances
        /\ doomed \subseteq Instances
    BY DEF Init
  <2>2. /\ pc \in [Threads -> [Services -> Steps]]
        /\ result \in [Threads -> [Services -> Nat]]
    BY DEF Init, Steps
  <2>3. /\ writer \in Threads \cup {None} /\ holder \in [Services -> Threads \cup {None}]
        /\ call \in [Threads -> Services \cup {None}]
    BY DEF Init
  <2>4. calls \in [Threads -> 0 .. MaxCalls]
    <3>1. 0 \in 0 .. MaxCalls
      BY ServicesAssumption
    <3> QED BY <3>1 DEF Init
  <2>5. m_terminating \in BOOLEAN /\ destroyer \in {"no", "flagged", "deleting", "done"}
    BY DEF Init
  <2> QED BY <2>1, <2>2, <2>3, <2>4, <2>5 DEF TypeOK
<1>2. \A t \in Threads, s \in Services : pc[t][s] = "idle"
    BY DEF Init
<1>3. StackOK
    BY <1>2 DEF StackOK, Passive
<1>4. HolderOK
    BY <1>2, ServicesAssumption DEF Init, HolderOK, Holding
<1>5. CreatingOK /\ CountOK /\ ReadyOK
    BY <1>2 DEF Init, CreatingOK, CountOK, ReadyOK, Inserting, Starting
<1> QED BY <1>1, <1>3, <1>4, <1>5 DEF IInv

-----------------------------------------------------------------------------
(* Types *)

LEMMA NestedStep ==
    ASSUME NEW f \in [Threads -> [Services -> Steps]], NEW t \in Threads,
           NEW s \in Services, NEW x \in Steps
    PROVE  [f EXCEPT ![t][s] = x] \in [Threads -> [Services -> Steps]]
OBVIOUS

LEMMA TypeStep == TypeOK /\ StackOK /\ [Next]_vars => TypeOK'
<1> SUFFICES ASSUME TypeOK, StackOK, [Next]_vars PROVE TypeOK'
    OBVIOUS
<1> USE ServicesAssumption DEF TypeOK, registry, dying, Steps, Goto, Found, Instances
<1>1. ASSUME NEW t \in Threads, NEW s \in Services, Call(t, s) PROVE TypeOK'
    BY <1>1 DEF Call
<1>2. ASSUME NEW t \in Threads, NEW s \in Services, Find(t, s) PROVE TypeOK'
  <2>1. PICK x \in Steps : pc' = [pc EXCEPT ![t][s] = x]
    BY <1>2 DEF Find
  <2>2. pc' \in [Threads -> [Services -> Steps]]
    BY <2>1, NestedStep
  <2>3. PICK n \in Nat : result' = result \/ result' = [result EXCEPT ![t][s] = n]
    BY <1>2 DEF Find
  <2>4. result' \in [Threads -> [Services -> Nat]]
    <3>1. CASE result' = result
      BY <3>1
    <3>2. CASE result' = [result EXCEPT ![t][s] = n]
      BY <3>2
    <3> QED BY <2>3, <3>1, <3>2
  <2> QED BY <1>2, <2>2, <2>4 DEF Find
<1>3. ASSUME NEW t \in Threads, NEW s \in Services, Enter(t, s) PROVE TypeOK'
    BY <1>3 DEF Enter
<1>4. ASSUME NEW t \in Threads, NEW s \in Services, Lock(t, s) PROVE TypeOK'
    BY <1>4 DEF Lock, MutexOf
<1>5. ASSUME NEW t \in Threads, NEW s \in Services, Look(t, s) PROVE TypeOK'
    BY <1>5 DEF Look
<1>6. ASSUME NEW t \in Threads, NEW s \in Services, Recheck(t, s) PROVE TypeOK'
  <2>1. PICK x \in Steps : pc' = [pc EXCEPT ![t][s] = x]
    BY <1>6 DEF Recheck
  <2>2. pc' \in [Threads -> [Services -> Steps]]
    BY <2>1, NestedStep
  <2>3. PICK n \in Nat : result' = result \/ result' = [result EXCEPT ![t][s] = n]
    BY <1>6 DEF Recheck
  <2>4. result' \in [Threads -> [Services -> Nat]]
    <3>1. CASE result' = result
      BY <3>1
    <3>2. CASE result' = [result EXCEPT ![t][s] = n]
      BY <3>2
    <3> QED BY <2>3, <3>1, <3>2
  <2> QED BY <1>6, <2>2, <2>4 DEF Recheck
<1>7. ASSUME NEW t \in Threads, NEW s \in Services, Build(t, s) PROVE TypeOK'
    BY <1>7 DEF Build
<1>8. ASSUME NEW t \in Threads, NEW s \in Services, BeginInsert(t, s) PROVE TypeOK'
    BY <1>8 DEF BeginInsert
<1>9. ASSUME NEW t \in Threads, NEW s \in Services, Insert(t, s) PROVE TypeOK'
    BY <1>9 DEF Insert
<1>10. ASSUME NEW t \in Threads, NEW s \in Services, Start(t, s) PROVE TypeOK'
  <2>1. pc' \in [Threads -> [Services -> Steps]]
    <3>1. CASE Needs[s] = None
      <4>1. pc' = [pc EXCEPT ![t][s] = "unlock"]
        BY <1>10, <3>1 DEF Start
      <4> QED BY <4>1, NestedStep
    <3>2. CASE Needs[s] # None
      <4> DEFINE f == [pc EXCEPT ![t][s] = "wire"]
      <4>1. f \in [Threads -> [Services -> Steps]]
        BY NestedStep
      <4>2. pc' = [f EXCEPT ![t][Needs[s]] = "find"] /\ Needs[s] \in Services
        BY <1>10, <3>2 DEF Start
      <4> HIDE DEF f
      <4> QED BY <4>1, <4>2, NestedStep
    <3> QED BY <3>1, <3>2
  <2>2. <<s, result[t][s]>> \in Services \X Nat
    OBVIOUS
  <2>3. ready' \subseteq Services \X Nat
    BY <1>10, <2>2 DEF Start
  <2> QED BY <1>10, <2>1, <2>3 DEF Start
<1>11. ASSUME NEW t \in Threads, NEW s \in Services, Wire(t, s) PROVE TypeOK'
  <2>0. Needs[s] \in Services
    BY <1>11 DEF Wire, StackOK
  <2>1. pc' \in [Threads -> [Services -> Steps]]
    <3> DEFINE f == [pc EXCEPT ![t][s] = "unlock"]
    <3>1. f \in [Threads -> [Services -> Steps]]
      BY NestedStep
    <3>2. pc' = [f EXCEPT ![t][Needs[s]] = "idle"]
      BY <1>11 DEF Wire
    <3> HIDE DEF f
    <3> QED BY <2>0, <3>1, <3>2, NestedStep
  <2>2. <<s, result[t][s]>> \in Services \X Nat
    OBVIOUS
  <2>3. ready' \subseteq Services \X Nat /\ wired' \subseteq Services \X Nat
    BY <1>11, <2>2 DEF Wire
  <2> QED BY <1>11, <2>1, <2>3 DEF Wire
<1>12. ASSUME NEW t \in Threads, NEW s \in Services, Unlock(t, s) PROVE TypeOK'
    BY <1>12 DEF Unlock, MutexOf
<1>13. ASSUME NEW t \in Threads, Return(t) PROVE TypeOK'
    BY <1>13 DEF Return
<1>14. CASE SetTerminating
    BY <1>14 DEF SetTerminating
<1>15. CASE TakeAll
    BY <1>15 DEF TakeAll
<1>16. ASSUME NEW i \in doomed, Delete(i) PROVE TypeOK'
    BY <1>16 DEF Delete
<1>17. CASE Finish
    BY <1>17 DEF Finish
<1>18. CASE UNCHANGED vars
    BY <1>18 DEF vars
<1> QED BY <1>1, <1>2, <1>3, <1>4, <1>5, <1>6, <1>7, <1>8, <1>9, <1>10, <1>11, <1>12, <1>13,
           <1>14, <1>15, <1>16, <1>17, <1>18 DEF Next, ThreadStep

-----------------------------------------------------------------------------
(* The stack of calls *)

\* A step of a thread's current call that leaves its stack alone.
Advance(t, s) ==
    /\ pc[t][s] \notin Passive /\ call' = call
    /\ \E x \in Steps \ Passive : pc' = [pc EXCEPT ![t][s] = x]

Push(t, s) ==
    /\ pc[t][s] = "start" /\ Needs[s] \in Services /\ call' = call
    /\ pc' = [pc EXCEPT ![t][s] = "wire", ![t][Needs[s]] = "find"]

LEMMA Shapes ==
    ASSUME TypeOK, [Next]_vars
    PROVE  \/ pc' = pc /\ call' = call
           \/ \E t \in Threads, s \in Services :
                Advance(t, s) \/ Call(t, s) \/ Push(t, s) \/ Wire(t, s)
           \/ \E t \in Threads : Return(t)
<1> USE DEF Advance, Push, Goto, Passive, Steps
<1>1. ASSUME NEW t \in Threads, NEW s \in Services, Find(t, s) PROVE Advance(t, s)
    BY <1>1 DEF Find
<1>2. ASSUME NEW t \in Threads, NEW s \in Services, Enter(t, s) PROVE Advance(t, s)
    BY <1>2 DEF Enter
<1>3. ASSUME NEW t \in Threads, NEW s \in Services, Lock(t, s) PROVE Advance(t, s)
    BY <1>3 DEF Lock
<1>4. ASSUME NEW t \in Threads, NEW s \in Services, Look(t, s) PROVE Advance(t, s)
    BY <1>4 DEF Look
<1>5. ASSUME NEW t \in Threads, NEW s \in Services, Recheck(t, s) PROVE Advance(t, s)
    BY <1>5 DEF Recheck
<1>6. ASSUME NEW t \in Threads, NEW s \in Services, Build(t, s) PROVE Advance(t, s)
    BY <1>6 DEF Build
<1>7. ASSUME NEW t \in Threads, NEW s \in Services, BeginInsert(t, s) PROVE Advance(t, s)
    BY <1>7 DEF BeginInsert
<1>8. ASSUME NEW t \in Threads, NEW s \in Services, Insert(t, s) PROVE Advance(t, s)
    BY <1>8 DEF Insert
<1>9. ASSUME NEW t \in Threads, NEW s \in Services, Start(t, s)
      PROVE  Advance(t, s) \/ Push(t, s)
  <2>1. CASE Needs[s] = None
    BY <1>9, <2>1 DEF Start
  <2>2. CASE Needs[s] # None
    BY <1>9, <2>2, ServicesAssumption DEF Start
  <2> QED BY <2>1, <2>2
<1>10. ASSUME NEW t \in Threads, NEW s \in Services, Unlock(t, s) PROVE Advance(t, s)
    BY <1>10 DEF Unlock
<1>11. ASSUME SetTerminating \/ TakeAll \/ (\E i \in doomed : Delete(i)) \/ Finish
              \/ UNCHANGED vars
       PROVE  pc' = pc /\ call' = call
    BY <1>11 DEF SetTerminating, TakeAll, Delete, Finish, vars
<1> HIDE DEF Advance, Push, Goto, Passive, Steps
<1> QED BY <1>1, <1>2, <1>3, <1>4, <1>5, <1>6, <1>7, <1>8, <1>9, <1>10, <1>11
        DEF Next, ThreadStep

LEMMA StackStep == TypeOK /\ StackOK /\ [Next]_vars => StackOK'
<1> SUFFICES ASSUME TypeOK, StackOK, [Next]_vars PROVE StackOK'
    OBVIOUS
<1> USE DEF Passive, Steps
<1>1. CASE pc' = pc /\ call' = call
    BY <1>1 DEF StackOK
<1>2. ASSUME NEW t \in Threads, NEW s \in Services, Advance(t, s) PROVE StackOK'
  <2>1. PICK x \in Steps \ Passive : pc' = [pc EXCEPT ![t][s] = x]
    BY <1>2 DEF Advance
  <2>2. \A u \in Threads, r \in Services : pc'[u][r] = IF u = t /\ r = s THEN x ELSE pc[u][r]
    BY <2>1 DEF TypeOK
  <2> QED BY <1>2, <2>1, <2>2 DEF Advance, StackOK
<1>3. ASSUME NEW t \in Threads, NEW s \in Services, Call(t, s) PROVE StackOK'
  <2>1. \A r \in Services : pc[t][r] = "idle"
    BY <1>3, ServicesAssumption DEF Call, StackOK
  <2>2. \A u \in Threads, r \in Services :
            pc'[u][r] = IF u = t /\ r = s THEN "find" ELSE pc[u][r]
    BY <1>3 DEF Call, Goto, TypeOK
  <2>3. \A u \in Threads : call'[u] = IF u = t THEN s ELSE call[u]
    BY <1>3 DEF Call, TypeOK
  <2> QED BY <2>1, <2>2, <2>3, RankAssumption DEF StackOK
<1>4. ASSUME NEW t \in Threads, NEW s \in Services, Push(t, s) PROVE StackOK'
  <2> DEFINE q == Needs[s]
  <2>1. q \in Services /\ Rank[q] < Rank[s] /\ q # s
    BY <1>4, ServicesAssumption, RankAssumption DEF Push
  <2>2. \A u \in Threads, r \in Services :
            pc'[u][r] = IF u = t /\ r = q THEN "find"
                        ELSE IF u = t /\ r = s THEN "wire" ELSE pc[u][r]
    BY <1>4, <2>1 DEF Push, TypeOK
  <2>3. \A r \in Services : r # s => pc[t][r] \in Passive
    BY <1>4 DEF Push, StackOK
  <2>4. \A r \in Services : r # s /\ pc[t][r] = "wire" => Rank[s] < Rank[r]
    BY <1>4 DEF Push, StackOK
  <2>5. \A r \in Services : r # s /\ pc[t][r] = "wire" => Rank[s] <= Rank[Needs[r]]
    BY <1>4, <2>4 DEF Push, StackOK
  <2>6. pc[t][q] = "idle"
    BY <2>1, <2>3, <2>4, RankAssumption
  <2>7. call' = call /\ Rank[s] <= Rank[call[t]] /\ call[t] \in Services
    BY <1>4 DEF Push, StackOK
  <2> HIDE DEF q
  <2>8. ASSUME NEW u \in Threads, NEW r \in Services PROVE
            /\ pc'[u][r] # "idle" => call'[u] \in Services /\ Rank[r] <= Rank[call'[u]]
            /\ pc'[u][r] = "wire" => Needs[r] \in Services
    BY <2>1, <2>2, <2>7, RankAssumption DEF StackOK, q
  <2>9. ASSUME NEW u \in Threads, NEW r \in Services, NEW w \in Services, u # t PROVE
            /\ pc'[u][r] = pc[u][r] /\ pc'[u][w] = pc[u][w]
    BY <2>2, <2>9
  <2>10. ASSUME NEW r \in Services, NEW w \in Services PROVE
            /\ pc'[t][r] \notin Passive /\ pc'[t][w] \notin Passive => r = w
            /\ pc'[t][r] = "wire" /\ pc'[t][w] \notin Passive => Rank[w] < Rank[r]
    BY <2>1, <2>2, <2>3, <2>4, RankAssumption
  <2>11. ASSUME NEW r \in Services, NEW w \in Services PROVE
            pc'[t][r] = "wire" /\ pc'[t][w] = "wire" /\ Rank[w] = Rank[r] => w = r
    BY <2>1, <2>2, <2>3, <2>4, RankAssumption DEF StackOK
  <2>12. ASSUME NEW r \in Services, NEW w \in Services, pc'[t][r] = "wire",
                pc'[t][w] # "idle", Rank[w] < Rank[r] PROVE Rank[w] <= Rank[Needs[r]]
    <3>1. CASE w = q /\ r = s
      BY <2>1, <3>1, RankAssumption DEF q
    <3>2. CASE w = q /\ r # s
      <4>1. pc[t][r] = "wire" /\ Needs[r] \in Services
        BY <2>1, <2>2, <2>6, <2>12, <3>2 DEF StackOK
      <4> QED BY <2>1, <2>5, <3>2, <4>1, RankAssumption
    <3>3. CASE w = s
      <4>1. r # s /\ r # q
        BY <2>1, <2>12, <3>3, RankAssumption
      <4> QED BY <2>2, <2>5, <2>12, <3>3, <4>1
    <3>4. CASE w # q /\ w # s
      <4>1. pc[t][w] = "wire" /\ Rank[s] < Rank[w]
        BY <2>2, <2>3, <2>4, <2>12, <3>4 DEF StackOK
      <4>2. r # s /\ r # q
        BY <2>1, <2>2, <2>12, <4>1, RankAssumption
      <4> QED BY <2>2, <2>12, <4>1, <4>2 DEF StackOK
    <3> QED BY <3>1, <3>2, <3>3, <3>4
  <2> QED BY <2>7, <2>8, <2>9, <2>10, <2>11, <2>12 DEF StackOK
<1>5. ASSUME NEW t \in Threads, NEW s \in Services, Wire(t, s) PROVE StackOK'
  <2> DEFINE q == Needs[s]
  <2>1. q \in Services /\ Rank[q] < Rank[s] /\ q # s
    BY <1>5, ServicesAssumption, RankAssumption DEF Wire, StackOK
  <2>2. \A u \in Threads, r \in Services :
            pc'[u][r] = IF u = t /\ r = q THEN "idle"
                        ELSE IF u = t /\ r = s THEN "unlock" ELSE pc[u][r]
    BY <1>5, <2>1 DEF Wire, TypeOK
  <2>3. \A r \in Services : r # q => pc[t][r] \in Passive
    BY <1>5, <2>1 DEF Wire, StackOK
  <2>4. \A r \in Services : r # q /\ r # s /\ pc[t][r] = "wire" => Rank[s] < Rank[r]
    BY <1>5, <2>1, RankAssumption DEF Wire, StackOK
  <2>5. call' = call /\ pc[t][s] = "wire" /\ pc[t][q] = "done"
    BY <1>5 DEF Wire
  <2> HIDE DEF q
  <2>6. ASSUME NEW r \in Services, NEW w \in Services PROVE
            /\ pc'[t][r] \notin Passive /\ pc'[t][w] \notin Passive => r = w
            /\ pc'[t][r] = "wire" /\ pc'[t][w] \notin Passive => Rank[w] < Rank[r]
            /\ pc'[t][r] = "wire" /\ pc'[t][w] = "wire" /\ Rank[w] = Rank[r] => w = r
    BY <2>1, <2>2, <2>3, <2>4 DEF StackOK
  <2>7. ASSUME NEW r \in Services, NEW w \in Services, pc'[t][r] = "wire",
                pc'[t][w] # "idle", Rank[w] < Rank[r] PROVE Rank[w] <= Rank[Needs[r]]
    <3>1. pc[t][r] = "wire" /\ pc[t][w] # "idle"
      BY <2>2, <2>5, <2>7
    <3> QED BY <2>7, <3>1 DEF StackOK
  <2>8. ASSUME NEW u \in Threads, NEW r \in Services PROVE
            /\ pc'[u][r] # "idle" => call'[u] \in Services /\ Rank[r] <= Rank[call'[u]]
            /\ pc'[u][r] = "wire" => Needs[r] \in Services
    BY <2>2, <2>5 DEF StackOK
  <2>9. ASSUME NEW u \in Threads, NEW r \in Services, u # t PROVE pc'[u][r] = pc[u][r]
    BY <2>2, <2>9
  <2> QED BY <2>5, <2>6, <2>7, <2>8, <2>9 DEF StackOK
<1>6. ASSUME NEW t \in Threads, Return(t) PROVE StackOK'
  <2> DEFINE s == call[t]
  <2>1. s \in Services /\ pc[t][s] = "done"
    BY <1>6 DEF Return, TypeOK
  <2>2. ASSUME NEW r \in Services, r # s PROVE pc[t][r] = "idle"
    <3>1. pc[t][r] \in Passive
      BY <2>1, <2>2 DEF StackOK
    <3>2. CASE pc[t][r] = "wire"
      <4>1. Rank[s] < Rank[r]
        BY <2>1, <3>2 DEF StackOK
      <4>2. Rank[r] <= Rank[s]
        BY <3>2 DEF StackOK
      <4> QED BY <2>1, <4>1, <4>2, RankAssumption
    <3> QED BY <3>1, <3>2
  <2>3. \A u \in Threads, r \in Services :
            pc'[u][r] = IF u = t THEN "idle" ELSE pc[u][r]
    BY <1>6, <2>1, <2>2 DEF Return, Goto, TypeOK
  <2>4. \A u \in Threads : call'[u] = IF u = t THEN None ELSE call[u]
    BY <1>6 DEF Return, TypeOK
  <2> HIDE DEF s
  <2> QED BY <2>3, <2>4 DEF StackOK
<1> QED BY <1>1, <1>2, <1>3, <1>4, <1>5, <1>6, Shapes

-----------------------------------------------------------------------------
(* Who creates what *)

CreationOK == HolderOK /\ CreatingOK /\ CountOK /\ ReadyOK

\* The service a handler asks for is not being called for by the same thread.
LEMMA NeedIsIdle ==
    ASSUME TypeOK, StackOK, NEW t \in Threads, NEW s \in Services,
           pc[t][s] = "start", Needs[s] # None
    PROVE  Needs[s] \in Services /\ Needs[s] # s /\ pc[t][Needs[s]] = "idle"
<1>1. Needs[s] \in Services /\ Rank[Needs[s]] < Rank[s]
    BY ServicesAssumption, RankAssumption
<1>2. Needs[s] # s
    BY <1>1, RankAssumption
<1>3. pc[t][Needs[s]] \in Passive
    BY <1>1, <1>2 DEF StackOK, Passive
<1>4. CASE pc[t][Needs[s]] = "wire"
  <2>1. Rank[s] < Rank[Needs[s]]
    BY <1>1, <1>4 DEF StackOK, Passive
  <2> QED BY <1>1, <2>1, RankAssumption
<1> QED BY <1>1, <1>2, <1>3, <1>4 DEF Passive

\* A step that leaves the registry and the mutexes alone and moves one call between steps
\* that claim nothing.
Plain == {"idle", "find", "init", "wait", "done"}
Searching == {"look", "recheck", "unlock"}
LEMMA PlainStep ==
    ASSUME TypeOK, CreationOK, NEW t \in Threads, NEW s \in Services, NEW x,
           pc' = [pc EXCEPT ![t][s] = x],
           \/ pc[t][s] \in Plain /\ x \in Plain
           \/ pc[t][s] \in Searching /\ x \in Searching,
           \A u \in Threads, r \in Services : (u # t \/ r # s) => result'[u][r] = result[u][r],
           UNCHANGED <<registry, holder, destroyer>>
    PROVE  CreationOK'
<1>1. \A u \in Threads, r \in Services : pc'[u][r] = IF u = t /\ r = s THEN x ELSE pc[u][r]
    BY DEF TypeOK
<1> USE DEF Plain, Searching, registry
<1>2. HolderOK'
    BY <1>1 DEF CreationOK, HolderOK, Holding
<1>3. CreatingOK'
    BY <1>1 DEF CreationOK, CreatingOK
<1>4. CountOK'
  <2>1. \A r \in Services : Inserting(r) => Inserting(r)'
    BY <1>1 DEF Inserting
  <2> QED BY <1>1, <2>1 DEF CreationOK, CountOK, Early
<1>5. ReadyOK'
  <2>1. \A r \in Services : Starting(r) => Starting(r)'
    BY <1>1 DEF Starting
  <2> QED BY <1>1, <2>1 DEF CreationOK, ReadyOK
<1> QED BY <1>2, <1>3, <1>4, <1>5 DEF CreationOK

LEMMA StillStep ==
    ASSUME CreationOK, UNCHANGED <<container, built, ready, holder, pc, result>>,
           Early' => Early
    PROVE  CreationOK'
<1>1. HolderOK' /\ CreatingOK'
    BY DEF CreationOK, HolderOK, CreatingOK
<1>2. CountOK'
  <2>1. \A r \in Services : Inserting(r)' = Inserting(r)
    BY DEF Inserting
  <2> QED BY <2>1 DEF CreationOK, CountOK
<1>3. ReadyOK'
  <2>1. \A r \in Services : Starting(r)' = Starting(r)
    BY DEF Starting
  <2> QED BY <2>1 DEF CreationOK, ReadyOK
<1> QED BY <1>1, <1>2, <1>3 DEF CreationOK

\* The handler of startService is through.
LEMMA StartedStep ==
    ASSUME TypeOK, CreationOK, NEW t \in Threads, NEW s \in Services,
           pc[t][s] \in {"start", "wire"}, ready' = ready \cup {<<s, result[t][s]>>},
           UNCHANGED <<container, built, holder, result, destroyer>>,
           \/ \A u \in Threads, r \in Services :
                pc'[u][r] = IF u = t /\ r = s THEN "unlock" ELSE pc[u][r]
           \/ /\ pc[t][s] = "wire" /\ pc[t][Needs[s]] = "done" /\ Needs[s] \in Services
              /\ \A u \in Threads, r \in Services :
                    pc'[u][r] = IF u = t /\ r = Needs[s] THEN "idle"
                                ELSE IF u = t /\ r = s THEN "unlock" ELSE pc[u][r]
    PROVE  CreationOK'
<1>1. /\ pc'[t][s] = "unlock"
      /\ \A u \in Threads, r \in Services :
            (u # t \/ r # s) => \/ pc'[u][r] = pc[u][r]
                                \/ pc[u][r] = "done" /\ pc'[u][r] = "idle"
    OBVIOUS
<1>2. HolderOK'
    BY <1>1 DEF CreationOK, HolderOK, Holding
<1>3. CreatingOK'
    BY <1>1 DEF CreationOK, CreatingOK
<1>4. CountOK'
  <2>1. \A r \in Services : Inserting(r) => Inserting(r)'
    BY <1>1 DEF Inserting
  <2> QED BY <1>1, <2>1 DEF CreationOK, CountOK, Early
<1>5. ReadyOK'
  <2>1. \A r \in Services : r # s /\ Starting(r) => Starting(r)'
    BY <1>1 DEF Starting
  <2>2. Starting(s) => result[t][s] = container[s]
    BY DEF Starting, CreationOK, HolderOK, Holding
  <2>3. container[s] # 0 => <<s, container[s]>> \in ready'
    BY <2>2 DEF CreationOK, ReadyOK
  <2> QED BY <2>1, <2>3 DEF CreationOK, ReadyOK
<1> QED BY <1>2, <1>3, <1>4, <1>5 DEF CreationOK

LEMMA CreationStep == TypeOK /\ StackOK /\ CreationOK /\ [Next]_vars => CreationOK'
<1> SUFFICES ASSUME TypeOK, StackOK, CreationOK, [Next]_vars PROVE CreationOK'
    OBVIOUS
<1> USE DEF Goto, Found, registry, dying
<1>1. ASSUME NEW t \in Threads, NEW s \in Services, Call(t, s) PROVE CreationOK'
  <2>1. pc[t][s] = "idle"
    BY <1>1, ServicesAssumption DEF Call, StackOK
  <2> QED BY <1>1, <2>1, PlainStep DEF Call, Plain
<1>2. ASSUME NEW t \in Threads, NEW s \in Services, Find(t, s) PROVE CreationOK'
  <2>1. PICK x \in Plain : pc' = [pc EXCEPT ![t][s] = x]
    BY <1>2 DEF Find, Plain
  <2>2. \A u \in Threads, r \in Services : (u # t \/ r # s) => result'[u][r] = result[u][r]
    BY <1>2 DEF Find, TypeOK
  <2> QED BY <1>2, <2>1, <2>2, PlainStep DEF Find, Plain
<1>3. ASSUME NEW t \in Threads, NEW s \in Services, Enter(t, s) PROVE CreationOK'
  <2>1. PICK x \in Plain : pc' = [pc EXCEPT ![t][s] = x]
    BY <1>3 DEF Enter, Plain
  <2> QED BY <1>3, <2>1, PlainStep DEF Enter, Plain
<1>4. ASSUME NEW t \in Threads, NEW s \in Services, Lock(t, s) PROVE CreationOK'
  <2>1. \A u \in Threads, r \in Services :
            pc'[u][r] = IF u = t /\ r = s THEN "look" ELSE pc[u][r]
    BY <1>4 DEF Lock, TypeOK
  <2>2. \A r \in Services : holder'[r] = IF r = s THEN t ELSE holder[r]
    BY <1>4 DEF Lock, MutexOf, TypeOK
  <2>3. pc[t][s] = "wait" /\ holder[s] = None /\ UNCHANGED <<registry, result, destroyer>>
    BY <1>4 DEF Lock, MutexOf
  <2>4. HolderOK'
    BY <2>1, <2>2, <2>3, ServicesAssumption DEF CreationOK, HolderOK, Holding
  <2>5. CreatingOK'
    BY <2>1, <2>3 DEF CreationOK, CreatingOK
  <2>6. CountOK'
    <3>1. \A r \in Services : Inserting(r) => Inserting(r)'
      BY <2>1, <2>3 DEF Inserting
    <3> QED BY <2>1, <2>3, <3>1 DEF CreationOK, CountOK, Early
  <2>7. ReadyOK'
    <3>1. \A r \in Services : Starting(r) => Starting(r)'
      BY <2>1, <2>3 DEF Starting
    <3> QED BY <2>3, <3>1 DEF CreationOK, ReadyOK
  <2> QED BY <2>4, <2>5, <2>6, <2>7 DEF CreationOK
<1>5. ASSUME NEW t \in Threads, NEW s \in Services, Look(t, s) PROVE CreationOK'
  <2>1. PICK x \in Searching : pc' = [pc EXCEPT ![t][s] = x]
    BY <1>5 DEF Look, Searching
  <2>2. \A u \in Threads, r \in Services : (u # t \/ r # s) => result'[u][r] = result[u][r]
    BY <1>5 DEF Look, TypeOK
  <2> QED BY <1>5, <2>1, <2>2, PlainStep DEF Look, Searching
<1>6. ASSUME NEW t \in Threads, NEW s \in Services, Recheck(t, s) PROVE CreationOK'
  <2>1. \A u \in Threads, r \in Services : (u # t \/ r # s) => result'[u][r] = result[u][r]
    BY <1>6 DEF Recheck, TypeOK
  <2>2. CASE pc' = [pc EXCEPT ![t][s] = "unlock"]
    BY <1>6, <2>1, <2>2, PlainStep DEF Recheck, Searching
  <2>3. CASE pc' = [pc EXCEPT ![t][s] = "build"] /\ container[s] = 0
    <3>1. \A u \in Threads, r \in Services :
              pc'[u][r] = IF u = t /\ r = s THEN "build" ELSE pc[u][r]
      BY <2>3 DEF TypeOK
    <3>2. pc[t][s] = "recheck" /\ UNCHANGED <<registry, holder, destroyer>>
      BY <1>6 DEF Recheck
    <3>3. HolderOK'
      BY <3>1, <3>2 DEF CreationOK, HolderOK, Holding
    <3>4. CreatingOK'
      BY <2>1, <2>3, <3>1, <3>2 DEF CreationOK, CreatingOK
    <3>5. CountOK'
      <4>1. \A r \in Services : Inserting(r) => Inserting(r)'
        BY <3>1, <3>2 DEF Inserting
      <4>2. ~Inserting(s)
        BY <3>2 DEF Inserting, CreationOK, HolderOK, Holding
      <4>3. built[s] \in Nat
        BY DEF TypeOK
      <4>4. Early => built[s] = 0
        BY <2>3, <4>2, <4>3 DEF CreationOK, CountOK
      <4> QED BY <3>1, <3>2, <4>1, <4>4 DEF CreationOK, CountOK, Early
    <3>6. ReadyOK'
      <4>1. \A r \in Services : Starting(r) => Starting(r)'
        BY <2>1, <3>1, <3>2 DEF Starting
      <4> QED BY <3>2, <4>1 DEF CreationOK, ReadyOK
    <3> QED BY <3>3, <3>4, <3>5, <3>6 DEF CreationOK
  <2> QED BY <1>6, <2>2, <2>3 DEF Recheck
<1>7. ASSUME NEW t \in Threads, NEW s \in Services, Build(t, s) PROVE CreationOK'
  <2>1. \A u \in Threads, r \in Services :
            pc'[u][r] = IF u = t /\ r = s THEN "insert" ELSE pc[u][r]
    BY <1>7 DEF Build, TypeOK
  <2>2. \A u \in Threads, r \in Services : (u # t \/ r # s) => result'[u][r] = result[u][r]
    BY <1>7 DEF Build, TypeOK
  <2>3. /\ pc[t][s] = "build" /\ UNCHANGED <<container, ready, holder, destroyer>>
        /\ \A r \in Services : built'[r] = IF r = s THEN built[s] + 1 ELSE built[r]
        /\ result'[t][s] = built[s] + 1 /\ built[s] \in Nat
    BY <1>7 DEF Build, TypeOK
  <2>4. HolderOK'
    BY <2>1, <2>3 DEF CreationOK, HolderOK, Holding
  <2>5. CreatingOK'
    BY <2>1, <2>2, <2>3 DEF CreationOK, CreatingOK
  <2>6. CountOK'
    <3>1. \A r \in Services : Inserting(r) => Inserting(r)'
      BY <2>1, <2>3 DEF Inserting
    <3>2. Inserting(s)'
      BY <2>1 DEF Inserting
    <3>3. Early' => Early /\ built'[s] = 1
      BY <2>3 DEF CreationOK, CountOK, Early
    <3>4. \A u \in Threads : pc'[u][s] # "build"
      BY <2>1, <2>3 DEF CreationOK, HolderOK, Holding
    <3> QED BY <2>1, <2>3, <3>1, <3>2, <3>3, <3>4 DEF CreationOK, CountOK
  <2>7. ReadyOK'
    <3>1. \A r \in Services : Starting(r) => Starting(r)'
      BY <2>1, <2>2, <2>3 DEF Starting
    <3> QED BY <2>3, <3>1 DEF CreationOK, ReadyOK
  <2> QED BY <2>4, <2>5, <2>6, <2>7 DEF CreationOK
<1>8. ASSUME NEW t \in Threads, NEW s \in Services, BeginInsert(t, s) PROVE CreationOK'
  <2>1. \A u \in Threads, r \in Services :
            pc'[u][r] = IF u = t /\ r = s THEN "inserting" ELSE pc[u][r]
    BY <1>8 DEF BeginInsert, TypeOK
  <2>2. pc[t][s] = "insert" /\ UNCHANGED <<registry, holder, result, destroyer>>
    BY <1>8 DEF BeginInsert
  <2>3. HolderOK' /\ CreatingOK'
    BY <2>1, <2>2 DEF CreationOK, HolderOK, CreatingOK, Holding
  <2>4. CountOK'
    <3>1. \A r \in Services : Inserting(r) => Inserting(r)'
      BY <2>1 DEF Inserting
    <3> QED BY <2>1, <2>2, <3>1 DEF CreationOK, CountOK, Early
  <2>5. ReadyOK'
    <3>1. \A r \in Services : Starting(r) => Starting(r)'
      BY <2>1, <2>2 DEF Starting
    <3> QED BY <2>2, <3>1 DEF CreationOK, ReadyOK
  <2> QED BY <2>3, <2>4, <2>5 DEF CreationOK
<1>9. ASSUME NEW t \in Threads, NEW s \in Services, Insert(t, s) PROVE CreationOK'
  <2>1. \A u \in Threads, r \in Services :
            pc'[u][r] = IF u = t /\ r = s THEN "start" ELSE pc[u][r]
    BY <1>9 DEF Insert, TypeOK
  <2>2. pc[t][s] = "inserting" /\ UNCHANGED <<built, ready, holder, result, destroyer>>
    BY <1>9 DEF Insert
  <2>3. container[s] = 0
    BY <2>2 DEF CreationOK, CreatingOK
  <2>4. \A r \in Services : container'[r] = IF r = s THEN result[t][s] ELSE container[r]
    BY <1>9, <2>3 DEF Insert, TypeOK
  <2>5. HolderOK'
    BY <2>1, <2>2 DEF CreationOK, HolderOK, Holding
  <2>6. \A u \in Threads : u # t => pc[u][s] \notin Holding
    BY <2>2 DEF CreationOK, HolderOK, Holding
  <2>7. CreatingOK'
    BY <2>1, <2>2, <2>4, <2>6 DEF CreationOK, CreatingOK, Holding
  <2>8. CountOK'
    <3>1. \A r \in Services : r # s /\ Inserting(r) => Inserting(r)'
      BY <2>1 DEF Inserting
    <3>2. Early' /\ built[s] = 1 => container'[s] # 0
      BY <2>2, <2>4 DEF CreationOK, CreatingOK, TypeOK
    <3> QED BY <2>1, <2>2, <2>4, <3>1, <3>2 DEF CreationOK, CountOK, Early
  <2>9. ReadyOK'
    <3>1. \A r \in Services : r # s /\ Starting(r) => Starting(r)'
      BY <2>1, <2>2, <2>4 DEF Starting
    <3>2. Starting(s)'
      BY <2>1, <2>2, <2>4 DEF Starting
    <3> QED BY <2>2, <2>4, <3>1, <3>2 DEF CreationOK, ReadyOK
  <2> QED BY <2>5, <2>7, <2>8, <2>9 DEF CreationOK
<1>10. ASSUME NEW t \in Threads, NEW s \in Services, Start(t, s), Needs[s] = None
       PROVE  CreationOK'
  <2>1. pc[t][s] = "start" /\ pc' = [pc EXCEPT ![t][s] = "unlock"]
    BY <1>10 DEF Start
  <2>2. /\ ready' = ready \cup {<<s, result[t][s]>>}
        /\ UNCHANGED <<container, built, holder, result, destroyer>>
    BY <1>10 DEF Start
  <2>3. \A u \in Threads, r \in Services :
            pc'[u][r] = IF u = t /\ r = s THEN "unlock" ELSE pc[u][r]
    BY <2>1 DEF TypeOK
  <2> QED BY <2>1, <2>2, <2>3, StartedStep
<1>11. ASSUME NEW t \in Threads, NEW s \in Services, Start(t, s), Needs[s] # None
       PROVE  CreationOK'
  <2>1. pc[t][s] = "start"
    BY <1>11 DEF Start
  <2>2. Needs[s] \in Services /\ Needs[s] # s /\ pc[t][Needs[s]] = "idle"
    BY <1>11, <2>1, NeedIsIdle
  <2>3. \A u \in Threads, r \in Services :
            pc'[u][r] = IF u = t /\ r = Needs[s] THEN "find"
                        ELSE IF u = t /\ r = s THEN "wire" ELSE pc[u][r]
    BY <1>11, <2>2 DEF Start, TypeOK
  <2>4. UNCHANGED <<container, built, ready, holder, result, destroyer>>
    BY <1>11 DEF Start
  <2>5. HolderOK'
    BY <2>1, <2>2, <2>3, <2>4 DEF CreationOK, HolderOK, Holding
  <2>6. CreatingOK'
    BY <2>3, <2>4 DEF CreationOK, CreatingOK
  <2>7. CountOK'
    <3>1. \A r \in Services : Inserting(r) => Inserting(r)'
      BY <2>1, <2>2, <2>3 DEF Inserting
    <3> QED BY <2>3, <2>4, <3>1 DEF CreationOK, CountOK, Early
  <2>8. ReadyOK'
    <3>1. \A r \in Services : Starting(r) => Starting(r)'
      BY <2>1, <2>2, <2>3, <2>4 DEF Starting
    <3> QED BY <2>4, <3>1 DEF CreationOK, ReadyOK
  <2> QED BY <2>5, <2>6, <2>7, <2>8 DEF CreationOK
<1>12. ASSUME NEW t \in Threads, NEW s \in Services, Wire(t, s) PROVE CreationOK'
  <2>1. pc[t][s] = "wire" /\ pc[t][Needs[s]] = "done" /\ Needs[s] \in Services
    BY <1>12 DEF Wire, StackOK
  <2>2. \A u \in Threads, r \in Services :
            pc'[u][r] = IF u = t /\ r = Needs[s] THEN "idle"
                        ELSE IF u = t /\ r = s THEN "unlock" ELSE pc[u][r]
    BY <1>12, <2>1 DEF Wire, TypeOK
  <2>3. /\ ready' = ready \cup {<<s, result[t][s]>>}
        /\ UNCHANGED <<container, built, holder, result, destroyer>>
    BY <1>12 DEF Wire
  <2> QED BY <2>1, <2>2, <2>3, StartedStep
<1>13. ASSUME NEW t \in Threads, NEW s \in Services, Unlock(t, s) PROVE CreationOK'
  <2>1. \A u \in Threads, r \in Services :
            pc'[u][r] = IF u = t /\ r = s THEN "done" ELSE pc[u][r]
    BY <1>13 DEF Unlock, TypeOK
  <2>2. \A r \in Services : holder'[r] = IF r = s THEN None ELSE holder[r]
    BY <1>13 DEF Unlock, MutexOf, TypeOK
  <2>3. pc[t][s] = "unlock" /\ UNCHANGED <<registry, result, destroyer>>
    BY <1>13 DEF Unlock
  <2>4. HolderOK'
    BY <2>1, <2>2, <2>3, ServicesAssumption DEF CreationOK, HolderOK, Holding
  <2>5. CreatingOK'
    BY <2>1, <2>3 DEF CreationOK, CreatingOK
  <2>6. CountOK'
    <3>1. \A r \in Services : Inserting(r) => Inserting(r)'
      BY <2>1, <2>3 DEF Inserting
    <3> QED BY <2>1, <2>3, <3>1 DEF CreationOK, CountOK, Early
  <2>7. ReadyOK'
    <3>1. \A r \in Services : Starting(r) => Starting(r)'
      BY <2>1, <2>3 DEF Starting
    <3> QED BY <2>3, <3>1 DEF CreationOK, ReadyOK
  <2> QED BY <2>4, <2>5, <2>6, <2>7 DEF CreationOK
<1>14. ASSUME NEW t \in Threads, Return(t) PROVE CreationOK'
  <2>1. call[t] \in Services /\ pc[t][call[t]] = "done"
    BY <1>14 DEF Return, TypeOK
  <2>2. pc' = [pc EXCEPT ![t][call[t]] = "idle"]
    BY <1>14 DEF Return
  <2>3. UNCHANGED <<registry, holder, destroyer>> /\ result' = result
    BY <1>14 DEF Return
  <2> QED BY <2>1, <2>2, <2>3, PlainStep DEF Plain
<1>15. CASE SetTerminating
  BY <1>15, StillStep DEF SetTerminating, Early
<1>16. CASE TakeAll
  <2>1. /\ \A s \in Services : container'[s] = 0
        /\ ~Early' /\ UNCHANGED <<holder, pc, result>>
    BY <1>16 DEF TakeAll, Early
  <2>2. HolderOK' /\ CreatingOK'
    BY <2>1 DEF CreationOK, HolderOK, CreatingOK
  <2>3. CountOK' /\ ReadyOK'
    BY <2>1 DEF CountOK, ReadyOK
  <2> QED BY <2>2, <2>3 DEF CreationOK
<1>17. ASSUME NEW i \in doomed, Delete(i) PROVE CreationOK'
  BY <1>17, StillStep DEF Delete, Early
<1>18. CASE Finish
  BY <1>18, StillStep DEF Finish, Early
<1>19. CASE UNCHANGED vars
  BY <1>19, StillStep DEF vars, Early
<1> HIDE DEF Goto, Found, registry, dying
<1> QED BY <1>1, <1>2, <1>3, <1>4, <1>5, <1>6, <1>7, <1>8, <1>9, <1>10, <1>11, <1>12, <1>13,
           <1>14, <1>15, <1>16, <1>17, <1>18, <1>19 DEF Next, ThreadStep

-----------------------------------------------------------------------------
(* The services a creator finds *)

\* While the instance is not being destroyed, a search for a registered service that has come
\* to its end, or to the instance it builds, has an instance to give.
Answered == {"insert", "inserting", "start", "wire", "unlock", "done"}
AnsweredOK ==
    ~m_terminating =>
        \A t \in Threads, s \in Registered : pc[t][s] \in Answered => result[t][s] # 0

\* A step of one call that leaves m_terminating, and all other answers, as they are.
LEMMA AnswerStep ==
    ASSUME TypeOK, AnsweredOK, NEW t \in Threads, NEW s \in Services, NEW x \in Steps,
           UNCHANGED m_terminating, pc' = [pc EXCEPT ![t][s] = x],
           \A u \in Threads, r \in Services : (u # t \/ r # s) => result'[u][r] = result[u][r],
           ~m_terminating /\ s \in Registered /\ x \in Answered => result'[t][s] # 0
    PROVE  AnsweredOK'
<1>1. \A u \in Threads, r \in Services : pc'[u][r] = IF u = t /\ r = s THEN x ELSE pc[u][r]
  BY DEF TypeOK
<1> SUFFICES ASSUME ~m_terminating, NEW u \in Threads, NEW r \in Registered,
                    pc'[u][r] \in Answered
             PROVE  result'[u][r] # 0
  BY DEF AnsweredOK
<1>2. r \in Services BY ServicesAssumption
<1>3. CASE u = t /\ r = s BY <1>1, <1>2, <1>3
<1>4. CASE u # t \/ r # s
  <2>1. pc[u][r] \in Answered /\ result'[u][r] = result[u][r] BY <1>1, <1>2, <1>4
  <2> QED BY <2>1 DEF AnsweredOK
<1> QED BY <1>3, <1>4

LEMMA AnswersStep == TypeOK /\ StackOK /\ AnsweredOK /\ [Next]_vars => AnsweredOK'
<1> SUFFICES ASSUME TypeOK, StackOK, AnsweredOK, [Next]_vars PROVE AnsweredOK'
    OBVIOUS
<1> USE DEF Goto, Found, dying, Steps, Answered
<1>1. ASSUME NEW t \in Threads, NEW s \in Services, Call(t, s) PROVE AnsweredOK'
  BY <1>1, AnswerStep DEF Call
<1>2. ASSUME NEW t \in Threads, NEW s \in Services, Find(t, s) PROVE AnsweredOK'
  <2>1. \A u \in Threads, r \in Services : (u # t \/ r # s) => result'[u][r] = result[u][r]
    BY <1>2 DEF Find, TypeOK
  <2>2. CASE m_terminating
    BY <1>2, <2>2 DEF Find, AnsweredOK
  <2>3. CASE ~m_terminating
    <3>1. /\ result'[t][s] = container[s] /\ UNCHANGED m_terminating
          /\ pc' = [pc EXCEPT ![t][s] = IF container[s] = 0 THEN "init" ELSE "done"]
      BY <1>2, <2>3 DEF Find, SeenTerminating, TypeOK
    <3>2. CASE container[s] = 0
      <4>1. pc' = [pc EXCEPT ![t][s] = "init"] BY <3>1, <3>2
      <4> QED BY <2>1, <3>1, <4>1, AnswerStep
    <3>3. CASE container[s] # 0
      <4>1. pc' = [pc EXCEPT ![t][s] = "done"] BY <3>1, <3>3
      <4> QED BY <2>1, <3>1, <3>3, <4>1, AnswerStep
    <3> QED BY <3>2, <3>3
  <2> QED BY <2>2, <2>3
<1>3. ASSUME NEW t \in Threads, NEW s \in Services, Enter(t, s) PROVE AnsweredOK'
  <2>1. CASE m_terminating
    BY <1>3, <2>1 DEF Enter, AnsweredOK
  <2>2. CASE ~m_terminating
    <3>1. pc' = [pc EXCEPT ![t][s] = "wait"] /\ UNCHANGED <<m_terminating, result>>
      BY <1>3, <2>2 DEF Enter, SeenTerminating
    <3> QED BY <3>1, AnswerStep
  <2> QED BY <2>1, <2>2
<1>4. ASSUME NEW t \in Threads, NEW s \in Services, Lock(t, s) PROVE AnsweredOK'
  BY <1>4, AnswerStep DEF Lock
<1>5. ASSUME NEW t \in Threads, NEW s \in Services, Look(t, s) PROVE AnsweredOK'
  <2>1. PICK n \in Nat :
            /\ result' = [result EXCEPT ![t][s] = n]
            /\ pc' = [pc EXCEPT ![t][s] = IF n = 0 THEN "recheck" ELSE "unlock"]
    BY <1>5 DEF Look, TypeOK
  <2>2. /\ \A u \in Threads, r \in Services : (u # t \/ r # s) => result'[u][r] = result[u][r]
        /\ result'[t][s] = n /\ UNCHANGED m_terminating
    BY <1>5, <2>1 DEF Look, TypeOK
  <2>3. CASE n = 0
    <3>1. pc' = [pc EXCEPT ![t][s] = "recheck"] BY <2>1, <2>3
    <3> QED BY <2>2, <3>1, AnswerStep
  <2>4. CASE n # 0
    <3>1. pc' = [pc EXCEPT ![t][s] = "unlock"] BY <2>1, <2>4
    <3> QED BY <2>2, <2>4, <3>1, AnswerStep
  <2> QED BY <2>3, <2>4
<1>6. ASSUME NEW t \in Threads, NEW s \in Services, Recheck(t, s) PROVE AnsweredOK'
  <2>1. \A u \in Threads, r \in Services : (u # t \/ r # s) => result'[u][r] = result[u][r]
    BY <1>6 DEF Recheck, TypeOK
  <2>2. UNCHANGED m_terminating BY <1>6 DEF Recheck
  <2>3. CASE s \notin Registered
    <3>1. pc' = [pc EXCEPT ![t][s] = "unlock"] BY <1>6, <2>3 DEF Recheck
    <3> QED BY <2>1, <2>2, <2>3, <3>1, AnswerStep
  <2>4. CASE s \in Registered /\ container[s] = 0
    <3>1. pc' = [pc EXCEPT ![t][s] = "build"] BY <1>6, <2>4 DEF Recheck
    <3> QED BY <2>1, <2>2, <3>1, AnswerStep
  <2>5. CASE s \in Registered /\ container[s] # 0
    <3>1. pc' = [pc EXCEPT ![t][s] = "unlock"] BY <1>6, <2>5 DEF Recheck
    <3>2. result'[t][s] = container[s] BY <1>6, <2>5 DEF Recheck, TypeOK
    <3> QED BY <2>1, <2>2, <2>5, <3>1, <3>2, AnswerStep
  <2> QED BY <2>3, <2>4, <2>5
<1>7. ASSUME NEW t \in Threads, NEW s \in Services, Build(t, s) PROVE AnsweredOK'
  <2>1. /\ \A u \in Threads, r \in Services : (u # t \/ r # s) => result'[u][r] = result[u][r]
        /\ result'[t][s] = built[s] + 1 /\ built[s] \in Nat
    BY <1>7 DEF Build, TypeOK
  <2>2. result'[t][s] # 0 BY <2>1
  <2>3. pc' = [pc EXCEPT ![t][s] = "insert"] /\ UNCHANGED m_terminating BY <1>7 DEF Build
  <2> QED BY <2>1, <2>2, <2>3, AnswerStep
<1>8. ASSUME NEW t \in Threads, NEW s \in Services, NEW x \in Answered,
             pc[t][s] \in Answered, pc' = [pc EXCEPT ![t][s] = x],
             UNCHANGED <<m_terminating, result>>
      PROVE  AnsweredOK'
  <2>1. ~m_terminating /\ s \in Registered => result'[t][s] # 0 BY <1>8 DEF AnsweredOK
  <2> QED BY <1>8, <2>1, AnswerStep
<1>9. ASSUME NEW t \in Threads, NEW s \in Services, BeginInsert(t, s) PROVE AnsweredOK'
  BY <1>8, <1>9 DEF BeginInsert
<1>10. ASSUME NEW t \in Threads, NEW s \in Services, Insert(t, s) PROVE AnsweredOK'
  BY <1>8, <1>10 DEF Insert
<1>11. ASSUME NEW t \in Threads, NEW s \in Services, Start(t, s) PROVE AnsweredOK'
  <2>1. CASE Needs[s] = None BY <1>8, <1>11, <2>1 DEF Start
  <2>2. CASE Needs[s] # None
    <3>1. Needs[s] \in Services /\ UNCHANGED <<m_terminating, result>> /\ pc[t][s] = "start"
      BY <1>11, <2>2, ServicesAssumption DEF Start
    <3>2. \A u \in Threads, r \in Services :
              pc'[u][r] = IF u = t /\ r = Needs[s] THEN "find"
                          ELSE IF u = t /\ r = s THEN "wire" ELSE pc[u][r]
      BY <1>11, <2>2, <3>1 DEF Start, TypeOK
    <3>3. \A u \in Threads, r \in Services : pc'[u][r] \in Answered => pc[u][r] \in Answered
      BY <3>1, <3>2
    <3> QED BY <3>1, <3>3, ServicesAssumption DEF AnsweredOK
  <2> QED BY <2>1, <2>2
<1>12. ASSUME NEW t \in Threads, NEW s \in Services, Wire(t, s) PROVE AnsweredOK'
  <2>1. Needs[s] \in Services /\ UNCHANGED <<m_terminating, result>> /\ pc[t][s] = "wire"
    BY <1>12 DEF Wire, StackOK
  <2>2. \A u \in Threads, r \in Services :
            pc'[u][r] = IF u = t /\ r = Needs[s] THEN "idle"
                        ELSE IF u = t /\ r = s THEN "unlock" ELSE pc[u][r]
    BY <1>12, <2>1 DEF Wire, TypeOK
  <2>3. \A u \in Threads, r \in Services : pc'[u][r] \in Answered => pc[u][r] \in Answered
    BY <2>1, <2>2
  <2> QED BY <2>1, <2>3, ServicesAssumption DEF AnsweredOK
<1>13. ASSUME NEW t \in Threads, NEW s \in Services, Unlock(t, s) PROVE AnsweredOK'
  BY <1>8, <1>13 DEF Unlock
<1>14. ASSUME NEW t \in Threads, Return(t) PROVE AnsweredOK'
  <2>1. PICK s \in Services : s = call[t] BY <1>14 DEF Return, TypeOK
  <2>2. pc' = [pc EXCEPT ![t][s] = "idle"] /\ UNCHANGED <<m_terminating, result>>
    BY <1>14, <2>1 DEF Return
  <2> QED BY <2>2, AnswerStep
<1>15. CASE SetTerminating BY <1>15 DEF SetTerminating, AnsweredOK
<1>16. CASE TakeAll \/ (\E i \in doomed : Delete(i)) \/ Finish \/ UNCHANGED vars
  BY <1>16 DEF TakeAll, Delete, Finish, vars, AnsweredOK
<1> HIDE DEF Goto, Found, dying, Steps, Answered
<1> QED BY <1>1, <1>2, <1>3, <1>4, <1>5, <1>6, <1>7, <1>9, <1>10, <1>11, <1>12, <1>13,
           <1>14, <1>15, <1>16 DEF Next, ThreadStep

LEMMA WiredStep ==
    TypeOK /\ StackOK /\ AnsweredOK /\ StartedIsWired /\ [Next]_vars => StartedIsWired'
<1> SUFFICES ASSUME TypeOK, StackOK, AnsweredOK, StartedIsWired, [Next]_vars
             PROVE  StartedIsWired'
    OBVIOUS
<1> USE DEF dying, registry
<1>1. m_terminating => m_terminating'
  <2>1. ASSUME NEW t \in Threads, ThreadStep(t) PROVE m_terminating' = m_terminating
    BY <2>1 DEF ThreadStep, Find, Enter, Lock, Look, Recheck, Build, BeginInsert, Insert,
       Start, Wire, Unlock, Return
  <2>2. ASSUME NEW t \in Threads, NEW s \in Services, Call(t, s)
        PROVE  m_terminating' = m_terminating
    BY <2>2 DEF Call
  <2>3. CASE SetTerminating BY <2>3 DEF SetTerminating
  <2>4. CASE TakeAll \/ (\E i \in doomed : Delete(i)) \/ Finish \/ UNCHANGED vars
    BY <2>4 DEF TakeAll, Delete, Finish, vars
  <2> QED BY <2>1, <2>2, <2>3, <2>4 DEF Next
<1>2. CASE UNCHANGED <<ready, wired>>
  BY <1>1, <1>2 DEF StartedIsWired
<1>3. ASSUME NEW t \in Threads, NEW s \in Services, Start(t, s) PROVE StartedIsWired'
  <2>1. CASE Needs[s] # None
    BY <1>2, <1>3, <2>1 DEF Start
  <2>2. CASE Needs[s] = None
    <3>1. Needs[s] \notin Registered BY <2>2, ServicesAssumption
    <3>2. ready' = ready \cup {<<s, result[t][s]>>} /\ UNCHANGED wired
      BY <1>3, <2>2 DEF Start
    <3> QED BY <1>1, <3>1, <3>2 DEF StartedIsWired
  <2> QED BY <2>1, <2>2
<1>4. ASSUME NEW t \in Threads, NEW s \in Services, Wire(t, s) PROVE StartedIsWired'
  <2>1. /\ pc[t][Needs[s]] = "done" /\ UNCHANGED m_terminating
        /\ ready' = ready \cup {<<s, result[t][s]>>}
        /\ wired' = IF result[t][Needs[s]] = 0 THEN wired ELSE wired \cup {<<s, result[t][s]>>}
    BY <1>4 DEF Wire
  <2>2. ~m_terminating /\ Needs[s] \in Registered => result[t][Needs[s]] # 0
    BY <2>1 DEF AnsweredOK, Answered
  <2>3. wired \subseteq wired' BY <2>1
  <2>4. ~m_terminating /\ Needs[s] \in Registered => <<s, result[t][s]>> \in wired'
    BY <2>1, <2>2
  <2> QED BY <2>1, <2>3, <2>4 DEF StartedIsWired
<1>5. UNCHANGED <<ready, wired>> \/ \E t \in Threads, s \in Services : Start(t, s) \/ Wire(t, s)
  BY DEF Next, ThreadStep, vars, Call, Find, Enter, Lock, Look, Recheck, Build, BeginInsert,
     Insert, Unlock, Return, SetTerminating, TakeAll, Delete, Finish
<1> QED BY <1>2, <1>3, <1>4, <1>5

-----------------------------------------------------------------------------
(* Theorems *)

LEMMA Inductive == Spec => []IInv
<1>1. IInv /\ [Next]_vars => IInv'
    BY TypeStep, StackStep, CreationStep DEF IInv, CreationOK
<1> QED BY InitIInv, <1>1, PTL DEF Spec

\* The state is well formed in every execution.
THEOREM TypeCorrect == Spec => []TypeOK
<1>1. IInv => TypeOK
    BY DEF IInv
<1> QED BY Inductive, <1>1, PTL

\* CInstance::initService: whatever the unlocked look sees and however many threads come at
\* once, one instance of a service is constructed until the destructor takes the services.
THEOREM OneInstanceHolds == Spec => []OneInstance
<1>1. IInv => OneInstance
    BY DEF IInv, OneInstance, CountOK, Early, TypeOK
<1> QED BY Inductive, <1>1, PTL

\* CInstance::initService: a service in the container that has not had startService yet is in
\* the hands of the thread that holds its mutex.
THEOREM ReadyOrBeingStartedHolds == Spec => []ReadyOrBeingStarted
<1>1. IInv => ReadyOrBeingStarted
    BY DEF IInv, ReadyOrBeingStarted, ReadyOK, Starting, HolderOK, Holding, MutexOf
<1> QED BY Inductive, <1>1, PTL

\* CInstance::initService: mutexes are taken in the order of the needs, so that threads that
\* create services do not wait for each other in a circle.
THEOREM LocksDescendHolds == Spec => []LocksDescend
<1>1. ASSUME IInv, NEW t \in Threads, NEW s \in Services, NEW r \in Services,
             pc[t][s] = "wait", holder[r] = t
      PROVE  Rank[MutexOf(s)] < Rank[r]
  <2>1. pc[t][r] \in Holding
    BY <1>1 DEF IInv, HolderOK
  <2>2. r # s /\ pc[t][r] # "idle"
    BY <1>1, <2>1 DEF Holding
  <2>3. pc[t][r] = "wire"
    BY <1>1, <2>2 DEF IInv, StackOK, Passive
  <2> QED BY <1>1, <2>3 DEF IInv, StackOK, Passive, MutexOf
<1>2. IInv => LocksDescend
    BY <1>1 DEF LocksDescend
<1> QED BY Inductive, <1>2, PTL

\* CInstance::getServiceOrCreate: a service that has had startService has the service it asks
\* for there, if a module registers that one and the destructor has not begun: neither the
\* look without the lock nor a creator that came first leaves it without.
THEOREM StartedIsWiredHolds == Spec => []StartedIsWired
<1>1. Init => AnsweredOK /\ StartedIsWired
    BY ServicesAssumption DEF Init, AnsweredOK, Answered, StartedIsWired
<1>2. IInv /\ AnsweredOK /\ StartedIsWired /\ [Next]_vars => (AnsweredOK /\ StartedIsWired)'
    BY AnswersStep, WiredStep DEF IInv
<1> QED BY Inductive, <1>1, <1>2, PTL DEF Spec
=============================================================================
