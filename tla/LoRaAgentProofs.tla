-------------------------- MODULE LoRaAgentProofs --------------------------
(***************************************************************************)
(* Proofs about LoRaAgent, for all constants.                              *)
(*                                                                         *)
(* Packets carry the number under which they were offered or heard.  The   *)
(* inductive invariant says that these numbers grow from the end of each   *)
(* chain of queues to its beginning, and that a close request in the       *)
(* reader's backlog is not older than any packet it finds on its way.      *)
(* That nothing vanishes is inductive beside the types and LifeInv.        *)
(* With it each step of the agent is one of the abstract pipe, or none.    *)
(*                                                                         *)
(* Then the pure functions: what a packet costs, and which packets survive *)
(* the text of the modem, by induction on their length. At the end, what   *)
(* the liveness properties rest on.                                        *)
(***************************************************************************)
EXTENDS LoRaAgent, WellFoundedInduction, TLAPS

\* Every event is a tag and a number.
Event == ({"LoRaStart", "LoRaPacketTx", "LoRaPacketRx"} \cup Target) \X Int

\* The numbers of the events in s with one of the tags.
Nums(s, tags) == {s[i][2] : i \in {k \in DOMAIN s : s[k][1] \in tags}}

\* Each number of A is smaller than each number of B, by d at least.
Below(A, B, d) == \A a \in A, b \in B : a + d <= b

\* Events with a tag of T have numbers above those of the earlier ones with a
\* tag of S.
Ordered(s, S, T, d) ==
    \A i, j \in DOMAIN s :
        i < j /\ s[i][1] \in S /\ s[j][1] \in T => s[i][2] + d <= s[j][2]

TxTag == {"LoRaPacketTx"}
RxTag == {"LoRaPacketRx"}

\* From the air back to the bus: what was written, what waits in the command
\* channel, in the reader's hand and in its backlog, and the close requests
\* there.
OutStages(A, C, H, B, K) ==
    /\ Below(A, C, 1) /\ Below(A, H, 1) /\ Below(A, B, 1)
    /\ Below(C, H, 1) /\ Below(C, B, 1)
    /\ Below(H, B, 1)
    /\ Below(A, K, 0) /\ Below(C, K, 0) /\ Below(H, K, 0)
    /\ Below(A, {offered}, 0) /\ Below(C, {offered}, 0)
    /\ Below(H, {offered}, 0) /\ Below(B, {offered}, 0)

OutInv ==
    /\ Increasing(air) /\ Increasing(commands)
    /\ Ordered(agentBox, TxTag, TxTag, 1)
    /\ Ordered(agentBox, TxTag, Target, 0)
    /\ OutStages(Range(air), Range(commands), Range(hand),
                 Nums(agentBox, TxTag), Nums(agentBox, Target))
    /\ closedAt # -1 =>
        /\ Below(Range(air), {closedAt}, 0)
        /\ Below(Range(commands), {closedAt}, 0)
        /\ Below(Range(hand), {closedAt}, 0)

\* From the parsed packets back to the link.
InStages(P, B, R, L) ==
    /\ Below(P, B, 1) /\ Below(P, R, 1) /\ Below(P, L, 1)
    /\ Below(B, R, 1) /\ Below(B, L, 1)
    /\ Below(R, L, 1)
    /\ Below(P, {heard}, 0) /\ Below(B, {heard}, 0)
    /\ Below(R, {heard}, 0) /\ Below(L, {heard}, 0)

InInv ==
    /\ Increasing(parsed) /\ Increasing(rx)
    /\ Ordered(actorBox, RxTag, RxTag, 1)
    /\ InStages(Range(parsed), Nums(actorBox, RxTag), Range(rx), Range(linkHand))

NoStart(s) == \A i \in DOMAIN s : s[i] # Start
StartFirst(s) == \A i \in DOMAIN s : s[i] = Start => i = 1

\* The agent's life: it is started once, its reader and writer live within it, and what
\* is closed or halted takes nothing up again.
LifeInv ==
    /\ StartFirst(actorBox)
    /\ agent # "none" => NoStart(actorBox)
    /\ agent \in {"none", "starting", "opening"} => writer = "off"
    /\ reader \in {"on", "held"} => agent = "up"
    /\ reader = "done" => agent \in {"up", "down"} /\ agentBox = <<>>
    /\ closedAt # -1 => reader = "done" \/ agent = "halted"
    /\ agent = "halted" =>
        /\ actorBox = <<>> /\ agentBox = <<>>
        /\ hand = <<>> /\ commands = <<>> /\ rx = <<>> /\ linkHand = <<>>
        /\ reader = "off" /\ writer = "off" /\ link = "off"

---------------------------------------------------------------------------
(* Sequences of numbers, and of events.                                    *)

LEMMA TailOfNumbers ==
    ASSUME NEW q \in Seq(Int), q # <<>>
    PROVE  /\ Head(q) \in Int /\ Tail(q) \in Seq(Int)
           /\ Range(q) = {Head(q)} \cup Range(Tail(q))
           /\ Increasing(q) => Increasing(Tail(q))
           /\ Increasing(q) => Below({Head(q)}, Range(Tail(q)), 1)
<1>1. /\ Len(q) \in Nat \ {0} /\ Head(q) = q[1] /\ Tail(q) \in Seq(Int)
      /\ DOMAIN q = 1 .. Len(q) /\ 1 \in DOMAIN q
  OBVIOUS
<1>2. /\ Len(Tail(q)) = Len(q) - 1 /\ DOMAIN Tail(q) = 1 .. Len(q) - 1
      /\ \A i \in 1 .. Len(q) - 1 : Tail(q)[i] = q[i + 1]
  OBVIOUS
<1>3. Range(q) = {Head(q)} \cup Range(Tail(q))
  <2>1. ASSUME NEW i \in DOMAIN q, q[i] # Head(q) PROVE q[i] \in Range(Tail(q))
    <3>1. i - 1 \in DOMAIN Tail(q) /\ q[i] = Tail(q)[i - 1]
      BY <1>1, <1>2, <2>1
    <3> QED BY <3>1 DEF Range
  <2>2. ASSUME NEW i \in DOMAIN Tail(q) PROVE Tail(q)[i] \in Range(q)
    <3>1. i + 1 \in DOMAIN q /\ Tail(q)[i] = q[i + 1]
      BY <1>1, <1>2
    <3> QED BY <3>1 DEF Range
  <2>3. Head(q) \in Range(q)
    BY <1>1 DEF Range
  <2> QED BY <2>1, <2>2, <2>3 DEF Range
<1>4. ASSUME Increasing(q) PROVE Increasing(Tail(q))
  BY <1>1, <1>2, <1>4 DEF Increasing
<1>5. ASSUME Increasing(q) PROVE Below({Head(q)}, Range(Tail(q)), 1)
  <2>1. ASSUME NEW i \in DOMAIN Tail(q) PROVE Head(q) + 1 <= Tail(q)[i]
    <3>1. i + 1 \in DOMAIN q /\ 1 < i + 1 /\ Tail(q)[i] = q[i + 1]
      BY <1>1, <1>2
    <3>2. q[1] < q[i + 1] /\ q[1] \in Int /\ q[i + 1] \in Int
      BY <1>1, <1>5, <3>1 DEF Increasing
    <3> QED BY <1>1, <3>1, <3>2
  <2> QED BY <2>1 DEF Below, Range
<1> QED BY <1>1, <1>3, <1>4, <1>5

LEMMA AppendToNumbers ==
    ASSUME NEW q \in Seq(Int), NEW n \in Int
    PROVE  /\ Range(Append(q, n)) = Range(q) \cup {n}
           /\ q \o <<n>> = Append(q, n)
           /\ Increasing(q) /\ Below(Range(q), {n}, 1) => Increasing(Append(q, n))
<1>1. /\ Append(q, n) \in Seq(Int) /\ Len(Append(q, n)) = Len(q) + 1
      /\ Append(q, n)[Len(q) + 1] = n
      /\ \A i \in 1 .. Len(q) : Append(q, n)[i] = q[i]
  OBVIOUS
<1>2. DOMAIN q = 1 .. Len(q) /\ Len(q) \in Nat /\ DOMAIN Append(q, n) = 1 .. (Len(q) + 1)
  BY <1>1
<1>3. Range(Append(q, n)) = Range(q) \cup {n}
  BY <1>1, <1>2 DEF Range
<1>4. q \o <<n>> = Append(q, n)
  OBVIOUS
<1>5. ASSUME Increasing(q), Below(Range(q), {n}, 1) PROVE Increasing(Append(q, n))
  <2>1. \A i \in 1 .. Len(q) : q[i] + 1 <= n /\ q[i] \in Int
    BY <1>2, <1>5 DEF Below, Range
  <2> QED BY <1>1, <1>2, <1>5, <2>1 DEF Increasing
<1> QED BY <1>3, <1>4, <1>5

LEMMA TailOfEvents ==
    ASSUME NEW s \in Seq(Event), s # <<>>, NEW S, NEW T, NEW d \in Int
    PROVE  /\ Nums(Tail(s), T) \subseteq Nums(s, T)
           /\ Head(s)[1] \in T => Head(s)[2] \in Nums(s, T)
           /\ Ordered(s, S, T, d) => Ordered(Tail(s), S, T, d)
           /\ Ordered(s, S, T, d) /\ Head(s)[1] \in S =>
                Below({Head(s)[2]}, Nums(Tail(s), T), d)
<1>1. Len(s) \in Nat \ {0} /\ Head(s) = s[1] /\ DOMAIN s = 1 .. Len(s)
  OBVIOUS
<1>2. /\ DOMAIN Tail(s) = 1 .. Len(s) - 1
      /\ \A i \in 1 .. Len(s) - 1 : Tail(s)[i] = s[i + 1]
  OBVIOUS
<1>3. Nums(Tail(s), T) \subseteq Nums(s, T)
  BY <1>1, <1>2 DEF Nums
<1>4. Head(s)[1] \in T => Head(s)[2] \in Nums(s, T)
  BY <1>1 DEF Nums
<1>5. ASSUME Ordered(s, S, T, d) PROVE Ordered(Tail(s), S, T, d)
  BY <1>1, <1>2, <1>5 DEF Ordered
<1>6. ASSUME Ordered(s, S, T, d), Head(s)[1] \in S
      PROVE  Below({Head(s)[2]}, Nums(Tail(s), T), d)
  BY <1>1, <1>2, <1>6 DEF Ordered, Below, Nums
<1> QED BY <1>3, <1>4, <1>5, <1>6

LEMMA AppendToEvents ==
    ASSUME NEW s \in Seq(Event), NEW e \in Event, NEW S, NEW T, NEW d \in Int
    PROVE  /\ Nums(Append(s, e), T) \subseteq Nums(s, T) \cup {e[2]}
           /\ e[1] \notin T => Nums(Append(s, e), T) \subseteq Nums(s, T)
           /\ Ordered(s, S, T, d) /\ (e[1] \in T => Below(Nums(s, S), {e[2]}, d))
                => Ordered(Append(s, e), S, T, d)
<1>1. /\ DOMAIN s = 1 .. Len(s) /\ Len(s) \in Nat
      /\ DOMAIN Append(s, e) = 1 .. (Len(s) + 1)
      /\ Append(s, e)[Len(s) + 1] = e
      /\ \A i \in 1 .. Len(s) : Append(s, e)[i] = s[i]
  OBVIOUS
<1>2. Nums(Append(s, e), T) \subseteq Nums(s, T) \cup {e[2]}
  BY <1>1 DEF Nums
<1>3. e[1] \notin T => Nums(Append(s, e), T) \subseteq Nums(s, T)
  BY <1>1 DEF Nums
<1>4. ASSUME Ordered(s, S, T, d), e[1] \in T => Below(Nums(s, S), {e[2]}, d)
      PROVE  Ordered(Append(s, e), S, T, d)
  <2> SUFFICES ASSUME NEW i \in 1 .. (Len(s) + 1), NEW j \in 1 .. (Len(s) + 1), i < j,
                      Append(s, e)[i][1] \in S, Append(s, e)[j][1] \in T
               PROVE  Append(s, e)[i][2] + d <= Append(s, e)[j][2]
    BY <1>1 DEF Ordered
  <2>1. CASE j = Len(s) + 1
    BY <1>1, <1>4, <2>1 DEF Below, Nums
  <2>2. CASE j # Len(s) + 1
    BY <1>1, <1>4, <2>2 DEF Ordered
  <2> QED BY <2>1, <2>2
<1> QED BY <1>2, <1>3, <1>4

---------------------------------------------------------------------------
(* Types.                                                                  *)

LEMMA Kinds ==
    /\ \A p \in 1 .. MaxTx : Tx(p) \in Transmission
    /\ \A r \in 1 .. MaxRx : Rx(r) \in Reception
    /\ \A t \in Target, n \in 0 .. MaxTx : Close(t, n) \in CloseRequest
    /\ \A e \in CloseRequest : e[1] \in Target /\ e[2] \in 0 .. MaxTx
    /\ \A s : Packets(s) \subseteq Transmission \cup Reception
BY DEF Tx, Rx, Close, Transmission, Reception, CloseRequest, Packets

LEMMA EmptyQueues ==
    /\ <<>> \in Seq({Start} \cup Transmission \cup Reception \cup CloseRequest)
    /\ <<Start>> \in Seq({Start} \cup Transmission \cup Reception \cup CloseRequest)
    /\ <<>> \in Seq(Transmission \cup CloseRequest)
    /\ <<>> \in Seq(1 .. MaxTx) /\ <<>> \in Seq(1 .. MaxRx)
    /\ Len(<<>>) <= Room /\ Len(<<>>) <= Room' /\ Len(<<>>) <= RxCap
    /\ <<>> \in AtMostOne(1 .. MaxTx) /\ <<>> \in AtMostOne(1 .. MaxRx)
<1>1. <<>> \in AtMostOne(1 .. MaxTx) /\ <<>> \in AtMostOne(1 .. MaxRx)
  BY DEF AtMostOne
<1>2. Len(<<>>) = 0
  OBVIOUS
<1> QED BY <1>1, <1>2, CapAssumption DEF Room

\* A task that has a packet in hand adds it to a channel with room.
LEMMA HandedOn ==
    ASSUME NEW m \in Nat, NEW cap \in Nat, NEW q \in Seq(1 .. m), Len(q) < cap,
           NEW h \in AtMostOne(1 .. m), h # <<>>
    PROVE  /\ q \o h \in Seq(1 .. m) /\ Len(q \o h) <= cap
           /\ h[1] \in 1 .. m /\ h = <<h[1]>>
<1>1. PICK x \in 1 .. m : h = <<x>>
  BY DEF AtMostOne
<1>2. q \o <<x>> \in Seq(1 .. m) /\ Len(q \o <<x>>) = Len(q) + 1 /\ Len(q) \in Nat
  OBVIOUS
<1> QED BY <1>1, <1>2

LEMMA InitType == Init => TypeOK
<1> SUFFICES ASSUME Init PROVE TypeOK
  OBVIOUS
<1>1. lost = {} /\ counted = {}
  BY DEF Init
<1>2. offered \in 0 .. MaxTx /\ heard \in 0 .. MaxRx /\ closes \in 0 .. MaxCloses
      /\ lags \in 0 .. MaxLags
  BY BoundAssumption DEF Init
<1> QED BY <1>1, <1>2, EmptyQueues DEF Init, TypeOK

LEMMA TypeStep == TypeOK /\ LifeInv /\ [Next]_vars => TypeOK'
<1> SUFFICES ASSUME TypeOK, LifeInv, [Next]_vars PROVE TypeOK'
  OBVIOUS
<1> USE BoundAssumption, CapAssumption DEF Room
<1>1. CASE Offer
  BY <1>1, Kinds DEF Offer, TypeOK, ToActor, ToAgent, actorVars, out, in
<1>2. ASSUME NEW target \in Target, Request(target) PROVE TypeOK'
  <2>1. Close(target, offered) \in CloseRequest
    BY Kinds DEF TypeOK
  <2>2. /\ actorBox' \in Seq({Start} \cup Transmission \cup Reception \cup CloseRequest)
        /\ agentBox' \in Seq(Transmission \cup CloseRequest)
    BY <1>2, <2>1 DEF Request, ToActor, ToAgent, TypeOK
  <2>3. closes' \in 0 .. MaxCloses
    BY <1>2 DEF Request, TypeOK
  <2> QED BY <1>2, <2>2, <2>3 DEF Request, TypeOK, actorVars, out, in
<1>3. CASE ActorLags
  BY <1>3, Kinds DEF ActorLags, TypeOK, actorVars, out, in
<1>4. CASE AgentLags
  BY <1>4, Kinds DEF AgentLags, TypeOK, actorVars, out, in
<1>5. ASSUME Halt PROVE TypeOK'
  BY <1>5, EmptyQueues DEF Halt, TypeOK, history
<1>6. CASE StartAgent
  BY <1>6 DEF StartAgent, ActorGets, TypeOK, out, in, actorVars, history
<1>7. ASSUME NEW p \in 1 .. MaxTx, RecordAirtime(p) PROVE TypeOK'
  BY <1>7 DEF RecordAirtime, ActorGets, TypeOK, out, in, history
<1>8. ASSUME NEW r \in 1 .. MaxRx, Parse(r) PROVE TypeOK'
  <2>1. Rx(r) \in Reception
    BY Kinds
  <2>2. lost' \subseteq Transmission \cup Reception /\ parsed' \in Seq(1 .. MaxRx)
    <3>1. parsed \in Seq(1 .. MaxRx) /\ lost \subseteq Transmission \cup Reception
      BY DEF TypeOK
    <3>2. Append(parsed, r) \in Seq(1 .. MaxRx)
      BY <3>1
    <3> QED BY <1>8, <2>1, <3>1, <3>2 DEF Parse
  <2>3. actorBox' \in Seq({Start} \cup Transmission \cup Reception \cup CloseRequest)
    BY <1>8 DEF Parse, ActorGets, TypeOK
  <2> QED BY <1>8, <2>2, <2>3 DEF Parse, TypeOK, out, in
<1>9. ASSUME NEW e \in CloseRequest, ActorCloses(e) PROVE TypeOK'
  <2>1. lost' \subseteq Transmission \cup Reception /\ actor' \in BOOLEAN
    BY <1>9, Kinds DEF ActorCloses, TypeOK
  <2>2. actorBox' \in Seq({Start} \cup Transmission \cup Reception \cup CloseRequest)
    <3>1. Tail(actorBox) \in Seq({Start} \cup Transmission \cup Reception \cup CloseRequest)
      BY <1>9 DEF ActorCloses, ActorGets, TypeOK
    <3> QED BY <1>9, <3>1, EmptyQueues DEF ActorCloses
  <2> QED BY <1>9, <2>1, <2>2 DEF ActorCloses, TypeOK, out, in
<1>10. CASE Subscribe \/ OpenOk \/ Finish
  BY <1>10 DEF Subscribe, OpenOk, Finish, LifeInv, TypeOK, bus, out, in, actorVars, history
<1>11. ASSUME NEW p \in 1 .. MaxTx, ReadTx(p) PROVE TypeOK'
  BY <1>11 DEF ReadTx, TypeOK, AtMostOne, in, actorVars, history
<1>12. ASSUME NEW e \in CloseRequest, ReadClose(e) PROVE TypeOK'
  <2>1. {Rx(r) : r \in Range(rx)} \subseteq Reception
    BY Kinds DEF TypeOK, Range
  <2>2. lost' \subseteq Transmission \cup Reception
    BY <1>12, <2>1, Kinds DEF ReadClose, TypeOK
  <2>3. closedAt' \in 0 .. MaxTx /\ agentBox' = <<>> /\ rx' = <<>>
    BY <1>12, Kinds DEF ReadClose
  <2> QED BY <1>12, <2>2, <2>3, EmptyQueues DEF ReadClose, TypeOK, out, actorVars
<1>13. CASE PassOn
  <2>1. /\ hand # <<>> /\ Len(commands) < Room /\ commands' = commands \o hand
        /\ Room' = Room /\ Room \in Nat
    BY <1>13 DEF PassOn
  <2>2. commands \in Seq(1 .. MaxTx) /\ hand \in AtMostOne(1 .. MaxTx) /\ MaxTx \in Nat
    BY DEF TypeOK
  <2> HIDE DEF Room
  <2>3. commands' \in Seq(1 .. MaxTx) /\ Len(commands') <= Room'
    BY <2>1, <2>2, HandedOn
  <2> QED
    BY <1>13, <2>3, EmptyQueues DEF PassOn, TypeOK, bus, in, actorVars, history
<1>14. CASE Deliver
  <2>1. Rx(Head(rx)) \in Reception
    BY <1>14, Kinds DEF Deliver, TypeOK
  <2>2. /\ rx' \in Seq(1 .. MaxRx) /\ Len(rx') <= RxCap
        /\ lost' \subseteq Transmission \cup Reception
    BY <1>14, <2>1 DEF Deliver, TypeOK
  <2>3. actorBox' \in Seq({Start} \cup Transmission \cup Reception \cup CloseRequest)
    BY <1>14, <2>1 DEF Deliver, ToActor, TypeOK
  <2> QED BY <1>14, <2>2, <2>3 DEF Deliver, TypeOK, out, actorVars
<1>15. CASE Write
  <2>1. Head(commands) \in 1 .. MaxTx /\ Tx(Head(commands)) \in Transmission
    BY <1>15, Kinds DEF Write, TypeOK
  <2>2. commands' \in Seq(1 .. MaxTx) /\ Len(commands') <= Room'
    BY <1>15 DEF Write, TypeOK
  <2>3. air' \in Seq(1 .. MaxTx) /\ lost' \subseteq Transmission \cup Reception
    <3>1. air \in Seq(1 .. MaxTx) /\ lost \subseteq Transmission \cup Reception
      BY DEF TypeOK
    <3>2. Append(air, Head(commands)) \in Seq(1 .. MaxTx)
      BY <2>1, <3>1
    <3> QED BY <1>15, <2>1, <3>1, <3>2 DEF Write
  <2> QED BY <1>15, <2>2, <2>3 DEF Write, TypeOK, bus, in, actorVars
<1>16. CASE WriterEnds \/ TakeCommand \/ Yield
  <2>1. /\ Len(commands) <= Room' /\ writer' \in {"off", "on", "writing", "done"}
        /\ reader' \in {"off", "on", "held", "done"}
    BY <1>16 DEF WriterEnds, TakeCommand, Yield, TypeOK, out
  <2>2. /\ UNCHANGED <<port, agent, hand, commands, air>>
        /\ UNCHANGED <<bus, in, actorVars, history>>
    BY <1>16 DEF WriterEnds, TakeCommand, Yield, out
  <2> HIDE DEF Room
  <2> QED BY <2>1, <2>2 DEF TypeOK, bus, in, actorVars, history
<1>17. CASE Hear
  <2>1. heard \in 0 .. MaxRx /\ heard < MaxRx /\ heard' = heard + 1 /\ linkHand' = <<heard + 1>>
    BY <1>17 DEF Hear, TypeOK
  <2>2. heard' \in 0 .. MaxRx /\ heard + 1 \in 1 .. MaxRx
    BY <2>1
  <2>3. linkHand' \in AtMostOne(1 .. MaxRx)
    BY <2>1, <2>2, Zenon DEF AtMostOne
  <2> QED BY <1>17, <2>2, <2>3 DEF Hear, TypeOK, bus, out, actorVars
<1>18. CASE HearUndecodable
  BY <1>18, Kinds DEF HearUndecodable, TypeOK, bus, out, in, actorVars
<1>19. CASE PassIn
  <2>0. reader' \in {"off", "on", "held", "done"}
    BY <1>19 DEF PassIn, TypeOK
  <2>1. CASE reader = "done"
    <3>1. linkHand[1] \in 1 .. MaxRx
      BY <1>19 DEF PassIn, TypeOK, AtMostOne
    <3>2. lost' \subseteq Transmission \cup Reception /\ rx' = rx
      BY <1>19, <2>1, <3>1, Kinds DEF PassIn, TypeOK
    <3> QED
      BY <1>19, <2>0, <3>2, EmptyQueues DEF PassIn, TypeOK, bus, out, actorVars
  <2>2. CASE reader # "done"
    <3>1. rx' \in Seq(1 .. MaxRx) /\ Len(rx') <= RxCap /\ lost' = lost
      <4>1. /\ Len(rx) < RxCap /\ rx' = rx \o linkHand /\ lost' = lost
            /\ linkHand # <<>>
        BY <1>19, <2>2 DEF PassIn
      <4>2. RxCap \in Nat /\ MaxRx \in Nat /\ rx \in Seq(1 .. MaxRx)
            /\ linkHand \in AtMostOne(1 .. MaxRx)
        BY DEF TypeOK
      <4> QED BY <4>1, <4>2, HandedOn
    <3> QED
      BY <1>19, <2>0, <3>1, EmptyQueues DEF PassIn, TypeOK, bus, out, actorVars
  <2> QED BY <2>1, <2>2
<1>20. CASE LinkEnds
  BY <1>20 DEF LinkEnds, TypeOK, bus, out, actorVars, history
<1>21. CASE UNCHANGED vars
  BY <1>21 DEF TypeOK, vars, bus, out, in, actorVars, history
<1> QED
  BY <1>1, <1>2, <1>3, <1>4, <1>5, <1>6, <1>7, <1>8, <1>9, <1>10, <1>11, <1>12,
     <1>13, <1>14, <1>15, <1>16, <1>17, <1>18, <1>19, <1>20, <1>21
  DEF Next, Actor, ReadBus, Exit, OpenFails, HearTorn

---------------------------------------------------------------------------
(* The agent's life.                                                       *)

LEMMA Views ==
    ASSUME TypeOK
    PROVE  /\ actorBox \in Seq(Event) /\ agentBox \in Seq(Event)
           /\ air \in Seq(Int) /\ commands \in Seq(Int)
           /\ parsed \in Seq(Int) /\ rx \in Seq(Int)
           /\ offered \in Int /\ heard \in Int /\ closedAt \in Int
           /\ CloseRequest \subseteq Event
           /\ \A n \in Int : Tx(n) \in Event /\ Rx(n) \in Event
<1>1. /\ Transmission \subseteq Event /\ Reception \subseteq Event
      /\ CloseRequest \subseteq Event /\ Start \in Event
  <2>1. /\ 1 .. MaxTx \subseteq Int /\ 1 .. MaxRx \subseteq Int
        /\ 0 .. MaxTx \subseteq Int /\ 0 \in Int
    BY BoundAssumption
  <2>2. /\ Transmission \subseteq Event /\ Reception \subseteq Event
        /\ CloseRequest \subseteq Event
    BY <2>1 DEF Event, Transmission, Reception, CloseRequest
  <2>3. Start \in Event
    BY <2>1 DEF Event, Start
  <2> QED BY <2>2, <2>3
<1>2. \A n \in Int : Tx(n) \in Event /\ Rx(n) \in Event
  BY DEF Event, Tx, Rx
<1>3. actorBox \in Seq(Event) /\ agentBox \in Seq(Event)
  <2>1. {Start} \cup Transmission \cup Reception \cup CloseRequest \subseteq Event
    BY <1>1
  <2>2. Transmission \cup CloseRequest \subseteq Event
    BY <1>1
  <2>3. /\ actorBox \in Seq({Start} \cup Transmission \cup Reception \cup CloseRequest)
        /\ agentBox \in Seq(Transmission \cup CloseRequest)
    BY DEF TypeOK
  <2>4. ASSUME NEW A, NEW B, A \subseteq B PROVE Seq(A) \subseteq Seq(B)
    BY <2>4
  <2> QED BY <2>1, <2>2, <2>3, <2>4
<1>4. air \in Seq(Int) /\ commands \in Seq(Int) /\ parsed \in Seq(Int) /\ rx \in Seq(Int)
  <2>1. ASSUME NEW m \in Nat, NEW q \in Seq(1 .. m) PROVE q \in Seq(Int)
    BY <2>1
  <2> QED BY <2>1, BoundAssumption DEF TypeOK
<1>5. offered \in Int /\ heard \in Int /\ closedAt \in Int
  BY BoundAssumption DEF TypeOK
<1> QED BY <1>1, <1>2, <1>3, <1>4, <1>5

LEMMA StartsGo ==
    ASSUME NEW s \in Seq(Event), s # <<>>, StartFirst(s)
    PROVE  NoStart(Tail(s))
<1>1. /\ DOMAIN s = 1 .. Len(s) /\ DOMAIN Tail(s) = 1 .. Len(s) - 1
      /\ Len(s) \in Nat /\ \A i \in 1 .. Len(s) - 1 : Tail(s)[i] = s[i + 1]
  OBVIOUS
<1> QED BY <1>1 DEF StartFirst, NoStart

LEMMA StartsComeFirst ==
    ASSUME NEW s \in Seq(Event), NEW e \in Event, e # Start, StartFirst(s)
    PROVE  /\ StartFirst(Append(s, e))
           /\ NoStart(s) => NoStart(Append(s, e))
<1>1. /\ DOMAIN s = 1 .. Len(s) /\ DOMAIN Append(s, e) = 1 .. Len(s) + 1
      /\ Append(s, e)[Len(s) + 1] = e /\ Len(s) \in Nat
      /\ \A i \in 1 .. Len(s) : Append(s, e)[i] = s[i]
  OBVIOUS
<1> QED BY <1>1 DEF StartFirst, NoStart

LEMMA NotStart ==
    /\ \A n \in Int : Tx(n) # Start /\ Rx(n) # Start
    /\ \A e \in CloseRequest : e # Start
BY DEF Tx, Rx, Start, CloseRequest, Target

LEMMA InitLife == Init => LifeInv
BY DEF Init, LifeInv, StartFirst, NoStart

LEMMA LifeStep == TypeOK /\ LifeInv /\ [Next]_vars => LifeInv'
<1> SUFFICES ASSUME TypeOK, LifeInv, [Next]_vars PROVE LifeInv'
  OBVIOUS
<1>0. /\ StartFirst(actorBox)
      /\ agent # "none" => NoStart(actorBox)
      /\ actorBox \in Seq(Event) /\ CloseRequest \subseteq Event
  BY Views DEF LifeInv
<1>1. ASSUME NEW e \in Event, e # Start,
             actorBox' = ToActor(e), agentBox' = ToAgent(e), agent # "halted",
             UNCHANGED <<agent, reader, writer, closedAt>>
      PROVE  LifeInv'
  <2>1. /\ StartFirst(actorBox')
        /\ agent # "none" => NoStart(actorBox')
    BY <1>0, <1>1, StartsComeFirst DEF ToActor
  <2>2. reader = "done" => agentBox' = <<>>
    BY <1>1 DEF LifeInv, ToAgent, AgentSubscribed
  <2> QED BY <1>1, <2>1, <2>2 DEF LifeInv
<1>2. ASSUME actorBox # <<>>, actorBox' \in {Tail(actorBox), <<>>},
             UNCHANGED <<agent, agentBox, reader, writer, closedAt>>
      PROVE  LifeInv'
  <2>1. NoStart(actorBox') /\ StartFirst(actorBox')
    BY <1>0, <1>2, StartsGo DEF NoStart, StartFirst
  <2> QED BY <1>2, <2>1 DEF LifeInv
<1>3. CASE Offer
  <2>1. offered + 1 \in Int
    BY Views
  <2>2. Tx(offered + 1) \in Event /\ Tx(offered + 1) # Start
    BY <2>1, Views, NotStart
  <2> QED BY <1>1, <1>3, <2>2 DEF Offer, out
<1>4. ASSUME NEW target \in Target, Request(target) PROVE LifeInv'
  <2>1. Close(target, offered) \in CloseRequest
    BY Kinds DEF TypeOK
  <2> QED BY <1>0, <1>1, <1>4, <2>1, NotStart DEF Request, out
<1>5. CASE ActorLags
  BY <1>2, <1>5 DEF ActorLags, out
<1>6. CASE AgentLags
  BY <1>6 DEF AgentLags, LifeInv, out
<1>7. ASSUME Halt PROVE LifeInv'
  BY <1>7 DEF Halt, LifeInv, StartFirst, NoStart, history
<1>8. CASE StartAgent
  <2>1. NoStart(actorBox') /\ StartFirst(actorBox')
    BY <1>0, <1>8, StartsGo DEF StartAgent, ActorGets, NoStart, StartFirst
  <2>2. agent = "none"
    <3>1. actorBox # <<>> /\ actorBox[1] = Start /\ 1 \in DOMAIN actorBox
      BY <1>0, <1>8 DEF StartAgent, ActorGets
    <3> QED BY <1>0, <3>1 DEF NoStart
  <2> QED
    BY <1>8, <2>1, <2>2 DEF StartAgent, LifeInv, out, history
<1>9. ASSUME NEW p \in 1 .. MaxTx, RecordAirtime(p) PROVE LifeInv'
  BY <1>2, <1>9 DEF RecordAirtime, ActorGets, out, history
<1>10. ASSUME NEW r \in 1 .. MaxRx, Parse(r) PROVE LifeInv'
  BY <1>2, <1>10 DEF Parse, ActorGets, out
<1>11. ASSUME NEW e \in CloseRequest, ActorCloses(e) PROVE LifeInv'
  BY <1>2, <1>11 DEF ActorCloses, ActorGets, out
<1>12. CASE Subscribe
  BY <1>12 DEF Subscribe, LifeInv, bus, out, in, history
<1>13. CASE OpenOk
  BY <1>13 DEF OpenOk, LifeInv, bus, history
<1>14. CASE Finish
  BY <1>14 DEF Finish, LifeInv, bus, out, in, history
<1>15. ASSUME NEW p \in 1 .. MaxTx, ReadTx(p) PROVE LifeInv'
  BY <1>15 DEF ReadTx, CanRead, LifeInv, in, history
<1>16. ASSUME NEW e \in CloseRequest, ReadClose(e) PROVE LifeInv'
  BY <1>16 DEF ReadClose, CanRead, LifeInv, out
<1>17. CASE PassOn
  BY <1>17 DEF PassOn, LifeInv, bus, in, history
<1>18. CASE Deliver
  <2>1. Head(rx) \in Int
    BY <1>18, Views DEF Deliver
  <2>2. Rx(Head(rx)) \in Event /\ Rx(Head(rx)) # Start
    BY <2>1, Views, NotStart
  <2>3. /\ StartFirst(actorBox')
        /\ agent # "none" => NoStart(actorBox')
    BY <1>0, <1>18, <2>2, StartsComeFirst DEF Deliver, ToActor
  <2> QED
    BY <1>18, <2>3 DEF Deliver, CanRead, LifeInv, out
<1>19. CASE Write
  BY <1>19 DEF Write, LifeInv, bus, in
<1>20. CASE WriterEnds \/ TakeCommand \/ Yield
  BY <1>20 DEF WriterEnds, TakeCommand, Yield, LifeInv, bus, out, in, history
<1>21. CASE Hear \/ HearUndecodable \/ LinkEnds
  BY <1>21 DEF Hear, HearUndecodable, LinkEnds, Listening, LifeInv, bus, out, in, history
<1>22. CASE PassIn
  BY <1>22 DEF PassIn, ReaderWaits, LifeInv, bus, out
<1>23. CASE UNCHANGED vars
  BY <1>23 DEF LifeInv, vars, bus, out, in, history
<1> QED
  BY <1>3, <1>4, <1>5, <1>6, <1>7, <1>8, <1>9, <1>10, <1>11, <1>12, <1>13, <1>14,
     <1>15, <1>16, <1>17, <1>18, <1>19, <1>20, <1>21, <1>22, <1>23
  DEF Next, Actor, ReadBus, Exit, OpenFails, HearTorn

\* The channels keep to their capacities, and every queue holds only what its
\* readers know, whatever the order of the tasks' steps.
THEOREM TypeCorrect == Spec => []TypeOK
<1> QED BY InitType, InitLife, TypeStep, LifeStep, PTL DEF Spec

---------------------------------------------------------------------------
(* From the bus to the air.                                                *)

LEMMA Nothing ==
    /\ Range(<<>>) = {} /\ Increasing(<<>>)
    /\ \A T : Nums(<<>>, T) = {}
    /\ \A S, T, d : Ordered(<<>>, S, T, d)
BY DEF Range, Increasing, Nums, Ordered

LEMMA OneOnly ==
    /\ \A x : Range(<<x>>) = {x}
    /\ \A S : \A h \in AtMostOne(S) : h # <<>> => \E x \in S : h = <<x>>
<1>1. ASSUME NEW x PROVE Range(<<x>>) = {x}
  BY DEF Range
<1>2. ASSUME NEW S, NEW h \in AtMostOne(S), h # <<>> PROVE \E x \in S : h = <<x>>
  BY <1>2 DEF AtMostOne
<1> QED BY <1>1, <1>2

LEMMA Members ==
    ASSUME NEW S
    PROVE  /\ \A q \in Seq(S) : Range(q) \subseteq S
           /\ \A h \in AtMostOne(S) : Range(h) \subseteq S
<1>1. ASSUME NEW q \in Seq(S) PROVE Range(q) \subseteq S
  BY DEF Range
<1>2. ASSUME NEW h \in AtMostOne(S) PROVE Range(h) \subseteq S
  <2>1. CASE h = <<>>
    BY <2>1, Nothing
  <2>2. CASE h # <<>>
    <3>1. PICK x \in S : h = <<x>>
      BY <2>2, OneOnly
    <3> QED BY <3>1, OneOnly
  <2> QED BY <2>1, <2>2
<1> QED BY <1>1, <1>2

LEMMA Numbers ==
    /\ \A q \in Seq(Int) : Range(q) \subseteq Int
    /\ \A s \in Seq(Event) : \A T : Nums(s, T) \subseteq Int
<1>1. ASSUME NEW q \in Seq(Int) PROVE Range(q) \subseteq Int
  BY DEF Range
<1>2. ASSUME NEW s \in Seq(Event), NEW T PROVE Nums(s, T) \subseteq Int
  <2>1. \A i \in DOMAIN s : s[i] \in Event
    OBVIOUS
  <2>2. \A e \in Event : e[2] \in Int
    BY DEF Event
  <2> QED BY <2>1, <2>2 DEF Nums
<1> QED BY <1>1, <1>2

LEMMA Tags ==
    /\ \A n : /\ Tx(n)[1] \in TxTag /\ Tx(n)[1] \notin RxTag /\ Tx(n)[1] \notin Target
              /\ Tx(n)[2] = n
              /\ Rx(n)[1] \in RxTag /\ Rx(n)[2] = n
    /\ \A t \in Target : \A n :
        /\ Close(t, n)[1] \in Target /\ Close(t, n)[2] = n
        /\ Close(t, n)[1] \notin TxTag /\ Close(t, n)[1] \notin RxTag
BY DEF Tx, Rx, Close, TxTag, RxTag, Target

LEMMA InitOut == Init => OutInv
<1> SUFFICES ASSUME Init PROVE OutInv
  OBVIOUS
<1>1. /\ air = <<>> /\ commands = <<>> /\ hand = <<>> /\ agentBox = <<>> /\ closedAt = -1
  BY DEF Init
<1> QED BY <1>1, Nothing DEF OutInv, OutStages, Below

LEMMA OutStep == TypeOK /\ LifeInv /\ OutInv /\ [Next]_vars => OutInv'
<1> SUFFICES ASSUME TypeOK, LifeInv, OutInv, [Next]_vars PROVE OutInv'
  OBVIOUS
<1> DEFINE A == Range(air)
           C == Range(commands)
           H == Range(hand)
           B == Nums(agentBox, TxTag)
           K == Nums(agentBox, Target)
<1>0. /\ agentBox \in Seq(Event) /\ air \in Seq(Int) /\ commands \in Seq(Int)
      /\ offered \in Int /\ closedAt \in Int /\ hand \in AtMostOne(1 .. MaxTx)
      /\ OutStages(A, C, H, B, K)
      /\ 0 \in Int /\ 1 \in Int
  BY Views DEF OutInv, TypeOK
<1>1. A \subseteq Int /\ C \subseteq Int /\ H \subseteq Int /\ B \subseteq Int /\ K \subseteq Int
  <2>1. H \subseteq Int
    <3>1. H \subseteq 1 .. MaxTx
      BY <1>0, Members
    <3> QED BY <3>1, BoundAssumption
  <2> QED BY <1>0, <2>1, Numbers
<1> HIDE DEF A, C, H, B, K
\* A packet or a close request reaches the bus.
<1>2. ASSUME NEW e \in Event, agentBox' = ToAgent(e), offered' \in Int, offered <= offered',
             \/ e[1] \in TxTag /\ e[1] \notin Target /\ e[2] = offered + 1 /\ offered' = offered + 1
             \/ e[1] \in Target /\ e[1] \notin TxTag /\ e[2] = offered,
             UNCHANGED <<air, commands, hand, closedAt>>
      PROVE  OutInv'
  <2>1. CASE ~AgentSubscribed
    <3>1. agentBox' = agentBox
      BY <1>2, <2>1 DEF ToAgent
    <3>2. OutStages(A, C, H, B, K)'
      BY <1>0, <1>1, <1>2, <3>1 DEF OutStages, Below, A, B, C, H, K
    <3> QED BY <1>2, <3>1, <3>2 DEF OutInv, A, B, C, H, K
  <2>2. CASE AgentSubscribed
    <3>1. agentBox' = Append(agentBox, e)
      BY <1>2, <2>2 DEF ToAgent
    <3>2. /\ B' \subseteq B \cup {e[2]} /\ K' \subseteq K \cup {e[2]}
          /\ e[1] \notin TxTag => B' \subseteq B
          /\ e[1] \notin Target => K' \subseteq K
      BY <1>0, <3>1, AppendToEvents DEF B, K
    <3>3. OutStages(A, C, H, B, K)'
      <4>1. A' = A /\ C' = C /\ H' = H
        BY <1>2 DEF A, C, H
      <4>2. /\ Below(A, {offered + 1}, 1) /\ Below(C, {offered + 1}, 1)
            /\ Below(H, {offered + 1}, 1)
        BY <1>0, <1>1 DEF OutStages, Below
      <4>3. /\ Below(A', B', 1) /\ Below(C', B', 1) /\ Below(H', B', 1)
        BY <1>0, <1>2, <3>2, <4>1, <4>2 DEF OutStages, Below
      <4>4. /\ Below(A', K', 0) /\ Below(C', K', 0) /\ Below(H', K', 0)
        BY <1>0, <1>2, <3>2, <4>1 DEF OutStages, Below
      <4>5. /\ Below(A', {offered}', 0) /\ Below(C', {offered}', 0)
            /\ Below(H', {offered}', 0) /\ Below(B', {offered}', 0)
        BY <1>0, <1>1, <1>2, <3>2, <4>1 DEF OutStages, Below
      <4> QED BY <1>0, <4>1, <4>3, <4>4, <4>5 DEF OutStages, Below
    <3>4. Ordered(agentBox', TxTag, TxTag, 1) /\ Ordered(agentBox', TxTag, Target, 0)
      <4>1. Below(B, {offered + 1}, 1) /\ Below(B, {offered}, 0)
        BY <1>0, <1>1 DEF OutStages, Below
      <4>2. /\ e[1] \in TxTag => Below(B, {e[2]}, 1)
            /\ e[1] \in Target => Below(B, {e[2]}, 0)
        BY <1>2, <4>1
      <4>3. Ordered(agentBox', TxTag, TxTag, 1)
        <5>1. Ordered(agentBox, TxTag, TxTag, 1)
          BY DEF OutInv
        <5>2. e[1] \in TxTag => Below(Nums(agentBox, TxTag), {e[2]}, 1)
          BY <4>2 DEF B
        <5>3. Ordered(Append(agentBox, e), TxTag, TxTag, 1)
          BY <1>0, <1>2, <5>1, <5>2, AppendToEvents, Zenon
        <5> QED BY <3>1, <5>3
      <4>4. Ordered(agentBox', TxTag, Target, 0)
        <5>1. Ordered(agentBox, TxTag, Target, 0)
          BY DEF OutInv
        <5>2. e[1] \in Target => Below(Nums(agentBox, TxTag), {e[2]}, 0)
          BY <4>2 DEF B
        <5>3. Ordered(Append(agentBox, e), TxTag, Target, 0)
          BY <1>0, <1>2, <5>1, <5>2, AppendToEvents, Zenon
        <5> QED BY <3>1, <5>3
      <4> QED BY <4>3, <4>4
    <3> QED BY <1>2, <3>3, <3>4 DEF OutInv, A, B, C, H, K
  <2> QED BY <2>1, <2>2
<1>3. CASE Offer
  <2>1. Tx(offered + 1) \in Event
    BY <1>0, Views
  <2> QED BY <1>0, <1>2, <1>3, <2>1, Tags DEF Offer, out
<1>4. ASSUME NEW target \in Target, Request(target) PROVE OutInv'
  <2>1. Close(target, offered) \in Event
    BY Kinds, Views DEF TypeOK
  <2> QED BY <1>0, <1>2, <1>4, <2>1, Tags DEF Request, out
<1>5. CASE AgentLags
  <2>1. /\ B' \subseteq B /\ K' \subseteq K
        /\ Ordered(agentBox', TxTag, TxTag, 1) /\ Ordered(agentBox', TxTag, Target, 0)
    <3>1. agentBox # <<>> /\ agentBox' = Tail(agentBox)
      BY <1>5 DEF AgentLags
    <3>2. Ordered(agentBox, TxTag, TxTag, 1) /\ Ordered(agentBox, TxTag, Target, 0)
      BY DEF OutInv
    <3>3. /\ Nums(Tail(agentBox), TxTag) \subseteq Nums(agentBox, TxTag)
          /\ Ordered(Tail(agentBox), TxTag, TxTag, 1)
      BY <1>0, <3>1, <3>2, TailOfEvents, Zenon
    <3>4. /\ Nums(Tail(agentBox), Target) \subseteq Nums(agentBox, Target)
          /\ Ordered(Tail(agentBox), TxTag, Target, 0)
      BY <1>0, <3>1, <3>2, TailOfEvents, Zenon
    <3> QED BY <3>1, <3>3, <3>4 DEF B, K
  <2>2. UNCHANGED <<air, commands, hand, offered, closedAt>>
    BY <1>5 DEF AgentLags, out
  <2>3. OutStages(A, C, H, B, K)'
    BY <1>0, <2>1, <2>2 DEF OutStages, Below, A, C, H
  <2> QED BY <2>1, <2>2, <2>3 DEF OutInv, A, B, C, H, K
<1>6. ASSUME Halt PROVE OutInv'
  <2>1. /\ commands' = <<>> /\ hand' = <<>> /\ agentBox' = <<>>
        /\ UNCHANGED <<air, offered, closedAt>>
    BY <1>6 DEF Halt, history
  <2>2. OutStages(A, C, H, B, K)'
    BY <1>0, <2>1, Nothing DEF OutStages, Below, A, B, C, H, K
  <2> QED BY <2>1, <2>2, Nothing DEF OutInv, Below, A, B, C, H, K
<1>7. ASSUME NEW p \in 1 .. MaxTx, ReadTx(p) PROVE OutInv'
  <2>1. /\ agentBox # <<>> /\ Head(agentBox) = Tx(p) /\ agentBox' = Tail(agentBox)
        /\ hand = <<>> /\ hand' = <<p>>
        /\ UNCHANGED <<air, commands, offered, closedAt>>
    BY <1>7 DEF ReadTx, CanRead, history
  <2>2. /\ Ordered(agentBox, TxTag, TxTag, 1) /\ Ordered(agentBox, TxTag, Target, 0)
        /\ Tx(p)[1] \in TxTag /\ Tx(p)[2] = p
    BY Tags DEF OutInv
  <2>3. /\ B' \subseteq B /\ K' \subseteq K /\ p \in B
        /\ Ordered(agentBox', TxTag, TxTag, 1) /\ Ordered(agentBox', TxTag, Target, 0)
        /\ Below({p}, B', 1) /\ Below({p}, K', 0)
    <3>1. Head(agentBox)[1] \in TxTag /\ Head(agentBox)[2] = p
      BY <2>1, <2>2
    <3>2. /\ Nums(Tail(agentBox), TxTag) \subseteq Nums(agentBox, TxTag)
          /\ Head(agentBox)[2] \in Nums(agentBox, TxTag)
          /\ Ordered(Tail(agentBox), TxTag, TxTag, 1)
          /\ Below({Head(agentBox)[2]}, Nums(Tail(agentBox), TxTag), 1)
      BY <1>0, <2>1, <2>2, <3>1, TailOfEvents, Zenon
    <3>3. /\ Nums(Tail(agentBox), Target) \subseteq Nums(agentBox, Target)
          /\ Ordered(Tail(agentBox), TxTag, Target, 0)
          /\ Below({Head(agentBox)[2]}, Nums(Tail(agentBox), Target), 0)
      BY <1>0, <2>1, <2>2, <3>1, TailOfEvents, Zenon
    <3> QED BY <2>1, <3>1, <3>2, <3>3 DEF B, K
  <2>4. H' = {p} /\ A' = A /\ C' = C
    BY <2>1, OneOnly DEF A, C, H
  <2>5. OutStages(A, C, H, B, K)'
    BY <1>0, <2>1, <2>3, <2>4 DEF OutStages, Below
  <2>6. closedAt' = -1
    BY <1>7, <2>1 DEF ReadTx, CanRead, LifeInv
  <2> QED BY <2>1, <2>3, <2>5, <2>6 DEF OutInv, A, B, C, H, K
<1>8. ASSUME NEW e \in CloseRequest, ReadClose(e) PROVE OutInv'
  <2>1. /\ agentBox # <<>> /\ Head(agentBox) = e /\ agentBox' = <<>>
        /\ closedAt' = e[2] /\ UNCHANGED <<air, commands, hand, offered>>
    BY <1>8 DEF ReadClose, out
  <2>2. e[2] \in K
    BY <1>0, <2>1, Kinds, TailOfEvents DEF K
  <2>3. /\ Below(A, {closedAt'}, 0) /\ Below(C, {closedAt'}, 0) /\ Below(H, {closedAt'}, 0)
    BY <1>0, <2>1, <2>2 DEF OutStages, Below
  <2>4. OutStages(A, C, H, B, K)'
    BY <1>0, <2>1, Nothing DEF OutStages, Below, A, B, C, H, K
  <2> QED BY <2>1, <2>3, <2>4, Nothing DEF OutInv, A, B, C, H, K
<1>9. CASE PassOn
  <2>1. PICK h \in 1 .. MaxTx : hand = <<h>>
    BY <1>0, <1>9, OneOnly DEF PassOn
  <2>2. /\ commands' = Append(commands, h) /\ hand' = <<>> /\ h \in Int /\ H = {h}
        /\ UNCHANGED <<air, agentBox, offered, closedAt>>
    BY <1>0, <1>9, <2>1, OneOnly, AppendToNumbers DEF PassOn, H, bus, history
  <2>3. /\ A' = A /\ B' = B /\ K' = K /\ H' = {}
    BY <2>2, Nothing DEF A, B, K, H
  <2>4. C' = C \cup H /\ Increasing(commands')
    <3>1. Below(Range(commands), {h}, 1) /\ Increasing(commands)
      BY <1>0, <2>2 DEF OutInv, OutStages, C
    <3> QED BY <1>0, <2>2, <3>1, AppendToNumbers DEF C
  <2>5. OutStages(A, C, H, B, K)'
    BY <1>0, <2>2, <2>3, <2>4 DEF OutStages, Below
  <2>6. closedAt' # -1 => /\ Below(A', {closedAt'}, 0) /\ Below(C', {closedAt'}, 0)
                          /\ Below(H', {closedAt'}, 0)
    BY <2>2, <2>3, <2>4 DEF OutInv, Below, A, C, H
  <2> QED BY <2>2, <2>4, <2>5, <2>6 DEF OutInv, A, B, C, H, K
<1>10. CASE Write
  <2> DEFINE h == Head(commands)
  <2>1. /\ commands # <<>> /\ commands' = Tail(commands)
        /\ air' = Append(air, h) \/ air' = air
        /\ UNCHANGED <<hand, agentBox, offered, closedAt>>
    BY <1>10 DEF Write, bus
  <2>2. /\ h \in Int /\ C = {h} \cup C' /\ Increasing(commands')
        /\ Below({h}, C', 1)
    BY <1>0, <2>1, TailOfNumbers DEF OutInv, C
  <2> HIDE DEF h
  <2>3. A' \subseteq A \cup {h} /\ Increasing(air')
    <3>1. Below(Range(air), {h}, 1) /\ Increasing(air)
      BY <1>0, <2>2 DEF OutInv, OutStages, Below, A
    <3> QED BY <1>0, <2>1, <2>2, <3>1, AppendToNumbers DEF A
  <2>4. /\ H' = H /\ B' = B /\ K' = K
    BY <2>1 DEF H, B, K
  <2>5. OutStages(A, C, H, B, K)'
    BY <1>0, <2>1, <2>2, <2>3, <2>4 DEF OutStages, Below
  <2>6. closedAt' # -1 => /\ Below(A', {closedAt'}, 0) /\ Below(C', {closedAt'}, 0)
                          /\ Below(H', {closedAt'}, 0)
    <3>1. closedAt # -1 => /\ Below(A, {closedAt}, 0) /\ Below(C, {closedAt}, 0)
                           /\ Below(H, {closedAt}, 0)
      BY DEF OutInv, A, C, H
    <3> QED BY <2>1, <2>2, <2>3, <2>4, <3>1 DEF Below
  <2> QED BY <2>1, <2>2, <2>3, <2>5, <2>6 DEF OutInv, A, B, C, H, K
<1>11. ASSUME UNCHANGED <<air, commands, hand, agentBox, offered, closedAt>>
       PROVE  OutInv'
  BY <1>11 DEF OutInv, OutStages
<1>12. CASE \/ ActorLags \/ StartAgent
            \/ (\E p \in 1 .. MaxTx : RecordAirtime(p)) \/ (\E r \in 1 .. MaxRx : Parse(r))
            \/ (\E e \in CloseRequest : ActorCloses(e))
  BY <1>11, <1>12
  DEF ActorLags, StartAgent, RecordAirtime, Parse, ActorCloses, out, history
<1>13. CASE \/ Subscribe \/ OpenOk \/ Finish \/ Deliver \/ WriterEnds
            \/ TakeCommand \/ Yield \/ Hear \/ HearUndecodable \/ PassIn \/ LinkEnds \/ UNCHANGED vars
  BY <1>11, <1>13
  DEF Subscribe, OpenOk, Finish, Deliver, WriterEnds, Hear, HearUndecodable, PassIn,
      TakeCommand, Yield, LinkEnds, vars, bus, out, history
<1> QED
  BY <1>3, <1>4, <1>5, <1>6, <1>7, <1>8, <1>9, <1>10, <1>12, <1>13
  DEF Next, Actor, ReadBus, Exit, OpenFails, HearTorn

---------------------------------------------------------------------------
(* From the link to the bus.                                               *)

LEMMA InitIn == Init => InInv
<1> SUFFICES ASSUME Init PROVE InInv
  OBVIOUS
<1>1. /\ parsed = <<>> /\ rx = <<>> /\ linkHand = <<>> /\ actorBox = <<Start>>
  BY DEF Init
<1>2. Nums(actorBox, RxTag) = {} /\ Ordered(actorBox, RxTag, RxTag, 1)
  <2>1. DOMAIN actorBox = {1} /\ actorBox[1] = Start
    BY <1>1
  <2>2. Start[1] \notin RxTag
    BY DEF Start, RxTag
  <2> QED BY <2>1, <2>2 DEF Nums, Ordered
<1> QED BY <1>1, <1>2, Nothing DEF InInv, InStages, Below

LEMMA InStep == TypeOK /\ InInv /\ [Next]_vars => InInv'
<1> SUFFICES ASSUME TypeOK, InInv, [Next]_vars PROVE InInv'
  OBVIOUS
<1> DEFINE P == Range(parsed)
           B == Nums(actorBox, RxTag)
           R == Range(rx)
           L == Range(linkHand)
<1>0. /\ actorBox \in Seq(Event) /\ parsed \in Seq(Int) /\ rx \in Seq(Int)
      /\ heard \in Int /\ linkHand \in AtMostOne(1 .. MaxRx)
      /\ Increasing(parsed) /\ Increasing(rx)
      /\ Ordered(actorBox, RxTag, RxTag, 1)
      /\ InStages(P, B, R, L)
      /\ 0 \in Int /\ 1 \in Int
  BY Views DEF InInv, TypeOK
<1>1. P \subseteq Int /\ B \subseteq Int /\ R \subseteq Int /\ L \subseteq Int
  <2>1. L \subseteq Int
    <3>1. L \subseteq 1 .. MaxRx
      BY <1>0, Members
    <3> QED BY <3>1, BoundAssumption
  <2> QED BY <1>0, <2>1, Numbers
<1> HIDE DEF P, B, R, L
\* An event that is no reception reaches the actor.
<1>2. ASSUME NEW e \in Event, e[1] \notin RxTag, actorBox' = ToActor(e),
             UNCHANGED <<parsed, rx, linkHand, heard>>
      PROVE  InInv'
  <2>1. B' \subseteq B /\ Ordered(actorBox', RxTag, RxTag, 1)
    <3>1. /\ Nums(Append(actorBox, e), RxTag) \subseteq Nums(actorBox, RxTag)
          /\ Ordered(Append(actorBox, e), RxTag, RxTag, 1)
      BY <1>0, <1>2, AppendToEvents, Zenon
    <3> QED BY <1>0, <1>2, <3>1 DEF ToActor, B
  <2>2. InStages(P, B, R, L)'
    BY <1>0, <1>2, <2>1 DEF InStages, Below, P, R, L
  <2> QED BY <1>0, <1>2, <2>1, <2>2 DEF InInv, P, B, R, L
\* The actor takes an event, or all of them, from its backlog.
<1>3. ASSUME actorBox # <<>>, actorBox' \in {Tail(actorBox), <<>>}
      PROVE  B' \subseteq B /\ Ordered(actorBox', RxTag, RxTag, 1)
  <2>1. CASE actorBox' = <<>>
    BY <2>1, Nothing DEF B
  <2>2. CASE actorBox' = Tail(actorBox)
    <3>1. /\ Nums(Tail(actorBox), RxTag) \subseteq Nums(actorBox, RxTag)
          /\ Ordered(Tail(actorBox), RxTag, RxTag, 1)
      BY <1>0, <1>3, TailOfEvents, Zenon
    <3> QED BY <2>2, <3>1 DEF B
  <2> QED BY <1>3, <2>1, <2>2
<1>4. ASSUME actorBox # <<>>, actorBox' \in {Tail(actorBox), <<>>},
             UNCHANGED <<parsed, rx, linkHand, heard>>
      PROVE  InInv'
  <2>1. B' \subseteq B /\ Ordered(actorBox', RxTag, RxTag, 1)
    BY <1>3, <1>4
  <2>2. InStages(P, B, R, L)'
    BY <1>0, <1>4, <2>1 DEF InStages, Below, P, R, L
  <2> QED BY <1>0, <1>4, <2>1, <2>2 DEF InInv, P, B, R, L
<1>5. CASE Offer
  <2>1. Tx(offered + 1) \in Event /\ Tx(offered + 1)[1] \notin RxTag
    BY Views, Tags
  <2> QED BY <1>2, <1>5, <2>1 DEF Offer, actorVars, in
<1>6. ASSUME NEW target \in Target, Request(target) PROVE InInv'
  <2>1. Close(target, offered) \in Event /\ Close(target, offered)[1] \notin RxTag
    BY Kinds, Views, Tags DEF TypeOK
  <2> QED BY <1>2, <1>6, <2>1 DEF Request, actorVars, in
<1>7. CASE \/ ActorLags \/ StartAgent
           \/ (\E p \in 1 .. MaxTx : RecordAirtime(p))
           \/ (\E e \in CloseRequest : ActorCloses(e))
  BY <1>4, <1>7
  DEF ActorLags, StartAgent, RecordAirtime, ActorCloses, ActorGets, actorVars, in, history
<1>8. ASSUME Halt PROVE InInv'
  <2>1. /\ actorBox' = <<>> /\ linkHand' = <<>> /\ rx' = <<>>
        /\ UNCHANGED <<parsed, heard>>
    BY <1>8 DEF Halt, history
  <2>2. InStages(P, B, R, L)'
    BY <1>0, <2>1, Nothing DEF InStages, Below, P, B, R, L
  <2> QED BY <1>0, <2>1, <2>2, Nothing DEF InInv, P, B, R, L
<1>9. ASSUME NEW r \in 1 .. MaxRx, Parse(r) PROVE InInv'
  <2>1. /\ actorBox # <<>> /\ Head(actorBox) = Rx(r) /\ actorBox' = Tail(actorBox)
        /\ parsed' = Append(parsed, r) \/ parsed' = parsed
        /\ UNCHANGED <<rx, linkHand, heard>> /\ r \in Int
    BY <1>9 DEF Parse, ActorGets, in
  <2>2. /\ B' \subseteq B /\ Ordered(actorBox', RxTag, RxTag, 1)
        /\ r \in B /\ Below({r}, B', 1)
    <3>1. Head(actorBox)[1] \in RxTag /\ Head(actorBox)[2] = r
      BY <2>1, Tags
    <3>2. /\ Nums(Tail(actorBox), RxTag) \subseteq Nums(actorBox, RxTag)
          /\ Head(actorBox)[2] \in Nums(actorBox, RxTag)
          /\ Ordered(Tail(actorBox), RxTag, RxTag, 1)
          /\ Below({Head(actorBox)[2]}, Nums(Tail(actorBox), RxTag), 1)
      BY <1>0, <2>1, <3>1, TailOfEvents, Zenon
    <3> QED BY <2>1, <3>1, <3>2 DEF B
  <2>3. P' \subseteq P \cup {r} /\ Increasing(parsed')
    <3>1. Below(Range(parsed), {r}, 1)
      BY <1>0, <2>2 DEF InStages, Below, P
    <3> QED BY <1>0, <2>1, <3>1, AppendToNumbers DEF P
  <2>4. R' = R /\ L' = L
    BY <2>1 DEF R, L
  <2>5. InStages(P, B, R, L)'
    BY <1>0, <2>1, <2>2, <2>3, <2>4 DEF InStages, Below
  <2> QED BY <1>0, <2>1, <2>2, <2>3, <2>5 DEF InInv, P, B, R, L
<1>10. ASSUME NEW e \in CloseRequest, ReadClose(e) PROVE InInv'
  <2>1. rx' = <<>> /\ UNCHANGED <<actorBox, parsed, linkHand, heard>>
    BY <1>10 DEF ReadClose, actorVars
  <2>2. InStages(P, B, R, L)'
    BY <1>0, <2>1, Nothing DEF InStages, Below, P, B, R, L
  <2> QED BY <1>0, <2>1, <2>2, Nothing DEF InInv, P, B, R, L
<1>11. CASE Deliver
  <2> DEFINE r == Head(rx)
  <2>1. /\ rx # <<>> /\ rx' = Tail(rx) /\ actorBox' = ToActor(Rx(r))
        /\ UNCHANGED <<parsed, linkHand, heard>>
    BY <1>11 DEF Deliver, actorVars
  <2>2. /\ r \in Int /\ R = {r} \cup R' /\ Increasing(rx')
        /\ Below({r}, R', 1)
    BY <1>0, <2>1, TailOfNumbers DEF R
  <2> HIDE DEF r
  <2>3. B' \subseteq B \cup {r} /\ Ordered(actorBox', RxTag, RxTag, 1)
    <3>1. Rx(r) \in Event /\ Rx(r)[1] \in RxTag /\ Rx(r)[2] = r
      BY <2>2, Views, Tags
    <3>2. Rx(r)[1] \in RxTag => Below(Nums(actorBox, RxTag), {Rx(r)[2]}, 1)
      BY <1>0, <2>2, <3>1 DEF InStages, Below, B
    <3>3. /\ Nums(Append(actorBox, Rx(r)), RxTag)
                \subseteq Nums(actorBox, RxTag) \cup {Rx(r)[2]}
          /\ Ordered(Append(actorBox, Rx(r)), RxTag, RxTag, 1)
      BY <1>0, <3>1, <3>2, AppendToEvents, Zenon
    <3> QED BY <1>0, <2>1, <3>1, <3>3 DEF ToActor, B
  <2>4. P' = P /\ L' = L
    BY <2>1 DEF P, L
  <2>5. InStages(P, B, R, L)'
    BY <1>0, <2>1, <2>2, <2>3, <2>4 DEF InStages, Below
  <2> QED BY <1>0, <2>1, <2>2, <2>3, <2>5 DEF InInv, P, B, R, L
<1>12. CASE Hear
  <2>1. /\ linkHand' = <<heard + 1>> /\ heard' = heard + 1
        /\ UNCHANGED <<actorBox, parsed, rx>>
    BY <1>12 DEF Hear, bus, actorVars
  <2>2. L' = {heard + 1} /\ P' = P /\ B' = B /\ R' = R
    BY <2>1, OneOnly DEF L, P, B, R
  <2>3. InStages(P, B, R, L)'
    BY <1>0, <1>1, <2>1, <2>2 DEF InStages, Below
  <2> QED BY <1>0, <2>1, <2>3 DEF InInv, P, B, R, L
<1>13. CASE HearUndecodable
  <2>1. heard' = heard + 1 /\ UNCHANGED <<actorBox, parsed, rx, linkHand>>
    BY <1>13 DEF HearUndecodable, bus, actorVars, in
  <2>2. InStages(P, B, R, L)'
    BY <1>0, <1>1, <2>1 DEF InStages, Below, P, B, R, L
  <2> QED BY <1>0, <2>1, <2>2 DEF InInv, P, B, R, L
<1>14. CASE PassIn
  <2>1. PICK r \in 1 .. MaxRx : linkHand = <<r>>
    BY <1>0, <1>14, OneOnly DEF PassIn
  <2>2. /\ linkHand' = <<>> /\ (rx' = rx \/ rx' = rx \o <<r>>)
        /\ UNCHANGED <<actorBox, parsed, heard>> /\ r \in Int /\ L = {r}
    BY <1>14, <2>1, OneOnly DEF PassIn, L, bus, actorVars
  <2>3. R' \subseteq R \cup L /\ Increasing(rx')
    <3>1. Below(Range(rx), {r}, 1)
      BY <1>0, <2>2 DEF InStages, R
    <3>2. /\ rx \o <<r>> = Append(rx, r) /\ Range(Append(rx, r)) = Range(rx) \cup {r}
          /\ Increasing(Append(rx, r))
      BY <1>0, <2>2, <3>1, AppendToNumbers
    <3> QED BY <1>0, <2>2, <3>2 DEF R
  <2>4. L' = {} /\ P' = P /\ B' = B
    BY <2>2, Nothing DEF L, P, B
  <2>5. InStages(P, B, R, L)'
    BY <1>0, <2>2, <2>3, <2>4 DEF InStages, Below
  <2> QED BY <1>0, <2>2, <2>3, <2>5 DEF InInv, P, B, R, L
<1>15. ASSUME UNCHANGED <<actorBox, parsed, rx, linkHand, heard>>
       PROVE  InInv'
  BY <1>15 DEF InInv, InStages
<1>16. CASE \/ AgentLags \/ Subscribe \/ OpenOk \/ Finish
            \/ (\E p \in 1 .. MaxTx : ReadTx(p)) \/ PassOn
            \/ TakeCommand \/ Write \/ WriterEnds \/ Yield \/ LinkEnds \/ UNCHANGED vars
  BY <1>15, <1>16
  DEF AgentLags, Subscribe, OpenOk, Finish, ReadTx, PassOn, Write, WriterEnds, LinkEnds,
      TakeCommand, Yield, vars, bus, out, in, actorVars, history
<1> QED
  BY <1>5, <1>6, <1>7, <1>8, <1>9, <1>10, <1>11, <1>12, <1>13, <1>14, <1>16
  DEF Next, Actor, ReadBus, Exit, OpenFails, HearTorn

---------------------------------------------------------------------------
(* Nothing vanishes.                                                       *)

OutKept == \A p \in 1 .. offered : Outbound(p) \/ p \in Range(air) \/ Tx(p) \in lost
InKept == \A r \in 1 .. heard : Inbound(r) \/ r \in Range(parsed) \/ Rx(r) \in lost

LEMMA RangeOfTail ==
    ASSUME NEW S, NEW q \in Seq(S), q # <<>>
    PROVE  Range(q) = {Head(q)} \cup Range(Tail(q))
<1>1. /\ Len(q) \in Nat \ {0} /\ Head(q) = q[1]
      /\ DOMAIN q = 1 .. Len(q) /\ 1 \in DOMAIN q
      /\ DOMAIN Tail(q) = 1 .. Len(q) - 1
      /\ \A i \in 1 .. Len(q) - 1 : Tail(q)[i] = q[i + 1]
  OBVIOUS
<1>2. ASSUME NEW i \in DOMAIN q, i # 1 PROVE q[i] \in Range(Tail(q))
  <2>1. i - 1 \in DOMAIN Tail(q) /\ q[i] = Tail(q)[i - 1]
    BY <1>1, <1>2
  <2> QED BY <2>1 DEF Range
<1>3. ASSUME NEW i \in DOMAIN Tail(q) PROVE Tail(q)[i] \in Range(q)
  <2>1. i + 1 \in DOMAIN q /\ Tail(q)[i] = q[i + 1]
    BY <1>1
  <2> QED BY <2>1 DEF Range
<1> QED BY <1>1, <1>2, <1>3 DEF Range

LEMMA RangeOfAppend ==
    ASSUME NEW S, NEW q \in Seq(S), NEW e
    PROVE  Range(Append(q, e)) = Range(q) \cup {e}
<1>1. /\ DOMAIN q = 1 .. Len(q) /\ Len(q) \in Nat
      /\ DOMAIN Append(q, e) = 1 .. (Len(q) + 1)
      /\ Append(q, e)[Len(q) + 1] = e
      /\ \A i \in 1 .. Len(q) : Append(q, e)[i] = q[i]
  OBVIOUS
<1> QED BY <1>1 DEF Range

LEMMA Distinct ==
    \A r : Rx(r) # Start /\ Rx(r) \notin CloseRequest /\ \A p : Rx(r) # Tx(p)
BY DEF Rx, Tx, Start, CloseRequest, Target

LEMMA DistinctTx ==
    \A p : Tx(p) \notin CloseRequest /\ \A n : Tx(p) = Tx(n) => p = n
BY DEF Tx, CloseRequest, Target

LEMMA PacketsOf ==
    /\ \A p \in 1 .. MaxTx : \A s : Tx(p) \in Range(s) => Tx(p) \in Packets(s)
    /\ \A r \in 1 .. MaxRx : \A s : Rx(r) \in Range(s) => Rx(r) \in Packets(s) \cap Reception
    /\ \A e : Range(<<e>>) = {e}
BY Kinds, OneOnly DEF Packets

LEMMA OutKeptStep ==
    ASSUME TypeOK, OutKept, [Next]_vars, agent' # "halted"
    PROVE  OutKept'
<1>0. /\ agentBox \in Seq(Event) /\ commands \in Seq(Int) /\ air \in Seq(Int)
      /\ hand \in AtMostOne(1 .. MaxTx) /\ offered \in 0 .. MaxTx
      /\ \A p \in 1 .. offered : p \in 1 .. MaxTx
  BY Views, BoundAssumption DEF TypeOK
<1>1. ASSUME offered' = offered, lost \subseteq lost', Range(air) \subseteq Range(air'),
             \A p \in 1 .. offered : Tx(p) \in Range(agentBox) =>
                Tx(p) \in Range(agentBox') \cup lost' \/ p \in Range(hand'),
             \A p \in 1 .. offered : p \in Range(hand) \cup Range(commands) =>
                \/ p \in Range(hand') \cup Range(commands') \cup Range(air')
                \/ Tx(p) \in lost'
      PROVE  OutKept'
  BY <1>1 DEF OutKept, Outbound
<1>2. ASSUME lost \subseteq lost', UNCHANGED <<offered, air, hand, commands, agentBox>>
      PROVE  OutKept'
  BY <1>2 DEF OutKept, Outbound
<1>3. CASE Offer
  <2>1. /\ offered' = offered + 1 /\ agentBox' = ToAgent(Tx(offered + 1))
        /\ lost' = (IF AgentSubscribed THEN lost ELSE lost \cup {Tx(offered + 1)})
        /\ UNCHANGED <<air, hand, commands>>
    BY <1>3 DEF Offer, out
  <2>2. Range(agentBox) \subseteq Range(agentBox')
        /\ (Tx(offered + 1) \in Range(agentBox') \/ Tx(offered + 1) \in lost')
    BY <1>0, <2>1, RangeOfAppend DEF ToAgent
  <2>3. ASSUME NEW p \in 1 .. offered', p \notin 1 .. offered PROVE p = offered + 1
    BY <1>0, <2>1, <2>3
  <2> QED BY <2>1, <2>2, <2>3 DEF OutKept, Outbound
<1>4. ASSUME NEW target \in Target, Request(target) PROVE OutKept'
  <2>1. Range(agentBox) \subseteq Range(agentBox')
    BY <1>0, <1>4, RangeOfAppend DEF Request, ToAgent
  <2> QED BY <1>1, <1>4, <2>1 DEF Request, out
<1>5. CASE AgentLags
  <2>1. /\ agentBox # <<>> /\ agentBox' = Tail(agentBox)
        /\ lost' = lost \cup Packets(<<Head(agentBox)>>)
        /\ UNCHANGED <<offered, air, hand, commands>>
    BY <1>5 DEF AgentLags, out
  <2>2. Range(agentBox) = {Head(agentBox)} \cup Range(agentBox')
    BY <1>0, <2>1, RangeOfTail
  <2>3. ASSUME NEW p \in 1 .. offered, Tx(p) \in Range(agentBox)
        PROVE  Tx(p) \in Range(agentBox') \cup lost'
    BY <1>0, <2>1, <2>2, <2>3, PacketsOf
  <2> QED BY <1>1, <2>1, <2>3
<1>6. ASSUME NEW n \in 1 .. MaxTx, ReadTx(n) PROVE OutKept'
  <2>1. /\ agentBox # <<>> /\ agentBox' = Tail(agentBox) /\ Head(agentBox) = Tx(n)
        /\ hand = <<>> /\ hand' = <<n>> /\ UNCHANGED <<offered, air, lost, commands>>
    BY <1>6 DEF ReadTx, CanRead, history
  <2>2. Range(agentBox) = {Tx(n)} \cup Range(agentBox')
    BY <1>0, <2>1, RangeOfTail
  <2>3. Range(hand) = {} /\ Range(hand') = {n}
    BY <2>1, Nothing, OneOnly
  <2> QED BY <1>1, <2>1, <2>2, <2>3, DistinctTx
<1>7. ASSUME NEW e \in CloseRequest, ReadClose(e) PROVE OutKept'
  <2>1. /\ lost \cup Packets(agentBox) \subseteq lost'
        /\ UNCHANGED <<offered, air, hand, commands>>
    BY <1>7 DEF ReadClose, out
  <2> QED BY <1>0, <1>1, <2>1, PacketsOf
<1>8. CASE PassOn
  <2>1. PICK h \in 1 .. MaxTx : hand = <<h>>
    BY <1>0, <1>8, OneOnly DEF PassOn
  <2>2. /\ commands' = Append(commands, h) /\ Range(hand) = {h}
        /\ UNCHANGED <<offered, air, lost, agentBox>>
    BY <1>0, <1>8, <2>1, OneOnly, AppendToNumbers DEF PassOn, bus, history
  <2>3. Range(commands') = Range(commands) \cup {h}
    BY <1>0, <2>2, RangeOfAppend
  <2> QED BY <1>1, <2>2, <2>3
<1>9. CASE Write
  <2>1. /\ commands # <<>> /\ commands' = Tail(commands)
        /\ \/ air' = Append(air, Head(commands)) /\ lost' = lost
           \/ lost' = lost \cup {Tx(Head(commands))} /\ air' = air
        /\ UNCHANGED <<offered, hand, agentBox>>
    BY <1>9 DEF Write, bus
  <2>2. Range(commands) = {Head(commands)} \cup Range(commands')
    BY <1>0, <2>1, RangeOfTail
  <2>3. Range(Append(air, Head(commands))) = Range(air) \cup {Head(commands)}
    BY <1>0, RangeOfAppend
  <2> QED BY <1>1, <2>1, <2>2, <2>3
<1>10. CASE \/ ActorLags \/ Hear \/ HearUndecodable \/ PassIn \/ Deliver \/ WriterEnds
            \/ TakeCommand \/ Yield
  BY <1>2, <1>10
  DEF ActorLags, Hear, HearUndecodable, PassIn, Deliver, WriterEnds, TakeCommand, Yield, out, bus, history
<1>11. CASE \/ StartAgent
            \/ (\E p \in 1 .. MaxTx : RecordAirtime(p)) \/ (\E r \in 1 .. MaxRx : Parse(r))
            \/ (\E e \in CloseRequest : ActorCloses(e))
  BY <1>2, <1>11 DEF StartAgent, RecordAirtime, Parse, ActorCloses, out, history
<1>12. CASE \/ Subscribe \/ OpenOk \/ Finish \/ LinkEnds \/ UNCHANGED vars
  BY <1>2, <1>12 DEF Subscribe, OpenOk, Finish, LinkEnds, vars, bus, out, history
<1> QED
  BY <1>3, <1>4, <1>5, <1>6, <1>7, <1>8, <1>9, <1>10, <1>11, <1>12
  DEF Next, Actor, ReadBus, Exit, OpenFails, HearTorn, Halt

LEMMA InKeptStep ==
    ASSUME TypeOK, InKept, [Next]_vars, agent' # "halted"
    PROVE  InKept'
<1>0. /\ actorBox \in Seq(Event) /\ rx \in Seq(Int) /\ parsed \in Seq(Int)
      /\ linkHand \in AtMostOne(1 .. MaxRx) /\ heard \in 0 .. MaxRx
      /\ \A r \in 1 .. heard : r \in 1 .. MaxRx
  BY Views, BoundAssumption DEF TypeOK
<1>1. ASSUME heard' = heard, lost \subseteq lost', Range(parsed) \subseteq Range(parsed'),
             \A r \in 1 .. heard : r \in Range(linkHand) \cup Range(rx) =>
                \/ r \in Range(linkHand') \cup Range(rx')
                \/ Rx(r) \in Range(actorBox') \cup lost',
             \A r \in 1 .. heard : Rx(r) \in Range(actorBox) =>
                Rx(r) \in Range(actorBox') \cup lost' \/ r \in Range(parsed')
      PROVE  InKept'
  BY <1>1 DEF InKept, Inbound
<1>2. ASSUME lost \subseteq lost', UNCHANGED <<heard, parsed, linkHand, rx, actorBox>>
      PROVE  InKept'
  BY <1>2 DEF InKept, Inbound
\* An event reaches the actor, or it takes one that is no reception.
<1>3. ASSUME NEW e, actorBox' = ToActor(e), lost \subseteq lost',
             UNCHANGED <<heard, parsed, linkHand, rx>>
      PROVE  InKept'
  <2>1. Range(actorBox) \subseteq Range(actorBox')
    BY <1>0, <1>3, RangeOfAppend DEF ToActor
  <2> QED BY <1>1, <1>3, <2>1
<1>4. ASSUME actorBox # <<>>, actorBox' = Tail(actorBox), lost \subseteq lost',
             \A r \in 1 .. heard : Rx(r) = Head(actorBox) => Rx(r) \in lost',
             UNCHANGED <<heard, parsed, linkHand, rx>>
      PROVE  InKept'
  <2>1. Range(actorBox) = {Head(actorBox)} \cup Range(actorBox')
    BY <1>0, <1>4, RangeOfTail
  <2> QED BY <1>1, <1>4, <2>1
<1>5. CASE Offer
  BY <1>3, <1>5 DEF Offer, in, actorVars
<1>6. ASSUME NEW target \in Target, Request(target) PROVE InKept'
  BY <1>3, <1>6 DEF Request, in, actorVars
<1>7. CASE ActorLags
  <2>1. /\ actorBox # <<>> /\ actorBox' = Tail(actorBox)
        /\ lost' = lost \cup (Packets(<<Head(actorBox)>>) \cap Reception)
        /\ UNCHANGED <<heard, parsed, linkHand, rx>>
    BY <1>7 DEF ActorLags, in, actorVars
  <2>2. ASSUME NEW r \in 1 .. heard, Rx(r) = Head(actorBox) PROVE Rx(r) \in lost'
    BY <1>0, <2>1, <2>2, PacketsOf
  <2> QED BY <1>4, <2>1, <2>2
<1>8. CASE StartAgent
  <2>1. /\ actorBox # <<>> /\ actorBox' = Tail(actorBox) /\ Head(actorBox) = Start
        /\ UNCHANGED <<lost, heard, parsed, linkHand, rx>>
    BY <1>8 DEF StartAgent, ActorGets, in, actorVars, history
  <2> QED BY <1>4, <2>1, Distinct
<1>9. ASSUME NEW p \in 1 .. MaxTx, RecordAirtime(p) PROVE InKept'
  <2>1. /\ actorBox # <<>> /\ actorBox' = Tail(actorBox) /\ Head(actorBox) = Tx(p)
        /\ UNCHANGED <<lost, heard, parsed, linkHand, rx>>
    BY <1>9 DEF RecordAirtime, ActorGets, in, history
  <2> QED BY <1>4, <2>1, Distinct
<1>10. ASSUME NEW n \in 1 .. MaxRx, Parse(n) PROVE InKept'
  <2>1. /\ actorBox # <<>> /\ actorBox' = Tail(actorBox) /\ Head(actorBox) = Rx(n)
        /\ \/ parsed' = Append(parsed, n) /\ lost' = lost
           \/ lost' = lost \cup {Rx(n)} /\ parsed' = parsed
        /\ UNCHANGED <<heard, linkHand, rx>>
    BY <1>10 DEF Parse, ActorGets, in
  <2>2. Range(actorBox) = {Rx(n)} \cup Range(actorBox')
    BY <1>0, <2>1, RangeOfTail
  <2>3. Range(Append(parsed, n)) = Range(parsed) \cup {n}
    BY <1>0, RangeOfAppend
  <2>4. \A r : Rx(r) = Rx(n) => r = n
    BY DEF Rx
  <2> QED BY <1>1, <2>1, <2>2, <2>3, <2>4
<1>11. ASSUME NEW e \in CloseRequest, ActorCloses(e) PROVE InKept'
  <2>1. CASE e[1] = "All"
    <3>1. /\ lost' = lost \cup (Packets(actorBox) \cap Reception)
          /\ UNCHANGED <<heard, parsed, linkHand, rx>>
      BY <1>11, <2>1 DEF ActorCloses, in
    <3> QED BY <1>0, <1>1, <3>1, PacketsOf
  <2>2. CASE e[1] # "All"
    <3>1. /\ actorBox # <<>> /\ actorBox' = Tail(actorBox) /\ Head(actorBox) = e
          /\ UNCHANGED <<lost, heard, parsed, linkHand, rx>>
      BY <1>11, <2>2 DEF ActorCloses, ActorGets, in
    <3> QED BY <1>4, <3>1, Distinct
  <2> QED BY <2>1, <2>2
<1>12. ASSUME NEW e \in CloseRequest, ReadClose(e) PROVE InKept'
  <2>1. /\ rx' = <<>> /\ lost \cup {Rx(r) : r \in Range(rx)} \subseteq lost'
        /\ UNCHANGED <<heard, parsed, linkHand, actorBox>>
    BY <1>12 DEF ReadClose, actorVars
  <2> QED BY <1>1, <2>1
<1>13. CASE Deliver
  <2>1. /\ rx # <<>> /\ rx' = Tail(rx) /\ actorBox' = ToActor(Rx(Head(rx)))
        /\ lost' = (IF actor THEN lost ELSE lost \cup {Rx(Head(rx))})
        /\ UNCHANGED <<heard, parsed, linkHand>>
    BY <1>13 DEF Deliver, actorVars
  <2>2. Range(rx) = {Head(rx)} \cup Range(rx')
    BY <1>0, <2>1, RangeOfTail
  <2>3. /\ Range(actorBox) \subseteq Range(actorBox')
        /\ Rx(Head(rx)) \in Range(actorBox') \cup lost'
    BY <1>0, <2>1, RangeOfAppend DEF ToActor
  <2> QED BY <1>1, <2>1, <2>2, <2>3
<1>14. CASE Hear
  <2>1. /\ heard' = heard + 1 /\ linkHand' = <<heard + 1>> /\ linkHand = <<>>
        /\ UNCHANGED <<lost, parsed, rx, actorBox>>
    BY <1>14 DEF Hear, Listening, bus, actorVars
  <2>2. Range(linkHand) = {} /\ Range(linkHand') = {heard + 1}
    BY <2>1, Nothing, OneOnly
  <2>3. ASSUME NEW r \in 1 .. heard', r \notin 1 .. heard PROVE r = heard + 1
    BY <1>0, <2>1, <2>3
  <2> QED BY <2>1, <2>2, <2>3 DEF InKept, Inbound
<1>15. CASE HearUndecodable
  <2>1. /\ heard' = heard + 1 /\ lost' = lost \cup {Rx(heard + 1)}
        /\ UNCHANGED <<parsed, linkHand, rx, actorBox>>
    BY <1>15 DEF HearUndecodable, bus, in, actorVars
  <2>2. ASSUME NEW r \in 1 .. heard', r \notin 1 .. heard PROVE r = heard + 1
    BY <1>0, <2>1, <2>2
  <2> QED BY <2>1, <2>2 DEF InKept, Inbound
<1>16. CASE PassIn
  <2>1. PICK n \in 1 .. MaxRx : linkHand = <<n>>
    BY <1>0, <1>16, OneOnly DEF PassIn
  <2>2. /\ \/ lost' = lost \cup {Rx(n)} /\ rx' = rx
           \/ rx' = rx \o <<n>> /\ lost' = lost
        /\ UNCHANGED <<heard, parsed, actorBox>> /\ Range(linkHand) = {n}
    BY <1>16, <2>1, OneOnly DEF PassIn, bus, actorVars
  <2>3. rx \o <<n>> = Append(rx, n) /\ Range(Append(rx, n)) = Range(rx) \cup {n}
    <3>1. n \in Int
      OBVIOUS
    <3> QED BY <1>0, <3>1, AppendToNumbers
  <2> QED BY <1>1, <2>2, <2>3
<1>17. CASE \/ AgentLags \/ Subscribe \/ OpenOk \/ Finish
            \/ (\E p \in 1 .. MaxTx : ReadTx(p)) \/ PassOn
            \/ TakeCommand \/ Write \/ WriterEnds \/ Yield \/ LinkEnds \/ UNCHANGED vars
  BY <1>2, <1>17
  DEF AgentLags, Subscribe, OpenOk, Finish, ReadTx, PassOn, Write, WriterEnds, LinkEnds,
      TakeCommand, Yield, vars, bus, out, in, actorVars, history
<1> QED
  BY <1>5, <1>6, <1>7, <1>8, <1>9, <1>10, <1>11, <1>12, <1>13, <1>14, <1>15, <1>16, <1>17
  DEF Next, Actor, ReadBus, Exit, OpenFails, HearTorn, Halt

LEMMA InitKept == Init => NothingVanishes
<1> SUFFICES ASSUME Init PROVE OutKept /\ InKept
  BY DEF NothingVanishes, OutKept, InKept
<1>1. offered = 0 /\ heard = 0
  BY DEF Init
<1> QED BY <1>1 DEF OutKept, InKept

LEMMA StaysHalted == LifeInv /\ agent = "halted" /\ [Next]_vars => agent' = "halted"
BY DEF LifeInv, Next, vars, Offer, Request, ActorLags, AgentLags, Exit, Halt, Actor,
   StartAgent, ActorGets, RecordAirtime, Parse, ActorCloses, Subscribe, OpenOk, OpenFails,
   Finish, ReadBus, ReadTx, ReadClose, CanRead, PassOn, Deliver, Write, WriterEnds, Hear,
   HearUndecodable, HearTorn, PassIn, LinkEnds, Listening, TakeCommand, Yield, bus, out, in, history

LEMMA KeptStep == TypeOK /\ LifeInv /\ NothingVanishes /\ [Next]_vars => NothingVanishes'
<1> SUFFICES ASSUME TypeOK, LifeInv, NothingVanishes, [Next]_vars, agent' # "halted"
             PROVE  OutKept' /\ InKept'
  BY DEF NothingVanishes, OutKept, InKept
<1>1. OutKept /\ InKept
  BY StaysHalted DEF NothingVanishes, OutKept, InKept
<1> QED BY <1>1, OutKeptStep, InKeptStep

---------------------------------------------------------------------------

LEMMA Inductive == Spec => [](TypeOK /\ LifeInv /\ OutInv /\ InInv /\ NothingVanishes)
<1> QED
  BY InitType, InitLife, InitOut, InitIn, InitKept,
     TypeStep, LifeStep, OutStep, InStep, KeptStep, PTL DEF Spec

\* For any capacities of the channels and any traffic: packets are written in the
\* order they were offered and parsed in the order they were heard, none twice,
\* whatever lags, closes, fails or is torn on the way.
THEOREM KeepsOrder == Spec => []InOrder
<1>1. OutInv /\ InInv => InOrder
  BY DEF OutInv, InInv, InOrder
<1> QED BY <1>1, Inductive, PTL

\* The reader's close alone, which no other task is told of, keeps what was offered
\* later from the air.
THEOREM CloseIsFinal == Spec => []ClosedIsClosed
<1>1. TypeOK /\ OutInv => ClosedIsClosed
  <2> SUFFICES ASSUME TypeOK, OutInv, closedAt # -1, NEW p \in Range(air)
               PROVE  p <= closedAt
    BY DEF ClosedIsClosed
  <2>1. p + 0 <= closedAt
    BY DEF OutInv, Below
  <2>2. p \in Int
    BY Views, Numbers
  <2> QED BY <2>1, <2>2
<1> QED BY <1>1, Inductive, PTL

\* Every packet that was offered or heard is on its way, written or parsed, or was
\* taken by an error, a lag, a close request or the time before the agent
\* subscribed; the hand-overs between the tasks lose none.
THEOREM NothingIsDropped == Spec => []NothingVanishes
<1> QED BY Inductive, PTL

---------------------------------------------------------------------------
(* The agent is a pipe.                                                    *)

\* What waits on the way out and in, and what is lost, as the pipes have it.
OutWaiting == {p \in 1 .. MaxTx : Outbound(p)}
OutLost == {p \in 1 .. MaxTx : Tx(p) \in lost}
InWaiting == {r \in 1 .. MaxRx : Inbound(r)}
InLost == {r \in 1 .. MaxRx : Rx(r) \in lost}

LEMMA NumsOfTail ==
    ASSUME NEW s \in Seq(Event), s # <<>>, NEW T
    PROVE  Nums(s, T) = Nums(Tail(s), T) \cup {n \in {Head(s)[2]} : Head(s)[1] \in T}
<1>1. Len(s) \in Nat \ {0} /\ Head(s) = s[1] /\ DOMAIN s = 1 .. Len(s)
  OBVIOUS
<1>2. /\ DOMAIN Tail(s) = 1 .. Len(s) - 1
      /\ \A i \in 1 .. Len(s) - 1 : Tail(s)[i] = s[i + 1]
  OBVIOUS
<1>3. ASSUME NEW i \in DOMAIN s, s[i][1] \in T, i # 1 PROVE s[i][2] \in Nums(Tail(s), T)
  <2>1. i - 1 \in DOMAIN Tail(s) /\ Tail(s)[i - 1] = s[i]
    BY <1>1, <1>2, <1>3
  <2> QED BY <1>3, <2>1 DEF Nums
<1>4. Nums(Tail(s), T) \subseteq Nums(s, T)
  BY <1>1, <1>2 DEF Nums
<1> QED BY <1>1, <1>3, <1>4 DEF Nums

LEMMA NumsOfAppend ==
    ASSUME NEW s \in Seq(Event), NEW e \in Event, NEW T
    PROVE  Nums(Append(s, e), T) = Nums(s, T) \cup {n \in {e[2]} : e[1] \in T}
<1>1. /\ DOMAIN s = 1 .. Len(s) /\ Len(s) \in Nat
      /\ DOMAIN Append(s, e) = 1 .. (Len(s) + 1)
      /\ Append(s, e)[Len(s) + 1] = e
      /\ \A i \in 1 .. Len(s) : Append(s, e)[i] = s[i]
  OBVIOUS
<1> QED BY <1>1 DEF Nums

\* A packet is in a backlog when its number is.
LEMMA NumsAreTx ==
    ASSUME NEW s \in Seq(Transmission \cup CloseRequest)
    PROVE  /\ \A p : Tx(p) \in Range(s) <=> p \in Nums(s, TxTag)
           /\ Nums(s, TxTag) \subseteq 1 .. MaxTx
           /\ s # <<>> /\ Head(s)[1] \in TxTag => Head(s) = Tx(Head(s)[2])
<1>1. /\ \A i \in DOMAIN s : s[i] \in Transmission \cup CloseRequest
      /\ s # <<>> => Head(s) \in Transmission \cup CloseRequest
  OBVIOUS
<1>2. \A e \in Transmission \cup CloseRequest :
        e[1] \in TxTag => e = Tx(e[2]) /\ e[2] \in 1 .. MaxTx
  BY DEF Transmission, CloseRequest, Target, TxTag, Tx
<1>3. \A p : Tx(p)[1] \in TxTag /\ Tx(p)[2] = p
  BY Tags
<1>4. \A p : Tx(p) \in Range(s) <=> p \in Nums(s, TxTag)
  BY <1>1, <1>2, <1>3 DEF Range, Nums
<1> QED BY <1>1, <1>2, <1>4 DEF Nums

LEMMA NumsAreRx ==
    ASSUME NEW s \in Seq({Start} \cup Transmission \cup Reception \cup CloseRequest)
    PROVE  /\ \A r : Rx(r) \in Range(s) <=> r \in Nums(s, RxTag)
           /\ Nums(s, RxTag) \subseteq 1 .. MaxRx
           /\ s # <<>> /\ Head(s)[1] \in RxTag => Head(s) = Rx(Head(s)[2])
<1> DEFINE Known == {Start} \cup Transmission \cup Reception \cup CloseRequest
<1>1. /\ \A i \in DOMAIN s : s[i] \in Known
      /\ s # <<>> => Head(s) \in Known
  OBVIOUS
<1>2. \A e \in Known : e[1] \in RxTag => e = Rx(e[2]) /\ e[2] \in 1 .. MaxRx
  BY DEF Start, Transmission, Reception, CloseRequest, Target, RxTag, Rx
<1>3. \A r : Rx(r)[1] \in RxTag /\ Rx(r)[2] = r
  BY Tags
<1> HIDE DEF Known
<1>4. \A r : Rx(r) \in Range(s) <=> r \in Nums(s, RxTag)
  BY <1>1, <1>2, <1>3 DEF Range, Nums
<1> QED BY <1>1, <1>2, <1>4 DEF Nums

LEMMA WaitingOut ==
    ASSUME NEW s \in Seq(Transmission \cup CloseRequest),
           NEW h \in AtMostOne(1 .. MaxTx), NEW q \in Seq(1 .. MaxTx)
    PROVE  {p \in 1 .. MaxTx : Tx(p) \in Range(s) \/ p \in Range(h) \cup Range(q)}
                = Range(h) \cup Range(q) \cup Nums(s, TxTag)
<1>1. Range(h) \subseteq 1 .. MaxTx /\ Range(q) \subseteq 1 .. MaxTx
  BY Members
<1>2. Nums(s, TxTag) \subseteq 1 .. MaxTx /\ \A p : Tx(p) \in Range(s) <=> p \in Nums(s, TxTag)
  BY NumsAreTx
<1> QED BY <1>1, <1>2

LEMMA WaitingIn ==
    ASSUME NEW s \in Seq({Start} \cup Transmission \cup Reception \cup CloseRequest),
           NEW h \in AtMostOne(1 .. MaxRx), NEW q \in Seq(1 .. MaxRx)
    PROVE  {r \in 1 .. MaxRx : r \in Range(h) \cup Range(q) \/ Rx(r) \in Range(s)}
                = Range(h) \cup Range(q) \cup Nums(s, RxTag)
<1>1. Range(h) \subseteq 1 .. MaxRx /\ Range(q) \subseteq 1 .. MaxRx
  BY Members
<1>2. Nums(s, RxTag) \subseteq 1 .. MaxRx /\ \A r : Rx(r) \in Range(s) <=> r \in Nums(s, RxTag)
  BY NumsAreRx
<1> QED BY <1>1, <1>2

\* What the losses of a step are.
LEMMA Losses ==
    /\ \A p, n : Tx(p) = Tx(n) => p = n
    /\ \A p, n : Rx(p) = Rx(n) => p = n
    /\ \A p, n : Tx(p) # Rx(n)
    /\ \A p : Tx(p) \notin Reception
    /\ \A s, p : Tx(p) \in Packets(s) => Tx(p) \in Range(s)
    /\ \A s, r : Rx(r) \in Packets(s) => Rx(r) \in Range(s)
BY DEF Tx, Rx, Reception, Packets

LEMMA InitPipes == Init => Outward!Init /\ Inward!Init
<1> SUFFICES ASSUME Init PROVE Outward!Init /\ Inward!Init
  OBVIOUS
<1>1. /\ hand = <<>> /\ commands = <<>> /\ agentBox = <<>> /\ linkHand = <<>> /\ rx = <<>>
      /\ actorBox = <<Start>> /\ lost = {} /\ agent = "none"
  BY DEF Init
<1>2. \A r : Rx(r) \notin Range(<<Start>>)
  BY OneOnly DEF Rx, Start
<1>3. OutWaiting = {} /\ InWaiting = {} /\ OutLost = {} /\ InLost = {}
  BY <1>1, <1>2, Nothing DEF OutWaiting, InWaiting, OutLost, InLost, Outbound, Inbound
<1> QED BY <1>1, <1>3
        DEF Init, Outward!Init, Inward!Init, OutWaiting, InWaiting, OutLost, InLost

\* The steps of the pipe out, in terms of the agent.
LEMMA OutPipe ==
    ASSUME UNCHANGED <<air, offered>>, UNCHANGED <<OutWaiting, OutLost>>,
           agent' = "halted" <=> agent = "halted"
    PROVE  UNCHANGED Outward!vars
BY DEF Outward!vars, OutWaiting, OutLost

LEMMA OutSends ==
    ASSUME agent # "halted", agent' # "halted", offered' = offered + 1, air' = air,
           \/ OutWaiting' = OutWaiting \cup {offered + 1} /\ OutLost' = OutLost
           \/ OutLost' = OutLost \cup {offered + 1} /\ OutWaiting' = OutWaiting
    PROVE  Outward!Next
BY DEF Outward!Next, Outward!Send, OutWaiting, OutLost

LEMMA OutLoses ==
    ASSUME agent # "halted", agent' # "halted", UNCHANGED <<air, offered>>,
           NEW S \in SUBSET OutWaiting,
           OutWaiting' = OutWaiting \ S, OutLost' = OutLost \cup S
    PROVE  Outward!Next
<1>1. Outward!Lose(S)
  BY DEF Outward!Lose, OutWaiting, OutLost
<1> QED BY <1>1 DEF Outward!Next, OutWaiting

LEMMA OutDelivers ==
    ASSUME agent # "halted", agent' # "halted", offered' = offered,
           NEW i \in OutWaiting, \A j \in OutWaiting : i <= j,
           OutWaiting' = OutWaiting \ {i}, OutLost' = OutLost, air' = Append(air, i)
    PROVE  Outward!Next
<1>1. Outward!Deliver(i)
  BY DEF Outward!Deliver, OutWaiting, OutLost
<1> QED BY <1>1 DEF Outward!Next, OutWaiting

LEMMA OutBreaks ==
    ASSUME agent' = "halted", OutWaiting' = {}, UNCHANGED <<air, offered, OutLost>>
    PROVE  Outward!Next
BY DEF Outward!Next, Outward!Break, OutWaiting, OutLost

LEMMA OutPipeStep ==
    ASSUME TypeOK, TypeOK', LifeInv, OutInv, [Next]_vars
    PROVE  [Outward!Next]_(Outward!vars)
<1> DEFINE C == Range(commands)
           H == Range(hand)
           B == Nums(agentBox, TxTag)
<1>0. /\ agentBox \in Seq(Event) /\ commands \in Seq(Int) /\ air \in Seq(Int)
      /\ hand \in AtMostOne(1 .. MaxTx) /\ offered \in 0 .. MaxTx
      /\ OutWaiting = H \cup C \cup B /\ OutWaiting' = H' \cup C' \cup B'
      /\ H \subseteq 1 .. MaxTx /\ C \subseteq 1 .. MaxTx /\ B \subseteq 1 .. MaxTx
  <2>1. OutWaiting = H \cup C \cup B
    BY WaitingOut DEF TypeOK, OutWaiting, Outbound
  <2>2. OutWaiting' = H' \cup C' \cup B'
    BY WaitingOut DEF TypeOK, OutWaiting, Outbound
  <2>3. H \subseteq 1 .. MaxTx /\ C \subseteq 1 .. MaxTx
    BY Members DEF TypeOK
  <2>4. B \subseteq 1 .. MaxTx
    BY NumsAreTx DEF TypeOK
  <2> QED BY <2>1, <2>2, <2>3, <2>4, Views DEF TypeOK
<1>1. /\ Below(C, H, 1) /\ Below(C, B, 1) /\ Below(H, B, 1) /\ Below(B, {offered}, 0)
      /\ Below(C, {offered}, 0) /\ Below(H, {offered}, 0)
  BY DEF OutInv, OutStages
<1>2. C \cap H = {} /\ C \cap B = {} /\ H \cap B = {}
  BY <1>0, <1>1, BoundAssumption DEF Below
\* The steps that leave the way out alone.
<1>3. ASSUME UNCHANGED <<air, offered, hand, commands>>, B' = B, OutLost' = OutLost,
             agent' = "halted" <=> agent = "halted"
      PROVE  UNCHANGED Outward!vars
  <2>1. OutWaiting' = OutWaiting
    BY <1>0, <1>3
  <2> QED BY <1>3, <2>1, OutPipe
<1>4. lost' = lost => OutLost' = OutLost
  BY DEF OutLost
<1> HIDE DEF C, H, B
<1>5. CASE Offer
  <2>1. /\ offered' = offered + 1 /\ agentBox' = ToAgent(Tx(offered + 1))
        /\ lost' = (IF AgentSubscribed THEN lost ELSE lost \cup {Tx(offered + 1)})
        /\ UNCHANGED <<air, hand, commands, agent>> /\ agent # "halted"
    BY <1>5 DEF Offer, out
  <2>2. offered + 1 \in 1 .. MaxTx /\ Tx(offered + 1) \in Event
    BY <1>0, <1>5, Views, BoundAssumption DEF Offer
  <2>3. C' = C /\ H' = H
    BY <2>1 DEF C, H
  <2>4. CASE AgentSubscribed
    <3>1. agentBox' = Append(agentBox, Tx(offered + 1)) /\ OutLost' = OutLost
      BY <1>4, <2>1, <2>4 DEF ToAgent
    <3>2. B' = B \cup {offered + 1}
      BY <1>0, <2>2, <3>1, NumsOfAppend, Tags DEF B
    <3> QED BY <1>0, <2>1, <2>3, <3>1, <3>2, OutSends
  <2>5. CASE ~AgentSubscribed
    <3>1. agentBox' = agentBox /\ lost' = lost \cup {Tx(offered + 1)}
      BY <2>1, <2>5 DEF ToAgent
    <3>2. B' = B
      BY <3>1 DEF B
    <3>3. OutLost' = OutLost \cup {offered + 1}
      BY <2>2, <3>1, Losses DEF OutLost
    <3> QED BY <1>0, <2>1, <2>3, <3>2, <3>3, OutSends
  <2> QED BY <2>4, <2>5
<1>6. ASSUME NEW target \in Target, Request(target) PROVE UNCHANGED Outward!vars
  <2>1. /\ agentBox' = ToAgent(Close(target, offered))
        /\ UNCHANGED <<air, offered, hand, commands, lost, agent>>
    BY <1>6 DEF Request, out
  <2>2. Close(target, offered) \in Event
    BY Kinds, Views DEF TypeOK
  <2>3. B' = B
    <3>1. Nums(Append(agentBox, Close(target, offered)), TxTag) = Nums(agentBox, TxTag)
      <4> DEFINE c == Close(target, offered)
      <4>1. Nums(Append(agentBox, c), TxTag)
                = Nums(agentBox, TxTag) \cup {n \in {c[2]} : c[1] \in TxTag}
        BY <1>0, <2>2, NumsOfAppend
      <4>2. c[1] \notin TxTag
        BY Tags
      <4> QED BY <4>1, <4>2
    <3> QED BY <2>1, <3>1 DEF ToAgent, B
  <2> QED BY <1>3, <1>4, <2>1, <2>3
<1>7. CASE AgentLags
  <2> DEFINE e == Head(agentBox)
  <2>1. /\ agentBox # <<>> /\ agentBox' = Tail(agentBox)
        /\ lost' = lost \cup Packets(<<e>>)
        /\ UNCHANGED <<offered, air, hand, commands, agent>>
    BY <1>7 DEF AgentLags, out
  <2>2. agent # "halted" /\ C' = C /\ H' = H
    BY <2>1 DEF LifeInv, C, H
  <2>3. B = B' \cup {n \in {e[2]} : e[1] \in TxTag}
    BY <1>0, <2>1, NumsOfTail DEF B
  <2>4. CASE e[1] \in TxTag
    <3>1. e = Tx(e[2]) /\ e[2] \in B
      BY <2>1, <2>3, <2>4, NumsAreTx DEF TypeOK
    <3>2. e[2] \notin B'
      <4>1. Below({e[2]}, Nums(Tail(agentBox), TxTag), 1)
        <5>1. Ordered(agentBox, TxTag, TxTag, 1) /\ 1 \in Int
          BY DEF OutInv
        <5> QED BY <1>0, <2>1, <2>4, <5>1, TailOfEvents, Zenon
      <4> QED BY <1>0, <2>1, <3>1, <4>1 DEF Below, B
    <3>3. OutLost' = OutLost \cup {e[2]}
      <4>1. e[2] \in 1 .. MaxTx /\ Range(<<e>>) = {e}
        BY <1>0, <3>1, PacketsOf
      <4>2. ASSUME NEW p \in 1 .. MaxTx PROVE Tx(p) \in Packets(<<e>>) <=> p = e[2]
        BY <3>1, <4>1, PacketsOf, Losses
      <4> QED BY <2>1, <4>1, <4>2 DEF OutLost
    <3>4. OutWaiting' = OutWaiting \ {e[2]} /\ {e[2]} \in SUBSET OutWaiting
      BY <1>0, <1>2, <2>2, <2>3, <2>4, <3>1, <3>2
    <3> QED BY <2>1, <2>2, <3>3, <3>4, OutLoses
  <2>5. CASE e[1] \notin TxTag
    <3>1. \A p : Tx(p) \notin Packets(<<e>>)
      BY <2>5, PacketsOf, Losses, Tags
    <3>2. OutLost' = OutLost /\ B' = B
      BY <2>1, <2>3, <2>5, <3>1 DEF OutLost
    <3> QED BY <1>3, <2>1, <3>2
  <2> QED BY <2>4, <2>5
<1>8. ASSUME Halt PROVE Outward!Next
  <2>1. /\ agent' = "halted" /\ commands' = <<>> /\ hand' = <<>> /\ agentBox' = <<>>
        /\ UNCHANGED <<air, offered, lost>>
    BY <1>8 DEF Halt, history
  <2>2. OutWaiting' = {}
    BY <1>0, <2>1, Nothing DEF C, H, B
  <2> QED BY <1>4, <2>1, <2>2, OutBreaks
<1>9. ASSUME NEW p \in 1 .. MaxTx, ReadTx(p) PROVE UNCHANGED Outward!vars
  <2>1. /\ agentBox # <<>> /\ agentBox' = Tail(agentBox) /\ Head(agentBox) = Tx(p)
        /\ hand = <<>> /\ hand' = <<p>>
        /\ UNCHANGED <<offered, air, lost, commands, agent>>
    BY <1>9 DEF ReadTx, CanRead, history
  <2>2. B = B' \cup {p} /\ H = {} /\ H' = {p} /\ C' = C
    <3>1. B = B' \cup {p}
      <4>1. B = B' \cup {n \in {Tx(p)[2]} : Tx(p)[1] \in TxTag}
        BY <1>0, <2>1, NumsOfTail DEF B
      <4>2. Tx(p)[1] \in TxTag /\ Tx(p)[2] = p
        BY Tags
      <4> QED BY <4>1, <4>2
    <3>2. H = {} /\ H' = {p} /\ C' = C
      BY <2>1, Nothing, OneOnly DEF H, C
    <3> QED BY <3>1, <3>2
  <2>3. OutWaiting' = OutWaiting
    BY <1>0, <2>2
  <2> QED BY <1>4, <2>1, <2>3, OutPipe
<1>10. ASSUME NEW e \in CloseRequest, ReadClose(e) PROVE Outward!Next
  <2>1. /\ agentBox # <<>> /\ agentBox' = <<>>
        /\ lost' = lost \cup Packets(agentBox) \cup {Rx(r) : r \in Range(rx)}
        /\ UNCHANGED <<offered, air, hand, commands, agent>>
    BY <1>10 DEF ReadClose, out
  <2>2. agent # "halted" /\ C' = C /\ H' = H /\ B' = {}
    BY <2>1, Nothing DEF LifeInv, C, H, B
  <2>3. OutLost' = OutLost \cup B
    <3>1. ASSUME NEW p \in 1 .. MaxTx PROVE Tx(p) \in lost' <=> Tx(p) \in lost \/ p \in B
      <4>1. Tx(p) \in Packets(agentBox) <=> p \in B
        BY PacketsOf, Losses, NumsAreTx DEF TypeOK, B
      <4> QED BY <2>1, <4>1, Losses
    <3> QED BY <1>0, <3>1 DEF OutLost
  <2>4. OutWaiting' = OutWaiting \ B /\ B \in SUBSET OutWaiting
    BY <1>0, <1>2, <2>2
  <2> QED BY <2>1, <2>2, <2>3, <2>4, OutLoses
<1>11. CASE PassOn
  <2>1. PICK h \in 1 .. MaxTx : hand = <<h>>
    BY <1>0, <1>11, OneOnly DEF PassOn
  <2>2. /\ commands' = Append(commands, h) /\ hand' = <<>>
        /\ UNCHANGED <<offered, air, lost, agentBox, agent>>
    BY <1>0, <1>11, <2>1, AppendToNumbers DEF PassOn, bus, history
  <2>3. H = {h} /\ H' = {} /\ C' = C \cup {h} /\ B' = B
    BY <1>0, <2>1, <2>2, OneOnly, Nothing, RangeOfAppend DEF H, C, B
  <2>4. OutWaiting' = OutWaiting
    BY <1>0, <2>3
  <2> QED BY <1>4, <2>2, <2>4, OutPipe
<1>12. CASE Write
  <2> DEFINE h == Head(commands)
  <2>1. /\ commands # <<>> /\ commands' = Tail(commands)
        /\ \/ air' = Append(air, h) /\ lost' = lost
           \/ lost' = lost \cup {Tx(h)} /\ air' = air
        /\ UNCHANGED <<offered, hand, agentBox, agent>>
    BY <1>12 DEF Write, bus
  <2>2. agent # "halted" /\ H' = H /\ B' = B
    BY <2>1 DEF LifeInv, H, B
  <2>3. C = {h} \cup C' /\ Below({h}, C', 1) /\ h \in Int
    BY <1>0, <2>1, TailOfNumbers DEF OutInv, C
  <2> HIDE DEF h
  <2>4. h \in C /\ h \in 1 .. MaxTx /\ h \notin C'
    <3>1. h \in C /\ h \in 1 .. MaxTx
      BY <1>0, <2>3
    <3>2. ~(h + 1 <= h)
      BY <2>3
    <3> QED BY <2>3, <3>1, <3>2 DEF Below
  <2>5. OutWaiting' = OutWaiting \ {h} /\ h \in OutWaiting
    BY <1>0, <1>2, <2>2, <2>3, <2>4
  <2>6. ASSUME NEW j \in OutWaiting PROVE h <= j
    <3>1. \/ j \in H \/ j \in B \/ j \in C' \/ j = h
      BY <1>0, <2>3
    <3>2. j \in Int
      BY <1>0
    <3>3. j = h \/ h + 1 <= j
      BY <1>1, <2>3, <2>4, <3>1 DEF Below
    <3> QED BY <2>3, <3>2, <3>3
  <2>7. CASE air' = Append(air, h) /\ lost' = lost
    BY <1>4, <2>1, <2>2, <2>5, <2>6, <2>7, OutDelivers
  <2>8. CASE lost' = lost \cup {Tx(h)} /\ air' = air
    <3>1. OutLost' = OutLost \cup {h}
      BY <2>4, <2>8, Losses DEF OutLost
    <3> QED BY <2>1, <2>2, <2>5, <2>8, <3>1, OutLoses
  <2> QED BY <2>1, <2>7, <2>8
<1>13. ASSUME UNCHANGED <<air, offered, hand, commands, agentBox>>,
              agent' = "halted" <=> agent = "halted",
              \A p : Tx(p) \in lost' <=> Tx(p) \in lost
       PROVE  UNCHANGED Outward!vars
  <2>1. B' = B /\ OutLost' = OutLost
    BY <1>13 DEF B, OutLost
  <2> QED BY <1>3, <1>13, <2>1
<1>14. CASE ActorLags
  <2>1. \A p : Tx(p) \in lost' <=> Tx(p) \in lost
    BY <1>14, Losses DEF ActorLags
  <2> QED BY <1>13, <1>14, <2>1 DEF ActorLags, out
<1>15. ASSUME NEW r \in 1 .. MaxRx, Parse(r) PROVE UNCHANGED Outward!vars
  <2>1. \A p : Tx(p) \in lost' <=> Tx(p) \in lost
    BY <1>15, Losses DEF Parse
  <2> QED BY <1>13, <1>15, <2>1 DEF Parse, out
<1>16. ASSUME NEW e \in CloseRequest, ActorCloses(e) PROVE UNCHANGED Outward!vars
  <2>1. \A p : Tx(p) \in lost' <=> Tx(p) \in lost
    BY <1>16, Losses DEF ActorCloses
  <2> QED BY <1>13, <1>16, <2>1 DEF ActorCloses, out
<1>17. CASE StartAgent
  <2>1. agent # "halted"
    BY <1>17 DEF StartAgent, ActorGets, LifeInv
  <2> QED BY <1>13, <1>17, <2>1 DEF StartAgent, out, history
<1>18. ASSUME NEW p \in 1 .. MaxTx, RecordAirtime(p) PROVE UNCHANGED Outward!vars
  BY <1>13, <1>18 DEF RecordAirtime, out, history
<1>19. CASE Deliver
  <2>1. \A p : Tx(p) \in lost' <=> Tx(p) \in lost
    BY <1>19, Losses DEF Deliver
  <2> QED BY <1>13, <1>19, <2>1 DEF Deliver, out
<1>20. CASE HearUndecodable
  <2>1. \A p : Tx(p) \in lost' <=> Tx(p) \in lost
    BY <1>20, Losses DEF HearUndecodable
  <2> QED BY <1>13, <1>20, <2>1 DEF HearUndecodable, bus, out
<1>21. CASE PassIn
  <2>1. \A p : Tx(p) \in lost' <=> Tx(p) \in lost
    BY <1>21, Losses DEF PassIn
  <2> QED BY <1>13, <1>21, <2>1 DEF PassIn, bus, out
<1>22. CASE Subscribe \/ OpenOk \/ Finish
  BY <1>13, <1>22 DEF Subscribe, OpenOk, Finish, bus, out, history
<1>23. CASE WriterEnds \/ TakeCommand \/ Yield \/ Hear \/ LinkEnds \/ UNCHANGED vars
  BY <1>13, <1>23 DEF WriterEnds, TakeCommand, Yield, Hear, LinkEnds, vars, bus, out, history
<1> QED
  BY <1>5, <1>6, <1>7, <1>8, <1>9, <1>10, <1>11, <1>12, <1>14, <1>15, <1>16, <1>17,
     <1>18, <1>19, <1>20, <1>21, <1>22, <1>23
  DEF Next, Actor, ReadBus, Exit, OpenFails, HearTorn

\* The steps of the pipe in.
LEMMA InPipe ==
    ASSUME UNCHANGED <<parsed, heard>>, UNCHANGED <<InWaiting, InLost>>,
           agent' = "halted" <=> agent = "halted"
    PROVE  UNCHANGED Inward!vars
BY DEF Inward!vars, InWaiting, InLost

LEMMA InSends ==
    ASSUME agent # "halted", agent' # "halted", heard' = heard + 1, parsed' = parsed,
           \/ InWaiting' = InWaiting \cup {heard + 1} /\ InLost' = InLost
           \/ InLost' = InLost \cup {heard + 1} /\ InWaiting' = InWaiting
    PROVE  Inward!Next
BY DEF Inward!Next, Inward!Send, InWaiting, InLost

LEMMA InLoses ==
    ASSUME agent # "halted", agent' # "halted", UNCHANGED <<parsed, heard>>,
           NEW S \in SUBSET InWaiting,
           InWaiting' = InWaiting \ S, InLost' = InLost \cup S
    PROVE  Inward!Next
<1>1. Inward!Lose(S)
  BY DEF Inward!Lose, InWaiting, InLost
<1> QED BY <1>1 DEF Inward!Next, InWaiting

LEMMA InDelivers ==
    ASSUME agent # "halted", agent' # "halted", heard' = heard,
           NEW i \in InWaiting, \A j \in InWaiting : i <= j,
           InWaiting' = InWaiting \ {i}, InLost' = InLost, parsed' = Append(parsed, i)
    PROVE  Inward!Next
<1>1. Inward!Deliver(i)
  BY DEF Inward!Deliver, InWaiting, InLost
<1> QED BY <1>1 DEF Inward!Next, InWaiting

LEMMA InBreaks ==
    ASSUME agent' = "halted", InWaiting' = {}, UNCHANGED <<parsed, heard, InLost>>
    PROVE  Inward!Next
BY DEF Inward!Next, Inward!Break, InWaiting, InLost

\* No reception is in the reader's backlog.
LEMMA NoRxOut ==
    ASSUME TypeOK
    PROVE  /\ \A r : Rx(r) \notin Packets(agentBox)
           /\ agentBox # <<>> => \A r : Rx(r) \notin Packets(<<Head(agentBox)>>)
<1>1. /\ Range(agentBox) \subseteq Transmission \cup CloseRequest
      /\ agentBox # <<>> => Head(agentBox) \in Transmission \cup CloseRequest
  BY Members DEF TypeOK
<1>2. \A r : Rx(r) \notin Transmission \cup CloseRequest
  BY DEF Rx, Transmission, CloseRequest, Target
<1> QED BY <1>1, <1>2, Losses, PacketsOf

LEMMA InPipeStep ==
    ASSUME TypeOK, TypeOK', LifeInv, InInv, [Next]_vars
    PROVE  [Inward!Next]_(Inward!vars)
<1> DEFINE R == Range(rx)
           L == Range(linkHand)
           B == Nums(actorBox, RxTag)
<1>0. /\ actorBox \in Seq(Event) /\ rx \in Seq(Int) /\ parsed \in Seq(Int)
      /\ linkHand \in AtMostOne(1 .. MaxRx) /\ heard \in 0 .. MaxRx
      /\ InWaiting = L \cup R \cup B /\ InWaiting' = L' \cup R' \cup B'
      /\ L \subseteq 1 .. MaxRx /\ R \subseteq 1 .. MaxRx /\ B \subseteq 1 .. MaxRx
  <2>1. InWaiting = L \cup R \cup B
    BY WaitingIn DEF TypeOK, InWaiting, Inbound
  <2>2. InWaiting' = L' \cup R' \cup B'
    BY WaitingIn DEF TypeOK, InWaiting, Inbound
  <2>3. L \subseteq 1 .. MaxRx /\ R \subseteq 1 .. MaxRx
    BY Members DEF TypeOK
  <2>4. B \subseteq 1 .. MaxRx
    BY NumsAreRx DEF TypeOK
  <2> QED BY <2>1, <2>2, <2>3, <2>4, Views DEF TypeOK
<1>1. Below(B, R, 1) /\ Below(B, L, 1) /\ Below(R, L, 1)
  BY DEF InInv, InStages
<1>2. B \cap R = {} /\ B \cap L = {} /\ R \cap L = {}
  BY <1>0, <1>1, BoundAssumption DEF Below
<1>3. \A e \in CloseRequest : e[1] \notin RxTag
  BY DEF CloseRequest, Target, RxTag
<1> HIDE DEF R, L, B
\* The steps that leave the way in alone.
<1>4. ASSUME UNCHANGED <<parsed, heard, linkHand, rx>>, B' = B,
             agent' = "halted" <=> agent = "halted",
             \A r : Rx(r) \in lost' <=> Rx(r) \in lost
      PROVE  UNCHANGED Inward!vars
  <2>1. InWaiting' = InWaiting
    BY <1>0, <1>4 DEF L, R
  <2>2. InLost' = InLost
    BY <1>4 DEF InLost
  <2> QED BY <1>4, <2>1, <2>2, InPipe
\* The actor gets an event that is no reception, or takes one.
<1>5. ASSUME NEW e \in Event, e[1] \notin RxTag, actorBox' = ToActor(e),
             UNCHANGED <<parsed, heard, linkHand, rx, agent>>,
             \A r : Rx(r) \in lost' <=> Rx(r) \in lost
      PROVE  UNCHANGED Inward!vars
  <2>1. Nums(Append(actorBox, e), RxTag) = Nums(actorBox, RxTag)
    <3>1. Nums(Append(actorBox, e), RxTag)
              = Nums(actorBox, RxTag) \cup {n \in {e[2]} : e[1] \in RxTag}
      BY <1>0, NumsOfAppend
    <3> QED BY <1>5, <3>1
  <2>2. B' = B
    BY <1>5, <2>1 DEF ToActor, B
  <2> QED BY <1>4, <1>5, <2>2
<1>6. ASSUME actorBox # <<>>, actorBox' = Tail(actorBox), Head(actorBox)[1] \notin RxTag,
             UNCHANGED <<parsed, heard, linkHand, rx>>,
             agent' = "halted" <=> agent = "halted",
             \A r : Rx(r) \in lost' <=> Rx(r) \in lost
      PROVE  UNCHANGED Inward!vars
  <2>1. B = B' \cup {n \in {Head(actorBox)[2]} : Head(actorBox)[1] \in RxTag}
    BY <1>0, <1>6, NumsOfTail DEF B
  <2>2. B' = B
    BY <1>6, <2>1
  <2> QED BY <1>4, <1>6, <2>2
\* The actor takes a reception.
<1>7. ASSUME NEW n, actorBox # <<>>, actorBox' = Tail(actorBox), Head(actorBox) = Rx(n),
             UNCHANGED <<linkHand, rx>>
      PROVE  /\ n \in 1 .. MaxRx /\ n \in InWaiting /\ InWaiting' = InWaiting \ {n}
             /\ \A j \in InWaiting : n <= j
             /\ agent # "halted"
  <2>1. B = B' \cup {n}
    <3>1. B = B' \cup {k \in {Rx(n)[2]} : Rx(n)[1] \in RxTag}
      BY <1>0, <1>7, NumsOfTail DEF B
    <3> QED BY <3>1, Tags
  <2>2. Below({n}, B', 1)
    <3>1. Ordered(actorBox, RxTag, RxTag, 1) /\ 1 \in Int
      BY DEF InInv
    <3>2. Head(actorBox)[1] \in RxTag /\ Head(actorBox)[2] = n
      BY <1>7, Tags
    <3>3. Below({Head(actorBox)[2]}, Nums(Tail(actorBox), RxTag), 1)
      BY <1>0, <1>7, <3>1, <3>2, TailOfEvents, Zenon
    <3> QED BY <1>7, <3>2, <3>3 DEF B
  <2>3. n \in 1 .. MaxRx /\ n \notin B'
    <3>1. n \in 1 .. MaxRx
      BY <1>0, <2>1
    <3>2. ~(n + 1 <= n)
      BY <3>1
    <3> QED BY <2>2, <3>1, <3>2 DEF Below
  <2>4. R' = R /\ L' = L
    BY <1>7 DEF R, L
  <2>5. n \in InWaiting /\ InWaiting' = InWaiting \ {n}
    BY <1>0, <1>2, <2>1, <2>3, <2>4
  <2>6. ASSUME NEW j \in InWaiting PROVE n <= j
    <3>1. j \in L \/ j \in R \/ j \in B' \/ j = n
      BY <1>0, <2>1
    <3>2. j \in Int
      BY <1>0
    <3>3. j = n \/ n + 1 <= j
      BY <1>1, <2>1, <2>2, <3>1 DEF Below
    <3> QED BY <2>3, <3>2, <3>3
  <2> QED BY <1>7, <2>3, <2>5, <2>6 DEF LifeInv
<1>8. CASE Offer
  <2>1. Tx(offered + 1) \in Event /\ Tx(offered + 1)[1] \notin RxTag
    <3>1. offered + 1 \in Int
      BY Views
    <3> QED BY <3>1, Views, Tags
  <2>2. \A r : Rx(r) \in lost' <=> Rx(r) \in lost
    BY <1>8, Losses DEF Offer
  <2> QED BY <1>5, <1>8, <2>1, <2>2 DEF Offer, in, actorVars
<1>9. ASSUME NEW target \in Target, Request(target) PROVE UNCHANGED Inward!vars
  <2>1. Close(target, offered) \in Event /\ Close(target, offered)[1] \notin RxTag
    BY Kinds, Views, Tags DEF TypeOK
  <2> QED BY <1>5, <1>9, <2>1 DEF Request, in, actorVars
<1>10. CASE ActorLags
  <2> DEFINE e == Head(actorBox)
  <2>1. /\ actorBox # <<>> /\ actorBox' = Tail(actorBox)
        /\ lost' = lost \cup (Packets(<<e>>) \cap Reception)
        /\ UNCHANGED <<heard, parsed, linkHand, rx, agent>>
    BY <1>10 DEF ActorLags, in, actorVars
  <2>2. CASE e[1] \in RxTag
    <3>1. PICK n : e = Rx(n)
      BY <2>1, <2>2, NumsAreRx DEF TypeOK
    <3>2. /\ n \in 1 .. MaxRx /\ n \in InWaiting /\ InWaiting' = InWaiting \ {n}
          /\ agent # "halted"
      BY <1>7, <2>1, <3>1
    <3>3. InLost' = InLost \cup {n}
      <4>1. Range(<<e>>) = {e}
        BY PacketsOf
      <4>2. ASSUME NEW r \in 1 .. MaxRx
            PROVE  Rx(r) \in Packets(<<e>>) \cap Reception <=> r = n
        BY <3>1, <4>1, PacketsOf, Losses
      <4> QED BY <2>1, <3>2, <4>2 DEF InLost
    <3> QED BY <2>1, <3>2, <3>3, InLoses
  <2>3. CASE e[1] \notin RxTag
    <3>1. \A r : Rx(r) \notin Packets(<<e>>)
      BY <2>3, PacketsOf, Losses, Tags
    <3> QED BY <1>6, <2>1, <2>3, <3>1
  <2> QED BY <2>2, <2>3
<1>11. CASE AgentLags
  <2>1. \A r : Rx(r) \in lost' <=> Rx(r) \in lost
    BY <1>11, NoRxOut DEF AgentLags
  <2>2. UNCHANGED <<parsed, heard, linkHand, rx, actorBox, agent>>
    BY <1>11 DEF AgentLags, in, actorVars
  <2> QED BY <1>4, <2>1, <2>2 DEF B
<1>12. ASSUME Halt PROVE Inward!Next
  <2>1. /\ agent' = "halted" /\ linkHand' = <<>> /\ rx' = <<>> /\ actorBox' = <<>>
        /\ UNCHANGED <<parsed, heard, lost>>
    BY <1>12 DEF Halt, history
  <2>2. InWaiting' = {}
    BY <1>0, <2>1, Nothing DEF R, L, B
  <2>3. InLost' = InLost
    BY <2>1 DEF InLost
  <2> QED BY <2>1, <2>2, <2>3, InBreaks
<1>13. CASE StartAgent
  <2>1. /\ actorBox # <<>> /\ actorBox' = Tail(actorBox) /\ Head(actorBox) = Start
        /\ agent' = "starting" /\ UNCHANGED <<lost, heard, parsed, linkHand, rx>>
    BY <1>13 DEF StartAgent, ActorGets, in, actorVars, history
  <2>2. Start[1] \notin RxTag /\ agent # "halted"
    BY <2>1 DEF Start, RxTag, LifeInv
  <2> QED BY <1>6, <2>1, <2>2
<1>14. ASSUME NEW p \in 1 .. MaxTx, RecordAirtime(p) PROVE UNCHANGED Inward!vars
  <2>1. /\ actorBox # <<>> /\ actorBox' = Tail(actorBox) /\ Head(actorBox) = Tx(p)
        /\ UNCHANGED <<lost, heard, parsed, linkHand, rx, agent>>
    BY <1>14 DEF RecordAirtime, ActorGets, in, history
  <2>2. Tx(p)[1] \notin RxTag
    BY Tags
  <2> QED BY <1>6, <2>1, <2>2
<1>15. ASSUME NEW n \in 1 .. MaxRx, Parse(n) PROVE Inward!Next
  <2>1. /\ actorBox # <<>> /\ actorBox' = Tail(actorBox) /\ Head(actorBox) = Rx(n)
        /\ \/ parsed' = Append(parsed, n) /\ lost' = lost
           \/ lost' = lost \cup {Rx(n)} /\ parsed' = parsed
        /\ UNCHANGED <<heard, linkHand, rx, agent>>
    BY <1>15 DEF Parse, ActorGets, in
  <2>2. /\ n \in InWaiting /\ InWaiting' = InWaiting \ {n}
        /\ \A j \in InWaiting : n <= j
        /\ agent # "halted"
    BY <1>7, <2>1
  <2>3. CASE parsed' = Append(parsed, n) /\ lost' = lost
    <3>1. InLost' = InLost
      BY <2>3 DEF InLost
    <3> QED BY <2>1, <2>2, <2>3, <3>1, InDelivers
  <2>4. CASE lost' = lost \cup {Rx(n)} /\ parsed' = parsed
    <3>1. InLost' = InLost \cup {n}
      BY <2>4, Losses DEF InLost
    <3> QED BY <2>1, <2>2, <2>4, <3>1, InLoses
  <2> QED BY <2>1, <2>3, <2>4
<1>16. ASSUME NEW e \in CloseRequest, ActorCloses(e) PROVE [Inward!Next]_(Inward!vars)
  <2>1. /\ actorBox # <<>> /\ Head(actorBox) = e
        /\ UNCHANGED <<heard, parsed, linkHand, rx, agent>>
    BY <1>16 DEF ActorCloses, ActorGets, in
  <2>2. CASE e[1] = "All"
    <3>1. actorBox' = <<>> /\ lost' = lost \cup (Packets(actorBox) \cap Reception)
      BY <1>16, <2>2 DEF ActorCloses
    <3>2. B' = {} /\ R' = R /\ L' = L
      BY <2>1, <3>1, Nothing DEF B, R, L
    <3>3. InWaiting' = InWaiting \ B /\ B \in SUBSET InWaiting
      BY <1>0, <1>2, <3>2
    <3>4. InLost' = InLost \cup B
      <4>1. ASSUME NEW r \in 1 .. MaxRx
            PROVE  Rx(r) \in Packets(actorBox) \cap Reception <=> r \in B
        BY PacketsOf, Losses, NumsAreRx DEF TypeOK, B
      <4> QED BY <1>0, <3>1, <4>1 DEF InLost
    <3> QED BY <2>1, <3>3, <3>4, InLoses DEF LifeInv
  <2>3. CASE e[1] # "All"
    <3>1. actorBox' = Tail(actorBox) /\ lost' = lost
      BY <1>16, <2>3 DEF ActorCloses
    <3> QED BY <1>3, <1>6, <2>1, <3>1
  <2> QED BY <2>2, <2>3
<1>17. ASSUME NEW e \in CloseRequest, ReadClose(e) PROVE Inward!Next
  <2>1. /\ rx' = <<>> /\ agentBox # <<>>
        /\ lost' = lost \cup Packets(agentBox) \cup {Rx(r) : r \in Range(rx)}
        /\ UNCHANGED <<heard, parsed, linkHand, actorBox, agent>>
    BY <1>17 DEF ReadClose, actorVars
  <2>2. R' = {} /\ L' = L /\ B' = B /\ agent # "halted"
    BY <2>1, Nothing DEF R, L, B, LifeInv
  <2>3. InWaiting' = InWaiting \ R /\ R \in SUBSET InWaiting
    BY <1>0, <1>2, <2>2
  <2>4. InLost' = InLost \cup R
    <3>1. ASSUME NEW r PROVE Rx(r) \in lost' <=> Rx(r) \in lost \/ r \in R
      BY <2>1, NoRxOut, Losses DEF R
    <3> QED BY <1>0, <3>1 DEF InLost
  <2> QED BY <2>1, <2>2, <2>3, <2>4, InLoses
<1>18. CASE Deliver
  <2> DEFINE h == Head(rx)
  <2>1. /\ reader = "on" /\ rx # <<>> /\ rx' = Tail(rx) /\ actorBox' = ToActor(Rx(h))
        /\ lost' = (IF actor THEN lost ELSE lost \cup {Rx(h)})
        /\ UNCHANGED <<heard, parsed, linkHand, agent>>
    BY <1>18 DEF Deliver, CanRead, actorVars
  <2>2. agent # "halted" /\ L' = L
    BY <2>1 DEF LifeInv, L
  <2>3. R = {h} \cup R' /\ Below({h}, R', 1) /\ h \in Int
    BY <1>0, <2>1, TailOfNumbers DEF InInv, R
  <2> HIDE DEF h
  <2>4. h \in R /\ h \in 1 .. MaxRx /\ h \notin R' /\ Rx(h) \in Event
    <3>1. h \in R /\ h \in 1 .. MaxRx
      BY <1>0, <2>3
    <3>2. ~(h + 1 <= h)
      BY <2>3
    <3> QED BY <2>3, <3>1, <3>2, Views DEF Below
  <2>5. CASE actor
    <3>1. actorBox' = Append(actorBox, Rx(h)) /\ lost' = lost
      BY <2>1, <2>5 DEF ToActor
    <3>2. B' = B \cup {h}
      <4>1. B' = B \cup {k \in {Rx(h)[2]} : Rx(h)[1] \in RxTag}
        BY <1>0, <2>4, <3>1, NumsOfAppend DEF B
      <4> QED BY <4>1, Tags
    <3>3. InWaiting' = InWaiting /\ InLost' = InLost
      <4>1. InWaiting' = InWaiting
        BY <1>0, <2>2, <2>3, <3>2
      <4> QED BY <3>1, <4>1 DEF InLost
    <3> QED BY <2>1, <3>3, InPipe
  <2>6. CASE ~actor
    <3>1. actorBox' = actorBox /\ lost' = lost \cup {Rx(h)}
      BY <2>1, <2>6 DEF ToActor
    <3>2. InWaiting' = InWaiting \ {h} /\ h \in InWaiting
      <4>1. B' = B
        BY <3>1 DEF B
      <4> QED BY <1>0, <1>2, <2>2, <2>3, <2>4, <4>1
    <3>3. InLost' = InLost \cup {h}
      BY <2>4, <3>1, Losses DEF InLost
    <3> QED BY <2>1, <2>2, <3>2, <3>3, InLoses
  <2> QED BY <2>5, <2>6
<1>19. CASE Hear
  <2>1. /\ heard' = heard + 1 /\ linkHand' = <<heard + 1>> /\ linkHand = <<>> /\ link = "on"
        /\ UNCHANGED <<lost, parsed, rx, actorBox, agent>>
    BY <1>19 DEF Hear, Listening, bus, actorVars
  <2>2. L = {} /\ L' = {heard + 1} /\ R' = R /\ B' = B /\ agent # "halted"
    BY <2>1, Nothing, OneOnly DEF L, R, B, LifeInv
  <2>3. InWaiting' = InWaiting \cup {heard + 1}
    BY <1>0, <2>2
  <2>4. InLost' = InLost
    BY <2>1 DEF InLost
  <2> QED BY <2>1, <2>2, <2>3, <2>4, InSends
<1>20. CASE HearUndecodable
  <2>1. /\ heard' = heard + 1 /\ lost' = lost \cup {Rx(heard + 1)} /\ link = "on"
        /\ heard < MaxRx /\ UNCHANGED <<parsed, linkHand, rx, actorBox, agent>>
    BY <1>20 DEF HearUndecodable, Listening, bus, in, actorVars
  <2>2. L' = L /\ R' = R /\ B' = B /\ agent # "halted"
    BY <2>1 DEF L, R, B, LifeInv
  <2>3. heard + 1 \in 1 .. MaxRx
    BY <1>0, <2>1, BoundAssumption
  <2>4. InLost' = InLost \cup {heard + 1}
    BY <2>1, <2>3, Losses DEF InLost
  <2>5. InWaiting' = InWaiting
    BY <1>0, <2>2
  <2> QED BY <2>1, <2>2, <2>4, <2>5, InSends
<1>21. CASE PassIn
  <2>1. PICK n \in 1 .. MaxRx : linkHand = <<n>>
    BY <1>0, <1>21, OneOnly DEF PassIn
  <2>2. /\ linkHand' = <<>> /\ linkHand # <<>>
        /\ \/ lost' = lost \cup {Rx(n)} /\ rx' = rx
           \/ rx' = rx \o <<n>> /\ lost' = lost
        /\ UNCHANGED <<heard, parsed, actorBox, agent>>
    BY <1>21, <2>1 DEF PassIn, bus, actorVars
  <2>3. L = {n} /\ L' = {} /\ B' = B /\ agent # "halted"
    BY <2>1, <2>2, OneOnly, Nothing DEF L, B, LifeInv
  <2>4. CASE lost' = lost \cup {Rx(n)} /\ rx' = rx
    <3>1. R' = R
      BY <2>4 DEF R
    <3>2. InWaiting' = InWaiting \ {n} /\ n \in InWaiting
      BY <1>0, <1>2, <2>3, <3>1
    <3>3. InLost' = InLost \cup {n}
      BY <2>4, Losses DEF InLost
    <3> QED BY <2>2, <2>3, <3>2, <3>3, InLoses
  <2>5. CASE rx' = rx \o <<n>> /\ lost' = lost
    <3>1. R' = R \cup {n}
      <4>1. n \in Int /\ rx \o <<n>> = Append(rx, n)
        BY <1>0, AppendToNumbers
      <4> QED BY <1>0, <2>5, <4>1, RangeOfAppend DEF R
    <3>2. InWaiting' = InWaiting
      BY <1>0, <2>3, <3>1
    <3>3. InLost' = InLost
      BY <2>5 DEF InLost
    <3> QED BY <2>2, <3>2, <3>3, InPipe
  <2> QED BY <2>2, <2>4, <2>5
<1>22. CASE Write
  <2>1. \A r : Rx(r) \in lost' <=> Rx(r) \in lost
    BY <1>22, Losses DEF Write
  <2>2. UNCHANGED <<parsed, heard, linkHand, rx, actorBox, agent>>
    BY <1>22 DEF Write, bus, in, actorVars
  <2> QED BY <1>4, <2>1, <2>2 DEF B
<1>23. ASSUME UNCHANGED <<parsed, heard, linkHand, rx, actorBox, lost>>,
              agent' = "halted" <=> agent = "halted"
       PROVE  UNCHANGED Inward!vars
  BY <1>4, <1>23 DEF B
<1>24. CASE Subscribe \/ OpenOk \/ Finish
  BY <1>23, <1>24 DEF Subscribe, OpenOk, Finish, bus, in, actorVars, history
<1>25. CASE \/ (\E p \in 1 .. MaxTx : ReadTx(p)) \/ PassOn
            \/ WriterEnds \/ TakeCommand \/ Yield \/ LinkEnds \/ UNCHANGED vars
  BY <1>23, <1>25
  DEF ReadTx, PassOn, WriterEnds, TakeCommand, Yield, LinkEnds, vars, bus, out, in,
      actorVars, history
<1> QED
  BY <1>8, <1>9, <1>10, <1>11, <1>12, <1>13, <1>14, <1>15, <1>16, <1>17, <1>18, <1>19,
     <1>20, <1>21, <1>22, <1>24, <1>25
  DEF Next, Actor, ReadBus, Exit, OpenFails, HearTorn

\* For any capacities and any traffic: between the bus and the air, and between
\* the link and the bus, the agent with its four tasks is no more than a pipe.
THEOREM AgentIsAPipe == Spec => ImplementsPipe
<1> DEFINE IInv == TypeOK /\ LifeInv /\ OutInv /\ InInv
<1>1. Spec => []IInv
  BY Inductive, PTL
<1>2. IInv /\ IInv' /\ [Next]_vars
        => [Outward!Next]_(Outward!vars) /\ [Inward!Next]_(Inward!vars)
  BY OutPipeStep, InPipeStep
<1> HIDE DEF IInv
<1> QED BY <1>1, <1>2, InitPipes, PTL DEF Spec, ImplementsPipe, Outward!Spec, Inward!Spec

---------------------------------------------------------------------------
(* The airtime.  With b bits in a symbol and k coded payload bits a packet  *)
(* takes (73 * b + 5 * k) / (4 * b) symbols.                               *)

LEMMA MaxWithZero ==
    ASSUME NEW k \in Int
    PROVE  Max({k, 0}) = IF k >= 0 THEN k ELSE 0
BY DEF Max

LEMMA Fields ==
    ASSUME NEW c \in Config
    PROVE  /\ c.spreading_factor \in 6 .. 12
           /\ c.crc \in BOOLEAN /\ c.explicit_header \in BOOLEAN
           /\ c.low_data_rate_optimization \in BOOLEAN
           /\ BitsPerSymbol(c) \in 4 .. 12
BY DEF Config, BitsPerSymbol

LEMMA PayloadBitsNat ==
    ASSUME NEW c \in Config, NEW len \in Nat
    PROVE  PayloadBits(c, len) \in Nat
<1> DEFINE bits == 8 * len - 4 * c.spreading_factor + 28
                     + (IF c.crc THEN 16 ELSE 0) + (IF c.explicit_header THEN 20 ELSE 0)
<1>1. bits \in Int
  BY Fields
<1>2. PayloadBits(c, len) = Max({bits, 0})
  BY DEF PayloadBits
<1> HIDE DEF bits
<1> QED BY <1>1, <1>2, MaxWithZero

LEMMA SymbolsAre ==
    ASSUME NEW c \in Config, NEW len \in Nat
    PROVE  /\ Symbols(c, len) = 73 * BitsPerSymbol(c) + 5 * PayloadBits(c, len)
           /\ Parts(c) = 4 * BitsPerSymbol(c)
<1> DEFINE b == BitsPerSymbol(c)
           k == PayloadBits(c, len)
<1>1. b \in 4 .. 12 /\ k \in Nat
  BY Fields, PayloadBitsNat
<1>2. /\ Parts(c) = 4 * b
      /\ Symbols(c, len) = (6 * (4 * b) + 17 * b) + (8 * (4 * b) + k * 5)
  BY DEF Symbols, NPreamble, NPayload, Parts, PreambleLen, CodingRate
<1> HIDE DEF b, k
<1>3. Symbols(c, len) = 73 * b + 5 * k
  BY <1>1, <1>2
<1> QED BY <1>2, <1>3 DEF b, k

\* What the inequalities below come to, once for each number of bits.
LEMMA OneMoreFactor ==
    ASSUME NEW b \in 4 .. 12, NEW m \in Nat, NEW k \in Nat, k >= m - 4
    PROVE  2 * (73 * (b + 1) + 5 * k) * (4 * b) >= (73 * b + 5 * m) * (4 * (b + 1))
<1>1. b \in {4, 5, 6, 7, 8, 9, 10, 11, 12}
  OBVIOUS
<1> QED BY <1>1

LEMMA MoreBits ==
    ASSUME NEW b \in 4 .. 12, NEW m \in Nat, NEW k \in Nat, k >= m
    PROVE  1 * (73 * b + 5 * k) * (4 * b) >= (73 * b + 5 * m) * (4 * b)
<1>1. b \in {4, 5, 6, 7, 8, 9, 10, 11, 12}
  OBVIOUS
<1> QED BY <1>1

LEMMA FewerPerSymbol ==
    ASSUME NEW b \in 6 .. 12, NEW m \in Nat
    PROVE  1 * (73 * (b - 2) + 5 * m) * (4 * b) >= (73 * b + 5 * m) * (4 * (b - 2))
<1>1. b \in {6, 7, 8, 9, 10, 11, 12}
  OBVIOUS
<1> QED BY <1>1

LEMMA PowersOfTwo == 2 ^ 0 = 1 /\ 2 ^ 1 = 2
<1>1. 2 ^ 0 = 1
  OBVIOUS
<1>2. 2 ^ 1 = 2
  OBVIOUS
<1> QED BY <1>1, <1>2

\* The same spreading factor: twice the symbols, compared as fractions.
LEMMA SameFactor ==
    ASSUME NEW c \in Config, NEW d \in Config, NEW len \in Nat,
           d.spreading_factor = c.spreading_factor
    PROVE  AtLeast(d, c, len) <=>
             1 * (73 * BitsPerSymbol(d) + 5 * PayloadBits(d, len)) * (4 * BitsPerSymbol(c))
               >= (73 * BitsPerSymbol(c) + 5 * PayloadBits(c, len)) * (4 * BitsPerSymbol(d))
<1>1. d.spreading_factor - c.spreading_factor = 0
  BY Fields
<1>2. SymbolTime(d, c) = 1
  BY <1>1, PowersOfTwo DEF SymbolTime
<1> QED BY <1>2, SymbolsAre DEF AtLeast

\* At a larger factor a symbol lasts twice as long, and holds one bit more.
LEMMA FactorCosts ==
    ASSUME NEW c \in Config, NEW len \in Nat, c.spreading_factor < 12
    PROVE  AtLeast([c EXCEPT !.spreading_factor = @ + 1], c, len)
<1> DEFINE d == [c EXCEPT !.spreading_factor = @ + 1]
           s == c.spreading_factor
           extra == (IF c.crc THEN 16 ELSE 0) + (IF c.explicit_header THEN 20 ELSE 0)
           k == PayloadBits(d, len)
           m == PayloadBits(c, len)
           b == BitsPerSymbol(c)
<1>1. s \in 6 .. 11 /\ extra \in Nat
  BY Fields
<1>2. /\ d \in Config /\ d.spreading_factor = s + 1
      /\ d.crc = c.crc /\ d.explicit_header = c.explicit_header
      /\ d.low_data_rate_optimization = c.low_data_rate_optimization
  BY <1>1 DEF Config
<1>3. BitsPerSymbol(d) = b + 1
  BY <1>1, <1>2 DEF BitsPerSymbol
<1>4. d.spreading_factor - c.spreading_factor = 1
  BY <1>1, <1>2
<1>5. SymbolTime(d, c) = 2
  BY <1>4, PowersOfTwo DEF SymbolTime
<1>6. k >= m - 4
  <2> DEFINE x == 8 * len - 4 * s + 28 + (IF c.crc THEN 16 ELSE 0)
                    + (IF c.explicit_header THEN 20 ELSE 0)
  <2>1. x \in Int
    BY <1>1, Fields
  <2>2. m = Max({x, 0})
    BY DEF PayloadBits
  <2>3. 8 * len - 4 * (s + 1) + 28 + (IF c.crc THEN 16 ELSE 0)
          + (IF c.explicit_header THEN 20 ELSE 0) = x - 4
    BY <1>1, Fields
  <2>4. k = Max({x - 4, 0})
    BY <1>2, <2>3 DEF PayloadBits
  <2> HIDE DEF x, k, m
  <2> QED BY <2>1, <2>2, <2>4, MaxWithZero
<1>7. b \in 4 .. 12 /\ k \in Nat /\ m \in Nat
  BY <1>2, Fields, PayloadBitsNat
<1>8. /\ Symbols(d, len) = 73 * (b + 1) + 5 * k /\ Parts(d) = 4 * (b + 1)
      /\ Symbols(c, len) = 73 * b + 5 * m /\ Parts(c) = 4 * b
  BY <1>2, <1>3, SymbolsAre
<1> HIDE DEF d, k, m, b
<1>9. AtLeast(d, c, len)
  BY <1>5, <1>6, <1>7, <1>8, OneMoreFactor DEF AtLeast
<1> QED BY <1>9 DEF d

\* A checksum or a header adds coded bits.
LEMMA BitsCost ==
    ASSUME NEW c \in Config, NEW d \in Config, NEW len \in Nat,
           d.spreading_factor = c.spreading_factor,
           d.low_data_rate_optimization = c.low_data_rate_optimization,
           c.crc => d.crc, c.explicit_header => d.explicit_header
    PROVE  AtLeast(d, c, len)
<1> DEFINE b == BitsPerSymbol(c)
           k == PayloadBits(d, len)
           m == PayloadBits(c, len)
<1>1. BitsPerSymbol(d) = b
  BY DEF BitsPerSymbol
<1>2. k >= m
  <2> DEFINE x == 8 * len - 4 * c.spreading_factor + 28 + (IF c.crc THEN 16 ELSE 0)
                    + (IF c.explicit_header THEN 20 ELSE 0)
             y == 8 * len - 4 * c.spreading_factor + 28 + (IF d.crc THEN 16 ELSE 0)
                    + (IF d.explicit_header THEN 20 ELSE 0)
  <2>1. x \in Int /\ y \in Int /\ x <= y
    BY Fields
  <2>2. m = Max({x, 0}) /\ k = Max({y, 0})
    BY DEF PayloadBits
  <2> HIDE DEF x, y, k, m
  <2> QED BY <2>1, <2>2, MaxWithZero
<1>3. b \in 4 .. 12 /\ k \in Nat /\ m \in Nat
  BY Fields, PayloadBitsNat
<1> HIDE DEF b, k, m
<1>4. 1 * (73 * b + 5 * k) * (4 * b) >= (73 * b + 5 * m) * (4 * b)
  BY <1>2, <1>3, MoreBits
<1> QED BY <1>1, <1>4, SameFactor DEF b, k, m

\* The optimisation packs two bits fewer into a symbol.
LEMMA OptimisationCosts ==
    ASSUME NEW c \in Config, NEW len \in Nat
    PROVE  AtLeast([c EXCEPT !.low_data_rate_optimization = TRUE], c, len)
<1> DEFINE d == [c EXCEPT !.low_data_rate_optimization = TRUE]
           m == PayloadBits(c, len)
<1>1. /\ d \in Config /\ d.spreading_factor = c.spreading_factor
      /\ d.crc = c.crc /\ d.explicit_header = c.explicit_header
      /\ d.low_data_rate_optimization
  BY DEF Config
<1>2. PayloadBits(d, len) = m
  BY <1>1 DEF PayloadBits
<1>3. m \in Nat
  BY PayloadBitsNat
<1> HIDE DEF d, m
<1>4. CASE c.low_data_rate_optimization
  <2>1. AtLeast(d, c, len)
    BY <1>1, <1>4, BitsCost
  <2> QED BY <2>1 DEF d
<1>5. CASE ~c.low_data_rate_optimization
  <2> DEFINE b == BitsPerSymbol(c)
  <2>1. b \in 6 .. 12 /\ BitsPerSymbol(d) = b - 2
    BY <1>1, <1>5, Fields DEF BitsPerSymbol
  <2> HIDE DEF b
  <2>2. 1 * (73 * (b - 2) + 5 * m) * (4 * b) >= (73 * b + 5 * m) * (4 * (b - 2))
    BY <1>3, <2>1, FewerPerSymbol
  <2>3. AtLeast(d, c, len)
    BY <1>1, <1>2, <2>1, <2>2, SameFactor DEF b, m
  <2> QED BY <2>3 DEF d
<1> QED BY <1>4, <1>5

\* The formula of airtime.rs, for packets of any length.
LEMMA EverythingCosts ==
    ASSUME NEW c \in Config, NEW len \in Nat
    PROVE  /\ c.spreading_factor < 12 =>
                AtLeast([c EXCEPT !.spreading_factor = @ + 1], c, len)
           /\ AtLeast([c EXCEPT !.crc = TRUE], c, len)
           /\ AtLeast([c EXCEPT !.explicit_header = TRUE], c, len)
           /\ AtLeast([c EXCEPT !.low_data_rate_optimization = TRUE], c, len)
<1>1. AtLeast([c EXCEPT !.crc = TRUE], c, len)
  <2> DEFINE d == [c EXCEPT !.crc = TRUE]
  <2>1. /\ d \in Config /\ d.spreading_factor = c.spreading_factor /\ d.crc
        /\ d.explicit_header = c.explicit_header
        /\ d.low_data_rate_optimization = c.low_data_rate_optimization
    BY DEF Config
  <2> HIDE DEF d
  <2>2. AtLeast(d, c, len)
    BY <2>1, BitsCost
  <2> QED BY <2>2 DEF d
<1>2. AtLeast([c EXCEPT !.explicit_header = TRUE], c, len)
  <2> DEFINE d == [c EXCEPT !.explicit_header = TRUE]
  <2>1. /\ d \in Config /\ d.spreading_factor = c.spreading_factor /\ d.crc = c.crc
        /\ d.explicit_header
        /\ d.low_data_rate_optimization = c.low_data_rate_optimization
    BY DEF Config
  <2> HIDE DEF d
  <2>2. AtLeast(d, c, len)
    BY <2>1, BitsCost
  <2> QED BY <2>2 DEF d
<1> QED BY <1>1, <1>2, FactorCosts, OptimisationCosts

\* What the actor counts: in every configuration a packet of any length takes
\* at least as long with a larger spreading factor, a checksum, a header, or the
\* low data rate optimisation, in every state in which airtime was counted.
THEOREM RobustnessIsCounted == Spec => []RobustnessCosts
<1>1. ASSUME NEW c \in Config, NEW len \in ValidPayload
      PROVE  /\ c.spreading_factor < 12 =>
                  AtLeast([c EXCEPT !.spreading_factor = @ + 1], c, len)
             /\ AtLeast([c EXCEPT !.crc = TRUE], c, len)
             /\ AtLeast([c EXCEPT !.explicit_header = TRUE], c, len)
             /\ AtLeast([c EXCEPT !.low_data_rate_optimization = TRUE], c, len)
  <2>1. len \in Nat
    BY DEF ValidPayload
  <2> QED BY <2>1, EverythingCosts
<1>2. RobustnessCosts
  BY <1>1 DEF RobustnessCosts, Costs
<1> QED BY <1>2, PTL

---------------------------------------------------------------------------
(* The text of the modem, for packets of any length.                       *)

\* A set of natural numbers has a least element, and so one that holds 0 and
\* the successors of its members is Nat: induction, with sets for predicates.
LEMMA LeastElement ==
    ASSUME NEW T \in SUBSET Nat, T # {}
    PROVE  \E x \in T : \A y \in T : ~(y < x)
  <1>1. \E x \in T : \A y \in T : ~(<<y, x>> \in OpToRel(<, Nat))
    BY NatLessThanWellFounded, WFMin
  <1>2. \A x, y \in Nat : x < y => <<x, y>> \in OpToRel(<, Nat)
    BY DEF OpToRel
  <1> QED
    BY <1>1, <1>2

LEMMA InductiveIsNat ==
    ASSUME NEW S \in SUBSET Nat, 0 \in S, \A n \in S : n + 1 \in S
    PROVE  Nat = S
  <1> DEFINE T == Nat \ S
  <1>1. CASE T # {}
    <2>1. PICK x \in T : \A y \in T : ~(y < x)
      BY <1>1, LeastElement
    <2>2. x \in Nat /\ x # 0 /\ x \notin S
      BY <2>1
    <2>3. x - 1 \in Nat /\ x - 1 < x /\ (x - 1) + 1 = x
      BY <2>2
    <2>4. x - 1 \in S
      BY <2>1, <2>3
    <2> QED
      BY <2>2, <2>3, <2>4
  <1> QED
    BY <1>1

\* There is a function as the one FlattenSeq chooses: by induction on its domain.
LEMMA FlatteningExists ==
    ASSUME NEW s, NEW n \in Nat
    PROVE  \E g : g = [i \in 1 .. n |-> IF i = 1 THEN s[i] ELSE g[i - 1] \o s[i]]
  <1> DEFINE R(m, g) == g = [i \in 1 .. m |-> IF i = 1 THEN s[i] ELSE g[i - 1] \o s[i]]
             S == {m \in Nat : \E g : R(m, g)}
  <1>1. 0 \in S
    <2>1. R(0, [i \in 1 .. 0 |-> 0])
      OBVIOUS
    <2> QED
      BY <2>1
  <1>2. ASSUME NEW m \in S
        PROVE  m + 1 \in S
    <2>1. PICK g : R(m, g)
      BY <1>2
    <2> DEFINE h == [i \in 1 .. m + 1 |->
                        IF i = 1 THEN s[i]
                        ELSE IF i = m + 1 THEN g[m] \o s[i] ELSE g[i]]
    <2>2. ASSUME NEW i \in 1 .. m + 1
          PROVE  h[i] = IF i = 1 THEN s[i] ELSE h[i - 1] \o s[i]
      <3>1. CASE i = 1
        BY <3>1
      <3>2. CASE i # 1
        <4>1. i - 1 \in 1 .. m /\ m \in Nat /\ i \in Nat
          BY <3>2
        <4>2. h[i - 1] = g[i - 1]
          <5>1. g[1] = s[1]
            BY <2>1, <4>1
          <5>2. i - 1 # m + 1 /\ i - 1 \in 1 .. m + 1
            BY <4>1
          <5> QED
            BY <5>1, <5>2
        <4>3. CASE i = m + 1
          <5>1. i - 1 = m /\ i # 1
            BY <4>1, <4>3, <3>2
          <5>2. h[i] = g[m] \o s[i]
            BY <4>3, <5>1
          <5>3. h[i - 1] = g[m]
            BY <4>2, <5>1
          <5> HIDE DEF h
          <5> QED
            BY <5>1, <5>2, <5>3
        <4>4. CASE i # m + 1
          <5>1. i \in 1 .. m
            BY <4>4, <4>1
          <5>2. g[i] = g[i - 1] \o s[i]
            BY <5>1, <2>1, <3>2
          <5> QED
            BY <5>2, <4>2, <4>4, <3>2
        <4> QED
          BY <4>3, <4>4
      <3> QED
        BY <3>1, <3>2
    <2>3. R(m + 1, h)
      <3> HIDE DEF h
      <3>1. h = [i \in 1 .. m + 1 |-> h[i]]
        BY DEF h
      <3> QED
        BY <3>1, <2>2
    <2>4. m + 1 \in Nat
      OBVIOUS
    <2> QED
      BY <2>3, <2>4
  <1>3. Nat = S
    <2> HIDE DEF S
    <2>1. S \in SUBSET Nat
      BY DEF S
    <2> QED
      BY <1>1, <1>2, <2>1, InductiveIsNat
  <1> QED
    BY <1>3

\* FlattenSeq is the last value of a function that obeys its recursion.
LEMMA FlattenSeqUnfolds ==
    ASSUME NEW s, Len(s) \in Nat, Len(s) # 0
    PROVE  \E g : /\ g = [i \in 1 .. Len(s) |-> IF i = 1 THEN s[i] ELSE g[i - 1] \o s[i]]
                  /\ FlattenSeq(s) = g[Len(s)]
  BY FlatteningExists DEF FlattenSeq

\* Two sequences in a row.
LEMMA Joined ==
    ASSUME NEW a \in Seq(Nat), NEW d \in Seq(Nat)
    PROVE  /\ a \o d \in Seq(Nat)
           /\ Len(a \o d) = Len(a) + Len(d)
           /\ \A j \in 1 .. Len(a) : (a \o d)[j] = a[j]
           /\ \A j \in 1 .. Len(d) : (a \o d)[Len(a) + j] = d[j]
  OBVIOUS

\* A text of at most two digits for each of k bytes, with the digits of one more.
LEMMA TwoDigitsEach ==
    ASSUME NEW k \in Nat, NEW a \in Seq(Nat), NEW byte \in Nat, Len(a) <= 2 * k
    PROVE  /\ a \o Digits(byte) \in Seq(Nat)
           /\ Len(a \o Digits(byte)) <= 2 * (k + 1)
           /\ (Len(a) < 2 * k \/ byte < 16) => Len(a \o Digits(byte)) < 2 * (k + 1)
           /\ (Len(a) = 2 * k /\ byte >= 16) =>
                 /\ Len(a \o Digits(byte)) = 2 * (k + 1)
                 /\ (a \o Digits(byte))[2 * (k + 1) - 1] = byte \div 16
                 /\ (a \o Digits(byte))[2 * (k + 1)] = byte % 16
                 /\ \A j \in 1 .. 2 * k : (a \o Digits(byte))[j] = a[j]
  <1> DEFINE d == Digits(byte)
  <1>0. Len(a) \in Nat /\ byte \div 16 \in Nat /\ byte % 16 \in Nat
    OBVIOUS
  <1>1. CASE byte < 16
    <2>1. d = <<byte>> /\ d \in Seq(Nat) /\ Len(d) = 1
      BY <1>1 DEF Digits
    <2> HIDE DEF d
    <2>2. a \o d \in Seq(Nat) /\ Len(a \o d) = Len(a) + 1
      BY <2>1
    <2> QED
      BY <1>1, <2>2, <1>0 DEF d
  <1>2. CASE ~(byte < 16)
    <2>1. d = <<byte \div 16, byte % 16>>
      BY <1>2 DEF Digits
    <2>2. d \in Seq(Nat) /\ Len(d) = 2 /\ d[1] = byte \div 16 /\ d[2] = byte % 16
      BY <2>1, <1>0
    <2> HIDE DEF d
    <2>3. a \o d \in Seq(Nat) /\ Len(a \o d) = Len(a) + 2
      <3>1. a \o d \in Seq(Nat) /\ Len(a \o d) = Len(a) + Len(d)
        BY <2>2, Joined
      <3> QED
        BY <2>2, <3>1
    <2>4. ASSUME Len(a) = 2 * k
          PROVE  /\ (a \o d)[2 * (k + 1) - 1] = d[1]
                 /\ (a \o d)[2 * (k + 1)] = d[2]
                 /\ \A j \in 1 .. 2 * k : (a \o d)[j] = a[j]
      <3>1. 2 * (k + 1) - 1 = Len(a) + 1 /\ 2 * (k + 1) = Len(a) + 2
        BY <2>4, <1>0
      <3>2. (a \o d)[Len(a) + 1] = d[1] /\ (a \o d)[Len(a) + 2] = d[2]
        <4>1. \A j \in 1 .. Len(d) : (a \o d)[Len(a) + j] = d[j]
          BY <2>2, Joined
        <4>2. 1 \in 1 .. Len(d) /\ 2 \in 1 .. Len(d)
          BY <2>2
        <4> QED
          BY <4>1, <4>2, Zenon
      <3>3. \A j \in 1 .. Len(a) : (a \o d)[j] = a[j]
        BY <2>2, <1>0, Joined
      <3> QED
        BY <3>1, <3>2, <3>3, <2>4
    <2>5. Len(a \o d) <= 2 * (k + 1) /\ (Len(a) < 2 * k => Len(a \o d) < 2 * (k + 1))
          /\ (Len(a) = 2 * k => Len(a \o d) = 2 * (k + 1))
      BY <2>3, <1>0
    <2> QED
      BY <1>2, <2>2, <2>3, <2>4, <2>5 DEF d
  <1> QED
    BY <1>1, <1>2

\* What the digits t of the first k bytes of msg are: two for each byte, unless
\* one of them is small, and fewer than that otherwise.
HasSmall(msg, k) == \E i \in 1 .. k : msg[i] < 16
TextOf(msg, k, t) ==
    /\ t \in Seq(Nat)
    /\ Len(t) <= 2 * k
    /\ HasSmall(msg, k) => Len(t) < 2 * k
    /\ ~HasSmall(msg, k) =>
          /\ Len(t) = 2 * k
          /\ \A i \in 1 .. k : t[2 * i - 1] = msg[i] \div 16 /\ t[2 * i] = msg[i] % 16

\* One byte more: a step of write!("{:X}") over the packet.
LEMMA TextGrows ==
    ASSUME NEW msg \in Seq(Nat), NEW k \in Nat, k + 1 \in 1 .. Len(msg),
           NEW a, TextOf(msg, k, a)
    PROVE  TextOf(msg, k + 1, a \o Digits(msg[k + 1]))
  <1> DEFINE b == msg[k + 1]
             t == a \o Digits(b)
  <1>1. b \in Nat
    OBVIOUS
  <1>2. a \in Seq(Nat) /\ Len(a) <= 2 * k
    BY DEF TextOf
  <1>3. HasSmall(msg, k + 1) <=> (HasSmall(msg, k) \/ b < 16)
    <2>1. 1 .. k + 1 = (1 .. k) \cup {k + 1}
      OBVIOUS
    <2> QED
      BY <2>1 DEF HasSmall
  <1> HIDE DEF b
  <1>4. /\ t \in Seq(Nat)
        /\ Len(t) <= 2 * (k + 1)
        /\ (Len(a) < 2 * k \/ b < 16) => Len(t) < 2 * (k + 1)
        /\ (Len(a) = 2 * k /\ b >= 16) =>
              /\ Len(t) = 2 * (k + 1)
              /\ t[2 * (k + 1) - 1] = b \div 16
              /\ t[2 * (k + 1)] = b % 16
              /\ \A j \in 1 .. 2 * k : t[j] = a[j]
    BY <1>1, <1>2, TwoDigitsEach
  <1> HIDE DEF t
  <1>5. HasSmall(msg, k + 1) => Len(t) < 2 * (k + 1)
    BY <1>3, <1>4 DEF TextOf
  <1>6. ASSUME ~HasSmall(msg, k + 1)
        PROVE  /\ Len(t) = 2 * (k + 1)
               /\ \A i \in 1 .. k + 1 : t[2 * i - 1] = msg[i] \div 16 /\ t[2 * i] = msg[i] % 16
    <2>1. ~HasSmall(msg, k) /\ b >= 16
      BY <1>1, <1>3, <1>6
    <2>2. Len(a) = 2 * k
      BY <2>1 DEF TextOf
    <2>3. ASSUME NEW i \in 1 .. k + 1
          PROVE  t[2 * i - 1] = msg[i] \div 16 /\ t[2 * i] = msg[i] % 16
      <3>1. CASE i = k + 1
        BY <3>1, <1>4, <2>1, <2>2 DEF b
      <3>2. CASE i # k + 1
        <4>1. i \in Nat /\ 1 <= i /\ i <= k
          BY <3>2
        <4>2. i \in 1 .. k /\ 2 * i - 1 \in 1 .. 2 * k /\ 2 * i \in 1 .. 2 * k
          BY <4>1
        <4>3. a[2 * i - 1] = msg[i] \div 16 /\ a[2 * i] = msg[i] % 16
          BY <4>2, <2>1 DEF TextOf
        <4> QED
          BY <4>2, <4>3, <1>4, <2>1, <2>2
      <3> QED
        BY <3>1, <3>2
    <2> QED
      BY <1>4, <2>1, <2>2, <2>3
  <1>7. TextOf(msg, k + 1, t)
    BY <1>4, <1>5, <1>6 DEF TextOf
  <1> QED
    BY <1>7 DEF b, t

\* What the serial agent writes for a packet: by induction over its bytes.
LEMMA HexDataText ==
    ASSUME NEW msg \in Seq(Nat), Len(msg) # 0
    PROVE  TextOf(msg, Len(msg), HexData(msg))
  <1> DEFINE n == Len(msg)
             s == [i \in DOMAIN msg |-> Digits(msg[i])]
  <1>1. n \in Nat /\ DOMAIN msg = 1 .. n /\ n \in 1 .. n /\ Len(s) = n
    OBVIOUS
  <1>2. \A i \in 1 .. n : s[i] = Digits(msg[i])
    BY <1>1
  <1>3. HexData(msg) = FlattenSeq(s)
    BY DEF HexData
  <1> HIDE DEF s
  <1>4. PICK g : /\ g = [i \in 1 .. n |-> IF i = 1 THEN s[i] ELSE g[i - 1] \o s[i]]
                 /\ FlattenSeq(s) = g[n]
    BY <1>1, FlattenSeqUnfolds
  <1>5. \A i \in 1 .. n : g[i] = IF i = 1 THEN s[i] ELSE g[i - 1] \o s[i]
    BY <1>4
  <1> HIDE DEF n
  <1> DEFINE S == {k \in Nat : k \in 1 .. n => TextOf(msg, k, g[k])}
  <1>6. 0 \in S
    OBVIOUS
  <1>7. ASSUME NEW k \in S
        PROVE  k + 1 \in S
    <2>1. k \in Nat /\ k + 1 \in Nat
      OBVIOUS
    <2>2. ASSUME k + 1 \in 1 .. n
          PROVE  TextOf(msg, k + 1, g[k + 1])
      <3>1. CASE k = 0
        <4>1. g[k + 1] = Digits(msg[k + 1])
          BY <3>1, <2>2, <1>2, <1>5
        <4>2. Digits(msg[k + 1]) \in Seq(Nat)
          <5>1. msg[k + 1] \in Nat
            BY <2>2, <1>1 DEF n
          <5> QED
            BY <5>1 DEF Digits
        <4>3. Digits(msg[k + 1]) = <<>> \o Digits(msg[k + 1])
          BY <4>2
        <4>4. TextOf(msg, k, <<>>)
          BY <3>1 DEF TextOf, HasSmall
        <4> QED
          BY <4>1, <4>3, <4>4, <2>1, <2>2, TextGrows DEF n
      <3>2. CASE k # 0
        <4>1. k \in 1 .. n /\ k + 1 # 1 /\ (k + 1) - 1 = k
          BY <3>2, <2>1, <2>2, <1>1
        <4>2. TextOf(msg, k, g[k])
          BY <4>1, <1>7
        <4>3. g[k + 1] = g[k] \o Digits(msg[k + 1])
          BY <4>1, <2>2, <1>2, <1>5
        <4> QED
          BY <4>2, <4>3, <2>1, <2>2, TextGrows DEF n
      <3> QED
        BY <3>1, <3>2
    <2> QED
      BY <2>1, <2>2
  <1>8. Nat = S
    <2>1. S \in SUBSET Nat
      OBVIOUS
    <2> HIDE DEF S
    <2> QED
      BY <1>6, <1>7, <2>1, InductiveIsNat
  <1>9. TextOf(msg, n, g[n])
    BY <1>1, <1>8
  <1> QED
    BY <1>3, <1>4, <1>9 DEF n

\* The text of "AT+TX=" carries a packet, of any length, just if none of its
\* bytes is below 16 (hex_data in rf95modem.rs drops the zero of such a byte).
THEOREM LossJustBySmallBytes ==
    ASSUME NEW msg \in Seq(Nat)
    PROVE  (Decoded(HexData(msg)) = msg) <=> (\A i \in DOMAIN msg : msg[i] >= 16)
  <1> DEFINE h == HexData(msg)
             n == Len(msg)
  <1>1. n \in Nat /\ DOMAIN msg = 1 .. n
    OBVIOUS
  <1>2. CASE n = 0
    <2>1. [i \in DOMAIN msg |-> Digits(msg[i])] = <<>>
      BY <1>1, <1>2
    <2>2. h = <<>>
      BY <2>1 DEF HexData, FlattenSeq
    <2>3. Decoded(h) = msg
      BY <2>2, <1>2, <1>1 DEF Decoded
    <2> QED
      BY <2>3, <1>1, <1>2
  <1>3. CASE n # 0 /\ \A i \in DOMAIN msg : msg[i] >= 16
    <2>1. Len(h) = 2 * n /\ \A i \in 1 .. n : h[2 * i - 1] = msg[i] \div 16 /\ h[2 * i] = msg[i] % 16
      <3>1. TextOf(msg, n, h)
        BY <1>3, HexDataText
      <3>2. ~HasSmall(msg, n)
        BY <1>1, <1>3 DEF HasSmall
      <3> HIDE DEF h, n
      <3> QED
        BY <3>1, <3>2 DEF TextOf
    <2> HIDE DEF h
    <2>2. ((2 * n) % 2 = 0) /\ (2 * n) \div 2 = n
      <3>1. \A m \in Nat : ((2 * m) % 2 = 0) /\ (2 * m) \div 2 = m
        OBVIOUS
      <3> QED
        BY <1>1, <3>1
    <2>3. Decoded(h) = [i \in 1 .. n |-> 16 * h[2 * i - 1] + h[2 * i]]
      BY <2>1, <2>2 DEF Decoded
    <2>4. \A i \in 1 .. n : 16 * h[2 * i - 1] + h[2 * i] = msg[i]
      <3>1. \A b \in Nat : 16 * (b \div 16) + (b % 16) = b
        OBVIOUS
      <3> QED
        BY <2>1, <3>1, <1>1
    <2> QED
      BY <1>1, <1>3, <2>3, <2>4 DEF h
  <1>4. CASE n # 0 /\ ~(\A i \in DOMAIN msg : msg[i] >= 16)
    <2>1. h \in Seq(Nat) /\ Len(h) < 2 * n
      <3>1. TextOf(msg, n, h)
        BY <1>4, HexDataText
      <3>2. HasSmall(msg, n)
        BY <1>1, <1>4 DEF HasSmall
      <3> HIDE DEF h, n
      <3> QED
        BY <3>1, <3>2 DEF TextOf
    <2> HIDE DEF h
    <2>2. Len(h) \in Nat /\ Len(h) \div 2 \in Nat /\ Len(h) \div 2 # n
      <3>1. Len(h) \in Nat
        BY <2>1
      <3>2. \A l, m \in Nat : l < 2 * m => l \div 2 \in Nat /\ l \div 2 # m
        OBVIOUS
      <3> QED
        BY <2>1, <1>1, <3>1, <3>2
    <2>3. CASE Len(h) % 2 = 1
      <3>1. Decoded(h) = <<-1>>
        BY <2>3 DEF Decoded, Error
      <3>2. msg[1] \in Nat
        BY <1>1, <1>4
      <3>3. msg # <<-1>>
        BY <3>2
      <3> QED
        BY <3>1, <3>3, <1>4 DEF h
    <2>4. CASE Len(h) % 2 # 1
      <3>1. Decoded(h) = [i \in 1 .. Len(h) \div 2 |-> 16 * h[2 * i - 1] + h[2 * i]]
        BY <2>4 DEF Decoded
      <3>2. Len(Decoded(h)) = Len(h) \div 2
        BY <3>1, <2>2
      <3> QED
        BY <3>2, <2>2, <1>4 DEF h
    <2> QED
      BY <2>3, <2>4
  <1> QED
    BY <1>2, <1>3, <1>4

---------------------------------------------------------------------------
(* What the liveness properties rest on at every moment: that a packet on  *)
(* its way finds somebody who can go on, that each step of the tasks is    *)
(* one of finitely many, and that the actor misses no packet of its own.   *)

\* The guards of the tasks a packet may wait for: the actor, the opening of the
\* port, the reader, its hand, the writer, the serial port, the link, and the
\* reading loop that gives its worker to the reader.
SomebodyGoesOn ==
    \/ actorBox # <<>>
    \/ agent \in {"starting", "opening"}
    \/ CanRead /\ (agentBox # <<>> \/ rx # <<>>)
    \/ reader = "on" /\ hand # <<>> /\ Len(commands) < Room
    \/ writer = "on" /\ commands # <<>>
    \/ port = "serial" /\ writer = "writing"
    \/ linkHand # <<>> /\ (reader = "done" \/ Len(rx) < RxCap)
    \/ reader = "held" /\ linkHand # <<>> /\ Len(rx) = RxCap

\* What nobody sees to: that the socket takes a packet, or the modem hears one.
WaitsForOthers == SocketWaits \/ (reader = "held" /\ linkHand = <<>>)

\* Whatever the capacities, the tasks never wait for each other in a circle.
NoCircle == Busy => SomebodyGoesOn \/ WaitsForOthers

\* Who is there to take what is in a queue.
TaskInv ==
    /\ agentBox # <<>> => agent \in {"opening", "up"}
    /\ agent = "up" => reader \in {"on", "held", "done"} /\ writer \in {"on", "writing"}
    /\ agent = "down" => reader = "done" /\ writer \in {"on", "writing", "done"}
    /\ hand # <<>> => reader \in {"on", "held"}
    /\ link # "off" \/ linkHand # <<>> => reader \in {"on", "held", "done"}
    /\ rx # <<>> => reader \in {"on", "held"}
    /\ commands # <<>> => writer \in {"on", "writing"}

LEMMA InitTask == Init => TaskInv
BY DEF Init, TaskInv

LEMMA NotEmpty ==
    ASSUME NEW S, NEW s \in Seq(S), NEW h, h \in AtMostOne(S)
    PROVE  /\ s # <<>> => Tail(s) \in Seq(S) /\ Len(Tail(s)) = Len(s) - 1 /\ Len(s) > 0
           /\ Len(s) \in Nat
           /\ h # <<>> => Len(h) = 1 /\ Len(s \o h) = Len(s) + 1
           /\ h = <<>> => Len(h) = 0
<1>1. CASE h = <<>>
  BY <1>1
<1>2. CASE h # <<>>
  <2>1. PICK x \in S : h = <<x>>
    BY <1>2 DEF AtMostOne
  <2>2. Len(s \o <<x>>) = Len(s) + 1
    OBVIOUS
  <2> QED BY <2>1, <2>2
<1> QED BY <1>1, <1>2

LEMMA TaskStep == TypeOK /\ LifeInv /\ TaskInv /\ [Next]_vars => TaskInv'
<1> SUFFICES ASSUME TypeOK, LifeInv, TaskInv, [Next]_vars PROVE TaskInv'
  OBVIOUS
<1>1. CASE Offer
  BY <1>1 DEF Offer, ToAgent, AgentSubscribed, TaskInv, out, in, actorVars
<1>2. ASSUME NEW target \in Target, Request(target) PROVE TaskInv'
  BY <1>2 DEF Request, ToAgent, AgentSubscribed, TaskInv, out, in, actorVars
<1>3. CASE ActorLags
  BY <1>3 DEF ActorLags, TaskInv, out, in, actorVars
<1>4. CASE AgentLags
  BY <1>4 DEF AgentLags, TaskInv, out, in, actorVars
<1>5. ASSUME Halt PROVE TaskInv'
  BY <1>5 DEF Halt, TaskInv
<1>6. CASE StartAgent
  <2>1. agent = "none"
    <3>1. StartFirst(actorBox) /\ (agent # "none" => NoStart(actorBox)) /\ actorBox \in Seq(Event)
      BY Views DEF LifeInv
    <3>2. actorBox # <<>> /\ actorBox[1] = Start /\ 1 \in DOMAIN actorBox
      BY <3>1, <1>6 DEF StartAgent, ActorGets
    <3> QED BY <3>1, <3>2 DEF NoStart
  <2> QED BY <1>6, <2>1 DEF StartAgent, TaskInv, LifeInv, out, in, actorVars
<1>7. ASSUME NEW p \in 1 .. MaxTx, RecordAirtime(p) PROVE TaskInv'
  BY <1>7 DEF RecordAirtime, TaskInv, out, in
<1>8. ASSUME NEW r \in 1 .. MaxRx, Parse(r) PROVE TaskInv'
  BY <1>8 DEF Parse, TaskInv, out, in
<1>9. ASSUME NEW e \in CloseRequest, ActorCloses(e) PROVE TaskInv'
  BY <1>9 DEF ActorCloses, TaskInv, out, in
<1>10. CASE Subscribe
  BY <1>10 DEF Subscribe, TaskInv, bus, out, in
<1>11. CASE OpenOk
  BY <1>11 DEF OpenOk, TaskInv, LifeInv, bus
<1>12. CASE Finish
  BY <1>12 DEF Finish, TaskInv, LifeInv, bus, out, in
<1>13. ASSUME NEW p \in 1 .. MaxTx, ReadTx(p) PROVE TaskInv'
  BY <1>13 DEF ReadTx, CanRead, TaskInv, in
<1>14. ASSUME NEW e \in CloseRequest, ReadClose(e) PROVE TaskInv'
  BY <1>14 DEF ReadClose, CanRead, TaskInv, out
<1>15. CASE PassOn
  BY <1>15 DEF PassOn, TaskInv, LifeInv, bus, in
<1>16. CASE Deliver
  BY <1>16 DEF Deliver, CanRead, TaskInv, out
<1>17. CASE Write
  BY <1>17 DEF Write, TaskInv, bus, in
<1>18. CASE WriterEnds \/ TakeCommand \/ Yield
  BY <1>18 DEF WriterEnds, TakeCommand, Yield, TaskInv, LifeInv, bus, out, in
<1>19. CASE Hear \/ HearUndecodable \/ LinkEnds
  BY <1>19 DEF Hear, HearUndecodable, LinkEnds, Listening, TaskInv, bus, out, in
<1>20. CASE PassIn
  BY <1>20 DEF PassIn, ReaderWaits, TaskInv, bus, out
<1>21. CASE UNCHANGED vars
  BY <1>21 DEF TaskInv, vars, bus, out, in
<1> QED
  BY <1>1, <1>2, <1>3, <1>4, <1>5, <1>6, <1>7, <1>8, <1>9, <1>10, <1>11, <1>12, <1>13,
     <1>14, <1>15, <1>16, <1>17, <1>18, <1>19, <1>20, <1>21
  DEF Next, Actor, ReadBus, Exit, OpenFails, HearTorn

LEMMA PacketsKnown ==
    ASSUME TypeOK, Busy
    PROVE  \/ agentBox # <<>> \/ hand # <<>> \/ commands # <<>>
           \/ linkHand # <<>> \/ rx # <<>> \/ actorBox # <<>>
<1>1. \A p : p \notin Range(<<>>)
  BY DEF Range
<1> QED BY <1>1 DEF Busy, Outbound, Inbound

\* For any capacities from 1 on and any traffic: the reader may stay with a packet
\* while the command channel is full, and the link with one while the reader's is,
\* but then another task can go on, unless the socket takes no packet from the
\* writer (websocket.rs awaits it without a timeout) or the reader is held by a
\* serial_read that has nothing to pass on.
THEOREM NobodyWaitsInACircle == Spec => []NoCircle
<1>1. TypeOK /\ LifeInv /\ TaskInv => NoCircle
  <2> DEFINE Goal == SomebodyGoesOn \/ WaitsForOthers
  <2> SUFFICES ASSUME TypeOK, LifeInv, TaskInv, Busy PROVE Goal
    BY DEF NoCircle
  <2>1. ASSUME commands # <<>> PROVE Goal
    BY <2>1 DEF TaskInv, TypeOK, SomebodyGoesOn, WaitsForOthers, SocketWaits
  <2>2. ASSUME reader = "held" PROVE Goal
    <3>1. linkHand # <<>> /\ ~(Len(rx) < RxCap) => Len(rx) = RxCap
      BY CapAssumption DEF TypeOK
    <3> QED BY <2>2, <3>1 DEF SomebodyGoesOn, WaitsForOthers
  <2>3. ASSUME reader = "on", hand # <<>> PROVE Goal
    <3>1. CASE Len(commands) < Room
      BY <2>3, <3>1 DEF SomebodyGoesOn
    <3>2. CASE ~(Len(commands) < Room)
      <4>1. commands # <<>>
        BY <3>2, CapAssumption DEF Room
      <4> QED BY <4>1, <2>1
    <3> QED BY <3>1, <3>2
  <2>4. ASSUME hand # <<>> PROVE Goal
    BY <2>2, <2>3, <2>4 DEF TaskInv
  <2>5. ASSUME agentBox # <<>> \/ rx # <<>> PROVE Goal
    <3>1. CASE agent = "opening"
      BY <3>1 DEF SomebodyGoesOn
    <3>2. CASE agent # "opening"
      <4>1. reader \in {"on", "held"}
        BY <2>5, <3>2 DEF TaskInv, LifeInv
      <4>2. reader = "on" /\ hand = <<>> => Goal
        BY <2>5 DEF SomebodyGoesOn, CanRead
      <4> QED BY <2>2, <2>4, <4>1, <4>2
    <3> QED BY <3>1, <3>2
  <2>6. ASSUME linkHand # <<>> PROVE Goal
    <3>1. CASE reader = "done" \/ Len(rx) < RxCap
      BY <2>6, <3>1 DEF SomebodyGoesOn
    <3>2. CASE ~(Len(rx) < RxCap)
      <4>1. rx # <<>>
        BY <3>2, CapAssumption
      <4> QED BY <4>1, <2>5
    <3> QED BY <3>1, <3>2
  <2>7. actorBox # <<>> => Goal
    BY DEF SomebodyGoesOn
  <2> QED BY <2>1, <2>4, <2>5, <2>6, <2>7, PacketsKnown
<1> QED
  BY <1>1, InitType, InitLife, InitTask, TypeStep, LifeStep, TaskStep, PTL DEF Spec

\* How many steps the tasks can still take if nothing new comes: a packet takes
\* one less with each queue it passes.
Phase == [none |-> 7, starting |-> 6, opening |-> 5, up |-> 2, down |-> 1, halted |-> 0]
Stage == [off |-> 0, on |-> 2, writing |-> 1, done |-> 0]
Work ==
    Phase[agent] + Stage[writer] + (IF reader = "held" THEN 1 ELSE 0) + Len(actorBox)
    + 4 * Len(agentBox) + 3 * Len(hand) + 2 * Len(commands)
    + 5 * Len(linkHand) + 3 * Len(rx)

\* What comes from outside: the daemon's packets and requests, and the radio.
Input ==
    \/ Offer \/ \E target \in Target : Request(target)
    \/ Hear \/ HearUndecodable \/ LinkEnds

LEMMA WorkIsNat ==
    ASSUME TypeOK
    PROVE  /\ Len(actorBox) \in Nat /\ Len(agentBox) \in Nat /\ Len(hand) \in Nat
           /\ Len(commands) \in Nat /\ Len(linkHand) \in Nat /\ Len(rx) \in Nat
           /\ Phase[agent] \in Nat /\ Stage[writer] \in Nat
<1>1. /\ Len(actorBox) \in Nat /\ Len(agentBox) \in Nat
      /\ Len(commands) \in Nat /\ Len(rx) \in Nat
  BY DEF TypeOK
<1>2. Len(hand) \in Nat /\ Len(linkHand) \in Nat
  BY DEF TypeOK, AtMostOne
<1>3. Phase[agent] \in Nat /\ Stage[writer] \in Nat
  BY DEF TypeOK, Phase, Stage
<1> QED BY <1>1, <1>2, <1>3

LEMMA WorkStep == TypeOK /\ LifeInv /\ [Next]_vars => Input \/ Work' < Work \/ UNCHANGED vars
<1> SUFFICES ASSUME TypeOK, LifeInv, Next, ~Input PROVE Work' < Work
  OBVIOUS
<1> DEFINE W == Stage[writer]
           P == Phase[agent]
           D == IF reader = "held" THEN 1 ELSE 0
<1>0. /\ Len(actorBox) \in Nat /\ Len(agentBox) \in Nat /\ Len(hand) \in Nat
      /\ Len(commands) \in Nat /\ Len(linkHand) \in Nat /\ Len(rx) \in Nat
      /\ P \in Nat /\ W \in Nat /\ D \in Nat
  BY WorkIsNat
<1>1. /\ actorBox # <<>> => Len(Tail(actorBox)) = Len(actorBox) - 1 /\ Len(actorBox) > 0
      /\ agentBox # <<>> => Len(Tail(agentBox)) = Len(agentBox) - 1 /\ Len(agentBox) > 0
      /\ commands # <<>> => Len(Tail(commands)) = Len(commands) - 1
      /\ rx # <<>> => Len(Tail(rx)) = Len(rx) - 1
  BY DEF TypeOK
<1>2. /\ hand # <<>> => Len(hand) = 1 /\ Len(commands \o hand) = Len(commands) + 1
      /\ hand = <<>> => Len(hand) = 0
      /\ linkHand # <<>> => Len(linkHand) = 1 /\ Len(rx \o linkHand) = Len(rx) + 1
  BY NotEmpty DEF TypeOK
<1>3. Len(<<>>) = 0 /\ \A p : Len(<<p>>) = 1
  OBVIOUS
<1>4. Work = P + W + D + Len(actorBox) + 4 * Len(agentBox) + 3 * Len(hand)
             + 2 * Len(commands) + 5 * Len(linkHand) + 3 * Len(rx)
  BY DEF Work
<1>5. Work' = P' + W' + D' + Len(actorBox') + 4 * Len(agentBox') + 3 * Len(hand')
              + 2 * Len(commands') + 5 * Len(linkHand') + 3 * Len(rx')
  BY DEF Work, Phase, Stage
<1>6. ASSUME Halt, agent # "halted" PROVE Work' < Work
  <2>1. P > 0 /\ P' = 0 /\ W' = 0 /\ D' = 0
    BY <1>6 DEF Halt, Phase, Stage, TypeOK
  <2>2. Work' = 0
    BY <1>3, <1>5, <1>6, <2>1 DEF Halt
  <2> HIDE DEF P, W, D
  <2> QED BY <1>0, <1>4, <2>1, <2>2
<1>7. /\ agent' = agent => P' = P
      /\ writer' = writer => W' = W
      /\ reader' = reader => D' = D
  OBVIOUS
<1> HIDE DEF P, W, D
<1>8. CASE ActorLags
  BY <1>0, <1>1, <1>4, <1>5, <1>7, <1>8 DEF ActorLags, out, in
<1>9. CASE AgentLags
  BY <1>0, <1>1, <1>4, <1>5, <1>7, <1>9 DEF AgentLags, out, in
<1>10. CASE StartAgent
  <2>1. agent = "none"
    <3>1. StartFirst(actorBox) /\ (agent # "none" => NoStart(actorBox)) /\ actorBox \in Seq(Event)
      BY Views DEF LifeInv
    <3>2. actorBox # <<>> /\ actorBox[1] = Start /\ 1 \in DOMAIN actorBox
      BY <3>1, <1>10 DEF StartAgent, ActorGets
    <3> QED BY <3>1, <3>2 DEF NoStart
  <2>2. P = 7 /\ P' = 6 /\ W' = W /\ D' = D
    BY <1>10, <2>1 DEF StartAgent, Phase, P, W, D, out
  <2> QED BY <1>0, <1>1, <1>4, <1>5, <1>10, <2>2 DEF StartAgent, ActorGets, out, in
<1>11. ASSUME NEW p \in 1 .. MaxTx, RecordAirtime(p) PROVE Work' < Work
  BY <1>0, <1>1, <1>4, <1>5, <1>7, <1>11 DEF RecordAirtime, ActorGets, out, in
<1>12. ASSUME NEW r \in 1 .. MaxRx, Parse(r) PROVE Work' < Work
  BY <1>0, <1>1, <1>4, <1>5, <1>7, <1>12 DEF Parse, ActorGets, out, in
<1>13. ASSUME NEW e \in CloseRequest, ActorCloses(e) PROVE Work' < Work
  <2>1. actorBox # <<>> /\ Len(actorBox') < Len(actorBox) /\ Len(actorBox') \in Nat
    BY <1>0, <1>1, <1>3, <1>13 DEF ActorCloses, ActorGets
  <2> QED BY <1>0, <1>4, <1>5, <1>7, <1>13, <2>1 DEF ActorCloses, out, in
<1>14. CASE Subscribe
  <2>1. P = 6 /\ P' = 5 /\ W' = W /\ D' = D
    BY <1>14 DEF Subscribe, Phase, P, W, D, out
  <2> QED BY <1>0, <1>4, <1>5, <1>14, <2>1 DEF Subscribe, bus, out, in
<1>15. CASE OpenOk
  <2>1. P = 5 /\ P' = 2 /\ W' = 2 /\ D' = 0
    BY <1>15 DEF OpenOk, Phase, Stage, P, W, D
  <2> QED BY <1>0, <1>4, <1>5, <1>15, <2>1 DEF OpenOk, bus
<1>16. CASE Finish
  <2>1. P = 2 /\ P' = 1 /\ W' = W /\ D' = D
    BY <1>16 DEF Finish, Phase, P, W, D, out
  <2> QED BY <1>0, <1>4, <1>5, <1>16, <2>1 DEF Finish, bus, out, in
<1>17. ASSUME NEW p \in 1 .. MaxTx, ReadTx(p) PROVE Work' < Work
  BY <1>0, <1>1, <1>2, <1>3, <1>4, <1>5, <1>7, <1>17 DEF ReadTx, CanRead, in
<1>18. ASSUME NEW e \in CloseRequest, ReadClose(e) PROVE Work' < Work
  <2>1. D = 0 /\ D' = 0
    BY <1>18 DEF ReadClose, CanRead, D
  <2> QED BY <1>0, <1>1, <1>3, <1>4, <1>5, <1>7, <1>18, <2>1 DEF ReadClose, out
<1>19. CASE PassOn
  BY <1>0, <1>2, <1>3, <1>4, <1>5, <1>7, <1>19 DEF PassOn, bus, in
<1>20. CASE Deliver
  <2>1. Len(actorBox') \in Nat /\ Len(actorBox') <= Len(actorBox) + 1
    BY <1>0, <1>20 DEF Deliver, ToActor, TypeOK
  <2> QED BY <1>0, <1>1, <1>4, <1>5, <1>7, <1>20, <2>1 DEF Deliver, out
<1>21. CASE TakeCommand \/ Write
  <2>1. CASE TakeCommand
    <3>1. W = 2 /\ W' = 1
      BY <2>1 DEF TakeCommand, Stage, W
    <3> QED BY <1>0, <1>4, <1>5, <1>7, <2>1, <3>1 DEF TakeCommand, bus, in
  <2>2. CASE Write
    <3>1. W = 1 /\ W' = 2
      BY <2>2 DEF Write, Stage, W
    <3> QED BY <1>0, <1>1, <1>4, <1>5, <1>7, <2>2, <3>1 DEF Write, bus, in
  <2> QED BY <1>21, <2>1, <2>2
<1>22. CASE WriterEnds \/ Yield
  <2>1. CASE WriterEnds
    <3>1. W = 2 /\ W' = 0
      BY <2>1 DEF WriterEnds, Stage, W
    <3> QED BY <1>0, <1>4, <1>5, <1>7, <2>1, <3>1 DEF WriterEnds, bus, in
  <2>2. CASE Yield
    <3>1. D = 1 /\ D' = 0
      BY <2>2 DEF Yield, D
    <3> QED BY <1>0, <1>4, <1>5, <1>7, <2>2, <3>1 DEF Yield, bus, out, in
  <2> QED BY <1>22, <2>1, <2>2
<1>23. CASE PassIn
  <2>1. D' = D \/ (D = 0 /\ D' = 1)
    BY <1>7, <1>23 DEF PassIn, ReaderWaits, D
  <2>2. Len(rx') \in Nat /\ Len(rx') <= Len(rx) + 1
    BY <1>0, <1>2, <1>23 DEF PassIn
  <2>3. /\ Len(linkHand) = 1 /\ linkHand' = <<>> /\ P' = P /\ W' = W
        /\ UNCHANGED <<actorBox, agentBox, hand, commands>>
    BY <1>2, <1>7, <1>23 DEF PassIn, bus, out
  <2>4. CASE D' = D
    BY <1>0, <1>3, <1>4, <1>5, <2>2, <2>3, <2>4
  <2>5. CASE D = 0 /\ D' = 1
    BY <1>0, <1>3, <1>4, <1>5, <2>2, <2>3, <2>5
  <2> QED BY <2>1, <2>4, <2>5
<1>24. CASE Exit
  BY <1>6, <1>24 DEF Exit
<1>25. CASE OpenFails
  BY <1>6, <1>25 DEF OpenFails
<1>26. CASE HearTorn
  BY <1>6, <1>26 DEF HearTorn, Listening, LifeInv
<1> QED
  BY <1>8, <1>9, <1>10, <1>11, <1>12, <1>13, <1>14, <1>15, <1>16, <1>17, <1>18, <1>19,
     <1>20, <1>21, <1>22, <1>23, <1>24, <1>25, <1>26
  DEF Next, Actor, ReadBus, Input

\* No two tasks hand a packet back and forth: unless something new comes in, each
\* step of the tasks is one of the finitely many that are left.
THEOREM WorkRunsOut == Spec => [][Input \/ Work' < Work]_vars
<1>1. Spec => [](TypeOK /\ LifeInv)
  BY InitType, InitLife, TypeStep, LifeStep, PTL DEF Spec
<1>2. TypeOK /\ LifeInv /\ [Next]_vars => [Input \/ Work' < Work]_vars
  BY WorkStep
<1> QED BY <1>1, <1>2, PTL DEF Spec

\* The actor records the airtime from a backlog of its own: what it has not yet
\* recorded of the packets offered is still there.
AirtimeKept ==
    actor /\ ~missed =>
        \A p \in 1 .. offered : p \in counted \/ Tx(p) \in Range(actorBox)

LEMMA AirtimeStep == TypeOK /\ LifeInv /\ AirtimeKept /\ [Next]_vars => AirtimeKept'
<1> SUFFICES ASSUME TypeOK, LifeInv, AirtimeKept, [Next]_vars, actor' = TRUE, missed' = FALSE
             PROVE  \A p \in 1 .. offered' : p \in counted' \/ Tx(p) \in Range(actorBox')
  <2>1. TypeOK /\ LifeInv /\ [Next]_vars => actor' \in BOOLEAN /\ missed' \in BOOLEAN
    BY TypeStep DEF TypeOK
  <2> QED BY <2>1 DEF AirtimeKept
<1> DEFINE Goal == \A p \in 1 .. offered' : p \in counted' \/ Tx(p) \in Range(actorBox')
           Kept == \A p \in 1 .. offered : p \in counted \/ Tx(p) \in Range(actorBox)
<1>0. actorBox \in Seq(Event) /\ offered \in 0 .. MaxTx
  BY Views DEF TypeOK
<1>1. ASSUME actor = TRUE, missed = FALSE PROVE Kept
  BY <1>1 DEF AirtimeKept
<1> SUFFICES Goal
  OBVIOUS
<1> HIDE DEF Goal
<1>2. ASSUME actor' = actor, missed' = missed, offered' = offered, counted \subseteq counted',
             Range(actorBox) \subseteq Range(actorBox')
      PROVE  Goal
  <2>1. Kept /\ offered' = offered
    BY <1>1, <1>2
  <2> QED BY <1>2, <2>1 DEF Goal
<1>3. ASSUME actor' = actor, missed' = missed, offered' = offered, actorBox # <<>>, actorBox' = Tail(actorBox),
             counted \subseteq counted',
             \A p \in 1 .. offered : Head(actorBox) = Tx(p) => p \in counted'
      PROVE  Goal
  <2>1. Range(actorBox) = {Head(actorBox)} \cup Range(actorBox')
    BY <1>0, <1>3, RangeOfTail
  <2>2. ASSUME NEW p \in 1 .. offered PROVE p \in counted' \/ Tx(p) \in Range(actorBox')
    <3>1. p \in counted \/ Tx(p) \in Range(actorBox)
      <4>1. Kept
        BY <1>1, <1>3
      <4> QED BY <4>1
    <3> QED BY <1>3, <2>1, <3>1
  <2> QED BY <1>3, <2>2 DEF Goal
<1>4. CASE Offer
  <2>1. /\ offered' = offered + 1 /\ actorBox' = Append(actorBox, Tx(offered + 1))
        /\ actor = TRUE /\ missed = FALSE /\ counted' = counted
    BY <1>4 DEF Offer, ToActor, actorVars
  <2>2. Range(actorBox') = Range(actorBox) \cup {Tx(offered + 1)}
    BY <1>0, <2>1, RangeOfAppend
  <2>3. ASSUME NEW p \in 1 .. offered' PROVE p \in 1 .. offered \/ p = offered + 1
    BY <1>0, <2>1
  <2>4. ASSUME NEW p \in 1 .. offered' PROVE p \in counted' \/ Tx(p) \in Range(actorBox')
    BY <1>1, <2>1, <2>2, <2>3
  <2> QED BY <2>4 DEF Goal
<1>5. ASSUME NEW target \in Target, Request(target) PROVE Goal
  <2>1. Range(actorBox) \subseteq Range(actorBox')
    BY <1>0, <1>5, RangeOfAppend DEF Request, ToActor
  <2> QED BY <1>2, <1>5, <2>1 DEF Request, actorVars
<1>6. CASE ActorLags
  BY <1>6 DEF ActorLags
<1>7. CASE StartAgent
  <2>1. \A p : Tx(p) # Start
    BY DEF Tx, Start
  <2>2. UNCHANGED <<actor, missed, counted, offered>> /\ ActorGets(Start)
        /\ actorBox' = Tail(actorBox)
    BY <1>7 DEF StartAgent, actorVars, history
  <2> QED BY <1>3, <2>1, <2>2 DEF ActorGets
<1>8. ASSUME NEW p \in 1 .. MaxTx, RecordAirtime(p) PROVE Goal
  BY <1>3, <1>8, DistinctTx DEF RecordAirtime, ActorGets, history
<1>9. ASSUME NEW r \in 1 .. MaxRx, Parse(r) PROVE Goal
  BY <1>3, <1>9, Distinct DEF Parse, ActorGets
<1>10. ASSUME NEW e \in CloseRequest, ActorCloses(e) PROVE Goal
  <2>1. actorBox # <<>> /\ Head(actorBox) = e /\ actorBox' = Tail(actorBox)
        /\ UNCHANGED <<actor, missed, counted, offered>>
    BY <1>10 DEF ActorCloses, ActorGets
  <2> QED BY <1>3, <2>1, DistinctTx
<1>11. CASE Deliver
  <2>1. Range(actorBox) \subseteq Range(actorBox')
    BY <1>0, <1>11, RangeOfAppend DEF Deliver, ToActor
  <2>2. UNCHANGED <<actor, missed, counted, offered>>
    BY <1>11 DEF Deliver, actorVars
  <2> QED BY <1>2, <2>1, <2>2
<1>12. CASE \/ AgentLags \/ Subscribe \/ OpenOk \/ Finish \/ PassOn \/ Write \/ WriterEnds
            \/ TakeCommand \/ Yield \/ Hear \/ HearUndecodable \/ PassIn \/ LinkEnds
  <2>1. UNCHANGED <<actor, missed, counted, offered, actorBox>>
    BY <1>12 DEF AgentLags, Subscribe, OpenOk, Finish, PassOn, Write, WriterEnds, Hear,
       HearUndecodable, PassIn, LinkEnds, TakeCommand, Yield, bus, out, in, actorVars, history
  <2> QED BY <1>2, <2>1
<1>13. ASSUME NEW p \in 1 .. MaxTx, ReadTx(p) PROVE Goal
  BY <1>2, <1>13 DEF ReadTx, actorVars, history
<1>14. ASSUME NEW e \in CloseRequest, ReadClose(e) PROVE Goal
  BY <1>2, <1>14 DEF ReadClose, actorVars
<1>15. CASE UNCHANGED vars
  <2>1. UNCHANGED <<actor, missed, counted, offered, actorBox>>
    BY <1>15 DEF vars, bus, actorVars, history
  <2> QED BY <1>2, <2>1
<1>16. ASSUME Halt PROVE Goal
  BY <1>16 DEF Halt
<1> QED
  BY <1>4, <1>5, <1>6, <1>7, <1>8, <1>9, <1>10, <1>11, <1>12, <1>13, <1>14, <1>15, <1>16
  DEF Next, Actor, ReadBus, Exit, OpenFails, HearTorn

\* Only a lag of the actor, or its end, makes it forget airtime that others use
\* to stop before the limit; the agent's own backlog and errors do not.
THEOREM AirtimeIsKept == Spec => []AirtimeKept
<1>1. Init => AirtimeKept
  <2> SUFFICES ASSUME Init PROVE \A p \in 1 .. offered : FALSE
    BY DEF AirtimeKept
  <2> QED BY DEF Init
<1> QED
  BY <1>1, InitType, InitLife, TypeStep, LifeStep, AirtimeStep, PTL DEF Spec
=============================================================================
