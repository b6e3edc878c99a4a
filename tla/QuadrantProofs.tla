--------------------------- MODULE QuadrantProofs ---------------------------
(***************************************************************************)
(* Proofs about Quadrant, for any number of nodes and bundles and any      *)
(* number of cut connections, restarts, lost and reordered packets.        *)
(***************************************************************************)
EXTENDS Quadrant, TLAPS

\* What the handlers push are entries.
LEMMA ForwardsType ==
    ASSUME NEW s \in Node \cup {NoName}, NEW B \in SUBSET Bundle
    PROVE  Forwards(s, B) \in SUBSET Entry
<1>1. ASSUME NEW b \in Bundle PROVE ForwardEntry(s, b) \in Entry
  BY DEF ForwardEntry, Entry, Forward
<1> QED BY <1>1 DEF Forwards

LEMMA AdvertiseType ==
    ASSUME NEW n \in Node, NEW h \in SUBSET Bundle, NEW i \in 1 .. MaxAdverts
    PROVE  AdvertiseEntry(n, h, i) \in Entry
BY DEF AdvertiseEntry, Entry, Advertise

LEMMA NodeIdType ==
    ASSUME NEW n \in Node
    PROVE  NodeId(n) \in Node \cup {NoName}
BY DEF NodeId

\* Every variable keeps its type (all handlers of the four tasks).
THEOREM TypeCorrect == Spec => []TypeOK
<1>1. Init => TypeOK
  BY DEF Init, TypeOK
<1>2. TypeOK /\ [Next]_vars => TypeOK'
  <2> SUFFICES ASSUME TypeOK, [Next]_vars PROVE TypeOK'
    OBVIOUS
  <2> USE DEF TypeOK
  <2>1. ASSUME NEW n \in Node, Register(n) PROVE TypeOK'
    BY <2>1 DEF Register, core
  <2>2. ASSUME NEW n \in Node, Disconnect(n) PROVE TypeOK'
    BY <2>2 DEF Disconnect, core
  <2>3. ASSUME NEW n \in Node, NEW t \in Task, StartTask(n, t) PROVE TypeOK'
    BY <2>3 DEF StartTask, core
  <2>4. ASSUME NEW n \in Node, NEW b \in Bundle, ForwardData(n, b) PROVE TypeOK'
    <3>1. Forwards(NodeId(n), {b}) \in SUBSET Entry
      BY ForwardsType, NodeIdType
    <3> QED BY <2>4, <3>1 DEF ForwardData
  <2>5. ASSUME NEW n \in Node, NEW p \in inbox[n], ReceiveAdvertise(n, p) PROVE TypeOK'
    <3>1. p.sender \in Node /\ p.hash \in SUBSET Bundle
      BY <2>5 DEF ReceiveAdvertise, Advertise
    <3> QED BY <2>5, <3>1 DEF ReceiveAdvertise
  <2>6. ASSUME NEW n \in Node, NEW p \in inbox[n], ReceiveForward(n, p) PROVE TypeOK'
    <3>1. p.bndl \in Bundle
      BY <2>6 DEF ReceiveForward, Forward
    <3>2. seenAt' \in [Node -> [Node -> SUBSET Bundle]]
      BY <2>6, <3>1 DEF ReceiveForward
    <3>3. dtnd' \in [Node -> SUBSET Bundle]
      <4>1. dtnd \in [Node -> SUBSET Bundle]
        OBVIOUS
      <4>2. dtnd[n] \cup {p.bndl} \in SUBSET Bundle
        BY <3>1, <4>1
      <4>3. [dtnd EXCEPT ![n] = @ \cup {p.bndl}] \in [Node -> SUBSET Bundle]
        BY <4>1, <4>2
      <4>4. dtnd' \in {dtnd, [dtnd EXCEPT ![n] = @ \cup {p.bndl}]}
        BY <2>6 DEF ReceiveForward
      <4> QED BY <4>1, <4>3, <4>4
    <3> QED BY <2>6, <3>1, <3>2, <3>3 DEF ReceiveForward
  <2>7. ASSUME NEW n \in Node, QueueRelay(n) PROVE TypeOK'
    <3>1. Forwards(NodeId(n), relaying[n]) \in SUBSET Entry
      BY ForwardsType, NodeIdType
    <3> QED BY <2>7, <3>1 DEF QueueRelay
  <2>8. ASSUME NEW n \in Node, QueueAdvertise(n) PROVE TypeOK'
    <3>1. \A i \in 1 .. MaxAdverts : AdvertiseEntry(n, store[n], i) \in Entry
      BY AdvertiseType
    <3> QED BY <2>8, <3>1 DEF QueueAdvertise
  <2>9. ASSUME NEW n \in Node, Spread(n) PROVE TypeOK'
    <3>1. Forwards(NodeId(n), Spreadable(n)) \in SUBSET Entry
      BY ForwardsType, NodeIdType DEF Spreadable
    <3> QED BY <2>9, <3>1 DEF Spread
  <2>10. ASSUME NEW n \in Node, Send(n) PROVE TypeOK'
    <3>0. PICK S \in SUBSET queue[n] :
            \E heard \in [Node \ {n} -> SUBSET {e.pkt : e \in S}] : SendHeard(n, S, heard)
      BY <2>10 DEF Send
    <3>1. PICK heard \in [Node \ {n} -> SUBSET {e.pkt : e \in S}] : SendHeard(n, S, heard)
      BY <3>0
    <3>2. {e.pkt : e \in S} \in SUBSET Packet
      BY DEF Entry, Packet
    <3>3. inbox' \in [Node -> SUBSET Packet]
      BY <3>1, <3>2 DEF SendHeard
    <3> QED BY <3>1, <3>3 DEF SendHeard
  <2>11. ASSUME NEW n \in Node, Restart(n) PROVE TypeOK'
    BY <2>11 DEF Restart
  <2>12. CASE UNCHANGED vars
    BY <2>12 DEF vars, core
  <2> QED
    BY <2>1, <2>2, <2>3, <2>4, <2>5, <2>6, <2>7, <2>8, <2>9, <2>10, <2>11, <2>12 DEF Next
<1> QED BY <1>1, <1>2, PTL DEF Spec

---------------------------------------------------------------------------
(* Knowledge.  What a node believes arrives in packets, so the invariant   *)
(* says of every packet, queued or received, that what it claims about its *)
(* sender is true; and a claim about the past stays true.                  *)

Truthful(p) ==
    /\ p \in Forward /\ p.sender \in Node => p.bndl \in everHeld[p.sender]
    /\ p \in Advertise => p.hash \subseteq everHeld[p.sender]

OwnHeld == \A n \in Node : store[n] \cup relaying[n] \subseteq everHeld[n]
QueueTruthful == \A n \in Node : \A e \in queue[n] : Truthful(e.pkt)
InboxTruthful == \A n \in Node : \A p \in inbox[n] : Truthful(p)

BeliefInv == OwnHeld /\ QueueTruthful /\ InboxTruthful /\ KnowledgeSound

\* What was held once has been held ever after.
LEMMA HeldGrows ==
    ASSUME TypeOK, [Next]_vars, NEW n \in Node
    PROVE  everHeld[n] \subseteq everHeld'[n]
<1>1. ASSUME NEW m \in Node, NEW b, everHeld' = [everHeld EXCEPT ![m] = @ \cup {b}]
      PROVE  everHeld[n] \subseteq everHeld'[n]
  BY <1>1 DEF TypeOK
<1>2. ASSUME NEW m \in Node, NEW b \in Bundle, ForwardData(m, b)
      PROVE  everHeld[n] \subseteq everHeld'[n]
  BY <1>1, <1>2 DEF ForwardData
<1>3. ASSUME NEW m \in Node, NEW p \in inbox[m], ReceiveForward(m, p)
      PROVE  everHeld[n] \subseteq everHeld'[n]
  BY <1>1, <1>3 DEF ReceiveForward
<1> QED
  BY <1>2, <1>3 DEF Next, vars, Register, Disconnect, StartTask, ReceiveAdvertise,
     QueueRelay, QueueAdvertise, Spread, Send, SendHeard, Restart

LEMMA TruthfulGrows ==
    ASSUME TypeOK, [Next]_vars, NEW p, Truthful(p)
    PROVE  Truthful(p)'
BY HeldGrows DEF Truthful, Advertise

\* Forwards name either nobody or the node that queues them.
LEMMA ForwardsTruthful ==
    ASSUME NEW n \in Node, NEW B \in SUBSET Bundle, B \subseteq everHeld'[n],
           NEW e \in Forwards(NodeId(n), B)
    PROVE  Truthful(e.pkt)'
<1>1. PICK b \in B : e = ForwardEntry(NodeId(n), b)
  BY DEF Forwards
<1>2. e.pkt.kind = "forward" /\ e.pkt.sender \in {n, NoName} /\ e.pkt.bndl = b
  BY <1>1 DEF ForwardEntry, NodeId
<1>3. e.pkt \notin Advertise
  BY <1>2 DEF Advertise
<1> QED BY <1>2, <1>3, NameAssumption DEF Truthful

\* A queue that gains only truthful entries stays truthful.
LEMMA QueueStaysTruthful ==
    ASSUME TypeOK, [Next]_vars, QueueTruthful, NEW n \in Node, NEW E,
           queue' = [queue EXCEPT ![n] = @ \cup E],
           \A e \in E : Truthful(e.pkt)'
    PROVE  QueueTruthful'
<1> SUFFICES ASSUME NEW m \in Node, NEW e \in queue'[m] PROVE Truthful(e.pkt)'
  BY DEF QueueTruthful
<1>1. e \in queue[m] \/ e \in E
  BY DEF TypeOK
<1>2. CASE e \in queue[m]
  BY <1>2, TruthfulGrows DEF QueueTruthful
<1> QED BY <1>1, <1>2

\* So does an inbox that gains nothing.
LEMMA InboxStaysTruthful ==
    ASSUME TypeOK, [Next]_vars, InboxTruthful,
           \A m \in Node : inbox'[m] \subseteq inbox[m]
    PROVE  InboxTruthful'
BY TruthfulGrows DEF InboxTruthful

LEMMA KnowledgeStaysSound ==
    ASSUME TypeOK, [Next]_vars, KnowledgeSound, UNCHANGED <<hashOf, seenAt>>
    PROVE  KnowledgeSound'
<1> SUFFICES ASSUME NEW n \in Node, NEW m \in Node
             PROVE  hashOf[n][m] \cup seenAt[n][m] \subseteq everHeld'[m]
  BY DEF KnowledgeSound
<1> QED BY HeldGrows DEF KnowledgeSound

LEMMA BeliefInductive == TypeOK /\ BeliefInv /\ [Next]_vars => BeliefInv'
<1> SUFFICES ASSUME TypeOK, BeliefInv, [Next]_vars PROVE BeliefInv'
  OBVIOUS
<1> USE DEF BeliefInv
<1>1. ASSUME NEW n \in Node, Register(n) \/ Disconnect(n) \/ \E t \in Task : StartTask(n, t)
      PROVE  BeliefInv'
  <2>1. UNCHANGED <<core, relaying, inbox, everHeld>>
    BY <1>1 DEF Register, Disconnect, StartTask
  <2> QED
    BY <2>1 DEF core, OwnHeld, QueueTruthful, InboxTruthful, KnowledgeSound, Truthful
<1>2. ASSUME NEW n \in Node, NEW b \in Bundle, ForwardData(n, b) PROVE BeliefInv'
  <2>1. OwnHeld'
    BY <1>2 DEF ForwardData, OwnHeld, TypeOK
  <2>2. QueueTruthful'
    <3>1. {b} \subseteq everHeld'[n]
      BY <1>2 DEF ForwardData, TypeOK
    <3>2. \A e \in Forwards(NodeId(n), {b}) : Truthful(e.pkt)'
      BY <3>1, ForwardsTruthful
    <3> QED BY <1>2, <3>2, QueueStaysTruthful DEF ForwardData
  <2>3. InboxTruthful'
    BY <1>2, InboxStaysTruthful DEF ForwardData
  <2>4. KnowledgeSound'
    BY <1>2, KnowledgeStaysSound DEF ForwardData
  <2> QED BY <2>1, <2>2, <2>3, <2>4
<1>3. ASSUME NEW n \in Node, NEW p \in inbox[n], ReceiveAdvertise(n, p) PROVE BeliefInv'
  <2>1. UNCHANGED <<store, relaying, queue, seenAt, everHeld>>
    BY <1>3 DEF ReceiveAdvertise
  <2>2. OwnHeld' /\ QueueTruthful'
    BY <2>1 DEF OwnHeld, QueueTruthful, Truthful
  <2>3. InboxTruthful'
    BY <1>3, InboxStaysTruthful DEF ReceiveAdvertise, TypeOK
  <2>4. p.hash \subseteq everHeld[p.sender]
    BY <1>3 DEF ReceiveAdvertise, InboxTruthful, Truthful
  <2>5. \A k, m \in Node : hashOf'[k][m] = hashOf[k][m] \/ (m = p.sender /\ hashOf'[k][m] = p.hash)
    BY <1>3 DEF ReceiveAdvertise, TypeOK
  <2>6. KnowledgeSound'
    BY <2>1, <2>4, <2>5 DEF KnowledgeSound
  <2> QED BY <2>2, <2>3, <2>6
<1>4. ASSUME NEW n \in Node, NEW p \in inbox[n], ReceiveForward(n, p) PROVE BeliefInv'
  <2>1. OwnHeld'
    BY <1>4 DEF ReceiveForward, OwnHeld, TypeOK
  <2>2. QueueTruthful'
    BY <1>4, TruthfulGrows DEF ReceiveForward, QueueTruthful
  <2>3. InboxTruthful'
    BY <1>4, InboxStaysTruthful DEF ReceiveForward, TypeOK
  <2>4. ASSUME NEW k \in Node, NEW m \in Node, NEW b \in seenAt'[k][m]
        PROVE  b \in everHeld'[m]
    <3>1. b \in seenAt[k][m] \/ (b = p.bndl /\ m = p.sender)
      BY <1>4, <2>4 DEF ReceiveForward, Credited, TypeOK
    <3>2. CASE b \in seenAt[k][m]
      BY <3>2, HeldGrows DEF KnowledgeSound
    <3>3. CASE b = p.bndl /\ m = p.sender
      BY <1>4, <3>3, HeldGrows DEF ReceiveForward, InboxTruthful, Truthful
    <3> QED BY <3>1, <3>2, <3>3
  <2>5. ASSUME NEW k \in Node, NEW m \in Node PROVE hashOf'[k][m] \subseteq everHeld'[m]
    BY <1>4, HeldGrows DEF ReceiveForward, KnowledgeSound
  <2>6. KnowledgeSound'
    BY <2>4, <2>5 DEF KnowledgeSound
  <2> QED BY <2>1, <2>2, <2>3, <2>6
<1>5. ASSUME NEW n \in Node, QueueRelay(n) PROVE BeliefInv'
  <2>1. OwnHeld'
    BY <1>5 DEF QueueRelay, OwnHeld, TypeOK
  <2>2. \A e \in Forwards(NodeId(n), relaying[n]) : Truthful(e.pkt)'
    <3>1. relaying[n] \in SUBSET Bundle /\ relaying[n] \subseteq everHeld'[n]
      BY <1>5 DEF QueueRelay, OwnHeld, TypeOK
    <3> QED BY <3>1, ForwardsTruthful
  <2>3. QueueTruthful'
    BY <1>5, <2>2, QueueStaysTruthful DEF QueueRelay
  <2> QED
    BY <1>5, <2>1, <2>3, InboxStaysTruthful, KnowledgeStaysSound DEF QueueRelay
<1>6. ASSUME NEW n \in Node, QueueAdvertise(n) PROVE BeliefInv'
  <2>1. OwnHeld'
    BY <1>6 DEF QueueAdvertise, OwnHeld
  <2>2. PICK e : /\ \E i \in 1 .. MaxAdverts : e = AdvertiseEntry(n, store[n], i)
                 /\ queue' = [queue EXCEPT ![n] = @ \cup {e}]
    BY <1>6 DEF QueueAdvertise
  <2>3. Truthful(e.pkt)'
    <3>1. e.pkt.kind = "advertise" /\ e.pkt.sender = n /\ e.pkt.hash = store[n]
      BY <2>2 DEF AdvertiseEntry
    <3>2. store[n] \subseteq everHeld'[n]
      BY <1>6 DEF QueueAdvertise, OwnHeld
    <3>3. e.pkt \notin Forward
      BY <3>1 DEF Forward
    <3> QED BY <3>1, <3>2, <3>3 DEF Truthful
  <2>4. QueueTruthful'
    BY <2>2, <2>3, QueueStaysTruthful
  <2> QED
    BY <1>6, <2>1, <2>4, InboxStaysTruthful, KnowledgeStaysSound DEF QueueAdvertise
<1>7. ASSUME NEW n \in Node, Spread(n) PROVE BeliefInv'
  <2>1. OwnHeld'
    BY <1>7 DEF Spread, OwnHeld
  <2>2. \A e \in Forwards(NodeId(n), Spreadable(n)) : Truthful(e.pkt)'
    <3>1. Spreadable(n) \in SUBSET Bundle /\ Spreadable(n) \subseteq everHeld'[n]
      BY <1>7 DEF Spread, Spreadable, OwnHeld, TypeOK
    <3> QED BY <3>1, ForwardsTruthful
  <2>3. QueueTruthful'
    BY <1>7, <2>2, QueueStaysTruthful DEF Spread
  <2> QED
    BY <1>7, <2>1, <2>3, InboxStaysTruthful, KnowledgeStaysSound DEF Spread
<1>8. ASSUME NEW n \in Node, Send(n) PROVE BeliefInv'
  <2>1. PICK S \in SUBSET queue[n] :
          \E heard \in [Node \ {n} -> SUBSET {e.pkt : e \in S}] : SendHeard(n, S, heard)
    BY <1>8 DEF Send
  <2>2. PICK heard \in [Node \ {n} -> SUBSET {e.pkt : e \in S}] : SendHeard(n, S, heard)
    BY <2>1
  <2>3. OwnHeld'
    BY <2>2 DEF SendHeard, OwnHeld
  <2>4. UNCHANGED everHeld
    BY <2>2 DEF SendHeard
  <2>5. QueueTruthful'
    <3>1. \A m \in Node : queue'[m] \subseteq queue[m]
      BY <2>2 DEF SendHeard, TypeOK
    <3> QED BY <2>4, <3>1 DEF QueueTruthful, Truthful
  <2>6. ASSUME NEW m \in Node, NEW p \in inbox'[m] PROVE Truthful(p)
    <3>1. CASE p \in inbox[m]
      BY <3>1 DEF InboxTruthful
    <3>2. CASE p \notin inbox[m]
      <4>1. m \in Node \ {n} /\ p \in heard[m]
        BY <2>2, <2>6, <3>2 DEF SendHeard
      <4>2. heard[m] \in SUBSET {e.pkt : e \in S}
        BY <4>1
      <4>3. PICK e \in S : p = e.pkt
        BY <4>1, <4>2
      <4> QED BY <4>3 DEF QueueTruthful
    <3> QED BY <3>1, <3>2
  <2>7. InboxTruthful'
    BY <2>4, <2>6 DEF InboxTruthful, Truthful
  <2> QED BY <2>2, <2>3, <2>5, <2>7, KnowledgeStaysSound DEF SendHeard
<1>9. ASSUME NEW n \in Node, Restart(n) PROVE BeliefInv'
  <2>1. OwnHeld'
    BY <1>9 DEF Restart, OwnHeld, TypeOK
  <2>2. QueueTruthful'
    BY <1>9 DEF Restart, QueueTruthful, Truthful, TypeOK
  <2>3. InboxTruthful'
    BY <1>9, InboxStaysTruthful DEF Restart, TypeOK
  <2>4. \A k, m \in Node :
          /\ hashOf'[k][m] = hashOf[k][m] \/ hashOf'[k][m] = {}
          /\ seenAt'[k][m] = seenAt[k][m] \/ seenAt'[k][m] = {}
    BY <1>9 DEF Restart, TypeOK
  <2>5. KnowledgeSound'
    BY <1>9, <2>4 DEF Restart, KnowledgeSound
  <2> QED BY <2>1, <2>2, <2>3, <2>5
<1>10. CASE UNCHANGED vars
  BY <1>10 DEF vars, core, OwnHeld, QueueTruthful, InboxTruthful, KnowledgeSound, Truthful
<1> QED
  BY <1>1, <1>2, <1>3, <1>4, <1>5, <1>6, <1>7, <1>8, <1>9, <1>10 DEF Next

LEMMA BeliefsTrue == Spec => []BeliefInv
<1>1. Init => BeliefInv
  BY DEF Init, BeliefInv, OwnHeld, QueueTruthful, InboxTruthful, KnowledgeSound
<1> QED BY <1>1, TypeCorrect, BeliefInductive, PTL DEF Spec

\* A node's records about a neighbour (bundle_hash, set_bundle_seen) never
\* credit it with a bundle it has not had.
THEOREM KnowledgeIsSound == Spec => []KnowledgeSound
<1>1. BeliefInv => KnowledgeSound
  BY DEF BeliefInv
<1> QED BY <1>1, BeliefsTrue, PTL

\* spreadable_bundles leaves out no bundle that a known neighbour still misses.
THEOREM SpreadIsComplete == Spec => []SpreadOmitsNobody
<1>1. TypeOK /\ BeliefInv => SpreadOmitsNobody
  <2> SUFFICES ASSUME TypeOK, KnowledgeSound, NEW n \in Node,
                      NEW b \in store[n] \ Spreadable(n), NEW m \in known[n]
               PROVE  b \in everHeld[m]
    BY DEF BeliefInv, SpreadOmitsNobody
  <2>1. m \in Node
    BY DEF TypeOK
  <2>2. b \in hashOf[n][m] \/ b \in seenAt[n][m]
    BY DEF Spreadable
  <2> QED BY <2>1, <2>2 DEF KnowledgeSound
<1> QED BY <1>1, TypeCorrect, BeliefsTrue, PTL

---------------------------------------------------------------------------
(* What the serving of the neighbours rests on.                            *)

\* Without a restart nothing that was stored is forgotten.
NothingForgotten == faults = 0 => \A n \in Node : store[n] = everHeld[n]

LEMMA FaultsGrow == TypeOK /\ [Next]_vars /\ faults' = 0 => faults = 0
<1> SUFFICES ASSUME faults \in Nat, [Next]_vars
             PROVE  faults' = faults \/ faults' = faults + 1
  BY DEF TypeOK
<1>1. ASSUME NEW n \in Node, Disconnect(n) \/ Restart(n)
      PROVE  faults' = faults + 1
  BY <1>1 DEF Disconnect, Restart
<1>2. ASSUME NEW n \in Node,
             Register(n) \/ QueueRelay(n) \/ QueueAdvertise(n) \/ Spread(n) \/ Send(n)
      PROVE  faults' = faults
  BY <1>2 DEF Register, QueueRelay, QueueAdvertise, Spread, Send, SendHeard
<1>3. ASSUME NEW n \in Node, NEW t \in Task, StartTask(n, t) PROVE faults' = faults
  BY <1>3 DEF StartTask
<1>4. ASSUME NEW n \in Node, NEW b \in Bundle, ForwardData(n, b) PROVE faults' = faults
  BY <1>4 DEF ForwardData
<1>5. ASSUME NEW n \in Node, NEW p \in inbox[n], ReceiveAdvertise(n, p) \/ ReceiveForward(n, p)
      PROVE  faults' = faults
  BY <1>5 DEF ReceiveAdvertise, ReceiveForward
<1>6. CASE UNCHANGED vars
  BY <1>6 DEF vars
<1> QED BY <1>1, <1>2, <1>3, <1>4, <1>5, <1>6 DEF Next

LEMMA NothingIsForgotten == TypeOK /\ NothingForgotten /\ [Next]_vars => NothingForgotten'
<1> SUFFICES ASSUME TypeOK, NothingForgotten, [Next]_vars, faults' = 0, NEW n \in Node
             PROVE  store'[n] = everHeld'[n]
  BY DEF NothingForgotten
<1>1. faults = 0 /\ store[n] = everHeld[n]
  BY FaultsGrow DEF NothingForgotten
<1>2. ASSUME NEW m \in Node, NEW b, store' = [store EXCEPT ![m] = @ \cup {b}],
             everHeld' = [everHeld EXCEPT ![m] = @ \cup {b}]
      PROVE  store'[n] = everHeld'[n]
  BY <1>1, <1>2 DEF TypeOK
<1>3. ASSUME NEW m \in Node, NEW b \in Bundle, ForwardData(m, b)
      PROVE  store'[n] = everHeld'[n]
  BY <1>2, <1>3 DEF ForwardData
<1>4. ASSUME NEW m \in Node, NEW p \in inbox[m], ReceiveForward(m, p)
      PROVE  store'[n] = everHeld'[n]
  BY <1>2, <1>4 DEF ReceiveForward
<1>5. ASSUME NEW m \in Node, Restart(m) PROVE FALSE
  BY <1>1, <1>5 DEF Restart
<1> QED
  BY <1>1, <1>3, <1>4, <1>5
  DEF Next, vars, core, Register, Disconnect, StartTask, ReceiveAdvertise, QueueRelay,
      QueueAdvertise, Spread, Send, SendHeard

\* Without a fault a bundle that a known neighbour lacks is due for spreading.
NobodyIsGivenUp ==
    faults = 0 =>
        \A n \in Node : \A m \in known[n] : store[n] \ store[m] \subseteq Spreadable(n)

\* Without a fault: whatever the radio loses and however stale the hashes are, a
\* bundle that a known neighbour lacks is one that the next tick of the spreading
\* queues again, at every moment until the neighbour has it.
THEOREM NeighboursStayDue == Spec => []NobodyIsGivenUp
<1>1. TypeOK /\ BeliefInv /\ NothingForgotten => NobodyIsGivenUp
  <2> SUFFICES ASSUME TypeOK, KnowledgeSound, NothingForgotten, faults = 0,
                      NEW n \in Node, NEW m \in known[n], NEW b \in store[n] \ store[m]
               PROVE  b \in Spreadable(n)
    BY DEF BeliefInv, NobodyIsGivenUp
  <2>1. m \in Node
    BY DEF TypeOK
  <2>2. b \notin hashOf[n][m] /\ b \notin seenAt[n][m]
    BY <2>1 DEF KnowledgeSound, NothingForgotten
  <2> QED BY <2>2 DEF Spreadable
<1>2. Init => NothingForgotten
  BY DEF Init, NothingForgotten
<1>3. Spec => []NothingForgotten
  BY <1>2, TypeCorrect, NothingIsForgotten, PTL DEF Spec
<1> QED BY <1>1, <1>3, TypeCorrect, BeliefsTrue, PTL

\* What it needs besides: no step but a fault takes a bundle out of a store.
THEOREM StoresGrow == Spec => [][\A n \in Node : faults' = 0 => store[n] \subseteq store'[n]]_vars
<1>1. TypeOK /\ NothingForgotten /\ [Next]_vars
        => \A n \in Node : faults' = 0 => store[n] \subseteq store'[n]
  <2> SUFFICES ASSUME TypeOK, NothingForgotten, [Next]_vars, NEW n \in Node, faults' = 0
               PROVE  store[n] \subseteq store'[n]
    OBVIOUS
  <2>1. store[n] = everHeld[n] /\ store'[n] = everHeld'[n]
    BY FaultsGrow, NothingIsForgotten DEF NothingForgotten
  <2> QED BY <2>1, HeldGrows
<1>2. Init => NothingForgotten
  BY DEF Init, NothingForgotten
<1> QED BY <1>1, <1>2, TypeCorrect, NothingIsForgotten, PTL DEF Spec

---------------------------------------------------------------------------
(* The priority of a relay.                                                *)

\* ceil of a bearing over 90 degrees.
LEMMA FiveQuadrants == Quadrants = 0 .. 4
<1>1. ASSUME NEW g \in 0 .. 359
      PROVE  QuadrantOf(g) \in 0 .. 4
  BY DEF QuadrantOf
<1>2. ASSUME NEW q \in 1 .. 4
      PROVE  \E g \in 0 .. 359 : q = QuadrantOf(g)
  <2>1. 90 * q - 90 + 1 \in 0 .. 359 /\ (90 * q - 90 + 1 + 89) \div 90 = q
    OBVIOUS
  <2> QED BY <2>1 DEF QuadrantOf
<1>3. ASSUME NEW q \in Quadrants
      PROVE  q \in 0 .. 4
  BY <1>1 DEF Quadrants, Unknown
<1>4. ASSUME NEW q \in 0 .. 4
      PROVE  q \in Quadrants
  <2>1. CASE q = 0
    BY <2>1 DEF Quadrants, Unknown
  <2>2. CASE q \in 1 .. 4
    BY <1>2, <2>2 DEF Quadrants
  <2> QED BY <2>1, <2>2
<1> HIDE DEF Quadrants
<1> QED BY <1>3, <1>4

LEMMA SamePair ==
    ASSUME NEW a, NEW b, NEW x, NEW y
    PROVE  {a, b} = {x, y} <=> (a = x /\ b = y) \/ (a = y /\ b = x)
<1>1. ASSUME {a, b} = {x, y}
      PROVE  (a = x /\ b = y) \/ (a = y /\ b = x)
  <2>1. a \in {x, y} /\ b \in {x, y} /\ x \in {a, b} /\ y \in {a, b}
    BY <1>1
  <2> QED BY <2>1
<1>2. ASSUME (a = x /\ b = y) \/ (a = y /\ b = x)
      PROVE  {a, b} = {x, y}
  BY <1>2
<1> QED BY <1>1, <1>2

\* Between different quadrants the distance is 1 exactly beside one another, and
\* where one of the positions is not known.
LEMMA DistanceIsSideways ==
    ASSUME NEW a \in Quadrants, NEW b \in Quadrants
    PROVE  (b # a /\ QuadDistance(a, b) = 1)
             <=> (Adjacent(a, b) \/ (a = Unknown) # (b = Unknown))
<1>1. a \in {0, 1, 2, 3, 4} /\ b \in {0, 1, 2, 3, 4}
  BY FiveQuadrants
<1>2. Adjacent(a, b) <=> \/ {a, b} = {1, 2} \/ {a, b} = {2, 3}
                         \/ {a, b} = {3, 4} \/ {a, b} = {4, 1}
  BY DEF Adjacent
<1>3. Adjacent(a, b) <=> \/ (a = 1 /\ b = 2) \/ (a = 2 /\ b = 1)
                         \/ (a = 2 /\ b = 3) \/ (a = 3 /\ b = 2)
                         \/ (a = 3 /\ b = 4) \/ (a = 4 /\ b = 3)
                         \/ (a = 4 /\ b = 1) \/ (a = 1 /\ b = 4)
  BY <1>2, SamePair
<1>4. CASE a = 0 \/ b = 0
  <2>1. QuadDistance(a, b) = 1
    BY <1>4 DEF QuadDistance, Unknown
  <2> QED BY <1>1, <1>3, <1>4, <2>1 DEF Unknown
<1>5. CASE a # 0 /\ b # 0
  <2>1. QuadDistance(a, b) = (IF a > b THEN a - b ELSE b - a) % 2
    BY <1>5 DEF QuadDistance, Unknown
  <2>2. a \in {1, 2, 3, 4} /\ b \in {1, 2, 3, 4}
    BY <1>1, <1>5
  <2>3. 0 % 2 = 0 /\ 1 % 2 = 1 /\ 2 % 2 = 0 /\ 3 % 2 = 1
    OBVIOUS
  <2>4. QuadDistance(a, b) = 1 <=> (a - b \in {1, 3} \/ b - a \in {1, 3})
    BY <2>1, <2>2, <2>3
  <2> QED BY <1>3, <1>5, <2>2, <2>4 DEF Unknown
<1> QED BY <1>4, <1>5

\* retransmission_priority, for any set of neighbours: ten for each that lacks the
\* bundle and lies beside the sender's quadrant, or where one of the two positions
\* is not known, and nothing for one on the far side, which the sender is least
\* likely to reach.
THEOREM PriorityCountsSideways ==
    ASSUME NEW N, NEW nbs \in [N -> Neighbor], NEW sender, NEW quad \in Quadrants
    PROVE  RetransmissionPriority(quad, nbs, sender) =
             10 * Cardinality({n \in N \ {sender} :
                 /\ Lacks(nbs[n])
                 /\ \/ Adjacent(quad, nbs[n].quad)
                    \/ (quad = Unknown) # (nbs[n].quad = Unknown)})
<1> DEFINE Asked == {n \in DOMAIN nbs \ {sender} : Lacks(nbs[n]) /\ nbs[n].quad # quad}
           Ones == {n \in Asked : QuadDistance(quad, nbs[n].quad) = 1}
           Beside(n) == \/ Adjacent(quad, nbs[n].quad)
                        \/ (quad = Unknown) # (nbs[n].quad = Unknown)
<1>1. ASSUME NEW n \in N
      PROVE  nbs[n].quad # quad /\ QuadDistance(quad, nbs[n].quad) = 1 <=> Beside(n)
  <2>1. nbs[n].quad \in Quadrants
    BY DEF Neighbor
  <2> QED BY <2>1, DistanceIsSideways
<1>2. Ones = {n \in N \ {sender} : Lacks(nbs[n]) /\ Beside(n)}
  <2> HIDE DEF Beside
  <2> QED BY <1>1
<1>3. RetransmissionPriority(quad, nbs, sender) = 10 * Cardinality(Ones)
  BY DEF RetransmissionPriority
<1> HIDE DEF Ones
<1> QED BY <1>2, <1>3

============================================================================
