------------------------- MODULE SprayAndWaitProofs -------------------------
(***************************************************************************)
(* Proofs about SprayAndWait, for any bundles, peers and destinations, any *)
(* MAX_COPIES and SEND_PACKETS.                                            *)
(***************************************************************************)
EXTENDS SprayAndWait, TLAPS

\* Subtracting one copy: exact unless there is none.
LEMMA DecrementedExact ==
    ASSUME NEW x \in 0 .. Word - 1
    PROVE  /\ Decremented(x) \in 0 .. Word - 1
           /\ x # 0 => Decremented(x) = x - 1
BY CopyAssumption DEF Decremented

LEMMA CopiesFit == ASSUME NEW b \in Bundle
                   PROVE  Copies(b) \in 0 .. Word - 1 /\ Copies(b) \in Nat
BY CopyAssumption DEF Copies

\* Every variable keeps its type, whether or not the node id changes.
THEOREM TypeCorrect == Spec => []TypeOK
<1>1. Init => TypeOK
  BY CopyAssumption DEF Init, TypeOK, Ages
<1>2. TypeOK /\ [Next]_vars => TypeOK'
  <2> SUFFICES ASSUME TypeOK, [Next]_vars PROVE TypeOK'
    OBVIOUS
  <2> USE DEF TypeOK
  <2>1. CASE Rename
    BY <2>1 DEF Rename, peers, history, tick
  <2>2. ASSUME NEW p \in Peer, PeerSeen(p) \/ PeerAges(p) PROVE TypeOK'
    BY <2>2 DEF PeerSeen, PeerAges, Ages, identity, history, tick
  <2>3. ASSUME NEW b \in Bundle, ForwardData(b) PROVE TypeOK'
    BY <2>3, CopiesFit DEF ForwardData, identity, peers, tick
  <2>4. ASSUME NEW b \in Bundle, PushCollected(b) PROVE TypeOK'
    BY <2>4 DEF PushCollected, Entry, BundleEntry, identity, peers, history
  <2>5. CASE RecommendAdvertise
    BY <2>5 DEF RecommendAdvertise, Entry, identity, peers, history, tick
  <2>6. CASE OtherEvent
    BY <2>6 DEF OtherEvent, identity, peers, history, tick
  <2>7. CASE Tick
    BY <2>7 DEF Tick, identity, peers, history
  <2>8. CASE Rescore
    BY <2>8, SendAssumption DEF Rescore, identity, peers, history
  <2>9. ASSUME NEW e \in queue, PopAdvertise(e) \/ PopAndWait(e) PROVE TypeOK'
    BY <2>9 DEF PopAdvertise, PopAndWait, identity, peers, history
  <2>10. ASSUME NEW e \in queue, PopAndSend(e) PROVE TypeOK'
    <3>1. e.bndl \in Bundle
      BY <2>10 DEF PopAndSend, BundleEntry
    <3>2. remaining' \in [Bundle -> 0 .. Word - 1]
      BY <2>10, <3>1, DecrementedExact DEF PopAndSend
    <3>3. nodes' \in [Bundle -> SUBSET Peer]
      BY <2>10, <3>1 DEF PopAndSend, Near
    <3> QED BY <2>10, <3>2, <3>3 DEF PopAndSend, identity, peers
  <2>11. CASE Finish
    BY <2>11 DEF Finish, identity, peers, history
  <2>12. CASE ForwardUnparsable
    BY <2>12 DEF ForwardUnparsable, identity, peers, history
  <2>13. CASE UNCHANGED vars
    BY <2>13 DEF vars, identity, peers, history, tick
  <2> QED
    BY <2>1, <2>2, <2>3, <2>4, <2>5, <2>6, <2>7, <2>8, <2>9, <2>10, <2>11, <2>12, <2>13
       DEF Next
<1> QED BY <1>1, <1>2, PTL DEF Spec

---------------------------------------------------------------------------
(* The copy budget, as long as the node id has not changed.  Until then a   *)
(* bundle is in the queue at most once, so the copies the re-score saw are  *)
(* still there when the entry is popped.                                    *)

StableId ==
    /\ loopId = named
    /\ \A e \in queue \cap BundleEntry : e.named = named

Conserved ==
    \A b \in Bundle :
        /\ given[b] + remaining[b] = granted[b]
        /\ b \notin held => given[b] = 0 /\ granted[b] = 0

PoppableHasCopies ==
    phase = "popping" => \A e \in queue \cap BundleEntry : remaining[e.bndl] # 0

BudgetInv == StableId /\ Conserved /\ PoppableHasCopies

\* An advertisement is not a packet of a bundle.
LEMMA AdvertiseNoBundle ==
    ASSUME NEW s
    PROVE  [slot |-> s] \notin BundleEntry
<1> SUFFICES ASSUME [slot |-> s] \in BundleEntry PROVE FALSE
  OBVIOUS
<1>1. DOMAIN [slot |-> s] = {"bndl", "named"}
  BY DEF BundleEntry
<1>2. "slot" \in DOMAIN [slot |-> s]
  OBVIOUS
<1> QED BY <1>1, <1>2

\* The count of changes never goes back.
LEMMA RenamesGrow ==
    ASSUME TypeOK, [Next]_vars, renames' = 0
    PROVE  renames = 0
<1>1. CASE Rename
  BY <1>1 DEF Rename, TypeOK
<1>2. CASE UNCHANGED renames
  BY <1>2
<1> QED
  BY <1>1, <1>2 DEF Next, vars, PeerSeen, PeerAges, ForwardData, PushCollected,
     RecommendAdvertise,
       ForwardUnparsable, OtherEvent, Tick, Rescore, PopAdvertise, PopAndSend, PopAndWait,
     Finish, identity

LEMMA BudgetInductive ==
    ASSUME renames' = 0, TypeOK, BudgetInv, [Next]_vars
    PROVE  BudgetInv'
<1> USE DEF BudgetInv
<1>1. CASE Rename
  BY <1>1 DEF Rename, TypeOK
<1>2. ASSUME NEW p \in Peer, PeerSeen(p) \/ PeerAges(p) PROVE BudgetInv'
  <2>1. UNCHANGED <<identity, loopId, history, queue, tick>> /\ met \subseteq met'
    BY <1>2 DEF PeerSeen, PeerAges
  <2> QED
    BY <2>1 DEF StableId, Conserved, PoppableHasCopies, identity, history, tick
<1>3. ASSUME NEW b \in Bundle, ForwardData(b) PROVE BudgetInv'
  <2>1. UNCHANGED <<identity, age, met, nodes, given, queue, tick>> /\ loopId' = named
    BY <1>3 DEF ForwardData, peers
  <2>2. /\ Copies(b) \in Nat /\ given[b] = 0
        /\ held' = held \cup {b}
        /\ remaining' = [remaining EXCEPT ![b] = Copies(b)]
        /\ granted' = [granted EXCEPT ![b] = Copies(b)]
    BY <1>3, CopiesFit DEF ForwardData, Conserved
  <2>3. Conserved'
    BY <2>1, <2>2 DEF Conserved, TypeOK
  <2>4. PoppableHasCopies'
    BY <1>3, <2>1 DEF ForwardData, PoppableHasCopies, tick
  <2> QED BY <2>1, <2>3, <2>4 DEF StableId, identity
<1>4. ASSUME NEW b \in Bundle, PushCollected(b) PROVE BudgetInv'
  <2>1. UNCHANGED <<identity, loopId, peers, history, phase>> /\ phase # "popping"
    BY <1>4 DEF PushCollected
  <2>2. \A e \in queue' : e \in queue \/ e = [bndl |-> b, named |-> loopId]
    BY <1>4 DEF PushCollected
  <2>3. StableId'
    BY <2>1, <2>2 DEF StableId, identity
  <2> QED
    BY <2>1, <2>3 DEF Conserved, PoppableHasCopies,
       peers, history
<1>5. CASE RecommendAdvertise
  <2>1. UNCHANGED <<identity, peers, history, tick>> /\ loopId' = named /\ phase = "idle"
    BY <1>5 DEF RecommendAdvertise
  <2>2. queue' \cap BundleEntry = queue \cap BundleEntry
    BY <1>5, AdvertiseNoBundle DEF RecommendAdvertise
  <2> QED
    BY <2>1, <2>2 DEF StableId, Conserved, PoppableHasCopies,
       identity, peers, history, tick
<1>6. CASE OtherEvent
  BY <1>6 DEF OtherEvent, StableId, Conserved, PoppableHasCopies, identity, peers, history, tick
<1>7. CASE Tick
  BY <1>7 DEF Tick, StableId, Conserved, PoppableHasCopies, identity, peers, history
<1>8. CASE Rescore
  <2>1. UNCHANGED <<identity, loopId, peers, history>> /\ queue' \subseteq queue
    BY <1>8 DEF Rescore
  <2>2. PoppableHasCopies'
    BY <1>8, <2>1 DEF Rescore, PoppableHasCopies, Allowed, Allow, history
  <2> QED
    BY <2>1, <2>2 DEF StableId, Conserved,
       identity, peers, history
<1>9. ASSUME NEW e \in queue, PopAdvertise(e) \/ PopAndWait(e) PROVE BudgetInv'
  <2>1. UNCHANGED <<identity, loopId, peers, history, phase>> /\ queue' \subseteq queue
    BY <1>9 DEF PopAdvertise, PopAndWait
  <2> QED
    BY <2>1 DEF StableId, Conserved, PoppableHasCopies,
       identity, peers, history
<1>10. ASSUME NEW e \in queue, PopAndSend(e) PROVE BudgetInv'
  <2> DEFINE b == e.bndl
  <2>1. /\ UNCHANGED <<identity, loopId, peers, held, granted, phase>>
        /\ queue' = queue \ {e} /\ phase = "popping"
        /\ given' = [given EXCEPT ![b] = @ + 1]
        /\ MayLeave(b)
    BY <1>10 DEF PopAndSend
  <2>2. b \in Bundle /\ e \in BundleEntry
    BY <1>10 DEF PopAndSend, BundleEntry
  <2>3. remaining[b] # 0
    BY <2>1, <2>2 DEF PoppableHasCopies
  <2>4. remaining' = [remaining EXCEPT ![b] = remaining[b] - 1]
    BY <1>10, <2>2, <2>3, DecrementedExact DEF PopAndSend, TypeOK
  <2>5. b \in held
    BY <2>2, <2>3 DEF Conserved, TypeOK
  <2>6. Conserved'
    <3> SUFFICES ASSUME NEW c \in Bundle
                 PROVE  /\ given'[c] + remaining'[c] = granted[c]
                        /\ c \notin held => given'[c] = 0 /\ granted[c] = 0
      BY <2>1 DEF Conserved
    <3>1. given[c] \in Nat /\ remaining[c] \in Nat
      BY CopyAssumption DEF TypeOK
    <3>2. given[c] + remaining[c] = granted[c]
      BY DEF Conserved
    <3>3. CASE c = b
      <4>1. given'[c] = given[c] + 1 /\ remaining'[c] = remaining[c] - 1
        BY <2>1, <2>2, <2>4, <3>3 DEF TypeOK
      <4> QED BY <2>5, <3>1, <3>2, <3>3, <4>1
    <3>4. CASE c # b
      <4>1. given'[c] = given[c] /\ remaining'[c] = remaining[c]
        BY <2>1, <2>2, <2>4, <3>4 DEF TypeOK
      <4> QED BY <3>2, <4>1 DEF Conserved
    <3> QED BY <3>3, <3>4
  <2>7. PoppableHasCopies'
    <3> SUFFICES ASSUME NEW f \in queue' \cap BundleEntry PROVE remaining'[f.bndl] # 0
      BY DEF PoppableHasCopies
    <3>1. f.bndl \in Bundle /\ remaining[f.bndl] # 0 /\ f # e
      BY <2>1 DEF PoppableHasCopies, BundleEntry
    <3>2. f.named = e.named
      BY <2>1, <2>2 DEF StableId
    <3>3. f.bndl # b
      BY <2>2, <3>1, <3>2 DEF BundleEntry
    <3> QED BY <2>2, <2>4, <3>1, <3>3 DEF TypeOK
  <2>8. StableId'
    BY <2>1 DEF StableId, identity
  <2> QED BY <2>6, <2>7, <2>8
<1>11. CASE Finish
  BY <1>11 DEF Finish, StableId, Conserved, PoppableHasCopies, identity, peers, history
<1>12. CASE ForwardUnparsable
  BY <1>12 DEF ForwardUnparsable, StableId, Conserved, PoppableHasCopies, identity, peers,
     history
<1>13. CASE UNCHANGED vars
  BY <1>13 DEF vars, StableId, Conserved, PoppableHasCopies, identity, peers, history, tick
<1> QED
  BY <1>1, <1>2, <1>3, <1>4, <1>5, <1>6, <1>7, <1>8, <1>9, <1>10, <1>11, <1>12, <1>13
     DEF Next

LEMMA BudgetInvariant ==
    Spec => [](renames = 0 => BudgetInv)
<1>1. Init => BudgetInv
  BY DEF Init, BudgetInv, StableId, Conserved, PoppableHasCopies
<1>2. TypeOK /\ (renames = 0 => BudgetInv) /\ [Next]_vars => (renames = 0 => BudgetInv)'
  BY BudgetInductive, RenamesGrow
<1> QED BY <1>1, <1>2, TypeCorrect, PTL DEF Spec

\* As long as the node id has not changed, copies are conserved: every packet of a
\* bundle takes one of the copies it started with, and none is taken twice.
THEOREM CopiesConserved == Spec => []CopyBudget
<1>1. TypeOK /\ (renames = 0 => BudgetInv) => CopyBudget
  BY DEF TypeOK, BudgetInv, Conserved, CopyBudget
<1> QED BY <1>1, BudgetInvariant, TypeCorrect, PTL

\* While the node id does not change, a packet leaves only for a copy that is
\* left, although copies are counted when packets are queued and taken when
\* they are popped.
THEOREM NoSendWithoutCopy == Spec => NoCopiesNoSendingUnrenamed
<1>1. ASSUME TypeOK, BudgetInv, Next PROVE PaidFor
  <2>1. ASSUME NEW e \in queue, PopAndSend(e) PROVE PaidFor
    <3>1. e.bndl \in Bundle /\ remaining[e.bndl] # 0
      BY <1>1, <2>1 DEF PopAndSend, BundleEntry, BudgetInv, PoppableHasCopies
    <3> QED BY <1>1, <2>1, <3>1 DEF PopAndSend, TypeOK, PaidFor
  <2> QED
    BY <1>1, <2>1 DEF Next, Rename, PeerSeen, PeerAges, ForwardData, PushCollected,
       RecommendAdvertise,
       ForwardUnparsable, OtherEvent, Tick, Rescore, PopAdvertise, PopAndWait, Finish,
       history, PaidFor
<1>2. TypeOK /\ (renames = 0 => BudgetInv) /\ [Next]_vars => [renames = 0 => PaidFor]_vars
  BY <1>1
<1> QED BY <1>2, BudgetInvariant, TypeCorrect, PTL DEF Spec, NoCopiesNoSendingUnrenamed

---------------------------------------------------------------------------
(* The waiting copy, whatever becomes of the node id: as long as the        *)
(* destination was never in range, every pop leaves a copy behind.          *)

NearWereMet == \A p \in Peer : age[p] = "near" => p \in met

Unmet ==
    \A b \in Bundle : Dest[b] \notin met =>
        /\ given[b] + remaining[b] = granted[b]
        /\ remaining[b] = 0 => given[b] = 0
        /\ b \notin held => given[b] = 0 /\ granted[b] = 0

WaitInv == NearWereMet /\ Unmet

LEMMA WaitInductive ==
    ASSUME TypeOK, WaitInv, [Next]_vars
    PROVE  WaitInv'
<1> USE DEF WaitInv
<1>1. ASSUME UNCHANGED <<peers, history>> PROVE WaitInv'
  BY <1>1 DEF NearWereMet, Unmet, peers, history
<1>2. ASSUME NEW p \in Peer, PeerSeen(p) \/ PeerAges(p) PROVE WaitInv'
  <2>1. UNCHANGED history /\ met \subseteq met'
    BY <1>2 DEF PeerSeen, PeerAges
  <2>2. NearWereMet'
    BY <1>2 DEF PeerSeen, PeerAges, NearWereMet, TypeOK
  <2> QED BY <2>1, <2>2 DEF Unmet, history
<1>3. ASSUME NEW b \in Bundle, ForwardData(b) PROVE WaitInv'
  <2>1. UNCHANGED <<age, met, given>> /\ b \notin held /\ held' = held \cup {b}
    BY <1>3 DEF ForwardData, peers
  <2>2. /\ Copies(b) \in Nat
        /\ remaining' = [remaining EXCEPT ![b] = Copies(b)]
        /\ granted' = [granted EXCEPT ![b] = Copies(b)]
    BY <1>3, CopiesFit DEF ForwardData
  <2> SUFFICES ASSUME NEW c \in Bundle, Dest[c] \notin met
               PROVE  /\ given[c] + remaining'[c] = granted'[c]
                      /\ remaining'[c] = 0 => given[c] = 0
                      /\ c \notin held' => given[c] = 0 /\ granted'[c] = 0
    BY <2>1 DEF NearWereMet, Unmet
  <2>3. CASE c = b
    <3>1. given[c] = 0 /\ c \in held'
      BY <2>1, <2>3 DEF Unmet
    <3>2. remaining'[c] = Copies(b) /\ granted'[c] = Copies(b)
      BY <2>2, <2>3 DEF TypeOK
    <3> QED BY <2>2, <3>1, <3>2
  <2>4. CASE c # b
    <3>1. remaining'[c] = remaining[c] /\ granted'[c] = granted[c]
      BY <2>2, <2>4 DEF TypeOK
    <3> QED BY <2>1, <2>4, <3>1 DEF Unmet
  <2> QED BY <2>3, <2>4
<1>4. ASSUME NEW e \in queue, PopAndSend(e) PROVE WaitInv'
  <2> DEFINE b == e.bndl
  <2>1. /\ b \in Bundle
        /\ UNCHANGED <<age, met, held, granted>>
        /\ given' = [given EXCEPT ![b] = @ + 1]
        /\ remaining' = [remaining EXCEPT ![b] = Decremented(remaining[b])]
        /\ MayLeave(b)
    BY <1>4 DEF PopAndSend, BundleEntry, peers
  <2> SUFFICES ASSUME NEW c \in Bundle, Dest[c] \notin met
               PROVE  /\ given'[c] + remaining'[c] = granted[c]
                      /\ remaining'[c] = 0 => given'[c] = 0
                      /\ c \notin held => given'[c] = 0 /\ granted[c] = 0
    BY <2>1 DEF NearWereMet, Unmet
  <2>2. CASE c # b
    <3>1. given'[c] = given[c] /\ remaining'[c] = remaining[c]
      BY <2>1, <2>2 DEF TypeOK
    <3> QED BY <3>1 DEF Unmet
  <2>3. CASE c = b
    <3>1. Dest[b] \notin Near
      BY <2>3 DEF Near, NearWereMet
    <3>2. remaining[b] >= 2
      BY <2>1, <3>1 DEF MayLeave
    <3>3. remaining[b] \in 0 .. Word - 1 /\ given[b] \in Nat /\ granted[b] \in Nat
      BY <2>1 DEF TypeOK
    <3>4. Decremented(remaining[b]) = remaining[b] - 1
      BY <3>2, <3>3, DecrementedExact, CopyAssumption
    <3>5. given'[b] = given[b] + 1 /\ remaining'[b] = remaining[b] - 1
      BY <2>1, <3>4 DEF TypeOK
    <3>6. given[b] + remaining[b] = granted[b] /\ (b \notin held => given[b] = 0 /\ granted[b] = 0)
      BY <2>1, <2>3 DEF Unmet
    <3>7. remaining[b] \in Int
      BY <3>3, CopyAssumption
    <3> QED BY <2>3, <3>2, <3>3, <3>5, <3>6, <3>7
  <2> QED BY <2>2, <2>3
<1> QED
  BY <1>1, <1>2, <1>3, <1>4 DEF Next, Rename, PushCollected, RecommendAdvertise,
       ForwardUnparsable, OtherEvent,
     Tick, Rescore, PopAdvertise, PopAndWait, Finish, vars

\* The last copy of a bundle waits until its destination has been in range,
\* also when the node id comes and goes and the copies are miscounted.
THEOREM LastCopyIsKept == Spec => []LastCopyWaits
<1>1. Init => WaitInv
  BY DEF Init, WaitInv, NearWereMet, Unmet
<1>2. TypeOK /\ WaitInv => LastCopyWaits
  <2> SUFFICES ASSUME TypeOK, WaitInv, NEW b \in held, given[b] >= 1, given[b] = granted[b],
                      Dest[b] \notin met
               PROVE  FALSE
    BY DEF LastCopyWaits
  <2>1. given[b] \in Nat /\ remaining[b] \in Int /\ b \in Bundle
    BY CopyAssumption DEF TypeOK
  <2>2. given[b] + remaining[b] = granted[b] /\ (remaining[b] = 0 => given[b] = 0)
    BY <2>1 DEF WaitInv, Unmet
  <2> QED BY <2>1, <2>2
<1> QED BY <1>1, <1>2, WaitInductive, TypeCorrect, PTL DEF Spec

---------------------------------------------------------------------------
(* Foreign bundles, once the node id is known before any bundle arrives.   *)

ForeignGrant == \A b \in Bundle \ Own : granted[b] <= 1

KnownForeignGrant == renames = 0 /\ named => ForeignGrant

LEMMA ForeignGrantInvariant == Spec => []KnownForeignGrant
<1>1. Init => KnownForeignGrant
  BY DEF Init, ForeignGrant, KnownForeignGrant
<1>2. TypeOK /\ KnownForeignGrant /\ [Next]_vars => KnownForeignGrant'
  <2> SUFFICES ASSUME TypeOK, KnownForeignGrant, [Next]_vars, renames' = 0, named'
               PROVE  ForeignGrant'
    BY DEF KnownForeignGrant
  <2>1. renames = 0 /\ ~Rename
    <3>1. renames = 0
      BY RenamesGrow
    <3> QED BY <3>1 DEF Rename
  <2>2. UNCHANGED named
    BY <2>1 DEF Next, vars, PeerSeen, PeerAges, ForwardData, PushCollected,
       RecommendAdvertise,
       ForwardUnparsable, OtherEvent, Tick, Rescore, PopAdvertise, PopAndSend, PopAndWait,
       Finish, identity
  <2>3. ForeignGrant
    BY <2>1, <2>2 DEF KnownForeignGrant
  <2>4. ASSUME NEW c \in Bundle, ForwardData(c) PROVE ForeignGrant'
    <3>1. c \notin Own => Copies(c) = 1
      BY <2>2 DEF Copies
    <3> QED BY <2>3, <2>4, <3>1 DEF ForwardData, ForeignGrant, TypeOK
  <2>5. UNCHANGED granted \/ \E c \in Bundle : ForwardData(c)
    BY DEF Next, vars, Rename, PeerSeen, PeerAges, PushCollected, RecommendAdvertise,
       ForwardUnparsable,
       OtherEvent, Tick, Rescore, PopAdvertise, PopAndSend, PopAndWait, Finish, history
  <2> QED BY <2>3, <2>4, <2>5 DEF ForeignGrant
<1> QED BY <1>1, <1>2, TypeCorrect, PTL DEF Spec

\* With a node id that is known from the start and stays, a bundle of another
\* node is put on the air at most once.
THEOREM ForeignIsSentOnce == Spec => []ForeignSentOnce
<1>1. TypeOK /\ (renames = 0 => BudgetInv) /\ KnownForeignGrant => ForeignSentOnce
  <2> SUFFICES ASSUME TypeOK, Conserved, ForeignGrant, NEW b \in Bundle \ Own
               PROVE  given[b] <= 1
    BY DEF BudgetInv, ForeignSentOnce, KnownForeignGrant
  <2>1. given[b] \in Nat /\ remaining[b] \in Nat
    BY CopyAssumption DEF TypeOK
  <2>2. given[b] + remaining[b] = granted[b] /\ granted[b] <= 1
    BY DEF Conserved, ForeignGrant
  <2> QED BY <2>1, <2>2
<1> QED BY <1>1, TypeCorrect, BudgetInvariant, ForeignGrantInvariant, PTL

============================================================================
