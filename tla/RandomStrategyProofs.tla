------------------------ MODULE RandomStrategyProofs ------------------------
(***************************************************************************)
(* Proofs about RandomStrategy, for all constants.                         *)
(*                                                                         *)
(* The invariant says of the queue what the strategy relies on: it is      *)
(* finite, holds bundles only, and a bundle waits once under each node id. *)
(***************************************************************************)
EXTENDS RandomStrategy, FiniteSetTheorems, TLAPS

QueueInv ==
    /\ IsFiniteSet(queue)
    /\ \A e \in queue : e.bndl \in Bundle
    /\ \A e, f \in queue : e.bndl = f.bndl /\ e.meta = f.meta => e = f

---------------------------------------------------------------------------
(* The queue.                                                              *)

LEMMA Scores == Score \subseteq Q!Base /\ Q!Base \subseteq Int
BY ScoreAssumption DEF Score, Q!Base

LEMMA NoWaitingScore == Q!WaitingScore(0) = 0
BY DEF Q!WaitingScore

LEMMA NewEntryType ==
    ASSUME NEW b \in Bundle, NEW score \in Score, NEW id \in Sender
    PROVE  /\ Q!NewEntry(score, b, id, 0) \in Q!Entry
           /\ Q!NewEntry(score, b, id, 0).bndl = b
           /\ Q!NewEntry(score, b, id, 0).meta = id
BY Scores, NoWaitingScore DEF Q!NewEntry, Q!Entry

LEMMA ReprioritisedType ==
    ASSUME NEW e \in Q!Entry, NEW score \in Score
    PROVE  /\ Q!Reprioritised(e, score) \in Q!Entry
           /\ Q!Reprioritised(e, score).bndl = e.bndl
           /\ Q!Reprioritised(e, score).meta = e.meta
BY Scores, NoWaitingScore DEF Q!Reprioritised, Q!Entry

\* The entries of a bundle.
Of(q, b) == {e \in q : e.bndl = b}

\* A push merges with an equal entry or adds one, of the pushed bundle.
LEMMA PushedQueue ==
    ASSUME TypeOK, QueueInv, NEW b \in Bundle, NEW score \in Score,
           NEW P, P = Q!Pushed(score, b, loopId, 0)
    PROVE  /\ P \in SUBSET Q!Entry /\ IsFiniteSet(P)
           /\ \A e \in P : e.bndl \in Bundle
           /\ \A e, f \in P : e.bndl = f.bndl /\ e.meta = f.meta => e = f
           /\ Items(P) = Items(queue) \cup {[bndl |-> b, sender |-> loopId]}
           /\ \A c \in Bundle :
                /\ IsFiniteSet(Of(P, c)) /\ IsFiniteSet(Of(queue, c))
                /\ Cardinality(Of(P, c)) <=
                     Cardinality(Of(queue, c)) + (IF c = b THEN 1 ELSE 0)
<1>0. queue \in SUBSET Q!Entry /\ loopId \in Sender /\ IsFiniteSet(queue) /\ b # NoName
  BY NameAssumption DEF TypeOK, QueueInv
<1>1. \A e : Q!SameEntry(e, b, loopId) <=> e.bndl = b /\ e.meta = loopId
  BY <1>0 DEF Q!SameEntry
<1>2. \A c : IsFiniteSet(Of(queue, c)) /\ Cardinality(Of(queue, c)) \in Nat
  <2>1. \A c : Of(queue, c) \in SUBSET queue
    BY DEF Of
  <2> QED BY <1>0, <2>1, FS_Subset, FS_CardinalityType
<1>3. CASE \E g \in queue : Q!SameEntry(g, b, loopId)
  <2> DEFINE New(e) == IF Q!SameEntry(e, b, loopId) THEN Q!Reprioritised(e, score) ELSE e
  <2>1. P = {New(e) : e \in queue}
    BY <1>3 DEF Q!Pushed
  <2>2. \A e \in queue : New(e) \in Q!Entry /\ New(e).bndl = e.bndl /\ New(e).meta = e.meta
    BY <1>0, ReprioritisedType
  <2> DEFINE F == [e \in queue |-> New(e)]
  <2>3. IsFiniteSet(P)
    <3>1. F \in Surjection(queue, P)
      BY <2>1 DEF Surjection
    <3> QED BY <1>0, <3>1, FS_Surjection
  <2>4. ASSUME NEW c \in Bundle
        PROVE  /\ IsFiniteSet(Of(P, c))
               /\ Cardinality(Of(P, c)) <= Cardinality(Of(queue, c))
    <3> DEFINE G == [e \in Of(queue, c) |-> New(e)]
    <3> HIDE DEF New
    <3>1. G \in Surjection(Of(queue, c), Of(P, c))
      BY <2>1, <2>2 DEF Surjection, Of
    <3> QED BY <1>2, <3>1, FS_Surjection
  <2> HIDE DEF New
  <2>5. P \in SUBSET Q!Entry
    BY <2>1, <2>2
  <2>6. \A e \in P : e.bndl \in Bundle
    BY <2>1, <2>2 DEF QueueInv
  <2>7. \A e, f \in P : e.bndl = f.bndl /\ e.meta = f.meta => e = f
    BY <2>1, <2>2 DEF QueueInv
  <2>8. Items(P) = Items(queue)
    BY <2>1, <2>2 DEF Items
  <2>9. [bndl |-> b, sender |-> loopId] \in Items(queue)
    BY <1>1, <1>3 DEF Items
  <2>10. \A c \in Bundle : Cardinality(Of(P, c)) \in Nat
    BY <2>4, FS_CardinalityType
  <2>11. \A c \in Bundle : Cardinality(Of(P, c)) <=
                                Cardinality(Of(queue, c)) + (IF c = b THEN 1 ELSE 0)
    BY <1>2, <2>4, <2>10
  <2> QED BY <1>2, <2>3, <2>4, <2>5, <2>6, <2>7, <2>8, <2>9, <2>11
<1>4. CASE ~ \E g \in queue : Q!SameEntry(g, b, loopId)
  <2> DEFINE n == Q!NewEntry(score, b, loopId, 0)
  <2>1. P = queue \cup {n}
    BY <1>4 DEF Q!Pushed
  <2>2. n \in Q!Entry /\ n.bndl = b /\ n.meta = loopId
    BY <1>0, NewEntryType
  <2> HIDE DEF n
  <2>3. IsFiniteSet(P) /\ P \in SUBSET Q!Entry
    BY <1>0, <2>1, <2>2, FS_AddElement
  <2>4. \A e \in P : e.bndl \in Bundle
    BY <2>1, <2>2 DEF QueueInv
  <2>5. \A e, f \in P : e.bndl = f.bndl /\ e.meta = f.meta => e = f
    BY <1>1, <1>4, <2>1, <2>2 DEF QueueInv
  <2>6. Items(P) = Items(queue) \cup {[bndl |-> b, sender |-> loopId]}
    BY <2>1, <2>2 DEF Items
  <2>7. ASSUME NEW c \in Bundle
        PROVE  /\ IsFiniteSet(Of(P, c))
               /\ Cardinality(Of(P, c)) <=
                    Cardinality(Of(queue, c)) + (IF c = b THEN 1 ELSE 0)
    <3>1. CASE c = b
      <4>1. Of(P, c) = Of(queue, c) \cup {n}
        BY <2>1, <2>2, <3>1 DEF Of
      <4> QED BY <1>2, <3>1, <4>1, FS_AddElement
    <3>2. CASE c # b
      <4>1. Of(P, c) = Of(queue, c)
        BY <2>1, <2>2, <3>2 DEF Of
      <4> QED BY <1>2, <3>2, <4>1
    <3> QED BY <3>1, <3>2
  <2> QED BY <1>2, <2>3, <2>4, <2>5, <2>6, <2>7
<1> QED BY <1>3, <1>4

\* A send interval takes no more from the queue than what the advertisement leaves.
LEMMA PoppedQueue ==
    ASSUME TypeOK, QueueInv,
           NEW S \in IF peers THEN Q!Popped(queue, Budget) ELSE {{}}
    PROVE  /\ S \in SUBSET queue /\ IsFiniteSet(S) /\ Cardinality(S) \in Nat
           /\ IsFiniteSet(Aired) /\ Cardinality(Aired) \in Nat
           /\ Cardinality(S) + Cardinality(Aired) <= SendPackets
           /\ \A b : /\ IsFiniteSet(Of(S, b)) /\ IsFiniteSet(Of(queue, b))
                     /\ Cardinality(Of(queue \ S, b)) =
                          Cardinality(Of(queue, b)) - Cardinality(Of(S, b))
<1>1. IsFiniteSet(queue) /\ Cardinality(queue) \in Nat
  BY FS_CardinalityType DEF QueueInv
<1>2. IsFiniteSet(Aired) /\ Cardinality(Aired) \in {0, 1}
  BY FS_EmptySet, FS_Singleton DEF Aired
<1>3. Budget \in Nat /\ Budget + Cardinality(Aired) = SendPackets
  BY <1>2, SendAssumption DEF Budget
<1>4. \A T : Q!Cardinality(T) = Cardinality(T)
  BY DEF Q!Cardinality, Cardinality
<1>5. S \in SUBSET queue /\ Cardinality(S) <= Budget
  <2>1. CASE peers
    BY <1>1, <1>3, <1>4, <2>1 DEF Q!Popped
  <2>2. CASE ~peers
    BY <1>3, <2>2, FS_EmptySet
  <2> QED BY <2>1, <2>2
<1>6. IsFiniteSet(S) /\ Cardinality(S) \in Nat
  BY <1>1, <1>5, FS_Subset, FS_CardinalityType
<1>7. ASSUME NEW b
      PROVE  /\ IsFiniteSet(Of(S, b)) /\ IsFiniteSet(Of(queue, b))
             /\ Cardinality(Of(queue \ S, b)) =
                  Cardinality(Of(queue, b)) - Cardinality(Of(S, b))
  <2>1. /\ Of(S, b) \in SUBSET S /\ Of(queue, b) \in SUBSET queue
        /\ Of(queue \ S, b) = Of(queue, b) \ S /\ Of(queue, b) \cap S = Of(S, b)
    BY <1>5 DEF Of
  <2>2. IsFiniteSet(Of(S, b)) /\ IsFiniteSet(Of(queue, b))
    BY <1>1, <1>6, <2>1, FS_Subset
  <2> QED BY <2>1, <2>2, FS_Difference
<1> QED BY <1>2, <1>3, <1>5, <1>6, <1>7

---------------------------------------------------------------------------
(* Invariants.                                                             *)

LEMMA InitInv == Init => TypeOK /\ QueueInv /\ NoMoreThanHandedIn
<1> SUFFICES ASSUME Init PROVE TypeOK /\ QueueInv /\ NoMoreThanHandedIn
  OBVIOUS
<1>1. /\ queue = {} /\ arrivals = [b \in Bundle |-> 0] /\ departed = [b \in Bundle |-> 0]
      /\ renames = 0
  BY DEF Init
<1>2. TypeOK
  <2>1. /\ arrivals \in [Bundle -> Nat] /\ departed \in [Bundle -> Nat]
        /\ renames \in 0 .. MaxRenames
    BY <1>1, BoundAssumption
  <2> QED BY <2>1 DEF Init, TypeOK
<1>3. QueueInv
  BY <1>1, FS_EmptySet DEF QueueInv
<1>4. NoMoreThanHandedIn
  <2>1. \A b \in Bundle : Waiting(b) = 0
    BY <1>1, FS_EmptySet DEF Waiting
  <2> QED BY <1>1, <2>1 DEF NoMoreThanHandedIn
<1> QED BY <1>2, <1>3, <1>4

LEMMA InvStep ==
    TypeOK /\ QueueInv /\ NoMoreThanHandedIn /\ [Next]_vars
        => TypeOK' /\ QueueInv' /\ NoMoreThanHandedIn'
<1> SUFFICES ASSUME TypeOK, QueueInv, NoMoreThanHandedIn, [Next]_vars
             PROVE  TypeOK' /\ QueueInv' /\ NoMoreThanHandedIn'
  OBVIOUS
<1>0. \A q, b : Of(q, b) = {e \in q : e.bndl = b}
  BY DEF Of
<1>1. CASE Rename \/ PeersChange \/ RecommendAdvertise \/ OtherEvent \/ UNCHANGED vars
  <2>1. UNCHANGED <<queue, arrivals, departed>>
    BY <1>1 DEF Rename, PeersChange, RecommendAdvertise, OtherEvent, vars, history
  <2>2. /\ advert' \in BOOLEAN /\ peers' \in BOOLEAN
        /\ nodeId' \in Sender /\ loopId' \in Sender /\ sent' \in SUBSET Item
        /\ renames' \in 0 .. MaxRenames
    <3> USE BoundAssumption DEF TypeOK
    <3>1. CASE Rename
      <4>1. renames' \in 0 .. MaxRenames
        BY <3>1 DEF Rename
      <4> QED BY <3>1, <4>1 DEF Rename
    <3>2. CASE PeersChange
      BY <3>2 DEF PeersChange
    <3>3. CASE RecommendAdvertise
      BY <3>3 DEF RecommendAdvertise
    <3>4. CASE OtherEvent
      BY <3>4 DEF OtherEvent
    <3>5. CASE UNCHANGED vars
      BY <3>5 DEF vars
    <3> QED BY <1>1, <3>1, <3>2, <3>3, <3>4, <3>5
  <2>3. TypeOK'
    BY <2>1, <2>2 DEF TypeOK
  <2> QED BY <2>1, <2>3 DEF QueueInv, NoMoreThanHandedIn, Waiting
<1>2. ASSUME NEW b \in Bundle, NEW score \in Score, QueueBundle(b, score)
      PROVE  TypeOK' /\ QueueInv' /\ NoMoreThanHandedIn'
  <2>1. /\ queue' = Q!Pushed(score, b, loopId, 0)
        /\ arrivals' = [arrivals EXCEPT ![b] = @ + 1]
        /\ departed' = departed
    BY <1>2 DEF QueueBundle
  <2>2. queue' \in SUBSET Q!Entry /\ QueueInv'
    BY <2>1, PushedQueue DEF QueueInv
  <2>3. TypeOK'
    <3>1. arrivals' \in [Bundle -> Nat]
      BY <2>1 DEF TypeOK
    <3> QED BY <1>2, <2>2, <3>1 DEF QueueBundle, TypeOK
  <2>4. ASSUME NEW c \in Bundle
        PROVE  departed'[c] + Cardinality(Of(queue', c)) <= arrivals'[c]
    <3>1. /\ Cardinality(Of(queue', c)) <=
               Cardinality(Of(queue, c)) + (IF c = b THEN 1 ELSE 0)
          /\ Cardinality(Of(queue, c)) \in Nat /\ Cardinality(Of(queue', c)) \in Nat
      BY <2>1, PushedQueue, FS_CardinalityType
    <3>2. arrivals'[c] = arrivals[c] + (IF c = b THEN 1 ELSE 0)
      BY <2>1 DEF TypeOK
    <3>3. departed[c] + Cardinality(Of(queue, c)) <= arrivals[c]
      BY DEF NoMoreThanHandedIn, Waiting, Of
    <3>4. departed[c] \in Nat /\ arrivals[c] \in Nat
      BY DEF TypeOK
    <3> QED BY <2>1, <3>1, <3>2, <3>3, <3>4
  <2>5. NoMoreThanHandedIn'
    BY <2>4 DEF NoMoreThanHandedIn, Waiting, Of
  <2> QED BY <2>2, <2>3, <2>5
<1>3. CASE SendTick
  <2>1. PICK S \in IF peers THEN Q!Popped(queue, Budget) ELSE {{}} :
            /\ sent' = Items(S) \cup Aired
            /\ queue' = queue \ S
            /\ departed' = [b \in Bundle |->
                    departed[b] + Cardinality({e \in S : e.bndl = b})]
    BY <1>3 DEF SendTick
  <2>2. S \in SUBSET queue
    BY PoppedQueue
  <2>3. QueueInv'
    BY <2>1, <2>2, FS_Subset DEF QueueInv
  <2>4. ASSUME NEW b \in Bundle
        PROVE  /\ Cardinality(Of(S, b)) \in Nat /\ Cardinality(Of(queue, b)) \in Nat
               /\ Cardinality(Of(queue', b)) =
                    Cardinality(Of(queue, b)) - Cardinality(Of(S, b))
               /\ departed'[b] = departed[b] + Cardinality(Of(S, b))
    BY <2>1, PoppedQueue, FS_CardinalityType DEF Of
  <2>5. TypeOK'
    <3>1. departed' \in [Bundle -> Nat]
      <4>1. ASSUME NEW b \in Bundle
            PROVE  departed[b] + Cardinality({e \in S : e.bndl = b}) \in Nat
        <5>1. Cardinality({e \in S : e.bndl = b}) \in Nat
          BY <2>4 DEF Of
        <5>2. departed[b] \in Nat
          BY DEF TypeOK
        <5> QED BY <5>1, <5>2
      <4> QED BY <2>1, <4>1
    <3>2. sent' \in SUBSET Item
      <4>1. \A e \in queue : [bndl |-> e.bndl, sender |-> e.meta] \in Item
        BY DEF TypeOK, Q!Entry, Item
      <4>2. Advertisement \in Item
        BY DEF Advertisement, Item, Sender
      <4> QED BY <2>1, <2>2, <4>1, <4>2 DEF Items, Aired
    <3>3. queue' \in SUBSET Q!Entry
      BY <2>1 DEF TypeOK
    <3> QED BY <1>3, <3>1, <3>2, <3>3 DEF SendTick, TypeOK
  <2>6. ASSUME NEW b \in Bundle
        PROVE  departed'[b] + Cardinality(Of(queue', b)) <= arrivals'[b]
    <3>1. departed[b] + Cardinality(Of(queue, b)) <= arrivals[b]
      BY DEF NoMoreThanHandedIn, Waiting, Of
    <3>2. departed[b] \in Nat /\ arrivals' = arrivals
      BY <1>3 DEF SendTick, TypeOK
    <3> QED BY <2>4, <3>1, <3>2
  <2>7. NoMoreThanHandedIn'
    BY <2>6 DEF NoMoreThanHandedIn, Waiting, Of
  <2> QED BY <2>3, <2>5, <2>7
<1> QED BY <1>1, <1>2, <1>3 DEF Next

LEMMA Inductive == Spec => [](TypeOK /\ QueueInv /\ NoMoreThanHandedIn)
<1> QED BY InitInv, InvStep, PTL DEF Spec

\* For any bundles, node ids and scores the strategy's state stays well typed.
THEOREM TypeCorrect == Spec => []TypeOK
<1> QED BY Inductive, PTL

\* A bundle that waits and merges with copies of itself, under whatever node ids, is
\* never sent more often than it was handed in.
THEOREM SentAsOftenAsAsked == Spec => []NoMoreThanHandedIn
<1> QED BY Inductive, PTL

---------------------------------------------------------------------------
(* The strategy as an outbox.                                              *)

LEMMA BundleAccepted ==
    ASSUME TypeOK, QueueInv, NEW b \in Bundle, NEW score \in Score, QueueBundle(b, score)
    PROVE  \E i \in Item : Promise!Accept(i)
<1> DEFINE i == [bndl |-> b, sender |-> loopId]
<1>1. i \in Item
  BY DEF TypeOK, Item
<1>2. Items(queue') = Items(queue) \cup {i} /\ advert' = advert /\ sent' = {}
  BY PushedQueue DEF QueueBundle
<1>3. Items(queue)' = Items(queue') /\ Aired' = Aired
  BY <1>2 DEF Items, Aired
<1> QED BY <1>1, <1>2, <1>3 DEF Promise!Accept

LEMMA AdvertisementAccepted ==
    ASSUME RecommendAdvertise
    PROVE  \E i \in Item : Promise!Accept(i)
<1>1. Advertisement \in Item
  BY DEF Advertisement, Item, Sender
<1>2. Items(queue)' = Items(queue) /\ Aired' = {Advertisement} /\ sent' = {}
  BY DEF RecommendAdvertise, Items, Aired
<1>3. Items(queue)' \cup Aired' = (Items(queue) \cup Aired) \cup {Advertisement}
  BY <1>2 DEF Aired
<1> QED BY <1>1, <1>2, <1>3 DEF Promise!Accept

LEMMA TickHandsOut ==
    ASSUME TypeOK, QueueInv, SendTick
    PROVE  Promise!HandOut
<1>1. PICK S \in IF peers THEN Q!Popped(queue, Budget) ELSE {{}} :
        sent' = Items(S) \cup Aired /\ queue' = queue \ S
  BY DEF SendTick
<1>2. /\ S \in SUBSET queue /\ IsFiniteSet(S) /\ Cardinality(S) \in Nat
      /\ IsFiniteSet(Aired) /\ Cardinality(Aired) \in Nat
      /\ Cardinality(S) + Cardinality(Aired) <= SendPackets
  BY PoppedQueue
<1>3. Advertisement \notin Items(queue)
  BY NameAssumption DEF QueueInv, Items, Advertisement
<1>4. Items(queue \ S) = Items(queue) \ Items(S)
  <2>1. \A e, f \in queue :
            [bndl |-> e.bndl, sender |-> e.meta] = [bndl |-> f.bndl, sender |-> f.meta]
                => e = f
    BY DEF QueueInv
  <2> QED BY <1>2, <2>1 DEF Items
<1>5. Items(queue)' = Items(queue) \ Items(S) /\ Aired' = {}
  BY <1>1, <1>4 DEF SendTick, Items, Aired
<1>6. Items(S) \cup Aired \in SUBSET (Items(queue) \cup Aired)
  BY <1>2 DEF Items
<1>7. Items(queue)' \cup Aired' = (Items(queue) \cup Aired) \ (Items(S) \cup Aired)
  BY <1>3, <1>5 DEF Aired
<1>8. Cardinality(Items(S) \cup Aired) <= SendPackets
  <2> DEFINE F == [e \in S |-> [bndl |-> e.bndl, sender |-> e.meta]]
  <2>1. F \in Surjection(S, Items(S))
    BY DEF Surjection, Items
  <2>2. IsFiniteSet(Items(S)) /\ Cardinality(Items(S)) <= Cardinality(S)
    BY <1>2, <2>1, FS_Surjection
  <2>3. /\ Cardinality(Items(S)) \in Nat
        /\ IsFiniteSet(Items(S) \cap Aired) /\ Cardinality(Items(S) \cap Aired) \in Nat
    BY <2>2, FS_CardinalityType, FS_Subset
  <2>4. Cardinality(Items(S) \cup Aired) =
            Cardinality(Items(S)) + Cardinality(Aired) - Cardinality(Items(S) \cap Aired)
    BY <1>2, <2>2, FS_Union
  <2> QED BY <1>2, <2>2, <2>3, <2>4, SendAssumption
<1>9. Promise!Cardinality(Items(S) \cup Aired) = Cardinality(Items(S) \cup Aired)
  BY DEF Promise!Cardinality, Cardinality
<1> QED BY <1>1, <1>6, <1>7, <1>8, <1>9 DEF Promise!HandOut

\* With its own scores, a node id that changes and an advertisement kept beside the
\* queue, the strategy keeps the promise of Outbox and refuses nothing.
THEOREM StrategyKeepsPromise == Spec => ImplementsOutbox
<1>1. Init => Promise!Init
  BY DEF Init, Promise!Init, Items, Aired
<1>2. TypeOK /\ QueueInv /\ [Next]_vars => [Promise!Next]_(Promise!vars)
  <2> SUFFICES ASSUME TypeOK, QueueInv, [Next]_vars
               PROVE  [Promise!Next]_(Promise!vars)
    OBVIOUS
  <2>1. ASSUME NEW b \in Bundle, NEW score \in Score, QueueBundle(b, score)
        PROVE  Promise!Next
    BY <2>1, BundleAccepted DEF Promise!Next
  <2>2. CASE RecommendAdvertise
    BY <2>2, AdvertisementAccepted DEF Promise!Next
  <2>3. CASE SendTick
    BY <2>3, TickHandsOut DEF Promise!Next
  <2>4. CASE Rename \/ PeersChange \/ OtherEvent
    <3>1. sent' = {} /\ queue' = queue /\ advert' = advert
      BY <2>4 DEF Rename, PeersChange, OtherEvent
    <3>2. Items(queue)' = Items(queue) /\ Aired' = Aired
      BY <3>1 DEF Items, Aired
    <3> QED BY <3>1, <3>2 DEF Promise!Next, Promise!ChangeRefused
  <2>5. CASE UNCHANGED vars
    BY <2>5 DEF vars, Promise!vars, Items, Aired
  <2> QED BY <2>1, <2>2, <2>3, <2>4, <2>5 DEF Next
<1> QED BY <1>1, <1>2, Inductive, PTL DEF Spec, ImplementsOutbox, Promise!Spec

=============================================================================
