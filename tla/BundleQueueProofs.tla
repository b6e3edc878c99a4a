------------------------- MODULE BundleQueueProofs -------------------------
(***************************************************************************)
(* Proofs about BundleQueue, for every set of bundles and packets, every   *)
(* range of base priorities and every scoring unit: the invariants of the  *)
(* queue, and that it implements Outbox.                                   *)
(***************************************************************************)
EXTENDS BundleQueue, FiniteSetTheorems, TLAPS

\* A score is an integer, wrapped or not.
LEMMA ScoreType ==
    ASSUME NEW t \in Int, now \in Int
    PROVE  WaitingScore(t) \in Int
<1>1. ScoreUnit \in Nat \ {0} /\ WrapScore \in Int /\ WrapRest \in Int
  BY UnitAssumption, WrapAssumption
<1>2. (now - t) \div ScoreUnit \in Int /\ (now + WrapRest - t) \div ScoreUnit \in Int
  BY <1>1
<1> QED BY <1>1, <1>2 DEF WaitingScore

\* An entry stays a member of Entry when it is given another priority.
LEMMA ScoredEntry ==
    ASSUME TypeOK, NEW e \in Entry
    PROVE  [e EXCEPT !.prio = e.base + WaitingScore(e.queued)] \in Entry
<1>1. WaitingScore(e.queued) \in Int
  BY ScoreType DEF TypeOK, Entry
<1>2. e.base \in Int
  BY BaseAssumption DEF Entry, Base
<1> QED BY <1>1, <1>2 DEF Entry

\* Re-scoring yields entries.
LEMMA RescoredType == TypeOK => Rescored \in SUBSET Entry
BY ScoredEntry DEF TypeOK, Rescored

\* Pushing yields entries.
LEMMA PushedType ==
    ASSUME TypeOK, NEW base \in Base, NEW bndl \in Bundle \cup {NoBundle},
           NEW meta \in Packet, NEW slot \in 0 .. MaxSlot
    PROVE  Pushed(base, bndl, meta, slot) \in SUBSET Entry
<1>1. base \in Int /\ WaitingScore(now) \in Int
  BY BaseAssumption, ScoreType DEF Base, TypeOK
<1>2. NewEntry(base, bndl, meta, slot) \in Entry
  BY <1>1 DEF NewEntry, Entry, TypeOK
<1>3. ASSUME NEW e \in Entry PROVE Reprioritised(e, base) \in Entry
  <2> DEFINE w == base + WaitingScore(now)
  <2>1. w \in Int
    BY <1>1
  <2> HIDE DEF w
  <2>2. [e EXCEPT !.prio = w] \in Entry
    BY <2>1 DEF Entry
  <2> QED BY <2>2 DEF Reprioritised, w
<1> QED BY <1>2, <1>3 DEF Pushed, TypeOK

\* The queue only ever holds well-formed entries (BundleQueue::push, rescore
\* and pop as the send loop calls them).
THEOREM TypeCorrect == Spec => []TypeOK
<1>1. Init => TypeOK
  BY DEF Init, TypeOK
<1>2. TypeOK /\ [Next]_vars => TypeOK'
  <2> SUFFICES ASSUME TypeOK, [Next]_vars PROVE TypeOK'
    OBVIOUS
  <2>1. ASSUME NEW base \in Base, NEW bndl \in Bundle \cup {NoBundle},
               NEW meta \in Packet, Push(base, bndl, meta)
        PROVE  TypeOK'
    BY <2>1, PushedType DEF Push, TypeOK
  <2>2. CASE GenerateSends
    BY <2>2, RescoredType DEF GenerateSends, Popped, TypeOK
  <2>3. CASE ChangeDenied
    BY <2>3 DEF ChangeDenied, TypeOK
  <2>4. CASE Tick
    BY <2>4 DEF Tick, TypeOK
  <2>5. CASE SetBack
    BY <2>5 DEF SetBack, TypeOK
  <2>6. CASE UNCHANGED vars
    BY <2>6 DEF vars, TypeOK
  <2> QED BY <2>1, <2>2, <2>3, <2>4, <2>5, <2>6 DEF Next
<1> QED BY <1>1, <1>2, PTL DEF Spec

---------------------------------------------------------------------------

\* Division by the scoring unit rounds down by less than one unit.
LEMMA WholeUnits ==
    ASSUME NEW a \in Int
    PROVE  /\ a \div ScoreUnit \in Int
           /\ ScoreUnit * (a \div ScoreUnit) <= a
           /\ a < ScoreUnit * (a \div ScoreUnit) + ScoreUnit
BY UnitAssumption

\* An entry that outranks another after both were scored at the same moment
\* was created less than one horizon later.
LEMMA Outranked ==
    ASSUME NEW t \in Int, NEW p \in Int, NEW q \in Int, NEW a \in Base, NEW b \in Base,
           a + ((t - p) \div ScoreUnit) >= b + ((t - q) \div ScoreUnit)
    PROVE  p - q < ScoreUnit * (MaxBase - MinBase + 1)
<1> DEFINE x == (t - p) \div ScoreUnit
           y == (t - q) \div ScoreUnit
           R == MaxBase - MinBase
<1>1. x \in Int /\ ScoreUnit * x <= t - p
  BY WholeUnits
<1>2. y \in Int /\ t - q < ScoreUnit * y + ScoreUnit
  BY WholeUnits
<1>3. R \in Int /\ x - y + R >= 0
  BY <1>1, <1>2, BaseAssumption DEF Base
<1>4. ScoreUnit \in Int /\ ScoreUnit * (x - y + R) >= 0
  <2> HIDE DEF x, y, R
  <2> QED BY <1>1, <1>2, <1>3, UnitAssumption
<1>5. ScoreUnit * (x - y + R) = ScoreUnit * x - ScoreUnit * y + ScoreUnit * R
  <2> HIDE DEF x, y, R
  <2> QED BY <1>1, <1>2, <1>3, <1>4
<1>6. ScoreUnit * (R + 1) = ScoreUnit * R + ScoreUnit
  <2> HIDE DEF R
  <2> QED BY <1>3, <1>4
<1>7. /\ ScoreUnit * x \in Int /\ ScoreUnit * y \in Int /\ ScoreUnit * R \in Int
  <2> HIDE DEF x, y, R
  <2> QED BY <1>1, <1>2, <1>3, <1>4
<1> HIDE DEF x, y, R
<1>8. p - q < ScoreUnit * (R + 1)
  BY <1>1, <1>2, <1>4, <1>5, <1>6, <1>7
<1> QED BY <1>8 DEF R

\* The same with the scores as they are: one that wrapped is below every other by
\* more than the base priorities can make good, and keeps the order of its like.
LEMMA OutrankedAlways ==
    ASSUME now \in Int, NEW p \in Int, NEW q \in Int, NEW a \in Base, NEW b \in Base,
           a + WaitingScore(p) >= b + WaitingScore(q)
    PROVE  p - q < ScoreUnit * (MaxBase - MinBase + 1)
<1> DEFINE W(x) == (now + WrapRest - x) \div ScoreUnit
           H == ScoreUnit * (MaxBase - MinBase + 1)
<1>1. /\ a \in Int /\ b \in Int /\ a - b <= MaxBase - MinBase
      /\ WrapScore \in Int /\ WrapScore < MinBase - MaxBase
      /\ WrapRest \in Int /\ WrapRest < ScoreUnit
      /\ ScoreUnit \in Int /\ ScoreUnit > 0 /\ MinBase \in Int /\ MaxBase \in Int
      /\ MaxBase - MinBase >= 0
  BY BaseAssumption, UnitAssumption, WrapAssumption DEF Base
<1>2. W(p) \in Int /\ W(q) \in Int
  <2>1. now + WrapRest - p \in Int /\ now + WrapRest - q \in Int
    BY <1>1
  <2> QED BY <2>1, WholeUnits
<1>3. CASE p <= now /\ q <= now
  BY <1>3, Outranked DEF WaitingScore
<1>4. CASE p <= now /\ ~(q <= now)
  <2>1. H \in Int /\ H > 0
    <3>1. MaxBase - MinBase + 1 \in Nat \ {0} /\ ScoreUnit \in Nat \ {0}
      BY <1>1
    <3>2. \A x, y \in Nat \ {0} : x * y \in Nat \ {0}
      OBVIOUS
    <3> QED BY <3>1, <3>2
  <2> HIDE DEF H
  <2>2. p - q < H
    BY <1>4, <2>1
  <2> QED BY <2>2 DEF H
<1>5. CASE ~(p <= now) /\ q <= now
  <2> DEFINE y == (now - q) \div ScoreUnit
  <2>1. y \in Int /\ y >= 0
    <3>1. now - q \in Nat
      BY <1>5
    <3> QED BY <3>1, UnitAssumption
  <2>2. W(p) <= 0
    <3>1. ScoreUnit * W(p) <= now + WrapRest - p
      <4>1. now + WrapRest - p \in Int
        BY <1>1
      <4> QED BY <4>1, WholeUnits
    <3>2. now + WrapRest - p < ScoreUnit
      BY <1>1, <1>5
    <3> DEFINE w == W(p)
    <3>3. w \in Int /\ ScoreUnit * w <= now + WrapRest - p
      BY <1>2, <3>1
    <3> HIDE DEF w
    <3>4. ScoreUnit * w < ScoreUnit
      <4>1. ScoreUnit * w \in Int
        BY <1>1, <3>3
      <4> QED BY <1>1, <3>2, <3>3, <4>1
    <3>5. ASSUME w >= 1 PROVE FALSE
      <4>1. ScoreUnit * w = ScoreUnit + ScoreUnit * (w - 1) /\ ScoreUnit * (w - 1) >= 0
        BY <1>1, <3>3, <3>5
      <4>2. ScoreUnit * (w - 1) \in Int
        BY <1>1, <3>3
      <4> QED BY <1>1, <3>4, <4>1, <4>2
    <3>6. w <= 0
      BY <3>3, <3>5
    <3> QED BY <3>6 DEF w
  <2>3. WaitingScore(p) = WrapScore + W(p) /\ WaitingScore(q) = y
    BY <1>5 DEF WaitingScore
  <2>4. a + (WrapScore + W(p)) >= b + y
    BY <2>3
  <2> DEFINE w == W(p)
  <2>5. w \in Int /\ w <= 0 /\ a + (WrapScore + w) >= b + y
    BY <1>2, <2>2, <2>4
  <2> HIDE DEF w, y, W
  <2>6. FALSE
    BY <1>1, <2>1, <2>5
  <2> QED BY <2>6
<1>6. CASE ~(p <= now) /\ ~(q <= now)
  <2>1. WaitingScore(p) = WrapScore + W(p) /\ WaitingScore(q) = WrapScore + W(q)
    BY <1>6 DEF WaitingScore
  <2>2. a + (WrapScore + W(p)) >= b + (WrapScore + W(q))
    BY <2>1
  <2>3. a + W(p) >= b + W(q)
    <3> HIDE DEF W
    <3> QED BY <1>1, <1>2, <2>2
  <2>4. PICK t \in Int : t = now + WrapRest
    BY <1>1
  <2>5. W(p) = (t - p) \div ScoreUnit /\ W(q) = (t - q) \div ScoreUnit
    BY <1>1, <2>4
  <2>6. a + ((t - p) \div ScoreUnit) >= b + ((t - q) \div ScoreUnit)
    <3> HIDE DEF W
    <3> QED BY <2>3, <2>5
  <2> QED BY <2>6, Outranked
<1> QED BY <1>3, <1>4, <1>5, <1>6

---------------------------------------------------------------------------
(* The queue invariant.  Both parts are inductive on their own once the    *)
(* queue is well typed: a send step scores all entries at one moment, and  *)
(* every other step clears `sent`.                                         *)

QueueInv == TypeOK /\ OneEntryPerPacket /\ NoLateOvertaking

\* A push merges with the equal entry when there is one.
LEMMA PushKeepsUnique ==
    ASSUME TypeOK, OneEntryPerPacket,
           NEW base, NEW bndl, NEW meta, NEW slot,
           NEW e \in Pushed(base, bndl, meta, slot),
           NEW f \in Pushed(base, bndl, meta, slot),
           e.bndl # NoBundle, e.bndl = f.bndl, e.meta = f.meta
    PROVE  e = f
<1>1. ASSUME NEW g \in queue
      PROVE  Reprioritised(g, base).bndl = g.bndl /\ Reprioritised(g, base).meta = g.meta
  BY DEF Reprioritised, TypeOK, Entry
<1>2. CASE \E g \in queue : SameEntry(g, bndl, meta)
  <2>1. PICK g \in queue : e = IF SameEntry(g, bndl, meta) THEN Reprioritised(g, base) ELSE g
    BY <1>2 DEF Pushed
  <2>2. PICK h \in queue : f = IF SameEntry(h, bndl, meta) THEN Reprioritised(h, base) ELSE h
    BY <1>2 DEF Pushed
  <2>3. e.bndl = g.bndl /\ e.meta = g.meta /\ f.bndl = h.bndl /\ f.meta = h.meta
    BY <2>1, <2>2, <1>1
  <2>4. g = h
    BY <2>3 DEF OneEntryPerPacket
  <2> QED BY <2>1, <2>2, <2>4
<1>3. CASE ~ \E g \in queue : SameEntry(g, bndl, meta)
  <2> DEFINE n == NewEntry(base, bndl, meta, slot)
  <2>1. n.bndl = bndl /\ n.meta = meta
    BY DEF NewEntry
  <2> HIDE DEF n
  <2>2. e \in queue \cup {n} /\ f \in queue \cup {n}
    BY <1>3 DEF Pushed, n
  <2> QED BY <1>3, <2>1, <2>2 DEF SameEntry, OneEntryPerPacket
<1> QED BY <1>2, <1>3

\* Re-scoring keeps the fields an entry is told apart by and its age.
LEMMA RescoredFrom ==
    ASSUME TypeOK, NEW e \in Rescored
    PROVE  \E g \in queue :
              /\ Allowed(g.bndl)
              /\ e.bndl = g.bndl /\ e.meta = g.meta /\ e.slot = g.slot
              /\ e.base = g.base /\ e.queued = g.queued
              /\ e.prio = g.base + WaitingScore(g.queued)
              /\ e = [g EXCEPT !.prio = g.base + WaitingScore(g.queued)]
<1>1. PICK g \in queue : Allowed(g.bndl) /\ e = [g EXCEPT !.prio = g.base + WaitingScore(g.queued)]
  BY DEF Rescored
<1>2. g \in Entry
  BY DEF TypeOK
<1> DEFINE w == g.base + WaitingScore(g.queued)
<1>3. e = [g EXCEPT !.prio = w]
  BY <1>1
<1> HIDE DEF w
<1>4. /\ e.bndl = g.bndl /\ e.meta = g.meta /\ e.slot = g.slot
      /\ e.base = g.base /\ e.queued = g.queued /\ e.prio = w
  BY <1>2, <1>3 DEF Entry
<1> QED BY <1>1, <1>4 DEF w

\* Rebuilding the queue does not split an entry.
LEMMA RescoreKeepsUnique ==
    ASSUME TypeOK, OneEntryPerPacket, NEW e \in Rescored, NEW f \in Rescored,
           e.bndl # NoBundle, e.bndl = f.bndl, e.meta = f.meta
    PROVE  e = f
<1>1. PICK g \in queue : /\ e.bndl = g.bndl /\ e.meta = g.meta
                         /\ e = [g EXCEPT !.prio = g.base + WaitingScore(g.queued)]
  BY RescoredFrom
<1>2. PICK h \in queue : /\ f.bndl = h.bndl /\ f.meta = h.meta
                         /\ f = [h EXCEPT !.prio = h.base + WaitingScore(h.queued)]
  BY RescoredFrom
<1>3. g = h
  BY <1>1, <1>2 DEF OneEntryPerPacket
<1> QED BY <1>1, <1>2, <1>3

\* One send interval respects the horizon.
LEMMA SendRespectsWaiting ==
    ASSUME TypeOK, GenerateSends
    PROVE  NoLateOvertaking'
<1>1. PICK S \in Popped(Rescored, SendPackets) : sent' = S /\ queue' = Rescored \ S
  BY DEF GenerateSends
<1>2. S \in SUBSET Rescored /\ \A e \in S, f \in Rescored \ S : e.prio >= f.prio
  BY DEF Popped
<1> SUFFICES ASSUME NEW e \in S, NEW f \in Rescored \ S
             PROVE  e.queued - f.queued < ScoreUnit * (MaxBase - MinBase + 1)
  BY <1>1 DEF NoLateOvertaking
<1>3. PICK g \in queue : e.queued = g.queued /\ e.prio = g.base + WaitingScore(g.queued)
  BY <1>2, RescoredFrom
<1>4. PICK h \in queue : f.queued = h.queued /\ f.prio = h.base + WaitingScore(h.queued)
  BY RescoredFrom
<1>5. /\ g.base \in Base /\ h.base \in Base
      /\ now \in Int /\ g.queued \in Int /\ h.queued \in Int
  BY DEF TypeOK, Entry
<1>6. g.base + WaitingScore(g.queued) >= h.base + WaitingScore(h.queued)
  BY <1>2, <1>3, <1>4
<1>7. g.queued - h.queued < ScoreUnit * (MaxBase - MinBase + 1)
  BY <1>5, <1>6, OutrankedAlways
<1> QED BY <1>3, <1>4, <1>7

LEMMA QueueInvInductive == QueueInv /\ TypeOK' /\ [Next]_vars => QueueInv'
<1> SUFFICES ASSUME TypeOK, OneEntryPerPacket, NoLateOvertaking, TypeOK', [Next]_vars
             PROVE  OneEntryPerPacket' /\ NoLateOvertaking'
  BY DEF QueueInv
<1>1. ASSUME NEW base \in Base, NEW bndl \in Bundle \cup {NoBundle},
             NEW meta \in Packet, Push(base, bndl, meta)
      PROVE  OneEntryPerPacket' /\ NoLateOvertaking'
  <2>1. PICK slot \in 0 .. MaxSlot : queue' = Pushed(base, bndl, meta, slot)
    BY <1>1 DEF Push
  <2>2. OneEntryPerPacket'
    <3> SUFFICES ASSUME NEW e \in queue', NEW f \in queue',
                        e.bndl # NoBundle, e.bndl = f.bndl, e.meta = f.meta
                 PROVE  e = f
      BY DEF OneEntryPerPacket
    <3> QED BY <2>1, PushKeepsUnique
  <2>3. NoLateOvertaking'
    BY <1>1 DEF Push, NoLateOvertaking
  <2> QED BY <2>2, <2>3
<1>2. CASE GenerateSends
  <2>1. queue' \in SUBSET Rescored
    BY <1>2 DEF GenerateSends
  <2>2. OneEntryPerPacket'
    <3> SUFFICES ASSUME NEW e \in queue', NEW f \in queue',
                        e.bndl # NoBundle, e.bndl = f.bndl, e.meta = f.meta
                 PROVE  e = f
      BY DEF OneEntryPerPacket
    <3> QED BY <2>1, RescoreKeepsUnique
  <2> QED BY <1>2, <2>2, SendRespectsWaiting
<1>3. CASE ChangeDenied
  BY <1>3 DEF ChangeDenied, OneEntryPerPacket, NoLateOvertaking
<1>4. CASE Tick
  BY <1>4 DEF Tick, OneEntryPerPacket, NoLateOvertaking
<1>5. CASE SetBack
  BY <1>5 DEF SetBack, OneEntryPerPacket, NoLateOvertaking
<1>6. CASE UNCHANGED vars
  BY <1>6 DEF vars, OneEntryPerPacket, NoLateOvertaking
<1> QED BY <1>1, <1>2, <1>3, <1>4, <1>5, <1>6 DEF Next

LEMMA QueueInvariant == Spec => []QueueInv
<1>1. Init => QueueInv
  BY DEF Init, QueueInv, TypeOK, OneEntryPerPacket, NoLateOvertaking
<1> QED BY <1>1, TypeCorrect, QueueInvInductive, PTL DEF Spec

\* However often the handlers push it, one encoding of one bundle occupies
\* the queue once (the equality of QueueEntry and BundleProtoMeta).
THEOREM UniqueEntries == Spec => []OneEntryPerPacket
<1>1. QueueInv => OneEntryPerPacket
  BY DEF QueueInv
<1> QED BY <1>1, QueueInvariant, PTL

\* No packet leaves ahead of one whose stamp is a full horizon older, the clock
\* set back or not: the waiting-time scorer bounds how long any priority can hold
\* another back.
THEOREM WaitingBeatsPriority == Spec => []NoLateOvertaking
<1>1. QueueInv => NoLateOvertaking
  BY DEF QueueInv
<1> QED BY <1>1, QueueInvariant, PTL

---------------------------------------------------------------------------
(* The queue as an outbox.                                                 *)

\* What the refinement needs of the queue: it is finite, and no two entries
\* stand for the same item.
ItemsApart ==
    /\ IsFiniteSet(queue)
    /\ \A e \in queue : e.bndl # NoBundle => e.slot = 0
    /\ \A e, f \in queue : ItemOf(e) = ItemOf(f) => e = f

\* Entries are told apart by three of their fields.
LEMMA SameItem ==
    ASSUME NEW e, NEW f
    PROVE  ItemOf(e) = ItemOf(f) <=> e.bndl = f.bndl /\ e.meta = f.meta /\ e.slot = f.slot
BY DEF ItemOf

\* Another priority does not change the item.
LEMMA ReprioritisedItem ==
    ASSUME TypeOK, NEW e \in queue, NEW base
    PROVE  /\ ItemOf(Reprioritised(e, base)) = ItemOf(e)
           /\ Reprioritised(e, base).bndl = e.bndl
           /\ Reprioritised(e, base).slot = e.slot
BY DEF TypeOK, Entry, Reprioritised, ItemOf

\* A push keeps the items apart and adds the pushed one.
LEMMA PushItems ==
    ASSUME TypeOK, ItemsApart, NEW base, NEW bndl, NEW meta, NEW slot, FreeSlot(bndl, slot)
    PROVE  /\ IsFiniteSet(Pushed(base, bndl, meta, slot))
           /\ \A e \in Pushed(base, bndl, meta, slot) : e.bndl # NoBundle => e.slot = 0
           /\ \A e, f \in Pushed(base, bndl, meta, slot) : ItemOf(e) = ItemOf(f) => e = f
           /\ Items(Pushed(base, bndl, meta, slot)) =
                Items(queue) \cup {[bndl |-> bndl, meta |-> meta, slot |-> slot]}
<1> DEFINE P == Pushed(base, bndl, meta, slot)
           i == [bndl |-> bndl, meta |-> meta, slot |-> slot]
<1>1. CASE \E g \in queue : SameEntry(g, bndl, meta)
  <2> DEFINE New(e) == IF SameEntry(e, bndl, meta) THEN Reprioritised(e, base) ELSE e
             F == [e \in queue |-> New(e)]
  <2>1. P = {New(e) : e \in queue}
    BY <1>1 DEF Pushed
  <2>2. \A e \in queue : ItemOf(New(e)) = ItemOf(e) /\ New(e).bndl = e.bndl /\ New(e).slot = e.slot
    BY ReprioritisedItem
  <2>3. IsFiniteSet(P)
    <3>1. F \in Surjection(queue, P)
      BY <2>1 DEF Surjection
    <3> QED BY <3>1, FS_Surjection DEF ItemsApart
  <2> HIDE DEF New, P
  <2>4. \A e \in P : e.bndl # NoBundle => e.slot = 0
    BY <2>1, <2>2 DEF ItemsApart
  <2>5. \A e, f \in P : ItemOf(e) = ItemOf(f) => e = f
    BY <2>1, <2>2 DEF ItemsApart
  <2>6. Items(P) = Items(queue)
    BY <2>1, <2>2 DEF Items
  <2>7. i \in Items(queue)
    <3>1. PICK g \in queue : SameEntry(g, bndl, meta)
      BY <1>1
    <3>2. g.bndl = bndl /\ g.meta = meta /\ bndl # NoBundle
      BY <3>1 DEF SameEntry
    <3>3. g.slot = 0 /\ slot = 0
      BY <3>2 DEF ItemsApart, FreeSlot
    <3> QED BY <3>2, <3>3 DEF Items, ItemOf
  <2>8. Items(P) = Items(queue) \cup {i}
    BY <2>6, <2>7
  <2> QED BY <2>3, <2>4, <2>5, <2>8 DEF P
<1>2. CASE ~ \E g \in queue : SameEntry(g, bndl, meta)
  <2> DEFINE n == NewEntry(base, bndl, meta, slot)
  <2>1. P = queue \cup {n}
    BY <1>2 DEF Pushed
  <2>2. n.bndl = bndl /\ n.meta = meta /\ n.slot = slot /\ ItemOf(n) = i
    BY DEF NewEntry, ItemOf
  <2> HIDE DEF n, P
  <2>3. IsFiniteSet(P)
    BY <2>1, FS_AddElement DEF ItemsApart
  <2>4. \A e \in P : e.bndl # NoBundle => e.slot = 0
    BY <2>1, <2>2 DEF ItemsApart, FreeSlot
  <2>5. \A e \in queue : ItemOf(e) # ItemOf(n)
    BY <1>2, <2>2, SameItem DEF FreeSlot, SameEntry
  <2>6. \A e, f \in P : ItemOf(e) = ItemOf(f) => e = f
    BY <2>1, <2>5 DEF ItemsApart
  <2>7. Items(P) = Items(queue) \cup {i}
    BY <2>1, <2>2 DEF Items
  <2> QED BY <2>3, <2>4, <2>6, <2>7 DEF P
<1> QED BY <1>1, <1>2

\* The entries a re-score keeps are those of the allowed items.
LEMMA RescoredItems ==
    ASSUME TypeOK, ItemsApart
    PROVE  /\ IsFiniteSet(Rescored)
           /\ \A e \in Rescored : e.bndl # NoBundle => e.slot = 0
           /\ \A e, f \in Rescored : ItemOf(e) = ItemOf(f) => e = f
           /\ Items(Rescored) = {ItemOf(g) : g \in {h \in queue : Allowed(h.bndl)}}
<1> DEFINE K == {h \in queue : Allowed(h.bndl)}
           New(g) == [g EXCEPT !.prio = g.base + WaitingScore(g.queued)]
           F == [g \in K |-> New(g)]
<1>1. Rescored = {New(g) : g \in K}
  BY DEF Rescored
<1>2. \A g \in K : ItemOf(New(g)) = ItemOf(g) /\ New(g).bndl = g.bndl /\ New(g).slot = g.slot
  <2> SUFFICES ASSUME NEW g \in K
               PROVE  ItemOf(New(g)) = ItemOf(g) /\ New(g).bndl = g.bndl /\ New(g).slot = g.slot
    OBVIOUS
  <2> DEFINE w == g.base + WaitingScore(g.queued)
  <2>1. g \in Entry /\ New(g) = [g EXCEPT !.prio = w]
    BY DEF TypeOK
  <2> HIDE DEF w, New
  <2> QED BY <2>1 DEF Entry, ItemOf
<1>3. IsFiniteSet(Rescored)
  <2>1. IsFiniteSet(K)
    BY FS_Subset DEF ItemsApart
  <2>2. F \in Surjection(K, Rescored)
    BY <1>1 DEF Surjection
  <2> QED BY <2>1, <2>2, FS_Surjection
<1> HIDE DEF New
<1>4. \A e \in Rescored : e.bndl # NoBundle => e.slot = 0
  BY <1>1, <1>2 DEF ItemsApart
<1>5. \A e, f \in Rescored : ItemOf(e) = ItemOf(f) => e = f
  BY <1>1, <1>2 DEF ItemsApart
<1>6. Items(Rescored) = {ItemOf(g) : g \in K}
  BY <1>1, <1>2 DEF Items
<1> QED BY <1>3, <1>4, <1>5, <1>6

LEMMA ItemsStayApart == Spec => []ItemsApart
<1>1. Init => ItemsApart
  BY FS_EmptySet DEF Init, ItemsApart
<1>2. TypeOK /\ ItemsApart /\ [Next]_vars => ItemsApart'
  <2> SUFFICES ASSUME TypeOK, ItemsApart, [Next]_vars PROVE ItemsApart'
    OBVIOUS
  <2>1. ASSUME NEW base \in Base, NEW bndl \in Bundle \cup {NoBundle},
               NEW meta \in Packet, Push(base, bndl, meta)
        PROVE  ItemsApart'
    <3>1. PICK slot \in 0 .. MaxSlot :
            FreeSlot(bndl, slot) /\ queue' = Pushed(base, bndl, meta, slot)
      BY <2>1 DEF Push
    <3>2. /\ IsFiniteSet(queue')
          /\ \A e \in queue' : e.bndl # NoBundle => e.slot = 0
          /\ \A e, f \in queue' : ItemOf(e) = ItemOf(f) => e = f
      BY <3>1, PushItems
    <3> QED BY <3>2 DEF ItemsApart, ItemOf
  <2>2. CASE GenerateSends
    <3>1. queue' \in SUBSET Rescored
      BY <2>2 DEF GenerateSends
    <3>2. /\ IsFiniteSet(queue')
          /\ \A e \in queue' : e.bndl # NoBundle => e.slot = 0
          /\ \A e, f \in queue' : ItemOf(e) = ItemOf(f) => e = f
      BY <3>1, RescoredItems, FS_Subset
    <3> QED BY <3>2 DEF ItemsApart, ItemOf
  <2>3. CASE UNCHANGED queue
    BY <2>3 DEF ItemsApart
  <2> QED BY <2>1, <2>2, <2>3 DEF Next, ChangeDenied, Tick, SetBack, vars
<1> QED BY <1>1, <1>2, TypeCorrect, PTL DEF Spec

---------------------------------------------------------------------------
(* The steps of the queue as steps of the outbox.                          *)

\* A push is an acceptance.
LEMMA PushAccepts ==
    ASSUME TypeOK, ItemsApart, NEW base \in Base, NEW bndl \in Bundle \cup {NoBundle},
           NEW meta \in Packet, Push(base, bndl, meta)
    PROVE  \E i \in Item : Promise!Accept(i)
<1>1. PICK slot \in 0 .. MaxSlot :
        FreeSlot(bndl, slot) /\ queue' = Pushed(base, bndl, meta, slot)
  BY DEF Push
<1> DEFINE i == [bndl |-> bndl, meta |-> meta, slot |-> slot]
<1>2. i \in Item /\ i.bndl = bndl
  BY DEF Item
<1>3. i \notin {j \in Item : j.bndl \in denied}
  BY <1>2 DEF Push, Allowed
<1>4. Items(queue') = Items(queue) \cup {i}
  BY <1>1, PushItems
<1>5. Items(sent') = {}
  BY DEF Push, Items
<1>6. denied' = denied
  BY DEF Push
<1> QED BY <1>2, <1>3, <1>4, <1>5, <1>6 DEF Promise!Accept, Items, ItemOf

\* A send interval hands out and drops what is refused.
LEMMA SendHandsOut ==
    ASSUME TypeOK, ItemsApart, GenerateSends
    PROVE  Promise!HandOut
<1>1. PICK S \in Popped(Rescored, SendPackets) : sent' = S /\ queue' = Rescored \ S
  BY DEF GenerateSends
<1>2. S \in SUBSET Rescored /\ Cardinality(S) = IF Cardinality(Rescored) < SendPackets
                                                THEN Cardinality(Rescored) ELSE SendPackets
  BY <1>1 DEF Popped
<1> DEFINE refusedItems == {j \in Item : j.bndl \in denied}
<1>3. IsFiniteSet(Rescored) /\ IsFiniteSet(S)
  BY <1>2, RescoredItems, FS_Subset
<1>4. Cardinality(S) \in Nat /\ Cardinality(S) <= SendPackets
  BY <1>2, <1>3, FS_CardinalityType, SendAssumption
<1>5. Cardinality(Items(S)) <= SendPackets
  <2> DEFINE F == [e \in S |-> ItemOf(e)]
  <2>1. F \in Surjection(S, Items(S))
    BY DEF Surjection, Items
  <2>2. IsFiniteSet(Items(S)) /\ Cardinality(Items(S)) <= Cardinality(S)
    BY <1>3, <2>1, FS_Surjection
  <2> QED BY <1>4, <2>2, FS_CardinalityType, SendAssumption
<1>6. \A g \in queue : ItemOf(g) \in Item /\ ItemOf(g).bndl = g.bndl
  BY DEF TypeOK, Entry, Item, ItemOf
<1>7. Items(Rescored) = Items(queue) \ refusedItems
  <2>1. Items(Rescored) = {ItemOf(g) : g \in {h \in queue : h.bndl \notin denied}}
    BY RescoredItems DEF Allowed
  <2> QED BY <1>6, <2>1 DEF Items
<1>8. Items(S) \in SUBSET Items(Rescored)
  BY <1>2 DEF Items
<1>9. Items(Rescored \ S) = Items(Rescored) \ Items(S)
  BY <1>2, RescoredItems DEF Items
<1>10. Items(queue') = Items(queue) \ (refusedItems \cup Items(S))
  BY <1>1, <1>7, <1>9
<1>11. Items(sent') = Items(S) /\ denied' = denied
  BY <1>1 DEF GenerateSends
<1> HIDE DEF refusedItems
<1>12. /\ Items(S) \in SUBSET (Items(queue) \ refusedItems)
       /\ Cardinality(Items(S)) <= SendPackets
       /\ Items(sent)' = Items(S)
       /\ Items(queue)' = Items(queue) \ (refusedItems \cup Items(S))
       /\ refusedItems' = refusedItems
  BY <1>5, <1>7, <1>8, <1>10, <1>11 DEF refusedItems, Items, ItemOf
<1>13. Promise!Cardinality(Items(S)) = Cardinality(Items(S))
  BY DEF Promise!Cardinality, Cardinality
<1> QED BY <1>12, <1>13 DEF Promise!HandOut, refusedItems

\* For every set of bundles and packets, every range of priorities and every
\* send budget, the queue keeps the promise of Outbox.
THEOREM QueueKeepsPromise == Spec => ImplementsOutbox
<1>1. Init => Promise!Init
  BY DEF Init, Promise!Init, Items, Item
<1>2. TypeOK /\ ItemsApart /\ [Next]_vars => [Promise!Next]_(Promise!vars)
  <2> SUFFICES ASSUME TypeOK, ItemsApart, [Next]_vars
               PROVE  [Promise!Next]_(Promise!vars)
    OBVIOUS
  <2>1. ASSUME NEW base \in Base, NEW bndl \in Bundle \cup {NoBundle},
               NEW meta \in Packet, Push(base, bndl, meta)
        PROVE  Promise!Next
    BY <2>1, PushAccepts DEF Promise!Next
  <2>2. CASE GenerateSends
    BY <2>2, SendHandsOut DEF Promise!Next
  <2>3. CASE ChangeDenied \/ Tick \/ SetBack
    <3>1. sent' = {} /\ queue' = queue
      BY <2>3 DEF ChangeDenied, Tick, SetBack
    <3>2. Items(sent)' = {} /\ Items(queue)' = Items(queue)
      BY <3>1 DEF Items
    <3>3. {i \in Item : i.bndl \in denied}' \in SUBSET Item
      BY DEF Item
    <3> QED BY <3>2, <3>3 DEF Promise!Next, Promise!ChangeRefused
  <2>4. CASE UNCHANGED vars
    BY <2>4 DEF vars, Promise!vars, Items
  <2> QED BY <2>1, <2>2, <2>3, <2>4 DEF Next
<1> QED BY <1>1, <1>2, TypeCorrect, ItemsStayApart, PTL DEF Spec, ImplementsOutbox, Promise!Spec
=============================================================================
