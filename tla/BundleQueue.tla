---------------------------- MODULE BundleQueue ----------------------------
(***************************************************************************)
(* The outgoing packet queue of src/bundlequeue/mod.rs as the strategies   *)
(* drive it: BundleQueue::push, BundleQueue::rescore and BundleQueue::pop  *)
(* under strategy/proto.rs::generate_sends, with the waiting-time scorer   *)
(* that the quadrant (10 s) and the spray-and-wait (30 s) strategies add.  *)
(*                                                                         *)
(* An entry of the underlying map is identified by its bundle id and its   *)
(* encoded packet.  Entries without a bundle (advertisements) are never    *)
(* equal to anything, not even to themselves, so each keeps its own slot,  *)
(* told apart here by `slot`.                                              *)
(***************************************************************************)
EXTENDS Integers, FiniteSets

CONSTANTS
    Bundle,      \* bundle ids
    Packet,      \* encoded protocol packets, BundleProtoMeta::proto_packet
    NoBundle,    \* the None of an entry that carries no bundle
    MinBase,     \* smallest and largest base priority the callers pass
    MaxBase,
    ScoreUnit,   \* seconds of waiting that are worth one point
    WrapScore,   \* 2^64 \div ScoreUnit, as an i32
    WrapRest,    \* 2^64 % ScoreUnit
    SendPackets, \* entries popped per send interval
    MaxSlot,     \* bound: advertisements held at once
    MaxClock     \* bound: seconds of model time

ASSUME BaseAssumption == MinBase \in Int /\ MaxBase \in Int /\ MinBase <= MaxBase
ASSUME UnitAssumption == ScoreUnit \in Nat \ {0}
\* So it is for units of 10 s (-1717986919, 6) and of 30 s (-2004318072, 16).
ASSUME WrapAssumption ==
    WrapScore \in Int /\ WrapScore < MinBase - MaxBase /\ WrapRest \in 0 .. ScoreUnit - 1
ASSUME SendAssumption == SendPackets \in Nat
ASSUME BoundAssumption == MaxSlot \in Nat /\ MaxClock \in Nat
ASSUME NoBundleAssumption == NoBundle \notin Bundle

VARIABLES
    queue,  \* the entries of PriorityQueue<QueueEntry, i32>
    denied, \* the bundles some allower currently denies
    now,    \* unix_timestamp()
    sent    \* what the last step handed out: {} unless it was generate_sends

vars == <<queue, denied, now, sent>>

Base == MinBase .. MaxBase

Entry == [bndl : Bundle \cup {NoBundle}, meta : Packet, slot : 0 .. MaxSlot,
          base : Base, queued : Nat, prio : Int]

TypeOK ==
    /\ queue \in SUBSET Entry
    /\ denied \in SUBSET Bundle
    /\ now \in Nat
    /\ sent \in SUBSET Entry

---------------------------------------------------------------------------
(* The queue's operations, as functions from queues to queues.             *)

Allowed(bndl) == bndl \notin denied

\* Mutant: no two entries are ever equal.
SameEntry_Never(e, bndl, meta) == FALSE

SameEntry(e, bndl, meta) ==
    bndl # NoBundle /\ e.bndl = bndl /\ e.meta = meta

\* Mutant: waiting earns nothing.
WaitingScore_Lost(queued) == 0

\* The waiting-time scorer; zero for an entry that was created just now.  For one
\* that a clock set back left with a later stamp the age wraps, and what remains
\* of it in an i32 is far below zero.  (A debug build panics there.)
WaitingScore(queued) ==
    IF queued <= now
      THEN (now - queued) \div ScoreUnit
      ELSE WrapScore + ((now + WrapRest - queued) \div ScoreUnit)

NewEntry(base, bndl, meta, slot) ==
    [bndl |-> bndl, meta |-> meta, slot |-> slot, base |-> base,
     queued |-> now, prio |-> base + WaitingScore(now)]

FreeSlot(bndl, slot) ==
    IF bndl = NoBundle
      THEN slot \in 1 .. MaxSlot /\ \A e \in queue : e.slot # slot
      ELSE slot = 0

\* Mutant: the priorities of equal pushes add up.
Reprioritised_Adds(e, base) ==
    [e EXCEPT !.prio = base + WaitingScore(now), !.base = @ + base]

\* PriorityQueue::push on an equal key keeps the stored key, and with it its
\* base priority and creation time: only the priority is replaced.
Reprioritised(e, base) == [e EXCEPT !.prio = base + WaitingScore(now)]

Pushed(base, bndl, meta, slot) ==
    IF \E e \in queue : SameEntry(e, bndl, meta)
      THEN {IF SameEntry(e, bndl, meta) THEN Reprioritised(e, base) ELSE e : e \in queue}
      ELSE queue \cup {NewEntry(base, bndl, meta, slot)}

\* Mutant: the rebuild loses the advertisements.
Rescored_BundlesOnly ==
    {[e EXCEPT !.prio = e.base + WaitingScore(e.queued)] :
        e \in {f \in queue : f.bndl # NoBundle /\ Allowed(f.bndl)}}

\* rescore: what an allower denies by now is dropped, the rest is scored anew.
Rescored ==
    {[e EXCEPT !.prio = e.base + WaitingScore(e.queued)] :
        e \in {f \in queue : Allowed(f.bndl)}}

\* What n calls of pop can take from q: equal priorities come in any order.
Popped(q, n) ==
    {S \in SUBSET q :
        /\ Cardinality(S) = IF Cardinality(q) < n THEN Cardinality(q) ELSE n
        /\ \A e \in S, f \in q \ S : e.prio >= f.prio}

---------------------------------------------------------------------------

Init ==
    /\ queue = {}
    /\ denied \in SUBSET Bundle
    /\ now = 0
    /\ sent = {}

\* BundleQueue::push of something every allower accepts; a denied push
\* returns (false, 0) and changes nothing.
Push(base, bndl, meta) ==
    /\ Allowed(bndl)
    /\ \E slot \in 0 .. MaxSlot :
        /\ FreeSlot(bndl, slot)
        /\ queue' = Pushed(base, bndl, meta, slot)
    /\ sent' = {}
    /\ UNCHANGED <<denied, now>>

\* generate_sends(queue, SEND_PACKETS, true).
GenerateSends ==
    /\ \E S \in Popped(Rescored, SendPackets) :
        /\ sent' = S
        /\ queue' = Rescored \ S
    /\ UNCHANGED <<denied, now>>

\* What the allowers consult changes: peers appear and age, copies run out.
ChangeDenied ==
    /\ denied' \in SUBSET Bundle
    /\ sent' = {}
    /\ UNCHANGED <<queue, now>>

Tick ==
    /\ now < MaxClock
    /\ now' = now + 1
    /\ sent' = {}
    /\ UNCHANGED <<queue, denied>>

\* Somebody sets the wall clock back.
SetBack ==
    /\ \E t \in 0 .. MaxClock : t < now /\ now' = t
    /\ sent' = {}
    /\ UNCHANGED <<queue, denied>>

Next ==
    \/ \E base \in Base, bndl \in Bundle \cup {NoBundle}, meta \in Packet :
            Push(base, bndl, meta)
    \/ GenerateSends
    \/ ChangeDenied
    \/ Tick
    \/ SetBack

Spec == Init /\ [][Next]_vars

---------------------------------------------------------------------------
(* Properties.                                                             *)

\* One bundle in one encoding waits at most once, however often the spread
\* and forward handlers push it (push merges equal entries; the empty-bundle
\* entries are exempt).
OneEntryPerPacket ==
    \A e, f \in queue :
        e.bndl # NoBundle /\ e.bndl = f.bndl /\ e.meta = f.meta => e = f

\* Waiting beats priority: no packet is sent ahead of one whose stamp is older by
\* what makes up for the whole range of base priorities.  This is what the
\* waiting-time scorer and the re-score before every send are for, and what keeps
\* low-priority bundles from starving under a stream of fresh high-priority ones.
\* It is the stamps that count: while a clock that was set back catches up, what
\* was stamped before waits behind everything that is stamped anew.
NoLateOvertaking ==
    \A e \in sent, f \in queue :
        e.queued - f.queued < ScoreUnit * (MaxBase - MinBase + 1)

\* What an entry is told apart by.
Item == [bndl : Bundle \cup {NoBundle}, meta : Packet, slot : 0 .. MaxSlot]
ItemOf(e) == [bndl |-> e.bndl, meta |-> e.meta, slot |-> e.slot]
Items(entries) == {ItemOf(e) : e \in entries}

\* The queue is an outbox: for all its priorities, merging of equal entries
\* and rebuilding on every re-score, an item that was accepted waits until it
\* is handed out or refused, and is handed out once.
Promise == INSTANCE Outbox WITH
            MaxBurst <- SendPackets,
            waiting <- Items(queue),
            refused <- {i \in Item : i.bndl \in denied},
            handed <- Items(sent)

ImplementsOutbox == Promise!Spec
============================================================================
