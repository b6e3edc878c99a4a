------------------------------ MODULE Quadrant ------------------------------
(***************************************************************************)
(* The quadrant strategy (src/strategy/quadrant.rs) on a set of nodes that *)
(* hear each other over LoRa: advertising, forwarding, relaying, and the   *)
(* spreading that repairs what the radio lost.                             *)
(*                                                                         *)
(* The four tasks of a node (receive loop, spreading, advertising, sending)*)
(* share QuadrantCore behind one lock.  A handler that takes it more than  *)
(* once is split where another task could tell the difference.  A bundle   *)
(* hash stands for the set of ids it digests.  Which entries are popped    *)
(* first is the matter of BundleQueue; here it may be any of them.         *)
(***************************************************************************)
EXTENDS Integers, FiniteSets, RelayPriority

CONSTANTS
    Node,
    Bundle,
    NoName,      \* the empty node id
    Source,      \* the placements of the bundles: whose dtnd each is created at
    TooLong,     \* <<sender, bundle>> whose packet the size allowers refuse
    SendPackets, \* SEND_PACKETS, entries popped per send interval
    MaxInbox,    \* bound: received packets waiting on a node's event bus
    MaxAdverts,  \* bound: advertisements waiting in a node's send queue
    MaxFaults    \* bound: lost ECLA connections and restarts, over all nodes

ASSUME NameAssumption == NoName \notin Node
ASSUME SourceAssumption == Source \subseteq [Bundle -> Node]
ASSUME TooLongAssumption == TooLong \subseteq (Node \cup {NoName}) \X Bundle
ASSUME SendAssumption == SendPackets \in Nat \ {0}
ASSUME BoundAssumption ==
    MaxInbox \in Nat /\ MaxAdverts \in Nat /\ MaxFaults \in Nat

VARIABLES
    named,      \* NODE_ID is published
    awake,      \* the tasks that are past wait_for_node_name
    store,      \* QuadrantCore::bundles
    known,      \* QuadrantCore::neighbors: its keys ...
    hashOf,     \* ... RecentNeighbor::bundle_hash of each ...
    seenAt,     \* ... and RecentNeighbor::bundles of each
    queue,      \* QuadrantCore::send_queue
    relaying,   \* a bundle the receive loop has stored and not queued yet
    inbox,      \* LoRaPacketParsedRx events not handled yet
    dtnd,       \* the bundles the local dtnd holds
    everHeld,   \* history: the bundles this node's strategy ever stored
    faults      \* history: cuts and restarts so far, for the bound

core == <<store, known, hashOf, seenAt, queue>>
vars == <<named, awake, core, relaying, inbox, dtnd, everHeld, faults>>

Task == {"advertise", "sending"}

Forward == [kind : {"forward"}, sender : Node \cup {NoName}, bndl : Bundle]
Advertise == [kind : {"advertise"}, sender : Node, hash : SUBSET Bundle]
Packet == Forward \cup Advertise

\* Advertisements are never equal to one another, so each has a slot.
Entry == [pkt : Forward, slot : {0}] \cup [pkt : Advertise, slot : 1 .. MaxAdverts]

TypeOK ==
    /\ named \in [Node -> BOOLEAN]
    /\ awake \in [Node -> SUBSET Task]
    /\ store \in [Node -> SUBSET Bundle]
    /\ known \in [Node -> SUBSET Node]
    /\ hashOf \in [Node -> [Node -> SUBSET Bundle]]
    /\ seenAt \in [Node -> [Node -> SUBSET Bundle]]
    /\ queue \in [Node -> SUBSET Entry]
    /\ relaying \in [Node -> SUBSET Bundle]
    /\ inbox \in [Node -> SUBSET Packet]
    /\ dtnd \in [Node -> SUBSET Bundle]
    /\ everHeld \in [Node -> SUBSET Bundle]
    /\ faults \in Nat

---------------------------------------------------------------------------
(* What the handlers compute.                                              *)

NodeId(n) == IF named[n] THEN n ELSE NoName

ForwardEntry(s, b) == [pkt |-> [kind |-> "forward", sender |-> s, bndl |-> b], slot |-> 0]

\* Mutant: advertised before the node has a name.
AdvertiseEntry_Unnamed(n, h, i) ==
    [pkt |-> [kind |-> "advertise", sender |-> NoName, hash |-> h], slot |-> i]

AdvertiseEntry(n, h, i) ==
    [pkt |-> [kind |-> "advertise", sender |-> n, hash |-> h], slot |-> i]

\* send_queue.push_buf of forwards, those of B that the allowers accept.
Forwards(s, B) == {ForwardEntry(s, b) : b \in {c \in B : <<s, c>> \notin TooLong}}

\* Mutant: an empty hash is taken for an unknown one and skipped.
Spreadable_NoHash(n) ==
    {b \in store[n] :
        \E m \in known[n] : hashOf[n][m] \notin {{}, store[n]} /\ b \notin seenAt[n][m]}

\* spreadable_bundles: some neighbour neither advertises exactly our bundles
\* nor has sent us this one.
Spreadable(n) ==
    {b \in store[n] :
        \E m \in known[n] : hashOf[n][m] # store[n] /\ b \notin seenAt[n][m]}

\* The node of a set_bundle_seen that is credited with the bundle.
Credited(n, s) == IF s \in known[n] THEN {s} ELSE {}

\* What pop can take from the queue in one send interval.
Popped(n) ==
    {S \in SUBSET queue[n] :
        Cardinality(S) = IF Cardinality(queue[n]) < SendPackets
                           THEN Cardinality(queue[n]) ELSE SendPackets}

---------------------------------------------------------------------------

Init ==
    /\ named = [n \in Node |-> FALSE]
    /\ awake = [n \in Node |-> {}]
    /\ store = [n \in Node |-> {}]
    /\ known = [n \in Node |-> {}]
    /\ hashOf = [n \in Node |-> [m \in Node |-> {}]]
    /\ seenAt = [n \in Node |-> [m \in Node |-> {}]]
    /\ queue = [n \in Node |-> {}]
    /\ relaying = [n \in Node |-> {}]
    /\ inbox = [n \in Node |-> {}]
    /\ \E at \in Source : dtnd = [n \in Node |-> {b \in Bundle : at[b] = n}]
    /\ everHeld = [n \in Node |-> {}]
    /\ faults = 0

\* The ECLA actor publishes the node id the dtnd registered us under ...
Register(n) ==
    /\ ~named[n]
    /\ named' = [named EXCEPT ![n] = TRUE]
    /\ UNCHANGED <<awake, core, relaying, inbox, dtnd, everHeld, faults>>

\* ... and clears it when the connection is gone.
Disconnect(n) ==
    /\ named[n]
    /\ faults < MaxFaults
    /\ named' = [named EXCEPT ![n] = FALSE]
    /\ faults' = faults + 1
    /\ UNCHANGED <<awake, core, relaying, inbox, dtnd, everHeld>>

\* wait_for_node_name returns in one of the two tasks that call it.
StartTask(n, t) ==
    /\ named[n]
    /\ t \notin awake[n]
    /\ awake' = [awake EXCEPT ![n] = @ \cup {t}]
    /\ UNCHANGED <<named, core, relaying, inbox, dtnd, everHeld, faults>>

\* Receive loop, ForwardData from the ECLA: queued under the current node id
\* (which may not be published yet, or no longer) and stored, sendable or not.
\* A bundle in the store is skipped.
ForwardData(n, b) ==
    /\ relaying[n] = {}
    /\ b \in dtnd[n]
    /\ b \notin store[n]
    /\ queue' = [queue EXCEPT ![n] = @ \cup Forwards(NodeId(n), {b})]
    /\ store' = [store EXCEPT ![n] = @ \cup {b}]
    /\ everHeld' = [everHeld EXCEPT ![n] = @ \cup {b}]
    /\ UNCHANGED <<named, awake, known, hashOf, seenAt, relaying,
                   inbox, dtnd, faults>>

\* Mutant: set_neighbor keeps the hash of a neighbour it knows.
ReceiveAdvertise_KeepsHash(n, p) ==
    /\ relaying[n] = {}
    /\ p \in inbox[n] \cap Advertise
    /\ inbox' = [inbox EXCEPT ![n] = @ \ {p}]
    /\ known' = [known EXCEPT ![n] = @ \cup {p.sender}]
    /\ hashOf' = IF p.sender \in known[n] THEN hashOf
                 ELSE [hashOf EXCEPT ![n][p.sender] = p.hash]
    /\ UNCHANGED <<named, awake, store, seenAt, queue, relaying,
                   dtnd, everHeld, faults>>

\* Receive loop, Advertise: set_neighbor keeps what was seen at the neighbour.
ReceiveAdvertise(n, p) ==
    /\ relaying[n] = {}
    /\ p \in inbox[n] \cap Advertise
    /\ inbox' = [inbox EXCEPT ![n] = @ \ {p}]
    /\ known' = [known EXCEPT ![n] = @ \cup {p.sender}]
    /\ hashOf' = [hashOf EXCEPT ![n][p.sender] = p.hash]
    /\ UNCHANGED <<named, awake, store, seenAt, queue, relaying,
                   dtnd, everHeld, faults>>

\* Receive loop, BundleForward, up to set_bundle_seen.  pass_to_dtnd reaches
\* the dtnd only over a live ECLA connection; the bundle is stored regardless.
ReceiveForward(n, p) ==
    /\ relaying[n] = {}
    /\ p \in inbox[n] \cap Forward
    /\ inbox' = [inbox EXCEPT ![n] = @ \ {p}]
    /\ dtnd' \in {dtnd, [dtnd EXCEPT ![n] = @ \cup {p.bndl}]}
    /\ store' = [store EXCEPT ![n] = @ \cup {p.bndl}]
    /\ everHeld' = [everHeld EXCEPT ![n] = @ \cup {p.bndl}]
    /\ seenAt' = [seenAt EXCEPT ![n] =
            [m \in Node |-> @[m] \cup {b \in {p.bndl} : m \in Credited(n, p.sender)}]]
    /\ relaying' = [relaying EXCEPT ![n] = {p.bndl}]
    /\ UNCHANGED <<named, awake, known, hashOf, queue, faults>>

\* Receive loop, BundleForward, the push: every reception is relayed.
QueueRelay(n) ==
    /\ relaying[n] # {}
    /\ queue' = [queue EXCEPT ![n] = @ \cup Forwards(NodeId(n), relaying[n])]
    /\ relaying' = [relaying EXCEPT ![n] = {}]
    /\ UNCHANGED <<named, awake, store, known, hashOf, seenAt, inbox,
                   dtnd, everHeld, faults>>

\* handle_advertise, one tick; without a node id nothing is queued.  The lock
\* is released between reading the hash and pushing it, but a hash that went
\* stale there is no different from one that goes stale in the queue.
QueueAdvertise(n) ==
    /\ "advertise" \in awake[n]
    /\ named[n]
    /\ \E i \in 1 .. MaxAdverts :
        /\ \A e \in queue[n] : e.slot # i
        /\ queue' = [queue EXCEPT ![n] = @ \cup {AdvertiseEntry(n, store[n], i)}]
    /\ UNCHANGED <<named, awake, store, known, hashOf, seenAt, relaying, inbox,
                   dtnd, everHeld, faults>>

\* Mutant: LoRa is a broadcast, so what is queued counts as served.
Spread_CountsAsSeen(n) ==
    /\ queue' = [queue EXCEPT ![n] = @ \cup Forwards(NodeId(n), Spreadable(n))]
    /\ seenAt' = [seenAt EXCEPT ![n] =
            [m \in Node |-> @[m] \cup {b \in Spreadable(n) : m \in known[n]}]]
    /\ UNCHANGED <<named, awake, store, known, hashOf, relaying,
                   inbox, dtnd, everHeld, faults>>

\* handle_spreading, one tick.
Spread(n) ==
    /\ queue' = [queue EXCEPT ![n] = @ \cup Forwards(NodeId(n), Spreadable(n))]
    /\ UNCHANGED <<named, awake, store, known, hashOf, seenAt, relaying,
                   inbox, dtnd, everHeld, faults>>

\* handle_sending, one tick: what is popped goes on the air, and each other
\* node hears any part of it, all or nothing of it included.  Bound: nobody
\* transmits while a receiver has a full inbox, since handling an event takes
\* far less time than a send interval.
SendHeard(n, S, heard) ==
    /\ "sending" \in awake[n]
    /\ S # {}
    /\ S \in Popped(n)
    /\ queue' = [queue EXCEPT ![n] = @ \ S]
    /\ \A m \in Node \ {n} : Cardinality(inbox[m] \cup {e.pkt : e \in S}) <= MaxInbox
    /\ inbox' = [m \in Node |-> inbox[m] \cup IF m = n THEN {} ELSE heard[m]]
    /\ UNCHANGED <<named, awake, store, known, hashOf, seenAt, relaying,
                   dtnd, everHeld, faults>>

Send(n) ==
    \E S \in SUBSET queue[n] :
        \E heard \in [Node \ {n} -> SUBSET {e.pkt : e \in S}] : SendHeard(n, S, heard)

\* The daemon is killed and started again; its dtnd is another process.
Restart(n) ==
    /\ faults < MaxFaults
    /\ faults' = faults + 1
    /\ named' = [named EXCEPT ![n] = FALSE]
    /\ awake' = [awake EXCEPT ![n] = {}]
    /\ store' = [store EXCEPT ![n] = {}]
    /\ known' = [known EXCEPT ![n] = {}]
    /\ hashOf' = [hashOf EXCEPT ![n] = [m \in Node |-> {}]]
    /\ seenAt' = [seenAt EXCEPT ![n] = [m \in Node |-> {}]]
    /\ queue' = [queue EXCEPT ![n] = {}]
    /\ relaying' = [relaying EXCEPT ![n] = {}]
    /\ inbox' = [inbox EXCEPT ![n] = {}]
    /\ UNCHANGED <<dtnd, everHeld>>

Next ==
    \E n \in Node :
        \/ Register(n)
        \/ Disconnect(n)
        \/ \E t \in Task : StartTask(n, t)
        \/ \E b \in Bundle : ForwardData(n, b)
        \/ \E p \in inbox[n] : ReceiveAdvertise(n, p)
        \/ \E p \in inbox[n] : ReceiveForward(n, p)
        \/ QueueRelay(n)
        \/ QueueAdvertise(n)
        \/ Spread(n)
        \/ Send(n)
        \/ Restart(n)

Spec == Init /\ [][Next]_vars

---------------------------------------------------------------------------
(* Fairness.  Tickers and the event loop keep running; the ECLA connection *)
(* is re-established; the radio does not lose the same packet for ever.    *)

\* Some send interval puts a packet of P on the air and node m hears it.
Hears(n, m, P) ==
    \E S \in SUBSET queue[n] :
        \E heard \in [Node \ {n} -> SUBSET {e.pkt : e \in S}] :
            heard[m] \cap P # {} /\ SendHeard(n, S, heard)

Carrying(b) == {p \in Forward : p.bndl = b}

Fairness ==
    \A n \in Node :
        /\ WF_vars(Register(n))
        /\ \A t \in Task : WF_vars(StartTask(n, t))
        /\ \A p \in Packet : WF_vars(ReceiveAdvertise(n, p) \/ ReceiveForward(n, p))
        /\ WF_vars(QueueRelay(n))
        /\ WF_vars(QueueAdvertise(n))
        /\ WF_vars(Spread(n))
        /\ \A m \in Node \ {n} :
            /\ SF_vars(Hears(n, m, Advertise))
            /\ \A b \in Bundle : SF_vars(Hears(n, m, Carrying(b)))

FairSpec == Spec /\ Fairness

---------------------------------------------------------------------------
(* Properties.                                                             *)

\* What a node believes about a neighbour was true: everything in the hash it
\* attributes to it, and everything it has "seen" there, the neighbour's
\* strategy did store at some time.  The beliefs travel in packets that wait
\* in queues and inboxes while both sides go on, or restart.
KnowledgeSound ==
    \A n, m \in Node : hashOf[n][m] \cup seenAt[n][m] \subseteq everHeld[m]

\* The two skips of spreadable_bundles are safe: a stored bundle is left out
\* of the spreading only when every known neighbour has had it.
SpreadOmitsNobody ==
    \A n \in Node : \A b \in store[n] \ Spreadable(n) :
        \A m \in known[n] : b \in everHeld[m]

\* A bundle that can be sent reaches every neighbour, however often the radio
\* loses it: the relay is sent once, but the spreading queues it again.
NeighboursServed ==
    \A n, m \in Node, b \in Bundle :
        <<n, b>> \notin TooLong =>
            (b \in store[n] /\ m \in known[n] ~> b \in store[m])

\* A bundle that a node cannot send and another node lacks.
Stuck(b) ==
    \E n, m \in Node : <<n, b>> \in TooLong /\ b \in store[n] \ store[m]

\* The spreading settles: from some time on no node finds a bundle that a
\* neighbour might lack, although advertisements are stale by the time they
\* arrive.  A bundle that stays stuck, a too long one at the node it was created
\* at above all, keeps the hashes apart, and then the spreading goes on for ever.
SpreadSettles ==
    \/ []<>(\E b \in Bundle : Stuck(b))
    \/ \A n \in Node, b \in Bundle : <>[](b \notin Spreadable(n))
============================================================================
