---------------------------- MODULE SprayAndWait ----------------------------
(***************************************************************************)
(* The spray-and-wait strategy (src/strategy/sprayandwait.rs) on one node: *)
(* a bundle is sprayed copy by copy to whoever is near, and its last copy  *)
(* waits for its destination.                                              *)
(*                                                                         *)
(* The strategy is one event loop; what runs beside it is the LoRa actor,  *)
(* which records peers, the clock, which ages them, and the ECLA actor,    *)
(* which publishes the node id.  A send tick reads the peers for every     *)
(* push, for the re-score, and for every packet it pops, so it is several  *)
(* steps here.  The order in which equal priorities are popped is open.    *)
(* A bundle is addressed to some node: dtn:none, on which the loop panics  *)
(* as well, is not among the destinations.                                 *)
(***************************************************************************)
EXTENDS Integers, FiniteSets

CONSTANTS
    Bundle,
    Own,         \* the bundles whose id starts with this node's id
    Peer,        \* nodes that may come into range
    Dest,        \* the node a bundle is addressed to
    MaxCopies,   \* MAX_COPIES
    SendPackets, \* SEND_PACKETS
    Word,        \* number of values of usize
    MaxRenames,  \* bound: times the node id is published or cleared
    MaxSlot      \* bound: advertisements waiting in the queue

ASSUME OwnAssumption == Own \subseteq Bundle
ASSUME DestAssumption == Dest \in [Bundle -> Peer]
ASSUME CopyAssumption == MaxCopies \in Nat /\ Word \in Nat /\ MaxCopies + 1 < Word
ASSUME SendAssumption == SendPackets \in Nat
ASSUME BoundAssumption == MaxRenames \in Nat /\ MaxSlot \in Nat

VARIABLES
    named,     \* NODE_ID is published
    loopId,    \* whether `node_id`, read at the top of the loop, was the id
    age,       \* last_seen_secs of each peer against MAX_PEER_AGE
    held,      \* the keys of `history` ...
    remaining, \* ... SaWBundleData::remaining_copies ...
    nodes,     \* ... and SaWBundleData::nodes
    queue,     \* send_queue
    phase,     \* where the event loop is; "aborted" when the daemon has panicked
    todo,      \* collected bundles that are not pushed yet
    left,      \* packets this tick may still pop
    granted,   \* history: the copies a bundle started with
    given,     \* history: the copies put on the air
    met,       \* history: the peers that were ever in range
    renames    \* history, for the bound

peers == <<age, met>>
identity == <<named, renames>>
history == <<held, remaining, nodes, granted, given>>
tick == <<phase, todo, left>>
vars == <<identity, loopId, peers, history, queue, tick>>

\* "near" is younger than MAX_PEER_AGE, "edge" exactly that old, "gone" older
\* or never seen.
Ages == {"near", "edge", "gone"}

\* An entry is told apart by its bundle and its packet, hence by the sender
\* in it: the node id ("named") or the empty one.  Advertisements are not
\* told apart at all; each has a slot.
BundleEntry == [bndl : Bundle, named : BOOLEAN]
Entry == BundleEntry \cup [slot : 1 .. MaxSlot]

TypeOK ==
    /\ named \in BOOLEAN
    /\ loopId \in BOOLEAN
    /\ age \in [Peer -> Ages]
    /\ held \in SUBSET Bundle
    /\ remaining \in [Bundle -> 0 .. Word - 1]
    /\ nodes \in [Bundle -> SUBSET Peer]
    /\ queue \in SUBSET Entry
    /\ phase \in {"idle", "pushing", "popping", "aborted"}
    /\ todo \in SUBSET Bundle
    /\ left \in Nat
    /\ granted \in [Bundle -> Nat]
    /\ given \in [Bundle -> Nat]
    /\ met \in SUBSET Peer
    /\ renames \in Nat

---------------------------------------------------------------------------

\* has_seen_peer and peer_names: younger than MAX_PEER_AGE.
Near == {p \in Peer : age[p] = "near"}

\* SaWAllowScore::allow counts peers up to and including MAX_PEER_AGE.
Allow(b) ==
    /\ remaining[b] # 0
    /\ \E p \in Peer : age[p] # "gone" /\ p \notin nodes[b]

Allowed(e) == e \in BundleEntry => Allow(e.bndl)

\* Mutant: every bundle is sprayed.
Copies_Same(b) == MaxCopies

\* handle_new_bundle; every id starts with an empty node id.
Copies(b) == IF b \in Own \/ ~named THEN MaxCopies ELSE 1

\* usize subtraction as a release build does it.
Decremented(x) == (x + Word - 1) % Word

\* Mutant: the last copy is sprayed like the others.
MayLeave_Always(b) == TRUE

\* The last copy leaves only when the destination is near.
MayLeave(b) == remaining[b] >= 2 \/ Dest[b] \in Near

---------------------------------------------------------------------------

Init ==
    /\ named \in BOOLEAN
    /\ loopId = named
    /\ age = [p \in Peer |-> "gone"]
    /\ held = {}
    /\ remaining = [b \in Bundle |-> 0]
    /\ nodes = [b \in Bundle |-> {}]
    /\ queue = {}
    /\ phase = "idle"
    /\ todo = {}
    /\ left = 0
    /\ granted = [b \in Bundle |-> 0]
    /\ given = [b \in Bundle |-> 0]
    /\ met = {}
    /\ renames = 0

\* publish_node_id: registered with the ECLA, or the connection is gone.
Rename ==
    /\ phase # "aborted"
    /\ renames < MaxRenames
    /\ renames' = renames + 1
    /\ named' = ~named
    /\ UNCHANGED <<loopId, peers, history, queue, tick>>

\* The LoRa actor saw a packet of p.
PeerSeen(p) ==
    /\ phase # "aborted"
    /\ age[p] # "near"
    /\ age' = [age EXCEPT ![p] = "near"]
    /\ met' = met \cup {p}
    /\ UNCHANGED <<identity, loopId, history, queue, tick>>

\* Nothing was heard of p for another while.
PeerAges(p) ==
    /\ phase # "aborted"
    /\ age[p] # "gone"
    /\ age' = [age EXCEPT ![p] = IF @ = "near" THEN "edge" ELSE "gone"]
    /\ UNCHANGED <<identity, loopId, met, history, queue, tick>>

\* ForwardData from the ECLA, of a bundle that is not in the history.
ForwardData(b) ==
    /\ phase = "idle"
    /\ b \notin held
    /\ held' = held \cup {b}
    /\ remaining' = [remaining EXCEPT ![b] = Copies(b)]
    /\ granted' = [granted EXCEPT ![b] = Copies(b)]
    /\ loopId' = named
    /\ UNCHANGED <<identity, peers, nodes, given, queue, tick>>

\* ForwardData whose data is no bundle: the unwrap panics, which aborts the daemon.
ForwardUnparsable ==
    /\ phase = "idle"
    /\ phase' = "aborted"
    /\ UNCHANGED <<identity, loopId, peers, history, queue, todo, left>>

\* StrategyRecommendAdvertise.
RecommendAdvertise ==
    /\ phase = "idle"
    /\ \E s \in 1 .. MaxSlot :
        /\ [slot |-> s] \notin queue
        /\ queue' = queue \cup {[slot |-> s]}
    /\ loopId' = named
    /\ UNCHANGED <<identity, peers, history, tick>>

\* Any other event: a known bundle again, a BundleForward (passed on to the
\* dtnd without a look at the history), events of other actors.
OtherEvent ==
    /\ phase = "idle"
    /\ loopId' = named
    /\ UNCHANGED <<identity, peers, history, queue, tick>>

\* The send interval fires: collect what has copies left.
Tick ==
    /\ phase = "idle"
    /\ phase' = "pushing"
    /\ todo' = {b \in held : remaining[b] > 0}
    /\ UNCHANGED <<identity, loopId, peers, history, queue, left>>

PushCollected(b) ==
    /\ phase = "pushing"
    /\ b \in todo
    /\ todo' = todo \ {b}
    /\ queue' = queue \cup {e \in {[bndl |-> b, named |-> loopId]} : Allowed(e)}
    /\ UNCHANGED <<identity, loopId, peers, history, phase, left>>

Rescore ==
    /\ phase = "pushing"
    /\ todo = {}
    /\ queue' = {e \in queue : Allowed(e)}
    /\ phase' = "popping"
    /\ left' = SendPackets
    /\ UNCHANGED <<identity, loopId, peers, history, todo>>

\* Mutant: more packets are popped than SEND_PACKETS.
PopAdvertise_AnyTime(e) ==
    /\ phase = "popping"
    /\ e \in queue \ BundleEntry
    /\ queue' = queue \ {e}
    /\ left' = left - 1
    /\ UNCHANGED <<identity, loopId, peers, history, phase, todo>>

PopAdvertise(e) ==
    /\ phase = "popping"
    /\ left > 0
    /\ e \in queue \ BundleEntry
    /\ queue' = queue \ {e}
    /\ left' = left - 1
    /\ UNCHANGED <<identity, loopId, peers, history, phase, todo>>

\* A popped bundle leaves with a copy, and everyone near counts as served ...
PopAndSend(e) ==
    /\ phase = "popping"
    /\ left > 0
    /\ e \in queue \cap BundleEntry
    /\ MayLeave(e.bndl)
    /\ queue' = queue \ {e}
    /\ left' = left - 1
    /\ remaining' = [remaining EXCEPT ![e.bndl] = Decremented(@)]
    /\ nodes' = [nodes EXCEPT ![e.bndl] = @ \cup Near]
    /\ given' = [given EXCEPT ![e.bndl] = @ + 1]
    /\ UNCHANGED <<identity, loopId, peers, held, granted, phase, todo>>

\* Mutant: putting a bundle aside costs a copy.
PopAndWait_Pays(e) ==
    /\ phase = "popping"
    /\ left > 0
    /\ e \in queue \cap BundleEntry
    /\ ~MayLeave(e.bndl)
    /\ queue' = queue \ {e}
    /\ left' = left - 1
    /\ remaining' = [remaining EXCEPT ![e.bndl] = Decremented(@)]
    /\ UNCHANGED <<identity, loopId, peers, held, nodes, granted, given, phase, todo>>

\* ... or is put aside until a later tick collects it again.
PopAndWait(e) ==
    /\ phase = "popping"
    /\ left > 0
    /\ e \in queue \cap BundleEntry
    /\ ~MayLeave(e.bndl)
    /\ queue' = queue \ {e}
    /\ left' = left - 1
    /\ UNCHANGED <<identity, loopId, peers, history, phase, todo>>

Finish ==
    /\ phase = "popping"
    /\ left = 0 \/ queue = {}
    /\ phase' = "idle"
    /\ left' = 0
    /\ loopId' = named
    /\ UNCHANGED <<identity, peers, history, queue, todo>>

Next ==
    \/ Rename
    \/ \E p \in Peer : PeerSeen(p) \/ PeerAges(p)
    \/ \E b \in Bundle : ForwardData(b) \/ PushCollected(b)
    \/ ForwardUnparsable
    \/ RecommendAdvertise
    \/ OtherEvent
    \/ Tick
    \/ Rescore
    \/ \E e \in queue : PopAdvertise(e) \/ PopAndSend(e) \/ PopAndWait(e)
    \/ Finish

Spec == Init /\ [][Next]_vars

---------------------------------------------------------------------------
(* Properties.                                                             *)

\* Copies are conserved while the node id does not change: what was put on
\* the air and what remains make up what the bundle started with, although a
\* tick checks the remaining copies when it queues a packet and takes one away
\* when it pops it.
CopyBudget ==
    renames = 0 => \A b \in held : given[b] + remaining[b] = granted[b]

\* "no remaining copies means no sending!" (sprayandwait.rs:46): no packet of
\* a bundle is put on the air when its copies are used up.
PaidFor == \A b \in Bundle : given'[b] # given[b] => remaining[b] # 0

NoCopiesNoSending == [][PaidFor]_vars

\* The same as long as the node id has not changed.
NoCopiesNoSendingUnrenamed == [][renames = 0 => PaidFor]_vars

\* "If it's a foreign bundle we give it 1 copy" (sprayandwait.rs:100): a
\* bundle of another node is put on the air once, for its destination only.
\* It takes a node id that was known when the strategy started, and stayed.
ForeignSentOnce ==
    renames = 0 /\ named => \A b \in Bundle \ Own : given[b] <= 1

\* Spray and wait: a bundle runs out of copies only after its destination has
\* been in range, however many others came and went, and whatever became of
\* the node id.
LastCopyWaits ==
    \A b \in held : given[b] >= 1 /\ given[b] = granted[b] => Dest[b] \in met
============================================================================
