--------------------------- MODULE RandomStrategy ---------------------------
(***************************************************************************)
(* The random strategy, src/strategy/random.rs: one event loop that queues *)
(* every bundle from the dtnd or from LoRa under a random priority.  It    *)
(* uses the queue of BundleQueue without allowers, scorers and re-score,   *)
(* and keeps the latest recommended advertisement beside it.               *)
(***************************************************************************)
EXTENDS Integers, FiniteSets, Functions

CONSTANTS
    Bundle,      \* bundle ids
    Name,        \* node ids this node may be registered under
    NoName,      \* the empty node id
    MinScore,    \* MIN_SCORE
    MaxScore,    \* MAX_SCORE
    SendPackets, \* SEND_PACKETS
    MaxArrivals, \* bound: bundles taken over from the dtnd or LoRa
    MaxRenames   \* bound: publications of the node id

ASSUME ScoreAssumption == MinScore \in Int /\ MaxScore \in Nat \ {0}
\* With SEND_PACKETS of 0 only advertisements would be sent.
ASSUME SendAssumption == SendPackets \in Nat \ {0}
ASSUME BoundAssumption == MaxArrivals \in Nat /\ MaxRenames \in Nat
ASSUME NameAssumption == NoName \notin Name \cup Bundle

VARIABLES
    queue,    \* send_queue
    advert,   \* advertise_packet is set
    nodeId,   \* the published node id
    loopId,   \* node_id as read at the top of the loop
    peers,    \* some peer was seen within MAX_PEER_AGE
    sent,     \* the packets the last step sent: {} unless it was a send tick
    arrivals, \* history: how often each bundle was taken over
    departed, \* history: how often each bundle was sent
    renames   \* history: changes of the node id

history == <<arrivals, departed>>
vars == <<queue, advert, nodeId, loopId, peers, sent, history, renames>>

Sender == Name \cup {NoName}

\* Mutant: the draw includes MAX_SCORE itself.
Score_Inclusive == MinScore .. MinScore + MaxScore

\* `min_score + (rand::random::<i32>() % max_score)`: a remainder takes the
\* sign of the dividend, and half of the i32 are negative.
Score == MinScore - (MaxScore - 1) .. MinScore + (MaxScore - 1)

\* Without scorers the clock plays no part, without allowers nothing is denied.
\* A packet differs from another of its bundle only in the sender.
Q == INSTANCE BundleQueue WITH
        Packet <- Sender, NoBundle <- NoName,
        MinBase <- MinScore - (MaxScore - 1), MaxBase <- MinScore + (MaxScore - 1),
        ScoreUnit <- 1, WrapScore <- -2 * MaxScore, WrapRest <- 0, MaxSlot <- 0, MaxClock <- 0, denied <- {}, now <- 0, sent <- {}

\* What a packet is told apart by; the advertisement is the packet without bundle.
Item == [bndl : Bundle \cup {NoName}, sender : Sender]
Advertisement == [bndl |-> NoName, sender |-> NoName]
Items(entries) == {[bndl |-> e.bndl, sender |-> e.meta] : e \in entries}

Total(count) == FoldFunction(+, 0, count)

TypeOK ==
    /\ queue \in SUBSET Q!Entry
    /\ advert \in BOOLEAN
    /\ nodeId \in Sender
    /\ loopId \in Sender
    /\ peers \in BOOLEAN
    /\ sent \in SUBSET Item
    /\ arrivals \in [Bundle -> Nat]
    /\ departed \in [Bundle -> Nat]
    /\ renames \in 0 .. MaxRenames

Init ==
    /\ queue = {}
    /\ advert = FALSE
    /\ nodeId \in Sender
    /\ loopId = nodeId
    /\ peers \in BOOLEAN
    /\ sent = {}
    /\ arrivals = [b \in Bundle |-> 0]
    /\ departed = [b \in Bundle |-> 0]
    /\ renames = 0

\* The ECLA actor publishes or clears the node id; the loop does not notice.
Rename ==
    /\ renames < MaxRenames
    /\ nodeId' \in Sender \ {nodeId}
    /\ renames' = renames + 1
    /\ sent' = {}
    /\ UNCHANGED <<queue, advert, loopId, peers, history>>

\* The only peer is heard of, or all get too old.
PeersChange ==
    /\ peers' = ~peers
    /\ sent' = {}
    /\ UNCHANGED <<queue, advert, nodeId, loopId, history, renames>>

\* StrategyRecommendAdvertise: an advertisement still waiting is replaced.
RecommendAdvertise ==
    /\ advert' = TRUE
    /\ loopId' = nodeId
    /\ sent' = {}
    /\ UNCHANGED <<queue, nodeId, peers, history, renames>>

\* ForwardData from the ECLA or BundleForward from LoRa (which also goes to
\* the dtnd): queued under the id as of the top of the loop, heard before or not.
QueueBundle(b, score) ==
    /\ Total(arrivals) < MaxArrivals
    /\ queue' = Q!Pushed(score, b, loopId, 0)
    /\ arrivals' = [arrivals EXCEPT ![b] = @ + 1]
    /\ loopId' = nodeId
    /\ sent' = {}
    /\ UNCHANGED <<advert, nodeId, peers, departed, renames>>

\* Any other event ends the iteration, too.
OtherEvent ==
    /\ loopId' = nodeId
    /\ sent' = {}
    /\ UNCHANGED <<queue, advert, nodeId, peers, history, renames>>

\* Mutant: the advertisement comes on top of SEND_PACKETS.
Budget_OnTop == SendPackets

Aired == IF advert THEN {Advertisement} ELSE {}

Budget == SendPackets - Cardinality(Aired)

\* Mutant: packets are peeked at, not popped.
SendTick_Peek ==
    /\ advert' = FALSE
    /\ \E S \in IF peers THEN Q!Popped(queue, Budget) ELSE {{}} :
        /\ sent' = Items(S) \cup Aired
        /\ departed' = [b \in Bundle |-> departed[b] + Cardinality({e \in S : e.bndl = b})]
    /\ loopId' = nodeId
    /\ UNCHANGED <<queue, nodeId, peers, arrivals, renames>>

\* The send ticker: the advertisement goes out in any case, bundles only when
\* a peer was seen.
SendTick ==
    /\ advert' = FALSE
    /\ \E S \in IF peers THEN Q!Popped(queue, Budget) ELSE {{}} :
        /\ sent' = Items(S) \cup Aired
        /\ queue' = queue \ S
        /\ departed' = [b \in Bundle |-> departed[b] + Cardinality({e \in S : e.bndl = b})]
    /\ loopId' = nodeId
    /\ UNCHANGED <<nodeId, peers, arrivals, renames>>

Next ==
    \/ Rename
    \/ PeersChange
    \/ RecommendAdvertise
    \/ \E b \in Bundle, score \in Score : QueueBundle(b, score)
    \/ OtherEvent
    \/ SendTick

Spec == Init /\ [][Next]_vars
---------------------------------------------------------------------------
(* Properties.                                                             *)

Waiting(b) == Cardinality({e \in queue : e.bndl = b})

\* No bundle is sent more often than it was handed in, although the same
\* bundle comes from the dtnd and from neighbours, waits under two node ids
\* while the id changes, and merges with a copy of itself that waits.
NoMoreThanHandedIn ==
    \A b \in Bundle : departed[b] + Waiting(b) <= arrivals[b]

\* The strategy is an outbox that never refuses anything: what was accepted
\* waits until it is sent, and an interval sends at most SEND_PACKETS packets,
\* the advertisement among them.
Promise == INSTANCE Outbox WITH
            MaxBurst <- SendPackets,
            waiting <- Items(queue) \cup Aired, refused <- {}, handed <- sent

ImplementsOutbox == Promise!Spec
=============================================================================
