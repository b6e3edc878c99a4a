------------------------------ MODULE PingPong ------------------------------
(***************************************************************************)
(* The ping of the REST API, POST /ping_pong in src/httpd.rs, and the      *)
(* answers of the LoRa actors that hear it, src/lora_actor.rs.             *)
(*                                                                         *)
(* One node's request is followed.  Its receiver of the event bus sees     *)
(* every event since it subscribed: transmissions, raw packets, the same   *)
(* packets parsed, and what the rest of the daemon has to say.             *)
(*                                                                         *)
(* A node has its id while its ECLA connection lasts; NoName is the id of  *)
(* an unregistered node.  What a handler does with one event reads the id  *)
(* once here, though it may be cleared between two of its reads.           *)
(***************************************************************************)
EXTENDS Integers, Sequences, FiniteSets

CONSTANTS
    Node,      \* the nodes in range of each other
    NoName,    \* the empty node id
    Asker,     \* the node whose REST API is asked
    Named,     \* the nodes that begin with a node id
    MaxPings,  \* bound: pings on the air, the followed one included
    MaxOther,  \* bound: other events on the asker's bus
    MaxRenames \* bound: node ids published or cleared, over all nodes

ASSUME NodeAssumption == IsFiniteSet(Node) /\ Asker \in Node /\ Named \subseteq Node
ASSUME NameAssumption == NoName \notin Node
ASSUME BoundAssumption == MaxPings \in Nat /\ MaxOther \in Nat /\ MaxRenames \in Nat

VARIABLES
    named,   \* the nodes whose node id is published
    inbox,   \* per node: received packets its LoRa actor has still to parse
    arm,     \* the request: "none", subscribed as "asked", then what its
             \* select listens to: "open", the timer alone as "closed", "done"
    target,  \* the node id that is asked for
    own,     \* our_node_id, read when the request begins to wait
    backlog, \* the events the request has still to read
    result,  \* the answers collected so far
    heard,   \* history: the answers that were parsed during the request
    pings,   \* history: pings on the air
    pinged,  \* history: pings each node has heard
    ponged,  \* history: pongs each node has sent
    other,   \* history: other events
    renames  \* history: node ids published or cleared

asked == <<target, own>>
history == <<heard, pings, pinged, ponged, other, renames>>
vars == <<named, inbox, arm, asked, backlog, result, history>>

NodeId(n) == IF n \in named THEN n ELSE NoName

Target == Node \cup {NoName}

Ping(id) == [type |-> "ping", id |-> id]
Pong(id) == [type |-> "pong", id |-> id]
Packet == [type : {"ping", "pong"}, id : Target]

\* LoRaPacketTx, LoRaPacketRx and all that the select has no pattern for.
Unmatched == [type |-> "other", id |-> NoName]

Event == Packet \cup {Unmatched}

TypeOK ==
    /\ named \in SUBSET Node
    /\ inbox \in [Node -> Seq(Packet)]
    /\ arm \in {"none", "asked", "open", "closed", "done"}
    /\ target \in Target
    /\ own \in {Asker, NoName}
    /\ backlog \in Seq(Event)
    /\ result \in Seq(Target)
    /\ heard \in Seq(Target)
    /\ pings \in 0 .. MaxPings
    /\ pinged \in [Node -> Nat]
    /\ ponged \in [Node -> Nat]
    /\ other \in 0 .. MaxOther
    /\ renames \in 0 .. MaxRenames

---------------------------------------------------------------------------

Subscribed == arm \in {"asked", "open", "closed"}

\* What the request's receiver gets of events on the asker's bus.
Reported(events) == IF Subscribed THEN backlog \o events ELSE backlog

\* A raw packet on the asker's bus, if the asker is among the hearers.
Raw(H) == IF Asker \in H THEN <<Unmatched>> ELSE <<>>

\* p is on the air and the nodes in H hear it.
Transmit(p, box, H) ==
    /\ inbox' = [m \in Node |-> IF m \in H THEN Append(box[m], p) ELSE box[m]]
    /\ pinged' = [m \in Node |->
            IF m \in H /\ p.type = "ping" THEN pinged[m] + 1 ELSE pinged[m]]

Init ==
    /\ named = Named
    /\ inbox = [n \in Node |-> <<>>]
    /\ arm = "none"
    /\ target = NoName
    /\ own = NoName
    /\ backlog = <<>>
    /\ result = <<>>
    /\ heard = <<>>
    /\ pings = 0
    /\ pinged = [n \in Node |-> 0]
    /\ ponged = [n \in Node |-> 0]
    /\ other = 0
    /\ renames = 0

\* The ECLA actor publishes the id of a node, or its client clears it.
Rename(n) ==
    /\ renames < MaxRenames
    /\ renames' = renames + 1
    /\ named' = IF n \in named THEN named \ {n} ELSE named \cup {n}
    /\ UNCHANGED <<inbox, arm, asked, backlog, result, heard, pings, pinged, ponged, other>>

\* The request subscribes ...
Ask(id) ==
    /\ arm = "none"
    /\ arm' = "asked"
    /\ target' = id
    /\ UNCHANGED <<named, inbox, own, backlog, result, history>>

\* Mutant: the request takes the id it asks for to be its own.
SendPing_OwnIsTarget(H) ==
    /\ arm = "asked"
    /\ pings < MaxPings
    /\ arm' = "open"
    /\ Transmit(Ping(target), inbox, H)
    /\ backlog' = Append(backlog, Unmatched)
    /\ pings' = pings + 1
    /\ own' = target
    /\ UNCHANGED <<named, target, result, heard, ponged, other, renames>>

\* ... and broadcasts its transmission, behind what came in between, and reads
\* the node id it compares its target with.
SendPing(H) ==
    /\ arm = "asked"
    /\ pings < MaxPings
    /\ arm' = "open"
    /\ Transmit(Ping(target), inbox, H)
    /\ backlog' = Append(backlog, Unmatched)
    /\ pings' = pings + 1
    /\ own' = NodeId(Asker)
    /\ UNCHANGED <<named, target, result, heard, ponged, other, renames>>

\* Another request, here or at another node.
OtherAsks(n, id, H) ==
    /\ pings < MaxPings
    /\ Transmit(Ping(id), inbox, H)
    /\ backlog' = Reported(IF n = Asker THEN <<Unmatched>> ELSE Raw(H))
    /\ pings' = pings + 1
    /\ UNCHANGED <<named, arm, asked, result, heard, ponged, other, renames>>

\* Mutant: any ping-pong packet that fits is answered.
Answers_Any(n, p) == p.id \in {NoName, NodeId(n)}

\* Whether the LoRa actor answers: a ping for everybody or for its own id.
Answers(n, p) == p.type = "ping" /\ p.id \in {NoName, NodeId(n)}

\* The LoRa actor parses a packet, finds it on the bus and answers at once.
\* A pong bears the id of its sender.
Answer(n, H) ==
    /\ inbox[n] # <<>>
    /\ Answers(n, Head(inbox[n]))
    /\ Transmit(Pong(NodeId(n)), [inbox EXCEPT ![n] = Tail(@)], H)
    /\ backlog' = Reported(IF n = Asker THEN <<Head(inbox[n]), Unmatched>> ELSE Raw(H))
    /\ ponged' = [ponged EXCEPT ![n] = @ + 1]
    /\ UNCHANGED <<named, arm, asked, result, heard, pings, other, renames>>

\* It only parses a packet that is not for it to answer.
Ignore(n) ==
    /\ inbox[n] # <<>>
    /\ ~Answers(n, Head(inbox[n]))
    /\ inbox' = [inbox EXCEPT ![n] = Tail(@)]
    /\ backlog' = IF n = Asker THEN Reported(<<Head(inbox[n])>>) ELSE backlog
    /\ heard' = IF n = Asker /\ Subscribed /\ Head(inbox[n]).type = "pong"
                  THEN Append(heard, Head(inbox[n]).id) ELSE heard
    /\ UNCHANGED <<named, arm, asked, result, pings, pinged, ponged, other, renames>>

\* Ticks, bundles, configuration requests: the bus carries much else.
OtherEvent ==
    /\ other < MaxOther
    /\ other' = other + 1
    /\ backlog' = Reported(<<Unmatched>>)
    /\ UNCHANGED <<named, inbox, arm, asked, result, heard, pings, pinged, ponged, renames>>

\* Mutant: the type of the packet is not looked at.
ReadPong_AnyType ==
    /\ arm = "open"
    /\ backlog # <<>>
    /\ Head(backlog) # Unmatched
    /\ result' = Append(result, Head(backlog).id)
    /\ backlog' = Tail(backlog)
    /\ arm' = IF target = own THEN "done" ELSE "open"
    /\ UNCHANGED <<named, inbox, asked, history>>

\* The select's second arm, an answer: collected; when the request names the
\* asker itself the first one suffices.
ReadPong ==
    /\ arm = "open"
    /\ backlog # <<>>
    /\ Head(backlog).type = "pong"
    /\ result' = Append(result, Head(backlog).id)
    /\ backlog' = Tail(backlog)
    /\ arm' = IF target = own THEN "done" ELSE "open"
    /\ UNCHANGED <<named, inbox, asked, history>>

\* Other packets that parse are skipped, with a new timer.
SkipPacket ==
    /\ arm = "open"
    /\ backlog # <<>>
    /\ Head(backlog).type = "ping"
    /\ backlog' = Tail(backlog)
    /\ UNCHANGED <<named, inbox, arm, asked, result, history>>

\* An event that does not match the arm's pattern closes the arm: the select
\* goes on with the timer alone.
CloseArm ==
    /\ arm = "open"
    /\ backlog # <<>>
    /\ Head(backlog) = Unmatched
    /\ backlog' = Tail(backlog)
    /\ arm' = "closed"
    /\ UNCHANGED <<named, inbox, asked, result, history>>

\* Mutant: the timer goes with the arm.
Timeout_WithArm ==
    /\ arm = "open"
    /\ arm' = "done"
    /\ UNCHANGED <<named, inbox, asked, backlog, result, history>>

\* The timer starts with each select.  When it runs out as an event comes in the
\* select takes either, so events may be left unread.
Timeout ==
    /\ arm \in {"open", "closed"}
    /\ arm' = "done"
    /\ UNCHANGED <<named, inbox, asked, backlog, result, history>>

Next ==
    \/ \E n \in Node : Rename(n)
    \/ \E id \in Target : Ask(id)
    \/ \E H \in SUBSET (Node \ {Asker}) : SendPing(H)
    \/ \E n \in Node, id \in Target : \E H \in SUBSET (Node \ {n}) : OtherAsks(n, id, H)
    \/ \E n \in Node : \E H \in SUBSET (Node \ {n}) : Answer(n, H)
    \/ \E n \in Node : Ignore(n)
    \/ OtherEvent
    \/ ReadPong
    \/ SkipPacket
    \/ CloseArm
    \/ Timeout

Spec == Init /\ [][Next]_vars

\* The timer is only sure to run out while nothing comes that starts it anew.
Expires == (arm = "closed" \/ backlog = <<>>) /\ Timeout

\* The request's task, its timer and the LoRa actors keep running.
Fairness ==
    /\ WF_vars(\E H \in SUBSET (Node \ {Asker}) : SendPing(H))
    /\ WF_vars(ReadPong) /\ WF_vars(SkipPacket) /\ WF_vars(CloseArm) /\ WF_vars(Expires)
    /\ \A n \in Node : WF_vars(Ignore(n) \/ \E H \in SUBSET (Node \ {n}) : Answer(n, H))

FairSpec == Spec /\ Fairness

---------------------------------------------------------------------------
(* Properties.                                                             *)

\* Answers do not breed answers: a node sends no more pongs than it heard
\* pings, although every pong is heard by nodes that answer broadcasts, and a
\* node without an id sends pongs with the empty id that pings to all have.
NoPongStorm ==
    \A n \in Node : ponged[n] <= pinged[n]

\* The request ends when the traffic that restarts its timer does, whichever
\* of its select's arms is left by then.
RequestEnds == arm = "open" ~> arm = "done"

\* The request invents nothing and mixes nothing up: what it has collected are
\* the first answers that reached the node since it subscribed, in their order,
\* although it reads them from a bus that carries much else.
OnlyWhatWasHeard ==
    /\ Len(result) <= Len(heard)
    /\ \A i \in DOMAIN result : result[i] = heard[i]

\* "Wait for responses" (httpd.rs:125): as long as the request waits it listens,
\* so that none of the answers in its backlog is one it will never read.
AnswersAreAwaited ==
    arm = "closed" => \A i \in DOMAIN backlog : backlog[i].type # "pong"
=============================================================================
