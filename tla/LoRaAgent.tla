----------------------------- MODULE LoRaAgent -----------------------------
(***************************************************************************)
(* The LoRa actor and the agent it starts (src/lora_actor.rs), with the    *)
(* serial modem (src/agents/rf95modem.rs) or the websocket of the emulator *)
(* (src/agents/websocket.rs) behind it.                                    *)
(*                                                                         *)
(*   bus -> actor: airtime           bus -> reader -> commands -> writer   *)
(*   bus <- actor: parsed packets    bus <- reader <- rx <- link           *)
(*                                                                         *)
(* The reader selects on its bus receiver and on the rx channel, and stays *)
(* with a packet while the command channel is full; the link, which reads  *)
(* from the modem or the websocket, stays with one while rx is full.       *)
(* Packets are numbered in the order they are offered to the bus, or heard *)
(* by the link.  The supervisor starts the agent once.                     *)
(*                                                                         *)
(* serial_read reads from the modem without an await.  A task that it      *)
(* wakes is put into the slot of the worker it occupies, where no other    *)
(* worker finds it: the reader is "held" until serial_read has to wait.    *)
(* (tokio has a worker left for the other tasks.)                          *)
(***************************************************************************)
EXTENDS Integers, Sequences, Functions, Airtime, ModemText

CONSTANTS
    CommandCap, \* capacity of the agent's command channel
    RxCap,      \* capacity of the reader's rx channel
    MaxTx,      \* bound: packets the daemon offers
    MaxRx,      \* bound: packets the link hears
    MaxCloses,  \* bound: close requests
    MaxLags     \* bound: events lost by lagging receivers

ASSUME CapAssumption == CommandCap \in Nat \ {0} /\ RxCap \in Nat \ {0}
ASSUME BoundAssumption == MaxTx \in Nat /\ MaxRx \in Nat /\ MaxCloses \in Nat /\ MaxLags \in Nat

VARIABLES
    port,     \* agent_type: "serial" or "websocket"
    actor,    \* the LoRa actor runs
    actorBox, \* its backlog on the bus
    agent,    \* the agent's task
    agentBox, \* the reader's backlog on the bus
    reader,   \* reader_handle: "off", "on", "held" or "done"
    hand,     \* the packet it waits to put into ...
    commands, \* ... the command channel, headed by the packet being written
    writer,   \* the task that reads it: "off", "on", "writing" or "done"
    link,     \* the task that hears the other nodes
    linkHand, \* the packet it waits to put into ...
    rx,       \* ... the channel to the reader
    air,      \* the packets written to the modem or the websocket
    counted,  \* the packets whose airtime is recorded
    parsed,   \* the packets on the bus as LoRaPacketParsedRx
    offered,  \* history: packets offered so far
    heard,    \* history: packets heard so far
    lost,     \* history: events of packets that get no further
    missed,   \* history: the actor has lagged
    closedAt, \* history: the packets offered before the close the reader saw
    closes,   \* history: close requests so far
    lags      \* history: events lost by lagging

bus == <<actorBox, agentBox>>
out == <<hand, commands, writer, air>>
in == <<link, linkHand, rx>>
actorVars == <<actor, counted, parsed>>
history == <<offered, heard, lost, missed, closedAt, closes, lags>>
vars == <<port, bus, agent, reader, out, in, actorVars, history>>

Start == <<"LoRaStart", 0>>
Tx(p) == <<"LoRaPacketTx", p>>
Rx(r) == <<"LoRaPacketRx", r>>
\* The number is history: the packets offered before the request.
Close(target, n) == <<target, n>>

Target == {"All", "LoRa"}
Transmission == {"LoRaPacketTx"} \X (1 .. MaxTx)
Reception == {"LoRaPacketRx"} \X (1 .. MaxRx)
CloseRequest == Target \X (0 .. MaxTx)
AtMostOne(S) == {<<>>} \cup {<<x>> : x \in S}

\* The packet being written takes no place in the channel.
Room == CommandCap + (IF writer = "writing" THEN 1 ELSE 0)

TypeOK ==
    /\ port \in {"serial", "websocket"}
    /\ actor \in BOOLEAN
    /\ actorBox \in Seq({Start} \cup Transmission \cup Reception \cup CloseRequest)
    /\ agent \in {"none", "starting", "opening", "up", "down", "halted"}
    /\ agentBox \in Seq(Transmission \cup CloseRequest)
    /\ reader \in {"off", "on", "held", "done"}
    /\ hand \in AtMostOne(1 .. MaxTx)
    /\ commands \in Seq(1 .. MaxTx) /\ Len(commands) <= Room
    /\ writer \in {"off", "on", "writing", "done"}
    /\ link \in {"off", "on", "done"}
    /\ linkHand \in AtMostOne(1 .. MaxRx)
    /\ rx \in Seq(1 .. MaxRx) /\ Len(rx) <= RxCap
    /\ air \in Seq(1 .. MaxTx)
    /\ counted \subseteq 1 .. MaxTx
    /\ parsed \in Seq(1 .. MaxRx)
    /\ offered \in 0 .. MaxTx /\ heard \in 0 .. MaxRx
    /\ lost \subseteq Transmission \cup Reception
    /\ missed \in BOOLEAN
    /\ closedAt \in {-1} \cup 0 .. MaxTx
    /\ closes \in 0 .. MaxCloses
    /\ lags \in 0 .. MaxLags

---------------------------------------------------------------------------
(* The bus: a receiver gets what is sent while it is subscribed.           *)

AgentSubscribed == agent \in {"opening", "up"} /\ reader # "done"

ToActor(e) == IF actor THEN Append(actorBox, e) ELSE actorBox
ToAgent(e) == IF AgentSubscribed THEN Append(agentBox, e) ELSE agentBox

Packets(events) == Range(events) \cap (Transmission \cup Reception)

\* The supervisor requests the agent.
Init ==
    /\ port \in {"serial", "websocket"}
    /\ actor = TRUE /\ actorBox = <<Start>>
    /\ agent = "none" /\ agentBox = <<>>
    /\ reader = "off" /\ hand = <<>> /\ commands = <<>>
    /\ writer = "off" /\ link = "off" /\ linkHand = <<>> /\ rx = <<>>
    /\ air = <<>> /\ counted = {} /\ parsed = <<>>
    /\ offered = 0 /\ heard = 0 /\ lost = {} /\ missed = FALSE
    /\ closedAt = -1 /\ closes = 0 /\ lags = 0

\* A strategy, a ping or a pong puts a packet on the bus.
Offer ==
    /\ agent # "halted"
    /\ offered < MaxTx
    /\ offered' = offered + 1
    /\ actorBox' = ToActor(Tx(offered + 1))
    /\ agentBox' = ToAgent(Tx(offered + 1))
    /\ lost' = (IF AgentSubscribed THEN lost ELSE lost \cup {Tx(offered + 1)})
    /\ UNCHANGED <<port, agent, reader, out, in, actorVars,
                   heard, missed, closedAt, closes, lags>>

\* GET /close/:target.
Request(target) ==
    /\ agent # "halted"
    /\ closes < MaxCloses
    /\ closes' = closes + 1
    /\ actorBox' = ToActor(Close(target, offered))
    /\ agentBox' = ToAgent(Close(target, offered))
    /\ UNCHANGED <<port, agent, reader, out, in, actorVars,
                   offered, heard, lost, missed, closedAt, lags>>

\* recv fails with Lagged, which both loops ignore; the rest of the daemon's
\* events fill the bus, too.
ActorLags ==
    /\ lags < MaxLags /\ actorBox # <<>>
    /\ lags' = lags + 1
    /\ missed' = TRUE
    /\ actorBox' = Tail(actorBox)
    /\ lost' = lost \cup (Packets(<<Head(actorBox)>>) \cap Reception)
    /\ UNCHANGED <<port, agentBox, agent, reader, out, in, actorVars,
                   offered, heard, closedAt, closes>>

AgentLags ==
    /\ lags < MaxLags /\ agentBox # <<>>
    /\ lags' = lags + 1
    /\ agentBox' = Tail(agentBox)
    /\ lost' = lost \cup Packets(<<Head(agentBox)>>)
    /\ UNCHANGED <<port, actorBox, agent, reader, out, in, actorVars,
                   offered, heard, missed, closedAt, closes>>

\* The process ends, and all its tasks with it.  (After Exit it waits for a
\* serial_read that is left over, whose packets nobody hears.)
Halt ==
    /\ agent' = "halted"
    /\ actor' = FALSE
    /\ reader' = "off" /\ writer' = "off" /\ link' = "off"
    /\ actorBox' = <<>> /\ agentBox' = <<>>
    /\ hand' = <<>> /\ commands' = <<>> /\ linkHand' = <<>> /\ rx' = <<>>
    /\ UNCHANGED <<port, air, counted, parsed, history>>

\* main returns once all actors have.
Exit == agent # "halted" /\ ~actor /\ Halt

---------------------------------------------------------------------------
(* The LoRa actor.                                                         *)

ActorGets(e) == actorBox # <<>> /\ Head(actorBox) = e

StartAgent ==
    /\ ActorGets(Start)
    /\ actorBox' = Tail(actorBox)
    /\ agent' = "starting"
    /\ UNCHANGED <<port, agentBox, reader, out, in, actorVars, history>>

\* Mutant: the airtime of every second packet is forgotten.
RecordAirtime_NotTwice(p) ==
    /\ ActorGets(Tx(p))
    /\ actorBox' = Tail(actorBox)
    /\ counted' = IF counted = {} THEN {p} ELSE counted
    /\ UNCHANGED <<port, agentBox, agent, reader, out, in, actor, parsed, history>>

\* It takes note of each transmission, whatever becomes of it.
RecordAirtime(p) ==
    /\ ActorGets(Tx(p))
    /\ actorBox' = Tail(actorBox)
    /\ counted' = counted \cup {p}
    /\ UNCHANGED <<port, agentBox, agent, reader, out, in, actor, parsed, history>>

\* A received packet is put on the bus again if it is a protocol buffer.
Parse(r) ==
    /\ ActorGets(Rx(r))
    /\ actorBox' = Tail(actorBox)
    /\ \/ parsed' = Append(parsed, r) /\ UNCHANGED lost
       \/ lost' = lost \cup {Rx(r)} /\ UNCHANGED parsed
    /\ UNCHANGED <<port, agentBox, agent, reader, out, in, actor, counted,
                   offered, heard, missed, closedAt, closes, lags>>

\* Only Close(All) ends the actor.
ActorCloses(e) ==
    /\ ActorGets(e)
    /\ IF e[1] = "All"
       THEN /\ actor' = FALSE
            /\ actorBox' = <<>>
            /\ lost' = lost \cup (Packets(actorBox) \cap Reception)
       ELSE /\ actorBox' = Tail(actorBox)
            /\ UNCHANGED <<actor, lost>>
    /\ UNCHANGED <<port, agentBox, agent, reader, out, in, counted, parsed,
                   offered, heard, missed, closedAt, closes, lags>>

Actor ==
    \/ StartAgent
    \/ \E p \in 1 .. MaxTx : RecordAirtime(p)
    \/ \E r \in 1 .. MaxRx : Parse(r)
    \/ \E e \in CloseRequest : ActorCloses(e)

---------------------------------------------------------------------------
(* The agent's start and end.                                              *)

Subscribe ==
    /\ agent = "starting"
    /\ agent' = "opening"
    /\ UNCHANGED <<port, bus, reader, out, in, actorVars, history>>

\* The port opens: its two tasks and the reader are spawned.
OpenOk ==
    /\ agent = "opening"
    /\ agent' = "up"
    /\ reader' = "on" /\ writer' = "on" /\ link' = "on"
    /\ UNCHANGED <<port, bus, hand, commands, air, linkHand, rx, actorVars, history>>

\* "could not connect to LoRa port on first start! Aborting...": the panic
\* aborts the process, as the build profiles demand.
OpenFails == agent = "opening" /\ Halt

\* Mutant: the agent waits for the port's writer as well.
Finish_AfterWriter ==
    /\ agent = "up"
    /\ reader = "done" /\ writer = "done"
    /\ agent' = "down"
    /\ UNCHANGED <<port, bus, reader, out, in, actorVars, history>>

\* The position fetcher finds the reader finished: the port, and with it the
\* last sender of the command channel, is dropped.
Finish ==
    /\ agent = "up"
    /\ reader = "done"
    /\ agent' = "down"
    /\ UNCHANGED <<port, bus, reader, out, in, actorVars, history>>

---------------------------------------------------------------------------
(* The reader.                                                             *)

CanRead == reader = "on" /\ hand = <<>>

ReadTx(p) ==
    /\ CanRead
    /\ agentBox # <<>> /\ Head(agentBox) = Tx(p)
    /\ agentBox' = Tail(agentBox)
    /\ hand' = <<p>>
    /\ UNCHANGED <<port, actorBox, agent, reader, commands, writer, air, in,
                   actorVars, history>>

\* Mutant: the channel has no capacity.
PassOn_Unbounded ==
    /\ hand # <<>>
    /\ commands' = commands \o hand
    /\ hand' = <<>>
    /\ UNCHANGED <<port, bus, agent, reader, writer, air, in, actorVars, history>>

\* Mutant: the packet in hand is let go when the channel is full.
PassOn_OrDrop ==
    /\ hand # <<>>
    /\ commands' = IF Len(commands) < Room THEN commands \o hand ELSE commands
    /\ hand' = <<>>
    /\ UNCHANGED <<port, bus, agent, reader, writer, air, in, actorVars, history>>

\* The send ends as soon as the command channel has room.
PassOn ==
    /\ reader = "on"
    /\ hand # <<>>
    /\ Len(commands) < Room
    /\ commands' = commands \o hand
    /\ hand' = <<>>
    /\ UNCHANGED <<port, bus, agent, reader, writer, air, in, actorVars, history>>

\* Mutant: the reader goes on after the close.
ReadClose_GoesOn(e) ==
    /\ CanRead
    /\ agentBox # <<>> /\ Head(agentBox) = e
    /\ closedAt' = e[2]
    /\ agentBox' = Tail(agentBox)
    /\ UNCHANGED <<port, actorBox, agent, reader, out, in, actorVars,
                   offered, heard, lost, missed, closes, lags>>

\* Close(All) or Close(LoRa): the future that would send Command::Close is
\* dropped unpolled, so neither the writer nor the link learns of it; the
\* reader returns, and its receivers and its command sender go with it.
ReadClose(e) ==
    /\ CanRead
    /\ agentBox # <<>> /\ Head(agentBox) = e
    /\ closedAt' = e[2]
    /\ reader' = "done"
    /\ agentBox' = <<>> /\ rx' = <<>>
    /\ lost' = lost \cup Packets(agentBox) \cup {Rx(r) : r \in Range(rx)}
    /\ UNCHANGED <<port, actorBox, agent, out, link, linkHand, actorVars,
                   offered, heard, missed, closes, lags>>

\* The other arm of the select puts a packet of the port on the bus.
Deliver ==
    /\ CanRead
    /\ rx # <<>>
    /\ rx' = Tail(rx)
    /\ actorBox' = ToActor(Rx(Head(rx)))
    /\ lost' = (IF actor THEN lost ELSE lost \cup {Rx(Head(rx))})
    /\ UNCHANGED <<port, agentBox, agent, reader, out, link, linkHand, actorVars,
                   offered, heard, missed, closedAt, closes, lags>>

ReadBus ==
    \/ \E p \in 1 .. MaxTx : ReadTx(p)
    \/ \E e \in CloseRequest : ReadClose(e)

---------------------------------------------------------------------------
(* The port's two tasks.                                                   *)

TakeCommand ==
    /\ writer = "on"
    /\ commands # <<>>
    /\ writer' = "writing"
    /\ UNCHANGED <<port, bus, agent, reader, hand, commands, air, in, actorVars, history>>

\* A write that fails is logged; a websocket that has ended fails them all.  The
\* modem is written to for two seconds at most, and what one write() leaves of a
\* line is not written again, by which the packet is lost, too.  The websocket's
\* send waits for as long as the socket takes nothing.
Write ==
    /\ writer = "writing" /\ commands # <<>>
    /\ writer' = "on"
    /\ commands' = Tail(commands)
    /\ \/ /\ ~(port = "websocket" /\ link = "done")
          /\ air' = Append(air, Head(commands)) /\ UNCHANGED lost
       \/ lost' = lost \cup {Tx(Head(commands))} /\ UNCHANGED air
    /\ UNCHANGED <<port, bus, agent, reader, hand, in, actorVars,
                   offered, heard, missed, closedAt, closes, lags>>

\* No sender is left and the channel is drained: the websocket's writer ends.
\* The serial one selects again, for ever, and goes on asking for the position.
WriterEnds ==
    /\ port = "websocket"
    /\ writer = "on"
    /\ agent = "down" /\ commands = <<>>
    /\ writer' = "done"
    /\ UNCHANGED <<port, bus, agent, reader, hand, commands, air, in, actorVars, history>>

Listening == link = "on" /\ linkHand = <<>>

Hear ==
    /\ Listening
    /\ heard < MaxRx
    /\ heard' = heard + 1
    /\ linkHand' = <<heard + 1>>
    /\ UNCHANGED <<port, bus, agent, reader, out, link, rx, actorVars,
                   offered, lost, missed, closedAt, closes, lags>>

\* What cannot be decoded, hexadecimal or JSON, is logged.
HearUndecodable ==
    /\ Listening
    /\ heard < MaxRx
    /\ heard' = heard + 1
    /\ lost' = lost \cup {Rx(heard + 1)}
    /\ UNCHANGED <<port, bus, agent, reader, out, in, actorVars,
                   offered, missed, closedAt, closes, lags>>

\* A "+RX " line of the modem that lacks a field panics.
HearTorn == port = "serial" /\ Listening /\ Halt

\* The reader has found nothing to do when it was last polled.
ReaderWaits ==
    /\ reader = "on"
    /\ IF hand = <<>> THEN agentBox = <<>> /\ rx = <<>> ELSE Len(commands) = Room

\* Mutant: the link waits for a reader that is gone.
PassIn_Waits ==
    /\ linkHand # <<>>
    /\ reader # "done" /\ Len(rx) < RxCap
    /\ linkHand' = <<>>
    /\ rx' = rx \o linkHand
    /\ UNCHANGED <<port, bus, agent, reader, out, link, actorVars, history>>

\* The packet goes to the reader, which may be gone, and wakes it if it waits.
PassIn ==
    /\ linkHand # <<>>
    /\ linkHand' = <<>>
    /\ IF reader = "done"
       THEN lost' = lost \cup {Rx(linkHand[1])} /\ UNCHANGED rx
       ELSE Len(rx) < RxCap /\ rx' = rx \o linkHand /\ UNCHANGED lost
    /\ \/ UNCHANGED reader
       \/ port = "serial" /\ ReaderWaits /\ reader' = "held"
    /\ UNCHANGED <<port, bus, agent, out, link, actorVars,
                   offered, heard, missed, closedAt, closes, lags>>

\* serial_read waits in its send, for room or because it has used up its budget,
\* and its worker turns to the reader.
Yield ==
    /\ reader = "held"
    /\ linkHand # <<>>
    /\ reader' = "on"
    /\ UNCHANGED <<port, bus, agent, out, in, actorVars, history>>

\* The emulator closes the websocket.  Nothing connects it again.
LinkEnds ==
    /\ port = "websocket"
    /\ Listening
    /\ link' = "done"
    /\ UNCHANGED <<port, bus, agent, reader, out, linkHand, rx, actorVars, history>>

---------------------------------------------------------------------------

Next ==
    \/ Offer
    \/ \E target \in Target : Request(target)
    \/ ActorLags \/ AgentLags
    \/ Exit
    \/ Actor
    \/ Subscribe \/ OpenOk \/ OpenFails \/ Finish
    \/ ReadBus \/ PassOn \/ Deliver
    \/ TakeCommand \/ Write \/ WriterEnds
    \/ Hear \/ HearUndecodable \/ HearTorn \/ PassIn \/ Yield \/ LinkEnds

Spec == Init /\ [][Next]_vars

\* Every task that can go on and is not held is scheduled, opening ends one way
\* or the other, a select with two ready arms is fair to both, and a write to the
\* modem ends.  Nobody sees to it that the websocket takes a packet, or that the
\* modem hears another one.
Fairness ==
    /\ WF_vars(Actor)
    /\ WF_vars(Subscribe) /\ WF_vars(OpenOk \/ OpenFails) /\ WF_vars(Finish)
    /\ WF_vars(ReadBus) /\ WF_vars(PassOn) /\ WF_vars(Deliver)
    /\ WF_vars(TakeCommand) /\ WF_vars(port = "serial" /\ Write) /\ WF_vars(WriterEnds)
    /\ WF_vars(PassIn) /\ WF_vars(Len(rx) = RxCap /\ Yield)

FairSpec == Spec /\ Fairness

---------------------------------------------------------------------------
(* Properties.                                                             *)

Increasing(s) == \A i, j \in DOMAIN s : i < j => s[i] < s[j]

\* Through three queues each way, packets neither overtake each other nor are
\* doubled: they are written in the order they were offered, and parsed in the
\* order they were heard.
InOrder == Increasing(air) /\ Increasing(parsed)

\* After a close request nothing more goes out than what was offered before,
\* although the writer is never told of it.
ClosedIsClosed ==
    closedAt # -1 => \A p \in Range(air) : p <= closedAt

\* Where a packet is that the agent has taken and that is on its way.
Outbound(p) ==
    \/ Tx(p) \in Range(agentBox)
    \/ p \in Range(hand) \cup Range(commands)

Inbound(r) ==
    \/ r \in Range(linkHand) \cup Range(rx)
    \/ Rx(r) \in Range(actorBox)

\* No packet disappears between the queues of four tasks: it goes out or is
\* parsed, unless an error, a lag or a close request takes it or it comes before
\* the agent has subscribed.
NothingVanishes ==
    agent # "halted" =>
        /\ \A p \in 1 .. offered : Outbound(p) \/ p \in Range(air) \/ Tx(p) \in lost
        /\ \A r \in 1 .. heard : Inbound(r) \/ r \in Range(parsed) \/ Rx(r) \in lost

Busy == (\E p \in 1 .. offered : Outbound(p)) \/ (\E r \in 1 .. heard : Inbound(r))

\* The agent is a pipe in each direction: whatever the interleaving of the four
\* tasks, the next packet to come out is the oldest that is on its way, and a
\* packet leaves its way in no other manner than by one of the losses.
Outward == INSTANCE Pipe WITH
            waiting <- {p \in 1 .. MaxTx : Outbound(p)}, delivered <- air,
            lost <- {p \in 1 .. MaxTx : Tx(p) \in lost}, latest <- offered,
            broken <- agent = "halted"

Inward == INSTANCE Pipe WITH
            waiting <- {r \in 1 .. MaxRx : Inbound(r)}, delivered <- parsed,
            lost <- {r \in 1 .. MaxRx : Rx(r) \in lost}, latest <- heard,
            broken <- agent = "halted"

ImplementsPipe == Outward!Spec /\ Inward!Spec

SocketWaits == port = "websocket" /\ writer = "writing"

\* The reader may wait for the writer and the link for the reader, but never
\* in a circle: what is on its way arrives, also if it was offered while the
\* port was still being opened, unless the websocket takes no more packets or
\* the reader is held for ever.  (The traffic is bounded, so to come to rest
\* means that each packet got through.)
NothingIsStuck == (Busy ~> ~Busy) \/ <>[]SocketWaits \/ <>[](reader = "held")

\* The actor that records the airtime and the agent that uses it have backlogs
\* of their own; while the actor runs and does not lag, every packet that was
\* on the air is recorded in the end.
AirIsCounted ==
    Range(air) \ counted # {} ~> Range(air) \subseteq counted \/ missed \/ ~actor

\* What the actor counts grows with the spreading factor, the checksum, the
\* header and the low data rate optimisation (at the default coding rate and
\* preamble).
RobustnessCosts == counted # {} => Costs

\* After a close request the agent ends, and the writer of a websocket with it,
\* by the senders that are dropped and not by the command that is never sent,
\* unless that writer waits for the socket.  The serial connection and the
\* websocket's link stay open.
CloseSettles ==
    (reader = "done" ~>
        \/ agent = "halted"
        \/ agent = "down" /\ (port = "websocket" => writer = "done"))
    \/ <>[]SocketWaits
============================================================================
