# TLA+ specifications of dtn7-rs-lora-ecla

This directory holds TLA+ models of the LoRa convergence-layer daemon `loclad`,
the TLC configurations that check them on small instances, and proofs checked by
TLAPS. Paths such as `strategy/quadrant.rs` are relative to `src/` of the
repository. `PROJECT.json` lists every run, theorem, mapped definition, finding
and hazard; this file explains them.

## 1. The system

`loclad` connects a local dtn7 daemon (dtnd) with a LoRa radio. It is a set of
tokio tasks ("actors") that talk over one bounded broadcast bus and a few global
values (node id, position, peer list, airtimes).

| Component | State it keeps | Operations | Talks to |
|---|---|---|---|
| Outgoing queue (`bundlequeue/`, `strategy/proto.rs`) | priority map of entries (bundle, encoded packet, base priority) | `push`, `push_buf`, `rescore`, `pop`, `generate_sends` | owned by a strategy |
| Quadrant strategy (`strategy/quadrant.rs`) | bundles, neighbours with advertised hash and seen bundles, queue, cancellation | receive loop and three periodic tasks under one lock | bus, node id, position |
| Spray-and-wait strategy (`strategy/sprayandwait.rs`) | history of bundles with remaining copies and served nodes, queue | one event loop: send tick, ForwardData, advertise, close | bus, node id, peers |
| Random strategy (`strategy/random.rs`) | queue, one pending advertisement | one event loop | bus, node id, peers |
| Strategy actor (`strategy_actor.rs`, `strategy/mod.rs`) | latest config, advertise task | start a strategy, answer config requests | bus |
| LoRa actor (`lora_actor.rs`) | airtime config, peers | start an agent, parse packets, answer pings, record peers and airtimes | bus |
| LoRa agents (`agents/`, `start_lora_agent`) | command and rx channel, open port | open, transmit, hear, close | bus, modem or emulator |
| Airtime (`airtime.rs`) | - | `time_total` of a packet | LoRa actor |
| ECLA actor (`ecla_actor.rs`) | running flag, websocket client | start and close the client, publish and clear the node id | bus, dtnd |
| dtnd actor (`dtnd_actor.rs`) | running flag, child process | start and close dtnd, announce it | bus |
| Supervisor and main (`supervisor_actor.rs`, `bin/loclad.rs`) | - | boot order, Ctrl-C, wait for the actors | bus |
| REST API (`httpd.rs`) | - | close, config, ping-pong requests | bus |
| Emulator actor (`emu_actor.rs`) | settings | report settings over HTTP | bus, emulator |
| Global state (`global/mod.rs`) | bus, node id, position, peers, airtimes | broadcast, publish, `pass_to_dtnd`, windows over peers and airtimes | everyone |

What is hard about it:

* **Staleness.** A bundle hash is computed, queued, aired, received and stored
  while the store it digests moves on; an allower's answer is given when a packet
  is queued and matters when it is popped; the node id in a queued packet is the
  one of the time it was queued.
* **Loss.** The radio loses packets, each relay is transmitted once, and a full
  bus drops events without a word.
* **Identity.** Queue entries are equal when bundle and encoded packet are equal;
  advertisements are equal to nothing, not even to themselves; the packet holds the
  sender, so the same bundle under two node ids is two entries.
* **Life cycle.** Close requests, the registration with dtnd, the cancellation of
  a strategy and the end of `main` are separate tasks whose steps interleave.
* **Backpressure.** Four tasks of a LoRa agent wait for room in each other's
  channels, and what ends one of them is not told to the others.
* **Waits without an end.** The socket of the websocket agent and the emulator's REST
  API are awaited without a timeout, and the serial agent reads in a loop that blocks
  its worker thread.
* **Clocks.** Peers and airtimes carry wall clock stamps whose differences wrap.
* **Boundaries.** Unsigned copy counters, `<` against `<=` on peer ages, an empty
  node id that is a prefix of every bundle id.

For each component the properties that make it correct: the queue merges what is
equal, drops only what is denied and lets waiting beat priority; the quadrant
strategy never takes a neighbour to have what it never had, and serves everyone
in reach; spray and wait conserves its copies and keeps the last one for the
destination; the LoRa agent keeps its packets in order, loses none and does not
stand still; the windows over peers and airtimes hold what they say; the daemon
starts in order and ends when it is told to.  Where the code falls short of one of
these the properties say what is left of it, and the findings and
section 5 what is not.

## 2. Modules

### BundleQueue (with BundleQueueProofs, MCBundleQueue)

One queue as the strategies drive it. `queue` is the set of entries, `denied` the
bundles that some allower refuses at the moment (what the allowers read - peers, copies,
sizes - changes beside the queue, so `ChangeDenied` is arbitrary), `now` the wall clock,
which runs (`Tick`) and is set back (`SetBack`), `sent` what the last send interval
handed out. `Push` is `BundleQueue::push`; an equal entry keeps its key and only gets a
new priority, as the priority map does. `GenerateSends` is `generate_sends(queue,
SEND_PACKETS, true)`: re-score, then pop. Equal priorities are popped in any order.
Advertisements never equal anything and carry a slot number to stay apart in a set.
`WaitingScore` is the age by the wall clock. When the clock was set back behind a stamp
the unsigned difference wraps, and the division and the cast to `i32` cut it:
`WrapScore` and `WrapRest` are what is left, for the quadrant strategy -1717986919 (the
lower 32 bits of 2^64 \div 10) and 2^64 % 10 = 6; the run has a unit of 2
and a rest of 1. A debug build panics instead.

Properties: `OneEntryPerPacket`, `NoLateOvertaking` (nothing is sent ahead of a packet
whose stamp is older by `ScoreUnit * (MaxBase - MinBase + 1)` seconds: the waiting score
bounds starvation. It speaks of stamps, clock set back or not; in real time a packet
that was stamped before the clock was set back waits behind all that are stamped
afterwards, until the clock has caught up) and `ImplementsOutbox`: rescore clears and
rebuilds a map with non-reflexive keys and must lose nothing but what is denied, and
nothing denied may be sent (see Outbox).

Bounds: one bundle in two encodings plus advertisements in one slot, two base
priorities, a clock up to 4 with a unit of 2, so the overtaking horizon of 4 seconds is
reached exactly; one packet per interval, so that there is always something left behind;
the clock is set back at any moment. The bounds on the clock and the slots are the only
ones.

### Quadrant (with QuadrantProofs, MCQuadrant)

Several nodes that run `quadrant_routing` and hear each other. Per node: `store`
(`QuadrantCore::bundles`), `known`/`hashOf`/`seenAt` (`neighbors` and its
fields), `queue` (the waiting packets), `inbox` (received packets on its bus),
`relaying` (a bundle between the critical sections of the receive loop), `named`
(the node id is published), `awake` (tasks past `wait_for_node_name`), `dtnd`
(bundles of the local dtnd). A hash stands for the set of ids it digests, so
distinct sets never collide. `SendHeard` lets every other node hear any subset of
what is transmitted: loss is built in. `Restart` and `Disconnect` are the faults,
`MaxFaults` their bound. After `Disconnect` the node may be registered again,
which is more than the daemon does at present.

The order of the queue is left to BundleQueue: any waiting entry may be popped,
which covers every priority. The priorities themselves are in RelayPriority.

Properties: `KnowledgeSound` (the hash attributed to a neighbour and what was
"seen" there were really stored there once), `SpreadOmitsNobody` (the two skips of
`spreadable_bundles` leave out only bundles that every known neighbour has had),
and under fairness `NeighboursServed` (a sendable bundle reaches every neighbour
in spite of losses) and `SpreadSettles` (the spreading comes to rest, unless a bundle
stays `Stuck`: too long under the name of a node that has it, it is never sent, and
keeps the hashes of that node and its neighbours apart for ever).

Bounds: two nodes, one bundle, one fault, one waiting advertisement, one packet in
a receiver's inbox. A second bundle or a third node multiplies the states beyond
what TLC does in minutes; the safety theorems below have no such bound. The
liveness run has no faults, since after a restart a neighbour is never served again
(its seen bundles are kept). It has a node whose forwards are too long for the size
allowers, and the bundle is created at either node: at the other one it is served and
the spreading rests; at that node both cases happen, the bundle is sent before the node
has its name, or it stays.

Fairness: the tickers and the receive loop are tokio tasks that keep being
scheduled (weak fairness of each handler); the registration is retried by the
client; the radio does not lose the same kind of packet to the same neighbour for
ever (strong fairness of being heard, per neighbour and bundle). The last is an
assumption about the channel that no code can discharge. It also stands for the
queue's promise that no waiting packet starves, which BundleQueue shows.

### SprayAndWait (with SprayAndWaitProofs, MCSprayAndWait)

One node's event loop beside the LoRa actor (`PeerSeen`), the clock (`PeerAges`)
and the ECLA actor (`Rename`). `remaining` and `nodes` are `SaWBundleData`. A send
tick reads the peers again for every push, for the re-score and for every pop, so
it is the steps `Tick`, `PushCollected`, `Rescore`, `PopAdvertise`, `PopAndSend`,
`PopAndWait` and `Finish`. `loopId` is the node id read at the top of the loop.
Ages are three classes, because `last_seen_secs() > MAX_PEER_AGE` in the allower
and `< MAX_PEER_AGE` elsewhere differ on the edge. Counters wrap at `Word`, as a
release build does it; a debug build panics there, and a panic aborts the daemon.
So does the data of a ForwardData that is no bundle (`ForwardUnparsable`), hence
`CHECK_DEADLOCK FALSE`. Every bundle has a destination node: for `dtn:none` the code
unwraps a node name that is not there (lines 178 and 223), which is not modelled.

Properties: `LastCopyWaits` holds whatever becomes of the node id. `CopyBudget`
holds until the id changes (and with it, as the proofs show, that nothing is sent
without a copy, `NoCopiesNoSendingUnrenamed`), `ForeignSentOnce` if in addition it was
known when the strategy started; the run `spray_renamed` shows
`NoCopiesNoSending` fail after a change: the bundle then waits under two senders,
both entries pass the allower at the re-score, and the pop does not look again.

Bounds: a local and a foreign bundle, two peers of which one is the destination,
two copies (one to spray, one to wait with), two packets per tick and one
advertisement, so that a full queue leaves something behind, and one change of the
node id at any moment, from either initial value.

### Outbox (proved in BundleQueueProofs and RandomStrategyProofs)

What a strategy expects of its outgoing packets, whatever order they are kept in:
an item that was accepted waits until it is handed out or refused, is handed out
once, and an interval hands out at most `MaxBurst`. It is the abstract
specification of two modules. `BundleQueue!ImplementsOutbox` maps the queue's
entries to items (bundle, encoding, slot) and forgets priorities, base priorities
and times; `RandomStrategy!ImplementsOutbox` counts the pending advertisement,
which is kept beside the queue, as one more waiting item.

### RandomStrategy (with RandomStrategyProofs, MCRandomStrategy)

The event loop of `strategy/random.rs`, one action per select arm and event:
`RecommendAdvertise`, `QueueBundle` (from the dtnd or from LoRa), `OtherEvent` and
`SendTick`. It uses the operators of BundleQueue (`Q == INSTANCE BundleQueue`)
without allowers, scorers and re-score. `loopId` is the node id read at the top of
the loop; every iteration reads it anew at its end. `Rename` and `PeersChange` are
the ECLA actor and the peer list. `Score` is the range the code draws from, which
is not the documented one (README.md:129 calls MIN_SCORE the minimum, but the
remainder of a negative draw is negative).

Properties: `NoMoreThanHandedIn` (a bundle may wait under two senders, so it can
be sent twice, but never more often than it was received; a merge loses one) and
`ImplementsOutbox` with a burst of SEND_PACKETS.

Bounds: two bundles, one name beside the empty one, three scores around the
minimum, four arrivals, two changes of the id, a burst of two so that an
advertisement takes half of it.

### PingPong (with PingPongProofs, MCPingPong)

`POST /ping_pong` of one node (`Asker`) and the answers of all LoRa actors. `inbox`
is what an actor has still to parse, `backlog` what the request's receiver of the
bus has still to read, `named` the nodes that have a node id, which the ECLA actor
publishes and its client clears (`Rename`), `own` the id the request compares its target
with, and `arm` the state of the select: after `Ask` the request is
subscribed, after `SendPing` it listens to the bus and a timer, and an event the
arm's pattern does not match disables the arm (`CloseArm`), as `select!` does.
The timer is made anew by every select. When it runs out as an event comes in the
select takes either, so `Timeout` may leave events unread; that it comes is promised
(`Expires`) only while nothing is there to read that starts it anew. Losses are the choice
of hearers of every transmission.

Properties: `NoPongStorm` (a node sends at most one pong per ping it heard: two nodes
that answer broadcasts do not answer each other), `OnlyWhatWasHeard` (what the request
has collected is a beginning of the answers that reached the node since it subscribed,
`heard`; their own order, none twice, no ping among them), `RequestEnds` under the
fairness that the request's task, its timer and the LoRa actors run. The traffic is
bounded, as it must be for `RequestEnds`: in range of nodes that go on sending faster
than the timeout the request does not end, and no document says that it would.
`AnswersAreAwaited` does not hold: the first event the request reads is its own
transmission, which closes the arm.

Bounds: two nodes, of which the asker begins with a node id and the other without, one
change of an id at any moment, three pings on the air and one other event. The other
node may so answer two pings under two ids while the asker hears a third ping, and an
order that was turned round, or a ping among the answers, would show. A third node
multiplies the states beyond what TLC does in minutes; the theorems have no such bound.

### Daemon (with DaemonProofs, MCDaemon)

The actors that `main` starts, the tasks they start, and the close requests. Each
receiver of the bus has an ordered backlog from its subscription on (`listening`,
`inbox`), cut down to the events its `match` reacts to (`Relevant`); the traffic in
between shows only in `Lag`, the loss of the oldest event by a receiver that falls
behind the capacity of the bus. `Boot` and `DtndIsStarted` are the supervisor;
`AssumeDtnd`, `StartDtnd`, `DtndSpawned`, `DtndNotSpawned`, `Announce`,
`DtndTaskCloses` the dtnd actor and its task; `StartEcla` to `EclaFinishes` the
ECLA actor and client, `Registered` being dtnd's answer; `StartRouting` to
`RoutingFinishes` the strategy actor and the quadrant strategy with its three tasks,
two of which begin in `wait_for_node_name`; `StartRadio`, `RadioOpens` and `RadioFails`
what the opening of the LoRa agent means to the others (a failure panics, and the
process aborts); `EmuLearns`, `EmuCommits` and `PutEnds` the emulator actor, which reads
nothing while it awaits a PUT (`Awake`); `ActorReturns` and `Exit` the end of `main`, and
`SerialReadYields` that of the process: with a serial agent the runtime that `main` drops
waits for the worker on which the modem is read, until that loop has heard enough
packets to yield. `routing` starts as "unknown" when the configured strategy does not
exist.
`dtnd` starts as "external" when no executable is configured. The actors are
subscribed in the initial state because `main` waits 250 ms for that.

Properties: `DtndFirst` (the boot order, across four tasks), `ComesUp`,
`CancelledEnds` (a cancelled strategy ends while the node has a name),
`CloseIsKept` (at every moment a close request that nobody missed waits at each actor
that has not returned, and `main` returns only after one or by the abort: the safety
part of the shutdown) and
`ShutdownOrMissed` (Close(All) lets `main` return unless an actor missed it, by lagging
behind or because the supervisor, which starts after the REST API, was not
subscribed, and unless the emulator never answers). It is about the return of `main`:
that the process ends then is not so with a serial agent.

Bounds: one start of each part, one registration, one lost event, each target closed at
most once: each start request is broadcast once, by the supervisor, and the REST API has
none, so restarts and the waiting for a running flag never happen. The runs share these
out, since the emulator's actor multiplies the states: `daemon` has the serial agent,
the registration and both targets, without losses (liveness); `daemon_emulator` the
websocket agent, Close(All) and a lost event, without registrations, on which the end of
the actors does not depend. The LoRa agent has a module of its own.

`CHECK_DEADLOCK FALSE` in the configurations of Daemon and PingPong: the daemon
exits, the request is answered, and nothing is left to do.

Fairness of Daemon: every task that can run is scheduled by the tokio runtime
(weak fairness per task), which takes a second worker thread beside the one that the
serial agent reads on; dtnd answers the registration the client keeps trying. That the
process can be spawned and the radio opened is not assumed (`ComesUp` excepts the
failures), nor that either ends, that the emulator answers a PUT, or that packets are
heard after the end of `main`.

### LoRaAgent and Pipe (with LoRaAgentProofs, MCLoRaAgent)

The LoRa actor, the agent it starts and the port behind it: five tasks (actor,
position fetcher `agent`, `reader`, `writer`, `link`), two backlogs of the bus
(`actorBox`, `agentBox`), the command channel (`commands`) and the rx channel
(`rx`) with their capacities, and a packet in the hand of each task that waits for
room (`hand`, `linkHand`). `port` is the serial modem or the websocket, which
differ in how they fail: a torn line of the modem panics (`HearTorn`) and the
whole process aborts, as `panic = "abort"` in Cargo.toml has it (`Halt`); a
websocket may end (`LinkEnds`), after which every write fails. The close command
is modelled as the code has it, never sent. A command that was taken from the channel is
being written (`writer` = "writing"), by the websocket for as long as the socket takes
nothing; a write that fails, or of which the modem takes only a part (`write` is not
`write_all`), loses the packet. `reader` = "held" is the reader that was woken by the
serial reading loop: tokio puts it into the slot of the worker that the loop blocks, and
no other worker takes it from there. The loop gives way when it waits for room in the
rx channel, or when its cooperative budget is used up by packets it passes on (`Yield`).
Packets are numbers, in the order they
are offered or heard; what happens to those that get no further is in `lost`.

Pipe is what the daemon expects of all that: packets come out in the order they
were sent, once, and one that does not come out is known to be lost. It is the
abstract specification of the agent twice over: `Outward` takes the packets in
`agentBox`, `hand` and `commands` for what waits and `air` for what came out, `Inward`
those in `linkHand`, `rx` and `actorBox`, and `parsed`; a halted process is a broken
pipe. The steps that move a packet from one queue to the next are stutters of it.

Properties: `ImplementsPipe` (every step is one of the pipe in each direction, or
none: the next packet to come out is the oldest on its way, and a packet leaves its
way in no other manner than by one of the losses), `ClosedIsClosed` (after a close
nothing offered later goes out), and under fairness `NothingIsStuck` (the
tasks never wait for each other in a circle: what stands still for good waits for the
socket, or is held by the reading loop), `AirIsCounted` (what was on the air
is recorded as airtime, by another task from another backlog) and `CloseSettles`
(the agent and the websocket's writer end after a close that was seen, unless the writer
waits for the socket). The connection stays open after that: the serial writer selects a
closed channel for ever and its reading loop keeps the port, and the websocket's link
goes on until the emulator ends it. `CloseSettles` says nothing else.
A packet may wait for a reader that is held, for ever if the modem hears nothing more,
and the text of the modem does not carry the packets of the daemon (see ModemText).

Bounds: channels of one packet (of 100 in the code), so that every task waits;
two packets each way, one close and one lag, at any moment. Two packets are what
order, doubling and a full channel take; `Target` has the two close requests that
matter here.

Fairness: each task that can go on is scheduled; opening ends one way or the
other; `lat_lng` returns, since `Finish` waits for it (for the websocket: the
emulator answers the request); `select!` chooses at random between two ready arms,
hence a condition for each. A write to the modem ends, as the port has a timeout of two
seconds, and a reading loop that waits for room gives its worker to the reader. Nothing
is assumed about the socket, hearing, offers, lags, the use of the loop's budget, and
the ends of links and of the process, none of which must happen. The runtime has at
least two workers.

`CHECK_DEADLOCK FALSE`: when the bounds are used up, or the process has ended,
nothing is left to do.

### Airtime, ModemText and RelayPriority (in LoRaAgent and Quadrant)

Pure functions. A run compares the first with what it is for, over all inputs of a
set, in the states in which it is put to use. What the other two compute contradicts a
document; theorems say what it is.

* **Airtime** is `time_total` in exact fractions: numbers of symbols are counted in
  parts of a symbol, so no division is left. `Costs`: every setting that makes a
  packet more robust costs airtime, for each of the 254 payload lengths and seven
  spreading factors. The bandwidth, the coding rate and the preamble are fixed at their
  defaults in run and proof, so nothing is said of what those cost.
* **ModemText** is the hexadecimal text of the serial agent and its reading back. The
  theorem `LossJustBySmallBytes` says that a packet, of any length, is carried just if
  none of its bytes is below 16. All protocol buffers of the daemon have such a byte.
* **RelayPriority** is `retransmission_priority`, with the bearing of a neighbour in
  whole degrees.
  The distance of quadrants is a parity, so the sum of distances that are 0 or 1 is
  written as a count. The theorem `PriorityCountsSideways` says what the priority comes to
  for any neighbours: ten for each that lacks the bundle and lies beside the sender's
  quadrant.

### GlobalState (with GlobalStateProofs, MCGlobalState)

The two lists of `global/mod.rs` that carry time stamps: `lastSeen` (PEERS) and
`airtimes` (AIRTIMES), the wall clock `wall` they are stamped with, and the time
that really passed, `now`, which the program cannot see. `SetClock` sets the wall
clock by up to `MaxStep` in either direction. `LastSeenSecs` wraps at `Word` as the
`u64` of a release build does (a debug build panics there).

Properties: `SeenIsRecent` and `RecentIsSeen` say from both sides what
`peer_names(MAX_PEER_AGE)` is worth, `StopIsSafe` and `WindowIsRecent` the same for
`airtime_last_secs`, which relies on sorted stamps ("as the clock runs forward",
global/mod.rs:279). Each names the clock it needs: untouched, not set back, or set
back by so much.

Bounds: two peers, an age of 2 and windows of 1 and 3 seconds in 4 seconds of real
time, three airtimes, the clock set twice by at most 2. `Word` is 32, far enough
from the epoch and the times that the two meet only by wrapping; the assumptions
of the module say so, and the proofs use nothing else.
`CHECK_DEADLOCK FALSE`: time is bounded.

## 3. Runs

| Run | Module, configuration | Expected | What it shows |
|---|---|---|---|
| queue | MCBundleQueue, MCBundleQueue.cfg | pass | The outgoing queue under pushes, re-scores, pops, changing allowers and a clock that runs and is set back: entries merge, waiting beats priority, only denied entries are dropped, and the queue implements the outbox. |
| quadrant | MCQuadrant, MCQuadrant.cfg | pass | Two nodes of the quadrant strategy with losses, a restart or a lost ECLA connection: what a node believes of its neighbours was true, and spreading skips only who has the bundle. |
| quadrant_live | MCQuadrant, MCQuadrantLive.cfg | pass | Under fairness a bundle reaches the neighbour despite losses when its sender can send it, and the spreading comes to rest unless a bundle is stuck; the bundle is created at either node, also at the one whose forwards are too long to send. |
| spray | MCSprayAndWait, MCSprayAndWait.cfg | pass | Spray and wait while peers come and go and the node id changes once at any moment: until it does, copies are conserved, so nothing is sent without one; the last copy waits for its destination in any case. |
| spray_renamed | MCSprayAndWait, MCSprayRenamed.cfg | violation | When the node id changes while bundles wait, a bundle is queued twice and its second entry leaves with no copies left, underflowing the counter. |
| daemon | MCDaemon, MCDaemon.cfg | pass | Boot and closing of the daemon with a serial agent, its own or an external dtnd, and a strategy that exists or not, the strategy and everything closed at any moment: the daemon comes up, and a cancelled strategy ends while the node has a name. |
| daemon_emulator | MCDaemon, MCDaemonEmulator.cfg | pass | With the emulator's agent, whose actor awaits a PUT without a timeout between two events, and one event lost by a lagging receiver: dtnd comes first, a close request that nobody missed is kept by every actor that has not returned, and lets main return unless the emulator never answers. |
| random | MCRandomStrategy, MCRandomStrategy.cfg | pass | The random strategy while bundles arrive twice, the node id changes and peers come and go: no bundle is sent more often than it was handed in, and the strategy is an outbox that keeps to SEND_PACKETS. |
| ping_pong | MCPingPong, MCPingPong.cfg | pass | A registered and an unregistered node, one of which gains or loses its id on the way, ping each other with losses and other traffic: nobody answers an answer, the request collects what was heard in its order, and it ends although every packet it reads restarts its timer. |
| ping_pong_answers | MCPingPong, MCPingPongAnswers.cfg | violation | The request's own transmission, the first event it reads, closes the select's receiving arm, so it waits for its timer alone while answers arrive. |
| global_state | MCGlobalState, MCGlobalState.cfg | pass | Peers and airtimes stamped by a wall clock that is set forwards and back: the wrapped age never makes an old peer recent by more than the clock was set back, and the early stop of the airtime window is exact while the clock runs forward. |
| lora_agent | MCLoRaAgent, MCLoRaAgent.cfg | pass | The LoRa actor and its agent over a serial port or a websocket, with full channels, failed writes, lags, a dying link and close requests at any moment: in each direction the agent is no more than a pipe that keeps the order and loses nothing unseen, and unless the websocket takes no more packets or the serial reading loop holds the reader, nothing is stuck and a close takes effect although the close command is never sent. |

The runs with `expect: violation` are disagreements between a comment, a document or a
log message and the code; `findings` in `PROJECT.json` quotes them.

## 4. Proofs

TLAPS checks these for every value of the constants (the named assumptions of the
modules are all that is used):

* **BundleQueueProofs**: type correctness; `QueueInv` = types, unique entries and
  the overtaking bound is inductive. The bound itself rests on two lemmas about
  integer division: `WholeUnits` (a difference of whole score units survives `\div`)
  and `Outranked` (an older entry by the full horizon has the strictly higher
  priority), so a pop, which takes a highest priority, cannot leave it behind.
  `RescoredFrom` says that every re-scored entry comes from an allowed one and the
  other way round.
* **QuadrantProofs**: type correctness; `BeliefInv` strengthens `KnowledgeSound`,
  which is not inductive: a belief is formed from a packet in an inbox, which came
  out of a queue, so the invariant says that every advertised hash and every sender
  of a forward, in a queue or an inbox, is truthful about what its node has stored.
  `everHeld` only grows (`HeldGrows`), so truth survives delay and restart.
  `SpreadIsComplete` follows from it and the definition of `Spreadable`.
* **SprayAndWaitProofs**: type correctness; as long as `renames = 0` the invariant
  `BudgetInv` says beyond the conservation of copies that all queued entries of a
  bundle carry one name, so there is at most one, and that in the popping phase a
  queued bundle has copies left. Those two facts are what a rename breaks.
  `RenamesGrow` carries the condition through the induction. `WaitInv`, for the last
  copy, needs neither: while the destination was never near, a pop needs two copies.
* Also in **BundleQueueProofs**: `QueueKeepsPromise`, the queue implements the outbox. The
  inductive invariant `ItemsApart` says that the queue is finite, that entries of a
  bundle use slot 0, and that no two entries are the same item; only then does
  removing sent *entries* remove exactly the sent *items*, and the number of items
  handed out equals the number of entries popped. `PushAccepts` and `SendHandsOut`
  are the two simulation steps, everything else stutters or changes what is refused.
* **GlobalStateProofs**: all five invariants. `IInv` says how far a stamp of the
  wall clock can be from the time it was taken at: the age by the clock is at least
  the real age less `setBack` (and equal to it while nobody sets the clock), every
  stamp fits the word, and while the clock is not set back the airtimes are
  sorted. It holds of a new stamp (`NowSound`), survives the running and the setting
  of the clock (`TickSound`, `SetClockSound`), and `Wrapped` is the one fact about
  the modulus: a difference below zero becomes larger than any age.
* **LoRaAgentProofs**: types, `ClosedIsClosed`, the refinement of the pipe, and what it
  rests on, `InOrder` (theorem `KeepsOrder`: nothing overtakes or is doubled) and
  `NothingVanishes` (`NothingIsDropped`: every packet is on its way, has arrived or was
  taken by something that may take it). Neither `InOrder` nor `ClosedIsClosed` is
  inductive: both speak of the last stage only. `OutInv` says that the packets' numbers
  grow from the air back over the command channel, the reader's hand and its backlog to
  `offered`, each stage above the next, and that a close request in the backlog is as
  high as all the packets before it, so `closedAt` bounds what is still on its way;
  `InInv` says the same of the receptions. `LifeInv` adds what makes a close final: a
  reader that is done has no backlog and never reads again, and the agent is started
  once. `NothingVanishes` is inductive beside the types, `LifeInv` excepting the halted
  process. The lemmas on sequences (`TailOfEvents`, `AppendToEvents`, ...) say how the
  head, the tail and an appended event act on these orders. `AgentIsAPipe` is the
  refinement: `OutPipeStep` and `InPipeStep` go through the actions once for each
  direction. That what comes out is the *oldest* on its way is where the invariants are
  needed: the head of the last queue is below everything in the stages before it. A
  packet that is read or written also has to leave its stage, which holds because the
  numbers are distinct. `RobustnessIsCounted` proves the formula of Airtime: with `b`
  bits in a symbol and `k` payload bits a packet takes `(73 b + 5 k) / 4 b` symbols
  (`SymbolsAre`), and each setting comes to an inequality between such fractions
  (`OneMoreFactor`, `MoreBits`, `FewerPerSymbol`), for each `b` from 4 to 12 linear in
  `k`. `EverythingCosts` has it for packets of every length, also those longer than a
  payload may be. `LossJustBySmallBytes` is the same for the text of the modem, whose
  concatenation is a recursion over the packet. The library's induction theorems take an
  operator, which the provers cannot instantiate, so the induction is over sets: a set
  of natural numbers has a least element (`LeastElement`, from the well-foundedness of
  `<`), and one that holds 0 and its members' successors is `Nat` (`InductiveIsNat`). It
  is used twice: for the existence of the function that `FlattenSeq` chooses
  (`FlatteningExists`), and for its values (`TextGrows`: a byte below 16 makes the text
  too short for good; without one, each byte stands at its place). For liveness,
  `NobodyWaitsInACircle`: the reader may wait for room among the commands, and the link
  among the receptions, but the writer at the end of the chain waits for no task; what
  it does wait for, the socket, and the reading loop that may hold the reader are named
  in the theorem (`WaitsForOthers`). `TaskInv` adds to `LifeInv` who is there to take
  what is in a queue. `WorkRunsOut` weighs every packet with the queues before it and
  every task with the states it has left, and `AirtimeIsKept` is inductive beside
  `LifeInv`.
* **DaemonProofs**: types, `DtndFirst` and `CloseIsKept`. That nothing starts before
  dtnd is not inductive: `BootInv` follows the one dtnd start request, which is in the
  actor's backlog at most once and only before dtnd runs, and says that the timer, the
  announcement, and the start requests of ECLA and strategy, wherever they wait, exist
  only once dtnd is up. `TailOfBacklog`, `AppendToBacklog` and `Posting` say what
  reading and broadcasting do to a backlog. `CloseInv`, for the close request, says
  beyond `CloseIsKept` that nobody finds one that was not made, that an actor has not
  returned before one was made, and that one made before the supervisor listens counts
  as missed. An actor returns on that event only, so nobody else empties its backlog
  while it listens. For liveness, the shutdown: `FitInv` (a backlog holds only what its
  receiver's match takes) and `CloseInv` give `NothingHoldsUpTheShutdown`, that no actor
  waits for another (the emulator's may await a PUT); `EveryStepBringsTheCloseNearer`
  needs no more than the types. The boot: `TokenInv` says that the start request stands
  in at most one of seven places (`Stands`), so that the ECLA client is asked for once
  and is not closed by a second request; `AskedInv`, that nothing closes unasked;
  `BootKept`, that while nothing is closed or lost and neither dtnd nor the radio
  failed, the request stands somewhere, the strategy is asked for or runs, and an
  answered registration is on its way to the actor or published. `NothingHoldsUpTheBoot`
  is what they come to, if dtnd answers a registration at all (`Registrations > 0`).
* **PingPongProofs**: types, `NoPongStorm` and `OnlyWhatWasHeard`. `PingInv`
  counts with the pongs a node has sent the pings still in its inbox, of which each is
  good for one more; the lemmas on `Count` say what the head, the tail and an
  appended packet contribute. `OnlyWhatWasHeard` speaks of what was read, and its
  invariant `AnswerInv` of what is still to be read: the pongs in the backlog
  correspond one to one, in order, to the answers heard and not collected yet
  (`Pending`, a function from places in the backlog to places in `heard`).
  `PongArrives`, `OtherArrives` and `EventIsRead` say how it grows and shrinks.
* Also in **QuadrantProofs**: `PriorityCountsSideways`, for any set of neighbours. The
  bearings give the five quadrants (`FiveQuadrants`), and `DistanceIsSideways` compares the
  parity with what lies beside a quadrant.
  `NeighboursStayDue` and `StoresGrow` are the safety behind `NeighboursServed`: as
  long as `faults = 0` a store holds all it ever held (`NothingForgotten`), so by
  `KnowledgeSound` nobody is credited with a bundle it lacks and every tick of the
  spreading queues the bundle again. What is left to TLC is that the ticks come and
  that the radio, by fairness, lets one of them through.
* **RandomStrategyProofs**: types, `NoMoreThanHandedIn` and the refinement of the
  outbox. `QueueInv` says that the queue is finite, holds bundles only, and that a
  bundle waits once under each node id; `PushedQueue` and `PoppedQueue` count what a
  push and a send interval do to the entries of each bundle, and are all the proofs
  use of the queue.

Only model-checked: liveness (`NeighboursServed`, `SpreadSettles`, `CancelledEnds`, `ComesUp`, `ShutdownOrMissed`,
`RequestEnds`, `NothingIsStuck`, `AirIsCounted`, `CloseSettles`), which rests
on fairness and is outside the prover. Where it is about tasks that might wait for
each other, the safety facts it rests on are theorems, as above; what is left to TLC
is that a task that can go on does, by fairness, and that the facts add up. That
`SomebodyGoesOn`, `Handles` and `SomebodyBoots` name guards of steps that can really be
taken is read off the actions, as ENABLED is outside the prover too.

## 5. What is not modelled, and the plan

Not modelled, with the reason:

* The dummy and first-contact strategies: `start_strategy` names neither.
* Restarts of dtnd, the ECLA client, the LoRa agent and the strategy: the code has
  arms for them and running flags, but each start request is broadcast once, by
  the supervisor at boot, and the REST API offers none. (Were they reachable, the
  guard of `LORA_RUNNING` held across the sleep, lora_actor.rs:28, would be first.)
* The bearing of a neighbour from two positions (floating-point trigonometry; the
  degrees it is fed are taken as radians, quadrant.rs:86).
* Configuration requests: a clone of the latest start request. (`GET /config/dtnd` is
  answered by nobody.) Argument and configuration parsing.
* Size and service scorers, never registered; `print_state`, `symbol_rate`,
  `throughput`, `preamble_valid`, never called or formatting; generated protocol code;
  the query tool.
* Position reports of the agents and the assembly of serial lines; a runtime with a
  single worker thread, where a serial agent stops every other task.
* The dtn7 library behind the ECLA client, with its command channel.

Disagreements with a document or a comment that no run states, in the models as the
code has them:

* The hexadecimal text of the serial agent loses every packet with a byte below 16
  (rf95modem.rs:136), and all packets of the daemon have one, while the actor "Passes
  incoming LoRa packets from the central message bus to LoRa" (README.md:95). Proved as
  `LossJustBySmallBytes`.
* The reading loop of the serial agent awaits nothing but the sending of a packet it
  heard (rf95modem.rs:54). The reader that it wakes may not run until more packets are
  heard (`reader` = "held"), and after "Interrupt received. Shutting down..."
  (loclad.rs:207) the process goes on (`SerialReads`).
* The close of dtnd drops the future of `kill()` unpolled (dtnd_actor.rs:55): the flag is
  cleared and the process lives on (`DtndTaskCloses`), while README.md:100 has the actor
  handle "the spawning, stopping and re-starting of the dtnd process".
* The distance of two quadrants is a parity (quadrant.rs:107), so the opposite quadrant
  adds nothing to the priority of a relay. The comments say "It's either 1 or 2" (line
  102) and "if sender quadrant != neighbor quadrant we add prio" (line 301). Proved as
  `PriorityCountsSideways`.

Seen while modelling, stated by no run: the ECLA client clears the node id beside
the actor that may still publish an earlier registration (ecla_actor.rs:96), so the
id can survive the connection; a push of an equal queue entry keeps its first base
priority at the next re-score (bundlequeue/mod.rs:136); a foreign bundle that
arrives before the node id is known gets the copies of a local one
(sprayandwait.rs:89), which is why `ForeignSentOnce` speaks of a node that has its
id; a bundle from the dtnd is ignored for ever once stored, not for the 60 seconds
the comment at quadrant.rs:542 names; the airtime of packets that never go out is
recorded all the same (lora_actor.rs:172).

Plan, most important first:

1. Proofs: the safety facts behind `SpreadSettles` and `RequestEnds`, the way
   `NeighboursStayDue` is that of `NeighboursServed`. The send tick of spray and wait is not
   an outbox, since a pop puts aside what may not leave at the moment and, after a rename,
   hands out what the allower would refuse; it needs an abstract specification of its own.
2. Several nodes of spray and wait, so that copies are conserved across the
   network.
3. A receiver of the bus with its capacity, behind a strategy that holds the lock.

