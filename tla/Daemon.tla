------------------------------- MODULE Daemon -------------------------------
(***************************************************************************)
(* The life cycle of the daemon: the actors that main (src/bin/loclad.rs)  *)
(* starts, the tasks they start in turn, and the close requests of the     *)
(* REST API and of Ctrl-C, all over the event bus of src/global/mod.rs.    *)
(*                                                                         *)
(* A receiver of the bus has its own ordered backlog, which starts with    *)
(* its subscription; here it holds the events the receiver reacts to.  The *)
(* rest of the traffic shows only in Lag: a receiver that falls behind by  *)
(* the capacity of the bus silently loses its oldest events.               *)
(*                                                                         *)
(* Each part is started once, by the supervisor.  Of the LoRa agent (see   *)
(* LoRaAgent) there is here how it opens, for its failure aborts the       *)
(* process, and what is left of it when main returns.                      *)
(***************************************************************************)
EXTENDS Sequences, Naturals

CONSTANTS
    Port,          \* the type of the configured LoRa agent
    Closable,      \* the targets of the close requests that are made
    Registrations, \* bound: times the ECLA registers the client
    MaxLosses      \* bound: events lost by lagging receivers

ASSUME ClosableAssumption == Closable \subseteq {"All", "ECLA", "DTND", "Strategy"}
ASSUME PortAssumption == Port \in {"serial", "websocket"}
ASSUME BoundAssumption == Registrations \in Nat /\ MaxLosses \in Nat

VARIABLES
    listening, \* the receivers that are subscribed and still running
    inbox,     \* their backlogs
    booted,    \* the supervisor has made its start requests
    dtnd,      \* the dtnd process, "external" if no executable is configured
    dtndFlag,  \* DTND_RUNNING
    timer,     \* the task that announces dtnd after a second
    ecla,      \* the ECLA client task
    reply,     \* a registration in the client's packet channel
    named,     \* NODE_ID is published
    radio,     \* the task that opens it, and the task that reads from it
    emulated,  \* the emulator actor knows that the agent is the emulator's
    putting,   \* it awaits the answer to a PUT
    routing,   \* the (quadrant) strategy, "unknown" if there is none of that name ...
    tasks,     \* ... its tasks that have not returned ...
    waiting,   \* ... and those among them still in wait_for_node_name
    exited,    \* main has returned, or the process was aborted
    asked,     \* history: the close requests so far
    missed,    \* history: an event reached a receiver too early or too late
    bounds     \* history: registrations and losses so far

attendance == <<listening, missed>>
bus == <<attendance, inbox>>
dtndVars == <<dtnd, dtndFlag, timer>>
eclaVars == <<ecla, reply, named>>
routingVars == <<routing, tasks, waiting>>
loraVars == <<radio, emulated, putting>>
runVars == <<booted, exited, asked, bounds>>
mainVars == <<runVars, loraVars>>
vars == <<bus, dtndVars, eclaVars, routingVars, mainVars>>

Actor == {"supervisor", "lora", "dtnd", "strategy", "ecla", "emu"}
Task == {"dtnd task", "ecla client", "routing"}
Receiver == Actor \cup Task

RoutingTask == {"spreading", "advertise", "sending"}

\* The tasks that begin with wait_for_node_name.
NamedTask == {"advertise", "sending"}

\* Events on the bus.
Ev(name) == <<name, "">>
Close(target) == <<"Close", target>>

\* What each receiver's match reacts to (the emulator actor with other agents than
\* the emulator's: to no effect but for the close request).
Relevant == [r \in Receiver |->
    CASE r = "supervisor" -> {Ev("DTNDStarted"), Close("All")}
      [] r = "dtnd" -> {Ev("DTNDStart"), Close("All")}
      [] r = "strategy" -> {Ev("StrategyStart"), Close("All")}
      [] r = "ecla" -> {Ev("ECLAStart"), Ev("Registered"), Close("All")}
      [] r = "lora" -> {Ev("LoRaStart"), Close("All")}
      [] r = "emu" -> IF Port = "websocket"
            THEN {Ev("LoRaStart"), Ev("ECLAStart"), Ev("StrategyStart"), Close("All")}
            ELSE {Close("All")}
      [] r = "dtnd task" -> {Ev("DTNDStart"), Close("All"), Close("DTND")}
      [] r = "ecla client" -> {Ev("ECLAStart"), Close("All"), Close("ECLA"), Close("DTND")}
      [] r = "routing" -> {Close("All"), Close("Strategy")}]

TypeOK ==
    /\ listening \in SUBSET Receiver
    /\ inbox \in [Receiver -> Seq(UNION {Relevant[r] : r \in Receiver})]
    /\ booted \in BOOLEAN
    /\ dtnd \in {"external", "off", "spawning", "up", "failed", "killed"}
    /\ dtndFlag \in BOOLEAN
    /\ timer \in BOOLEAN
    /\ ecla \in {"off", "starting", "serving", "told", "down"}
    /\ reply \in BOOLEAN
    /\ named \in BOOLEAN
    /\ radio \in {"off", "opening", "open", "failed"}
    /\ emulated \in BOOLEAN
    /\ putting \in BOOLEAN
    /\ routing \in {"unknown", "off", "starting", "running", "cancelled", "down"}
    /\ tasks \in SUBSET RoutingTask
    /\ waiting \in SUBSET tasks
    /\ exited \in BOOLEAN
    /\ asked \in SUBSET Closable
    /\ missed \in BOOLEAN
    /\ bounds \in [registered : 0 .. Registrations, lost : 0 .. MaxLosses]

---------------------------------------------------------------------------
(* The bus.                                                                *)

\* send: every receiver that is subscribed by now gets the event.
Post(box, e) ==
    [r \in Receiver |->
        IF r \in listening /\ e \in Relevant[r] THEN Append(box[r], e) ELSE box[r]]

\* The emulator actor reads nothing while it awaits a PUT.
Awake(r) == r \in listening /\ ~(r = "emu" /\ putting)

Got(r, e) == Awake(r) /\ inbox[r] # <<>> /\ Head(inbox[r]) = e

Read(r) == [inbox EXCEPT ![r] = Tail(@)]

Subscribe(r) == listening' = listening \cup {r} /\ UNCHANGED <<inbox, missed>>

\* The receiver's loop returns and its subscription goes with it.
Leave(r) ==
    /\ listening' = listening \ {r}
    /\ inbox' = [inbox EXCEPT ![r] = <<>>]
    /\ UNCHANGED missed

\* recv fails with Lagged, which every loop ignores, and goes on behind the gap.
Lag(r) ==
    /\ bounds.lost < MaxLosses
    /\ r \in listening
    /\ inbox[r] # <<>>
    /\ inbox' = Read(r)
    /\ missed' = TRUE
    /\ bounds' = [bounds EXCEPT !.lost = @ + 1]
    /\ UNCHANGED <<listening, booted, dtndVars, eclaVars,
                   routingVars, exited, asked, loraVars>>

---------------------------------------------------------------------------
(* main, the supervisor, and what all actors do on Close(All).             *)

\* main waits a moment for its actors to subscribe.
Init ==
    /\ listening = Actor \ {"supervisor"}
    /\ inbox = [r \in Receiver |-> <<>>]
    /\ booted = FALSE
    /\ dtnd \in {"external", "off"} /\ dtndFlag = FALSE /\ timer = FALSE
    /\ ecla = "off" /\ reply = FALSE /\ named = FALSE
    /\ radio = "off" /\ emulated = FALSE /\ putting = FALSE
    /\ routing \in {"unknown", "off"} /\ tasks = {} /\ waiting = {}
    /\ exited = FALSE
    /\ asked = {}
    /\ missed = FALSE
    /\ bounds = [registered |-> 0, lost |-> 0]

\* GET /close/:target or Ctrl-C.  The REST API is up before the supervisor.
\* Bound: each target once.
Request(target) ==
    /\ ~exited
    /\ target \in Closable \ asked
    /\ asked' = asked \cup {target}
    /\ inbox' = Post(inbox, Close(target))
    /\ missed' = (missed \/ (target = "All" /\ ~booted))
    /\ UNCHANGED <<listening, booted, dtndVars, eclaVars,
                   routingVars, exited, bounds, loraVars>>

\* Mutant: everything is requested at once.
Boot_AllAtOnce ==
    /\ ~booted
    /\ booted' = TRUE
    /\ listening' = listening \cup {"supervisor"}
    /\ inbox' = Post(Post(Post(Post(inbox, Ev("LoRaStart")),
                    Ev("DTNDStart")), Ev("ECLAStart")), Ev("StrategyStart"))
    /\ UNCHANGED <<missed, dtndVars, eclaVars, routingVars, exited, asked, bounds, loraVars>>

\* The supervisor subscribes and requests LoRa and dtnd.
Boot ==
    /\ ~booted
    /\ booted' = TRUE
    /\ listening' = listening \cup {"supervisor"}
    /\ inbox' = Post(Post(inbox, Ev("LoRaStart")), Ev("DTNDStart"))
    /\ UNCHANGED <<missed, dtndVars, eclaVars, routingVars, exited, asked, bounds, loraVars>>

\* Mutant: the ECLA client is not requested.
DtndIsStarted_StrategyOnly ==
    /\ Got("supervisor", Ev("DTNDStarted"))
    /\ inbox' = Post(Read("supervisor"), Ev("StrategyStart"))
    /\ UNCHANGED <<attendance, dtndVars, eclaVars, routingVars, mainVars>>

\* "When dtnd is started we can start the ECLA and Strategy."
DtndIsStarted ==
    /\ Got("supervisor", Ev("DTNDStarted"))
    /\ inbox' = Post(Post(Read("supervisor"), Ev("ECLAStart")), Ev("StrategyStart"))
    /\ UNCHANGED <<attendance, dtndVars, eclaVars, routingVars, mainVars>>

\* Mutant: one actor forgets to return.
ActorReturns_NotEmu(a) ==
    /\ a # "emu"
    /\ Got(a, Close("All"))
    /\ Leave(a)
    /\ UNCHANGED <<dtndVars, eclaVars, routingVars, mainVars>>

\* Every actor's loop ends with Close(All).
ActorReturns(a) ==
    /\ Got(a, Close("All"))
    /\ Leave(a)
    /\ UNCHANGED <<dtndVars, eclaVars, routingVars, mainVars>>

\* Every task is dropped.
Dropped ==
    /\ exited' = TRUE
    /\ listening' = {}
    /\ inbox' = [r \in Receiver |-> <<>>]
    /\ dtndFlag' = FALSE /\ timer' = FALSE
    /\ ecla' = "off" /\ reply' = FALSE /\ named' = FALSE
    /\ emulated' = FALSE /\ putting' = FALSE
    /\ routing' = "off" /\ tasks' = {} /\ waiting' = {}
    /\ UNCHANGED <<booted, asked, missed, bounds>>

\* The serial agent's reading loop has no await but the one for its packets.
SerialReads == Port = "serial" /\ radio = "open"

\* main has seen all actors return.  The runtime drops every task, the one that
\* is yet to spawn dtnd as well, and with its handle the dtnd process is killed;
\* but it waits for the worker on which a serial agent still reads.
Exit ==
    /\ ~exited
    /\ booted
    /\ listening \cap Actor = {}
    /\ Dropped
    /\ dtnd' = (CASE dtnd = "up" -> "killed"
                  [] dtnd = "spawning" -> "off"
                  [] OTHER -> dtnd)
    /\ radio' = IF SerialReads THEN "open" ELSE "off"

\* Enough packets heard after that use up the loop's budget: it yields and is dropped.
SerialReadYields ==
    /\ exited
    /\ SerialReads
    /\ radio' = "off"
    /\ UNCHANGED <<bus, dtndVars, eclaVars, routingVars, runVars, emulated, putting>>

---------------------------------------------------------------------------
(* The LoRa actor and what its agent does to the others.                   *)

\* A new agent would wait for the former one to stop.
StartRadio ==
    /\ Got("lora", Ev("LoRaStart"))
    /\ inbox' = Read("lora")
    /\ radio' = IF radio = "off" THEN "opening" ELSE radio
    /\ UNCHANGED <<attendance, dtndVars, eclaVars, routingVars, runVars, emulated, putting>>

RadioOpens ==
    /\ radio = "opening"
    /\ radio' = "open"
    /\ UNCHANGED <<bus, dtndVars, eclaVars, routingVars, runVars, emulated, putting>>

\* "could not connect to LoRa port on first start! Aborting...": a panic, which
\* aborts the process and leaves dtnd behind.
RadioFails ==
    /\ radio = "opening"
    /\ radio' = "failed"
    /\ Dropped
    /\ dtnd' = IF dtnd = "spawning" THEN "off" ELSE dtnd

---------------------------------------------------------------------------
(* The emulator actor.                                                     *)

EmuLearns ==
    /\ Got("emu", Ev("LoRaStart"))
    /\ inbox' = Read("emu")
    /\ emulated' = TRUE
    /\ UNCHANGED <<attendance, dtndVars, eclaVars, routingVars, runVars, radio, putting>>

\* It passes the settings on to the emulator.
EmuCommits ==
    /\ Got("emu", Ev("ECLAStart")) \/ Got("emu", Ev("StrategyStart"))
    /\ inbox' = Read("emu")
    /\ putting' = emulated
    /\ UNCHANGED <<attendance, dtndVars, eclaVars, routingVars, runVars, radio, emulated>>

\* The emulator answers, or the connection fails.  The request has no timeout.
PutEnds ==
    /\ putting
    /\ putting' = FALSE
    /\ UNCHANGED <<bus, dtndVars, eclaVars, routingVars, runVars, radio, emulated>>

---------------------------------------------------------------------------
(* The dtnd actor and its task.                                            *)

\* Without an executable dtnd is taken to run already.
AssumeDtnd ==
    /\ dtnd = "external"
    /\ Got("dtnd", Ev("DTNDStart"))
    /\ inbox' = Post(Read("dtnd"), Ev("DTNDStarted"))
    /\ UNCHANGED <<attendance, dtndVars, eclaVars, routingVars, mainVars>>

StartDtnd ==
    /\ dtnd # "external"
    /\ Got("dtnd", Ev("DTNDStart"))
    /\ inbox' = Read("dtnd")
    /\ dtnd' = "spawning"
    /\ dtndFlag' = TRUE
    /\ UNCHANGED <<attendance, timer, eclaVars, routingVars, mainVars>>

DtndSpawned ==
    /\ dtnd = "spawning"
    /\ dtnd' = "up"
    /\ timer' = TRUE
    /\ Subscribe("dtnd task")
    /\ UNCHANGED <<dtndFlag, eclaVars, routingVars, mainVars>>

\* The task logs the error and returns.
DtndNotSpawned ==
    /\ dtnd = "spawning"
    /\ dtnd' = "failed"
    /\ UNCHANGED <<bus, dtndFlag, timer, eclaVars, routingVars, mainVars>>

\* Nothing stops the timer once the process was spawned.
Announce ==
    /\ timer
    /\ timer' = FALSE
    /\ inbox' = Post(inbox, Ev("DTNDStarted"))
    /\ UNCHANGED <<attendance, dtnd, dtndFlag, eclaVars, routingVars, mainVars>>

\* Close(All) or Close(DTND): the future of kill() is dropped unpolled, so the
\* process lives on.  The task stays in its loop.
DtndTaskCloses ==
    /\ \E e \in Relevant["dtnd task"] : Got("dtnd task", e)
    /\ inbox' = Read("dtnd task")
    /\ dtndFlag' = FALSE
    /\ UNCHANGED <<attendance, dtnd, timer, eclaVars, routingVars, mainVars>>

---------------------------------------------------------------------------
(* The ECLA actor and its client.                                          *)

\* Mutant: the actor goes on with a new receiver, that begins empty.
StartEcla_Resubscribes ==
    /\ Got("ecla", Ev("ECLAStart"))
    /\ inbox' = [inbox EXCEPT !["ecla"] = <<>>]
    /\ ecla' = "starting"
    /\ UNCHANGED <<attendance, dtndVars, reply, named, routingVars, mainVars>>

StartEcla ==
    /\ Got("ecla", Ev("ECLAStart"))
    /\ inbox' = Read("ecla")
    /\ ecla' = "starting"
    /\ UNCHANGED <<attendance, dtndVars, reply, named, routingVars, mainVars>>

EclaSubscribes ==
    /\ ecla = "starting"
    /\ ecla' = "serving"
    /\ Subscribe("ecla client")
    /\ UNCHANGED <<dtndVars, reply, named, routingVars, mainVars>>

\* dtnd answers the client's registration, after a reconnect again.
Registered ==
    /\ ecla = "serving"
    /\ bounds.registered < Registrations
    /\ reply' = TRUE
    /\ bounds' = [bounds EXCEPT !.registered = @ + 1]
    /\ UNCHANGED <<bus, booted, dtndVars, ecla, named,
                   routingVars, exited, asked, loraVars>>

\* The client's reader puts it on the bus ...
ForwardReply ==
    /\ reply
    /\ ecla = "serving"
    /\ reply' = FALSE
    /\ inbox' = Post(inbox, Ev("Registered"))
    /\ UNCHANGED <<attendance, dtndVars, ecla, named, routingVars, mainVars>>

\* ... and the actor publishes the node id.
Publish ==
    /\ Got("ecla", Ev("Registered"))
    /\ inbox' = Read("ecla")
    /\ named' = TRUE
    /\ UNCHANGED <<attendance, dtndVars, ecla, reply, routingVars, mainVars>>

EclaCloses ==
    /\ ecla = "serving"
    /\ \E e \in Relevant["ecla client"] : Got("ecla client", e)
    /\ Leave("ecla client")
    /\ ecla' = "told"
    /\ UNCHANGED <<dtndVars, reply, named, routingVars, mainVars>>

\* The connection has ended and the reader has returned: the id is cleared.
EclaFinishes ==
    /\ ecla = "told"
    /\ ecla' = "down"
    /\ reply' = FALSE
    /\ named' = FALSE
    /\ UNCHANGED <<bus, dtndVars, routingVars, mainVars>>

---------------------------------------------------------------------------
(* The strategy actor and the quadrant strategy.                           *)

\* A strategy that does not exist is an error in the log.
StartRouting ==
    /\ Got("strategy", Ev("StrategyStart"))
    /\ inbox' = Read("strategy")
    /\ routing' = IF routing = "unknown" THEN "unknown" ELSE "starting"
    /\ UNCHANGED <<attendance, dtndVars, eclaVars, tasks, waiting, mainVars>>

RoutingSubscribes ==
    /\ routing = "starting"
    /\ routing' = "running"
    /\ tasks' = RoutingTask
    /\ waiting' = NamedTask
    /\ Subscribe("routing")
    /\ UNCHANGED <<dtndVars, eclaVars, mainVars>>

\* wait_for_node_name returns; it does not look at the cancellation.
TaskWakes(t) ==
    /\ t \in waiting
    /\ named
    /\ waiting' = waiting \ {t}
    /\ UNCHANGED <<bus, dtndVars, eclaVars, routing, tasks, mainVars>>

RoutingCloses ==
    /\ routing = "running"
    /\ \E e \in Relevant["routing"] : Got("routing", e)
    /\ Leave("routing")
    /\ routing' = "cancelled"
    /\ UNCHANGED <<dtndVars, eclaVars, tasks, waiting, mainVars>>

\* Mutant: a task is done although it still waits for the name.
TaskReturns_Waiting(t) ==
    /\ routing = "cancelled"
    /\ t \in tasks
    /\ tasks' = tasks \ {t}
    /\ UNCHANGED <<bus, dtndVars, eclaVars, routing, waiting, mainVars>>

\* Mutant: one ticker loop lacks the arm for the cancellation.
TaskReturns_NotSpreading(t) ==
    /\ routing = "cancelled"
    /\ t \in tasks \ (waiting \cup {"spreading"})
    /\ tasks' = tasks \ {t}
    /\ UNCHANGED <<bus, dtndVars, eclaVars, routing, waiting, mainVars>>

\* A ticker loop sees the cancellation.
TaskReturns(t) ==
    /\ routing = "cancelled"
    /\ t \in tasks \ waiting
    /\ tasks' = tasks \ {t}
    /\ UNCHANGED <<bus, dtndVars, eclaVars, routing, waiting, mainVars>>

\* The cancelled strategy awaits its three tasks.
RoutingFinishes ==
    /\ routing = "cancelled"
    /\ tasks = {}
    /\ routing' = "down"
    /\ UNCHANGED <<bus, dtndVars, eclaVars, tasks, waiting, mainVars>>

---------------------------------------------------------------------------

\* The steps of each task.
ActorStep(a) ==
    \/ a = "supervisor" /\ (Boot \/ DtndIsStarted)
    \/ a = "dtnd" /\ (AssumeDtnd \/ StartDtnd)
    \/ a = "ecla" /\ (StartEcla \/ Publish)
    \/ a = "strategy" /\ StartRouting
    \/ a = "lora" /\ StartRadio
    \/ a = "emu" /\ (EmuLearns \/ EmuCommits)
    \/ ActorReturns(a)

DtndTask == DtndSpawned \/ DtndTaskCloses
EclaClient == EclaSubscribes \/ EclaCloses \/ EclaFinishes
Routing == RoutingSubscribes \/ RoutingCloses \/ RoutingFinishes
Ticker(t) == TaskWakes(t) \/ TaskReturns(t)

Next ==
    \/ \E a \in Actor : ActorStep(a)
    \/ DtndTask \/ DtndNotSpawned \/ Announce
    \/ EclaClient \/ Registered \/ ForwardReply
    \/ Routing
    \/ \E t \in RoutingTask : Ticker(t)
    \/ RadioOpens \/ RadioFails \/ PutEnds
    \/ Exit \/ SerialReadYields
    \/ \E target \in Closable : Request(target)
    \/ \E r \in Receiver : Lag(r)

Spec == Init /\ [][Next]_vars

\* Every task that can go on is scheduled; dtnd answers registrations.  Neither
\* the emulator's answers nor the radio's packets are promised.
Fairness ==
    /\ \A a \in Actor : WF_vars(ActorStep(a))
    /\ WF_vars(DtndTask) /\ WF_vars(Announce)
    /\ WF_vars(EclaClient) /\ WF_vars(Registered) /\ WF_vars(ForwardReply)
    /\ WF_vars(Routing) /\ \A t \in RoutingTask : WF_vars(Ticker(t))
    /\ WF_vars(Exit)

FairSpec == Spec /\ Fairness

---------------------------------------------------------------------------
(* Properties.                                                             *)

\* "When dtnd is started we can start the ECLA and Strategy"
\* (supervisor_actor.rs:18): neither runs before the dtnd process does, four
\* tasks and as many events away from it.
DtndFirst ==
    ecla # "off" \/ routing \notin {"unknown", "off"} => dtnd \in {"external", "up"}

\* Close(All) lets main return unless an actor did not get to see it: the
\* supervisor was not there yet, somebody lagged behind, or the emulator never
\* answers the actor that passes settings on.
ShutdownOrMissed ==
    \/ "All" \in asked ~> exited \/ missed
    \/ <>[]putting

\* What ShutdownOrMissed rests on at every moment: a request that nobody missed
\* waits in the backlog of every actor that has not returned, however it was
\* interleaved with the boot; and main returns only on one, unless the radio's
\* failure takes the process down.
CloseIsKept ==
    /\ "All" \in asked /\ ~missed =>
          \A a \in listening \cap Actor :
              \E i \in DOMAIN inbox[a] : inbox[a][i] = Close("All")
    /\ exited => "All" \in asked \/ radio = "failed"

\* A cancelled strategy ends, for all that two of its tasks ignore the
\* cancellation, as long as the node has a name.
CancelledEnds ==
    routing = "cancelled" ~> routing # "cancelled" \/ ~named

\* Left alone, the daemon comes up: the node has a name and every task of its
\* strategy is past waiting for it, if that strategy exists and neither dtnd
\* nor the radio fails.
ComesUp ==
    <>(\/ routing = "running" /\ waiting = {}
       \/ asked # {} \/ missed
       \/ dtnd = "failed" \/ radio = "failed" \/ routing = "unknown")
============================================================================
