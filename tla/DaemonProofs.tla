---------------------------- MODULE DaemonProofs ----------------------------
(***************************************************************************)
(* Proofs about Daemon, for all constants.                                 *)
(*                                                                         *)
(* That nothing is started before dtnd is not inductive: a start request,  *)
(* the announcement it answers, or the timer of the announcement may be on *)
(* its way.  The invariant follows the one dtnd start request through them.*)
(* That a close request is kept needs to know of no more than who listens. *)
(*                                                                         *)
(* The liveness of the shutdown and of the boot is left to TLC, but what   *)
(* it rests on is proved: somebody always has the next step to make, and   *)
(* nothing puts off a close request.                                       *)
(***************************************************************************)
EXTENDS Daemon, TLAPS

Message == UNION {Relevant[r] : r \in Receiver}

\* An event waits in a backlog, or only once in it.
Holds(s, e) == \E i \in DOMAIN s : s[i] = e
Once(s, e) == \A i, j \in DOMAIN s : s[i] = e /\ s[j] = e => i = j

\* Something that leads to, or shows, the start of the ECLA client or the strategy.
Underway ==
    \/ timer
    \/ Holds(inbox["supervisor"], Ev("DTNDStarted"))
    \/ Holds(inbox["ecla"], Ev("ECLAStart")) \/ ecla # "off"
    \/ Holds(inbox["strategy"], Ev("StrategyStart")) \/ routing \notin {"unknown", "off"}

BootInv ==
    /\ Holds(inbox["dtnd"], Ev("DTNDStart")) => booted /\ dtnd \in {"external", "off"}
    /\ Once(inbox["dtnd"], Ev("DTNDStart"))
    /\ ~booted => dtnd \in {"external", "off"}
    /\ Underway => dtnd \in {"external", "up"}

\* Nobody finds a request that was not made, or leaves without it; one that is
\* made before the supervisor listens is missed.
CloseInv ==
    /\ CloseIsKept
    /\ \A a \in Actor : Holds(inbox[a], Close("All")) => "All" \in asked
    /\ "All" \in asked \/ exited \/ Actor \ {"supervisor"} \subseteq listening
    /\ "All" \in asked \/ exited \/ ~booted \/ "supervisor" \in listening
    /\ "All" \in asked => booted \/ missed
    /\ radio = "failed" => exited

---------------------------------------------------------------------------
(* Backlogs.                                                               *)

LEMMA TailOfBacklog ==
    ASSUME NEW S, NEW s \in Seq(S), s # <<>>, NEW e
    PROVE  /\ Holds(Tail(s), e) => Holds(s, e)
           /\ Once(s, e) => Once(Tail(s), e)
           /\ Head(s) = e => Holds(s, e)
           /\ Once(s, e) /\ Head(s) = e => ~Holds(Tail(s), e)
<1>1. /\ Len(s) \in Nat \ {0} /\ Head(s) = s[1] /\ DOMAIN s = 1 .. Len(s)
      /\ DOMAIN Tail(s) = 1 .. Len(s) - 1
      /\ \A i \in 1 .. Len(s) - 1 : Tail(s)[i] = s[i + 1]
  OBVIOUS
<1> QED BY <1>1 DEF Holds, Once

LEMMA AppendToBacklog ==
    ASSUME NEW S, NEW s \in Seq(S), NEW f, NEW e
    PROVE  /\ Holds(Append(s, f), e) => Holds(s, e) \/ f = e
           /\ Once(s, e) /\ (f # e \/ ~Holds(s, e)) => Once(Append(s, f), e)
<1>1. /\ DOMAIN s = 1 .. Len(s) /\ Len(s) \in Nat
      /\ DOMAIN Append(s, f) = 1 .. (Len(s) + 1)
      /\ Append(s, f)[Len(s) + 1] = f
      /\ \A i \in 1 .. Len(s) : Append(s, f)[i] = s[i]
  OBVIOUS
<1> QED BY <1>1 DEF Holds, Once

LEMMA EmptyBacklog == \A e : ~Holds(<<>>, e) /\ Once(<<>>, e)
BY DEF Holds, Once

\* What is posted is only appended, and only what the receiver understands.
LEMMA Posting ==
    ASSUME NEW box \in [Receiver -> Seq(Message)], NEW e
    PROVE  /\ Post(box, e) \in [Receiver -> Seq(Message)]
           /\ \A r \in Receiver : Post(box, e)[r] \in {box[r], Append(box[r], e)}
<1>1. ASSUME NEW r \in Receiver, e \in Relevant[r] PROVE Append(box[r], e) \in Seq(Message)
  <2>1. e \in Message /\ box[r] \in Seq(Message)
    BY <1>1 DEF Message
  <2> QED BY <2>1
<1> QED BY <1>1 DEF Post

LEMMA Reading ==
    ASSUME TypeOK, NEW r \in Receiver, inbox[r] # <<>>
    PROVE  /\ Read(r) \in [Receiver -> Seq(Message)]
           /\ Read(r)[r] = Tail(inbox[r])
           /\ \A q \in Receiver : q # r => Read(r)[q] = inbox[q]
<1>1. inbox \in [Receiver -> Seq(Message)]
  BY DEF TypeOK, Message
<1>2. Tail(inbox[r]) \in Seq(Message)
  BY <1>1
<1> QED BY <1>1, <1>2 DEF Read

LEMMA Receivers ==
    /\ Actor \subseteq Receiver /\ Task \subseteq Receiver
    /\ "supervisor" \in Actor /\ "dtnd" \in Actor /\ "strategy" \in Actor
    /\ "ecla" \in Actor /\ "emu" \in Actor /\ "lora" \in Actor
    /\ "dtnd task" \in Task /\ "ecla client" \in Task /\ "routing" \in Task
BY DEF Receiver, Actor, Task

LEMMA Different ==
    /\ Ev("DTNDStart") # Ev("DTNDStarted") /\ Ev("DTNDStart") # Ev("ECLAStart")
    /\ Ev("DTNDStart") # Ev("StrategyStart") /\ Ev("DTNDStart") # Ev("Registered")
    /\ Ev("DTNDStarted") # Ev("ECLAStart") /\ Ev("DTNDStarted") # Ev("StrategyStart")
    /\ Ev("DTNDStarted") # Ev("Registered") /\ Ev("ECLAStart") # Ev("StrategyStart")
    /\ Ev("ECLAStart") # Ev("Registered") /\ Ev("StrategyStart") # Ev("Registered")
    /\ \A t : /\ Close(t) # Ev("DTNDStart") /\ Close(t) # Ev("DTNDStarted")
              /\ Close(t) # Ev("ECLAStart") /\ Close(t) # Ev("StrategyStart")
              /\ Close(t) # Ev("Registered") /\ Close(t) # Ev("LoRaStart")
    /\ Ev("LoRaStart") # Ev("DTNDStart") /\ Ev("LoRaStart") # Ev("DTNDStarted")
    /\ Ev("LoRaStart") # Ev("ECLAStart") /\ Ev("LoRaStart") # Ev("StrategyStart")
    /\ Ev("LoRaStart") # Ev("Registered")
BY DEF Ev, Close

\* The supervisor's two requests, and who takes the first.
LEMMA BootPosts ==
    ASSUME TypeOK, Boot
    PROVE  \E box \in [Receiver -> Seq(Message)] :
              /\ box = Post(inbox, Ev("LoRaStart"))
              /\ inbox' = Post(box, Ev("DTNDStart"))
              /\ inbox' \in [Receiver -> Seq(Message)]
              /\ \A r \in Receiver \ {"lora", "emu"} : box[r] = inbox[r]
<1> DEFINE box == Post(inbox, Ev("LoRaStart"))
<1>1. inbox \in [Receiver -> Seq(Message)]
  BY DEF TypeOK, Message
<1>2. box \in [Receiver -> Seq(Message)]
  BY <1>1, Posting
<1>3. inbox' = Post(box, Ev("DTNDStart"))
  BY DEF Boot
<1>4. \A r \in Receiver \ {"lora", "emu"} : Ev("LoRaStart") \notin Relevant[r]
  BY Different DEF Relevant, Receiver, Actor, Task
<1>5. \A r \in Receiver \ {"lora", "emu"} : box[r] = inbox[r]
  BY <1>4 DEF Post
<1>6. inbox' \in [Receiver -> Seq(Message)]
  BY <1>2, <1>3, Posting
<1> QED BY <1>2, <1>3, <1>5, <1>6

\* What the LoRa and the emulator actor read makes nobody else move ...
RadioRead == StartRadio \/ EmuLearns \/ EmuCommits

LEMMA RadioReads ==
    ASSUME RadioRead
    PROVE  /\ \E r \in {"lora", "emu"} :
                 \E e \in {Ev("LoRaStart"), Ev("ECLAStart"), Ev("StrategyStart")} :
                     Got(r, e) /\ inbox' = Read(r)
           /\ UNCHANGED <<attendance, dtndVars, eclaVars, routingVars, runVars>>
BY DEF RadioRead, StartRadio, EmuLearns, EmuCommits

\* ... nor does what they wait for.
RadioWork == RadioOpens \/ PutEnds \/ SerialReadYields

LEMMA RadioWorks ==
    ASSUME RadioWork
    PROVE  UNCHANGED <<bus, dtndVars, eclaVars, routingVars, runVars>>
BY DEF RadioWork, RadioOpens, PutEnds, SerialReadYields

---------------------------------------------------------------------------
(* Types.                                                                  *)

LEMMA InitType == Init => TypeOK
<1> SUFFICES ASSUME Init PROVE TypeOK
  OBVIOUS
<1>1. inbox \in [Receiver -> Seq(Message)]
  BY DEF Init
<1>2. /\ listening \subseteq Receiver /\ asked \subseteq Closable
      /\ tasks \subseteq RoutingTask /\ waiting \subseteq tasks
  BY Receivers DEF Init
<1>3. bounds \in [registered : 0 .. Registrations, lost : 0 .. MaxLosses]
  BY BoundAssumption DEF Init
<1> QED
  BY <1>1, <1>2, <1>3 DEF Init, TypeOK, Message

LEMMA TypeStep == TypeOK /\ [Next]_vars => TypeOK'
<1> SUFFICES ASSUME TypeOK, [Next]_vars PROVE TypeOK'
  OBVIOUS
<1> USE BoundAssumption, ClosableAssumption
<1>0. inbox \in [Receiver -> Seq(Message)] /\ listening \subseteq Receiver
  BY DEF TypeOK, Message
\* What remains to be shown when only the bus changes.
<1>1. ASSUME inbox' \in [Receiver -> Seq(Message)], listening' \subseteq Receiver,
             missed' \in BOOLEAN, asked' \subseteq Closable, booted' \in BOOLEAN,
             bounds' \in [registered : 0 .. Registrations, lost : 0 .. MaxLosses],
             UNCHANGED <<dtndVars, eclaVars, routingVars, exited, loraVars>>
      PROVE  TypeOK'
  BY <1>1 DEF TypeOK, Message, dtndVars, eclaVars, routingVars, loraVars
<1>2. ASSUME NEW r \in Receiver, inbox[r] # <<>>
      PROVE  /\ Read(r) \in [Receiver -> Seq(Message)]
             /\ \A e, f : /\ Post(Read(r), e) \in [Receiver -> Seq(Message)]
                          /\ Post(Post(Read(r), e), f) \in [Receiver -> Seq(Message)]
  BY <1>2, Reading, Posting
<1>3. ASSUME NEW r \in Receiver, Leave(r)
      PROVE  inbox' \in [Receiver -> Seq(Message)] /\ listening' \subseteq Receiver
             /\ missed' \in BOOLEAN
  BY <1>0, <1>3 DEF Leave, TypeOK
<1>4. CASE Boot
  <2>1. inbox' \in [Receiver -> Seq(Message)]
    BY <1>4, BootPosts
  <2> QED BY <1>0, <1>1, <1>4, <2>1, Receivers DEF Boot, TypeOK
<1>5. CASE DtndIsStarted
  BY <1>0, <1>1, <1>2, <1>5, Receivers
  DEF DtndIsStarted, Got, TypeOK, attendance, mainVars, runVars, loraVars
<1>6. CASE AssumeDtnd
  BY <1>0, <1>1, <1>2, <1>6, Receivers
  DEF AssumeDtnd, Got, TypeOK, attendance, mainVars, runVars, loraVars
<1>7. CASE StartDtnd
  <2>1. inbox' \in [Receiver -> Seq(Message)]
    BY <1>2, <1>7, Receivers DEF StartDtnd, Got
  <2> QED
    BY <1>7, <2>1
    DEF StartDtnd, TypeOK, Message, attendance, eclaVars, routingVars, mainVars, runVars,
        loraVars
<1>8. CASE StartEcla
  <2>1. inbox' \in [Receiver -> Seq(Message)]
    BY <1>2, <1>8, Receivers DEF StartEcla, Got
  <2> QED
    BY <1>8, <2>1
    DEF StartEcla, TypeOK, Message, attendance, dtndVars, routingVars, mainVars, runVars,
        loraVars
<1>9. CASE Publish
  <2>1. inbox' \in [Receiver -> Seq(Message)]
    BY <1>2, <1>9, Receivers DEF Publish, Got
  <2> QED
    BY <1>9, <2>1
    DEF Publish, TypeOK, Message, attendance, dtndVars, routingVars, mainVars, runVars,
        loraVars
<1>10. CASE StartRouting
  <2>1. inbox' \in [Receiver -> Seq(Message)]
    BY <1>2, <1>10, Receivers DEF StartRouting, Got
  <2> QED
    BY <1>10, <2>1
    DEF StartRouting, TypeOK, Message, attendance, dtndVars, eclaVars, mainVars, runVars,
        loraVars
<1>11. ASSUME NEW a \in Actor, ActorReturns(a) PROVE TypeOK'
  BY <1>0, <1>1, <1>3, <1>11, Receivers DEF ActorReturns, TypeOK, mainVars, runVars, loraVars
<1>12. CASE DtndSpawned
  <2>1. listening' \subseteq Receiver
    BY <1>0, <1>12, Receivers DEF DtndSpawned, Subscribe
  <2>2. /\ dtnd' = "up" /\ timer' = TRUE
        /\ UNCHANGED <<inbox, missed, dtndFlag, eclaVars, routingVars, mainVars>>
    BY <1>12 DEF DtndSpawned, Subscribe
  <2> QED
    BY <2>1, <2>2 DEF TypeOK, eclaVars, routingVars, mainVars, runVars, loraVars
<1>13. CASE DtndTaskCloses
  <2>1. inbox' \in [Receiver -> Seq(Message)]
    BY <1>2, <1>13, Receivers DEF DtndTaskCloses, Got
  <2>2. /\ dtndFlag' \in BOOLEAN
        /\ UNCHANGED <<attendance, dtnd, timer, eclaVars, routingVars, mainVars>>
    BY <1>13 DEF DtndTaskCloses
  <2> QED
    BY <2>1, <2>2
    DEF TypeOK, Message, attendance, eclaVars, routingVars, mainVars, runVars, loraVars
<1>14. CASE DtndNotSpawned
  BY <1>14
  DEF DtndNotSpawned, TypeOK, bus, attendance, eclaVars, routingVars, mainVars, runVars, loraVars
<1>15. CASE Announce
  <2>1. inbox' \in [Receiver -> Seq(Message)]
    BY <1>0, <1>15, Posting DEF Announce
  <2>2. /\ timer' \in BOOLEAN
        /\ UNCHANGED <<attendance, dtnd, dtndFlag, eclaVars, routingVars, mainVars>>
    BY <1>15 DEF Announce
  <2> QED
    BY <2>1, <2>2
    DEF TypeOK, Message, attendance, eclaVars, routingVars, mainVars, runVars, loraVars
<1>16. CASE EclaSubscribes
  <2>1. listening' \subseteq Receiver
    BY <1>0, <1>16, Receivers DEF EclaSubscribes, Subscribe
  <2>2. /\ ecla' = "serving"
        /\ UNCHANGED <<inbox, missed, dtndVars, reply, named, routingVars, mainVars>>
    BY <1>16 DEF EclaSubscribes, Subscribe
  <2> QED
    BY <2>1, <2>2 DEF TypeOK, dtndVars, routingVars, mainVars, runVars, loraVars
<1>17. CASE EclaCloses
  <2>1. /\ inbox' \in [Receiver -> Seq(Message)] /\ listening' \subseteq Receiver
        /\ missed' \in BOOLEAN
    BY <1>3, <1>17, Receivers DEF EclaCloses
  <2>2. ecla' = "told" /\ UNCHANGED <<dtndVars, reply, named, routingVars, mainVars>>
    BY <1>17 DEF EclaCloses
  <2> QED
    BY <2>1, <2>2 DEF TypeOK, Message, dtndVars, routingVars, mainVars, runVars, loraVars
<1>18. CASE EclaFinishes
  <2>1. /\ ecla' = "down" /\ reply' \in BOOLEAN /\ named' \in BOOLEAN
        /\ UNCHANGED <<bus, dtndVars, routingVars, mainVars>>
    BY <1>18 DEF EclaFinishes
  <2> QED
    BY <2>1 DEF TypeOK, bus, attendance, dtndVars, routingVars, mainVars, runVars, loraVars
<1>19. CASE Registered
  BY <1>19 DEF Registered, TypeOK, bus, attendance, dtndVars, routingVars, loraVars
<1>20. CASE ForwardReply
  <2>1. inbox' \in [Receiver -> Seq(Message)]
    BY <1>0, <1>20, Posting DEF ForwardReply
  <2>2. reply' \in BOOLEAN /\ UNCHANGED <<attendance, dtndVars, ecla, named, routingVars, mainVars>>
    BY <1>20 DEF ForwardReply
  <2> QED
    BY <2>1, <2>2
    DEF TypeOK, Message, attendance, dtndVars, routingVars, mainVars, runVars, loraVars
<1>21. CASE RoutingSubscribes
  <2>1. listening' \subseteq Receiver
    BY <1>0, <1>21, Receivers DEF RoutingSubscribes, Subscribe
  <2>2. /\ tasks' \subseteq RoutingTask /\ waiting' \subseteq tasks'
        /\ routing' = "running"
    BY <1>21 DEF RoutingSubscribes, NamedTask, RoutingTask
  <2>3. UNCHANGED <<inbox, missed, dtndVars, eclaVars, mainVars>>
    BY <1>21 DEF RoutingSubscribes, Subscribe
  <2> QED
    BY <2>1, <2>2, <2>3 DEF TypeOK, dtndVars, eclaVars, mainVars, runVars, loraVars
<1>22. CASE RoutingCloses
  <2>1. /\ inbox' \in [Receiver -> Seq(Message)] /\ listening' \subseteq Receiver
        /\ missed' \in BOOLEAN
    BY <1>3, <1>22, Receivers DEF RoutingCloses
  <2>2. routing' = "cancelled" /\ UNCHANGED <<dtndVars, eclaVars, tasks, waiting, mainVars>>
    BY <1>22 DEF RoutingCloses
  <2> QED
    BY <2>1, <2>2 DEF TypeOK, Message, dtndVars, eclaVars, mainVars, runVars, loraVars
<1>23. CASE RoutingFinishes
  BY <1>23
  DEF RoutingFinishes, TypeOK, bus, attendance, dtndVars, eclaVars, mainVars, runVars,
      loraVars
<1>24. ASSUME NEW t \in RoutingTask, Ticker(t) PROVE TypeOK'
  <2>1. tasks' \subseteq RoutingTask /\ waiting' \subseteq tasks'
    BY <1>24 DEF Ticker, TaskWakes, TaskReturns, TypeOK
  <2>2. UNCHANGED <<bus, dtndVars, eclaVars, routing, mainVars>>
    BY <1>24 DEF Ticker, TaskWakes, TaskReturns
  <2> QED
    BY <2>1, <2>2 DEF TypeOK, bus, attendance, dtndVars, eclaVars, mainVars, runVars, loraVars
<1>25. CASE Exit \/ RadioFails
  <2>1. Dropped
    BY <1>25 DEF Exit, RadioFails
  <2>2. inbox' \in [Receiver -> Seq(Message)]
    BY <2>1 DEF Dropped
  <2>3. /\ dtnd' \in {"external", "off", "spawning", "up", "failed", "killed"}
        /\ radio' \in {"off", "opening", "open", "failed"}
    BY <1>25 DEF Exit, RadioFails, TypeOK
  <2> QED BY <2>1, <2>2, <2>3 DEF Dropped, TypeOK, Message
<1>26. ASSUME NEW target \in Closable, Request(target) PROVE TypeOK'
  <2>1. inbox' \in [Receiver -> Seq(Message)]
    BY <1>0, <1>26, Posting DEF Request
  <2> QED BY <1>0, <1>1, <1>26, <2>1 DEF Request, TypeOK
<1>27. ASSUME NEW r \in Receiver, Lag(r) PROVE TypeOK'
  <2>1. inbox' \in [Receiver -> Seq(Message)]
    BY <1>2, <1>27 DEF Lag
  <2>2. bounds' \in [registered : 0 .. Registrations, lost : 0 .. MaxLosses]
    BY <1>27 DEF Lag, TypeOK
  <2> QED BY <1>0, <1>1, <1>27, <2>1, <2>2 DEF Lag, TypeOK
<1>29. CASE RadioRead
  <2>1. inbox' \in [Receiver -> Seq(Message)]
    BY <1>2, <1>29, RadioReads, Receivers DEF Got
  <2>2. radio' \in {"off", "opening", "open", "failed"} /\ emulated' \in BOOLEAN
        /\ putting' \in BOOLEAN
    BY <1>29 DEF RadioRead, StartRadio, EmuLearns, EmuCommits, TypeOK
  <2>3. UNCHANGED <<attendance, dtndVars, eclaVars, routingVars, runVars>>
    BY <1>29, RadioReads
  <2> QED
    BY <2>1, <2>2, <2>3
    DEF TypeOK, Message, attendance, dtndVars, eclaVars, routingVars, runVars
<1>30. CASE RadioWork
  <2>1. radio' \in {"off", "opening", "open", "failed"} /\ emulated' \in BOOLEAN
        /\ putting' \in BOOLEAN
    BY <1>30 DEF RadioWork, RadioOpens, PutEnds, SerialReadYields, SerialReads, TypeOK
  <2>2. UNCHANGED <<bus, dtndVars, eclaVars, routingVars, runVars>>
    BY <1>30, RadioWorks
  <2> QED
    BY <2>1, <2>2
    DEF TypeOK, bus, attendance, dtndVars, eclaVars, routingVars, runVars
<1>28. CASE UNCHANGED vars
  BY <1>28
  DEF vars, TypeOK, bus, attendance, dtndVars, eclaVars, routingVars, mainVars, runVars, loraVars
<1> QED
  BY <1>4, <1>5, <1>6, <1>7, <1>8, <1>9, <1>10, <1>11, <1>12, <1>13, <1>14, <1>15, <1>16,
     <1>17, <1>18, <1>19, <1>20, <1>21, <1>22, <1>23, <1>24, <1>25, <1>26, <1>27, <1>28,
     <1>29, <1>30
  DEF Next, ActorStep, DtndTask, EclaClient, Routing, RadioRead, RadioWork

\* Every backlog holds only what its receiver reacts to, and the parts keep to
\* their states, in whatever order they start, close and lag.
THEOREM TypeCorrect == Spec => []TypeOK
<1> QED BY InitType, TypeStep, PTL DEF Spec

---------------------------------------------------------------------------
(* The boot.                                                               *)

LEMMA InitBoot == Init => BootInv
<1> SUFFICES ASSUME Init PROVE BootInv
  OBVIOUS
<1>1. \A r \in Receiver : inbox[r] = <<>>
  BY DEF Init
<1>2. /\ inbox["supervisor"] = <<>> /\ inbox["dtnd"] = <<>>
      /\ inbox["ecla"] = <<>> /\ inbox["strategy"] = <<>>
  BY <1>1, Receivers
<1> QED BY <1>2, EmptyBacklog DEF Init, BootInv, Underway

\* Only events of E are new in the backlogs, and no others are doubled.
News(box, E) ==
    \A r \in Receiver : \A f :
        f \notin E =>
            /\ Holds(box[r], f) => Holds(inbox[r], f)
            /\ Once(inbox[r], f) => Once(box[r], f)

LEMMA ReadingIsNoNews ==
    ASSUME TypeOK, NEW r \in Receiver, inbox[r] # <<>>
    PROVE  News(Read(r), {})
<1>1. inbox[r] \in Seq(Message)
  BY DEF TypeOK, Message
<1>2. \A f : /\ Holds(Tail(inbox[r]), f) => Holds(inbox[r], f)
             /\ Once(inbox[r], f) => Once(Tail(inbox[r]), f)
  BY <1>1, TailOfBacklog
<1> QED BY <1>2, Reading DEF News

LEMMA LeavingIsNoNews ==
    ASSUME TypeOK, NEW r \in Receiver, Leave(r)
    PROVE  News(inbox', {})
<1>1. /\ inbox'[r] = <<>>
      /\ \A q \in Receiver : q # r => inbox'[q] = inbox[q]
  BY DEF Leave, TypeOK
<1> QED BY <1>1, EmptyBacklog DEF News

LEMMA PostingIsNews ==
    ASSUME NEW box \in [Receiver -> Seq(Message)], NEW E, News(box, E), NEW e
    PROVE  News(Post(box, e), E \cup {e})
<1> SUFFICES ASSUME NEW r \in Receiver, NEW f, f \notin E, f # e
             PROVE  /\ Holds(Post(box, e)[r], f) => Holds(inbox[r], f)
                    /\ Once(inbox[r], f) => Once(Post(box, e)[r], f)
  BY DEF News
<1>1. /\ Holds(box[r], f) => Holds(inbox[r], f)
      /\ Once(inbox[r], f) => Once(box[r], f)
  BY DEF News
<1>2. /\ Holds(Append(box[r], e), f) => Holds(box[r], f)
      /\ Once(box[r], f) => Once(Append(box[r], e), f)
  <2>1. box[r] \in Seq(Message)
    OBVIOUS
  <2> QED BY <2>1, AppendToBacklog
<1>3. Post(box, e)[r] = box[r] \/ Post(box, e)[r] = Append(box[r], e)
  BY Posting
<1> QED BY <1>1, <1>2, <1>3

\* The head of a backlog waits in it.
LEMMA GotWaits ==
    ASSUME TypeOK, NEW r \in Receiver, NEW e, Got(r, e)
    PROVE  Holds(inbox[r], e) /\ (Once(inbox[r], e) => ~Holds(Read(r)[r], e))
<1>1. inbox[r] \in Seq(Message) /\ inbox[r] # <<>> /\ Head(inbox[r]) = e
  BY DEF TypeOK, Message, Got
<1> QED BY <1>1, TailOfBacklog, Reading

LEMMA BootStep == TypeOK /\ BootInv /\ [Next]_vars => BootInv'
<1> SUFFICES ASSUME TypeOK, BootInv, [Next]_vars PROVE BootInv'
  OBVIOUS
<1> DEFINE Requests == {Ev("DTNDStarted"), Ev("ECLAStart"), Ev("StrategyStart")}
<1>0. inbox \in [Receiver -> Seq(Message)] /\ News(inbox, {})
  BY DEF TypeOK, Message, News
\* A step that brings nothing nearer.
<1>1. ASSUME NEW E, News(inbox', E), E \cap (Requests \cup {Ev("DTNDStart")}) = {},
             timer' => timer, ecla' # "off" => ecla # "off",
             routing' \notin {"unknown", "off"} => routing \notin {"unknown", "off"},
             UNCHANGED <<booted, dtnd>>
      PROVE  BootInv'
  <2>1. /\ Holds(inbox'["dtnd"], Ev("DTNDStart")) => Holds(inbox["dtnd"], Ev("DTNDStart"))
        /\ Once(inbox["dtnd"], Ev("DTNDStart")) => Once(inbox'["dtnd"], Ev("DTNDStart"))
    BY <1>1, Receivers DEF News
  <2>2. Underway' => Underway
    <3>1. \A r \in Receiver : \A f \in Requests : Holds(inbox'[r], f) => Holds(inbox[r], f)
      BY <1>1 DEF News
    <3> QED BY <1>1, <3>1, Receivers DEF Underway
  <2> QED BY <1>1, <2>1, <2>2 DEF BootInv
\* A step of what follows the start of dtnd.
<1>2. ASSUME NEW E, News(inbox', E), Ev("DTNDStart") \notin E,
             dtnd \in {"external", "up"}, UNCHANGED <<booted, dtnd>>
      PROVE  BootInv'
  <2>1. /\ Holds(inbox'["dtnd"], Ev("DTNDStart")) => Holds(inbox["dtnd"], Ev("DTNDStart"))
        /\ Once(inbox["dtnd"], Ev("DTNDStart")) => Once(inbox'["dtnd"], Ev("DTNDStart"))
    BY <1>2, Receivers DEF News
  <2> QED BY <1>2, <2>1 DEF BootInv
<1>3. CASE Boot
  <2>1. /\ ~booted /\ booted' /\ UNCHANGED <<dtnd, timer, ecla, routing>>
    BY <1>3 DEF Boot, dtndVars, eclaVars, routingVars
  <2>0. PICK box \in [Receiver -> Seq(Message)] :
            /\ box = Post(inbox, Ev("LoRaStart")) /\ inbox' = Post(box, Ev("DTNDStart"))
            /\ \A r \in Receiver \ {"lora", "emu"} : box[r] = inbox[r]
    BY <1>3, BootPosts
  <2>2. Once(inbox'["dtnd"], Ev("DTNDStart"))
    <3>1. inbox["dtnd"] \in Seq(Message) /\ "dtnd" \in Receiver
      BY <1>0, Receivers
    <3>2. ~Holds(inbox["dtnd"], Ev("DTNDStart")) /\ Once(inbox["dtnd"], Ev("DTNDStart"))
      BY <2>1 DEF BootInv
    <3>3. Once(Append(inbox["dtnd"], Ev("DTNDStart")), Ev("DTNDStart"))
      BY <3>1, <3>2, AppendToBacklog
    <3>4. box["dtnd"] = inbox["dtnd"]
      BY <2>0, <3>1
    <3> QED BY <2>0, <3>1, <3>2, <3>3, <3>4, Posting
  <2>3. Underway' => Underway
    <3>0. News(box, {} \cup {Ev("LoRaStart")})
      BY <1>0, <2>0, PostingIsNews
    <3>1. News(inbox', ({} \cup {Ev("LoRaStart")}) \cup {Ev("DTNDStart")})
      BY <2>0, <3>0, PostingIsNews
    <3> QED BY <2>1, <3>1, Receivers, Different DEF News, Underway
  <2> QED BY <2>1, <2>2, <2>3 DEF BootInv
<1>4. CASE DtndIsStarted
  <2>1. Got("supervisor", Ev("DTNDStarted"))
        /\ inbox' = Post(Post(Read("supervisor"), Ev("ECLAStart")), Ev("StrategyStart"))
        /\ UNCHANGED <<booted, dtnd>>
    BY <1>4 DEF DtndIsStarted, dtndVars, mainVars, runVars
  <2>2. dtnd \in {"external", "up"}
    BY <2>1, GotWaits, Receivers DEF BootInv, Underway
  <2>3. News(Read("supervisor"), {}) /\ Read("supervisor") \in [Receiver -> Seq(Message)]
    BY <2>1, ReadingIsNoNews, Reading, Receivers DEF Got
  <2>4. News(Post(Read("supervisor"), Ev("ECLAStart")), {} \cup {Ev("ECLAStart")})
        /\ Post(Read("supervisor"), Ev("ECLAStart")) \in [Receiver -> Seq(Message)]
    BY <2>3, PostingIsNews, Posting
  <2>5. News(inbox', ({} \cup {Ev("ECLAStart")}) \cup {Ev("StrategyStart")})
    BY <2>1, <2>4, PostingIsNews
  <2> QED BY <1>2, <2>1, <2>2, <2>5, Different
<1>5. CASE AssumeDtnd
  <2>1. /\ Got("dtnd", Ev("DTNDStart")) /\ dtnd = "external" /\ UNCHANGED <<booted, dtnd>>
        /\ inbox' = Post(Read("dtnd"), Ev("DTNDStarted"))
    BY <1>5 DEF AssumeDtnd, dtndVars, mainVars, runVars
  <2>2. News(Read("dtnd"), {}) /\ Read("dtnd") \in [Receiver -> Seq(Message)]
    BY <2>1, ReadingIsNoNews, Reading, Receivers DEF Got
  <2>3. News(inbox', {Ev("DTNDStarted")})
    BY <2>1, <2>2, PostingIsNews
  <2> QED BY <1>2, <2>1, <2>3, Different
<1>6. CASE StartDtnd
  <2>1. /\ Got("dtnd", Ev("DTNDStart")) /\ dtnd # "external" /\ dtnd' = "spawning"
        /\ inbox' = Read("dtnd") /\ UNCHANGED <<booted, timer, ecla, routing>>
    BY <1>6 DEF StartDtnd, eclaVars, routingVars, mainVars, runVars
  <2>2. Holds(inbox["dtnd"], Ev("DTNDStart")) /\ ~Holds(inbox'["dtnd"], Ev("DTNDStart"))
    BY <2>1, GotWaits, Receivers DEF BootInv
  <2>3. News(inbox', {})
    BY <2>1, ReadingIsNoNews, Receivers DEF Got
  <2>4. booted /\ dtnd = "off" /\ ~Underway
    BY <2>1, <2>2 DEF BootInv
  <2>5. ~Underway'
    BY <2>1, <2>3, <2>4, Receivers DEF News, Underway
  <2>6. Once(inbox'["dtnd"], Ev("DTNDStart"))
    BY <2>3, Receivers DEF News, BootInv
  <2> QED BY <2>1, <2>2, <2>4, <2>5, <2>6 DEF BootInv
<1>7. CASE DtndSpawned \/ DtndNotSpawned
  <2>1. /\ dtnd = "spawning" /\ UNCHANGED <<booted, inbox, ecla, routing>>
        /\ dtnd' = "up" \/ (dtnd' = "failed" /\ timer' = timer)
    BY <1>7
    DEF DtndSpawned, DtndNotSpawned, Subscribe, bus, eclaVars, routingVars, mainVars, runVars
  <2>2. booted /\ ~Underway /\ ~Holds(inbox["dtnd"], Ev("DTNDStart"))
    BY <2>1 DEF BootInv
  <2> QED BY <2>1, <2>2 DEF BootInv, Underway
<1>8. CASE Announce
  <2>1. timer /\ inbox' = Post(inbox, Ev("DTNDStarted")) /\ UNCHANGED <<booted, dtnd>>
    BY <1>8 DEF Announce, mainVars, runVars
  <2>2. News(inbox', {} \cup {Ev("DTNDStarted")})
    BY <1>0, <2>1, PostingIsNews
  <2>3. dtnd \in {"external", "up"}
    BY <2>1 DEF BootInv, Underway
  <2> QED BY <1>2, <2>1, <2>2, <2>3, Different
<1>9. CASE StartEcla
  <2>1. /\ Got("ecla", Ev("ECLAStart")) /\ inbox' = Read("ecla")
        /\ UNCHANGED <<booted, dtnd>>
    BY <1>9 DEF StartEcla, dtndVars, mainVars, runVars
  <2>2. dtnd \in {"external", "up"}
    BY <2>1, GotWaits, Receivers DEF BootInv, Underway
  <2>3. News(inbox', {})
    BY <2>1, ReadingIsNoNews, Receivers DEF Got
  <2> QED BY <1>2, <2>1, <2>2, <2>3
<1>10. CASE StartRouting
  <2>1. /\ Got("strategy", Ev("StrategyStart")) /\ inbox' = Read("strategy")
        /\ UNCHANGED <<booted, dtnd>>
    BY <1>10 DEF StartRouting, dtndVars, mainVars, runVars
  <2>2. dtnd \in {"external", "up"}
    BY <2>1, GotWaits, Receivers DEF BootInv, Underway
  <2>3. News(inbox', {})
    BY <2>1, ReadingIsNoNews, Receivers DEF Got
  <2> QED BY <1>2, <2>1, <2>2, <2>3
<1>11. ASSUME NEW a \in Actor, ActorReturns(a) PROVE BootInv'
  <2>1. News(inbox', {})
    BY <1>11, LeavingIsNoNews, Receivers DEF ActorReturns
  <2>2. UNCHANGED <<booted, dtnd, timer, ecla, routing>>
    BY <1>11 DEF ActorReturns, dtndVars, eclaVars, routingVars, mainVars, runVars
  <2> QED BY <1>1, <2>1, <2>2
<1>12. CASE DtndTaskCloses \/ Publish
  <2>1. News(inbox', {})
    BY <1>12, ReadingIsNoNews, Receivers DEF DtndTaskCloses, Publish, Got
  <2>2. UNCHANGED <<booted, dtnd, timer, ecla, routing>>
    BY <1>12 DEF DtndTaskCloses, Publish, dtndVars, eclaVars, routingVars, mainVars, runVars
  <2> QED BY <1>1, <2>1, <2>2
<1>13. CASE EclaCloses \/ RoutingCloses
  <2>1. News(inbox', {})
    BY <1>13, LeavingIsNoNews, Receivers DEF EclaCloses, RoutingCloses
  <2>2. /\ UNCHANGED <<booted, dtnd, timer>>
        /\ ecla' # "off" => ecla # "off"
        /\ routing' \notin {"unknown", "off"} => routing \notin {"unknown", "off"}
    BY <1>13 DEF EclaCloses, RoutingCloses, dtndVars, eclaVars, routingVars, mainVars, runVars
  <2> QED BY <1>1, <2>1, <2>2
<1>14. CASE \/ EclaSubscribes \/ EclaFinishes \/ Registered
            \/ RoutingSubscribes \/ RoutingFinishes
            \/ (\E t \in RoutingTask : Ticker(t)) \/ UNCHANGED vars
  <2>1. /\ UNCHANGED <<inbox, booted, dtnd, timer>>
        /\ ecla' # "off" => ecla # "off"
        /\ routing' \notin {"unknown", "off"} => routing \notin {"unknown", "off"}
    BY <1>14
    DEF EclaSubscribes, EclaFinishes, Registered, RoutingSubscribes, RoutingFinishes,
        Ticker, TaskWakes, TaskReturns, Subscribe, vars, bus, dtndVars, eclaVars,
        routingVars, mainVars, runVars
  <2> QED BY <1>0, <1>1, <2>1
<1>15. CASE ForwardReply
  <2>1. /\ inbox' = Post(inbox, Ev("Registered"))
        /\ UNCHANGED <<booted, dtnd, timer, ecla, routing>>
    BY <1>15 DEF ForwardReply, dtndVars, routingVars, mainVars, runVars
  <2>2. News(inbox', {Ev("Registered")})
    BY <1>0, <2>1, PostingIsNews
  <2> QED BY <1>1, <2>1, <2>2, Different
<1>16. CASE Exit \/ RadioFails
  <2>1. /\ booted' = booted /\ ~timer' /\ ecla' = "off" /\ routing' = "off"
        /\ \A r \in Receiver : inbox'[r] = <<>>
    BY <1>16 DEF Exit, RadioFails, Dropped
  <2>3. ~booted' => dtnd' \in {"external", "off"}
    BY <1>16, <2>1 DEF Exit, RadioFails, BootInv
  <2>2. /\ inbox'["supervisor"] = <<>> /\ inbox'["dtnd"] = <<>>
        /\ inbox'["ecla"] = <<>> /\ inbox'["strategy"] = <<>>
    BY <2>1, Receivers
  <2> QED BY <2>1, <2>2, <2>3, EmptyBacklog DEF BootInv, Underway
<1>17. ASSUME NEW target \in Closable, Request(target) PROVE BootInv'
  <2>1. /\ inbox' = Post(inbox, Close(target))
        /\ UNCHANGED <<booted, dtnd, timer, ecla, routing>>
    BY <1>17 DEF Request, dtndVars, eclaVars, routingVars
  <2>2. News(inbox', {Close(target)})
    BY <1>0, <2>1, PostingIsNews
  <2> QED BY <1>1, <2>1, <2>2, Different
<1>18. ASSUME NEW r \in Receiver, Lag(r) PROVE BootInv'
  <2>1. News(inbox', {})
    BY <1>18, ReadingIsNoNews DEF Lag
  <2>2. UNCHANGED <<booted, dtnd, timer, ecla, routing>>
    BY <1>18 DEF Lag, dtndVars, eclaVars, routingVars
  <2> QED BY <1>1, <2>1, <2>2
<1>19. CASE RadioRead
  <2>1. News(inbox', {})
    BY <1>19, RadioReads, ReadingIsNoNews, Receivers DEF Got
  <2>2. UNCHANGED <<booted, dtnd, timer, ecla, routing>>
    BY <1>19, RadioReads DEF dtndVars, eclaVars, routingVars, runVars
  <2> QED BY <1>1, <2>1, <2>2
<1>20. CASE RadioWork
  <2>1. UNCHANGED <<inbox, booted, dtnd, timer, ecla, routing>>
    BY <1>20, RadioWorks DEF bus, dtndVars, eclaVars, routingVars, runVars
  <2> QED BY <1>0, <1>1, <2>1
<1> QED
  BY <1>3, <1>4, <1>5, <1>6, <1>7, <1>8, <1>9, <1>10, <1>11, <1>12, <1>13, <1>14, <1>15,
     <1>16, <1>17, <1>18, <1>19, <1>20
  DEF Next, ActorStep, DtndTask, EclaClient, Routing, RadioRead, RadioWork

\* For any close requests and losses: neither the ECLA client nor the strategy is
\* requested or runs before the dtnd process does.
THEOREM DtndComesFirst == Spec => []DtndFirst
<1>1. BootInv => DtndFirst
  BY DEF BootInv, Underway, DtndFirst
<1> QED BY <1>1, InitType, InitBoot, TypeStep, BootStep, PTL DEF Spec

---------------------------------------------------------------------------
(* The close request.                                                      *)

\* An actor that has the close request in its backlog has it in box.
Kept(box) == \A a \in Actor : Holds(inbox[a], Close("All")) => Holds(box[a], Close("All"))

LEMMA TailKeeps ==
    ASSUME NEW S, NEW s \in Seq(S), s # <<>>, NEW e, Head(s) # e, Holds(s, e)
    PROVE  Holds(Tail(s), e)
<1>1. /\ Len(s) \in Nat \ {0} /\ Head(s) = s[1] /\ DOMAIN s = 1 .. Len(s)
      /\ DOMAIN Tail(s) = 1 .. Len(s) - 1
      /\ \A i \in 1 .. Len(s) - 1 : Tail(s)[i] = s[i + 1]
  OBVIOUS
<1>2. PICK i \in 1 .. Len(s) : s[i] = e
  BY <1>1 DEF Holds
<1>3. i - 1 \in 1 .. Len(s) - 1 /\ s[i - 1 + 1] = e
  BY <1>1, <1>2
<1> QED BY <1>1, <1>3 DEF Holds

LEMMA AppendHolds ==
    ASSUME NEW S, NEW s \in Seq(S), NEW f
    PROVE  Holds(Append(s, f), f) /\ \A e : Holds(s, e) => Holds(Append(s, f), e)
<1>1. /\ DOMAIN s = 1 .. Len(s) /\ Len(s) \in Nat
      /\ DOMAIN Append(s, f) = 1 .. (Len(s) + 1)
      /\ Append(s, f)[Len(s) + 1] = f
      /\ \A i \in 1 .. Len(s) : Append(s, f)[i] = s[i]
  OBVIOUS
<1> QED BY <1>1 DEF Holds

LEMMA ReadingKeeps ==
    ASSUME TypeOK, NEW r \in Receiver, NEW e, Got(r, e), e # Close("All") \/ r \in Task
    PROVE  Kept(Read(r))
<1>1. inbox[r] \in Seq(Message) /\ inbox[r] # <<>> /\ Head(inbox[r]) = e
  BY DEF TypeOK, Message, Got
<1>2. Read(r)[r] = Tail(inbox[r]) /\ \A q \in Receiver : q # r => Read(r)[q] = inbox[q]
  BY <1>1, Reading
<1>3. r \in Actor => e # Close("All")
  BY DEF Actor, Task
<1> QED BY <1>1, <1>2, <1>3, Receivers, TailKeeps DEF Kept

LEMMA PostingKeeps ==
    ASSUME NEW box \in [Receiver -> Seq(Message)], Kept(box), NEW e
    PROVE  Kept(Post(box, e))
<1> SUFFICES ASSUME NEW a \in Actor, Holds(inbox[a], Close("All"))
             PROVE  Holds(Post(box, e)[a], Close("All"))
  BY DEF Kept
<1>1. a \in Receiver /\ box[a] \in Seq(Message) /\ Holds(box[a], Close("All"))
  BY Receivers DEF Kept
<1>2. Holds(Append(box[a], e), Close("All"))
  BY <1>1, AppendHolds
<1>3. Post(box, e)[a] = box[a] \/ Post(box, e)[a] = Append(box[a], e)
  BY <1>1, Posting
<1> QED BY <1>1, <1>2, <1>3

LEMMA InitClose == Init => CloseInv
<1> SUFFICES ASSUME Init PROVE CloseInv
  OBVIOUS
<1>1. \A a \in Actor : inbox[a] = <<>>
  BY Receivers DEF Init
<1> QED BY <1>1, EmptyBacklog DEF Init, CloseInv, CloseIsKept

LEMMA CloseStep == TypeOK /\ CloseInv /\ [Next]_vars => CloseInv'
<1> SUFFICES ASSUME TypeOK, CloseInv, [Next]_vars PROVE CloseInv'
  OBVIOUS
<1>0. /\ inbox \in [Receiver -> Seq(Message)] /\ listening \subseteq Receiver
      /\ News(inbox, {}) /\ Kept(inbox)
  BY DEF TypeOK, Message, News, Kept
\* What the other conjuncts rest on, in terms of Holds.
<1>1. /\ exited => "All" \in asked \/ radio = "failed"
      /\ "All" \in asked /\ ~missed =>
            \A a \in listening \cap Actor : Holds(inbox[a], Close("All"))
  BY DEF CloseInv, CloseIsKept, Holds
\* A step that brings no actor the request, nor takes it away.
<1>2. ASSUME NEW E, News(inbox', E), Close("All") \notin E, Kept(inbox'),
             listening' \cap Actor = listening \cap Actor,
             "All" \in asked' <=> "All" \in asked, missed => missed',
             UNCHANGED <<booted, exited>>, radio' = "failed" <=> radio = "failed"
      PROVE  CloseInv'
  <2>1. \A a \in Actor : Holds(inbox'[a], Close("All")) => Holds(inbox[a], Close("All"))
    BY <1>2, Receivers DEF News
  <2>2. \A a \in listening' \cap Actor :
            Holds(inbox[a], Close("All")) => Holds(inbox'[a], Close("All"))
    BY <1>2 DEF Kept
  <2>3. CloseIsKept'
    BY <1>1, <1>2, <2>2 DEF CloseIsKept, Holds
  <2>4. "supervisor" \in Actor
    BY DEF Actor
  <2> QED BY <1>2, <2>1, <2>3, <2>4 DEF CloseInv
\* An actor of the daemon reads an event, and posts others.
<1>3. ASSUME NEW r \in Receiver, NEW e, Got(r, e), e # Close("All") \/ r \in Task,
             UNCHANGED <<attendance, runVars>>, radio' = "failed" <=> radio = "failed"
      PROVE  /\ inbox' = Read(r) => CloseInv'
             /\ \A f : f # Close("All") /\ inbox' = Post(Read(r), f) => CloseInv'
             /\ \A f, g : f # Close("All") /\ g # Close("All")
                            /\ inbox' = Post(Post(Read(r), f), g) => CloseInv'
  <2>1. /\ News(Read(r), {}) /\ Kept(Read(r)) /\ Read(r) \in [Receiver -> Seq(Message)]
        /\ UNCHANGED <<listening, asked, missed, booted, exited>>
        /\ radio' = "failed" <=> radio = "failed"
    BY <1>3, ReadingIsNoNews, ReadingKeeps, Reading
    DEF Got, attendance, mainVars, runVars, loraVars
  <2>2. ASSUME NEW f
        PROVE  /\ News(Post(Read(r), f), {} \cup {f}) /\ Kept(Post(Read(r), f))
               /\ Post(Read(r), f) \in [Receiver -> Seq(Message)]
    BY <2>1, PostingIsNews, PostingKeeps, Posting
  <2>3. ASSUME NEW f, NEW g
        PROVE  /\ News(Post(Post(Read(r), f), g), ({} \cup {f}) \cup {g})
               /\ Kept(Post(Post(Read(r), f), g))
    BY <2>2, PostingIsNews, PostingKeeps
  <2>4. inbox' = Read(r) => CloseInv'
    BY <1>2, <2>1
  <2>5. ASSUME NEW f, f # Close("All"), inbox' = Post(Read(r), f) PROVE CloseInv'
    BY <1>2, <2>1, <2>2, <2>5
  <2>6. ASSUME NEW f, NEW g, f # Close("All"), g # Close("All"),
               inbox' = Post(Post(Read(r), f), g)
        PROVE  CloseInv'
    BY <1>2, <2>1, <2>3, <2>6
  <2> QED BY <2>4, <2>5, <2>6
\* Something else posts an event.
<1>4. ASSUME NEW e, inbox' = Post(inbox, e), e # Close("All"),
             UNCHANGED <<listening, booted, exited, radio>>,
             "All" \in asked' <=> "All" \in asked, missed => missed'
      PROVE  CloseInv'
  <2>1. News(inbox', {} \cup {e}) /\ Kept(inbox')
    BY <1>0, <1>4, PostingIsNews, PostingKeeps
  <2> QED BY <1>2, <1>4, <2>1
<1>5. CASE Boot
  <2>1. /\ ~booted /\ booted' /\ listening' = listening \cup {"supervisor"}
        /\ UNCHANGED <<missed, exited, asked, radio>>
    BY <1>5 DEF Boot, loraVars
  <2>0. PICK box \in [Receiver -> Seq(Message)] :
            box = Post(inbox, Ev("LoRaStart")) /\ inbox' = Post(box, Ev("DTNDStart"))
    BY <1>5, BootPosts
  <2>2. News(inbox', ({} \cup {Ev("LoRaStart")}) \cup {Ev("DTNDStart")})
    BY <1>0, <2>0, PostingIsNews
  <2>3. \A a \in Actor : Holds(inbox'[a], Close("All")) => Holds(inbox[a], Close("All"))
    BY <2>2, Receivers, Different DEF News
  <2>4. "All" \in asked => missed
    BY <2>1 DEF CloseInv
  <2> QED BY <1>1, <2>1, <2>3, <2>4 DEF CloseInv, CloseIsKept
<1>6. CASE DtndIsStarted
  BY <1>3, <1>6, Receivers, Different DEF DtndIsStarted, mainVars, loraVars
<1>7. CASE AssumeDtnd
  BY <1>3, <1>7, Receivers, Different DEF AssumeDtnd, mainVars, loraVars
<1>8. CASE StartDtnd
  BY <1>3, <1>8, Receivers, Different DEF StartDtnd, mainVars, loraVars
<1>9. CASE StartEcla
  BY <1>3, <1>9, Receivers, Different DEF StartEcla, mainVars, loraVars
<1>10. CASE Publish
  <2>1. Got("ecla", Ev("Registered")) /\ Ev("Registered") # Close("All")
    BY <1>10 DEF Publish, Ev, Close
  <2> QED BY <1>3, <1>10, <2>1, Receivers DEF Publish, mainVars, loraVars
<1>11. CASE StartRouting
  BY <1>3, <1>11, Receivers, Different DEF StartRouting, mainVars, loraVars
<1>12. CASE DtndTaskCloses
  <2>1. PICK e : Got("dtnd task", e)
    BY <1>12 DEF DtndTaskCloses
  <2> QED BY <1>3, <1>12, <2>1, Receivers DEF DtndTaskCloses, mainVars, loraVars
<1>13. ASSUME NEW a \in Actor, ActorReturns(a) PROVE CloseInv'
  <2>1. a \in Receiver /\ Got(a, Close("All")) /\ Leave(a) /\ UNCHANGED mainVars
    BY <1>13, Receivers DEF ActorReturns
  <2>2. "All" \in asked
    BY <2>1, GotWaits DEF CloseInv
  <2>3. /\ listening' = listening \ {a} /\ UNCHANGED <<missed, booted, exited, asked, radio>>
        /\ \A q \in Receiver : q # a => inbox'[q] = inbox[q]
    BY <1>0, <2>1 DEF Leave, mainVars, runVars, loraVars
  <2>4. ASSUME NEW q \in listening' \cap Actor PROVE q \in listening /\ inbox'[q] = inbox[q]
    BY <2>3, <2>4, Receivers
  <2> QED BY <1>1, <2>2, <2>3, <2>4 DEF CloseInv, CloseIsKept, Holds
<1>14. CASE EclaCloses \/ RoutingCloses
  <2>1. PICK r \in Task : Leave(r) /\ UNCHANGED mainVars
    BY <1>14, Receivers DEF EclaCloses, RoutingCloses
  <2>2. r \in Receiver /\ r \notin Actor
    BY Receivers DEF Actor, Task
  <2>3. News(inbox', {})
    BY <2>1, <2>2, LeavingIsNoNews
  <2>4. \A a \in Actor : inbox'[a] = inbox[a]
    BY <1>0, <2>1, <2>2, Receivers DEF Leave
  <2>5. listening' \cap Actor = listening \cap Actor
    BY <2>1, <2>2 DEF Leave
  <2> QED BY <1>2, <2>1, <2>3, <2>4, <2>5 DEF Kept, Leave, mainVars, runVars, loraVars
<1>15. CASE DtndSpawned \/ EclaSubscribes \/ RoutingSubscribes
  <2>1. PICK r \in Task : Subscribe(r) /\ UNCHANGED mainVars
    BY <1>15, Receivers DEF DtndSpawned, EclaSubscribes, RoutingSubscribes
  <2>2. r \notin Actor
    BY DEF Actor, Task
  <2>3. listening' \cap Actor = listening \cap Actor /\ inbox' = inbox
    BY <2>1, <2>2 DEF Subscribe
  <2> QED BY <1>0, <1>2, <2>1, <2>3 DEF Subscribe, mainVars, runVars, loraVars
<1>16. CASE Announce
  BY <1>4, <1>16, Different DEF Announce, attendance, mainVars, runVars, loraVars
<1>17. CASE ForwardReply
  <2>1. Ev("Registered") # Close("All")
    BY DEF Ev, Close
  <2> QED BY <1>4, <1>17, <2>1 DEF ForwardReply, attendance, mainVars, runVars, loraVars
<1>18. ASSUME NEW target \in Closable, Request(target) PROVE CloseInv'
  <2>1. /\ inbox' = Post(inbox, Close(target)) /\ asked' = asked \cup {target}
        /\ missed' = (missed \/ (target = "All" /\ ~booted))
        /\ UNCHANGED <<listening, booted, exited, radio>>
    BY <1>18 DEF Request, loraVars
  <2>2. CASE target # "All"
    <3>1. Close(target) # Close("All")
      BY <2>2 DEF Close
    <3> QED BY <1>4, <2>1, <2>2, <3>1
  <2>3. CASE target = "All"
    <3>1. ASSUME NEW a \in listening \cap Actor PROVE Holds(inbox'[a], Close("All"))
      <4>1. Close("All") \in Relevant[a]
        BY DEF Relevant, Actor, Receiver, Task
      <4>2. a \in Receiver /\ inbox[a] \in Seq(Message)
        BY <1>0
      <4>3. inbox'[a] = Append(inbox[a], Close("All"))
        BY <2>1, <2>3, <4>1, <4>2 DEF Post
      <4> QED BY <4>2, <4>3, AppendHolds
    <3> QED BY <2>1, <2>3, <3>1 DEF CloseInv, CloseIsKept, Holds
  <2> QED BY <2>2, <2>3
<1>19. CASE Exit
  <2>1. "All" \in asked
    <3>1. "emu" \in Actor \ {"supervisor"} /\ listening \cap Actor = {}
      BY <1>19 DEF Exit, Actor
    <3>2. ~exited
      BY <1>19 DEF Exit
    <3> QED BY <3>1, <3>2 DEF CloseInv
  <2>2. booted /\ Dropped
    BY <1>19 DEF Exit
  <2>3. \A a \in Actor : ~Holds(inbox'[a], Close("All"))
    BY <2>2, Receivers, EmptyBacklog DEF Dropped
  <2> QED BY <2>1, <2>2, <2>3 DEF Dropped, CloseInv, CloseIsKept
<1>20. ASSUME NEW r \in Receiver, Lag(r) PROVE CloseInv'
  <2>1. /\ inbox[r] # <<>> /\ inbox' = Read(r) /\ missed'
        /\ UNCHANGED <<listening, booted, exited, asked, radio>>
    BY <1>20 DEF Lag, loraVars
  <2>2. News(inbox', {})
    BY <2>1, ReadingIsNoNews
  <2>3. \A a \in Actor : Holds(inbox'[a], Close("All")) => Holds(inbox[a], Close("All"))
    BY <2>2, Receivers DEF News
  <2> QED BY <1>1, <2>1, <2>3 DEF CloseInv, CloseIsKept
<1>21. CASE UNCHANGED <<bus, mainVars>>
  BY <1>0, <1>2, <1>21 DEF bus, attendance, mainVars, runVars, loraVars
<1>22. CASE UNCHANGED <<bus, booted, exited, asked, radio>>
  BY <1>0, <1>2, <1>22 DEF bus, attendance
<1>23. CASE RadioRead
  <2>1. radio' = "failed" <=> radio = "failed"
    BY <1>23 DEF RadioRead, StartRadio, EmuLearns, EmuCommits
  <2> QED BY <1>3, <1>23, <2>1, RadioReads, Receivers, Different
<1>24. CASE RadioWork
  <2>1. radio' = "failed" <=> radio = "failed"
    BY <1>24 DEF RadioWork, RadioOpens, PutEnds, SerialReadYields, SerialReads
  <2> QED BY <1>0, <1>2, <1>24, <2>1, RadioWorks DEF bus, attendance, runVars
<1>25. CASE RadioFails
  <2>1. Dropped /\ radio' = "failed"
    BY <1>25 DEF RadioFails
  <2>2. \A a \in Actor : ~Holds(inbox'[a], Close("All"))
    BY <2>1, Receivers, EmptyBacklog DEF Dropped
  <2> QED BY <2>1, <2>2 DEF Dropped, CloseInv, CloseIsKept
<1> QED
  BY <1>5, <1>6, <1>7, <1>8, <1>9, <1>10, <1>11, <1>12, <1>13, <1>14, <1>15, <1>16,
     <1>17, <1>18, <1>19, <1>20, <1>21, <1>22, <1>23, <1>24, <1>25
  DEF Next, RadioRead, RadioWork, ActorStep, DtndTask, EclaClient, Routing, Ticker, DtndNotSpawned,
      EclaFinishes, Registered, RoutingFinishes, TaskWakes, TaskReturns, vars, mainVars,
      loraVars, runVars

\* For any close requests and losses: a request to close everything is found
\* by every actor that is left, unless it was missed, and main does not return
\* unasked: only the radio's failure ends the process without a request.
THEOREM CloseRequestIsKept == Spec => []CloseIsKept
<1>1. CloseInv => CloseIsKept
  BY DEF CloseInv
<1> QED BY <1>1, InitType, InitClose, TypeStep, CloseStep, PTL DEF Spec

---------------------------------------------------------------------------
(* What the shutdown's liveness rests on.                                  *)

Fit(box) == \A r \in Receiver : box[r] \in Seq(Relevant[r])
FitInv == Fit(inbox)

LEMMA TailFits == ASSUME NEW S, NEW s \in Seq(S), s # <<>> PROVE Tail(s) \in Seq(S)
OBVIOUS

LEMMA PostingFits ==
    ASSUME NEW box \in [Receiver -> Seq(Message)], Fit(box), NEW e
    PROVE  Fit(Post(box, e)) /\ Post(box, e) \in [Receiver -> Seq(Message)]
<1>1. ASSUME NEW r \in Receiver PROVE Post(box, e)[r] \in Seq(Relevant[r])
  <2>1. box[r] \in Seq(Relevant[r])
    BY DEF Fit
  <2>2. e \in Relevant[r] => Append(box[r], e) \in Seq(Relevant[r])
    BY <2>1
  <2> QED BY <2>1, <2>2 DEF Post
<1> QED BY <1>1, Posting DEF Fit

LEMMA ReadingFits ==
    ASSUME TypeOK, Fit(inbox), NEW r \in Receiver, inbox[r] # <<>>
    PROVE  Fit(Read(r)) /\ Read(r) \in [Receiver -> Seq(Message)]
<1>1. inbox[r] \in Seq(Relevant[r])
  BY DEF Fit
<1>2. Tail(inbox[r]) \in Seq(Relevant[r])
  BY <1>1, TailFits
<1> QED BY <1>2, Reading DEF Fit

LEMMA InitFit == Init => FitInv
BY DEF Init, FitInv, Fit

LEMMA FitStep == TypeOK /\ FitInv /\ [Next]_vars => FitInv'
<1> SUFFICES ASSUME TypeOK, Fit(inbox), [Next]_vars PROVE Fit(inbox')
  BY DEF FitInv
<1>0. inbox \in [Receiver -> Seq(Message)]
  BY DEF TypeOK, Message
<1>1. ASSUME NEW r \in Receiver, NEW e, Got(r, e)
      PROVE  /\ Fit(Read(r)) /\ \A f : Fit(Post(Read(r), f))
             /\ \A f, g : Fit(Post(Post(Read(r), f), g))
  <2>1. Fit(Read(r)) /\ Read(r) \in [Receiver -> Seq(Message)]
    BY <1>1, ReadingFits DEF Got
  <2>2. ASSUME NEW f
        PROVE  Fit(Post(Read(r), f)) /\ Post(Read(r), f) \in [Receiver -> Seq(Message)]
    BY <2>1, PostingFits
  <2> QED BY <2>1, <2>2, PostingFits
<1>2. ASSUME NEW r \in Receiver, Leave(r) PROVE Fit(inbox')
  <2>1. \A q \in Receiver : inbox'[q] = <<>> \/ inbox'[q] = inbox[q]
    BY <1>0, <1>2 DEF Leave
  <2>2. ASSUME NEW q \in Receiver PROVE inbox'[q] \in Seq(Relevant[q])
    <3>1. inbox[q] \in Seq(Relevant[q]) /\ <<>> \in Seq(Relevant[q])
      BY DEF Fit
    <3> QED BY <2>1, <3>1
  <2> QED BY <2>2 DEF Fit
<1>3. CASE Announce \/ ForwardReply
  BY <1>0, <1>3, PostingFits DEF Announce, ForwardReply
<1>11. CASE Boot
  BY <1>0, <1>11, PostingFits DEF Boot
<1>12. CASE RadioRead
  BY <1>1, <1>12, RadioReads, Receivers
<1>4. CASE DtndIsStarted \/ AssumeDtnd
  BY <1>1, <1>4, Receivers DEF DtndIsStarted, AssumeDtnd
<1>5. CASE StartDtnd \/ StartEcla \/ Publish \/ StartRouting \/ DtndTaskCloses
  BY <1>1, <1>5, Receivers
  DEF StartDtnd, StartEcla, Publish, StartRouting, DtndTaskCloses
<1>6. CASE (\E a \in Actor : ActorReturns(a)) \/ EclaCloses \/ RoutingCloses
  BY <1>2, <1>6, Receivers DEF ActorReturns, EclaCloses, RoutingCloses
<1>7. ASSUME NEW target \in Closable, Request(target) PROVE Fit(inbox')
  BY <1>0, <1>7, PostingFits DEF Request
<1>8. CASE Exit \/ RadioFails
  <2>1. \A r \in Receiver : inbox'[r] = <<>>
    BY <1>8 DEF Exit, RadioFails, Dropped
  <2>2. ASSUME NEW r \in Receiver PROVE inbox'[r] \in Seq(Relevant[r])
    <3>1. <<>> \in Seq(Relevant[r])
      OBVIOUS
    <3> QED BY <2>1, <3>1
  <2> QED BY <2>2 DEF Fit
<1>9. ASSUME NEW r \in Receiver, Lag(r) PROVE Fit(inbox')
  BY <1>9, ReadingFits DEF Lag
<1>10. CASE UNCHANGED inbox
  BY <1>10
<1> QED
  BY <1>3, <1>4, <1>5, <1>6, <1>7, <1>8, <1>9, <1>10, <1>11, <1>12
  DEF RadioRead, RadioOpens, PutEnds, SerialReadYields, SerialReads, Next, ActorStep,
      DtndTask, EclaClient, Routing, Ticker, TaskWakes, TaskReturns,
      DtndSpawned, DtndNotSpawned, EclaSubscribes, EclaFinishes, Registered,
      RoutingSubscribes, RoutingFinishes, Subscribe, vars, bus

\* The events an actor's match takes whatever state the rest is in.
Handles(a, e) ==
    \/ e = Close("All")
    \/ a = "supervisor" /\ e = Ev("DTNDStarted")
    \/ a = "dtnd" /\ e = Ev("DTNDStart")
    \/ a = "ecla" /\ e \in {Ev("ECLAStart"), Ev("Registered")}
    \/ a = "strategy" /\ e = Ev("StrategyStart")
    \/ a = "lora" /\ e = Ev("LoRaStart")
    \/ a = "emu" /\ e \in {Ev("LoRaStart"), Ev("ECLAStart"), Ev("StrategyStart")}

LEMMA ActorsHandle ==
    ASSUME NEW a \in Actor, NEW e \in Relevant[a]
    PROVE  Handles(a, e)
<1>1. a \in Receiver
  BY Receivers
<1>2. CASE a = "emu"
  <2>1. e \in {Ev("LoRaStart"), Ev("ECLAStart"), Ev("StrategyStart"), Close("All")}
    BY <1>1, <1>2 DEF Relevant
  <2> QED BY <1>2, <2>1 DEF Handles
<1>3. CASE a # "emu"
  BY <1>1, <1>3 DEF Handles, Relevant, Actor
<1> QED BY <1>2, <1>3

ShutdownGoesOn ==
    "All" \in asked /\ ~missed /\ ~exited =>
        /\ booted
        /\ \A a \in listening \cap Actor :
              (\E e : Got(a, e) /\ Handles(a, e)) \/ (a = "emu" /\ putting)

\* For any close requests and losses: once a request that nobody missed was
\* made, the next event of every actor that is left is one it handles; with no
\* actor left, main can return.  Nobody waits for anybody else, but the
\* emulator's actor for the answer to a PUT (emu_actor.rs:60).
THEOREM NothingHoldsUpTheShutdown == Spec => []ShutdownGoesOn
<1>1. TypeOK /\ CloseInv /\ FitInv => ShutdownGoesOn
  <2> SUFFICES ASSUME TypeOK, CloseInv, Fit(inbox), "All" \in asked, ~missed, ~exited
               PROVE  /\ booted
                      /\ \A a \in listening \cap Actor :
                            (\E e : Got(a, e) /\ Handles(a, e)) \/ (a = "emu" /\ putting)
    BY DEF ShutdownGoesOn, FitInv
  <2>1. booted
    BY DEF CloseInv
  <2>2. ASSUME NEW a \in listening \cap Actor, ~(a = "emu" /\ putting)
        PROVE  \E e : Got(a, e) /\ Handles(a, e)
    <3>1. a \in Receiver /\ inbox[a] \in Seq(Relevant[a])
      BY Receivers DEF Fit
    <3>2. inbox[a] # <<>>
      <4>1. \E i \in DOMAIN inbox[a] : inbox[a][i] = Close("All")
        BY DEF CloseInv, CloseIsKept
      <4> QED BY <4>1
    <3>3. Head(inbox[a]) \in Relevant[a]
      BY <3>1, <3>2
    <3>4. Handles(a, Head(inbox[a]))
      BY <3>1, <3>3, ActorsHandle
    <3> QED BY <2>2, <3>2, <3>4 DEF Got, Awake
  <2> QED BY <2>1, <2>2
<1> QED
  BY <1>1, InitType, InitClose, InitFit, TypeStep, CloseStep, FitStep, PTL DEF Spec

\* The request to close everything is the i-th event of an actor's backlog.
At(box, a, i) == i \in DOMAIN box[a] /\ box[a][i] = Close("All")

LEMMA PostingMovesNothing ==
    ASSUME NEW box \in [Receiver -> Seq(Message)], NEW a \in Actor, NEW i,
           At(box, a, i), NEW e
    PROVE  At(Post(box, e), a, i)
<1>1. a \in Receiver /\ box[a] \in Seq(Message)
  BY Receivers
<1>2. /\ DOMAIN box[a] = 1 .. Len(box[a]) /\ Len(box[a]) \in Nat
      /\ DOMAIN Append(box[a], e) = 1 .. (Len(box[a]) + 1)
      /\ \A j \in 1 .. Len(box[a]) : Append(box[a], e)[j] = box[a][j]
  BY <1>1
<1>3. Post(box, e)[a] = box[a] \/ Post(box, e)[a] = Append(box[a], e)
  BY <1>1, Posting
<1> QED BY <1>2, <1>3 DEF At

LEMMA ReadingMoves ==
    ASSUME TypeOK, NEW r \in Receiver, NEW e, Got(r, e), NEW a \in Actor, NEW i,
           At(inbox, a, i)
    PROVE  /\ r # a => At(Read(r), a, i)
           /\ r = a /\ e # Close("All") => At(Read(r), a, i - 1)
<1>1. inbox[r] \in Seq(Message) /\ inbox[r] # <<>> /\ Head(inbox[r]) = e /\ a \in Receiver
  BY Receivers DEF TypeOK, Message, Got
<1>2. /\ Len(inbox[r]) \in Nat \ {0} /\ Head(inbox[r]) = inbox[r][1]
      /\ DOMAIN inbox[r] = 1 .. Len(inbox[r])
      /\ DOMAIN Tail(inbox[r]) = 1 .. Len(inbox[r]) - 1
      /\ \A j \in 1 .. Len(inbox[r]) - 1 : Tail(inbox[r])[j] = inbox[r][j + 1]
  BY <1>1
<1>3. Read(r)[r] = Tail(inbox[r]) /\ \A q \in Receiver : q # r => Read(r)[q] = inbox[q]
  BY <1>1, Reading
<1>4. ASSUME r = a, e # Close("All") PROVE At(Read(r), a, i - 1)
  <2>1. i \in 1 .. Len(inbox[r]) /\ i # 1 /\ inbox[r][i] = Close("All")
    BY <1>1, <1>2, <1>4 DEF At
  <2>2. i - 1 \in 1 .. Len(inbox[r]) - 1 /\ (i - 1) + 1 = i
    BY <1>2, <2>1
  <2> QED BY <1>2, <1>3, <1>4, <2>1, <2>2 DEF At
<1> QED BY <1>1, <1>3, <1>4 DEF At

Nearer(a, i) == a \notin listening' \/ At(inbox', a, i - 1)

LEMMA ActorsComeNearer ==
    ASSUME TypeOK, NEW a \in Actor, ActorStep(a), a = "supervisor" => ~Boot,
           NEW i, At(inbox, a, i)
    PROVE  Nearer(a, i)
<1>1. ASSUME NEW e, Got(a, e), e # Close("All")
      PROVE  /\ At(Read(a), a, i - 1) /\ \A f : At(Post(Read(a), f), a, i - 1)
             /\ \A f, g : At(Post(Post(Read(a), f), g), a, i - 1)
  <2>1. a \in Receiver /\ inbox[a] # <<>>
    BY <1>1, Receivers DEF Got
  <2>2. At(Read(a), a, i - 1) /\ Read(a) \in [Receiver -> Seq(Message)]
    BY <1>1, <2>1, ReadingMoves, Reading
  <2>3. ASSUME NEW f
        PROVE  /\ At(Post(Read(a), f), a, i - 1)
               /\ Post(Read(a), f) \in [Receiver -> Seq(Message)]
    BY <2>2, PostingMovesNothing, Posting
  <2> QED BY <2>2, <2>3, PostingMovesNothing
<1>2. CASE a = "supervisor" /\ DtndIsStarted
  BY <1>1, <1>2, Different DEF DtndIsStarted, Nearer
<1>3. CASE a = "dtnd" /\ (AssumeDtnd \/ StartDtnd)
  BY <1>1, <1>3, Different DEF AssumeDtnd, StartDtnd, Nearer
<1>4. CASE a = "ecla" /\ (StartEcla \/ Publish)
  <2>1. Ev("Registered") # Close("All")
    BY DEF Ev, Close
  <2> QED BY <1>1, <1>4, <2>1, Different DEF StartEcla, Publish, Nearer
<1>5. CASE a = "strategy" /\ StartRouting
  BY <1>1, <1>5, Different DEF StartRouting, Nearer
<1>7. CASE a = "lora" /\ StartRadio
  BY <1>1, <1>7, Different DEF StartRadio, Nearer
<1>8. CASE a = "emu" /\ (EmuLearns \/ EmuCommits)
  BY <1>1, <1>8, Different DEF EmuLearns, EmuCommits, Nearer
<1>6. CASE ActorReturns(a)
  BY <1>6 DEF ActorReturns, Leave, Nearer
<1> QED BY <1>2, <1>3, <1>4, <1>5, <1>6, <1>7, <1>8 DEF ActorStep

LEMMA NobodyFallsBack ==
    ASSUME TypeOK, [Next]_vars, NEW a \in Actor, NEW i, At(inbox, a, i)
    PROVE  Nearer(a, i) \/ At(inbox', a, i) \/ missed'
<1>0. inbox \in [Receiver -> Seq(Message)] /\ a \in Receiver
  BY Receivers DEF TypeOK, Message
\* Somebody else reads an event, and posts others.
<1>1. ASSUME NEW r \in Receiver, r # a, NEW e, Got(r, e)
      PROVE  /\ At(Read(r), a, i) /\ \A f : At(Post(Read(r), f), a, i)
             /\ \A f, g : At(Post(Post(Read(r), f), g), a, i)
  <2>1. At(Read(r), a, i) /\ Read(r) \in [Receiver -> Seq(Message)]
    BY <1>1, ReadingMoves, Reading DEF Got
  <2>2. ASSUME NEW f
        PROVE  /\ At(Post(Read(r), f), a, i)
               /\ Post(Read(r), f) \in [Receiver -> Seq(Message)]
    BY <2>1, PostingMovesNothing, Posting
  <2> QED BY <2>1, <2>2, PostingMovesNothing
<1>2. ASSUME NEW r \in Receiver, r # a, Leave(r) PROVE At(inbox', a, i)
  <2>1. inbox'[a] = inbox[a]
    BY <1>0, <1>2 DEF Leave
  <2> QED BY <2>1 DEF At
<1>3. CASE Announce \/ ForwardReply
  BY <1>0, <1>3, PostingMovesNothing DEF Announce, ForwardReply
<1>10. CASE Boot
  <2>1. PICK box \in [Receiver -> Seq(Message)] :
            box = Post(inbox, Ev("LoRaStart")) /\ inbox' = Post(box, Ev("DTNDStart"))
    BY <1>10, BootPosts
  <2>2. At(box, a, i)
    BY <1>0, <2>1, PostingMovesNothing
  <2> QED BY <2>1, <2>2, PostingMovesNothing
<1>4. ASSUME NEW b \in Actor, ActorStep(b), ~Boot PROVE Nearer(a, i) \/ At(inbox', a, i)
  <2>1. CASE b = a
    BY <1>4, <2>1, ActorsComeNearer
  <2>2. CASE b # a
    <3>1. b \in Receiver
      BY Receivers
    <3> QED
      BY <1>1, <1>2, <1>4, <2>2, <3>1
      DEF ActorStep, DtndIsStarted, AssumeDtnd, StartDtnd, StartEcla, Publish,
          StartRouting, StartRadio, EmuLearns, EmuCommits, ActorReturns
  <2> QED BY <2>1, <2>2
<1>5. CASE DtndTaskCloses \/ EclaCloses \/ RoutingCloses
  <2>1. "dtnd task" # a /\ "ecla client" # a /\ "routing" # a
    BY DEF Actor
  <2> QED BY <1>1, <1>2, <1>5, <2>1, Receivers DEF DtndTaskCloses, EclaCloses, RoutingCloses
<1>6. ASSUME NEW target \in Closable, Request(target) PROVE At(inbox', a, i)
  BY <1>0, <1>6, PostingMovesNothing DEF Request
<1>7. CASE Exit \/ RadioFails
  BY <1>7 DEF Exit, RadioFails, Dropped, Nearer
<1>8. ASSUME NEW r \in Receiver, Lag(r) PROVE missed'
  BY <1>8 DEF Lag
<1>9. CASE UNCHANGED inbox
  BY <1>9
<1> QED
  BY <1>3, <1>4, <1>5, <1>6, <1>7, <1>8, <1>9, <1>10
  DEF RadioOpens, PutEnds, SerialReadYields, SerialReads, Next, DtndTask, EclaClient,
      Routing, Ticker, TaskWakes, TaskReturns,
      DtndSpawned, DtndNotSpawned, EclaSubscribes, EclaFinishes, Registered,
      RoutingSubscribes, RoutingFinishes, Subscribe, vars, bus

CloseComesNearer ==
    \A a \in Actor : \A i : At(inbox, a, i) =>
        /\ Nearer(a, i) \/ At(inbox', a, i) \/ missed'
        /\ ActorStep(a) /\ (a = "supervisor" => booted) => Nearer(a, i)

\* For any close requests: no traffic puts off a request to close everything;
\* each step of the actor brings it one event nearer or is its return, and
\* nothing else moves it, but for a loss.
THEOREM EveryStepBringsTheCloseNearer == Spec => [][CloseComesNearer]_vars
<1>1. booted => ~Boot
  BY DEF Boot
<1>2. TypeOK /\ [Next]_vars => CloseComesNearer
  BY <1>1, ActorsComeNearer, NobodyFallsBack DEF CloseComesNearer
<1> QED BY <1>2, InitType, TypeStep, PTL DEF Spec

---------------------------------------------------------------------------
(* What the boot's liveness rests on.                                      *)

StartAsked == Holds(inbox["dtnd"], Ev("DTNDStart"))
Announced == Holds(inbox["supervisor"], Ev("DTNDStarted"))
EclaAsked == Holds(inbox["ecla"], Ev("ECLAStart"))
RoutingAsked == Holds(inbox["strategy"], Ev("StrategyStart"))

\* How far the start of the ECLA client has come.
Stands(s) ==
    \/ s = "unasked" /\ ~booted
    \/ s = "asked" /\ StartAsked
    \/ s = "spawning" /\ dtnd = "spawning"
    \/ s = "timer" /\ timer
    \/ s = "announced" /\ Announced
    \/ s = "ecla asked" /\ EclaAsked
    \/ s = "ecla" /\ ecla # "off"

\* The one request is in one place, so the client is asked for once and reads
\* no start request itself.
TokenInv ==
    /\ \A s, t : Stands(s) /\ Stands(t) => s = t
    /\ Once(inbox["dtnd"], Ev("DTNDStart"))
    /\ Once(inbox["supervisor"], Ev("DTNDStarted"))
    /\ Once(inbox["ecla"], Ev("ECLAStart"))
    /\ "ecla client" \in listening => ecla = "serving"
    /\ ~Holds(inbox["ecla client"], Ev("ECLAStart"))

LEMMA InitToken == Init => TokenInv
<1> SUFFICES ASSUME Init PROVE TokenInv
  OBVIOUS
<1>1. /\ inbox["supervisor"] = <<>> /\ inbox["dtnd"] = <<>>
      /\ inbox["ecla"] = <<>> /\ inbox["ecla client"] = <<>>
  BY Receivers DEF Init, Receiver
<1>2. \A s : Stands(s) => s = "unasked"
  BY <1>1, EmptyBacklog DEF Init, Stands, StartAsked, Announced, EclaAsked
<1>3. "ecla client" \notin listening
  BY DEF Init, Actor
<1> QED BY <1>1, <1>2, <1>3, EmptyBacklog DEF TokenInv

\* What a step adds to one of the backlogs that matter.
LEMMA PostedOnce ==
    ASSUME NEW box \in [Receiver -> Seq(Message)], NEW r \in Receiver, NEW e,
           Once(box[r], e), ~Holds(box[r], e)
    PROVE  Once(Post(box, e)[r], e)
<1>1. box[r] \in Seq(Message)
  OBVIOUS
<1>2. Once(Append(box[r], e), e)
  BY <1>1, AppendToBacklog
<1> QED BY <1>2, Posting

\* Only what is subscribed gets the event, and it does.
LEMMA PostedTo ==
    ASSUME NEW box \in [Receiver -> Seq(Message)], NEW r \in Receiver, NEW e
    PROVE  /\ r \notin listening => Post(box, e)[r] = box[r]
           /\ r \in listening /\ e \in Relevant[r] => Holds(Post(box, e)[r], e)
           /\ \A f : Holds(box[r], f) => Holds(Post(box, e)[r], f)
<1>1. box[r] \in Seq(Message)
  OBVIOUS
<1>2. Holds(Append(box[r], e), e) /\ \A f : Holds(box[r], f) => Holds(Append(box[r], e), f)
  BY <1>1, AppendHolds
<1>3. /\ r \in listening /\ e \in Relevant[r] => Post(box, e)[r] = Append(box[r], e)
      /\ ~(r \in listening /\ e \in Relevant[r]) => Post(box, e)[r] = box[r]
  BY DEF Post
<1> QED BY <1>2, <1>3

LEMMA PostedOther ==
    ASSUME NEW box \in [Receiver -> Seq(Message)], NEW r \in Receiver, NEW e, NEW f, f # e
    PROVE  /\ Holds(Post(box, e)[r], f) => Holds(box[r], f)
           /\ Once(box[r], f) => Once(Post(box, e)[r], f)
<1>1. box[r] \in Seq(Message)
  OBVIOUS
<1>2. /\ Holds(Append(box[r], e), f) => Holds(box[r], f)
      /\ Once(box[r], f) => Once(Append(box[r], e), f)
  BY <1>1, AppendToBacklog
<1> QED BY <1>2, Posting

LEMMA TokenStep == TypeOK /\ TokenInv /\ [Next]_vars => TokenInv'
<1> SUFFICES ASSUME TypeOK, TokenInv, [Next]_vars PROVE TokenInv'
  OBVIOUS
<1> DEFINE Tokens == {Ev("DTNDStart"), Ev("DTNDStarted"), Ev("ECLAStart")}
<1>0. inbox \in [Receiver -> Seq(Message)] /\ News(inbox, {})
  BY DEF TypeOK, Message, News
<1>r. /\ "supervisor" \in Receiver /\ "dtnd" \in Receiver /\ "ecla" \in Receiver
      /\ "strategy" \in Receiver /\ "ecla client" \in Receiver
  BY Receivers
<1>u. \A s, t : Stands(s) /\ Stands(t) => s = t
  BY DEF TokenInv
\* A step that leaves the request where it is.
<1>1. ASSUME NEW E, News(inbox', E), E \cap Tokens = {},
             timer' => timer, dtnd' = "spawning" => dtnd = "spawning",
             booted => booted', ecla' # "off" => ecla # "off",
             "ecla client" \in listening' => ecla' = "serving"
      PROVE  TokenInv'
  <2>1. \A r \in Receiver : \A f \in Tokens :
            /\ Holds(inbox'[r], f) => Holds(inbox[r], f)
            /\ Once(inbox[r], f) => Once(inbox'[r], f)
    BY <1>1 DEF News
  <2>2. \A s : Stands(s)' => Stands(s)
    BY <1>1, <1>r, <2>1 DEF Stands, StartAsked, Announced, EclaAsked
  <2> QED BY <1>1, <1>r, <1>u, <2>1, <2>2 DEF TokenInv
\* A step that takes it from s to t.
<1>2. ASSUME NEW s, NEW t, Stands(s),
             \A u : Stands(u)' => u = t \/ (Stands(u) /\ u # s)
      PROVE  \A u, v : Stands(u)' /\ Stands(v)' => u = v
  BY <1>2, <1>u
<1>3. ASSUME NEW r \in Receiver, NEW e, Got(r, e)
      PROVE  /\ News(Read(r), {}) /\ Read(r) \in [Receiver -> Seq(Message)]
             /\ Holds(inbox[r], e)
             /\ Once(inbox[r], e) => ~Holds(Read(r)[r], e)
  BY <1>3, ReadingIsNoNews, Reading, GotWaits DEF Got
<1>4. CASE Boot
  <2>1. /\ ~booted /\ booted' /\ listening' = listening \cup {"supervisor"}
        /\ UNCHANGED <<dtnd, timer, ecla>>
    BY <1>4 DEF Boot, dtndVars, eclaVars
  <2>0. PICK box \in [Receiver -> Seq(Message)] :
            /\ inbox' = Post(box, Ev("DTNDStart"))
            /\ \A r \in Receiver \ {"lora", "emu"} : box[r] = inbox[r]
    BY <1>4, BootPosts
  <2>9. \A r \in {"supervisor", "dtnd", "ecla", "strategy", "ecla client"} : box[r] = inbox[r]
    BY <1>r, <2>0
  <2>2. Stands("unasked") /\ ~StartAsked
    BY <1>u, <2>1 DEF Stands
  <2>5. ASSUME NEW r \in {"supervisor", "dtnd", "ecla", "strategy", "ecla client"},
               NEW f \in Tokens \ {Ev("DTNDStart")}
        PROVE  /\ Holds(inbox'[r], f) => Holds(inbox[r], f)
               /\ Once(inbox[r], f) => Once(inbox'[r], f)
    BY <1>r, <2>0, <2>9, PostedOther
  <2>6. Once(inbox'["dtnd"], Ev("DTNDStart"))
    BY <1>r, <2>0, <2>2, <2>9, PostedOnce DEF TokenInv, StartAsked
  <2>3. /\ \A r \in {"supervisor", "dtnd", "ecla", "strategy", "ecla client"} :
            \A f \in Tokens \ {Ev("DTNDStart")} :
              /\ Holds(inbox'[r], f) => Holds(inbox[r], f)
              /\ Once(inbox[r], f) => Once(inbox'[r], f)
        /\ Once(inbox'["dtnd"], Ev("DTNDStart"))
    BY <2>5, <2>6
  <2>4. \A u : Stands(u)' => u = "asked" \/ (Stands(u) /\ u # "unasked")
    BY <1>r, <2>1, <2>3, Different DEF Stands, StartAsked, Announced, EclaAsked
  <2> QED BY <1>2, <1>r, <2>1, <2>2, <2>3, <2>4, Different DEF TokenInv
<1>5. CASE DtndIsStarted
  <2> DEFINE mid == Post(Read("supervisor"), Ev("ECLAStart"))
  <2>1. /\ Got("supervisor", Ev("DTNDStarted"))
        /\ inbox' = Post(mid, Ev("StrategyStart"))
        /\ UNCHANGED <<booted, dtnd, timer, ecla, listening>>
    BY <1>5 DEF DtndIsStarted, dtndVars, eclaVars, mainVars, runVars, attendance
  <2>2. /\ News(Read("supervisor"), {}) /\ Read("supervisor") \in [Receiver -> Seq(Message)]
        /\ Announced /\ ~Holds(Read("supervisor")["supervisor"], Ev("DTNDStarted"))
    BY <1>3, <1>r, <2>1 DEF TokenInv, Announced
  <2>3. Stands("announced") /\ ecla = "off" /\ ~EclaAsked
    BY <1>u, <2>2 DEF Stands
  <2>4. mid \in [Receiver -> Seq(Message)]
    BY <2>2, Posting
  <2>5. /\ ~Holds(mid["supervisor"], Ev("DTNDStarted"))
        /\ Once(mid["supervisor"], Ev("DTNDStarted"))
        /\ Holds(mid["dtnd"], Ev("DTNDStart")) => StartAsked
        /\ Once(mid["dtnd"], Ev("DTNDStart"))
    BY <1>r, <2>2, PostedOther, Different DEF TokenInv, News, StartAsked
  <2>6. Once(mid["ecla"], Ev("ECLAStart"))
    BY <1>r, <2>2, <2>3, PostedOnce DEF TokenInv, News, EclaAsked
  <2>7. ~Holds(mid["ecla client"], Ev("ECLAStart"))
    <3>1. "ecla client" \notin listening
      BY <2>3 DEF TokenInv
    <3>2. mid["ecla client"] = Read("supervisor")["ecla client"]
      BY <1>r, <2>2, <3>1, PostedTo
    <3> QED BY <1>r, <2>2, <3>2 DEF TokenInv, News
  <2> HIDE DEF mid
  <2>8. /\ ~Announced' /\ Once(inbox'["supervisor"], Ev("DTNDStarted"))
        /\ StartAsked' => StartAsked
        /\ Once(inbox'["dtnd"], Ev("DTNDStart"))
        /\ Once(inbox'["ecla"], Ev("ECLAStart"))
        /\ ~Holds(inbox'["ecla client"], Ev("ECLAStart"))
    BY <1>r, <2>1, <2>4, <2>5, <2>6, <2>7, PostedOther, Different DEF StartAsked, Announced
  <2>9. \A u : Stands(u)' => u = "ecla asked" \/ (Stands(u) /\ u # "announced")
    BY <2>1, <2>8 DEF Stands
  <2> QED BY <1>2, <2>1, <2>3, <2>8, <2>9 DEF TokenInv
<1>6. CASE AssumeDtnd
  <2>1. /\ Got("dtnd", Ev("DTNDStart"))
        /\ inbox' = Post(Read("dtnd"), Ev("DTNDStarted"))
        /\ UNCHANGED <<booted, dtnd, timer, ecla, listening>>
    BY <1>6 DEF AssumeDtnd, dtndVars, eclaVars, mainVars, runVars, attendance
  <2>2. /\ News(Read("dtnd"), {}) /\ Read("dtnd") \in [Receiver -> Seq(Message)]
        /\ StartAsked /\ ~Holds(Read("dtnd")["dtnd"], Ev("DTNDStart"))
    BY <1>3, <1>r, <2>1 DEF TokenInv, StartAsked
  <2>3. Stands("asked") /\ ~Announced
    BY <1>u, <2>2 DEF Stands
  <2>4. /\ ~StartAsked' /\ Once(inbox'["dtnd"], Ev("DTNDStart"))
        /\ EclaAsked' => EclaAsked
        /\ Once(inbox'["ecla"], Ev("ECLAStart"))
        /\ ~Holds(inbox'["ecla client"], Ev("ECLAStart"))
    BY <1>r, <2>1, <2>2, PostedOther, Different DEF TokenInv, News, StartAsked, EclaAsked
  <2>5. Once(inbox'["supervisor"], Ev("DTNDStarted"))
    BY <1>r, <2>1, <2>2, <2>3, PostedOnce DEF TokenInv, News, Announced
  <2>6. \A u : Stands(u)' => u = "announced" \/ (Stands(u) /\ u # "asked")
    BY <2>1, <2>4 DEF Stands
  <2> QED BY <1>2, <2>1, <2>3, <2>4, <2>5, <2>6 DEF TokenInv
<1>7. CASE StartDtnd
  <2>1. /\ Got("dtnd", Ev("DTNDStart")) /\ inbox' = Read("dtnd")
        /\ UNCHANGED <<booted, timer, ecla, listening>>
    BY <1>7 DEF StartDtnd, eclaVars, mainVars, runVars, attendance
  <2>2. /\ News(inbox', {}) /\ StartAsked /\ ~StartAsked'
    BY <1>3, <1>r, <2>1 DEF TokenInv, StartAsked
  <2>3. Stands("asked") /\ \A u : Stands(u)' => u = "spawning" \/ (Stands(u) /\ u # "asked")
    BY <1>r, <2>1, <2>2 DEF Stands, News, Announced, EclaAsked
  <2> QED BY <1>2, <1>r, <2>1, <2>2, <2>3 DEF TokenInv, News
<1>8. CASE DtndSpawned
  <2>1. /\ dtnd = "spawning" /\ dtnd' = "up"
        /\ listening' = listening \cup {"dtnd task"}
        /\ UNCHANGED <<inbox, booted, ecla>>
    BY <1>8 DEF DtndSpawned, Subscribe, eclaVars, mainVars, runVars
  <2>2. Stands("spawning") /\ \A u : Stands(u)' => u = "timer" \/ (Stands(u) /\ u # "spawning")
    BY <2>1 DEF Stands, StartAsked, Announced, EclaAsked
  <2> QED BY <1>2, <2>1, <2>2 DEF TokenInv
<1>9. CASE Announce
  <2>1. /\ timer /\ ~timer' /\ inbox' = Post(inbox, Ev("DTNDStarted"))
        /\ UNCHANGED <<booted, dtnd, ecla, listening>>
    BY <1>9 DEF Announce, eclaVars, mainVars, runVars, attendance
  <2>2. Stands("timer") /\ ~Announced
    BY <1>u, <2>1 DEF Stands
  <2>3. /\ StartAsked' => StartAsked
        /\ EclaAsked' => EclaAsked
        /\ Once(inbox'["dtnd"], Ev("DTNDStart"))
        /\ Once(inbox'["ecla"], Ev("ECLAStart"))
        /\ ~Holds(inbox'["ecla client"], Ev("ECLAStart"))
    BY <1>0, <1>r, <2>1, PostedOther, Different DEF TokenInv, StartAsked, EclaAsked
  <2>4. Once(inbox'["supervisor"], Ev("DTNDStarted"))
    BY <1>0, <1>r, <2>1, <2>2, PostedOnce DEF TokenInv, Announced
  <2>5. \A u : Stands(u)' => u = "announced" \/ (Stands(u) /\ u # "timer")
    BY <2>1, <2>3 DEF Stands
  <2> QED BY <1>2, <2>1, <2>2, <2>3, <2>4, <2>5 DEF TokenInv
<1>10. CASE StartEcla
  <2>1. /\ Got("ecla", Ev("ECLAStart")) /\ inbox' = Read("ecla")
        /\ UNCHANGED <<booted, dtnd, timer, listening>>
    BY <1>10 DEF StartEcla, dtndVars, mainVars, runVars, attendance
  <2>2. /\ News(inbox', {}) /\ EclaAsked /\ ~EclaAsked'
    BY <1>3, <1>r, <2>1 DEF TokenInv, EclaAsked
  <2>3. Stands("ecla asked") /\ "ecla client" \notin listening
    BY <1>u, <2>2 DEF Stands, TokenInv
  <2>4. \A u : Stands(u)' => u = "ecla" \/ (Stands(u) /\ u # "ecla asked")
    BY <1>r, <2>1, <2>2 DEF Stands, News, StartAsked, Announced
  <2> QED BY <1>2, <1>r, <2>1, <2>2, <2>3, <2>4 DEF TokenInv, News
<1>11. ASSUME NEW a \in Actor, ActorReturns(a) PROVE TokenInv'
  <2>1. News(inbox', {})
    BY <1>11, LeavingIsNoNews, Receivers DEF ActorReturns
  <2>2. /\ UNCHANGED <<booted, dtnd, timer, ecla>> /\ listening' \subseteq listening
    BY <1>11 DEF ActorReturns, Leave, dtndVars, eclaVars, mainVars, runVars
  <2> QED BY <1>1, <2>1, <2>2 DEF TokenInv
<1>12. CASE DtndTaskCloses \/ Publish \/ StartRouting
  <2>1. News(inbox', {})
    BY <1>12, ReadingIsNoNews, Receivers DEF DtndTaskCloses, Publish, StartRouting, Got
  <2>2. UNCHANGED <<booted, dtnd, timer, ecla, listening>>
    BY <1>12
    DEF DtndTaskCloses, Publish, StartRouting, dtndVars, eclaVars, mainVars, runVars, attendance
  <2> QED BY <1>1, <2>1, <2>2 DEF TokenInv
<1>13. CASE EclaCloses \/ RoutingCloses
  <2>1. News(inbox', {})
    BY <1>13, LeavingIsNoNews, Receivers DEF EclaCloses, RoutingCloses
  <2>2. /\ UNCHANGED <<booted, dtnd, timer>>
        /\ ecla' # "off" => ecla # "off"
        /\ "ecla client" \in listening' => ecla' = ecla /\ "ecla client" \in listening
    BY <1>13 DEF EclaCloses, RoutingCloses, Leave, dtndVars, eclaVars, mainVars, runVars
  <2> QED BY <1>1, <2>1, <2>2 DEF TokenInv
<1>14. CASE EclaSubscribes \/ EclaFinishes
  <2>1. /\ UNCHANGED <<inbox, booted, dtnd, timer>> /\ ecla # "off"
        /\ "ecla client" \in listening' => ecla' = "serving"
    BY <1>14
    DEF EclaSubscribes, EclaFinishes, Subscribe, TokenInv, bus, attendance, dtndVars,
        mainVars, runVars
  <2> QED BY <1>0, <1>1, <2>1
<1>15. CASE \/ Registered \/ RoutingSubscribes \/ RoutingFinishes \/ DtndNotSpawned
            \/ (\E t \in RoutingTask : Ticker(t)) \/ UNCHANGED vars
  <2>1. /\ UNCHANGED <<inbox, booted, timer, ecla>>
        /\ dtnd' = "spawning" => dtnd = "spawning"
        /\ "ecla client" \in listening' => "ecla client" \in listening
    BY <1>15
    DEF Registered, RoutingSubscribes, RoutingFinishes, DtndNotSpawned, Subscribe,
        Ticker, TaskWakes, TaskReturns, vars, bus, attendance, dtndVars, eclaVars, mainVars, runVars
  <2> QED BY <1>0, <1>1, <2>1 DEF TokenInv
<1>16. CASE ForwardReply
  <2>1. /\ inbox' = Post(inbox, Ev("Registered"))
        /\ UNCHANGED <<booted, dtnd, timer, ecla, listening>>
    BY <1>16 DEF ForwardReply, dtndVars, mainVars, runVars, attendance
  <2>2. News(inbox', {} \cup {Ev("Registered")})
    BY <1>0, <2>1, PostingIsNews
  <2> QED BY <1>1, <2>1, <2>2, Different DEF TokenInv
<1>17. ASSUME NEW target \in Closable, Request(target) PROVE TokenInv'
  <2>1. /\ inbox' = Post(inbox, Close(target))
        /\ UNCHANGED <<booted, dtnd, timer, ecla, listening>>
    BY <1>17 DEF Request, dtndVars, eclaVars
  <2>2. News(inbox', {} \cup {Close(target)})
    BY <1>0, <2>1, PostingIsNews
  <2> QED BY <1>1, <2>1, <2>2, Different DEF TokenInv
<1>18. CASE Exit \/ RadioFails
  <2>1. /\ booted' = booted /\ ~timer' /\ ecla' = "off" /\ listening' = {}
        /\ dtnd' # "spawning" /\ \A r \in Receiver : inbox'[r] = <<>>
    BY <1>18 DEF Exit, RadioFails, Dropped
  <2>2. /\ inbox'["supervisor"] = <<>> /\ inbox'["dtnd"] = <<>>
        /\ inbox'["ecla"] = <<>> /\ inbox'["ecla client"] = <<>>
    BY <1>r, <2>1
  <2>3. \A s : Stands(s)' => s = "unasked"
    BY <2>1, <2>2, EmptyBacklog DEF Stands, StartAsked, Announced, EclaAsked
  <2> QED BY <2>1, <2>2, <2>3, EmptyBacklog DEF TokenInv
<1>19. ASSUME NEW r \in Receiver, Lag(r) PROVE TokenInv'
  <2>1. News(inbox', {})
    BY <1>19, ReadingIsNoNews DEF Lag
  <2>2. UNCHANGED <<booted, dtnd, timer, ecla, listening>>
    BY <1>19 DEF Lag, dtndVars, eclaVars, attendance
  <2> QED BY <1>1, <2>1, <2>2 DEF TokenInv
<1>20. CASE RadioRead
  <2>1. News(inbox', {})
    BY <1>20, RadioReads, ReadingIsNoNews, Receivers DEF Got
  <2>2. UNCHANGED <<booted, dtnd, timer, ecla, listening>>
    BY <1>20, RadioReads DEF dtndVars, eclaVars, runVars, attendance
  <2> QED BY <1>1, <2>1, <2>2 DEF TokenInv
<1>21. CASE RadioWork
  <2>1. UNCHANGED <<inbox, booted, dtnd, timer, ecla, listening>>
    BY <1>21, RadioWorks DEF bus, attendance, dtndVars, eclaVars, runVars
  <2> QED BY <1>0, <1>1, <2>1 DEF TokenInv
<1> QED
  BY <1>4, <1>5, <1>6, <1>7, <1>8, <1>9, <1>10, <1>11, <1>12, <1>13, <1>14, <1>15, <1>16,
     <1>17, <1>18, <1>19, <1>20, <1>21
  DEF RadioRead, RadioWork, Next, ActorStep, DtndTask, EclaClient, Routing

\* Nothing closes before it was asked to.
AskedInv ==
    /\ \A r \in Receiver : \A t : Holds(inbox[r], Close(t)) => asked # {}
    /\ routing \in {"cancelled", "down"} => asked # {}
    /\ ecla \in {"told", "down"} => asked # {}

LEMMA InitAsked == Init => AskedInv
<1> SUFFICES ASSUME Init PROVE AskedInv
  OBVIOUS
<1>1. \A r \in Receiver : inbox[r] = <<>>
  BY DEF Init
<1> QED BY <1>1, EmptyBacklog DEF Init, AskedInv

LEMMA AskedStep == TypeOK /\ TokenInv /\ AskedInv /\ [Next]_vars => AskedInv'
<1> SUFFICES ASSUME TypeOK, TokenInv, AskedInv, [Next]_vars PROVE AskedInv'
  OBVIOUS
<1>0. inbox \in [Receiver -> Seq(Message)] /\ News(inbox, {})
  BY DEF TypeOK, Message, News
<1>1. ASSUME NEW E, News(inbox', E), \A t : Close(t) \notin E, asked' = asked,
             routing' \in {"cancelled", "down"} => asked # {},
             ecla' \in {"told", "down"} => asked # {}
      PROVE  AskedInv'
  <2>1. \A r \in Receiver : \A t : Holds(inbox'[r], Close(t)) => Holds(inbox[r], Close(t))
    BY <1>1 DEF News
  <2> QED BY <1>1, <2>1 DEF AskedInv
<1>2. ASSUME NEW r \in Receiver, NEW e, Got(r, e)
      PROVE  /\ News(Read(r), {}) /\ Read(r) \in [Receiver -> Seq(Message)]
             /\ \A f : News(Post(Read(r), f), {} \cup {f})
             /\ \A f, g : News(Post(Post(Read(r), f), g), ({} \cup {f}) \cup {g})
  <2>1. News(Read(r), {}) /\ Read(r) \in [Receiver -> Seq(Message)]
    BY <1>2, ReadingIsNoNews, Reading DEF Got
  <2>2. ASSUME NEW f
        PROVE  /\ News(Post(Read(r), f), {} \cup {f})
               /\ Post(Read(r), f) \in [Receiver -> Seq(Message)]
    BY <2>1, PostingIsNews, Posting
  <2> QED BY <2>1, <2>2, PostingIsNews
<1>14. CASE Boot
  <2>1. PICK box \in [Receiver -> Seq(Message)] :
            box = Post(inbox, Ev("LoRaStart")) /\ inbox' = Post(box, Ev("DTNDStart"))
    BY <1>14, BootPosts
  <2>2. News(inbox', ({} \cup {Ev("LoRaStart")}) \cup {Ev("DTNDStart")})
    BY <1>0, <2>1, PostingIsNews
  <2>3. UNCHANGED <<asked, routing, ecla>>
    BY <1>14 DEF Boot, eclaVars, routingVars
  <2> QED BY <1>1, <2>2, <2>3, Different DEF AskedInv
<1>3. CASE Announce \/ ForwardReply
  <2>1. PICK e \in {Ev("DTNDStarted"), Ev("Registered")} :
            inbox' = Post(inbox, e) /\ UNCHANGED <<asked, routing, ecla>>
    BY <1>3 DEF Announce, ForwardReply, eclaVars, routingVars, mainVars, runVars
  <2>2. News(inbox', {} \cup {e})
    BY <1>0, <2>1, PostingIsNews
  <2> QED BY <1>1, <2>1, <2>2, Different DEF AskedInv
<1>4. CASE DtndIsStarted
  <2>1. News(inbox', ({} \cup {Ev("ECLAStart")}) \cup {Ev("StrategyStart")})
    BY <1>2, <1>4, Receivers DEF DtndIsStarted
  <2>2. UNCHANGED <<asked, routing, ecla>>
    BY <1>4 DEF DtndIsStarted, eclaVars, routingVars, mainVars, runVars
  <2> QED BY <1>1, <2>1, <2>2, Different DEF AskedInv
<1>5. CASE AssumeDtnd
  <2>1. News(inbox', {} \cup {Ev("DTNDStarted")})
    BY <1>2, <1>5, Receivers DEF AssumeDtnd
  <2>2. UNCHANGED <<asked, routing, ecla>>
    BY <1>5 DEF AssumeDtnd, eclaVars, routingVars, mainVars, runVars
  <2> QED BY <1>1, <2>1, <2>2, Different DEF AskedInv
<1>6. CASE StartDtnd \/ StartEcla \/ Publish \/ StartRouting \/ DtndTaskCloses
  <2>1. News(inbox', {})
    BY <1>2, <1>6, Receivers DEF StartDtnd, StartEcla, Publish, StartRouting, DtndTaskCloses
  <2>2. /\ asked' = asked
        /\ ecla' = ecla \/ ecla' = "starting"
        /\ routing' = routing \/ routing' = "starting"
    BY <1>6
    DEF StartDtnd, StartEcla, Publish, StartRouting, DtndTaskCloses, eclaVars,
        routingVars, mainVars, runVars
  <2> QED BY <1>1, <2>1, <2>2 DEF AskedInv
<1>7. ASSUME NEW a \in Actor, ActorReturns(a) PROVE AskedInv'
  <2>1. News(inbox', {})
    BY <1>7, LeavingIsNoNews, Receivers DEF ActorReturns
  <2>2. UNCHANGED <<asked, routing, ecla>>
    BY <1>7 DEF ActorReturns, eclaVars, routingVars, mainVars, runVars
  <2> QED BY <1>1, <2>1, <2>2 DEF AskedInv
<1>8. CASE EclaCloses
  <2>1. PICK e \in Relevant["ecla client"] : Got("ecla client", e)
    BY <1>8 DEF EclaCloses
  <2>2. Holds(inbox["ecla client"], e)
    BY <2>1, GotWaits, Receivers
  <2>3. e # Ev("ECLAStart")
    BY <2>2 DEF TokenInv
  <2>4. e \in {Close("All"), Close("ECLA"), Close("DTND")}
    BY <2>1, <2>3, Receivers DEF Relevant
  <2>5. asked # {}
    BY <2>2, <2>4, Receivers DEF AskedInv
  <2>6. News(inbox', {}) /\ asked' = asked
    BY <1>8, LeavingIsNoNews, Receivers DEF EclaCloses, mainVars, runVars
  <2> QED BY <1>1, <2>5, <2>6
<1>9. CASE RoutingCloses
  <2>1. PICK e \in Relevant["routing"] : Got("routing", e)
    BY <1>9 DEF RoutingCloses
  <2>2. e \in {Close("All"), Close("Strategy")}
    BY <2>1, Receivers DEF Relevant
  <2>3. asked # {}
    BY <2>1, <2>2, GotWaits, Receivers DEF AskedInv
  <2>4. News(inbox', {}) /\ asked' = asked
    BY <1>9, LeavingIsNoNews, Receivers DEF RoutingCloses, mainVars, runVars
  <2> QED BY <1>1, <2>3, <2>4
<1>10. CASE \/ EclaSubscribes \/ EclaFinishes \/ Registered \/ RoutingSubscribes
            \/ RoutingFinishes \/ DtndSpawned \/ DtndNotSpawned
            \/ (\E t \in RoutingTask : Ticker(t)) \/ UNCHANGED vars
  <2>1. /\ UNCHANGED <<inbox, asked>>
        /\ routing' \in {"cancelled", "down"} => routing \in {"cancelled", "down"}
        /\ ecla' \in {"told", "down"} => ecla \in {"told", "down"}
    BY <1>10
    DEF EclaSubscribes, EclaFinishes, Registered, RoutingSubscribes, RoutingFinishes,
        DtndSpawned, DtndNotSpawned, Ticker, TaskWakes, TaskReturns, Subscribe, vars,
        bus, eclaVars, routingVars, mainVars, runVars
  <2> QED BY <1>0, <1>1, <2>1 DEF AskedInv
<1>11. ASSUME NEW target \in Closable, Request(target) PROVE AskedInv'
  BY <1>11 DEF Request, AskedInv
<1>15. CASE RadioRead
  <2>1. News(inbox', {})
    BY <1>15, RadioReads, ReadingIsNoNews, Receivers DEF Got
  <2>2. UNCHANGED <<asked, routing, ecla>>
    BY <1>15, RadioReads DEF eclaVars, routingVars, runVars
  <2> QED BY <1>1, <2>1, <2>2 DEF AskedInv
<1>16. CASE RadioWork
  <2>1. UNCHANGED <<inbox, asked, routing, ecla>>
    BY <1>16, RadioWorks DEF bus, eclaVars, routingVars, runVars
  <2> QED BY <1>0, <1>1, <2>1 DEF AskedInv
<1>12. CASE Exit \/ RadioFails
  <2>1. /\ asked' = asked /\ routing' = "off" /\ ecla' = "off"
        /\ \A r \in Receiver : inbox'[r] = <<>>
    BY <1>12 DEF Exit, RadioFails, Dropped
  <2> QED BY <2>1, EmptyBacklog DEF AskedInv
<1>13. ASSUME NEW r \in Receiver, Lag(r) PROVE AskedInv'
  <2>1. News(inbox', {})
    BY <1>13, ReadingIsNoNews DEF Lag
  <2>2. UNCHANGED <<asked, routing, ecla>>
    BY <1>13 DEF Lag, eclaVars, routingVars
  <2> QED BY <1>1, <2>1, <2>2 DEF AskedInv
<1> QED
  BY <1>3, <1>4, <1>5, <1>6, <1>7, <1>8, <1>9, <1>10, <1>11, <1>12, <1>13,
     <1>14, <1>15, <1>16
  DEF RadioRead, RadioWork, Next, ActorStep, DtndTask, EclaClient, Routing

\* Nothing but r's event e is missing in the backlogs.
KeptBut(box, r, e) ==
    \A q \in Receiver : \A f :
        Holds(inbox[q], f) /\ ~(q = r /\ f = e) => Holds(box[q], f)

LEMMA ReadingKeepsRest ==
    ASSUME TypeOK, NEW r \in Receiver, NEW e, Got(r, e)
    PROVE  KeptBut(Read(r), r, e) /\ Read(r) \in [Receiver -> Seq(Message)]
<1>1. inbox[r] \in Seq(Message) /\ inbox[r] # <<>> /\ Head(inbox[r]) = e
  BY DEF TypeOK, Message, Got
<1>2. /\ Read(r) \in [Receiver -> Seq(Message)] /\ Read(r)[r] = Tail(inbox[r])
      /\ \A q \in Receiver : q # r => Read(r)[q] = inbox[q]
  BY <1>1, Reading
<1>3. \A f : f # e /\ Holds(inbox[r], f) => Holds(Tail(inbox[r]), f)
  BY <1>1, TailKeeps
<1> QED BY <1>2, <1>3 DEF KeptBut

LEMMA PostingKeepsRest ==
    ASSUME NEW box \in [Receiver -> Seq(Message)], NEW r, NEW e, KeptBut(box, r, e), NEW f
    PROVE  KeptBut(Post(box, f), r, e)
BY PostedTo DEF KeptBut

Late == {"ecla asked", "ecla"}

\* The start requests are on their way, and so is the node's name.
BootKept ==
    asked = {} /\ ~missed /\ dtnd # "failed" /\ radio # "failed" /\ routing # "unknown" =>
        /\ \E s : Stands(s)
        /\ RoutingAsked \/ routing \notin {"unknown", "off"} \/ \E s : Stands(s) /\ s \notin Late
        /\ \/ named \/ reply \/ bounds.registered = 0
           \/ Holds(inbox["ecla"], Ev("Registered"))

LEMMA InitBootKept == Init => BootKept
<1>1. Init => Stands("unasked") /\ "unasked" \notin Late
  BY DEF Init, Stands, Late
<1>2. Init => bounds.registered = 0
  BY DEF Init
<1> QED BY <1>1, <1>2 DEF BootKept

LEMMA BootKeptStep ==
    /\ TypeOK /\ BootInv /\ CloseInv /\ TokenInv /\ AskedInv /\ BootKept
    /\ [Next]_vars
    => BootKept'
<1> SUFFICES ASSUME TypeOK, BootInv, CloseInv, TokenInv, AskedInv, BootKept, [Next]_vars,
                    asked' = {}, ~missed', dtnd' # "failed", radio' # "failed",
                    routing' # "unknown"
             PROVE  /\ \E s : Stands(s)'
                    /\ RoutingAsked' \/ routing' \notin {"unknown", "off"}
                          \/ \E s : Stands(s)' /\ s \notin Late
                    /\ \/ named' \/ reply' \/ bounds'.registered = 0
                       \/ Holds(inbox'["ecla"], Ev("Registered"))
  BY DEF BootKept
<1>0. inbox \in [Receiver -> Seq(Message)]
  BY DEF TypeOK, Message
<1>r. /\ "supervisor" \in Receiver /\ "dtnd" \in Receiver /\ "ecla" \in Receiver
      /\ "strategy" \in Receiver
  BY Receivers
<1>u. \A s, t : Stands(s) /\ Stands(t) => s = t
  BY DEF TokenInv
<1>f. ~RadioFails
  BY DEF RadioFails
<1>1. /\ asked = {} /\ ~missed /\ dtnd # "failed"
      /\ radio # "failed" /\ ~exited /\ routing # "unknown"
  <2>0. asked = {}
    BY DEF Next, ActorStep, DtndTask, EclaClient, Routing, Ticker, Boot, DtndIsStarted,
           AssumeDtnd, StartDtnd, StartEcla, Publish, StartRouting, ActorReturns,
           DtndSpawned, DtndTaskCloses, DtndNotSpawned, Announce, EclaSubscribes,
           EclaCloses, EclaFinishes, Registered, ForwardReply, RoutingSubscribes,
           RoutingCloses, RoutingFinishes, TaskWakes, TaskReturns, Exit, Dropped, Request, Lag,
           RadioOpens, RadioFails, PutEnds, SerialReadYields, StartRadio, EmuLearns,
           EmuCommits,
           vars, mainVars, runVars, loraVars
  <2>1. ~missed
    BY DEF Next, ActorStep, DtndTask, EclaClient, Routing, Ticker, Boot, DtndIsStarted,
           AssumeDtnd, StartDtnd, StartEcla, Publish, StartRouting, ActorReturns,
           DtndSpawned, DtndTaskCloses, DtndNotSpawned, Announce, EclaSubscribes,
           EclaCloses, EclaFinishes, Registered, ForwardReply, RoutingSubscribes,
           RoutingCloses, RoutingFinishes, TaskWakes, TaskReturns, Exit, Dropped, Request, Lag,
           RadioOpens, RadioFails, PutEnds, SerialReadYields, StartRadio, EmuLearns,
           EmuCommits,
           Subscribe, Leave, vars, bus, attendance
  <2>2. StartDtnd => dtnd # "failed"
    BY GotWaits, Receivers DEF StartDtnd, BootInv
  <2>3. dtnd # "failed"
    BY <1>f, <2>2
    DEF Next, ActorStep, DtndTask, EclaClient, Routing, Ticker, Boot, DtndIsStarted,
        AssumeDtnd, StartEcla, Publish, StartRouting, ActorReturns,
        DtndSpawned, DtndTaskCloses, DtndNotSpawned, Announce, EclaSubscribes,
        EclaCloses, EclaFinishes, Registered, ForwardReply, RoutingSubscribes,
        RoutingCloses, RoutingFinishes, TaskWakes, TaskReturns, Exit, Dropped, Request, Lag,
           RadioOpens, RadioFails, PutEnds, SerialReadYields, StartRadio, EmuLearns,
           EmuCommits,
        vars, dtndVars
  <2>4. radio # "failed"
    BY <1>f
    DEF CloseInv, Next, ActorStep, DtndTask, EclaClient, Routing, Ticker, Boot,
        DtndIsStarted,
        AssumeDtnd, StartDtnd, StartEcla, Publish, StartRouting, ActorReturns,
        DtndSpawned, DtndTaskCloses, DtndNotSpawned, Announce, EclaSubscribes,
        EclaCloses, EclaFinishes, Registered, ForwardReply, RoutingSubscribes,
        RoutingCloses, RoutingFinishes, TaskWakes, TaskReturns, Exit, Dropped, Request, Lag,
        RadioOpens, PutEnds, SerialReadYields, SerialReads, StartRadio, EmuLearns, EmuCommits,
        vars, mainVars, loraVars
  <2>5. ~exited
    BY <2>0, <2>4 DEF CloseInv, CloseIsKept
  <2>6. ~Exit
    BY <2>0, <2>5 DEF Exit, CloseInv, Actor
  <2>7. routing # "unknown"
    BY <1>f, <2>6
    DEF Next, ActorStep, DtndTask, EclaClient, Routing, Ticker, Boot, DtndIsStarted,
        AssumeDtnd, StartDtnd, StartEcla, Publish, StartRouting, ActorReturns,
        DtndSpawned, DtndTaskCloses, DtndNotSpawned, Announce, EclaSubscribes,
        EclaCloses, EclaFinishes, Registered, ForwardReply, RoutingSubscribes,
        RoutingCloses, RoutingFinishes, TaskWakes, TaskReturns, Request, Lag,
        RadioOpens, PutEnds, SerialReadYields, SerialReads, StartRadio, EmuLearns, EmuCommits,
        vars, routingVars
  <2> QED BY <2>0, <2>1, <2>3, <2>4, <2>5, <2>7
<1>2. /\ \E s : Stands(s)
      /\ RoutingAsked \/ routing \notin {"unknown", "off"} \/ \E s : Stands(s) /\ s \notin Late
      /\ \/ named \/ reply \/ bounds.registered = 0
         \/ Holds(inbox["ecla"], Ev("Registered"))
  BY <1>1 DEF BootKept
\* Everybody listens.
<1>3. /\ Actor \ {"supervisor"} \subseteq listening
      /\ booted => "supervisor" \in listening
  BY <1>1 DEF CloseInv
<1>4. /\ Ev("DTNDStart") \in Relevant["dtnd"]
      /\ Ev("DTNDStarted") \in Relevant["supervisor"]
      /\ Ev("ECLAStart") \in Relevant["ecla"] /\ Ev("Registered") \in Relevant["ecla"]
      /\ Ev("StrategyStart") \in Relevant["strategy"]
  BY <1>r DEF Relevant
\* A step that leaves the requests where they are.
<1>5. ASSUME NEW r \in Receiver, NEW e, KeptBut(inbox', r, e),
             r = "ecla" => e = Ev("Registered"), r \notin {"supervisor", "dtnd", "strategy"},
             UNCHANGED <<booted, timer, dtnd>>,
             ecla # "off" => ecla' # "off",
             routing \notin {"unknown", "off"} => routing' \notin {"unknown", "off"}
      PROVE  /\ \E s : Stands(s)'
             /\ RoutingAsked' \/ routing' \notin {"unknown", "off"}
                   \/ \E s : Stands(s)' /\ s \notin Late
  <2>1. \A s : Stands(s) => Stands(s)'
    BY <1>5, <1>r, Different DEF KeptBut, Stands, StartAsked, Announced, EclaAsked
  <2>2. RoutingAsked => RoutingAsked'
    BY <1>5, <1>r DEF KeptBut, RoutingAsked
  <2> QED BY <1>2, <1>5, <2>1, <2>2
\* A step that does not touch what the name comes from.
<1>6. ASSUME NEW r \in Receiver, NEW e, KeptBut(inbox', r, e), r # "ecla" \/ e # Ev("Registered"),
             UNCHANGED <<named, reply, bounds>>
      PROVE  \/ named' \/ reply' \/ bounds'.registered = 0
             \/ Holds(inbox'["ecla"], Ev("Registered"))
  BY <1>2, <1>6, <1>r DEF KeptBut
<1>7. ASSUME NEW f, inbox' = Post(inbox, f) PROVE KeptBut(inbox', "emu", Close("All"))
  <2>1. KeptBut(inbox, "emu", Close("All"))
    BY DEF KeptBut
  <2> QED BY <1>0, <1>7, <2>1, PostingKeepsRest
<1>e. "emu" \in Receiver /\ "dtnd task" \in Receiver
  BY Receivers
<1>8. inbox' = inbox => KeptBut(inbox', "emu", Close("All"))
  BY DEF KeptBut
<1>9. ASSUME NEW s, Stands(s)', s \notin Late
      PROVE  /\ \E t : Stands(t)'
             /\ RoutingAsked' \/ routing' \notin {"unknown", "off"}
                   \/ \E t : Stands(t)' /\ t \notin Late
  BY <1>9
<1>10. CASE Boot
  <2>1. UNCHANGED <<named, reply, bounds>>
    BY <1>10 DEF Boot, eclaVars
  <2>0. PICK box \in [Receiver -> Seq(Message)] :
            box = Post(inbox, Ev("LoRaStart")) /\ inbox' = Post(box, Ev("DTNDStart"))
    BY <1>10, BootPosts
  <2>2. StartAsked'
    BY <1>r, <1>3, <1>4, <2>0, PostedTo DEF StartAsked, Actor
  <2>3. Stands("asked")' /\ "asked" \notin Late
    BY <2>2 DEF Stands, Late
  <2>4. KeptBut(inbox', "emu", Close("All"))
    <3>1. KeptBut(inbox, "emu", Close("All"))
      BY DEF KeptBut
    <3>2. KeptBut(box, "emu", Close("All"))
      BY <1>0, <2>0, <3>1, PostingKeepsRest
    <3> QED BY <2>0, <3>2, PostingKeepsRest
  <2> QED BY <1>6, <1>9, <1>e, <2>1, <2>3, <2>4
<1>11. CASE AssumeDtnd
  <2>1. /\ Got("dtnd", Ev("DTNDStart"))
        /\ inbox' = Post(Read("dtnd"), Ev("DTNDStarted"))
        /\ UNCHANGED <<named, reply, bounds>>
    BY <1>11 DEF AssumeDtnd, eclaVars, mainVars, runVars, loraVars
  <2>2. KeptBut(Read("dtnd"), "dtnd", Ev("DTNDStart"))
        /\ Read("dtnd") \in [Receiver -> Seq(Message)]
    BY <1>r, <2>1, ReadingKeepsRest
  <2>3. "supervisor" \in listening
    BY <1>r, <1>3, <2>1, GotWaits DEF BootInv
  <2>4. Announced'
    BY <1>r, <1>4, <2>1, <2>2, <2>3, PostedTo DEF Announced
  <2>5. Stands("announced")' /\ "announced" \notin Late
    BY <2>4 DEF Stands, Late
  <2>6. KeptBut(inbox', "dtnd", Ev("DTNDStart"))
    BY <2>1, <2>2, PostingKeepsRest
  <2> QED BY <1>6, <1>9, <1>r, <2>1, <2>5, <2>6, Different
<1>12. CASE StartDtnd
  <2>1. /\ Got("dtnd", Ev("DTNDStart")) /\ inbox' = Read("dtnd") /\ dtnd' = "spawning"
        /\ UNCHANGED <<named, reply, bounds>>
    BY <1>12 DEF StartDtnd, eclaVars, mainVars, runVars, loraVars
  <2>2. KeptBut(inbox', "dtnd", Ev("DTNDStart"))
    BY <1>r, <2>1, ReadingKeepsRest
  <2>3. Stands("spawning")' /\ "spawning" \notin Late
    BY <2>1 DEF Stands, Late
  <2> QED BY <1>6, <1>9, <1>r, <2>1, <2>2, <2>3, Different
<1>13. CASE DtndSpawned
  <2>1. inbox' = inbox /\ timer' /\ UNCHANGED <<named, reply, bounds>>
    BY <1>13 DEF DtndSpawned, Subscribe, eclaVars, mainVars, runVars, loraVars
  <2>2. Stands("timer")' /\ "timer" \notin Late
    BY <2>1 DEF Stands, Late
  <2> QED BY <1>6, <1>8, <1>9, <1>e, <2>1, <2>2
<1>14. CASE DtndNotSpawned
  BY <1>14 DEF DtndNotSpawned
<1>15. CASE Announce
  <2>1. timer /\ inbox' = Post(inbox, Ev("DTNDStarted")) /\ UNCHANGED <<named, reply, bounds>>
    BY <1>15 DEF Announce, eclaVars, mainVars, runVars, loraVars
  <2>2. booted
    BY <1>u, <2>1 DEF Stands
  <2>3. Announced'
    BY <1>0, <1>r, <1>3, <1>4, <2>1, <2>2, PostedTo DEF Announced
  <2>4. Stands("announced")' /\ "announced" \notin Late
    BY <2>3 DEF Stands, Late
  <2> QED BY <1>6, <1>7, <1>9, <1>e, <2>1, <2>4
<1>16. CASE DtndIsStarted
  <2> DEFINE mid == Post(Read("supervisor"), Ev("ECLAStart"))
  <2>1. /\ Got("supervisor", Ev("DTNDStarted")) /\ inbox' = Post(mid, Ev("StrategyStart"))
        /\ UNCHANGED <<named, reply, bounds>>
    BY <1>16 DEF DtndIsStarted, eclaVars, mainVars, runVars, loraVars
  <2>2. KeptBut(Read("supervisor"), "supervisor", Ev("DTNDStarted"))
        /\ Read("supervisor") \in [Receiver -> Seq(Message)]
    BY <1>r, <2>1, ReadingKeepsRest
  <2>3. /\ KeptBut(mid, "supervisor", Ev("DTNDStarted"))
        /\ mid \in [Receiver -> Seq(Message)] /\ Holds(mid["ecla"], Ev("ECLAStart"))
    <3>1. "ecla" \in listening
      BY <1>3 DEF Actor
    <3> QED BY <1>r, <1>4, <2>2, <3>1, PostedTo, PostingKeepsRest, Posting
  <2> HIDE DEF mid
  <2>4. /\ KeptBut(inbox', "supervisor", Ev("DTNDStarted")) /\ EclaAsked' /\ RoutingAsked'
    <3>1. "strategy" \in listening
      BY <1>3 DEF Actor
    <3> QED BY <1>r, <1>4, <2>1, <2>3, <3>1, PostedTo, PostingKeepsRest DEF EclaAsked, RoutingAsked
  <2>5. Stands("ecla asked")'
    BY <2>4 DEF Stands
  <2> QED BY <1>6, <1>r, <2>1, <2>4, <2>5
<1>17. CASE StartEcla
  <2>1. /\ Got("ecla", Ev("ECLAStart")) /\ inbox' = Read("ecla") /\ ecla' = "starting"
        /\ UNCHANGED <<named, reply, bounds, routing>>
    BY <1>17 DEF StartEcla, routingVars, mainVars, runVars, loraVars
  <2>2. KeptBut(inbox', "ecla", Ev("ECLAStart"))
    BY <1>r, <2>1, ReadingKeepsRest
  <2>3. Stands("ecla asked")
    BY <1>r, <2>1, GotWaits DEF Stands, EclaAsked
  <2>4. RoutingAsked \/ routing \notin {"unknown", "off"}
    BY <1>2, <1>u, <2>3 DEF Late
  <2>5. RoutingAsked' \/ routing' \notin {"unknown", "off"}
    BY <1>r, <2>1, <2>2, <2>4 DEF KeptBut, RoutingAsked
  <2>6. Stands("ecla")'
    BY <2>1 DEF Stands
  <2> QED BY <1>6, <1>r, <2>1, <2>2, <2>5, <2>6, Different
<1>18. CASE StartRouting
  <2>1. /\ Got("strategy", Ev("StrategyStart")) /\ inbox' = Read("strategy")
        /\ routing' = "starting"
        /\ UNCHANGED <<named, reply, bounds, booted, timer, dtnd, ecla>>
    BY <1>1, <1>18 DEF StartRouting, dtndVars, eclaVars, mainVars, runVars, loraVars
  <2>2. KeptBut(inbox', "strategy", Ev("StrategyStart"))
    BY <1>r, <2>1, ReadingKeepsRest
  <2>3. \A s : Stands(s) => Stands(s)'
    BY <1>r, <2>1, <2>2 DEF KeptBut, Stands, StartAsked, Announced, EclaAsked
  <2> QED BY <1>2, <1>6, <1>r, <2>1, <2>2, <2>3
<1>19. CASE Publish
  <2>1. /\ Got("ecla", Ev("Registered")) /\ inbox' = Read("ecla") /\ named'
        /\ UNCHANGED <<booted, timer, dtnd, ecla, routing>>
    BY <1>19 DEF Publish, dtndVars, routingVars, mainVars, runVars, loraVars
  <2>2. KeptBut(inbox', "ecla", Ev("Registered"))
    BY <1>r, <2>1, ReadingKeepsRest
  <2> QED BY <1>5, <1>r, <2>1, <2>2
<1>20. CASE DtndTaskCloses
  <2>1. PICK e : Got("dtnd task", e)
    BY <1>20 DEF DtndTaskCloses
  <2>2. /\ inbox' = Read("dtnd task")
        /\ UNCHANGED <<named, reply, bounds, booted, timer, dtnd, ecla, routing>>
    BY <1>20 DEF DtndTaskCloses, eclaVars, routingVars, mainVars, runVars, loraVars
  <2>3. KeptBut(inbox', "dtnd task", e)
    BY <1>e, <2>1, <2>2, ReadingKeepsRest
  <2> QED BY <1>5, <1>6, <1>e, <2>2, <2>3
<1>21. CASE Registered
  <2>1. reply' /\ inbox' = inbox /\ UNCHANGED <<booted, timer, dtnd, ecla, routing>>
    BY <1>21 DEF Registered, bus, dtndVars, routingVars
  <2> QED BY <1>5, <1>8, <1>e, <2>1
<1>22. CASE ForwardReply
  <2>1. /\ inbox' = Post(inbox, Ev("Registered"))
        /\ UNCHANGED <<booted, timer, dtnd, ecla, routing>>
    BY <1>22 DEF ForwardReply, dtndVars, routingVars, mainVars, runVars, loraVars
  <2>2. Holds(inbox'["ecla"], Ev("Registered"))
    BY <1>0, <1>r, <1>3, <1>4, <2>1, PostedTo DEF Actor
  <2> QED BY <1>5, <1>7, <1>e, <2>1, <2>2
<1>23. CASE \/ EclaSubscribes \/ RoutingSubscribes \/ UNCHANGED vars
            \/ \E t \in RoutingTask : Ticker(t)
  <2>1. /\ inbox' = inbox /\ UNCHANGED <<booted, timer, dtnd, named, reply, bounds>>
        /\ ecla # "off" => ecla' # "off"
        /\ routing \notin {"unknown", "off"} => routing' \notin {"unknown", "off"}
    BY <1>23
    DEF EclaSubscribes, RoutingSubscribes, Ticker, TaskWakes, TaskReturns, Subscribe, vars,
        bus, dtndVars, eclaVars, routingVars, mainVars, runVars, loraVars
  <2> QED BY <1>5, <1>6, <1>8, <1>e, <2>1
\* What takes a close request.
<1>24. ~EclaFinishes /\ ~RoutingFinishes
  BY <1>1 DEF AskedInv, EclaFinishes, RoutingFinishes
<1>25. ASSUME NEW a \in Actor, ActorReturns(a) PROVE FALSE
  BY <1>1, <1>25, GotWaits, Receivers DEF ActorReturns, AskedInv
<1>26. ~EclaCloses
  <2> SUFFICES ASSUME NEW e \in Relevant["ecla client"], Got("ecla client", e) PROVE FALSE
    BY DEF EclaCloses
  <2>1. Holds(inbox["ecla client"], e)
    BY GotWaits, Receivers
  <2>2. e # Ev("ECLAStart")
    BY <2>1 DEF TokenInv
  <2>3. e \in {Close("All"), Close("ECLA"), Close("DTND")}
    BY <2>2, Receivers DEF Relevant
  <2> QED BY <1>1, <2>1, <2>3, Receivers DEF AskedInv
<1>27. ~RoutingCloses
  <2> SUFFICES ASSUME NEW e \in Relevant["routing"], Got("routing", e) PROVE FALSE
    BY DEF RoutingCloses
  <2>1. e \in {Close("All"), Close("Strategy")}
    BY Receivers DEF Relevant
  <2> QED BY <1>1, <2>1, GotWaits, Receivers DEF AskedInv
<1>28. ~Exit
  BY <1>3 DEF Exit, Actor
<1>31. CASE RadioRead
  <2>1. PICK r \in {"lora", "emu"} : \E e : Got(r, e) /\ inbox' = Read(r)
    BY <1>31, RadioReads
  <2>2. PICK e : Got(r, e) /\ inbox' = Read(r)
    BY <2>1
  <2>3. r \in Receiver
    BY Receivers
  <2>4. KeptBut(inbox', r, e)
    BY <2>2, <2>3, ReadingKeepsRest
  <2>5. UNCHANGED <<named, reply, bounds, booted, timer, dtnd, ecla, routing>>
    BY <1>31, RadioReads DEF dtndVars, eclaVars, routingVars, runVars
  <2> QED BY <1>5, <1>6, <2>3, <2>4, <2>5
<1>32. CASE RadioWork
  <2>1. /\ inbox' = inbox
        /\ UNCHANGED <<named, reply, bounds, booted, timer, dtnd, ecla, routing>>
    BY <1>32, RadioWorks DEF bus, dtndVars, eclaVars, routingVars, runVars
  <2> QED BY <1>5, <1>6, <1>8, <1>e, <2>1
<1>29. ASSUME NEW target \in Closable, Request(target) PROVE FALSE
  BY <1>29 DEF Request
<1>30. ASSUME NEW r \in Receiver, Lag(r) PROVE FALSE
  BY <1>30 DEF Lag
<1> QED
  BY <1>10, <1>11, <1>12, <1>13, <1>14, <1>15, <1>16, <1>17, <1>18, <1>19, <1>20, <1>21,
     <1>22, <1>23, <1>24, <1>25, <1>26, <1>27, <1>28, <1>29, <1>30,
     <1>31, <1>32, <1>f
  DEF RadioRead, RadioWork, Next, ActorStep, DtndTask, EclaClient, Routing

\* Somebody has something to do on the way up.
SomebodyBoots ==
    \/ ~booted
    \/ \E a \in Actor : \E e : Got(a, e) /\ Handles(a, e)
    \/ dtnd = "spawning" \/ timer
    \/ ecla = "starting" \/ (ecla = "serving" /\ bounds.registered < Registrations)
    \/ ecla = "serving" /\ reply
    \/ routing = "starting" \/ (named /\ waiting # {})

BootGoesOn ==
    \/ routing = "running" /\ waiting = {}
    \/ asked # {} \/ missed
    \/ dtnd = "failed" \/ radio = "failed" \/ routing = "unknown"
    \/ SomebodyBoots

\* If dtnd answers a registration at all, the strategy exists, and neither dtnd
\* nor the radio fails, then, until the node has a name and its strategy runs,
\* somebody always has the next step to make: no request of the boot, no
\* announcement and no name is lost between the tasks.
THEOREM NothingHoldsUpTheBoot ==
    ASSUME Registrations > 0
    PROVE  Spec => []BootGoesOn
<1>1. TypeOK /\ CloseInv /\ AskedInv /\ BootKept /\ FitInv => BootGoesOn
  <2> SUFFICES ASSUME TypeOK, CloseInv, AskedInv, BootKept, Fit(inbox),
                      asked = {}, ~missed, dtnd # "failed", radio # "failed",
                      routing # "unknown", ~SomebodyBoots
               PROVE  routing = "running" /\ waiting = {}
    BY DEF BootGoesOn, FitInv
  <2>1. ASSUME NEW a \in listening \cap Actor, a # "emu", NEW e, Holds(inbox[a], e)
        PROVE  FALSE
    <3>1. a \in Receiver /\ inbox[a] \in Seq(Relevant[a])
      BY Receivers DEF Fit
    <3>2. inbox[a] # <<>>
      BY <2>1, EmptyBacklog
    <3>3. Head(inbox[a]) \in Relevant[a]
      BY <3>1, <3>2
    <3>4. Handles(a, Head(inbox[a]))
      BY <3>1, <3>3, ActorsHandle
    <3> QED BY <2>1, <3>2, <3>4 DEF Got, Awake, SomebodyBoots
  <2>2. Actor \subseteq listening
    BY DEF CloseInv, CloseIsKept, SomebodyBoots, Actor
  <2>3. ~StartAsked /\ ~Announced /\ ~EclaAsked /\ ~RoutingAsked
        /\ ~Holds(inbox["ecla"], Ev("Registered"))
    BY <2>1, <2>2, Receivers DEF StartAsked, Announced, EclaAsked, RoutingAsked
  <2>4. \A s : Stands(s) => s = "ecla"
    BY <2>3 DEF Stands, SomebodyBoots
  <2>5. Stands("ecla")
    BY <2>4 DEF BootKept
  <2>6. ecla = "serving"
    BY <2>5 DEF Stands, TypeOK, AskedInv, SomebodyBoots
  <2>7. routing = "running"
    BY <2>3, <2>4 DEF BootKept, Late, TypeOK, AskedInv, SomebodyBoots
  <2>8. bounds.registered # 0
    BY <2>6 DEF SomebodyBoots
  <2>9. named
    BY <2>3, <2>6, <2>8 DEF BootKept, SomebodyBoots
  <2> QED BY <2>7, <2>9 DEF SomebodyBoots
<1>2. Spec => [](TypeOK /\ BootInv /\ CloseInv /\ TokenInv /\ AskedInv /\ BootKept /\ FitInv)
  BY InitType, InitBoot, InitClose, InitToken, InitAsked, InitBootKept, InitFit,
     TypeStep, BootStep, CloseStep, TokenStep, AskedStep, BootKeptStep, FitStep, PTL DEF Spec
<1> QED BY <1>1, <1>2, PTL

=============================================================================
