-------------------------------- MODULE Pipe --------------------------------
(***************************************************************************)
(* What the daemon expects of the LoRa agent, in each direction, however   *)
(* many tasks and channels a packet passes: packets, numbered as they are  *)
(* sent, come out in their order and once, and one that does not come out  *)
(* is known to be lost.                                                    *)
(***************************************************************************)
EXTENDS Naturals, Sequences

VARIABLES
    waiting,   \* the packets on their way
    delivered, \* the packets that came out
    lost,      \* the packets that will not
    latest,    \* the number of the last packet sent
    broken     \* the pipe is gone, with all that was on its way

vars == <<waiting, delivered, lost, latest, broken>>

Init ==
    /\ waiting = {}
    /\ delivered = <<>>
    /\ lost = {}
    /\ latest = 0
    /\ broken = FALSE

\* A packet enters the pipe, or is turned away.
Send ==
    /\ ~broken
    /\ latest' = latest + 1
    /\ \/ waiting' = waiting \cup {latest + 1} /\ UNCHANGED lost
       \/ lost' = lost \cup {latest + 1} /\ UNCHANGED waiting
    /\ UNCHANGED <<delivered, broken>>

\* The first of those that wait comes out.
Deliver(i) ==
    /\ ~broken
    /\ i \in waiting
    /\ \A j \in waiting : i <= j
    /\ waiting' = waiting \ {i}
    /\ delivered' = Append(delivered, i)
    /\ UNCHANGED <<lost, latest, broken>>

Lose(S) ==
    /\ ~broken
    /\ waiting' = waiting \ S
    /\ lost' = lost \cup S
    /\ UNCHANGED <<delivered, latest, broken>>

Break ==
    /\ broken' = TRUE
    /\ waiting' = {}
    /\ UNCHANGED <<delivered, lost, latest>>

Next ==
    \/ Send
    \/ \E i \in waiting : Deliver(i)
    \/ \E S \in SUBSET waiting : Lose(S)
    \/ Break

Spec == Init /\ [][Next]_vars
=============================================================================
