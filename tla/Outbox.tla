------------------------------- MODULE Outbox -------------------------------
(***************************************************************************)
(* What the strategies expect of their outgoing packets, whatever order    *)
(* they are kept in: items wait, refused ones are dropped, and a send      *)
(* interval hands out a few of those that wait.                            *)
(***************************************************************************)
EXTENDS Naturals, FiniteSets

CONSTANTS
    Item,    \* what can wait
    MaxBurst \* most items handed out at once

VARIABLES
    waiting, \* the items that wait
    refused, \* the items that may not go out at present
    handed   \* what the last step handed out

vars == <<waiting, refused, handed>>

Init ==
    /\ waiting = {}
    /\ refused \in SUBSET Item
    /\ handed = {}

\* An item that waits already does not wait twice.
Accept(i) ==
    /\ i \notin refused
    /\ waiting' = waiting \cup {i}
    /\ handed' = {}
    /\ UNCHANGED refused

\* Refused items are found out and dropped when others are handed out.
HandOut ==
    /\ \E S \in SUBSET (waiting \ refused) :
        /\ Cardinality(S) <= MaxBurst
        /\ handed' = S
        /\ waiting' = waiting \ (refused \cup S)
    /\ UNCHANGED refused

ChangeRefused ==
    /\ refused' \in SUBSET Item
    /\ handed' = {}
    /\ UNCHANGED waiting

Next == ChangeRefused \/ HandOut \/ \E i \in Item : Accept(i)

Spec == Init /\ [][Next]_vars
=============================================================================
