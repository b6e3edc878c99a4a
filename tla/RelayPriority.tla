--------------------------- MODULE RelayPriority ---------------------------
(***************************************************************************)
(* The priority of a relay in the quadrant strategy (strategy/quadrant.rs):*)
(* how urgent it is to send on a bundle that was received.                 *)
(*                                                                         *)
(* A neighbour is described by its quadrant, seen from here, by whether it *)
(* has advertised the hash of exactly our bundles, and by whether it is    *)
(* recorded to have the bundle in question.                                *)
(***************************************************************************)
EXTENDS Integers, FiniteSets

\* get_quadrant for two LatLng positions: the bearing, in whole degrees, split
\* into four.  Any other pair of positions gives 0, and so does due north.
QuadrantOf(bearing) == (bearing + 89) \div 90

Unknown == 0
Quadrants == {Unknown} \cup {QuadrantOf(bearing) : bearing \in 0 .. 359}

Neighbor == [quad : Quadrants, sameHash : BOOLEAN, seen : BOOLEAN]

\* quad_distance
QuadDistance(a, b) ==
    IF Unknown \in {a, b} THEN 1 ELSE (IF a > b THEN a - b ELSE b - a) % 2

Lacks(nb) == ~nb.sameHash /\ ~nb.seen

\* retransmission_priority, for a bundle from a sender in the given quadrant: the
\* distances are 0 or 1, and their sum counts the ones.
RetransmissionPriority(quad, nbs, sender) ==
    LET Asked == {n \in DOMAIN nbs \ {sender} : Lacks(nbs[n]) /\ nbs[n].quad # quad}
    IN  10 * Cardinality({n \in Asked : QuadDistance(quad, nbs[n].quad) = 1})

\* Two quadrants that share an axis.  What the distance comes to is that they
\* count, and opposite ones do not (see QuadrantProofs).
Adjacent(a, b) == {a, b} \in {{1, 2}, {2, 3}, {3, 4}, {4, 1}}
============================================================================
