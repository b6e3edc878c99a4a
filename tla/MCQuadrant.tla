----------------------------- MODULE MCQuadrant -----------------------------
(* Instances of Quadrant for TLC.                                          *)
EXTENDS Quadrant, TLC

CONSTANTS n1, n2

\* Every bundle is created at n1.
AtN1 == {[b \in Bundle |-> n1]}

\* Every bundle is created at some node.
Anywhere == [Bundle -> Node]

\* n2's name is so long that no forward under it passes the size allowers: of
\* its own bundles only what it sends before it has that name gets out.
N2TooLong == {n2} \X Bundle

Nothing == {}
============================================================================
