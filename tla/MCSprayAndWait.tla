--------------------------- MODULE MCSprayAndWait ---------------------------
(* Instances of SprayAndWait for TLC.                                      *)
EXTENDS SprayAndWait

CONSTANTS p1

\* Every bundle is addressed to p1.
ToP1 == [b \in Bundle |-> p1]
============================================================================
