-------------------------- MODULE MCRandomStrategy --------------------------
(* Instances of RandomStrategy for TLC.                                    *)
EXTENDS RandomStrategy, TLC

CONSTANTS b1, b2, n1

\* The strategy treats all bundles alike.
AnyBundle == Permutations({b1, b2})
=============================================================================
