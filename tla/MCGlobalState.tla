--------------------------- MODULE MCGlobalState ---------------------------
(* An instance of GlobalState for TLC.                                     *)
EXTENDS GlobalState, TLC

CONSTANTS p1, p2

Symmetry == Permutations({p1, p2})
============================================================================
