--------------------------- MODULE MCBundleQueue ---------------------------
(* Instance of BundleQueue for TLC.                                        *)
EXTENDS BundleQueue, TLC

\* (2^64 \div 10) as i32.
Quadrant10s == -1717986919

\* Bundle ids and encodings are only compared for equality.
Symmetry == Permutations(Bundle) \cup Permutations(Packet)
============================================================================
