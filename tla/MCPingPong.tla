----------------------------- MODULE MCPingPong -----------------------------
(* Instances of PingPong for TLC.                                          *)
EXTENDS PingPong

CONSTANTS n1, n2
=============================================================================
