------------------------------ MODULE MCDaemon ------------------------------
(* Instances of Daemon for TLC.                                            *)
EXTENDS Daemon

\* The daemon and its strategy are closed.
Targets == {"All", "Strategy"}
=============================================================================
