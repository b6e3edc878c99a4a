---------------------------- MODULE MCLoRaAgent ----------------------------
(* An instance of LoRaAgent for TLC. *)
EXTENDS LoRaAgent
============================================================================
