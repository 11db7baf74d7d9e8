------------------------------ MODULE MCAgent ------------------------------
(* The agent for TLC: its configurations are bounds only. *)
EXTENDS Agent
=============================================================================
