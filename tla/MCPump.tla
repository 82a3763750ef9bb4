------------------------------- MODULE MCPump -------------------------------
(* Instance of Pump for TLC.                                                 *)
EXTENDS Pump
=============================================================================
