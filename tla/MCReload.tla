------------------------------ MODULE MCReload ------------------------------
(* Instance of Reload for TLC. Requests act on one name at a time and nothing *)
(* relates two names but the mark every name shares, so one name is enough:   *)
(* the config, another client and a reload all contend for it.                *)
EXTENDS Reload
=============================================================================
