----------------------------- MODULE MCRegistry -----------------------------
(* Instance of Registry for TLC: one item besides the bar, a source nothing  *)
(* but the bar wants, the eager config watcher, and the notifications source *)
(* with a fixed event and a custom one.                                      *)
EXTENDS Registry

MCFixed == [s \in Source |-> CASE s = "power" -> {"system_woke"}
                               [] s = "config" -> {"config_reloaded"}
                               [] s = "notifications" -> {"app_launched"}]
=============================================================================
