----------------------------- MODULE MCDelivery -----------------------------
(* Instance of Delivery for TLC: two sources, one event a visit.             *)
EXTENDS Delivery
=============================================================================
