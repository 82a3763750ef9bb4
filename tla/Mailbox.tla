------------------------------- MODULE Mailbox -------------------------------
(***************************************************************************)
(* What a worker-to-main-thread seam promises, with no lock, no flag and   *)
(* no wake in it: values are put down in batches by anybody, one collector *)
(* takes everything there is, nothing is lost, nothing is taken twice, and *)
(* what waits is eventually taken.  The Handoff of pool.rs implements it.  *)
(***************************************************************************)
EXTENDS Naturals, Sequences

CONSTANT Value              \* what may be put down

VARIABLES pending,          \* put down and not taken
          delivered         \* taken, in the order it was taken

vars == <<pending, delivered>>

Init == pending = <<>> /\ delivered = <<>>

\* Something more is put down behind what is already there.
Put == /\ pending' \in Seq(Value)
       /\ Len(pending) < Len(pending')
       /\ \A i \in 1 .. Len(pending) : pending'[i] = pending[i]
       /\ UNCHANGED delivered

Collect == /\ pending # <<>>
           /\ delivered' = delivered \o pending
           /\ pending' = <<>>

Next == Put \/ Collect

Safety == Init /\ [][Next]_vars

Spec == Safety /\ WF_vars(Collect)
=============================================================================
