------------------------------- MODULE Handoff -------------------------------
(***************************************************************************)
(* pool.rs `Handoff<T>` and `Sender<T>`: the seam between the worker pool  *)
(* and the main thread.  Workers push under a mutex, raise a flag outside  *)
(* it, and wake the run loop; the main thread reads the flag without the   *)
(* mutex on every pass and takes everything under it.                      *)
(*                                                                         *)
(* Three threads' worth of interleaving is explicit: a send is three steps *)
(* (push, flag, wake) and a take is two (empty the vector, clear the flag) *)
(* with the mutex held across both.                                        *)
(***************************************************************************)
EXTENDS Naturals, Sequences

CONSTANTS Worker,           \* the tasks holding a Sender
          MaxSends,         \* bound: values one worker sends
          MaxBatch          \* bound: values in one send_all

ASSUME SendsAssumption == MaxSends \in Nat /\ MaxBatch \in Nat

VARIABLES held,             \* Mutex<Vec<T>>: finished and not collected
          locked,           \* the main thread is inside `take`, mutex held
          landed,           \* AtomicBool beside the vector
          signalled,        \* the run loop source: a pass is owed
          worker,           \* where each worker is in `send_all`
          main,             \* where the main thread is in its pass
          sent,             \* values each worker has pushed
          taken             \* history: what `take` has returned, in order

vars == <<held, locked, landed, signalled, worker, main, sent, taken>>

Value == Worker \X (Nat \ {0})

TypeOK == /\ held \in Seq(Value)
          /\ locked \in BOOLEAN
          /\ landed \in BOOLEAN
          /\ signalled \in BOOLEAN
          /\ worker \in [Worker -> {"idle", "pushed", "flagged"}]
          /\ main \in {"parked", "asking", "taking", "clearing"}
          /\ sent \in [Worker -> Nat]
          /\ taken \in Seq(Value)

Init == /\ held = <<>>
        /\ locked = FALSE
        /\ landed = FALSE
        /\ signalled = FALSE
        /\ worker = [w \in Worker |-> "idle"]
        /\ main = "parked"
        /\ sent = [w \in Worker |-> 0]
        /\ taken = <<>>

(***************************************************************************)
(* `Sender::send_all`.                                                     *)
(***************************************************************************)
BatchFromZero(w, n) == [k \in 1 .. n |-> <<w, sent[w] + k - 1>>]
Batch(w, n) == [k \in 1 .. n |-> <<w, sent[w] + k>>]

\* Lock, extend, unlock.  An empty batch returns before the flag and the wake
\* and changes nothing, so only non-empty ones are steps.
Push(w) == /\ worker[w] = "idle"
           /\ ~locked
           /\ \E n \in 1 .. MaxBatch :
                /\ sent[w] + n <= MaxSends
                /\ held' = held \o Batch(w, n)
                /\ sent' = [sent EXCEPT ![w] = @ + n]
           /\ worker' = [worker EXCEPT ![w] = "pushed"]
           /\ UNCHANGED <<locked, landed, signalled, main, taken>>

\* `landed.store(true)`, after the mutex is released.
Flag(w) == /\ worker[w] = "pushed"
           /\ landed' = TRUE
           /\ worker' = [worker EXCEPT ![w] = "flagged"]
           /\ UNCHANGED <<held, locked, signalled, main, sent, taken>>

\* `wake.wake()`: signals coalesce in the one run loop source.
WakeForgotten(w) == /\ worker[w] = "flagged"
                    /\ worker' = [worker EXCEPT ![w] = "idle"]
                    /\ UNCHANGED <<held, locked, landed, signalled, main, sent, taken>>

WakeMain(w) == /\ worker[w] = "flagged"
               /\ signalled' = TRUE
               /\ worker' = [worker EXCEPT ![w] = "idle"]
               /\ UNCHANGED <<held, locked, landed, main, sent, taken>>

(***************************************************************************)
(* The main thread.  A pass runs because the source was signalled; the     *)
(* system that collects asks `ready` and only then calls `take`.           *)
(***************************************************************************)
\* Something unrelated wakes the app: a request, an event, a deadline.
OtherWake == /\ ~signalled
             /\ signalled' = TRUE
             /\ UNCHANGED <<held, locked, landed, worker, main, sent, taken>>

BeginPass == /\ main = "parked"
             /\ signalled
             /\ signalled' = FALSE
             /\ main' = "asking"
             /\ UNCHANGED <<held, locked, landed, worker, sent, taken>>

\* The run condition: one load, no lock.
Ready == /\ main = "asking"
         /\ main' = IF landed THEN "taking" ELSE "parked"
         /\ UNCHANGED <<held, locked, landed, signalled, worker, sent, taken>>

\* `take`: under the mutex, first the vector is emptied ...
EmptyUnlocked == /\ main = "taking"
                 /\ taken' = taken \o held
                 /\ held' = <<>>
                 /\ main' = "clearing"
                 /\ UNCHANGED <<locked, landed, signalled, worker, sent>>

Empty == /\ main = "taking"
         /\ locked' = TRUE
         /\ taken' = taken \o held
         /\ held' = <<>>
         /\ main' = "clearing"
         /\ UNCHANGED <<landed, signalled, worker, sent>>

\* ... then the flag is cleared, and only then is the mutex released.
Clear == /\ main = "clearing"
         /\ landed' = FALSE
         /\ locked' = FALSE
         /\ main' = "parked"
         /\ UNCHANGED <<held, signalled, worker, sent, taken>>

Send(w) == Push(w) \/ Flag(w) \/ WakeMain(w)

Pass == BeginPass \/ Ready \/ Empty \/ Clear

Next == OtherWake \/ Pass \/ \E w \in Worker : Send(w)

\* A worker that has pushed is a running task on the pool and finishes its
\* call; the run loop serves a signalled source and a pass runs to its end.
\* Nothing obliges a worker to start a send, nor anything else to wake the app.
Fairness == /\ WF_vars(Pass)
            /\ \A w \in Worker : WF_vars(Flag(w) \/ WakeMain(w))

Spec == Init /\ [][Next]_vars /\ Fairness

-----------------------------------------------------------------------------
\* No result is stranded.  If anything is held, then a worker is on its way to
\* the flag, or the flag is up and a wake is on its way, a pass is owed, or one
\* is about to look: pool.rs "the flag is cleared under the lock, so a result
\* pushed between the take and the clear is not lost".
NothingStranded ==
  held # <<>> =>
    \/ \E w \in Worker : worker[w] = "pushed"
    \/ landed /\ \/ signalled
                 \/ main \in {"asking", "taking"}
                 \/ \E w \in Worker : worker[w] = "flagged"

\* Everything sent so far, collected or not.
Log == taken \o held

\* Every value arrives once, and one worker's values in the order it sent
\* them, whatever the interleaving of pushes and takes: nothing is dropped
\* between the vector and what `take` returns, and nothing taken is left behind
\* to be taken again.
InOrderOnce ==
  /\ \A i, j \in DOMAIN Log :
       i < j /\ Log[i][1] = Log[j][1] => Log[i][2] < Log[j][2]
  /\ \A w \in Worker : \A k \in 1 .. sent[w] :
       \E i \in DOMAIN Log : Log[i] = <<w, k>>

\* The Mailbox this implements, the mutex, flag and wake forgotten.
Abstract == INSTANCE Mailbox WITH pending <- held, delivered <- taken

\* The Handoff implements the Mailbox, liveness included: every step that
\* touches the vector puts down or collects all there is, and what is put down
\* is collected.  Its safety half is a formula of its own, for the proof.
ImplementsMailboxSafety == Abstract!Safety
ImplementsMailbox == Abstract!Spec
=============================================================================
