------------------------------ MODULE Executor ------------------------------
(***************************************************************************)
(* Tasks that have to run on a run loop's own thread: the driver of         *)
(* runloop.rs (`tasks`), the errands other threads send to a `Loop`, and    *)
(* the `Task` handles of pool.rs whose drop stops what they own.            *)
(*                                                                         *)
(* One loop is modelled, with everything its thread may be inside of at     *)
(* once: a source performed by a drain is performed inside the pass that    *)
(* drains, and the driver's slot stays borrowed while it polls.             *)
(***************************************************************************)
EXTENDS Naturals, Sequences, SequencesExt

CONSTANTS
  Errands,   \* tasks other threads send over and own (`Loop::spawn`)
  Calls,     \* work other threads send over and await (`Loop::call`)
  Deadlines  \* tasks the schedule spawns and owns itself (`wake_at`, `owned`)

ASSUME ExecutorAssumption ==
  /\ Errands \cap Deadlines = {}
  /\ Calls \cap (Errands \cup Deadlines) = {}

VARIABLES
  turning,    \* the loop's thread has reached `CFRunLoop::run`
  stack,      \* what that thread is inside of, outermost first
  pending,    \* the run loop sources that are signalled
  built,      \* DRIVER holds a driver
  listening,  \* the local set was polled, so it has a waker to wake
  ringing,    \* errands sent whose sender has not rung yet
  errands,    \* the channel of the loop
  landing,    \* the errand just spawned, until its handle arrives
  slot,       \* the `Slot` behind each errand's `Task`
  task        \* where each task is

executorVars == <<turning, stack, pending, built, listening, ringing,
                  errands, landing, slot, task>>

Local == Errands \cup Deadlines
Sent == Errands \cup Calls
Sources == {"PASS", "DRIVER", "RING"}

ExecutorTypeOK ==
  /\ turning \in BOOLEAN /\ built \in BOOLEAN /\ listening \in BOOLEAN
  /\ stack \in Seq({"pass", "drain", "schedule", "drive", "ring"})
  /\ pending \subseteq Sources
  /\ ringing \subseteq Sent
  /\ errands \in Seq(Sent)
  /\ landing \subseteq Errands
  /\ slot \in [Errands -> {"unmade", "waiting", "arrived", "dropped"}]
  /\ task \in [Local \cup Calls -> {"unmade", "sent", "idle", "woken", "aborting", "gone"}]

ExecutorInit ==
  /\ turning = FALSE /\ built = FALSE /\ listening = FALSE
  /\ stack = <<>> /\ errands = <<>>
  /\ pending = {} /\ ringing = {}
  /\ landing = {}
  /\ slot = [t \in Errands |-> "unmade"]
  /\ task = [t \in Local \cup Calls |-> "unmade"]

Inside(f) == f \in ToSet(stack)
On(f) == stack # <<>> /\ Last(stack) = f
Enqueue(f) == stack' = Append(stack, f)
Pop == stack' = Front(stack)

(***************************************************************************)
(* Other threads.                                                          *)
(***************************************************************************)
\* `Loop::spawn`: the slot is made, the errand goes down the channel.
SendErrand(t) ==
  /\ task[t] = "unmade"
  /\ task' = [task EXCEPT ![t] = "sent"]
  /\ slot' = [slot EXCEPT ![t] = "waiting"]
  /\ errands' = Append(errands, t)
  /\ ringing' = ringing \cup {t}
  /\ UNCHANGED <<turning, stack, pending, built, listening, landing>>

\* `Loop::call`: the same channel, and an answer to wait for.
SendCall(t) ==
  /\ task[t] = "unmade"
  /\ task' = [task EXCEPT ![t] = "sent"]
  /\ errands' = Append(errands, t)
  /\ ringing' = ringing \cup {t}
  /\ UNCHANGED <<turning, stack, pending, built, listening, landing, slot>>

\* Only after that is the loop rung.
Ring(t) ==
  /\ t \in ringing
  /\ ringing' = ringing \ {t}
  /\ pending' = pending \cup {"RING"}
  /\ UNCHANGED <<turning, stack, built, listening, errands, landing, slot, task>>

\* What an abort does to a task: it ends at its next poll, and the local set
\* is woken for that.
Abort(t) ==
  /\ task' = [task EXCEPT ![t] = IF @ = "gone" THEN "gone" ELSE "aborting"]
  /\ pending' = pending \cup (IF listening THEN {"DRIVER"} ELSE {})

\* `Task::drop` of a handle that may not have arrived.
DropErrand(t) ==
  /\ slot[t] \in {"waiting", "arrived"}
  /\ t \notin ringing
  /\ slot' = [slot EXCEPT ![t] = "dropped"]
  /\ IF slot[t] = "arrived" THEN Abort(t) ELSE UNCHANGED <<task, pending>>
  /\ UNCHANGED <<turning, stack, built, listening, ringing, errands, landing>>

ArriveUnchecked(t) ==
  slot' = [slot EXCEPT ![t] = "arrived"] /\ UNCHANGED <<task, pending>>
\* `Deferred::arrived`, under the one lock.
Arrive(t) ==
  IF slot[t] = "dropped"
    THEN Abort(t) /\ UNCHANGED slot
    ELSE slot' = [slot EXCEPT ![t] = "arrived"] /\ UNCHANGED <<task, pending>>
\* What a task waits for happened: its waker queues it and signals the driver.
WakeTask(t) ==
  /\ task[t] = "idle"
  /\ task' = [task EXCEPT ![t] = "woken"]
  /\ pending' = pending \cup (IF listening THEN {"DRIVER"} ELSE {})
  /\ UNCHANGED <<turning, stack, built, listening, ringing, errands, landing, slot>>

AskForPass ==
  /\ pending' = pending \cup {"PASS"}
  /\ UNCHANGED <<turning, stack, built, listening, ringing, errands, landing,
                 slot, task>>

(***************************************************************************)
(* The loop's thread.                                                      *)
(***************************************************************************)
\* The loop is handed back before its thread turns it; what was signalled in
\* between is performed then.
Turn ==
  /\ ~turning
  /\ turning' = TRUE
  /\ UNCHANGED <<stack, pending, built, listening, ringing, errands, landing,
                 slot, task>>

\* Only the parked loop and a frame's drain perform sources.
Performs == stack = <<>> \/ On("drain")

Perform(s) ==
  /\ turning /\ s \in pending /\ Performs
  /\ pending' = pending \ {s}
  /\ UNCHANGED <<turning, built, ringing, errands, landing, slot, task>>

SpawnUnsignalled(t) ==
  /\ built' = TRUE
  /\ task' = [task EXCEPT ![t] = "woken"]
  /\ pending' = pending \cup (IF listening THEN {"DRIVER"} ELSE {})

\* `started_on`, `spawn_local`, `signal`: the driver's slot is borrowed to
\* build it and to reach it.
Spawn(t) ==
  /\ built' = TRUE
  /\ task' = [task EXCEPT ![t] = "woken"]
  /\ pending' = pending \cup {"DRIVER"}
PerformRing == Perform("RING") /\ Enqueue("ring") /\ UNCHANGED listening

RunCall ==
  /\ On("ring") /\ landing = {} /\ errands # <<>> /\ Head(errands) \in Calls
  /\ errands' = Tail(errands)
  /\ task' = [task EXCEPT ![Head(errands)] = "gone"]
  /\ UNCHANGED <<turning, stack, pending, built, listening, ringing, landing,
                 slot>>

RunErrand ==
  /\ On("ring") /\ landing = {} /\ errands # <<>> /\ Head(errands) \in Errands
  /\ errands' = Tail(errands)
  /\ landing' = {Head(errands)}
  /\ Spawn(Head(errands))
  /\ UNCHANGED <<turning, stack, listening, ringing, slot>>

Land(t) ==
  /\ t \in landing
  /\ Arrive(t)
  /\ landing' = {}
  /\ UNCHANGED <<turning, stack, built, listening, ringing, errands>>

RingEnds ==
  /\ On("ring") /\ landing = {} /\ errands = <<>>
  /\ Pop
  /\ UNCHANGED <<turning, pending, built, listening, ringing, errands, landing,
                 slot, task>>

\* `drive`: a nested one finds the slot borrowed and returns.
PerformDrive ==
  /\ Perform("DRIVER")
  /\ IF built /\ ~Inside("drive")
       THEN Enqueue("drive") /\ listening' = TRUE
       ELSE UNCHANGED <<stack, listening>>

\* One poll of one task: it ends, or it waits for something else.
PollTask(t) ==
  /\ On("drive")
  /\ \/ /\ task[t] = "woken"
        /\ \E s \in {"idle", "gone"} : task' = [task EXCEPT ![t] = s]
     \/ /\ task[t] = "aborting"
        /\ task' = [task EXCEPT ![t] = "gone"]
  /\ UNCHANGED <<turning, stack, pending, built, listening, ringing, errands,
                 landing, slot>>

Queued(t) == task[t] \in {"woken", "aborting"}

\* The set's turn ends: with nothing queued, or at its budget or by a panic,
\* and then it asks for another turn.
DriveEnds ==
  /\ On("drive")
  /\ Pop
  /\ pending' = pending \cup
                  (IF \E t \in Local : Queued(t) THEN {"DRIVER"} ELSE {})
  /\ UNCHANGED <<turning, built, listening, ringing, errands, landing, slot, task>>

\* `pass`: nested in a pass it does nothing.
PerformPass ==
  /\ Perform("PASS")
  /\ IF Inside("pass") THEN UNCHANGED stack ELSE Enqueue("pass")
  /\ UNCHANGED listening

Drain ==
  /\ On("pass")
  /\ Enqueue("drain")
  /\ UNCHANGED <<turning, pending, built, listening, ringing, errands, landing,
                 slot, task>>

DrainEnds ==
  /\ On("drain")
  /\ stack' = Append(Front(stack), "schedule")
  /\ UNCHANGED <<turning, pending, built, listening, ringing, errands, landing,
                 slot, task>>

\* A system of the schedule arms a deadline or registers a source.
ScheduleSpawns(t) ==
  /\ On("schedule") /\ task[t] = "unmade"
  /\ Spawn(t)
  /\ UNCHANGED <<turning, stack, listening, ringing, errands, landing, slot>>

\* It lets one go: `Task::drop` of a handle that is there.
ScheduleDrops(t) ==
  /\ On("schedule") /\ task[t] \in {"idle", "woken"}
  /\ Abort(t)
  /\ UNCHANGED <<turning, stack, built, listening, ringing, errands, landing, slot>>

PassEnds ==
  /\ On("schedule")
  /\ stack' = <<>>
  /\ UNCHANGED <<turning, pending, built, listening, ringing, errands, landing,
                 slot, task>>

ExecutorNext ==
  \/ \E t \in Errands : SendErrand(t) \/ DropErrand(t) \/ Land(t)
  \/ \E t \in Calls : SendCall(t)
  \/ \E t \in Sent : Ring(t)
  \/ \E t \in Local : WakeTask(t) \/ PollTask(t)
  \/ \E t \in Deadlines : ScheduleSpawns(t) \/ ScheduleDrops(t)
  \/ AskForPass \/ Turn
  \/ PerformRing \/ RunErrand \/ RunCall \/ RingEnds
  \/ PerformDrive \/ DriveEnds
  \/ PerformPass \/ Drain \/ DrainEnds \/ PassEnds

\* The thread goes on with what it is in; a signalled source is performed
\* once the loop is parked again; the local set takes its tasks in turn.
ExecutorFairness ==
  /\ WF_executorVars(Turn)
  /\ \A t \in Sent : WF_executorVars(Ring(t))
  /\ WF_executorVars(RunErrand \/ RunCall \/ (\E t \in Errands : Land(t)) \/ RingEnds)
  /\ WF_executorVars(DriveEnds)
  /\ WF_executorVars(Drain \/ DrainEnds \/ PassEnds)
  /\ SF_executorVars(PerformRing) /\ SF_executorVars(PerformDrive)
  /\ \A t \in Local : SF_executorVars(PollTask(t))

ExecutorSpec == ExecutorInit /\ [][ExecutorNext]_executorVars /\ ExecutorFairness

(***************************************************************************)
(* Properties.                                                             *)
(***************************************************************************)
\* A task that has something to do always has a turn of the driver coming:
\* before the first poll the local set has no waker, and only `signal` after
\* the spawn brings that poll about.
NoTaskStranded == \A t \in Local : Queued(t) => "DRIVER" \in pending \/ Inside("drive")

\* A task whose owner has let go ends, whichever of the drop and the handle's
\* arrival came first, so nothing runs on for nobody; and whoever
\* awaits a call is answered, although the loop was rung before it turned or is
\* rung from inside one of its own passes.
ErrandsSettle ==
  /\ \A t \in Errands : slot[t] = "dropped" ~> task[t] = "gone"
  /\ \A t \in Calls : task[t] = "sent" ~> task[t] = "gone"
=============================================================================
