------------------------------- MODULE Reload -------------------------------
(***************************************************************************)
(* Items and the config that puts them on the bar: the requests that add,  *)
(* touch and remove items (requests.rs `apply`, ecs.rs `apply_requests`),  *)
(* and the reload that runs the config again and drops what it left out    *)
(* (ecs.rs `reload_config` and `settle_reload`, sources/config.rs          *)
(* `reload`).                                                              *)
(*                                                                         *)
(* A reload clears nothing: it marks every item `Stale`, a touched item    *)
(* loses its mark, and a run that succeeds despawns what is still marked.  *)
(* `BeginConfig` and `EndConfig` use the same mark for a bracket of        *)
(* requests.  The name index changes with the request, the world only when *)
(* the batch's commands are applied.                                       *)
(*                                                                         *)
(* Clients are synchronous: one request each until it is answered.  A      *)
(* request reaches the queue between passes, or while an earlier one       *)
(* re-enters the run loop.                                                 *)
(***************************************************************************)
EXTENDS Integers, Sequences, FiniteSets

CONSTANTS Name,          \* item names
          Outsider,      \* clients that are not the config: scripts, a shell
          MaxRuns,       \* bound: how often the config is asked for
          MaxEntities    \* bound: entities in use at once

ASSUME ReloadAssumption == /\ Name # {}
                           /\ MaxRuns \in Nat \ {0} /\ MaxEntities \in Nat \ {0}

Run == 1 .. MaxRuns
Entity == 1 .. MaxEntities
Sender == Run \cup Outsider
None == 0
Nobody == "nobody"

VARIABLES
  main,        \* where the main thread is in its pass
  wake,        \* a pass has been asked for
  inbox,       \* `Requests`
  waiting,     \* clients whose request is not answered
  items,       \* the world: which item each live entity is
  marked,      \* entities with `Stale`
  index,       \* `Index`: name to entity
  spawning, marking, despawning,   \* the batch's commands, by entity
  saved,       \* the watcher sent an event that has not been drained
  recent,      \* `Debounce`: it admitted one less than DEBOUNCE ago
  edited,      \* the config file was edited, and a run yet to begin will find it so
  reloading,   \* `Reloading`
  watch,       \* `ReloadWatch`: the run whose answer is awaited
  run,         \* each run: how far it is, and what it came to
  asks,        \* how often a run has been asked for
  kept,        \* ghost: touched for the awaited run since the last marking
  shared       \* ghost: an older run was still going when the last one began

world == <<items, marked, index>>
commands == <<spawning, marking, despawning>>
watcher == <<saved, recent, edited>>
reloadVars == <<watcher, reloading, watch, run, asks, shared>>
vars == <<main, wake, inbox, waiting, world, commands, reloadVars, kept>>

Op == {"add", "set", "remove", "setAll", "removeAll", "begin", "end", "other", "reload"}
Phase == {"none", "running", "ended", "sent", "gone"}

TypeOK ==
  /\ main \in {"parked", "applying", "nested", "updating", "settling"}
  /\ wake \in BOOLEAN
  /\ \A k \in 1 .. Len(inbox) : inbox[k] \in [from : Sender, op : Op, name : Name]
  /\ waiting \subseteq Sender
  /\ items \in [Entity -> Name \cup {Nobody}]
  /\ marked \subseteq {e \in Entity : items[e] # Nobody}
  /\ index \in [Name -> Entity \cup {None}]
  /\ spawning \in [Entity -> Name \cup {Nobody}]
  /\ marking \in [Entity -> {"keep", "mark", "lift"}] /\ despawning \subseteq Entity
  /\ saved \in BOOLEAN /\ recent \in BOOLEAN /\ edited \in BOOLEAN
  /\ reloading \in BOOLEAN /\ shared \in BOOLEAN
  /\ watch \in Run \cup {None}
  /\ run \in [Run -> [phase : Phase, ok : BOOLEAN]]
  /\ asks \in Run
  /\ kept \subseteq Entity

NoSpawns == [e \in Entity |-> Nobody]
NoMarks == [e \in Entity |-> "keep"]

\* The daemon starts with nothing on the bar and a config to run.
Init ==
  /\ main = "parked" /\ wake = TRUE
  /\ inbox = <<>> /\ waiting = {}
  /\ items = NoSpawns /\ marked = {} /\ index = [n \in Name |-> None]
  /\ spawning = NoSpawns /\ marking = NoMarks /\ despawning = {}
  /\ saved = FALSE /\ recent = FALSE /\ edited = FALSE
  /\ reloading = TRUE /\ watch = None
  /\ run = [r \in Run |-> [phase |-> "none", ok |-> FALSE]]
  /\ asks = 1
  /\ kept = {} /\ shared = FALSE

Live == {e \in Entity : items[e] # Nobody}
InUse == Live \cup {e \in Entity : spawning[e] # Nobody}
Started == Cardinality({r \in Run : run[r].phase # "none"})

-----------------------------------------------------------------------------
(* Clients.                                                                 *)

\* The kernel has a message for the port, and the run loop is there to take it.
Deliver(s, op, n) ==
  /\ main \in {"parked", "nested"}
  /\ s \notin waiting
  /\ (op = "add") =>
       Cardinality(InUse) + Cardinality({k \in 1 .. Len(inbox) : inbox[k].op = "add"})
         < MaxEntities
  /\ inbox' = Append(inbox, [from |-> s, op |-> op, name |-> n])
  /\ waiting' = waiting \cup {s}
  /\ wake' = TRUE
  /\ UNCHANGED <<main, world, commands, watcher, reloading, watch, run, shared, kept>>

\* Requests that name no item carry the same arbitrary one.
Unnamed == CHOOSE n \in Name : TRUE

OutsiderCalls(o) ==
  \/ /\ \/ \E op \in {"add", "set", "remove"}, n \in Name : Deliver(o, op, n)
        \/ \E op \in {"setAll", "removeAll", "other"} : Deliver(o, op, Unnamed)
     /\ UNCHANGED asks
  \/ asks < MaxRuns /\ asks' = asks + 1 /\ Deliver(o, "reload", Unnamed)

ConfigCalls(r) ==
  /\ run[r].phase = "running"
  /\ \/ \E op \in {"add", "set"}, n \in Name : Deliver(r, op, n)
     \/ \E op \in {"begin", "end"} : Deliver(r, op, Unnamed)
  /\ UNCHANGED asks

\* The config file is edited. `Debounce::admit`: the first event in a while
\* sends a `ConfigReloaded`; those within DEBOUNCE of it are refused, and
\* nobody remembers them: such an edit is read by a run that was asked for and
\* has not begun, or by none.
Save ==
  /\ \/ /\ ~recent /\ asks < MaxRuns
        /\ recent' = TRUE /\ asks' = asks + 1
        /\ saved' = TRUE /\ wake' = TRUE /\ edited' = TRUE
     \/ /\ recent
        /\ edited' = (edited \/ reloading)
        /\ UNCHANGED <<recent, asks, saved, wake>>
  /\ UNCHANGED <<main, inbox, waiting, world, commands, reloading, watch, run, shared, kept>>

WindowCloses ==
  /\ recent
  /\ recent' = FALSE
  /\ UNCHANGED <<main, wake, inbox, waiting, world, commands, saved, edited, reloading, watch,
                 run, asks, shared, kept>>

-----------------------------------------------------------------------------
(* A pass: events, then every request that is queued, then the commands.    *)

BeginPass ==
  /\ main = "parked"
  /\ main' = "applying"
  /\ wake' = FALSE
  /\ reloading' = (reloading \/ saved) /\ saved' = FALSE
  /\ UNCHANGED <<inbox, waiting, world, commands, recent, edited, watch, run, asks, shared, kept>>

Mark(set) == marking' = [e \in Entity |-> IF e \in set THEN "mark" ELSE marking[e]]

\* Touching an item during a reload is what keeps it.
LiftsNothing(set) == marking' = marking

Lift(set) == marking' = [e \in Entity |-> IF e \in set THEN "lift" ELSE marking[e]]

\* A touch counts for the awaited run when it is that run's, or no config's.
Touch(s, set) ==
  /\ Lift(set)
  /\ kept' = IF s \in Outsider \/ s = watch THEN kept \cup set ELSE kept

Forget(set) ==
  /\ index' = [n \in Name |-> IF \E e \in set : items[e] = n THEN None ELSE index[n]]
  /\ despawning' = despawning \cup set

\* Re-adding an item keeps its entity.
Add(s, n) ==
  \/ /\ index[n] # None
     /\ Touch(s, {index[n]})
     /\ UNCHANGED <<index, spawning, despawning>>
  \/ /\ index[n] = None
     /\ \E e \in Entity \ InUse :
          /\ \A f \in Entity \ InUse : e <= f
          /\ spawning' = [spawning EXCEPT ![e] = n]
          /\ index' = [index EXCEPT ![n] = e]
          /\ kept' = IF s \in Outsider \/ s = watch THEN kept \cup {e} ELSE kept
     /\ UNCHANGED <<marking, despawning>>

\* An item added by this same batch is not there to be set.
Set(s, n) ==
  /\ Touch(s, {index[n]} \cap Live)
  /\ UNCHANGED <<index, spawning, despawning>>

SetAll(s) == Touch(s, Live) /\ UNCHANGED <<index, spawning, despawning>>

Remove(n) ==
  /\ index' = [index EXCEPT ![n] = None]
  /\ despawning' = despawning \cup ({index[n]} \ {None})
  /\ UNCHANGED <<spawning, marking, kept>>

\* A pattern is matched against the world, not the index.
RemoveAll == Forget(Live) /\ UNCHANGED <<spawning, marking, kept>>

\* An item spawned by this same batch is not there to be marked.
BeginConfig ==
  /\ Mark(Live)
  /\ kept' = kept \ Live
  /\ UNCHANGED <<index, spawning, despawning>>

EndConfig == Forget(marked) /\ UNCHANGED <<spawning, marking, kept>>

Apply ==
  LET q == Head(inbox) IN
  /\ main = "applying" /\ inbox # <<>>
  /\ q.op # "other"
  /\ inbox' = Tail(inbox) /\ waiting' = waiting \ {q.from}
  /\ \/ q.op = "add" /\ Add(q.from, q.name)
     \/ q.op = "set" /\ Set(q.from, q.name)
     \/ q.op = "setAll" /\ SetAll(q.from)
     \/ q.op = "remove" /\ Remove(q.name)
     \/ q.op = "removeAll" /\ RemoveAll
     \/ q.op = "begin" /\ BeginConfig
     \/ q.op = "end" /\ EndConfig
     \/ q.op = "reload" /\ UNCHANGED <<index, commands, kept>>
  /\ reloading' = (reloading \/ q.op = "reload")
  /\ UNCHANGED <<main, wake, items, marked, watcher, watch, run, asks, shared>>

\* A request about the bar's windows re-enters the run loop while it is applied.
Reenter ==
  /\ main = "applying" /\ inbox # <<>> /\ Head(inbox).op = "other"
  /\ inbox' = Tail(inbox)
  /\ main' = "nested"
  /\ UNCHANGED <<wake, waiting, world, commands, reloadVars, kept>>

Return ==
  /\ main = "nested"
  /\ main' = "applying"
  /\ waiting' = {inbox[k].from : k \in 1 .. Len(inbox)}
  /\ UNCHANGED <<wake, inbox, world, commands, reloadVars, kept>>

\* What is left of the marks once the commands are applied: a despawn takes the
\* mark with the entity.
Marks(present) ==
  {e \in present : marking[e] = "mark" \/ (e \in marked /\ marking[e] = "keep")}

\* The queue is dry: the commands are applied, in the order they were queued.
Flush ==
  LET after == [e \in Entity |-> IF e \in despawning THEN Nobody
                                 ELSE IF spawning[e] # Nobody THEN spawning[e] ELSE items[e]]
      present == {e \in Entity : after[e] # Nobody} IN
  /\ main = "applying" /\ inbox = <<>>
  /\ main' = "updating"
  /\ items' = after
  /\ marked' = Marks(present)
  /\ kept' = kept \cap present
  /\ spawning' = NoSpawns /\ marking' = NoMarks /\ despawning' = {}
  /\ UNCHANGED <<wake, inbox, waiting, index, reloadVars>>

-----------------------------------------------------------------------------
(* The reload.                                                              *)

\* `reload_config`: every item is marked, and a run started whose answer
\* replaces whichever was awaited.
AllStaleForgotten == marked

AllStale == Live

RunBegins ==
  /\ marked' = AllStale /\ kept' = {}
  /\ watch' = Started + 1
  /\ shared' = (\E r \in Run : run[r].phase = "running")
  /\ run' = [run EXCEPT ![Started + 1].phase = "running"]
  /\ edited' = FALSE

NoRunBegins == UNCHANGED <<marked, kept, watch, shared, run, edited>>

StartUnlessRunning == IF reloading /\ watch = None THEN RunBegins ELSE NoRunBegins

Start == IF reloading THEN RunBegins ELSE NoRunBegins

ReloadConfig ==
  /\ main = "updating"
  /\ main' = "settling"
  /\ reloading' = FALSE
  /\ Start
  /\ UNCHANGED <<wake, inbox, waiting, items, index, commands, saved, recent, asks>>

\* The script exits.  One that failed need not have waited for its answer.
ConfigExits(r, ok) ==
  /\ run[r].phase = "running"
  /\ ok => r \notin waiting
  /\ run' = [run EXCEPT ![r] = [phase |-> "ended", ok |-> ok]]
  /\ UNCHANGED <<main, wake, inbox, waiting, world, commands, watcher, reloading, watch,
                 asks, shared, kept>>

SendOutcome(r) ==
  /\ run[r].phase = "ended"
  /\ run' = [run EXCEPT ![r].phase = "sent"]
  /\ UNCHANGED <<main, wake, inbox, waiting, world, commands, watcher, reloading, watch,
                 asks, shared, kept>>

Woken == wake' = TRUE

\* Sent first, so the pass this asks for finds the answer already there.
Signal(r) ==
  /\ run[r].phase = "sent"
  /\ run' = [run EXCEPT ![r].phase = "gone"]
  /\ Woken
  /\ UNCHANGED <<main, inbox, waiting, world, commands, watcher, reloading, watch,
                 asks, shared, kept>>

\* `settle_reload`.
Answered == watch # None /\ run[watch].phase \in {"sent", "gone"}

Sweeps == run[watch].ok

SettleReload ==
  /\ main = "settling"
  /\ main' = "parked"
  /\ \/ /\ Answered
        /\ watch' = None /\ marked' = {}
        /\ IF Sweeps
           THEN /\ items' = [e \in Entity |-> IF e \in marked THEN Nobody ELSE items[e]]
                /\ index' = [n \in Name |-> IF \E e \in marked : items[e] = n
                                            THEN None ELSE index[n]]
           ELSE UNCHANGED <<items, index>>
     \/ ~Answered /\ UNCHANGED <<world, watch>>
  /\ UNCHANGED <<wake, inbox, waiting, commands, watcher, reloading, run, asks, shared, kept>>

ConfigRuns(r) == \/ ConfigCalls(r) \/ SendOutcome(r) \/ Signal(r)
                 \/ \E ok \in BOOLEAN : ConfigExits(r, ok)

Next == \/ \E o \in Outsider : OutsiderCalls(o)
        \/ \E r \in Run : ConfigRuns(r)
        \/ Save \/ WindowCloses \/ BeginPass \/ Apply \/ Reenter \/ Return \/ Flush
        \/ ReloadConfig \/ SettleReload

\* A pass that was asked for begins, a pass that began ends, and what the task
\* does after the script exits it gets to do.  No script has to exit.
Fairness ==
  /\ WF_vars(wake /\ BeginPass) /\ WF_vars(Apply) /\ WF_vars(Reenter) /\ WF_vars(Return)
  /\ WF_vars(Flush) /\ WF_vars(ReloadConfig) /\ WF_vars(SettleReload)
  /\ \A r \in Run : WF_vars(SendOutcome(r)) /\ WF_vars(Signal(r))

Spec == Init /\ [][Next]_vars /\ Fairness

-----------------------------------------------------------------------------
Settles == watch # None /\ watch' = None
Swept == {e \in Live : items'[e] = Nobody}

\* When a config that ran alone succeeds, everything it left out goes.
DropsWhatWasLeftOut ==
  [][(Settles /\ run[watch].ok /\ ~shared) => Live \ Swept \subseteq kept]_vars

\* A sweep takes nothing it should not: no item the config added or set, nor one
\* a script did since the items were marked, whatever brackets and batches the
\* requests came in; and a config that fails costs the bar nothing, items go
\* when a request says so or when the run that is awaited has succeeded.
SweepsNoMore ==
  /\ [][Settles => Swept \cap kept = {}]_vars
  /\ [][Swept # {} => (despawning # {} \/ (watch # None /\ run[watch].ok))]_vars

\* An edit that was let through, or that was refused before the run it would
\* have asked for had begun, is followed by a run that begins after it, though
\* one was already in flight when it was made; an edit refused later is not,
\* until something else asks for a run. And a run that has answered is settled,
\* though nothing else should ever happen.
EditIsRun ==
  /\ edited ~> ~edited
  /\ Answered ~> ~Answered

\* components.rs on `Stale`: "what is still marked when the run *succeeds* is
\* what the new config dropped".
DroppedGoes == [][(Settles /\ run[watch].ok) => Live \ Swept \subseteq kept]_vars

\* components.rs on `Index`: "Kept in step by the systems that spawn and despawn".
IndexInStep ==
  main = "parked" => \A e \in Live : index[items[e]] = e
=============================================================================
