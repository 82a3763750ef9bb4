------------------------------- MODULE Scripts -------------------------------
(* An item's script: the deadlines its `update_freq` stands on (ecs.rs,       *)
(* `routines`), what else queues it, and the workers that run it (script.rs). *)
(* Time is counted in seconds of a clock that neither sleeps nor is set.      *)
EXTENDS Integers, Sequences, SequencesExt, FiniteSets

CONSTANTS ScriptItems,     \* entities; one that was despawned never comes back
          Frequencies,     \* `update_freq`, in seconds; 0 is none
          ScriptWorkers,   \* scripts that run at once
          MaxTime,         \* seconds until the clock is stopped
          MaxScriptInputs  \* requests, clicks and events

ASSUME ScriptsAssumption == ScriptWorkers \in Nat \ {0} /\ 0 \in Frequencies
                            /\ Frequencies \subseteq Nat /\ IsFiniteSet(ScriptItems)
                            /\ {MaxTime, MaxScriptInputs} \subseteq Nat

VARIABLES row,        \* what the item's entity holds, or that there is none
          standing,   \* its deadline, and whether that has asked for its pass
          now,        \* the second it is
          passWanted, \* a pass was asked for
          channel,    \* the jobs queued for the workers
          atHand,     \* the one the dispatcher took, until a permit is free
          permits,    \* free ones
          starting,   \* scripts about to be started
          running,    \* scripts whose standard error is open
          waiting,    \* scripts that are waited for
          inputs      \* requests, clicks and events so far
runnerVars == <<atHand, permits, starting, running, waiting>>
itemVars == <<row, standing, now, passWanted, inputs>>
scriptsVars == <<itemVars, channel, runnerVars>>

Unborn == [is |-> "unborn"]
Gone == [is |-> "gone"]
Live(every, updates) == [is |-> "live", every |-> every, updates |-> updates]
NotArmed == [armed |-> FALSE]
Armed(at, every) == [armed |-> TRUE, at |-> at, every |-> every, fired |-> FALSE]

IsLive(r, i) == r[i].is = "live"
Wanting(r, i) == IsLive(r, i) /\ r[i].every > 0 /\ r[i].updates

\* A boundary that is now is the one after.
NextBoundary(every) == now + (every - (now % every))

\* An item first seen is due at once, one whose frequency moved is not.
Due(i) == standing[i].armed => now >= standing[i].at
Retuned(r, i) == standing[i].armed => standing[i].every # r[i].every

ScriptsInit ==
  /\ row = [i \in ScriptItems |-> Unborn] /\ standing = [i \in ScriptItems |-> NotArmed]
  /\ now = 0 /\ passWanted = FALSE /\ inputs = 0
  /\ channel = <<>> /\ atHand = <<>> /\ permits = ScriptWorkers
  /\ starting = 0 /\ running = 0 /\ waiting = 0

Second == /\ now < MaxTime /\ now' = now + 1
        /\ UNCHANGED <<row, standing, passWanted, inputs, channel, runnerVars>>

\* `wake_at`: the sleep of the deadline an item stands on is over.
Expire(i) == /\ standing[i].armed /\ ~standing[i].fired /\ now >= standing[i].at
             /\ standing' = [standing EXCEPT ![i].fired = TRUE]
             /\ passWanted' = TRUE
             /\ UNCHANGED <<row, now, inputs, channel, runnerVars>>

RearmedWhenDue(r, i) ==
  IF Wanting(r, i) /\ Due(i) THEN Armed(NextBoundary(r[i].every), r[i].every) ELSE standing[i]
\* What `routines` leaves an item standing on. Its old deadline is cancelled by
\* being replaced; that of a despawned item goes in `collect_belongings`.
Rearmed(r, i) ==
  CASE ~Wanting(r, i) -> NotArmed
    [] Wanting(r, i) /\ (Due(i) \/ Retuned(r, i)) -> Armed(NextBoundary(r[i].every), r[i].every)
    [] OTHER -> standing[i]

\* A pass of the schedule: what the items become and run for, the routines
\* that are due, but for those a client hears, and then all of it to the workers.
SchedulePass(r, jobs) ==
  /\ passWanted' = FALSE
  /\ row' = r
  /\ standing' = [i \in ScriptItems |-> Rearmed(r, i)]
  /\ \E heard \in SUBSET ScriptItems :
       channel' = channel \o jobs
                    \o SetToSeq({i \in ScriptItems : Wanting(r, i) /\ Due(i) /\ i \notin heard})
  /\ UNCHANGED <<now, runnerVars>>

Woken == passWanted /\ SchedulePass(row, <<>>) /\ UNCHANGED inputs

\* Requests, clicks and events ask for a pass of their own.
Input(r, jobs) == inputs < MaxScriptInputs /\ inputs' = inputs + 1 /\ SchedulePass(r, jobs)

AddRow(i, every) == row[i] = Unborn /\ Input([row EXCEPT ![i] = Live(every, TRUE)], <<>>)
RemoveRow(i) == IsLive(row, i) /\ Input([row EXCEPT ![i] = Gone], <<>>)
SetRow(i, every, updates) ==
  IsLive(row, i) /\ Input([row EXCEPT ![i] = Live(every, updates)], <<>>)
\* `jobs_for_item`: the click script whether the item is updated or not, the
\* item's own only for an event it is subscribed to, and only if it is.
ClickRow(i, subscribed) ==
  IsLive(row, i) /\ Input(row, <<i>> \o (IF row[i].updates /\ subscribed THEN <<i>> ELSE <<>>))
\* `push_jobs`, for the items that depend on the event; `all_jobs`, for all.
Dispatch(dependents) ==
  Input(row, SetToSeq({i \in dependents : IsLive(row, i) /\ row[i].updates}))
UpdateAll == Input(row, SetToSeq({i \in ScriptItems : IsLive(row, i)}))

\* The dispatcher task: a permit before the script, so the rest stays queued.
Take == /\ atHand = <<>> /\ channel # <<>>
        /\ atHand' = <<Head(channel)>> /\ channel' = Tail(channel)
        /\ UNCHANGED <<itemVars, permits, starting, running, waiting>>
Acquire == /\ atHand # <<>> /\ permits > 0
           /\ atHand' = <<>> /\ permits' = permits - 1 /\ starting' = starting + 1
           /\ UNCHANGED <<itemVars, channel, running, waiting>>

\* `run`: a script that cannot be started gives its permit back; one that was
\* is read until the last process that has its standard error open closes it,
\* then waited for, and it is over even if somebody else reaped it.
StartFails == /\ starting > 0 /\ starting' = starting - 1 /\ permits' = permits + 1
              /\ UNCHANGED <<itemVars, channel, atHand, running, waiting>>
Starts == /\ starting > 0 /\ starting' = starting - 1 /\ running' = running + 1
          /\ UNCHANGED <<itemVars, channel, atHand, permits, waiting>>
ErrorClosed == /\ running > 0 /\ running' = running - 1 /\ waiting' = waiting + 1
               /\ UNCHANGED <<itemVars, channel, atHand, permits, starting>>
Reaped == /\ waiting > 0 /\ waiting' = waiting - 1 /\ permits' = permits + 1
          /\ UNCHANGED <<itemVars, channel, atHand, starting, running>>

ScriptsNext ==
  \/ Second \/ Woken
  \/ \E i \in ScriptItems :
       \/ Expire(i) \/ RemoveRow(i)
       \/ \E every \in Frequencies : AddRow(i, every) \/ \E u \in BOOLEAN : SetRow(i, every, u)
       \/ \E subscribed \in BOOLEAN : ClickRow(i, subscribed)
  \/ \E dependents \in SUBSET ScriptItems : Dispatch(dependents)
  \/ UpdateAll
  \/ Take \/ Acquire \/ StartFails \/ Starts \/ ErrorClosed \/ Reaped

\* A deadline that is reached wakes the loop, and a pass that was asked for runs.
ScriptsSpec == /\ ScriptsInit /\ [][ScriptsNext]_scriptsVars
               /\ WF_scriptsVars(Woken \/ \E i \in ScriptItems : Expire(i))

------------------------------------------------------------------------------
ScriptsTypeOK ==
  /\ row \in [ScriptItems -> {Unborn, Gone} \cup {Live(f, u) : f \in Frequencies, u \in BOOLEAN}]
  /\ now \in 0..MaxTime /\ passWanted \in BOOLEAN /\ inputs \in 0..MaxScriptInputs
  /\ channel \in Seq(ScriptItems) /\ atHand \in {<<>>} \cup {<<i>> : i \in ScriptItems}
  /\ {permits, starting, running, waiting} \subseteq 0..ScriptWorkers

\* Between two passes exactly the items that want updating stand on a deadline,
\* each on a boundary of its own frequency no later than the next one, and one
\* that has fired has its pass coming: no item is forgotten, a bar with nothing
\* to update has no timer, whatever was retuned, switched off or despawned. And
\* no script that ends, or never started, keeps its permit.
RoutinesStand ==
  /\ \A i \in ScriptItems :
       /\ standing[i].armed <=> Wanting(row, i)
       /\ standing[i].armed => /\ standing[i].every = row[i].every
                               /\ (standing[i].at % row[i].every) = 0
                               /\ standing[i].at <= now + row[i].every
                               /\ standing[i].fired => passWanted
  /\ permits + starting + running + waiting = ScriptWorkers

\* An item whose boundary has passed is looked at by a pass, and the one after
\* it armed, or it no longer wants updating.
RoutinesComeDue ==
  \A i \in ScriptItems : (standing[i].armed /\ Due(i)) ~> ~(standing[i].armed /\ Due(i))
==============================================================================
