----------------------------- MODULE AliasWatch -----------------------------
(***************************************************************************)
(* Accessibility observers for aliased items (alias_watch.rs): one for each   *)
(* application, made, matched again and dropped by errands on the sources     *)
(* thread, while the main thread decides which aliases it is for.            *)
(*                                                                         *)
(* A registration with an application is a `Context` with the aliases it      *)
(* watches, a task that creates the observer and then matches it again        *)
(* whenever it is asked, and the observer itself, which the sources thread    *)
(* keeps in a map of its own under the application's pid.                     *)
(***************************************************************************)
EXTENDS Naturals, Sequences

CONSTANTS
  Mirrored,       \* entities with an alias
  Pids,           \* applications that own menu bar items
  Frames,         \* where an item can be, or what it can be called
  MaxContexts     \* bound: registrations made in a behaviour

ASSUME AliasWatchAssumption == 0 \notin Pids \cup Frames /\ MaxContexts \in Nat

Contexts == 1..MaxContexts

VARIABLES
  made,       \* registrations made so far
  pidOf,      \* `entity_pid`, 0 for none
  watching,   \* `watching`: the registration of each application, or 0
  watched,    \* `Context::watched` of each registration: entity to frame, or 0
  owner,      \* the application of each registration
  failed,     \* `failed`
  step,       \* where the task of each registration is
  lame,       \* tasks that were aborted while they ran: one step is left them
  permit,     \* `resync` of each holds a permit
  queue,      \* the errands of the sources thread
  observer,   \* PID_OBSERVERS: the registration whose observer it holds, or 0
  matched,    \* what that observer's targets were matched against
  kept,       \* its last rebuild was refused, so it is the one before
  results,    \* `results`: failures not applied
  outlived,   \* ghost: failures ended a registration none of them was of
  posted      \* entities posted dirty and not taken

watchVars == <<made, pidOf, watching, watched, owner, failed, step, lame, permit, queue,
               observer, matched, kept, results, outlived, posted>>

Watchers == [Mirrored -> Frames \cup {0}]
NoOne == [e \in Mirrored |-> 0]
Empty(c) == watched[c] = NoOne
Errands == [errand: {"create", "resync", "drop"}, pid: Pids, context: 0..MaxContexts]

AliasWatchTypeOK ==
  /\ made \in 0..MaxContexts
  /\ pidOf \in [Mirrored -> Pids \cup {0}]
  /\ watching \in [Pids -> 0..MaxContexts] /\ observer \in [Pids -> 0..MaxContexts]
  /\ watched \in [Contexts -> Watchers] /\ matched \in [Pids -> Watchers]
  /\ owner \in [Contexts -> Pids \cup {0}]
  /\ failed \subseteq Pids /\ kept \subseteq Pids
  /\ step \in [Contexts -> {"none", "spawned", "creating", "refused", "created", "asking", "gone"}]
  /\ lame \subseteq Contexts /\ permit \subseteq Contexts /\ outlived \subseteq Pids
  /\ queue \in Seq(Errands)
  /\ \A r \in results : r \in [pid: Pids, of: Contexts, trusted: BOOLEAN]
  /\ posted \subseteq Mirrored

AliasWatchInit ==
  /\ made = 0
  /\ pidOf = [e \in Mirrored |-> 0]
  /\ watching = [p \in Pids |-> 0] /\ observer = [p \in Pids |-> 0]
  /\ watched = [c \in Contexts |-> NoOne] /\ matched = [p \in Pids |-> NoOne]
  /\ owner = [c \in Contexts |-> 0]
  /\ step = [c \in Contexts |-> "none"]
  /\ failed = {} /\ lame = {} /\ permit = {} /\ kept = {} /\ results = {}
  /\ outlived = {} /\ posted = {}
  /\ queue = <<>>

Errand(e, p, c) == [errand |-> e, pid |-> p, context |-> c]

(***************************************************************************)
(* The main thread: `AxWatch`. Its state is gathered in a record, so that     *)
(* one call can apply the results, detach and watch, as `sync_one` does.     *)
(***************************************************************************)
Main == [made |-> made, pidOf |-> pidOf, watching |-> watching, watched |-> watched,
         owner |-> owner, failed |-> failed, step |-> step, lame |-> lame,
         permit |-> permit, queue |-> queue, outlived |-> outlived]

Becomes(m) ==
  /\ made' = m.made /\ pidOf' = m.pidOf /\ watching' = m.watching
  /\ watched' = m.watched /\ owner' = m.owner /\ failed' = m.failed
  /\ step' = m.step /\ lame' = m.lame /\ permit' = m.permit
  /\ queue' = m.queue /\ outlived' = m.outlived

\* Dropping a `Watching` drops its task, which is aborted where it waits, or,
\* if it is in the middle of a step, after it.
Midstep == {"spawned", "refused"}
Abort(m, cs) ==
  [m EXCEPT !.lame = @ \cup {c \in cs : m.step[c] \in Midstep},
            !.step = [c \in Contexts |-> IF c \in cs /\ @[c] \notin Midstep THEN "gone" ELSE @[c]]]

\* `apply_results`: a failure ends whatever is watched under its pid.
FailuresOf(p) == {r.of : r \in {x \in results : x.pid = p}}
Applied(m) ==
  LET pids == {r.pid : r \in results}
  IN [Abort(m, {m.watching[p] : p \in pids} \ {0}) EXCEPT
       !.watching = [p \in Pids |-> IF p \in pids THEN 0 ELSE @[p]],
       !.failed = @ \cup {r.pid : r \in {x \in results : x.trusted}},
       !.pidOf = [e \in Mirrored |-> IF @[e] \in pids THEN 0 ELSE @[e]],
       !.outlived = @ \cup {p \in pids : m.watching[p] \notin {0} \cup FailuresOf(p)}]

\* What an alias of a registration is changes, and its task is asked to match again.
Rematch(m, c, e, f) == [m EXCEPT !.watched[c][e] = f, !.permit = @ \cup {c}]

\* A registration ends, and its observer is to be taken down.
Close(m, c, e, p) ==
  [Abort([m EXCEPT !.watched[c][e] = 0], {c}) EXCEPT
    !.watching[p] = 0, !.queue = Append(@, Errand("drop", p, 0))]

\* `detach`: the last one takes the observer down, and any other asks for a
\* new match, since what it matched may be another's now.
Detach(m, e, p) ==
  LET c == m.watching[p]
  IN IF c = 0 THEN m
     ELSE IF [m.watched[c] EXCEPT ![e] = 0] = NoOne THEN Close(m, c, e, p)
          ELSE Rematch(m, c, e, 0)

\* A pid that is not watched yet: `watch` spawns the task.
Seed(m, e, p, f) ==
  LET c == m.made + 1
  IN [m EXCEPT !.made = c, !.watching[p] = c, !.watched[c] = [NoOne EXCEPT ![e] = f],
               !.owner[c] = p, !.step[c] = "spawned"]

\* One that is: its task is asked to match again if the entry is not the same.
Join(m, e, p, f) ==
  LET c == m.watching[p]
  IN IF m.watched[c][e] = f THEN m ELSE Rematch(m, c, e, f)

\* An alias that moved to another application (or to none) is detached first.
Moved(m, e, p) ==
  IF m.pidOf[e] = p THEN m
  ELSE [IF m.pidOf[e] = 0 THEN m ELSE Detach(m, e, m.pidOf[e]) EXCEPT !.pidOf[e] = p]

SyncOne(e, p, f) ==
  LET m == Moved(Applied(Main), e, p)
  IN /\ p # 0 /\ p \notin m.failed /\ m.watching[p] = 0 => m.made < MaxContexts
     /\ Becomes(IF p = 0 \/ p \in m.failed THEN m
                ELSE IF m.watching[p] = 0 THEN Seed(m, e, p, f) ELSE Join(m, e, p, f))
     /\ results' = {}
     /\ UNCHANGED <<observer, matched, kept, posted>>

Forget(e) ==
  /\ pidOf[e] # 0
  /\ Becomes([Detach(Main, e, pidOf[e]) EXCEPT !.pidOf[e] = 0])
  /\ UNCHANGED <<observer, matched, kept, results, posted>>

TakeDirtySet ==
  /\ posted # {} /\ posted' = {}
  /\ UNCHANGED <<made, pidOf, watching, watched, owner, failed, step, lame, permit, queue,
                 observer, matched, kept, results, outlived>>

(***************************************************************************)
(* The task of a registration, on the pool.                                *)
(***************************************************************************)
TaskVars == <<made, pidOf, watching, watched, owner, failed, observer, matched, kept,
              outlived, posted>>

\* An aborted task goes, at once or after the step it was in.
Go(c, to) == step' = [step EXCEPT ![c] = IF c \in lame THEN "gone" ELSE to]
Vanish(c) ==
  /\ c \in lame /\ step[c] # "gone"
  /\ step' = [step EXCEPT ![c] = "gone"]
  /\ UNCHANGED <<TaskVars, lame, permit, queue, results>>

AskCreate(c) ==
  /\ step[c] = "spawned" /\ Go(c, "creating")
  /\ queue' = Append(queue, Errand("create", owner[c], c))
  /\ UNCHANGED <<TaskVars, lame, permit, results>>

\* A creation that was refused is answered for.
Answer(c, trusted) ==
  /\ step[c] = "refused" /\ Go(c, "gone")
  /\ results' = results \cup {[pid |-> owner[c], of |-> c, trusted |-> trusted]}
  /\ UNCHANGED <<TaskVars, lame, permit, queue>>

\* `woken.notified()`.
AskResync(c) ==
  /\ step[c] = "created" /\ c \in permit
  /\ permit' = permit \ {c} /\ Go(c, "asking")
  /\ queue' = Append(queue, Errand("resync", owner[c], c))
  /\ UNCHANGED <<TaskVars, lame, results>>

(***************************************************************************)
(* The sources thread.                                                     *)
(***************************************************************************)
SourcesVars == <<made, pidOf, watching, watched, owner, failed, lame, permit, results,
                 outlived, posted>>
Running(e) == queue # <<>> /\ Head(queue).errand = e /\ queue' = Tail(queue)

\* What the errand answers reaches the task if that is still there to hear it.
Hears(c, from, to) ==
  step' = IF step[c] = from THEN [step EXCEPT ![c] = IF c \in lame THEN "gone" ELSE to] ELSE step

\* `create_on_sources`: an observer of a registration that was emptied while
\* it was made is not kept.
KeepsAlways(c) == TRUE
Keeps(c) == ~Empty(c)
CreateOnSources ==
  /\ Running("create")
  /\ LET c == Head(queue).context
         p == Head(queue).pid
     IN \/ /\ Hears(c, "creating", "created")
           /\ observer' = IF Keeps(c) THEN [observer EXCEPT ![p] = c] ELSE observer
           /\ matched' = IF Keeps(c) THEN [matched EXCEPT ![p] = watched[c]] ELSE matched
           /\ kept' = IF Keeps(c) THEN kept \ {p} ELSE kept
        \/ /\ step' = [step EXCEPT ![c] = IF @ = "creating" THEN "refused" ELSE @]
           /\ UNCHANGED <<observer, matched, kept>>
  /\ UNCHANGED SourcesVars

\* `resync_on_sources`: the observer there is built again from its own
\* context; the one before stays if that is refused.
ResyncOnSources ==
  /\ Running("resync")
  /\ LET p == Head(queue).pid
     IN \/ /\ observer[p] # 0
           /\ matched' = [matched EXCEPT ![p] = watched[observer[p]]]
           /\ kept' = kept \ {p}
        \/ /\ kept' = IF observer[p] = 0 THEN kept ELSE kept \cup {p}
           /\ UNCHANGED matched
     /\ Hears(Head(queue).context, "asking", "created")
  /\ UNCHANGED <<SourcesVars, observer>>

DropOnSources ==
  /\ Running("drop")
  /\ LET p == Head(queue).pid
     IN observer' = [observer EXCEPT ![p] = 0] /\ matched' = [matched EXCEPT ![p] = NoOne]
        /\ kept' = kept \ {p}
  /\ UNCHANGED <<SourcesVars, step>>

\* `on_notification`: what a target was matched to is posted, and for a target
\* that was matched to nothing everything the application owns is.
Named(p, f) == {e \in Mirrored : matched[p][e] = f}
OnNotification(p, f) ==
  /\ observer[p] # 0
  /\ \/ \E e \in Named(p, f) : posted' = posted \cup {e}
     \/ Named(p, f) = {} /\ posted' = posted \cup {e \in Mirrored : watched[observer[p]][e] # 0}
  /\ UNCHANGED <<made, pidOf, watching, watched, owner, failed, step, lame, permit, queue,
                 observer, matched, kept, results, outlived>>

AliasWatchNext ==
  \/ \E e \in Mirrored :
       Forget(e) \/ \E p \in Pids \cup {0}, f \in Frames : SyncOne(e, p, f)
  \/ TakeDirtySet
  \/ \E c \in Contexts : Vanish(c) \/ AskCreate(c) \/ AskResync(c) \/ \E t \in BOOLEAN : Answer(c, t)
  \/ CreateOnSources \/ ResyncOnSources \/ DropOnSources
  \/ \E p \in Pids, f \in Frames : OnNotification(p, f)

AliasWatchSpec == AliasWatchInit /\ [][AliasWatchNext]_watchVars

\* Nothing is on its way between the threads.
Quiescent(p) ==
  /\ \A i \in DOMAIN queue : queue[i].pid # p
  /\ \A c \in Contexts : owner[c] = p =>
       /\ step[c] \in {"none", "created", "gone"}
       /\ c \in permit => step[c] # "created"
  /\ \A r \in results : r.pid # p

\* Whenever nothing is on its way, the observer of an application is the one
\* of the registration the main thread has, it is matched against exactly the
\* aliases watched there (unless the framework refused a rebuild), and an
\* application with no registration has no observer: however creating,
\* detaching, watching anew and failing overlap. The exception is a failure
\* that ended a later registration of the same pid, which had not failed.
ObservesWhatIsWatched ==
  \A p \in Pids : Quiescent(p) /\ p \notin outlived =>
    /\ observer[p] = watching[p]
    /\ watching[p] # 0 /\ p \notin kept => matched[p] = watched[watching[p]]
====
