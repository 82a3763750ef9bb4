------------------------------ MODULE Registry ------------------------------
(***************************************************************************)
(* Claims and sources (sources/mod.rs): items hold handles on the claims   *)
(* of the events they want, a claim lives while a handle on it does, and   *)
(* `Registry` keeps the event sources registered for exactly what is       *)
(* claimed, on the main thread, once a pass.                               *)
(*                                                                         *)
(* The pass is explicit because the handles are components: what a request *)
(* replaces or removes is dropped when the ECS applies its commands, after *)
(* every request of the pass (requests.rs `apply`), and the sources follow *)
(* at the end of the schedule (ecs.rs `settle_sources`).  Declaring custom *)
(* events reconciles the notifications source there and then.              *)
(*                                                                         *)
(* The notifications source (sources/notifications.rs) is the one whose    *)
(* inside is modelled: a row per custom event it observes.  It installs    *)
(* them when it starts, and adjusts them in a task the run loop polls      *)
(* between passes.  It refuses nothing; any other source may.              *)
(***************************************************************************)
EXTENDS Integers, FiniteSets

CONSTANTS Item,             \* what can hold claims: items, and the bar itself
          Bar,              \* the bar's own entity
          Kind,             \* events
          BarWants,         \* what the bar claims on its own behalf
          Custom,           \* kinds a config may declare, bridged or not
          Source,           \* event sources
          Notifications,    \* the one that observes declared events
          Notification,     \* distributed notifications a config may name
          Unbridged,        \* no notification at all
          Fixed,            \* what each source provides whatever is declared
          Pinned            \* sources that are eager

\* A name a config may declare is never a built-in event's (protocol event.rs,
\* `EventName`), and the fixed rows are built-in events.
ASSUME RegistryAssumption ==
  /\ Bar \in Item /\ BarWants \subseteq Kind /\ Custom \subseteq Kind
  /\ Notifications \in Source /\ Pinned \subseteq Source
  /\ Fixed \in [Source -> SUBSET Kind] /\ Unbridged \notin Notification
  /\ IsFiniteSet(Source) /\ Fixed[Notifications] \cap Custom = {}

VARIABLES
  main,        \* where the main thread is in its pass
  handles,     \* Watching: the kinds each item holds a handle on
  leaving,     \* handles replaced or despawned, not yet dropped
  removed,     \* items despawned, until the commands are applied
  dependents,  \* who each live claim delivers to
  moved,       \* a claim was taken or died since the last settle
  events,      \* custom events: "none", or declared and "Wanted" or "Stale"
  named,       \* the notification each declared event is bridged from
  provides,    \* Registered.provides, a cache
  src,         \* each Registered: up (feed), serving, liveness, failed
  stale,       \* how many sources are marked
  rows,        \* the notification observed for each custom event
  adjusting    \* the rows' task has been sent a new set

claimVars == <<handles, leaving, removed, dependents, moved>>
declVars == <<events, named, provides>>
sourceVars == <<src, stale, rows, adjusting>>
vars == <<main, claimVars, declVars, sourceVars>>

Registered == [up : BOOLEAN, serving : SUBSET Kind,
               liveness : {"Wanted", "Stale"}, failed : BOOLEAN]

Bridge == Notification \cup {Unbridged}
NoRows == [c \in Custom |-> Unbridged]

TypeOK ==
  /\ main \in {"starting", "parked", "applying", "updating"}
  /\ handles \in [Item -> SUBSET Kind] /\ leaving \in [Item -> SUBSET Kind]
  /\ removed \subseteq Item
  /\ dependents \in [Kind -> SUBSET Item]
  /\ moved \in BOOLEAN
  /\ events \in [Custom -> {"none", "Wanted", "Stale"}]
  /\ named \in [Custom -> Bridge] /\ rows \in [Custom -> Bridge]
  /\ adjusting \in BOOLEAN
  /\ provides \in [Source -> SUBSET Kind]
  /\ src \in [Source -> Registered]
  /\ stale \in 0 .. Cardinality(Source)

Init ==
  /\ main = "starting"
  /\ handles = [i \in Item |-> IF i = Bar THEN BarWants ELSE {}]
  /\ leaving = [i \in Item |-> {}] /\ removed = {}
  /\ dependents = [k \in Kind |-> IF k \in BarWants THEN {Bar} ELSE {}]
  /\ moved = (BarWants # {})
  /\ events = [c \in Custom |-> "none"]
  /\ named = NoRows /\ rows = NoRows /\ adjusting = FALSE
  /\ provides = Fixed
  /\ src = [s \in Source |-> [up |-> FALSE, serving |-> {},
                              liveness |-> "Wanted", failed |-> FALSE]]
  /\ stale = 0

-----------------------------------------------------------------------------
(* Claims.                                                                  *)

Alive(k) == \E i \in Item : k \in handles[i] \cup leaving[i]

\* `Claims::wanted`: the kinds with a live claim.
Claimed == {k \in Kind : Alive(k)}

\* `watch_all`, then the insert that replaces the item's Watching: a live claim
\* is shared and remembers its new holder, a dead one is made afresh.
Replace(i, kinds) ==
  /\ handles' = [handles EXCEPT ![i] = kinds]
  /\ leaving' = [leaving EXCEPT ![i] = @ \cup handles[i]]
  /\ dependents' = [k \in Kind |-> IF k \in kinds THEN dependents[k] \cup {i}
                                                  ELSE dependents[k]]
  /\ moved' = (moved \/ \E k \in kinds : ~Alive(k))

\* The commands are applied: every handle let go of is dropped, and a claim
\* with no handle left dies.
DropUnforgotten(k) == dependents[k]

DropForgets(k) == dependents[k] \ {i \in Item : k \in leaving[i]}

\* `Drop for Claim` says that something moved.
Died(dead) == moved \/ dead # {}

Flush ==
  LET dead == {k \in Kind : Alive(k) /\ \A i \in Item : k \notin handles[i]} IN
  /\ main = "applying"
  /\ main' = "updating"
  /\ leaving' = [i \in Item |-> {}] /\ removed' = {}
  /\ dependents' = [k \in Kind |-> IF k \in dead THEN {} ELSE DropForgets(k)]
  /\ moved' = Died(dead)
  /\ UNCHANGED <<handles, declVars, sourceVars>>

-----------------------------------------------------------------------------
(* Reconciling a source with what is claimed of it.                         *)

\* `Registered::demand`, given what the source provides.
Demand(s, provided) == IF s \in Pinned THEN provided[s] ELSE provided[s] \cap Claimed

\* `Registered::evict`: the grace pass, then the teardown.
Evicted(r) ==
  IF ~r.up THEN r
  ELSE IF r.liveness = "Wanted" THEN [r EXCEPT !.liveness = "Stale"]
  ELSE [r EXCEPT !.liveness = "Wanted", !.up = FALSE, !.serving = {}]

\* Start it, or adjust it while it runs; a refusal is final.
Register(r, demand, ok) ==
  IF ok THEN [r EXCEPT !.up = TRUE, !.serving = demand]
  ELSE [r EXCEPT !.up = FALSE, !.failed = TRUE, !.serving = {}]

\* `reconcile_against`, where the framework accepts if ok.
Reconciled(r, demand, ok) ==
  IF demand = {} THEN Evicted(r)
  ELSE LET revived == [r EXCEPT !.liveness = "Wanted"] IN
       IF (r.up /\ r.serving = demand) \/ r.failed THEN revived
       ELSE Register(revived, demand, ok)

\* What a marked source does to the count: a sweep and a revival both take the
\* mark back.
UnmarksWhenSwept(before, after) ==
  before.liveness = "Stale" /\ after.liveness = "Wanted" /\ ~after.up

Unmarks(before, after) == before.liveness = "Stale" /\ after.liveness = "Wanted"

Marks(before, after) == before.liveness = "Wanted" /\ after.liveness = "Stale"

\* `install`: a row for each wanted declaration that does not have one.
InstalledOver(kept, wanted, bridges) ==
  [c \in Custom |-> IF c \in wanted /\ kept[c] = Unbridged THEN bridges[c] ELSE kept[c]]

\* `Installed::retain`.
Retained(wanted) == [c \in Custom |-> IF c \in wanted THEN rows[c] ELSE Unbridged]

\* What happens to the rows when the notifications source goes from one
\* registration to another: dropped with it, installed with it, or left for its
\* task to adjust.
Rows(before, after, bridges) ==
  IF ~after.up THEN rows' = NoRows /\ adjusting' = FALSE
  ELSE IF ~before.up
       THEN rows' = InstalledOver(NoRows, after.serving, bridges) /\ adjusting' = FALSE
  ELSE rows' = rows /\ adjusting' = (adjusting \/ before.serving # after.serving)

\* Each source's own part, the count over all of them, and the rows.
Reconcile(set, provided, bridges) ==
  \E ok \in SUBSET (set \ {Notifications}) :
    LET next == [s \in Source |->
                  IF s \in set
                  THEN Reconciled(src[s], Demand(s, provided), s \in ok \cup {Notifications})
                  ELSE src[s]]
    IN  /\ src' = next
        /\ stale' = stale + Cardinality({s \in set : Marks(src[s], next[s])})
                         - Cardinality({s \in set : Unmarks(src[s], next[s])})
        /\ Rows(src[Notifications], next[Notifications], bridges)

\* The rows' task is polled: drop what is no longer wanted, add what is new.
AdjustRows ==
  /\ main = "parked"
  /\ adjusting
  /\ adjusting' = FALSE
  /\ LET wanted == src[Notifications].serving IN
     rows' = InstalledOver(Retained(wanted), wanted, named)
  /\ UNCHANGED <<main, claimVars, declVars, src, stale>>

-----------------------------------------------------------------------------
(* A pass: requests, then the commands they queued, then the rest of the    *)
(* schedule, and the sources last.                                          *)

\* `start_eager`, before the loop is entered.
StartEager ==
  /\ main = "starting"
  /\ main' = "parked"
  /\ Reconcile(Pinned, provides, named)
  /\ UNCHANGED <<claimVars, declVars>>

BeginPass ==
  /\ main = "parked"
  /\ main' = "applying"
  /\ UNCHANGED <<claimVars, declVars, sourceVars>>

\* `Request::Subscribe`, a click script, or an alias or a space being added:
\* what the item wants from now on.
Subscribe(i, kinds) ==
  /\ main = "applying"
  /\ i \notin removed
  /\ Replace(i, kinds)
  /\ UNCHANGED <<main, removed, declVars, sourceVars>>

\* `Request::Remove`, or an item a bracket swept: its handles go with it.
Remove(i) ==
  /\ main = "applying"
  /\ handles[i] # {}
  /\ Replace(i, {})
  /\ removed' = removed \cup {i}
  /\ UNCHANGED <<main, declVars, sourceVars>>

\* `settle_reload`: a config that did not mention the item.  The command queue
\* is applied before the schedule's end.
SweepItem(i) ==
  /\ main = "updating"
  /\ handles[i] # {}
  /\ handles' = [handles EXCEPT ![i] = {}]
  /\ dependents' = [k \in Kind |-> dependents[k] \ {i}]
  /\ moved' = Died({k \in handles[i] : \A j \in Item \ {i} : k \notin handles[j]})
  /\ UNCHANGED <<main, leaving, removed, declVars, sourceVars>>

\* `republish`: the notifications source's provides and its registration follow
\* what is declared.
Bridged(bridges) == {c \in Custom : bridges[c] # Unbridged}

RepublishUnreconciled(bridges) ==
  /\ provides' = [provides EXCEPT ![Notifications] = Fixed[Notifications] \cup Bridged(bridges)]
  /\ UNCHANGED sourceVars

Republish(bridges) ==
  /\ provides' = [provides EXCEPT ![Notifications] = Fixed[Notifications] \cup Bridged(bridges)]
  /\ Reconcile({Notifications}, provides', bridges)

\* `Request::AddEvent`.
DeclareEvent(c, notification) ==
  /\ main = "applying"
  /\ events' = [events EXCEPT ![c] = "Wanted"]
  /\ named' = [named EXCEPT ![c] = notification]
  /\ Republish(named')
  /\ UNCHANGED <<main, claimVars>>

\* `Request::BeginConfig`, as far as declarations go: every one is marked.
BeginConfig ==
  /\ main = "applying"
  /\ events' = [c \in Custom |-> IF events[c] = "none" THEN "none" ELSE "Stale"]
  /\ UNCHANGED <<main, named, provides, claimVars, sourceVars>>

\* `Request::EndConfig`: a declaration still marked is dropped.
EndConfig ==
  /\ main = "applying"
  /\ \E c \in Custom : events[c] = "Stale"
  /\ events' = [c \in Custom |-> IF events[c] = "Stale" THEN "none" ELSE events[c]]
  /\ named' = [c \in Custom |-> IF events'[c] = "none" THEN Unbridged ELSE named[c]]
  /\ Republish(named')
  /\ UNCHANGED <<main, claimVars>>

\* `Registry::settle`: nothing to do unless a claim moved or a mark is out.
SettledUnlessStale == ~moved

Settled == ~moved /\ stale = 0

SettleSources ==
  /\ main = "updating"
  /\ main' = "parked"
  /\ moved' = FALSE
  /\ IF Settled THEN UNCHANGED sourceVars
                ELSE Reconcile(Source, provides, named)
  /\ UNCHANGED <<handles, leaving, removed, dependents, declVars>>

Request == \/ \E i \in Item \ {Bar} : Remove(i) \/ \E kinds \in SUBSET Kind : Subscribe(i, kinds)
           \/ \E c \in Custom, notification \in Bridge : DeclareEvent(c, notification)
           \/ BeginConfig \/ EndConfig

Next == \/ StartEager \/ BeginPass \/ Request \/ Flush
        \/ \E i \in Item \ {Bar} : SweepItem(i)
        \/ SettleSources \/ AdjustRows

\* A pass that has begun ends, and the run loop polls a task that was woken.
\* Nothing obliges another pass to begin.
Fairness == /\ WF_vars(StartEager) /\ WF_vars(Flush) /\ WF_vars(SettleSources)
            /\ WF_vars(AdjustRows)

Spec == Init /\ [][Next]_vars /\ Fairness

-----------------------------------------------------------------------------
\* What a source truly provides, whatever the cache says.
Provided(s) == IF s = Notifications THEN Fixed[s] \cup Bridged(named) ELSE Fixed[s]

WantedOf(s) == IF s \in Pinned THEN Provided(s) ELSE Provided(s) \cap Claimed

\* Between passes, once the first has settled.
AtRest == main = "parked" /\ ~moved

\* Between passes every source that anything wants is registered for exactly
\* what is wanted of it, unless the framework refused: whichever order a config
\* subscribes and declares in, and although a settle that sees no claim moved
\* looks at nothing. And what the notifications source serves is what it
\* observes, once its task has caught up: a custom event has a row exactly when
\* it is being served, however declarations and subscriptions interleaved with
\* the polls.
ServesDemand ==
  /\ AtRest => \A s \in Source :
       (WantedOf(s) # {} /\ ~src[s].failed) => src[s].up /\ src[s].serving = WantedOf(s)
  /\ (main = "parked" /\ ~adjusting) => Bridged(rows) = src[Notifications].serving \cap Custom

\* The count settle goes by is the number of marked sources, and a mark belongs
\* to a registration.
StaleCounts ==
  /\ stale = Cardinality({s \in Source : src[s].liveness = "Stale"})
  /\ \A s \in Source : src[s].liveness = "Stale" => src[s].up

\* Letting go stops delivery: once the commands are applied nobody is on the
\* list of a claim it holds no handle on.
OnlyHoldersReceive ==
  main \in {"updating", "parked"} => \A k \in Kind : \A i \in dependents[k] : k \in handles[i]

\* A source that nothing wants any more comes down, for as long as passes come.
IdleSourceStops ==
  \A s \in Source :
    (<>[](WantedOf(s) = {}) /\ []<><<SettleSources>>_vars) => <>[](~src[s].up)

\* sources/mod.rs on `Watch`: "wanting something and receiving it cannot get out
\* of step".
WantedIsReceived ==
  main \in {"updating", "parked"} => \A i \in Item : \A k \in handles[i] : i \in dependents[k]

\* protocol/src/lib.rs on `AddEvent`: "With a `notification`, the event also
\* fires whenever any process on this machine posts that distributed
\* notification".
ObservesWhatIsDeclared ==
  (AtRest /\ ~adjusting) => \A c \in Custom :
    (named[c] # Unbridged /\ c \in Claimed) => rows[c] = named[c]
=============================================================================
