------------------------------ MODULE Callback ------------------------------
(***************************************************************************)
(* State handed to a C callback and got back (skylight's callback.rs), and  *)
(* the handlers CoreFoundation is given to count itself (`Retained`, as      *)
(* runloop.rs uses it).                                                     *)
(*                                                                         *)
(* A `Callback` holds the one strong reference to its state and has given    *)
(* the framework a weak one as a bare pointer. A call reaches the state by   *)
(* upgrading that pointer, so the control block behind it must stand for as  *)
(* long as anything may still call.                                         *)
(***************************************************************************)
EXTENDS Naturals, Sequences

CONSTANTS
  Reclaimed,   \* registrations made with `Callback::new`
  Outliving,   \* ... and with `Callback::outliving`, which may be called late
  Handlers,    \* handlers handed over with `Retained::hand_over`
  MaxPosts,    \* bound: events a framework delivers to one registration
  BatchMost    \* `most` of the task's `Events::batch`

ASSUME CallbackAssumption ==
  /\ Reclaimed \cap Outliving = {}
  /\ MaxPosts \in Nat /\ BatchMost \in Nat \ {0}

VARIABLES
  phase,     \* the registration as its owner sees it
  strong,    \* strong references to its state
  weak,      \* weak references handed out as pointers
  knows,     \* the framework holds the pointer and may call with it
  calling,   \* a call in flight on it
  dangled,   \* a call reconstructed a pointer whose block was freed
  posted,    \* how many events were posted, which also numbers them
  relayed,   \* the relay's queue
  collected, \* what the task at its other end took
  reader,    \* that task: reading, or ended
  handed,    \* the handler as its owner sees it
  count,     \* its reference count
  kept       \* references of those that CoreFoundation holds

callbackVars == <<phase, strong, weak, knows, calling, dangled, posted,
                  relayed, collected, reader, handed, count, kept>>

Registered == Reclaimed \cup Outliving

CallbackTypeOK ==
  /\ phase \in [Registered -> {"none", "live", "stopped", "dropped", "refused"}]
  /\ strong \in [Registered -> 0 .. 2] /\ weak \in [Registered -> 0 .. 1]
  /\ knows \in [Registered -> BOOLEAN]
  /\ calling \in [Registered -> {"no", "inside", "inert"}]
  /\ dangled \in BOOLEAN
  /\ posted \in [Registered -> 0 .. MaxPosts]
  /\ relayed \in [Registered -> Seq(1 .. MaxPosts)]
  /\ collected \in [Registered -> Seq(1 .. MaxPosts)]
  /\ reader \in [Registered -> {"none", "reading", "ended"}]
  /\ handed \in [Handlers -> {"none", "installed", "refused", "dropped"}]
  /\ count \in [Handlers -> 0 .. 2] /\ kept \in [Handlers -> 0 .. 1]

CallbackInit ==
  /\ phase = [r \in Registered |-> "none"]
  /\ strong = [r \in Registered |-> 0] /\ weak = [r \in Registered |-> 0]
  /\ knows = [r \in Registered |-> FALSE]
  /\ calling = [r \in Registered |-> "no"]
  /\ dangled = FALSE
  /\ posted = [r \in Registered |-> 0]
  /\ relayed = [r \in Registered |-> <<>>] /\ collected = [r \in Registered |-> <<>>]
  /\ reader = [r \in Registered |-> "none"]
  /\ handed = [h \in Handlers |-> "none"]
  /\ count = [h \in Handlers |-> 0] /\ kept = [h \in Handlers |-> 0]

\* The control block goes with the last reference of either kind.
Stands(r) == strong[r] + weak[r] > 0

\* `relay()` and `install`: the state is made, downgraded, and its pointer
\* given to the registration, which keeps it or refuses it.
Install(r) ==
  /\ phase[r] = "none"
  /\ \/ /\ phase' = [phase EXCEPT ![r] = "live"]
        /\ strong' = [strong EXCEPT ![r] = 1] /\ weak' = [weak EXCEPT ![r] = 1]
        /\ knows' = [knows EXCEPT ![r] = TRUE]
        /\ reader' = [reader EXCEPT ![r] = "reading"]
     \/ /\ phase' = [phase EXCEPT ![r] = "refused"]
        /\ UNCHANGED <<strong, weak, knows, reader>>
  /\ UNCHANGED <<calling, dangled, posted, relayed, collected, handed, count, kept>>

WithBorrows(r) ==
  /\ strong' = [strong EXCEPT ![r] = @ + 1]
  /\ UNCHANGED weak

\* `with` under a trampoline: the pointer is borrowed, never taken, and the
\* state is held for the length of the handler or found gone.
Enter(r) ==
  /\ knows[r] /\ calling[r] = "no" /\ posted[r] < MaxPosts
  /\ dangled' = (dangled \/ ~Stands(r))
  /\ IF strong[r] > 0
       THEN WithBorrows(r) /\ calling' = [calling EXCEPT ![r] = "inside"]
       ELSE UNCHANGED <<strong, weak>> /\ calling' = [calling EXCEPT ![r] = "inert"]
  /\ UNCHANGED <<phase, knows, posted, relayed, collected, reader, handed, count, kept>>

\* `Relay::post`: queued while anything is listening.
Post(r) ==
  /\ calling[r] = "inside" /\ posted[r] < MaxPosts
  /\ posted' = [posted EXCEPT ![r] = @ + 1]
  /\ relayed' = [relayed EXCEPT ![r] =
                   IF reader[r] = "reading" THEN Append(@, posted[r] + 1) ELSE @]
  /\ UNCHANGED <<phase, strong, weak, knows, calling, dangled, collected, reader,
                 handed, count, kept>>

\* The call returns and gives back what it held.
Leave(r) ==
  /\ calling[r] # "no"
  /\ calling' = [calling EXCEPT ![r] = "no"]
  /\ strong' = [strong EXCEPT ![r] = IF calling[r] = "inside" THEN @ - 1 ELSE @]
  /\ UNCHANGED <<phase, weak, knows, dangled, posted, relayed, collected, reader,
                 handed, count, kept>>

\* The teardown of an outliving registration may have matched nothing.
Deregister(r) ==
  \E still \in {FALSE} \cup (IF r \in Outliving THEN {knows[r]} ELSE {}) :
    knows' = [knows EXCEPT ![r] = still]

\* `stop`: idempotent, for a caller that sequences its teardown.
Stop(r) ==
  /\ phase[r] = "live"
  /\ phase' = [phase EXCEPT ![r] = "stopped"]
  /\ Deregister(r)
  /\ UNCHANGED <<strong, weak, calling, dangled, posted, relayed, collected, reader,
                 handed, count, kept>>

ReclaimsAll(r) == TRUE

\* `reclaim`: whether dropping takes the weak reference back.
Reclaims(r) == r \in Reclaimed

\* `Callback::drop`, also from inside the callback: the teardown, then the
\* pointer, then the state.
DropCallback(r) ==
  /\ phase[r] \in {"live", "stopped"}
  /\ phase' = [phase EXCEPT ![r] = "dropped"]
  /\ IF phase[r] = "live" THEN Deregister(r) ELSE UNCHANGED knows
  /\ weak' = [weak EXCEPT ![r] = IF Reclaims(r) THEN 0 ELSE @]
  /\ strong' = [strong EXCEPT ![r] = @ - 1]
  /\ UNCHANGED <<calling, dangled, posted, relayed, collected, reader, handed, count,
                 kept>>

\* `Events::batch`: the first event and whatever is ready behind it.
TakeBatch(r) ==
  /\ reader[r] = "reading" /\ relayed[r] # <<>>
  /\ LET n == IF Len(relayed[r]) < BatchMost THEN Len(relayed[r]) ELSE BatchMost
     IN  /\ collected' = [collected EXCEPT ![r] = @ \o SubSeq(relayed[r], 1, n)]
         /\ relayed' = [relayed EXCEPT ![r] = SubSeq(@, n + 1, Len(@))]
  /\ UNCHANGED <<phase, strong, weak, knows, calling, dangled, posted, reader,
                 handed, count, kept>>

\* `Events::next` answers `None` once the state, and the relay in it, is gone
\* and nothing is queued.
EndsWhen(r) == strong[r] = 0 /\ relayed[r] = <<>>

ReaderEnds(r) ==
  /\ reader[r] = "reading" /\ EndsWhen(r)
  /\ reader' = [reader EXCEPT ![r] = "ended"]
  /\ UNCHANGED <<phase, strong, weak, knows, calling, dangled, posted, relayed,
                 collected, handed, count, kept>>

(***************************************************************************)
(* Handlers CoreFoundation counts.                                         *)
(***************************************************************************)
\* `manual_source`: CoreFoundation retained the handler, so the reference it
\* was handed over with is given up; a refusal gives it up before the panic.
ManualSource(h) ==
  /\ handed[h] = "none"
  /\ \/ /\ handed' = [handed EXCEPT ![h] = "installed"]
        /\ kept' = [kept EXCEPT ![h] = 1] /\ count' = [count EXCEPT ![h] = 1]
     \/ handed' = [handed EXCEPT ![h] = "refused"] /\ UNCHANGED <<kept, count>>
  /\ UNCHANGED <<phase, strong, weak, knows, calling, dangled, posted, relayed,
                 collected, reader>>

\* `MachSource::install` keeps the first reference when it succeeds; when the
\* port is declined it gives it up only if CoreFoundation says so.
MachInstall(h) ==
  /\ handed[h] = "none"
  /\ \/ /\ handed' = [handed EXCEPT ![h] = "installed"]
        /\ kept' = [kept EXCEPT ![h] = 1] /\ count' = [count EXCEPT ![h] = 2]
     \/ /\ handed' = [handed EXCEPT ![h] = "refused"]
        /\ \E orphaned \in BOOLEAN :
             count' = [count EXCEPT ![h] = IF orphaned THEN 0 ELSE 1]
        /\ UNCHANGED kept
  /\ UNCHANGED <<phase, strong, weak, knows, calling, dangled, posted, relayed,
                 collected, reader>>

\* The source leaves its run loop and CoreFoundation releases what it held.
DropSource(h) ==
  /\ handed[h] = "installed"
  /\ handed' = [handed EXCEPT ![h] = "dropped"]
  /\ count' = [count EXCEPT ![h] = @ - kept[h]]
  /\ kept' = [kept EXCEPT ![h] = 0]
  /\ UNCHANGED <<phase, strong, weak, knows, calling, dangled, posted, relayed,
                 collected, reader>>

CallbackNext ==
  \/ \E r \in Registered :
       \/ Install(r) \/ Enter(r) \/ Post(r) \/ Leave(r)
       \/ Stop(r) \/ DropCallback(r)
       \/ TakeBatch(r) \/ ReaderEnds(r)
  \/ \E h \in Handlers : ManualSource(h) \/ MachInstall(h) \/ DropSource(h)

CallbackSpec == CallbackInit /\ [][CallbackNext]_callbackVars

(***************************************************************************)
(* Properties.                                                             *)
(***************************************************************************)
\* Whatever a framework calls with is still there to be looked at: the control
\* block of every pointer it may use, the state for the length of a call that
\* found it, the handler CoreFoundation counts. And the task behind a relay
\* takes, in order, everything that was posted before it ends: it does not end
\* while a call may still post.
NeverDangling ==
  /\ ~dangled
  /\ \A r \in Registered :
       /\ knows[r] => Stands(r)
       /\ calling[r] = "inside" => strong[r] > 0
       /\ collected[r] \o relayed[r] = [n \in 1 .. posted[r] |-> n]
       /\ reader[r] = "ended" => relayed[r] = <<>> /\ calling[r] # "inside"
  /\ \A h \in Handlers : kept[h] <= count[h]
=============================================================================
