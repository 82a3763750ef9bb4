------------------------------- MODULE Alias -------------------------------
(***************************************************************************)
(* Menu bar aliases (alias.rs, extras.rs and ecs.rs's `refresh_aliases`):    *)
(* which window an item mirrors, the picture held of it, and the three       *)
(* workers that read the menu bar for it. `Lister` fetches the window list,  *)
(* `Scanner` asks every application which items are its own, `Captor` takes  *)
(* a picture.                                                               *)
(*                                                                         *)
(* Each worker publishes in separate steps (the result, then `landed`, then   *)
(* its own release, then the wake), so all of them interleave with the pass.  *)
(*                                                                         *)
(* A spec is a model value. One in Hosted is drawn by Control Centre: the     *)
(* window server does not say whose it is, and only a scan does. Frames are   *)
(* left out, so a scan that found an item attributes whatever window shows    *)
(* it; the matching itself is `Resolve` of Extras.                            *)
(***************************************************************************)
EXTENDS Naturals, Sequences, FiniteSets

CONSTANTS
  AliasItems,   \* entities that can have an `AliasSpec`
  Specs,        \* what such a component can say
  Hosted,       \* those that Control Centre draws for another application
  Native,       \* ... and for itself, which name it as their owner
  Windows,      \* window ids of the menu bar layer, which are reused
  MaxChanges    \* bound: what the user and the system do in a behaviour

ASSUME AliasAssumption ==
  /\ Hosted \cup Native \subseteq Specs /\ Hosted \cap Native = {}
  /\ MaxChanges \in Nat

VARIABLES
  bar,        \* what each window of the layer shows now
  paint,      \* how every item looks now
  granted,    \* the Accessibility grant
  changes,    \* how many changes were made
  names,      \* `AliasSpec` of each item
  drawn,      \* `Drawing` of each item
  edited,     \* change detection: something `ChangedAlias` or a popup reports
  launched,   \* an `AppLaunched` event that no pass has read
  displaced,  \* ... and a `DisplayChanged`
  mirrors,    \* `Captures::mirrors`
  content,    \* `AliasContent` of each item
  table,      \* `Captures::table`: what each window showed when it was listed
  attributed, \* ... and which of those windows have their real owner
  owed,       \* `note_rescan_owed`
  rescan,     \* `rescan`
  asked,      \* `asked_at` is the scan generation of now
  dirty,      \* posted by the watch and not taken
  due,        \* what `due` answered this pass
  landings,   \* what `Captor::take` took and `collect` has yet to look at
  landedNow,  \* what `collect` answered this pass
  todo,       \* items this pass has yet to look at
  at,         \* where the main thread is in its pass
  owedPass,   \* the run loop source is signalled
  lister, scanner, captor,  \* the workers, see AliasTypeOK
  latest      \* LATEST: what the last scan found, or that there was none

captures == <<mirrors, content, table, attributed, owed, rescan, asked, due,
              landings, landedNow, todo, latest>>
system == <<bar, paint, granted, changes, names, drawn>>
noticed == <<edited, launched, displaced, dirty>>
aliasVars == <<captures, system, noticed, at, owedPass, lister, scanner, captor>>

Nothing == "nothing"
Shown == Specs \cup {Nothing}
Picture == Shown \X {1, 2}
Captured == [spec: Specs, window: Windows, picture: Picture]
Stage == {"idle", "out", "read", "filed", "flagged"}

AliasTypeOK ==
  /\ bar \in [Windows -> Shown] /\ paint \in {1, 2} /\ granted \in BOOLEAN
  /\ changes \in 0..MaxChanges
  /\ names \in [AliasItems -> Shown] /\ drawn \in [AliasItems -> BOOLEAN]
  /\ {edited, launched, displaced, owed, rescan, asked, owedPass} \subseteq BOOLEAN
  /\ \A a \in DOMAIN mirrors :
       /\ a \in AliasItems /\ mirrors[a].spec \in Specs
       /\ mirrors[a].window \subseteq Windows /\ Cardinality(mirrors[a].window) <= 1
       /\ mirrors[a].held \subseteq Captured /\ Cardinality(mirrors[a].held) <= 1
       /\ mirrors[a].watched \in BOOLEAN
  /\ content \in [AliasItems -> SUBSET Picture]
  /\ table \in [Windows -> Shown] /\ attributed \subseteq Windows
  /\ dirty \subseteq AliasItems /\ todo \subseteq AliasItems
  /\ due \in {"everything"} \X {{}} \cup {"these"} \X SUBSET AliasItems
  /\ landedNow \in SUBSET (AliasItems \X Picture)
  /\ at \in {"out", "begin", "collect", "rescan", "items"}
  /\ lister.stage \in Stage /\ scanner.stage \in Stage
  /\ {lister.running, lister.landed, lister.waking, scanner.running, scanner.landed,
      scanner.waking, captor.landed, captor.waking} \subseteq BOOLEAN
  /\ lister.finished \subseteq [ok: BOOLEAN, list: [Windows -> Shown]]
  /\ scanner.finished \subseteq SUBSET Hosted
  /\ captor.out \subseteq AliasItems
  /\ {captor.finished, landings} \subseteq Seq([item: AliasItems, shot: Captured])
  /\ latest \subseteq SUBSET Hosted

\* `Captures::new`: no table, no scan, and the first pass looks at everything.
\* The config has added its aliases, and their first pass is owed.
AliasInit ==
  /\ bar \in [Windows -> Shown] /\ paint = 1 /\ granted \in BOOLEAN /\ changes = 0
  /\ \A v, w \in Windows : v # w /\ bar[v] # Nothing => bar[v] # bar[w]
  /\ names \in [AliasItems -> Specs] /\ drawn = [a \in AliasItems |-> TRUE]
  /\ edited = TRUE /\ launched = FALSE /\ displaced = FALSE
  /\ mirrors = [a \in {} |-> {}] /\ content = [a \in AliasItems |-> {}]
  /\ table = [w \in Windows |-> Nothing] /\ attributed = {}
  /\ owed = FALSE /\ rescan = FALSE /\ asked = FALSE
  /\ dirty = {} /\ due = <<"these", {}>> /\ landings = <<>> /\ landedNow = {} /\ todo = {}
  /\ at = "out" /\ owedPass = TRUE
  /\ lister = [running |-> FALSE, stage |-> "idle", result |-> {}, finished |-> {},
               landed |-> FALSE, waking |-> FALSE]
  /\ scanner = [running |-> FALSE, stage |-> "idle", found |-> {}, unasked |-> {},
                finished |-> {}, landed |-> FALSE, waking |-> FALSE]
  /\ captor = [out |-> {}, asks |-> {}, shots |-> {}, pushing |-> {},
               finished |-> <<>>, flagging |-> 0, landed |-> FALSE, waking |-> FALSE]
  /\ latest = {}

(***************************************************************************)
(* The user and the system.                                                *)
(***************************************************************************)
ChangeMade == changes < MaxChanges /\ changes' = changes + 1

\* A request sets or removes an item's `alias`. Inserting the spec inserts an
\* empty content beside it, and the change is detected in the pass.
SetAlias(a, s) ==
  /\ at = "out" /\ ChangeMade /\ names[a] # s
  /\ names' = [names EXCEPT ![a] = s]
  /\ content' = [content EXCEPT ![a] = {}]
  /\ edited' = TRUE /\ owedPass' = TRUE
  /\ UNCHANGED <<mirrors, table, attributed, owed, rescan, asked, due, landings, landedNow,
                 todo, latest, bar, paint, granted, drawn, launched, displaced, dirty, at,
                 lister, scanner, captor>>

\* ... or whether it is in sight, its own `drawing` or its popup's.
SetDrawn(a) ==
  /\ at = "out" /\ ChangeMade
  /\ drawn' = [drawn EXCEPT ![a] = ~@]
  /\ edited' = TRUE /\ owedPass' = TRUE
  /\ UNCHANGED <<captures, bar, paint, granted, names, launched, displaced, dirty, at,
                 lister, scanner, captor>>

\* An application launches: its window appears, and the event is emitted.
Launch(w, s) ==
  /\ ChangeMade /\ bar[w] = Nothing /\ \A v \in Windows : bar[v] # s
  /\ bar' = [bar EXCEPT ![w] = s]
  /\ launched' = TRUE /\ owedPass' = TRUE
  /\ UNCHANGED <<captures, paint, granted, names, drawn, edited, displaced, dirty, at,
                 lister, scanner, captor>>

\* Windows are torn down, or rebuilt under one another's ids, in silence.
Rebuild(v, w) ==
  /\ ChangeMade /\ bar[v] # Nothing
  /\ bar' = [bar EXCEPT ![v] = bar[w], ![w] = IF v = w THEN Nothing ELSE bar[v]]
  /\ UNCHANGED <<captures, paint, granted, names, drawn, noticed, at, owedPass, lister,
                 scanner, captor>>

DisplayChanges ==
  /\ ChangeMade /\ displaced' = TRUE /\ owedPass' = TRUE
  /\ UNCHANGED <<captures, bar, paint, granted, names, drawn, edited, launched, dirty, at,
                 lister, scanner, captor>>

\* The items look different, and the observer of every item that is watched
\* (one that was found) says so.
Repainted ==
  /\ ChangeMade /\ paint' = 3 - paint
  /\ dirty' = dirty \cup {a \in DOMAIN mirrors : mirrors[a].watched}
  /\ owedPass' = TRUE
  /\ UNCHANGED <<captures, bar, granted, names, drawn, edited, launched, displaced, at,
                 lister, scanner, captor>>

Grant ==
  /\ ChangeMade /\ ~granted /\ granted' = TRUE
  /\ UNCHANGED <<captures, bar, paint, names, drawn, noticed, at, owedPass, lister,
                 scanner, captor>>

(***************************************************************************)
(* `Lister`: one fetch of the window list at a time.                       *)
(***************************************************************************)
\* `Lister::request` on a lister l.
ListRequest(l) == IF l.running THEN l ELSE [l EXCEPT !.running = TRUE, !.stage = "out"]

ListStep(next) ==
  /\ lister' = next
  /\ UNCHANGED <<captures, system, noticed, at, owedPass, scanner, captor>>

\* `list_raw_windows` on a thread of the pool, which may fail.
ReadList == lister.stage = "out"
            /\ \E ok \in BOOLEAN : ListStep([lister EXCEPT !.stage = "read", !.result = {[ok |-> ok, list |-> bar]}])
FileListOrRetry == lister.stage = "read"
            /\ ListStep(IF \E r \in lister.result : r.ok
                        THEN [lister EXCEPT !.stage = "filed", !.finished = @ \cup lister.result, !.result = {}]
                        ELSE [lister EXCEPT !.stage = "out", !.result = {}])
FileList == lister.stage = "read"
            /\ ListStep([lister EXCEPT !.stage = "filed", !.finished = @ \cup lister.result, !.result = {}])
FlagList == lister.stage = "filed" /\ ListStep([lister EXCEPT !.stage = "flagged", !.landed = TRUE])
FreeList == lister.stage = "flagged"
            /\ ListStep([lister EXCEPT !.stage = "idle", !.running = FALSE, !.waking = TRUE])

\* `Lister::take` clears the flag whether or not there was anything.
ListTake(l) == [l EXCEPT !.finished = {}, !.landed = FALSE]

(***************************************************************************)
(* `Scanner`: a task for each application, and one that joins them.        *)
(***************************************************************************)
\* `Scanner::request`, and whether it started a scan.
ScanRequest(s) == [s EXCEPT !.running = TRUE, !.stage = "out", !.found = {}, !.unasked = Hosted]

ScanStep(next) ==
  /\ scanner' = next
  /\ UNCHANGED <<captures, system, noticed, at, owedPass, lister, captor>>

\* One application answers with its items, or in vain (it panicked, it stalled).
AskApplication(s) ==
  /\ scanner.stage = "out" /\ s \in scanner.unasked
  /\ \E there \in {(\E w \in Windows : bar[w] = s), FALSE} :
       ScanStep([scanner EXCEPT !.unasked = @ \ {s}, !.found = IF there THEN @ \cup {s} ELSE @])
FileScan == scanner.stage = "out" /\ scanner.unasked = {}
            /\ ScanStep([scanner EXCEPT !.stage = "filed", !.finished = {scanner.found}, !.found = {}])
FlagScan == scanner.stage = "filed" /\ ScanStep([scanner EXCEPT !.stage = "flagged", !.landed = TRUE])

\* The generation moves on before the scanner is free again.
CountScan ==
  /\ scanner.stage = "flagged"
  /\ scanner' = [scanner EXCEPT !.stage = "read"] /\ asked' = FALSE
  /\ UNCHANGED <<mirrors, content, table, attributed, owed, rescan, due, landings, landedNow,
                 todo, latest, system, noticed, at, owedPass, lister, captor>>
FreeScan == scanner.stage = "read"
            /\ ScanStep([scanner EXCEPT !.stage = "idle", !.running = FALSE, !.waking = TRUE])

(***************************************************************************)
(* `Captor`: at most one picture out for an item.                          *)
(***************************************************************************)
\* `Captor::submit`. More permits than items, so a turn is never waited for.
Submit(c, ask) ==
  IF ask.item \in c.out THEN c
  ELSE [c EXCEPT !.out = @ \cup {ask.item}, !.asks = @ \cup {ask}]

CaptorStep(next) ==
  /\ captor' = next
  /\ UNCHANGED <<captures, system, noticed, at, owedPass, lister, scanner>>

\* `capture_window`: whatever is at that id now, unless it is gone.
Capture(ask) ==
  /\ ask \in captor.asks
  /\ CaptorStep([captor EXCEPT
       !.asks = @ \ {ask},
       !.shots = @ \cup {[item |-> ask.item,
                          shot |-> IF bar[ask.window] = Nothing THEN {}
                                   ELSE {[spec |-> ask.spec, window |-> ask.window,
                                          picture |-> <<bar[ask.window], paint>>]}]}])

\* Out of `out` first; the picture is pushed after.
Release(taken) ==
  /\ taken \in captor.shots
  /\ CaptorStep([captor EXCEPT !.shots = @ \ {taken}, !.out = @ \ {taken.item},
       !.waking = @ \/ taken.shot = {},
       !.pushing = @ \cup {[item |-> taken.item, shot |-> s] : s \in taken.shot}])
Push(landing) ==
  /\ landing \in captor.pushing
  /\ CaptorStep([captor EXCEPT !.pushing = @ \ {landing}, !.finished = Append(@, landing),
                               !.flagging = @ + 1])
FlagCapture ==
  /\ captor.flagging > 0
  /\ CaptorStep([captor EXCEPT !.flagging = @ - 1, !.landed = TRUE, !.waking = TRUE])

\* The last step of each worker.
Wake ==
  \/ lister.waking /\ lister' = [lister EXCEPT !.waking = FALSE] /\ owedPass' = TRUE
     /\ UNCHANGED <<captures, system, noticed, at, scanner, captor>>
  \/ scanner.waking /\ scanner' = [scanner EXCEPT !.waking = FALSE] /\ owedPass' = TRUE
     /\ UNCHANGED <<captures, system, noticed, at, lister, captor>>
  \/ captor.waking /\ captor' = [captor EXCEPT !.waking = FALSE] /\ owedPass' = TRUE
     /\ UNCHANGED <<captures, system, noticed, at, lister, scanner>>

(***************************************************************************)
(* The pass.                                                               *)
(***************************************************************************)
Holds(a) == a \in DOMAIN mirrors
Forgotten(a) == [b \in DOMAIN mirrors \ {a} |-> mirrors[b]]

\* Whom Control Centre draws and no scan has found.
HasUnattributed ==
  \E w \in Windows : table[w] \in Hosted \cup Native /\ w \notin attributed

\* `find`, and `still_is` for the window it answers: a list names an item once.
Finds(s) == {w \in Windows : table[w] = s /\ (s \in Hosted => w \in attributed)}

\* `Captures::ask_for_scan`, for an alias of Control Centre's own or another.
AsksForScan(native) == HasUnattributed /\ ~native /\ ~asked /\ granted
AskForScan(native) ==
  IF AsksForScan(native) /\ ~scanner.running
  THEN scanner' = ScanRequest(scanner) /\ asked' = TRUE
  ELSE UNCHANGED <<scanner, asked>>

\* An item is despawned by a request; `collect_belongings` forgets it.
Despawn(a) ==
  /\ at = "out" /\ ChangeMade /\ names[a] # Nothing
  /\ names' = [names EXCEPT ![a] = Nothing]
  /\ content' = [content EXCEPT ![a] = {}]
  /\ mirrors' = Forgotten(a)
  /\ owedPass' = TRUE
  /\ UNCHANGED <<table, attributed, owed, rescan, asked, due, landings, landedNow, todo, latest,
                 bar, paint, granted, drawn, noticed, at, lister, scanner, captor>>

\* `Captures::pending`.
Pending == rescan' \/ scanner.landed \/ captor.landed \/ lister.landed \/ dirty # {}

\* A pass: `note_launched_apps`, `note_display_changes`, the run condition.
StartPass ==
  /\ at = "out" /\ owedPass /\ owedPass' = FALSE
  /\ rescan' = (rescan \/ launched)
  /\ lister' = IF displaced THEN ListRequest(lister) ELSE lister
  /\ launched' = FALSE /\ displaced' = FALSE /\ edited' = FALSE
  /\ at' = IF Pending \/ edited THEN "begin" ELSE "out"
  /\ UNCHANGED <<mirrors, content, table, attributed, owed, asked, due, landings, landedNow,
                 todo, latest, system, dirty, scanner, captor>>

\* `Scanner::take`, `Lister::take`: `begin_pass` collects both, and finishes a
\* repair by what the last scan found.
Repairs == {r.list : r \in {f \in lister.finished : f.ok}}
BeginPass ==
  LET taken == ListTake(lister)
  IN /\ scanner' = [scanner EXCEPT !.finished = {}, !.landed = FALSE]
     /\ latest' = IF scanner.finished = {} THEN latest ELSE scanner.finished
     /\ \/ Repairs = {} /\ UNCHANGED <<table, attributed>>
        \/ /\ table' \in Repairs
           /\ attributed' = {w \in Windows : table'[w] \in UNION latest'}
     /\ owed' = (owed \/ Repairs # {} \/ rescan)
     /\ lister' = IF rescan THEN ListRequest(taken) ELSE taken
     /\ rescan' = FALSE

\* `due`: either every item, or those a notification named.
Everything == scanner.finished # {} \/ rescan \/ Repairs # {}
DecideDue ==
  IF Everything THEN due' = <<"everything", {}>> /\ UNCHANGED dirty
  ELSE due' = <<"these", dirty>> /\ dirty' = {}

\* Whether a picture that landed is still the one its mirror waits for.
WantsAny(mirror, shot) == TRUE
Wants(mirror, shot) == mirror.spec = shot.spec /\ mirror.window = {shot.window}
Same(mirror, shot) == \E held \in mirror.held : held.picture = shot.picture

\* `collect`: what `Captor::take` took, each in the order they landed.
TakeLandings ==
  /\ landings' = captor.finished
  /\ captor' = [captor EXCEPT !.finished = <<>>, !.landed = FALSE]

Collect ==
  /\ at = "collect" /\ landings # <<>> /\ landings' = Tail(landings)
  /\ at' = IF landings' = <<>> THEN "rescan" ELSE "collect"
  /\ LET a == Head(landings).item
         shot == Head(landings).shot
     IN IF Holds(a) /\ Wants(mirrors[a], shot) /\ ~Same(mirrors[a], shot)
        THEN /\ mirrors' = [mirrors EXCEPT ![a].held = {shot}]
             /\ landedNow' = {c \in landedNow : c[1] # a} \cup {<<a, shot.picture>>}
        ELSE UNCHANGED <<mirrors, landedNow>>
  /\ UNCHANGED <<content, table, attributed, owed, rescan, asked, due, todo, latest,
                 system, noticed, owedPass, lister, scanner, captor>>

\* The first half of `refresh_aliases`. It touches each worker once, so the
\* three are taken in one step: what a worker does in between might as well
\* have been done before.
Gather ==
  /\ at = "begin" /\ at' = IF captor.finished = <<>> THEN "rescan" ELSE "collect"
  /\ BeginPass /\ DecideDue /\ TakeLandings
  /\ UNCHANGED <<mirrors, content, asked, landedNow, todo, system, edited, launched, displaced,
                 owedPass>>

\* `note_rescan`.
NoteRescan ==
  /\ at = "rescan" /\ at' = "items"
  /\ owed' = FALSE
  /\ IF owed THEN AskForScan(FALSE) ELSE UNCHANGED <<scanner, asked>>
  /\ todo' = {a \in AliasItems : names[a] # Nothing}
  /\ UNCHANGED <<mirrors, content, table, attributed, rescan, due, landings, landedNow, latest,
                 system, noticed, owedPass, lister, captor>>

\* The loop of `refresh_aliases`, one item at a time.
Looking(a) == at = "items" /\ a \in todo /\ todo' = todo \ {a}
Changed(a) == a \in due[2]
IsDue(a) == Changed(a) \/ due[1] = "everything" \/ ~Holds(a)

\* Out of sight: nothing is kept for it.
Hide(a) ==
  /\ Looking(a) /\ ~drawn[a]
  /\ mirrors' = Forgotten(a)
  /\ content' = IF Holds(a) THEN [content EXCEPT ![a] = {}] ELSE content
  /\ UNCHANGED <<table, attributed, owed, rescan, asked, due, landings, landedNow, latest, system,
                 noticed, at, owedPass, lister, scanner, captor>>

Leave(a) ==
  /\ Looking(a) /\ drawn[a] /\ ~IsDue(a)
  /\ UNCHANGED <<mirrors, content, table, attributed, owed, rescan, asked, due,
                 landings, landedNow, latest, system, noticed, at, owedPass, lister, scanner, captor>>

\* `refresh`. A mirror of another spec is replaced.
Created(a) == ~Holds(a) \/ mirrors[a].spec # names[a]
Mirror(a) == IF Created(a)
             THEN [spec |-> names[a], window |-> {}, held |-> {}, watched |-> FALSE]
             ELSE mirrors[a]
Settled(a) == /\ Mirror(a).held # {} /\ ~Changed(a)
              /\ Mirror(a).window # {} /\ Mirror(a).window \subseteq Finds(names[a])
HadWindow(a) == Mirror(a).window # {}

\* The edges that ask for a repair.
AsksRepair(a) == Created(a) \/ HadWindow(a)

SetMirror(a, mirror) ==
  mirrors' = [b \in DOMAIN mirrors \cup {a} |-> IF b = a THEN mirror ELSE mirrors[b]]

Refresh(a) ==
  /\ Looking(a) /\ drawn[a] /\ IsDue(a)
  /\ LET found == Finds(names[a])
     IN \/ /\ Settled(a)
           /\ UNCHANGED <<mirrors, asked, scanner, lister, captor>>
        \/ /\ ~Settled(a) /\ found = {}
           /\ SetMirror(a, [Mirror(a) EXCEPT !.window = {}])
           /\ IF Created(a) THEN AskForScan(names[a] \in Native) ELSE UNCHANGED <<scanner, asked>>
           /\ lister' = IF AsksRepair(a) THEN ListRequest(lister) ELSE lister
           /\ UNCHANGED captor
        \/ /\ ~Settled(a)
           /\ \E w \in found :
                /\ SetMirror(a, [Mirror(a) EXCEPT !.window = {w}, !.watched = TRUE])
                /\ captor' = Submit(captor, [item |-> a, spec |-> names[a], window |-> w])
           /\ UNCHANGED <<asked, scanner, lister>>
  /\ UNCHANGED <<content, table, attributed, owed, rescan, due, landings, landedNow, latest,
                 system, noticed, at, owedPass>>

\* The pictures that landed mark their items, unless they were just forgotten.
EndPass ==
  /\ at = "items" /\ todo = {} /\ at' = "out"
  /\ content' = [a \in AliasItems |->
       IF Holds(a) /\ names[a] # Nothing /\ \E l \in landedNow : l[1] = a
       THEN {l[2] : l \in {m \in landedNow : m[1] = a}} ELSE content[a]]
  /\ landedNow' = {}
  /\ UNCHANGED <<mirrors, table, attributed, owed, rescan, asked, due, landings, todo, latest,
                 system, noticed, owedPass, lister, scanner, captor>>

(***************************************************************************)
(* The specification.                                                      *)
(***************************************************************************)
Change ==
  \/ \E a \in AliasItems : SetDrawn(a) \/ Despawn(a) \/ \E s \in Shown : SetAlias(a, s)
  \/ \E w \in Windows : (\E s \in Specs : Launch(w, s)) \/ \E v \in Windows : Rebuild(v, w)
  \/ DisplayChanges \/ Repainted \/ Grant

Work ==
  \/ ReadList \/ FileList \/ FlagList \/ FreeList
  \/ (\E s \in Specs : AskApplication(s)) \/ FileScan \/ FlagScan \/ CountScan \/ FreeScan
  \/ (\E ask \in captor.asks : Capture(ask)) \/ (\E taken \in captor.shots : Release(taken))
  \/ (\E landing \in captor.pushing : Push(landing)) \/ FlagCapture
  \/ Wake
  \/ StartPass \/ Gather \/ Collect \/ NoteRescan
  \/ (\E a \in AliasItems : Hide(a) \/ Leave(a) \/ Refresh(a)) \/ EndPass

AliasNext == Change \/ Work

\* The pool runs what it is given and the loop performs what is signalled.
AliasFairness == WF_aliasVars(Work)
AliasSpec == AliasInit /\ [][AliasNext]_aliasVars /\ AliasFairness

(***************************************************************************)
(* Properties.                                                             *)
(***************************************************************************)
\* No worker has anything left to do, and no pass is under way or owed.
Idle ==
  /\ at = "out" /\ ~owedPass
  /\ ~lister.running /\ ~lister.waking /\ ~scanner.running /\ ~scanner.waking
  /\ captor.asks = {} /\ captor.shots = {} /\ captor.pushing = {} /\ captor.flagging = 0
  /\ ~captor.waking

\* A picture is only ever held by a mirror of the spec it was taken for,
\* whatever was edited, hidden or found elsewhere while it was being taken. And
\* when everything is idle nothing a worker finished is left uncollected, no
\* flag is left up with nothing behind it, and no item counts as being
\* captured (`take` clears the flag whatever it took; alias.rs 1129-1146).
PicturesBelong ==
  /\ \A a \in DOMAIN mirrors : \A held \in mirrors[a].held : held.spec = mirrors[a].spec
  /\ Idle => /\ lister.finished = {} /\ scanner.finished = {} /\ captor.finished = <<>>
             /\ ~lister.landed /\ ~scanner.landed /\ ~captor.landed
             /\ captor.out = {}

\* What is drawn for an item is what its spec names now: after the pass that
\* follows an edit, its mirror is of that spec (ecs.rs 1055-1069).
MirrorsWhatIsNamed ==
  at = "out" /\ ~edited => \A a \in DOMAIN mirrors : mirrors[a].spec = names[a]
=============================================================================
