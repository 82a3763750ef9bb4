------------------------------- MODULE Pointer -------------------------------
(***************************************************************************)
(* The pointer over the bar: the mouse source (sources/mouse.rs), which     *)
(* hears crossings of the tracked rectangles only while an item wants them,   *)
(* and in each pass the routing of clicks and of hover (ecs.rs               *)
(* `route_pointer`, `track_hover`) to the item that was drawn there.         *)
(*                                                                         *)
(* What an item wants is what it holds claims on, as in Registry; where the  *)
(* rectangles the window server watches come from is Panels.  A pass is one   *)
(* action: nothing else runs on the main thread during it.                   *)
(***************************************************************************)
EXTENDS Naturals, Sequences, FiniteSets, SequencesExt, FiniteSetsExt

CONSTANTS
  Hoverables,      \* items
  Places,          \* of the screen, each in the rectangle of one item at most
  Outside,         \* the one place where nothing is drawn
  Nobody,          \* no item, or no place
  DrainBudget,     \* `DRAIN_BUDGET`: events a source hands over in a pass
  MaxPointerSteps, \* bound: changes made by clients in a behaviour
  MaxClicks        \* bound: clicks made in a behaviour

ASSUME PointerAssumption ==
  /\ Nobody \notin Hoverables \cup Places /\ Outside \in Places
  /\ DrainBudget \in Nat \ {0} /\ MaxPointerSteps \in Nat /\ MaxClicks \in Nat

VARIABLES
  stepped,    \* changes made so far
  clicked,    \* clicks made so far
  wants,      \* what each item there is holds claims on
  spots,      \* where each would be drawn
  stained,    \* a repaint is wanted
  depicted,   \* `Placements`: the item each place shows
  crossable,  \* places the window server reports crossings of
  mouse,      \* `Registered` of the mouse source
  adjust,     \* the channel to its task
  serves,     \* the task's `current`
  listening,  \* the Carbon handlers installed
  deaf,       \* ghost: Carbon refused a handler that was to replace another
  relic,      \* ghost: the source was stopped while it served hover
  crossing,   \* LAST_CROSSING
  pointer,    \* where the pointer is
  hovered,    \* `track_hover`'s own
  clicks,     \* decoded and not yet drained
  routed      \* ghost: where the clicks drained last went

pointerVars == <<stepped, clicked, wants, spots, stained, depicted, crossable, mouse, adjust, serves,
                 listening, deaf, relic, crossing, pointer, hovered, clicks, routed>>

Want == {"click", "hover"}
Click == [id: 1..MaxClicks, at: Places, over: Hoverables \cup {Nobody}, late: BOOLEAN]

PointerTypeOK ==
  /\ stepped \in 0..MaxPointerSteps /\ clicked \in 0..MaxClicks
  /\ DOMAIN wants \subseteq Hoverables /\ DOMAIN spots = DOMAIN wants
  /\ \A i \in DOMAIN wants : wants[i] \subseteq Want /\ spots[i] \in Places \ {Outside}
  /\ {stained, serves, deaf, relic} \subseteq BOOLEAN
  /\ depicted \in [Places -> Hoverables \cup {Nobody}] /\ crossable \subseteq Places
  /\ mouse \in [up: BOOLEAN, serving: SUBSET Want, stale: BOOLEAN, failed: BOOLEAN]
  /\ adjust \in [hover: BOOLEAN, unseen: BOOLEAN]
  /\ listening \subseteq [hover: BOOLEAN, ending: BOOLEAN]
  /\ crossing \in Places \cup {Nobody} /\ pointer \in Places
  /\ hovered \in Hoverables \cup {Nobody}
  /\ clicks \in Seq(Click)
  /\ \A r \in routed : r.click \in Click /\ r.to \in Hoverables \cup {Nobody}

PointerInit ==
  /\ stepped = 0 /\ clicked = 0
  /\ wants = <<>> /\ spots = <<>>
  /\ stained = FALSE /\ depicted = [p \in Places |-> Nobody] /\ crossable = {}
  /\ mouse = [up |-> FALSE, serving |-> {}, stale |-> FALSE, failed |-> FALSE]
  /\ adjust = [hover |-> FALSE, unseen |-> FALSE] /\ serves = FALSE
  /\ listening = {} /\ deaf = FALSE /\ relic = FALSE
  /\ crossing = Nobody /\ pointer = Outside /\ hovered = Nobody
  /\ clicks = <<>> /\ routed = {}

surroundings == <<mouse, adjust, serves, listening, deaf, relic, crossing, pointer, hovered, clicks>>

(***************************************************************************)
(* Clients, whose requests the next pass takes before anything else.        *)
(***************************************************************************)
Step == stepped < MaxPointerSteps /\ stepped' = stepped + 1

\* `Add`, `Subscribe` and `Move`: an item wants something, somewhere.
Place(i, p, wanted) ==
  /\ Step
  /\ wants' = [j \in DOMAIN wants \cup {i} |-> IF j = i THEN wanted ELSE wants[j]]
  /\ spots' = [j \in DOMAIN spots \cup {i} |-> IF j = i THEN p ELSE spots[j]]
  /\ stained' = TRUE
  /\ UNCHANGED <<clicked, depicted, crossable, routed>> /\ UNCHANGED surroundings

\* `Remove`: the entity is gone; a later item of the name is another.
Take(i) ==
  /\ Step /\ i \in DOMAIN wants
  /\ wants' = [j \in DOMAIN wants \ {i} |-> wants[j]]
  /\ spots' = [j \in DOMAIN spots \ {i} |-> spots[j]]
  /\ stained' = TRUE
  /\ UNCHANGED <<clicked, depicted, crossable, routed>> /\ UNCHANGED surroundings

(***************************************************************************)
(* The user, between two passes.                                           *)
(***************************************************************************)
\* A crossing is only noted, and wakes nobody (mouse.rs `observe`).
MoveTo(p) ==
  /\ pointer # p /\ pointer' = p
  /\ crossing' = IF {p, pointer} \cap crossable # {} /\ \E h \in listening : h.hover
                 THEN p ELSE crossing
  /\ UNCHANGED <<stepped, clicked, wants, spots, stained, depicted, crossable, mouse, adjust, serves,
                 listening, deaf, relic, hovered, clicks, routed>>

\* Every handler there is hears a click; what one that is going emits has no
\* feed to go to any more.
Press ==
  /\ clicked < MaxClicks /\ pointer # Outside /\ clicked' = clicked + 1
  /\ clicks' = clicks \o [h \in 1..Cardinality({l \in listening : ~l.ending}) |->
                  [id |-> clicked', at |-> pointer, over |-> depicted[pointer], late |-> FALSE]]
  /\ UNCHANGED <<stepped, wants, spots, stained, depicted, crossable, mouse, adjust, serves, listening,
                 deaf, relic, crossing, pointer, hovered, routed>>

(***************************************************************************)
(* The source's task, between two passes.                                  *)
(***************************************************************************)
\* The old handler goes before the new one is asked for.
Kept(hs) == hs
Replaced(hs) == {h \in hs : h.ending}

Handler(hover) == [hover |-> hover, ending |-> FALSE]
Uncrossed(hover) == IF hover THEN crossing ELSE Nobody

Adjust ==
  /\ mouse.up /\ adjust.unseen
  /\ adjust' = [adjust EXCEPT !.unseen = FALSE]
  /\ serves' = adjust.hover
  /\ IF adjust.hover = serves THEN UNCHANGED <<listening, deaf, relic, crossing>>
     ELSE /\ crossing' = Uncrossed(adjust.hover) /\ relic' = (relic /\ adjust.hover)
          /\ \/ listening' = Replaced(listening) \cup {Handler(adjust.hover)} /\ deaf' = FALSE
             \/ listening' = Replaced(listening) /\ deaf' = TRUE
  /\ UNCHANGED <<stepped, clicked, wants, spots, stained, depicted, crossable, mouse, pointer, hovered,
                 clicks, routed>>

\* The run loop drops the task that was aborted, and its handler with it.
TaskDropped ==
  /\ \E h \in listening : h.ending
  /\ listening' = {h \in listening : ~h.ending}
  /\ UNCHANGED <<stepped, clicked, wants, spots, stained, depicted, crossable, mouse, adjust, serves,
                 deaf, relic, crossing, pointer, hovered, clicks, routed>>

(***************************************************************************)
(* A pass.                                                                 *)
(***************************************************************************)
\* `Placements::hit` on what was last drawn. A removed item hears nothing.
ShownAtNow(p) == depicted'[p]
ShownAt(p) == depicted[p]
Hit(p) == IF p = Nobody THEN Nobody ELSE ShownAt(p)

\* `drain` hands over what the budget allows and leaves the rest to a pass
\* that may have another layout; `route_pointer`.
Route ==
  LET taken == Min({Len(clicks), DrainBudget})
  IN /\ routed' = {[click |-> clicks[n], to |-> Hit(clicks[n].at), turn |-> n] : n \in 1..taken}
     /\ clicks' = [n \in 1..(Len(clicks) - taken) |-> [clicks[n + taken] EXCEPT !.late = TRUE]]

\* `track_hover` asks where the pointer last crossed, not where it is.
TrackHover == hovered' = Hit(crossing)

\* `settle`: what is claimed, held against what the source serves.
Claimed == UNION {wants[i] : i \in DOMAIN wants}
Ending(hs) == {[h EXCEPT !.ending = TRUE] : h \in hs}

Evict ==
  /\ mouse' = IF mouse.up /\ mouse.stale THEN [mouse EXCEPT !.up = FALSE, !.stale = FALSE, !.serving = {}]
              ELSE [mouse EXCEPT !.stale = mouse.up]
  /\ listening' = IF mouse.up /\ mouse.stale THEN Ending(listening) ELSE listening
  /\ relic' = (relic \/ (mouse.up /\ mouse.stale /\ serves))
  /\ UNCHANGED <<adjust, serves, deaf>>

\* `Mouse::update` tells the task, `Mouse::run` registers or is refused.
Retune ==
  /\ mouse' = [mouse EXCEPT !.stale = FALSE, !.serving = Claimed]
  /\ adjust' = IF mouse.serving = Claimed THEN adjust
               ELSE [hover |-> "hover" \in Claimed, unseen |-> TRUE]
  /\ UNCHANGED <<serves, listening, deaf, relic>>
Register ==
  /\ mouse' = [mouse EXCEPT !.up = TRUE, !.stale = FALSE, !.serving = Claimed]
  /\ adjust' = [hover |-> "hover" \in Claimed, unseen |-> FALSE]
  /\ serves' = adjust'.hover /\ listening' = listening \cup {Handler(adjust'.hover)} /\ deaf' = FALSE
  /\ UNCHANGED relic
Refuse ==
  /\ mouse' = [mouse EXCEPT !.failed = TRUE, !.stale = FALSE, !.serving = {}]
  /\ UNCHANGED <<adjust, serves, listening, deaf, relic>>

Settle ==
  \/ Claimed = {} /\ Evict
  \/ Claimed # {} /\ mouse.up /\ Retune
  \/ Claimed # {} /\ ~mouse.up /\ ~mouse.failed /\ (Register \/ Refuse)
  \/ /\ Claimed # {} /\ ~mouse.up /\ mouse.failed
     /\ UNCHANGED <<mouse, adjust, serves, listening, deaf, relic>>

\* `repaint`, when the frame budget lets it, and `place` over what it drew.
Seen(p) == {i \in DOMAIN spots : spots[i] = p}
Redraw ==
  \/ stained /\ stained' = FALSE /\ depicted' = [p \in Places |-> IF Seen(p) = {} THEN Nobody
                                                                 ELSE CHOOSE i \in Seen(p) : TRUE]
  \/ UNCHANGED <<stained, depicted>>
Watch ==
  crossable' = {p \in Places : depicted'[p] \in DOMAIN wants /\ wants[depicted'[p]] # {}}

\* The run loop polls an aborted task before it comes to another pass.
PointerPass ==
  /\ \A h \in listening : ~h.ending
  /\ Redraw /\ Watch /\ Route /\ TrackHover /\ Settle
  /\ UNCHANGED <<stepped, clicked, wants, spots, crossing, pointer>>

PointerNext ==
  \/ \E i \in Hoverables : Take(i) \/ \E p \in Places \ {Outside}, wanted \in SUBSET Want : Place(i, p, wanted)
  \/ \E p \in Places : MoveTo(p)
  \/ Press \/ Adjust \/ TaskDropped \/ PointerPass

PointerSpec == PointerInit /\ [][PointerNext]_pointerVars

-----------------------------------------------------------------------------
\* A click goes to the item that was drawn under it when it was made, whatever
\* was moved, removed or repainted since, unless more were made than a pass
\* takes; and no click is heard twice, however often the handler is replaced.
ClickHitsWhatWasDrawn ==
  /\ \A r \in routed : ~r.click.late => r.to = r.click.over
  /\ \A r, s \in routed : r.click.id = s.click.id => r.turn = s.turn

\* Whenever its task has caught up, the mouse source has one handler, for
\* crossings exactly when something wants them, unless Carbon refused it; and
\* no crossing is remembered for an item to be hovered by while none are wanted,
\* unless from a source that was stopped.
MouseServesDemand ==
  mouse.up /\ ~adjust.unseen =>
    /\ ~deaf => {h \in listening : ~h.ending} = {Handler("hover" \in mouse.serving)}
    /\ deaf => listening = {}
    /\ "hover" \notin mouse.serving /\ ~relic => crossing = Nobody
=============================================================================
