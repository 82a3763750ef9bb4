------------------------------- MODULE Panels -------------------------------
(***************************************************************************)
(* The bar's windows, one for each display it is shown on (bar.rs), and the  *)
(* rectangles each asks the window server to watch for the pointer           *)
(* (tracking.rs): what a `SetBar` changes on windows that exist, what a       *)
(* window made later comes up with, what an item that wants the pointer       *)
(* claims where it was last drawn, and which displays are told when the       *)
(* claims move.  Every call to the window server may be refused.             *)
(*                                                                         *)
(* A display is its number in the window server's order; an item's rectangle *)
(* is one of a few spots; when a pass may draw is the frame budget's          *)
(* business, see Pump.                                                      *)
(***************************************************************************)
EXTENDS Naturals, Sequences, FiniteSets, FiniteSetsExt

CONSTANTS
  Screens,          \* display ids, in the window server's order
  Traits,           \* of `Settings`, what a window is told one call at a time
  PanelItems,
  Spots,            \* where an item can be laid out, 0 for nowhere
  MaxPanelChanges   \* bound: changes made from outside in a behaviour

ASSUME PanelsAssumption ==
  /\ Screens \subseteq Nat \ {0} /\ Spots \subseteq Nat \ {0} /\ IsFiniteSet(Screens)
  /\ {"frame", "hidden"} \subseteq Traits /\ {"panels", "clicks"} \cap Traits = {}
  /\ MaxPanelChanges \in Nat

VARIABLES
  tweaks,       \* changes made so far
  attached,     \* the displays there are
  rearranged,   \* a `DisplayChanged` is on its way
  display,       \* `Settings::display`: 0 for all, or one by its ordinal
  trait,        \* the other settings
  window,       \* `Panels::panels`, by display
  refused,      \* ghost: what the window server refused and was not asked again
  kindOf,       \* the kind an item wants the pointer for, `pointer_kind`
  spotOf,       \* where the items would be laid out now
  onlyOn,       \* `ItemDisplay`: 0 for all, or one by its ordinal
  undrawn,      \* a repaint is wanted
  owesPass,     \* a pass is asked for
  phase,        \* "out" of a pass, where requests are taken, or at its "end"
  retained,     \* `Placements`: what was drawn where, by display
  tracked,      \* `TrackedArea` of each item
  projected     \* `Areas::by_display`

panelsVars == <<tweaks, attached, rearranged, display, trait, window, refused, kindOf, spotOf,
                onlyOn, undrawn, owesPass, phase, retained, tracked, projected>>

PointerKind == {"entered", "exited", "clicked"}
Rects == SUBSET Spots
Window == [ordinal: Nat, trait: [Traits -> BOOLEAN], clickable: BOOLEAN, rects: Rects,
           unsure: BOOLEAN]

PanelsTypeOK ==
  /\ tweaks \in 0..MaxPanelChanges /\ attached \subseteq Screens
  /\ {rearranged, undrawn, owesPass} \subseteq BOOLEAN
  /\ display \in Nat /\ trait \in [Traits -> BOOLEAN]
  /\ DOMAIN window \subseteq Screens
  /\ \A s \in DOMAIN window : window[s] \in Window /\ window[s].ordinal \in 1..Cardinality(Screens)
  /\ refused \subseteq Traits \cup {"panels", "clicks"}
  /\ kindOf \in [PanelItems -> PointerKind \cup {"none"}]
  /\ spotOf \in [PanelItems -> Spots \cup {0}] /\ onlyOn \in [PanelItems -> Nat]
  /\ phase \in {"out", "end"}
  /\ retained \in [Screens -> SUBSET (PanelItems \X Spots)]
  /\ tracked \in [PanelItems -> SUBSET (PointerKind \X Screens \X Spots)]
  /\ \A i \in PanelItems : Cardinality(tracked[i]) <= 1
  /\ projected \in [Screens -> Rects]

\* `enumerate` over `display::active`.
OrdinalOf(s) == Cardinality({t \in attached : t <= s})
\* `DisplayTarget::matches`.
Targets(wanted, ordinal) == wanted = 0 \/ wanted = ordinal

\* `new_window`, told every setting there is and what the last one was not.
Plain == [t \in Traits |-> FALSE]
Opened(s) == [ordinal |-> OrdinalOf(s), trait |-> trait, clickable |-> FALSE, rects |-> {},
              unsure |-> projected[s] # {}]

PanelsInit ==
  /\ tweaks = 0 /\ attached \in SUBSET Screens \ {{}} /\ rearranged = FALSE
  /\ display = 0 /\ trait = Plain /\ refused = {}
  /\ projected = [s \in Screens |-> {}]
  /\ window = [s \in attached |-> Opened(s)]
  /\ kindOf = [i \in PanelItems |-> "none"] /\ spotOf \in [PanelItems -> Spots]
  /\ onlyOn \in [PanelItems -> {0, 1}]
  /\ undrawn = TRUE /\ owesPass = TRUE /\ phase = "out"
  /\ retained = [s \in Screens |-> {}] /\ tracked = [i \in PanelItems |-> {}]

(***************************************************************************)
(* The windows.                                                            *)
(***************************************************************************)
\* `Panels::rebuild` for the target `to`. The window of a display that stays
\* is moved out of the old list and told its frame; the first call that is
\* refused ends it, and with it go that window and those already moved: only
\* the displays after it keep theirs.
Framed(w, s) == [w EXCEPT !.trait["frame"] = trait["frame"], !.ordinal = OrdinalOf(s)]
Chosen(to) == {s \in attached : Targets(to, OrdinalOf(s))}
Rebuilt(s) == IF s \in DOMAIN window THEN Framed(window[s], s) ELSE Opened(s)
Rebuilding(to) == [s \in Chosen(to) |-> Rebuilt(s)]
CutShort(to, failing) ==
  [s \in {t \in DOMAIN window : t > failing \/ t \notin Chosen(to)} |-> window[s]]

\* A setter on every window in turn, or, refused by one of them, those before it.
ToldUntil(failing) == {s \in DOMAIN window : s < failing}
Told(w, t, value, told) == [s \in DOMAIN w |-> IF s \in told THEN [w[s] EXCEPT !.trait[t] = value] ELSE w[s]]

Tweak == phase = "out" /\ tweaks < MaxPanelChanges /\ tweaks' = tweaks + 1

\* `SetBar` for the display it is shown on: the other changes of the patch
\* come after, see SetTrait.
Retarget(to) ==
  /\ Tweak /\ display # to
  /\ display' = to
  /\ \/ window' = Rebuilding(to) /\ refused' = refused \ {"panels", "frame"}
     \/ \E failing \in Chosen(to) : window' = CutShort(to, failing) /\ refused' = refused \cup {"panels"}
  /\ undrawn' = TRUE /\ owesPass' = TRUE
  /\ UNCHANGED <<attached, rearranged, trait, kindOf, spotOf, onlyOn, retained, tracked, phase, projected>>

\* `SetBar` for a setting the windows are told one call each: `Settings::apply`
\* has it whether or not they take it, so it is not said again.
SetTrait(t) ==
  /\ Tweak
  /\ trait' = [trait EXCEPT ![t] = ~@]
  /\ \/ window' = Told(window, t, trait'[t], DOMAIN window) /\ refused' = refused \ {t}
     \/ \E failing \in DOMAIN window :
          window' = Told(window, t, trait'[t], ToldUntil(failing)) /\ refused' = refused \cup {t}
  /\ undrawn' = TRUE /\ owesPass' = TRUE
  /\ UNCHANGED <<attached, rearranged, display, kindOf, spotOf, onlyOn, retained, tracked, phase, projected>>

\* A display comes or goes; the source reports it.
Plug(s) ==
  /\ Tweak
  /\ attached' = IF s \in attached THEN attached \ {s} ELSE attached \cup {s}
  /\ attached' # {} /\ rearranged' = TRUE /\ owesPass' = TRUE
  /\ UNCHANGED <<display, trait, window, refused, kindOf, spotOf, onlyOn, undrawn, retained,
                 tracked, phase, projected>>

\* A pass begins, with the requests before it taken: `rebuild_panels`.
RebuildPanels ==
  /\ phase = "out" /\ owesPass /\ phase' = "end"
  /\ rearranged' = FALSE /\ undrawn' = (undrawn \/ rearranged)
  /\ \/ ~rearranged /\ UNCHANGED <<window, refused>>
     \/ rearranged /\ window' = Rebuilding(display) /\ refused' = refused \ {"panels", "frame"}
     \/ /\ rearranged
        /\ \E failing \in Chosen(display) : window' = CutShort(display, failing)
        /\ refused' = refused \cup {"panels"}
  /\ UNCHANGED <<tweaks, attached, display, trait, kindOf, spotOf, onlyOn, owesPass, retained,
                 tracked, projected>>

(***************************************************************************)
(* What the items want.                                                    *)
(***************************************************************************)
\* `Panels::set_clickable`, in the same way.
Clickable(told) == [s \in DOMAIN window |-> [window[s] EXCEPT !.clickable = @ \/ s \in told]]

\* `Subscribe` and `Set` with a click script: whoever wants the pointer makes
\* the windows there are take clicks, and nothing makes them let go.
WantPointer(i, k) ==
  /\ Tweak /\ kindOf[i] # k
  /\ kindOf' = [kindOf EXCEPT ![i] = k]
  /\ IF k = "none" THEN UNCHANGED <<window, refused>>
     ELSE \/ window' = Clickable(DOMAIN window) /\ UNCHANGED refused
          \/ \E failing \in DOMAIN window :
               window' = Clickable(ToldUntil(failing)) /\ refused' = refused \cup {"clicks"}
  /\ owesPass' = TRUE
  /\ UNCHANGED <<attached, rearranged, display, trait, spotOf, onlyOn, undrawn, retained, tracked,
                 phase, projected>>

\* An item moves, or is drawn no more.
Lay(i, spot) ==
  /\ Tweak /\ spotOf[i] # spot
  /\ spotOf' = [spotOf EXCEPT ![i] = spot]
  /\ undrawn' = TRUE /\ owesPass' = TRUE
  /\ UNCHANGED <<attached, rearranged, display, trait, window, refused, kindOf, onlyOn, retained,
                 tracked, phase, projected>>

(***************************************************************************)
(* The end of a pass.                                                      *)
(***************************************************************************)
\* `repaint`, when the budget lets it.
Laid(s) == {<<i, spotOf[i]>> : i \in {j \in PanelItems :
              /\ spotOf[j] # 0 /\ s \in DOMAIN window
              /\ Targets(onlyOn[j], window[s].ordinal)}}
Repaint == /\ undrawn /\ undrawn' = FALSE
           /\ retained' = [s \in Screens |-> IF trait["hidden"] THEN {} ELSE Laid(s)]
KeepDrawn == UNCHANGED <<undrawn, retained>>

\* `place`: an item holds one area. Each display it was drawn on is compared
\* with the one it held before the system ran, and replaces it if another.
AreasOf(i, drawn) ==
  UNION {{<<kindOf[i], s, p[2]>> : p \in {q \in drawn[s] : q[1] = i}} : s \in Screens}
Placing(i, drawn) ==
  LET areas == AreasOf(i, drawn)
      other == areas \ tracked[i]
      last == Max({a[2] : a \in other})
  IN IF kindOf[i] = "none" \/ areas = {} THEN {}
     ELSE IF other = {} THEN tracked[i]
     ELSE {a \in other : a[2] = last}

\* `Areas::refresh` over the claims alive, and the displays it reports.
ClaimedOn(s, held) == {a[3] : a \in {b \in UNION {held[i] : i \in PanelItems} : b[2] = s}}
MovedToSome(held) == {s \in Screens : ClaimedOn(s, held) \notin {projected[s], {}}}
MovedOn(held) == {s \in Screens : ClaimedOn(s, held) # projected[s]}

\* `rebuild`: the window of each is cleared and told what is claimed there. A
\* refusal is not made up for: the display has been reported.
Tracking(w, claimed) ==
  {[w EXCEPT !.rects = claimed, !.unsure = FALSE], [w EXCEPT !.unsure = TRUE]}
    \cup {[w EXCEPT !.rects = some, !.unsure = TRUE] : some \in SUBSET claimed \ {claimed}}

Track(drawn) ==
  /\ tracked' = [i \in PanelItems |-> Placing(i, drawn)]
  /\ projected' = [s \in Screens |-> ClaimedOn(s, tracked')]
  /\ window' \in {w \in [DOMAIN window -> UNION {Tracking(window[s], projected'[s]) \cup {window[s]}
                                                : s \in DOMAIN window}] :
       \A s \in DOMAIN window :
         IF s \in MovedOn(tracked') THEN w[s] \in Tracking(window[s], projected'[s])
         ELSE w[s] = window[s]}

EndPanelPass ==
  /\ phase = "end" /\ phase' = "out"
  /\ Repaint \/ KeepDrawn
  /\ owesPass' = undrawn'
  /\ Track(retained')
  /\ UNCHANGED <<tweaks, attached, rearranged, display, trait, refused, kindOf, spotOf, onlyOn>>

PanelsNext ==
  \/ \E to \in 0..Cardinality(Screens) : Retarget(to)
  \/ \E t \in Traits : SetTrait(t)
  \/ \E s \in Screens : Plug(s)
  \/ RebuildPanels
  \/ \E i \in PanelItems : \/ \E k \in PointerKind \cup {"none"} : WantPointer(i, k)
                           \/ \E spot \in Spots \cup {0} : Lay(i, spot)
  \/ EndPanelPass

PanelsSpec == PanelsInit /\ [][PanelsNext]_panelsVars

-----------------------------------------------------------------------------
PanelsRest == phase = "out" /\ ~owesPass

PlacedOn(i) == {s \in Screens : \E p \in retained[s] : p[1] = i}
WatchedFor(i, s) == <<i, spotOf[i]>> \in retained[s] /\ kindOf[i] # "none"

\* What the windows are is what the settings say, whichever were there when a
\* setting changed and whichever came up since, as far as the window server
\* took what it was told. After a pass it watches a rectangle for every item
\* that wants the pointer and was drawn on one display, and none that no item
\* wants, unless it refused, or the window has taken the place of one while
\* nothing was drawn.
PanelsFollow ==
  PanelsRest =>
    /\ "panels" \notin refused => DOMAIN window = Chosen(display)
    /\ \A s \in DOMAIN window :
         /\ \A t \in Traits \ refused : window[s].trait[t] = trait[t]
         /\ ~window[s].unsure =>
              /\ \A i \in PanelItems :
                   PlacedOn(i) = {s} /\ WatchedFor(i, s) => spotOf[i] \in window[s].rects
              /\ \A r \in window[s].rects : \E i \in PanelItems : WatchedFor(i, s) /\ spotOf[i] = r
=============================================================================
