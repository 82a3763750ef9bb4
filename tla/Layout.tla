-------------------------------- MODULE Layout --------------------------------
(***************************************************************************)
(* What is drawn again when something changes (layout.rs, popup.rs): which    *)
(* changes ask for a repaint, which rectangles a repaint tears and what it     *)
(* draws into them, of the bar and of the popup of one of its items, on one   *)
(* display.  The frame budget may hold a repaint back for passes, see Pump;    *)
(* where things go is Geometry.                                              *)
(*                                                                         *)
(* A surface is, for each of its columns, what was drawn there and of any two  *)
(* which is on top.                                                          *)
(***************************************************************************)
EXTENDS Geometry, FiniteSets

CONSTANTS
  Drawables,     \* items that are not brackets
  Brackets,      \* items drawn over the span of their members
  Host,          \* the item the popup hangs off
  LayBuckets,    \* where the items may be put
  LayWidths,     \* what the items may measure
  PanelX,        \* where the bar begins on the desktop
  MaxRestyles    \* bound: changes made in a behaviour

ASSUME LayoutAssumption ==
  /\ IsFiniteSet(Drawables \cup Brackets) /\ Drawables \cap Brackets = {} /\ Host \in Drawables
  /\ MaxRestyles \in Nat /\ PanelX \in Int
  /\ LayBuckets \subseteq Buckets /\ LayBuckets # {} /\ LayWidths \subseteq Nat /\ LayWidths # {}

VARIABLES
  restyled,     \* changes made so far
  boxes,        \* the items there are: see Box
  members,      \* `Members`, of each bracket
  rows,         \* the brackets as a query yields them, archetype by archetype
  setting,      \* `Settings`: hidden, and what else all of the bar is drawn with
  hanging,      \* `PopupConfig` of the host: drawing, and its background
  touched,      \* changed since `repaint` and `repaint_popups` last looked
  unpainted,    \* the gates found something and it is not on the screen
  force,        \* `ForceRepaint`, or settings changed since `repaint` looked
  placed,       \* `Placements` of the display and `PopupPlacements` of the host
  shown,        \* what is on the screen
  unlisted      \* ghost: what layout reads has changed and no gate looks at it

layoutVars == <<restyled, boxes, members, rows, setting, hanging, touched, unpainted, force, placed, shown,
                unlisted>>

Surface == {"bar", "popup"}
All == Drawables \cup Brackets
Box == [at: LayBuckets, order: 1..Cardinality(All), drawing: BOOLEAN, width: LayWidths, look: 0..1,
        inPopup: BOOLEAN]

\* The ways to put some in a row.
Listings(S) ==
  {f \in [1..Cardinality(S) -> S] : \A i, j \in 1..Cardinality(S) : f[i] = f[j] => i = j}

LayoutTypeOK ==
  /\ restyled \in 0..MaxRestyles /\ DOMAIN boxes \subseteq All
  /\ \A b \in DOMAIN boxes : boxes[b] \in Box /\ (b \in Brackets => ~boxes[b].inPopup)
  /\ members \in [Brackets -> SUBSET Drawables] /\ rows \in Listings(Brackets)
  /\ setting \in [hidden: BOOLEAN, look: 0..1] /\ hanging \in [drawing: BOOLEAN, look: 0..1]
  /\ touched \in [Surface -> SUBSET All] /\ unpainted \in [Surface -> BOOLEAN]
  /\ force \in BOOLEAN /\ unlisted \in [Surface -> BOOLEAN]
  /\ \A s \in Surface : \A r \in Range(placed[s].list) : r.id \in All /\ {r.x, r.width} \subseteq Int
  /\ placed.popup.list # <<>> <=> shown.popup # <<>>

(***************************************************************************)
(* The layout.                                                             *)
(***************************************************************************)
Whichever(S) == CHOOSE x \in S : TRUE
PlaceIn(seq, x) == CHOOSE n \in DOMAIN seq : seq[n] = x
InOrder(S) ==
  Whichever({f \in Listings(S) :
               \A i, j \in 1..Cardinality(S) : i < j => boxes[f[i]].order < boxes[f[j]].order})
Measured(S) == LET seq == InOrder(S) IN
  [n \in 1..Cardinality(S) |->
     [id |-> seq[n], at |-> boxes[seq[n]].at, width |-> boxes[seq[n]].width]]

\* `brackets_over`: over what of its members is placed, if anything is.
SpanOf(bracket, list) ==
  LET over == {r \in Range(list) : r.id \in members[bracket]}
      left == Min({r.x : r \in over})
  IN [id |-> bracket, x |-> left, width |-> Max({r.x + r.width : r \in over}) - left]
Spanned(bracket, list) ==
  boxes[bracket].drawing /\ \E r \in Range(list) : r.id \in members[bracket]

Spans(bracket, list, sofar) ==
  IF bracket \in DOMAIN boxes /\ Spanned(bracket, list) THEN Append(sofar, SpanOf(bracket, list)) ELSE sofar
BracketsOver(list) ==
  LET spans[n \in 0..Len(rows)] == IF n = 0 THEN <<>> ELSE Spans(rows[n], list, spans[n - 1])
  IN spans[Len(rows)]

\* `place`: items by their order, the brackets first, under what they span, as
\* the query has them. Without members a bracket is an item like any other.
LaidOut ==
  LET bare == {b \in DOMAIN boxes : /\ boxes[b].drawing /\ ~boxes[b].inPopup
                                    /\ b \in Brackets => members[b] = {}}
      items == Arrange(Measured(bare), BarWidth, [left |-> 0, right |-> 0], 0)
  IN BracketsOver(items) \o items

\* The popup hangs off where its host was last placed.
Nowhere == [list |-> <<>>, frame |-> <<>>]
HostAt(list) == {r \in Range(list) : r.id = Host}
Hung(bar) ==
  LET children == {b \in DOMAIN boxes : boxes[b].drawing /\ boxes[b].inPopup}
      row == ArrangePopup(Measured(children), TRUE)
  IN IF ~hanging.drawing \/ Host \notin DOMAIN boxes \/ HostAt(bar) = {} \/ children = {}
     THEN Nowhere
     ELSE [list |-> row.placed,
           frame |-> LET host == OnDesktop(PanelX, Whichever(HostAt(bar)))
                     IN <<AnchorAt(host, row.width, "left", BarWidth), row.width>>]

(***************************************************************************)
(* Painting.                                                               *)
(***************************************************************************)
Columns(r) == {x \in 0..(BarWidth - 1) : r.x <= x /\ x < r.x + r.width}
Intersects(r, s) == r.x < s.x + s.width /\ s.x < r.x + r.width

\* `damage`: what has moved, where it was and where it is; what came, what went
\* and what changed where it stood.
RectOf(id, list) == {r \in Range(list) : r.id = id}
TornWhereItIs(before, now, changed) ==
  {r \in Range(now) : r \notin Range(before) \/ r.id \in changed}
Torn(before, now, changed) ==
  {r \in Range(now) : r \notin Range(before) \/ r.id \in changed}
    \cup {r \in Range(before) : RectOf(r.id, now) # {r}}

\* What `draw_item` leaves in a column, of everything that is not passed over.
Painted(x, list, ground, into) ==
  LET over == {n \in DOMAIN list : x \in Columns(list[n]) /\ \E t \in into : Intersects(t, list[n])}
  IN [ground |-> ground,
      drawn |-> {<<list[n].id, boxes[list[n].id].look>> : n \in over},
      onTop |-> {<<list[p[1]].id, list[p[2]].id>> : p \in {q \in over \X over : q[2] < q[1]}}]
Everywhere == [x |-> 0, width |-> BarWidth]
Full(list, ground) ==
  [x \in 0..(BarWidth - 1) |-> Painted(x, list, ground, {Everywhere})]
\* `draw_damaged`: what is torn is cleared and clipped to.
Mended(pixels, list, ground, into) ==
  [x \in 0..(BarWidth - 1) |->
     IF \E t \in into : x \in Columns(t) THEN Painted(x, list, ground, into) ELSE pixels[x]]

(***************************************************************************)
(* Changes, each by a request of the next pass.                             *)
(***************************************************************************)
LayoutInit ==
  /\ restyled = 0
  /\ hanging \in [drawing: BOOLEAN, look: {0}]
  /\ boxes = [b \in All |-> [at |-> Whichever(LayBuckets), order |-> PlaceIn(Whichever(Listings(All)), b),
                             drawing |-> TRUE, width |-> Min(LayWidths), look |-> 0,
                             inPopup |-> hanging.drawing /\ b \in Drawables \ {Host}]]
  /\ members = [b \in Brackets |-> Drawables] /\ rows = Whichever(Listings(Brackets))
  /\ setting = [hidden |-> FALSE, look |-> 0]
  /\ touched = [s \in Surface |-> All] /\ unpainted = [s \in Surface |-> TRUE]
  /\ force = TRUE /\ unlisted = [s \in Surface |-> FALSE]
  /\ placed = [s \in Surface |-> Nowhere]
  /\ shown = [bar |-> Full(<<>>, 0), popup |-> <<>>]

MayRestyle == restyled < MaxRestyles /\ restyled' = restyled + 1
Noted(b, forBar, forPopup) ==
  /\ touched' = [s \in Surface |-> touched[s] \cup {b}]
  /\ unpainted' = [s \in Surface |-> unpainted[s] \/ forBar \/ (s = "popup" /\ forPopup)]

\* A component of an item that the queries list: one kind for an item of the
\* bar and, but for its placement, one for an item of the popup.
Restyle(b) ==
  /\ MayRestyle /\ b \in DOMAIN boxes
  /\ \E changed \in {[boxes[b] EXCEPT !.look = 1 - @], [boxes[b] EXCEPT !.drawing = ~@]}
                      \cup {[boxes[b] EXCEPT !.width = w] : w \in LayWidths} :
       changed # boxes[b] /\ boxes' = [boxes EXCEPT ![b] = changed]
  /\ Noted(b, ~boxes[b].inPopup, boxes[b].inPopup)
  /\ UNCHANGED <<members, rows, setting, hanging, force, placed, shown, unlisted>>

PutIn(b, bucket) ==
  /\ MayRestyle /\ b \in DOMAIN boxes /\ boxes[b].at # bucket
  /\ boxes' = [boxes EXCEPT ![b].at = bucket]
  /\ Noted(b, ~boxes[b].inPopup, FALSE)
  /\ UNCHANGED <<members, rows, setting, hanging, force, placed, shown, unlisted>>

\* `Move`: the two change places in the order.
Swap(b, c) ==
  /\ MayRestyle /\ b # c /\ {b, c} \subseteq DOMAIN boxes
  /\ boxes' = [boxes EXCEPT ![b].order = boxes[c].order, ![c].order = boxes[b].order]
  /\ touched' = [s \in Surface |-> touched[s] \cup {b, c}]
  /\ unpainted' = [s \in Surface |-> \/ unpainted[s] \/ \E i \in {b, c} : ~boxes[i].inPopup
                                     \/ s = "popup" /\ \E i \in {b, c} : boxes[i].inPopup]
  /\ UNCHANGED <<members, rows, setting, hanging, force, placed, shown, unlisted>>

\* `Add` of an item that is there, to or from the popup. One that is in the
\* popup now is not looked at for the bar, and its placement for neither.
Rehang(b) ==
  /\ MayRestyle /\ b \in DOMAIN boxes \ (Brackets \cup {Host})
  /\ boxes' = [boxes EXCEPT ![b].inPopup = ~@]
  /\ touched' = [s \in Surface |-> touched[s] \cup {b}]
  /\ unpainted' = [s \in Surface |-> unpainted[s] \/ boxes[b].inPopup]
  /\ unlisted' = [s \in Surface |-> unlisted[s] \/ ~boxes[b].inPopup]
  /\ UNCHANGED <<members, rows, setting, hanging, force, placed, shown>>

TakeOut(b) ==
  /\ MayRestyle /\ b \in DOMAIN boxes
  /\ boxes' = [i \in DOMAIN boxes \ {b} |-> boxes[i]]
  /\ hanging' = IF b = Host THEN [hanging EXCEPT !.drawing = FALSE] ELSE hanging
  /\ touched' = [s \in Surface |-> touched[s] \ {b}]
  /\ unpainted' = [s \in Surface |-> TRUE]
  /\ UNCHANGED <<members, rows, setting, force, placed, shown, unlisted>>

\* `Set` of a bracket's members, which no query lists.
SetMembers(b, S) ==
  /\ MayRestyle /\ b \in DOMAIN boxes /\ members[b] # S
  /\ members' = [members EXCEPT ![b] = S] /\ unlisted' = [unlisted EXCEPT !.bar = TRUE]
  /\ UNCHANGED <<boxes, rows, setting, hanging, touched, unpainted, force, placed, shown>>

\* A component that no gate looks at comes or goes, as the marks of a reload do:
\* the brackets change archetypes, and the query yields them in another order.
Relist(order) ==
  /\ MayRestyle /\ order # rows /\ rows' = order /\ unlisted' = [unlisted EXCEPT !.bar = TRUE]
  /\ UNCHANGED <<boxes, members, setting, hanging, touched, unpainted, force, placed, shown>>

\* `SetBar`, whether or not it is the bar's visibility: all of it is redrawn.
SetSetting(changed) ==
  /\ MayRestyle /\ setting # changed /\ setting' = changed
  /\ force' = TRUE /\ unpainted' = [s \in Surface |-> TRUE]
  /\ UNCHANGED <<boxes, rows, members, hanging, touched, placed, shown, unlisted>>

\* `Set` of the host's popup: what only its background changes tears nothing.
SetPopup(changed) ==
  /\ MayRestyle /\ Host \in DOMAIN boxes /\ hanging # changed /\ hanging' = changed
  /\ unpainted' = [unpainted EXCEPT !["popup"] = TRUE]
  /\ unlisted' = [unlisted EXCEPT !.popup = @ \/ hanging.look # changed.look]
  /\ UNCHANGED <<boxes, rows, members, setting, touched, force, placed, shown>>

(***************************************************************************)
(* The end of a pass.                                                      *)
(***************************************************************************)
\* `repaint`. Hidden, the bar is not placed and stays as it was drawn.
BarNow == IF setting.hidden THEN Nowhere ELSE [list |-> LaidOut, frame |-> <<PanelX, BarWidth>>]
BarWhole == force \/ placed.bar.frame = <<>>
BarAfter ==
  IF setting.hidden THEN shown.bar
  ELSE IF BarWhole THEN Full(LaidOut, setting.look)
  ELSE Mended(shown.bar, LaidOut, setting.look, Torn(placed.bar.list, LaidOut, touched.bar))

\* `repaint_popups`: the window of one that is not there any more is closed,
\* one that opens or whose frame is another is drawn whole.
PopupWhole(hung) == placed.popup.frame # hung.frame
PopupAfter(hung) ==
  IF hung.list = <<>> THEN <<>>
  ELSE IF PopupWhole(hung) THEN Full(hung.list, hanging.look)
  ELSE Mended(shown.popup, hung.list, hanging.look, Torn(placed.popup.list, hung.list, touched.popup))

\* A pass in which the frame is open paints what is owed, the bar first: a
\* popup is owed whenever the bar is, as its host may have moved.
Paint(bar, popup, wasOwed) ==
  /\ wasOwed.popup
  /\ placed' = [bar |-> bar, popup |-> popup]
  /\ shown' = [bar |-> IF wasOwed.bar THEN BarAfter ELSE shown.bar, popup |-> PopupAfter(popup)]
  /\ touched' = [bar |-> IF wasOwed.bar THEN {} ELSE touched.bar, popup |-> {}]
  /\ force' = (force /\ ~wasOwed.bar)
  /\ unlisted' = [bar |-> unlisted.bar /\ ~(wasOwed.bar /\ BarWhole),
                   popup |-> unlisted.popup /\ popup.list # <<>> /\ ~PopupWhole(popup)]
  /\ unpainted' = [s \in Surface |-> FALSE]
  /\ UNCHANGED <<restyled, boxes, rows, members, setting, hanging>>
PresentFrame ==
  LET bar == IF unpainted.bar THEN BarNow ELSE placed.bar IN Paint(bar, Hung(bar.list), unpainted)

LayoutNext ==
  \/ \E b \in All : \/ Restyle(b) \/ Rehang(b) \/ TakeOut(b)
                    \/ \E bucket \in LayBuckets : PutIn(b, bucket)
                    \/ \E c \in All : Swap(b, c)
  \/ \E b \in Brackets, S \in SUBSET Drawables : SetMembers(b, S)
  \/ \E order \in Listings(Brackets) : Relist(order)
  \/ \E h \in BOOLEAN, l \in 0..1 :
       SetSetting([hidden |-> h, look |-> l]) \/ SetPopup([drawing |-> h, look |-> l])
  \/ PresentFrame

LayoutSpec == LayoutInit /\ [][LayoutNext]_layoutVars

-----------------------------------------------------------------------------
\* What is torn is enough: when nothing is owed, the bar and the popup show in
\* every column what they would if all of them were drawn again, though each
\* repaint drew no more than what it thought had changed, several changes after
\* the last; unless something changed that no gate looks at, and nothing has
\* drawn all of it since.
ShowsWhatIsThere ==
  ~unpainted.popup =>
    /\ ~setting.hidden /\ ~unlisted.bar => shown.bar = Full(LaidOut, setting.look)
    /\ ~unlisted.popup =>
         shown.popup = LET hung == Hung(placed.bar.list)
                       IN IF hung.list = <<>> THEN <<>> ELSE Full(hung.list, hanging.look)
=============================================================================
