------------------------------- MODULE Geometry -------------------------------
(***************************************************************************)
(* Where things go on the bar and in a popup: what an item measures and how  *)
(* it is drawn in the box it measured (layout.rs `width`, `draw_item`), how   *)
(* the boxes are arranged over the bar (`arrange`), and how those of a popup  *)
(* are stacked and hung off their host (popup.rs).                           *)
(*                                                                         *)
(* Lengths are integers, in a unit of half a point so that a midpoint is      *)
(* one too; what is only vertical is left out.  A behaviour measures one      *)
(* sheet of inputs.                                                          *)
(***************************************************************************)
EXTENDS Integers, Sequences, SequencesExt, FiniteSetsExt

CONSTANTS Lengths,   \* to measure with, some of them negative
          BarWidth,  \* of the bar the sheet is laid out on
          Runs       \* bound: at most so many items in a row

ASSUME GeometryAssumption ==
  /\ Lengths \subseteq Int /\ \A length \in Lengths : length % 2 = 0
  /\ BarWidth \in Nat \ {0} /\ BarWidth % 2 = 0 /\ Runs \in Nat

VARIABLE sheet

Fit(x, low, high) == Max({low, Min({x, high})})
Least(a, b) == Min({a, b})
Most(a, b) == Max({a, b})
\* How wide the first n are together, and all of them.
Upto(widths, n) ==
  LET sum[k \in 0..Len(widths)] == IF k = 0 THEN 0 ELSE sum[k - 1] + widths[k] IN sum[n]
Total(widths) == Upto(widths, Len(widths))

(***************************************************************************)
(* One item: an icon, a graph or slider between, a label.                    *)
(***************************************************************************)
\* What a run takes, nothing when its string is empty.
RunWidth(run) == IF run.empty THEN 0 ELSE run.before + run.ink + run.after

\* What is between is measured on the bar; an item of a popup is measured as if
\* it had no graph and no slider, though it is drawn with them.
MeasuredMiddle(box) == IF box.popup THEN 0 ELSE box.middle

\* `width`, of an item that is not told how wide it is and shows no alias.
WidthOf(box) ==
  LET icon == RunWidth(box.icon)
      middle == MeasuredMiddle(box)
      label == RunWidth(box.label)
      between == IF icon > 0 /\ middle > 0 THEN box.between ELSE 0
      beyond == IF (icon > 0 \/ middle > 0) /\ label > 0 THEN box.between ELSE 0
  IN box.left + icon + between + middle + beyond + label + box.right

\* `draw_item`: where the pen is after each part, from the box's own left.
AfterIcon(box) ==
  box.left + (IF box.icon.empty THEN 0
              ELSE RunWidth(box.icon) + (IF box.middle > 0 THEN box.between ELSE 0))
AfterMiddle(box) == AfterIcon(box) + box.middle
AtLabel(box) ==
  AfterMiddle(box)
    + (IF (~box.icon.empty \/ box.middle > 0) /\ ~box.label.empty THEN box.between ELSE 0)
PenAtEnd(box) == AtLabel(box) + RunWidth(box.label)

\* `alias_box`: paddings may be negative, the picture keeps inside all the same.
AliasBox(box, ink) ==
  LET slack == Most(box.left + box.right, 0)
  IN [at |-> Fit(box.left, 0, slack), width |-> ink + slack]

\* `draw_slider`: the knob, in a track so long and filled so far.
KnobAt(track, filled, knob) ==
  Fit(filled - knob \div 2, 0, Most(track - (knob + 1), 0))

\* `background_rect`.
BackgroundAt(box, width) ==
  [at |-> box.left, width |-> Most(width - box.left - box.right, 0)]

(***************************************************************************)
(* The items of the bar, as [id, at, width], in their order.                 *)
(***************************************************************************)
Buckets == {"left", "right", "center", "center_left", "center_right"}

With(picked, item, bucket) == IF item.at = bucket THEN Append(picked, item) ELSE picked
In(bucket, items) ==
  LET picked[k \in 0..Len(items)] == IF k = 0 THEN <<>> ELSE With(picked[k - 1], items[k], bucket)
  IN picked[Len(items)]
Widths(items) == [n \in 1..Len(items) |-> items[n].width]

\* One after the other, from x on.
RunFrom(x, items) ==
  [n \in 1..Len(items) |->
     [id |-> items[n].id, x |-> x + Upto(Widths(items), n - 1), width |-> items[n].width]]
\* The last of them first, up to x.
RunUpTo(x, items) ==
  LET length == Total(Widths(items)) IN Reverse(RunFrom(x - length, items))

\* `arrange`.
ArrangeOverlapped(items, width, padding, notch) ==
  LET centre == In("center", items)
      start == (width - Total(Widths(centre))) \div 2
  IN RunFrom(padding.left, In("left", items))
       \o RunUpTo(width - padding.right, In("right", items))
       \o RunFrom(start, centre)
       \o RunUpTo(start, In("center_left", items))
       \o RunFrom(start + Total(Widths(centre)), In("center_right", items))
Arrange(items, width, padding, notch) ==
  LET centre == In("center", items)
      start == (width - Total(Widths(centre))) \div 2
      end == start + Total(Widths(centre))
  IN RunFrom(padding.left, In("left", items))
       \o RunUpTo(width - padding.right, In("right", items))
       \o RunFrom(start, centre)
       \o RunUpTo(Least(start, (width - notch) \div 2), In("center_left", items))
       \o RunFrom(Most(end, (width + notch) \div 2), In("center_right", items))

(***************************************************************************)
(* The items of a popup.                                                   *)
(***************************************************************************)
\* `arrange_popup`: side by side, an item that measures less than nothing
\* taking nothing, or below each other as wide as the widest.
ArrangePopup(items, horizontal) ==
  IF horizontal
    THEN LET taking == [n \in 1..Len(items) |-> [items[n] EXCEPT !.width = Most(@, 0)]]
         IN [placed |-> RunFrom(0, taking), width |-> Total(Widths(taking))]
    ELSE LET widest == Max({0} \cup {items[n].width : n \in 1..Len(items)})
         IN [placed |-> [n \in 1..Len(items) |-> [id |-> items[n].id, x |-> 0, width |-> widest]],
             width |-> widest]

\* `item_frame`: where an item of a bar that begins there is on the desktop.
OnDesktop(panel, host) == [host EXCEPT !.x = panel + @]

\* `popup_anchor`, across the desktop. The host is where it is on the desktop,
\* and what the popup is kept within is how wide the bar is, from nought.
AnchorAt(host, width, align, within) ==
  LET x == CASE align = "left" -> host.x
             [] align = "center" -> host.x + (host.width - width) \div 2
             [] align = "right" -> host.x + host.width - width
  IN IF width <= within THEN Most(Least(x, within - width), 0) ELSE x

(***************************************************************************)
(* The sheets.                                                             *)
(***************************************************************************)
Run == [empty: BOOLEAN, before: Lengths, ink: Lengths \cap Nat, after: Lengths]
Boxes == [kind: {"box"}, popup: BOOLEAN, icon: Run, middle: Lengths \cap Nat, label: Run,
          left: Lengths, between: Lengths, right: Lengths]
Rows == [kind: {"row"}, items: UNION {[1..n -> [at: Buckets, width: Lengths]] : n \in 0..Runs},
         notch: Lengths \cap Nat, align: {"left", "center", "right"}, panel: Lengths]

Identified(items) == [n \in 1..Len(items) |-> [id |-> n, at |-> items[n].at, width |-> items[n].width]]

Blank == [kind |-> "blank"]
GeometryInit == sheet = Blank
MeasureBox == sheet = Blank /\ sheet' \in Boxes
MeasureRow == sheet = Blank /\ sheet' \in Rows
GeometryNext == MeasureBox \/ MeasureRow
GeometrySpec == GeometryInit /\ [][GeometryNext]_sheet

-----------------------------------------------------------------------------
\* A run is drawn if it is not empty and counts as measured if it is wider than
\* nothing: the same, unless negative paddings eat it up.
Sound(run) == run.empty <=> RunWidth(run) <= 0
Unmeasured(box) == box.middle - MeasuredMiddle(box)
Overhang(box) == PenAtEnd(box) + box.right - WidthOf(box)

\* An item of the bar whose texts take some room is drawn in the box it measured:
\* the pen ends where the padding on the right begins, though one function says
\* how wide the parts are to lay the item out and another to draw it. Where they
\* disagree, in a popup about a graph or slider, and anywhere about a text that
\* its paddings eat up, it is by no more than that and the gaps next to them. The
\* icon of an alias, the background and a slider's knob do not stick out.
DrawsInItsBox ==
  sheet.kind = "box" =>
    /\ Overhang(sheet) \in {Unmeasured(sheet) + gaps * sheet.between : gaps \in 0..2}
    /\ Sound(sheet.icon) /\ Sound(sheet.label) /\ Unmeasured(sheet) = 0 => Overhang(sheet) = 0
    /\ \A ink \in Lengths \cap Nat :
         LET box == AliasBox(sheet, ink) IN 0 <= box.at /\ box.at + ink <= box.width
    /\ \A filled \in 0..sheet.middle, knob \in Lengths \cap Nat :
         LET at == KnobAt(sheet.middle, filled, knob)
         IN 0 <= at /\ (knob < sheet.middle => at + knob < sheet.middle)
    /\ sheet.left >= 0 /\ sheet.right >= 0 =>
         \A width \in Lengths \cap Nat :
           LET inner == BackgroundAt(sheet, width)
           IN inner.width > 0 => inner.at + inner.width <= width

Apart(r, s) == r.x + r.width <= s.x \/ s.x + s.width <= r.x
Placed(items, bucket) == {r \in Range(Arrange(items, BarWidth, [left |-> 0, right |-> 0], sheet.notch)) :
                            items[r.id].at = bucket}

\* However many items are in a bucket, none of it covers another, the first of
\* the bar's left and the last of its right touch its ends, and the three in
\* the middle keep clear of each other and the outer two of the notch, if none
\* measures less than nothing; side by side in a popup they do not cover each
\* other even if one does. On the display the desktop begins with, a popup that
\* fits is on the display, wherever its host is: on another it is put where the
\* first display is, not where its own is, and nothing is said of it.
ArrangesApart ==
  sheet.kind = "row" =>
    LET items == Identified(sheet.items)
        middle == UNION {Placed(items, b) : b \in {"center", "center_left", "center_right"}}
        row == ArrangePopup(items, TRUE).placed
    IN /\ (\A n \in DOMAIN items : items[n].width >= 0) =>
            /\ \A b \in Buckets : \A r, s \in Placed(items, b) :
                 r.id < s.id => r.x + r.width <= s.x
            /\ \A r, s \in middle : r.id # s.id => Apart(r, s)
            /\ \A r \in Placed(items, "center_left") : 2 * (r.x + r.width) <= BarWidth - sheet.notch
            /\ \A r \in Placed(items, "center_right") : 2 * r.x >= BarWidth + sheet.notch
            /\ Placed(items, "left") # {} => \E r \in Placed(items, "left") : r.x = 0
            /\ Placed(items, "right") # {} =>
                 \E r \in Placed(items, "right") : r.x + r.width = BarWidth
       /\ \A r, s \in Range(row) : r.id < s.id => r.x + r.width <= s.x
       /\ \A x \in -BarWidth..2 * BarWidth, taken \in Lengths, horizontal \in BOOLEAN :
            LET host == OnDesktop(sheet.panel, [x |-> x, width |-> taken])
                width == ArrangePopup(items, horizontal).width
                spot == AnchorAt(host, width, sheet.align, BarWidth)
            IN sheet.panel = 0 /\ width <= BarWidth =>
                 sheet.panel <= spot /\ spot + width <= sheet.panel + BarWidth

\* What measures agrees with what draws, and what is arranged keeps apart.
DrawsWhatItMeasured == DrawsInItsBox /\ ArrangesApart
=============================================================================
