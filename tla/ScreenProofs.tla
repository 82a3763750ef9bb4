--------------------------- MODULE ScreenProofs -----------------------------
(***************************************************************************)
(* Theorems about what is on the screen, for any items, applications,      *)
(* displays and bounds.  Pointer: the mouse source serves the demand, and  *)
(* a click goes to what was drawn under it.  Alias: a mirror holds         *)
(* pictures of its own spec, and no worker is left with a result nobody    *)
(* takes.  AliasWatch: an application is observed while one of its items   *)
(* is watched.  Panels: the windows are those of the displays chosen, and  *)
(* watch what was drawn in them.  Geometry: an item is drawn in the box it *)
(* measured, and no item over another.  Layout: what a repaint of the dirty *)
(* rects leaves on a surface is what there is to show.                     *)
(***************************************************************************)
EXTENDS Pointer, Alias, AliasWatch, Panels, Items, Layout, SequenceTheorems,
        FiniteSetTheorems, WellFoundedInduction, TLAPS

-----------------------------------------------------------------------------
(* Pointer. *)

\* The mouse source and its task, as types.
MouseTypes ==
  /\ mouse \in [up: BOOLEAN, serving: SUBSET Want, stale: BOOLEAN, failed: BOOLEAN]
  /\ adjust \in [hover: BOOLEAN, unseen: BOOLEAN]
  /\ listening \subseteq [hover: BOOLEAN, ending: BOOLEAN]
  /\ serves \in BOOLEAN /\ deaf \in BOOLEAN /\ relic \in BOOLEAN
  /\ \A i \in DOMAIN wants : wants[i] \subseteq Want

\* Only a source that was stopped has a handler that is going, and what its task
\* is told to serve is what the source is to serve.
HandlersFollow ==
  /\ \A h \in listening : h.ending <=> ~mouse.up
  /\ mouse.up =>
       /\ adjust.hover <=> "hover" \in mouse.serving
       /\ ~adjust.unseen => (serves <=> adjust.hover)
       /\ ~deaf => listening = {Handler(serves)}
       /\ deaf => listening = {}

\* A crossing is noted only for hover, and is left only by a source that was
\* stopped while it served it.
CrossingsFollow ==
  /\ ~serves /\ ~relic => crossing = Nobody
  /\ ~mouse.up /\ serves => relic
  /\ \A h \in listening : h.hover => serves \/ relic

MouseInv == MouseTypes /\ HandlersFollow /\ CrossingsFollow

\* What is claimed is what items may want.
LEMMA ClaimedTyped == ASSUME MouseTypes PROVE Claimed \subseteq Want
BY DEF MouseTypes, Claimed

\* The clients change what is claimed and nothing of the source.
LEMMA ClientsKeepMouse ==
  ASSUME MouseInv, NEW i \in Hoverables,
         \/ Take(i)
         \/ \E p \in Places \ {Outside}, wanted \in SUBSET Want : Place(i, p, wanted)
  PROVE  MouseInv'
<1>1. UNCHANGED <<mouse, adjust, serves, listening, deaf, relic, crossing>>
  BY DEF Take, Place, surroundings
<1>2. \A j \in DOMAIN wants' : wants'[j] \subseteq Want
  BY DEF Take, Place, MouseInv, MouseTypes
<1>3. QED
  BY <1>1, <1>2 DEF MouseInv, MouseTypes, HandlersFollow, CrossingsFollow

\* The task catches up with what it is told to serve.
LEMMA AdjustKeepsMouse == ASSUME MouseInv, Adjust PROVE MouseInv'
<1>1. /\ mouse.up /\ mouse' = mouse /\ wants' = wants
      /\ adjust' = [adjust EXCEPT !.unseen = FALSE] /\ serves' = adjust.hover
  BY DEF Adjust
<1>2. adjust'.hover = adjust.hover /\ ~adjust'.unseen
      /\ adjust' \in [hover: BOOLEAN, unseen: BOOLEAN]
  BY <1>1 DEF MouseInv, MouseTypes
<1>3. Replaced(listening) = {}
  BY <1>1 DEF Replaced, MouseInv, HandlersFollow
<1>4. \A b \in BOOLEAN : /\ Handler(b) \in [hover: BOOLEAN, ending: BOOLEAN]
                         /\ ~Handler(b).ending /\ Handler(b).hover = b
  BY DEF Handler
<1>5. adjust.hover \in BOOLEAN
  BY DEF MouseInv, MouseTypes
<1>6. CASE adjust.hover = serves
  BY <1>1, <1>2, <1>6 DEF Adjust, MouseInv, MouseTypes, HandlersFollow, CrossingsFollow
<1>7. CASE adjust.hover # serves
  <2>1. /\ crossing' = Uncrossed(adjust.hover) /\ relic' = (relic /\ adjust.hover)
        /\ \/ listening' = {Handler(adjust.hover)} /\ deaf' = FALSE
           \/ listening' = {} /\ deaf' = TRUE
    BY <1>3, <1>7 DEF Adjust
  <2>2. MouseTypes'
    BY <1>1, <1>2, <1>4, <1>5, <2>1 DEF MouseInv, MouseTypes
  <2>3. HandlersFollow'
    BY <1>1, <1>2, <1>4, <1>5, <2>1 DEF MouseInv, HandlersFollow
  <2>4. CrossingsFollow'
    BY <1>1, <1>4, <1>5, <2>1 DEF CrossingsFollow, Uncrossed
  <2>5. QED
    BY <2>2, <2>3, <2>4 DEF MouseInv
<1>8. QED
  BY <1>6, <1>7

\* A pass holds what is claimed against what the source serves.
LEMMA PassKeepsMouse == ASSUME MouseInv, PointerPass PROVE MouseInv'
<1>1. /\ \A h \in listening : ~h.ending
      /\ Settle /\ UNCHANGED <<wants, crossing>>
  BY DEF PointerPass
<1>2. \A b \in BOOLEAN : /\ Handler(b) \in [hover: BOOLEAN, ending: BOOLEAN]
                         /\ ~Handler(b).ending /\ Handler(b).hover = b
  BY DEF Handler
<1>3. Claimed \subseteq Want
  BY ClaimedTyped DEF MouseInv
<1>4. CASE Evict
  <2>1. CASE mouse.up /\ mouse.stale
    <3>1. /\ ~mouse'.up /\ mouse' \in [up: BOOLEAN, serving: SUBSET Want, stale: BOOLEAN, failed: BOOLEAN]
          /\ listening' = Ending(listening) /\ relic' = (relic \/ serves)
          /\ UNCHANGED <<adjust, serves, deaf>>
      BY <1>4, <2>1 DEF Evict, MouseInv, MouseTypes
    <3>2. /\ listening' \subseteq [hover: BOOLEAN, ending: BOOLEAN]
          /\ \A h \in listening' : h.ending /\ \E g \in listening : g.hover = h.hover
      <4>1. \A g \in [hover: BOOLEAN, ending: BOOLEAN] :
              /\ [g EXCEPT !.ending = TRUE] \in [hover: BOOLEAN, ending: BOOLEAN]
              /\ [g EXCEPT !.ending = TRUE].ending
              /\ [g EXCEPT !.ending = TRUE].hover = g.hover
        OBVIOUS
      <4>2. \A h \in listening' : \E g \in listening : h = [g EXCEPT !.ending = TRUE]
        BY <3>1 DEF Ending
      <4>3. listening \subseteq [hover: BOOLEAN, ending: BOOLEAN]
        BY DEF MouseInv, MouseTypes
      <4>4. QED
        BY <4>1, <4>2, <4>3
    <3>3. QED
      BY <1>1, <3>1, <3>2 DEF MouseInv, MouseTypes, HandlersFollow, CrossingsFollow
  <2>2. CASE ~(mouse.up /\ mouse.stale)
    <3>1. /\ mouse'.up = mouse.up /\ mouse'.serving = mouse.serving
          /\ mouse' \in [up: BOOLEAN, serving: SUBSET Want, stale: BOOLEAN, failed: BOOLEAN]
          /\ UNCHANGED <<adjust, serves, deaf, listening, relic>>
      BY <1>4, <2>2 DEF Evict, MouseInv, MouseTypes
    <3>2. QED
      BY <1>1, <3>1 DEF MouseInv, MouseTypes, HandlersFollow, CrossingsFollow
  <2>3. QED
    BY <2>1, <2>2
<1>5. CASE mouse.up /\ Retune
  <2>1. /\ mouse'.up /\ mouse'.serving = Claimed
        /\ mouse' \in [up: BOOLEAN, serving: SUBSET Want, stale: BOOLEAN, failed: BOOLEAN]
        /\ UNCHANGED <<serves, listening, deaf, relic>>
    BY <1>3, <1>5 DEF Retune, MouseInv, MouseTypes
  <2>2. /\ adjust' \in [hover: BOOLEAN, unseen: BOOLEAN]
        /\ adjust'.hover <=> "hover" \in Claimed
        /\ ~adjust'.unseen => adjust' = adjust
    <3>1. PICK b \in BOOLEAN : b <=> "hover" \in Claimed
      OBVIOUS
    <3>2. CASE mouse.serving = Claimed
      BY <1>5, <3>2 DEF Retune, MouseInv, MouseTypes, HandlersFollow
    <3>3. CASE mouse.serving # Claimed
      <4>1. adjust' = [hover |-> b, unseen |-> TRUE]
        BY <1>5, <3>1, <3>3 DEF Retune
      <4>2. QED
        BY <3>1, <4>1
    <3>4. QED
      BY <3>2, <3>3
  <2>3. QED
    BY <1>1, <1>5, <2>1, <2>2 DEF MouseInv, MouseTypes, HandlersFollow, CrossingsFollow
<1>6. CASE ~mouse.up /\ Register
  <2>1. listening = {}
    BY <1>1, <1>6 DEF MouseInv, HandlersFollow
  <2>2. PICK b \in BOOLEAN : b <=> "hover" \in Claimed
    OBVIOUS
  <2>3. /\ mouse'.up /\ mouse'.serving = Claimed
        /\ mouse' \in [up: BOOLEAN, serving: SUBSET Want, stale: BOOLEAN, failed: BOOLEAN]
    BY <1>3, <1>6 DEF Register, MouseInv, MouseTypes
  <2>4. /\ adjust' \in [hover: BOOLEAN, unseen: BOOLEAN]
        /\ adjust'.hover = b /\ ~adjust'.unseen /\ serves' = b
        /\ listening' = {Handler(b)} /\ deaf' = FALSE /\ relic' = relic
    BY <1>6, <2>1, <2>2 DEF Register
  <2>5. MouseTypes'
    BY <1>1, <1>2, <2>3, <2>4 DEF MouseInv, MouseTypes
  <2>6. HandlersFollow'
    BY <1>2, <2>2, <2>3, <2>4 DEF HandlersFollow
  <2>7. CrossingsFollow'
    BY <1>1, <1>2, <1>6, <2>3, <2>4 DEF MouseInv, CrossingsFollow
  <2>8. QED
    BY <2>5, <2>6, <2>7 DEF MouseInv
<1>7. CASE ~mouse.up /\ Refuse
  <2>1. /\ ~mouse'.up
        /\ mouse' \in [up: BOOLEAN, serving: SUBSET Want, stale: BOOLEAN, failed: BOOLEAN]
        /\ UNCHANGED <<adjust, serves, listening, deaf, relic>>
    BY <1>7 DEF Refuse, MouseInv, MouseTypes
  <2>2. QED
    BY <1>1, <1>7, <2>1 DEF MouseInv, MouseTypes, HandlersFollow, CrossingsFollow
<1>8. CASE UNCHANGED <<mouse, adjust, serves, listening, deaf, relic>>
  BY <1>1, <1>8 DEF MouseInv, MouseTypes, HandlersFollow, CrossingsFollow
<1>9. QED
  BY <1>1, <1>4, <1>5, <1>6, <1>7, <1>8 DEF Settle

\* The user, and a task that was stopped.
LEMMA OthersKeepMouse ==
  ASSUME MouseInv,
         (\E p \in Places : MoveTo(p)) \/ Press \/ TaskDropped \/ UNCHANGED pointerVars
  PROVE  MouseInv'
<1>1. CASE \E p \in Places : MoveTo(p)
  <2>1. /\ UNCHANGED <<mouse, adjust, serves, listening, deaf, relic, wants>>
        /\ crossing' = crossing \/ \E h \in listening : h.hover
    BY <1>1 DEF MoveTo
  <2>2. QED
    BY <2>1 DEF MouseInv, MouseTypes, HandlersFollow, CrossingsFollow
<1>2. CASE TaskDropped
  <2>1. /\ UNCHANGED <<mouse, adjust, serves, deaf, relic, wants, crossing>>
        /\ \E h \in listening : h.ending
        /\ listening' = {h \in listening : ~h.ending}
    BY <1>2 DEF TaskDropped
  <2>2. ~mouse.up
    BY <2>1 DEF MouseInv, HandlersFollow
  <2>3. QED
    BY <2>1, <2>2 DEF MouseInv, MouseTypes, HandlersFollow, CrossingsFollow
<1>3. CASE Press \/ UNCHANGED pointerVars
  BY <1>3 DEF Press, pointerVars, MouseInv, MouseTypes, HandlersFollow, CrossingsFollow
<1>4. QED
  BY <1>1, <1>2, <1>3

\* Every step of the user, a client, the task or a pass.
LEMMA MouseStep == MouseInv /\ [PointerNext]_pointerVars => MouseInv'
BY ClientsKeepMouse, AdjustKeepsMouse, PassKeepsMouse, OthersKeepMouse DEF PointerNext

\* Nothing is claimed and nobody listens.
LEMMA MouseStart == PointerInit => MouseInv
<1> SUFFICES ASSUME PointerInit PROVE MouseInv
  OBVIOUS
<1>1. DOMAIN wants = {}
  BY DEF PointerInit
<1>2. MouseTypes
  BY <1>1 DEF PointerInit, MouseTypes
<1>3. HandlersFollow /\ CrossingsFollow
  BY DEF PointerInit, HandlersFollow, CrossingsFollow
<1>4. QED
  BY <1>2, <1>3 DEF MouseInv

\* Handlers and crossings that follow are what the demand is served by.
LEMMA MouseIsServed == MouseInv => MouseServesDemand
<1> SUFFICES ASSUME MouseInv, mouse.up, ~adjust.unseen
             PROVE  /\ ~deaf => {h \in listening : ~h.ending} = {Handler("hover" \in mouse.serving)}
                    /\ deaf => listening = {}
                    /\ "hover" \notin mouse.serving /\ ~relic => crossing = Nobody
  BY DEF MouseServesDemand
<1>1. PICK b \in BOOLEAN : b <=> "hover" \in mouse.serving
  OBVIOUS
<1>2. serves = b /\ b = ("hover" \in mouse.serving)
  BY <1>1 DEF MouseInv, MouseTypes, HandlersFollow
<1>3. ~deaf => listening = {Handler(b)}
  BY <1>2 DEF MouseInv, HandlersFollow
<1>4. {h \in listening : ~h.ending} = listening
  BY DEF MouseInv, HandlersFollow
<1>5. QED
  BY <1>2, <1>3, <1>4 DEF MouseInv, HandlersFollow, CrossingsFollow

\* mouse.rs: whenever its task has caught up there is one handler, for crossings
\* exactly when something wants them, unless Carbon refused it; and no crossing
\* is remembered while none are wanted, unless from a source that was stopped.
THEOREM MouseIsServing == PointerSpec => []MouseServesDemand
BY MouseIsServed, MouseStart, MouseStep, PTL DEF PointerSpec

-----------------------------------------------------------------------------
\* The clicks that wait: each is one of its own, heard once, and knows what was
\* drawn under it for as long as nothing else was drawn.
ClickTypes ==
  /\ clicked \in 0 .. MaxClicks /\ clicks \in Seq(Click) /\ pointer \in Places
  /\ DOMAIN spots \subseteq Hoverables
  /\ depicted \in [Places -> Hoverables \cup {Nobody}]

HeardOnce ==
  /\ \A n \in 1 .. Len(clicks) : clicks[n].id <= clicked
  /\ \A m, n \in 1 .. Len(clicks) : clicks[m].id = clicks[n].id => m = n

OverWhatIsDrawn ==
  \A n \in 1 .. Len(clicks) : ~clicks[n].late => clicks[n].over = depicted[clicks[n].at]

ClickInv == ClickTypes /\ HeardOnce /\ OverWhatIsDrawn /\ ClickHitsWhatWasDrawn

\* At most one handler hears a click.
LEMMA OneHears == ASSUME MouseInv PROVE Cardinality({l \in listening : ~l.ending}) \in {0, 1}
<1>1. CASE ~mouse.up
  <2>1. {l \in listening : ~l.ending} = {}
    BY <1>1 DEF MouseInv, HandlersFollow
  <2>2. QED
    BY <2>1, FS_EmptySet
<1>2. CASE mouse.up
  <2>1. {l \in listening : ~l.ending} = listening
    BY <1>2 DEF MouseInv, HandlersFollow
  <2>2. listening = {Handler(serves)} \/ listening = {}
    BY <1>2 DEF MouseInv, HandlersFollow
  <2>3. QED
    BY <2>1, <2>2, FS_EmptySet, FS_Singleton
<1>3. QED
  BY <1>1, <1>2

\* A click is made.
LEMMA PressKeepsClicks == ASSUME MouseInv, ClickInv, Press PROVE ClickInv'
<1> DEFINE rec == [id |-> clicked', at |-> pointer, over |-> depicted[pointer], late |-> FALSE]
           c == Cardinality({l \in listening : ~l.ending})
           more == [h \in 1 .. c |-> rec]
<1>1. /\ clicked' = clicked + 1 /\ clicked < MaxClicks /\ clicks' = clicks \o more
      /\ UNCHANGED <<spots, depicted, pointer, routed>>
  BY DEF Press
<1>2. c \in {0, 1}
  BY OneHears
<1>3. rec \in Click /\ clicked' \in 0 .. MaxClicks
  BY <1>1, PointerAssumption DEF ClickInv, ClickTypes, Click
<1>4. PICK n \in Nat : n = Len(clicks)
  BY LenProperties DEF ClickInv, ClickTypes
<1> HIDE DEF c
<1>5. more \in Seq(Click) /\ Len(more) = c /\ \A h \in 1 .. c : more[h] = rec
  BY <1>2, <1>3
<1>6. /\ rec.id = clicked + 1 /\ rec.at = pointer /\ rec.over = depicted[pointer]
  BY <1>1
<1> HIDE DEF more, rec
<1>7. /\ clicks' \in Seq(Click) /\ Len(clicks') = n + c
      /\ \A k \in 1 .. n : clicks'[k] = clicks[k]
      /\ \A k \in 1 .. n + c : k \in 1 .. n \/ clicks'[k] = rec
  <2>1. /\ clicks \o more \in Seq(Click) /\ Len(clicks \o more) = n + c
        /\ \A k \in 1 .. n + c : (clicks \o more)[k] = IF k <= n THEN clicks[k] ELSE more[k - n]
    BY <1>4, <1>5, ConcatProperties DEF ClickInv, ClickTypes
  <2>2. ASSUME NEW k \in 1 .. n + c, k \notin 1 .. n PROVE clicks'[k] = rec
    <3>1. k - n \in 1 .. c /\ ~(k <= n)
      BY <1>2, <2>2
    <3>2. QED
      BY <1>1, <1>5, <2>1, <3>1
  <2>3. ASSUME NEW k \in 1 .. n PROVE clicks'[k] = clicks[k]
    <3>1. k \in 1 .. n + c /\ k <= n
      BY <1>2, <1>4
    <3>2. (clicks \o more)[k] = clicks[k]
      BY <2>1, <3>1
    <3>3. QED
      BY <1>1, <3>2
  <2>4. QED
    BY <1>1, <2>1, <2>2, <2>3
<1>8. \A k \in 1 .. n : clicks[k].id \in Nat /\ clicks[k].id <= clicked
  <2>1. \A x \in Click : x.id \in Nat
    BY PointerAssumption DEF Click
  <2>2. \A k \in 1 .. n : clicks[k] \in Click
    BY <1>4 DEF ClickInv, ClickTypes
  <2>3. QED
    BY <1>4, <2>1, <2>2 DEF ClickInv, HeardOnce
<1>9. ASSUME NEW i \in 1 .. n + c, NEW j \in 1 .. n + c, clicks'[i].id = clicks'[j].id
      PROVE  i = j
  <2>1. CASE i \in 1 .. n /\ j \in 1 .. n
    BY <1>4, <1>7, <1>9, <2>1 DEF ClickInv, HeardOnce
  <2>2. CASE i \in 1 .. n /\ j \notin 1 .. n
    <3>1. clicks[i].id = clicked + 1
      BY <1>6, <1>7, <1>9, <2>2
    <3>2. QED
      BY <1>8, <2>2, <3>1 DEF ClickInv, ClickTypes
  <2>3. CASE i \notin 1 .. n /\ j \in 1 .. n
    <3>1. clicks[j].id = clicked + 1
      BY <1>6, <1>7, <1>9, <2>3
    <3>2. QED
      BY <1>8, <2>3, <3>1 DEF ClickInv, ClickTypes
  <2>4. CASE i \notin 1 .. n /\ j \notin 1 .. n
    BY <1>2, <2>4
  <2>5. QED
    BY <2>1, <2>2, <2>3, <2>4
<1>10. \A k \in 1 .. n + c : clicks'[k].id <= clicked'
  BY <1>1, <1>3, <1>6, <1>7, <1>8 DEF ClickInv, ClickTypes
<1>11. HeardOnce'
  BY <1>7, <1>9, <1>10 DEF HeardOnce
<1>12. OverWhatIsDrawn'
  <2>1. ASSUME NEW k \in 1 .. n + c, ~clicks'[k].late
        PROVE  clicks'[k].over = depicted[clicks'[k].at]
    BY <1>4, <1>6, <1>7, <2>1 DEF ClickInv, OverWhatIsDrawn
  <2>2. QED
    BY <1>1, <1>7, <2>1 DEF OverWhatIsDrawn
<1>13. QED
  BY <1>1, <1>3, <1>7, <1>11, <1>12 DEF ClickInv, ClickTypes, ClickHitsWhatWasDrawn

\* A pass hands over the first of them.
LEMMA TakenAreThere ==
  ASSUME NEW n \in Nat
  PROVE  Min({n, DrainBudget}) \in 0 .. n
<1>1. \E x \in {n, DrainBudget} : \A y \in {n, DrainBudget} : x <= y
  BY PointerAssumption
<1>2. Min({n, DrainBudget}) \in {n, DrainBudget} /\ Min({n, DrainBudget}) <= n
  BY <1>1 DEF Min
<1>3. QED
  BY <1>2, PointerAssumption

LEMMA PassKeepsClicks == ASSUME ClickInv, PointerPass PROVE ClickInv'
<1> DEFINE taken == Min({Len(clicks), DrainBudget})
<1>1. /\ Redraw /\ UNCHANGED <<clicked, spots, pointer>>
      /\ routed' = {[click |-> clicks[n], to |-> Hit(clicks[n].at), turn |-> n] : n \in 1 .. taken}
      /\ clicks' = [n \in 1 .. (Len(clicks) - taken) |-> [clicks[n + taken] EXCEPT !.late = TRUE]]
  BY DEF PointerPass, Route
<1>2. PICK m \in Nat : m = Len(clicks)
  BY LenProperties DEF ClickInv, ClickTypes
<1>3. taken \in 0 .. m
  BY <1>2, TakenAreThere
<1> HIDE DEF taken
<1>4. \A k \in 1 .. m : clicks[k] \in Click
  BY <1>2 DEF ClickInv, ClickTypes
<1>5. \A k \in 1 .. m - taken : k + taken \in 1 .. m
  BY <1>3
<1>6. \A x \in Click : /\ [x EXCEPT !.late = TRUE] \in Click
                       /\ [x EXCEPT !.late = TRUE].late /\ [x EXCEPT !.late = TRUE].id = x.id
  BY DEF Click
<1>7. /\ clicks' \in Seq(Click) /\ Len(clicks') = m - taken
      /\ \A k \in 1 .. m - taken : clicks'[k].late /\ clicks'[k].id = clicks[k + taken].id
  <2>1. clicks' = [k \in 1 .. m - taken |-> [clicks[k + taken] EXCEPT !.late = TRUE]]
    BY <1>1, <1>2
  <2>2. \A k \in 1 .. m - taken : [clicks[k + taken] EXCEPT !.late = TRUE] \in Click
    BY <1>4, <1>5, <1>6
  <2>3. m - taken \in Nat
    BY <1>3
  <2>4. clicks' \in Seq(Click) /\ Len(clicks') = m - taken
    BY <2>1, <2>2, <2>3
  <2>5. ASSUME NEW k \in 1 .. m - taken
        PROVE  clicks'[k].late /\ clicks'[k].id = clicks[k + taken].id
    BY <1>4, <1>5, <1>6, <2>1
  <2>6. QED
    BY <2>4, <2>5
<1>8. depicted' \in [Places -> Hoverables \cup {Nobody}]
  BY <1>1 DEF Redraw, Seen, ClickInv, ClickTypes
<1>9. HeardOnce'
  <2>1. \A k \in 1 .. m - taken : clicks'[k].id <= clicked
    BY <1>2, <1>5, <1>7 DEF ClickInv, HeardOnce
  <2>2. ASSUME NEW i \in 1 .. m - taken, NEW j \in 1 .. m - taken, clicks'[i].id = clicks'[j].id
        PROVE  i = j
    <3>1. i + taken = j + taken
      BY <1>2, <1>5, <1>7, <2>2 DEF ClickInv, HeardOnce
    <3>2. QED
      BY <1>3, <3>1
  <2>3. QED
    BY <1>1, <1>7, <2>1, <2>2 DEF HeardOnce
<1>10. OverWhatIsDrawn'
  BY <1>7 DEF OverWhatIsDrawn
<1>11. ClickHitsWhatWasDrawn'
  <2>1. ASSUME NEW r \in routed'
        PROVE  \E k \in 1 .. m : r.click = clicks[k] /\ r.to = Hit(clicks[k].at) /\ r.turn = k
    BY <1>1, <1>3, <2>1
  <2>2. ASSUME NEW r \in routed', ~r.click.late PROVE r.to = r.click.over
    <3>1. PICK k \in 1 .. m : r.click = clicks[k] /\ r.to = Hit(clicks[k].at) /\ r.turn = k
      BY <2>1
    <3>2. clicks[k].over = depicted[clicks[k].at] /\ clicks[k].at \in Places
      BY <1>2, <1>4, <2>2, <3>1 DEF ClickInv, OverWhatIsDrawn, Click
    <3>3. QED
      BY <3>1, <3>2, PointerAssumption DEF Hit, ShownAt
  <2>3. ASSUME NEW r \in routed', NEW s \in routed', r.click.id = s.click.id PROVE r.turn = s.turn
    BY <1>2, <2>1, <2>3 DEF ClickInv, HeardOnce
  <2>4. QED
    BY <2>2, <2>3 DEF ClickHitsWhatWasDrawn
<1>12. QED
  BY <1>1, <1>7, <1>8, <1>9, <1>10, <1>11 DEF ClickInv, ClickTypes

\* Nothing else touches a click, or what is drawn under it.
LEMMA ClickStep == MouseInv /\ ClickInv /\ [PointerNext]_pointerVars => ClickInv'
<1> SUFFICES ASSUME MouseInv, ClickInv, [PointerNext]_pointerVars PROVE ClickInv'
  OBVIOUS
<1>1. ASSUME UNCHANGED <<clicked, clicks, depicted, routed>>, pointer' \in Places,
             DOMAIN spots' \subseteq Hoverables
      PROVE  ClickInv'
  BY <1>1 DEF ClickInv, ClickTypes, HeardOnce, OverWhatIsDrawn, ClickHitsWhatWasDrawn
<1>2. pointer \in Places /\ DOMAIN spots \subseteq Hoverables
  BY DEF ClickInv, ClickTypes
<1>3. ASSUME NEW i \in Hoverables,
             \/ Take(i)
             \/ \E p \in Places \ {Outside}, wanted \in SUBSET Want : Place(i, p, wanted)
      PROVE  ClickInv'
  BY <1>1, <1>2, <1>3 DEF Take, Place, surroundings
<1>4. CASE (\E p \in Places : MoveTo(p)) \/ Adjust \/ TaskDropped \/ UNCHANGED pointerVars
  BY <1>1, <1>2, <1>4 DEF MoveTo, Adjust, TaskDropped, pointerVars
<1>5. QED
  BY <1>3, <1>4, PressKeepsClicks, PassKeepsClicks DEF PointerNext

\* Nothing was drawn and nothing clicked.
LEMMA ClickStart == PointerInit => ClickInv
<1> SUFFICES ASSUME PointerInit PROVE ClickInv
  OBVIOUS
<1>1. DOMAIN spots = {} /\ Len(clicks) = 0 /\ clicks \in Seq(Click)
  BY DEF PointerInit
<1>2. ClickTypes
  BY <1>1, PointerAssumption DEF PointerInit, ClickTypes
<1>3. HeardOnce /\ OverWhatIsDrawn /\ ClickHitsWhatWasDrawn
  BY <1>1 DEF PointerInit, HeardOnce, OverWhatIsDrawn, ClickHitsWhatWasDrawn
<1>4. QED
  BY <1>2, <1>3 DEF ClickInv

\* ecs.rs `route_pointer`: a click goes to what was drawn under it when it was
\* made, whatever was moved, removed or repainted since, unless it had to wait
\* for another pass; and no click is heard twice, however often the handler that
\* hears it is replaced.
THEOREM ClicksHit == PointerSpec => []ClickHitsWhatWasDrawn
<1>1. ClickInv => ClickHitsWhatWasDrawn
  BY DEF ClickInv
<1>2. QED
  BY <1>1, MouseStart, MouseStep, ClickStart, ClickStep, PTL DEF PointerSpec

\* What the invariants of the pointer leave open of its types.
PointerRest ==
  /\ stepped \in 0..MaxPointerSteps /\ stained \in BOOLEAN
  /\ DOMAIN wants \subseteq Hoverables /\ DOMAIN spots = DOMAIN wants
  /\ \A i \in DOMAIN spots : spots[i] \in Places \ {Outside}
  /\ crossable \subseteq Places /\ crossing \in Places \cup {Nobody}
  /\ hovered \in Hoverables \cup {Nobody}
  /\ \A r \in routed : r.click \in Click /\ r.to \in Hoverables \cup {Nobody}

LEMMA PointerRestStart == PointerInit => PointerRest
<1> SUFFICES ASSUME PointerInit PROVE PointerRest
  OBVIOUS
<1>1. DOMAIN wants = {} /\ DOMAIN spots = {}
  BY DEF PointerInit
<1>2. stepped \in 0..MaxPointerSteps
  BY PointerAssumption DEF PointerInit
<1>3. QED
  BY <1>1, <1>2 DEF PointerInit, PointerRest

\* What a place shows is an item, or none.
LEMMA HitTyped == ASSUME ClickTypes, NEW p \in Places \cup {Nobody} PROVE Hit(p) \in Hoverables \cup {Nobody}
BY DEF ClickTypes, Hit, ShownAt

\* Whatever is placed, pressed or routed, that is so.
LEMMA PointerRestStep == ClickInv /\ PointerRest /\ [PointerNext]_pointerVars => PointerRest'
<1> SUFFICES ASSUME ClickInv, PointerRest, [PointerNext]_pointerVars PROVE PointerRest'
  OBVIOUS
<1>1. ASSUME NEW i \in Hoverables, Take(i) PROVE PointerRest'
  BY <1>1, PointerAssumption DEF Take, Step, PointerRest, surroundings
<1>2. ASSUME NEW i \in Hoverables, NEW p \in Places \ {Outside}, NEW wanted \in SUBSET Want, Place(i, p, wanted)
      PROVE  PointerRest'
  BY <1>2, PointerAssumption DEF Place, Step, PointerRest, surroundings
<1>3. ASSUME NEW p \in Places, MoveTo(p) PROVE PointerRest'
  BY <1>3 DEF MoveTo, PointerRest
<1>4. CASE Press
  BY <1>4 DEF Press, PointerRest
<1>5. CASE Adjust
  BY <1>5 DEF Adjust, Uncrossed, PointerRest
<1>6. CASE TaskDropped
  BY <1>6 DEF TaskDropped, PointerRest
<1>7. CASE PointerPass
  <2>1. Redraw /\ Watch /\ Route /\ TrackHover /\ UNCHANGED <<stepped, wants, spots, crossing>>
    BY <1>7 DEF PointerPass
  <2>2. stained' \in BOOLEAN
    BY <2>1 DEF Redraw, PointerRest
  <2>3. crossable' \subseteq Places
    BY <2>1 DEF Watch
  <2>4. ClickTypes
    BY DEF ClickInv
  <2>5. hovered' \in Hoverables \cup {Nobody}
    BY <2>1, <2>4, HitTyped DEF TrackHover, PointerRest
  <2>6. ASSUME NEW r \in routed' PROVE r.click \in Click /\ r.to \in Hoverables \cup {Nobody}
    <3> DEFINE taken == Min({Len(clicks), DrainBudget})
    <3>1. PICK m \in Nat : m = Len(clicks)
      BY <2>4 DEF ClickTypes
    <3>2. taken \in Nat /\ taken <= m
      BY <3>1, PointerAssumption DEF Min
    <3>3. PICK n \in 1..taken : r = [click |-> clicks[n], to |-> Hit(clicks[n].at), turn |-> n]
      BY <2>1 DEF Route
    <3> HIDE DEF taken
    <3>4. n \in 1..m
      BY <3>1, <3>2, <3>3
    <3>5. clicks[n] \in Click
      BY <2>4, <3>1, <3>4, ElementOfSeq DEF ClickTypes
    <3>6. Hit(clicks[n].at) \in Hoverables \cup {Nobody}
      BY <2>4, <3>5, HitTyped DEF Click
    <3>7. QED
      BY <3>3, <3>5, <3>6
  <2>7. QED
    BY <2>1, <2>2, <2>3, <2>5, <2>6 DEF PointerRest
<1>8. CASE UNCHANGED pointerVars
  BY <1>8 DEF pointerVars, PointerRest
<1>9. QED
  BY <1>1, <1>2, <1>3, <1>4, <1>5, <1>6, <1>7, <1>8 DEF PointerNext

\* With the two invariants of the pointer, it is all of the pointer's type.
LEMMA PointerIsTyped == MouseInv /\ ClickInv /\ PointerRest => PointerTypeOK
BY DEF MouseInv, MouseTypes, ClickInv, ClickTypes, PointerRest, PointerTypeOK

-----------------------------------------------------------------------------
(* Alias. *)

\* A mirror, and what it holds being of its spec.
IsMirror(m) ==
  /\ DOMAIN m = {"spec", "window", "held", "watched"}
  /\ \A held \in m.held : held.spec = m.spec
Belongs == \A a \in DOMAIN mirrors : IsMirror(mirrors[a])

\* What a worker finished is being flagged or is; what is flagged has a pass
\* coming that takes it, for the worker is about to wake the loop, or has.
TakesComing == owedPass \/ at = "begin"

\* ... a lister l and a scanner s, where c says whether a pass comes.
ListHeard(l, c) ==
  /\ DOMAIN l = {"running", "stage", "result", "finished", "landed", "waking"}
  /\ l.stage # "idle" => l.running
  /\ l.finished # {} => l.stage = "filed" \/ l.landed
  /\ l.landed => l.stage = "flagged" \/ l.waking \/ c
ScanHeard(s, c) ==
  /\ DOMAIN s = {"running", "stage", "found", "unasked", "finished", "landed", "waking"}
  /\ s.stage # "idle" => s.running
  /\ s.finished # {} => s.stage = "filed" \/ s.landed
  /\ s.landed => s.stage \in {"flagged", "read"} \/ s.waking \/ c
ListIsHeard == ListHeard(lister, TakesComing)
ScanIsHeard == ScanHeard(scanner, TakesComing)

\* ... and an item counts as being captured for as long as someone is at it.
PictureIsHeard ==
  /\ captor = [out |-> captor.out, asks |-> captor.asks, shots |-> captor.shots,
               pushing |-> captor.pushing, finished |-> captor.finished,
               flagging |-> captor.flagging, landed |-> captor.landed, waking |-> captor.waking]
  /\ captor.flagging \in Nat
  /\ captor.finished # <<>> => captor.flagging > 0 \/ captor.landed
  /\ captor.landed => captor.waking \/ TakesComing
  /\ captor.out \subseteq {x.item : x \in captor.asks \cup captor.shots}

AliasHeld == Belongs /\ ListIsHeard /\ ScanIsHeard /\ PictureIsHeard

\* What the user and the system do: no worker does anything, and a pass that is
\* coming comes.
LEMMA ChangeKeeps ==
  ASSUME AliasHeld, Change
  PROVE  AliasHeld'
<1>1. /\ lister' = lister /\ scanner' = scanner /\ captor' = captor /\ at' = at
      /\ owedPass => owedPass'
      /\ mirrors' = mirrors \/ \E a \in AliasItems : mirrors' = Forgotten(a)
  <2>1. CASE \E a \in AliasItems : SetDrawn(a) \/ Despawn(a)
    BY <2>1 DEF SetDrawn, Despawn, captures
  <2>2. CASE \E a \in AliasItems, s \in Shown : SetAlias(a, s)
    BY <2>2 DEF SetAlias
  <2>3. CASE \E w \in Windows : (\E s \in Specs : Launch(w, s)) \/ \E v \in Windows : Rebuild(v, w)
    BY <2>3 DEF Launch, Rebuild, captures
  <2>4. CASE DisplayChanges \/ Repainted \/ Grant
    BY <2>4 DEF DisplayChanges, Repainted, Grant, captures
  <2>5. QED
    BY <2>1, <2>2, <2>3, <2>4 DEF Change
<1>2. TakesComing => TakesComing'
  BY <1>1 DEF TakesComing
<1>3. Belongs'
  BY <1>1 DEF AliasHeld, Belongs, Forgotten
<1>4. ListIsHeard' /\ ScanIsHeard'
  BY <1>1, <1>2 DEF AliasHeld, ListIsHeard, ListHeard, ScanIsHeard, ScanHeard
<1>5. PictureIsHeard'
  BY <1>1, <1>2 DEF AliasHeld, PictureIsHeard
<1>6. QED
  BY <1>3, <1>4, <1>5 DEF AliasHeld

\* The lister publishes what it fetched, flags it, is free and wakes the loop.
LEMMA ListKeeps ==
  ASSUME AliasHeld, ReadList \/ FileList \/ FlagList \/ FreeList
  PROVE  AliasHeld'
<1>1. /\ mirrors' = mirrors /\ scanner' = scanner /\ captor' = captor /\ at' = at /\ owedPass' = owedPass
  BY DEF ReadList, FileList, FlagList, FreeList, ListStep, captures
<1>2. TakesComing' <=> TakesComing
  BY <1>1 DEF TakesComing
<1>3. ListIsHeard'
  <2>1. CASE ReadList
    BY <2>1, <1>2 DEF ReadList, ListStep, AliasHeld, ListIsHeard, ListHeard
  <2>2. CASE FileList
    BY <2>2, <1>2 DEF FileList, ListStep, AliasHeld, ListIsHeard, ListHeard
  <2>3. CASE FlagList
    BY <2>3, <1>2 DEF FlagList, ListStep, AliasHeld, ListIsHeard, ListHeard
  <2>4. CASE FreeList
    BY <2>4, <1>2 DEF FreeList, ListStep, AliasHeld, ListIsHeard, ListHeard
  <2>5. QED
    BY <2>1, <2>2, <2>3, <2>4
<1>4. Belongs' /\ ScanIsHeard'
  BY <1>1, <1>2 DEF AliasHeld, Belongs, ScanIsHeard, ScanHeard
<1>5. PictureIsHeard'
  BY <1>1, <1>2 DEF AliasHeld, PictureIsHeard
<1>6. QED
  BY <1>3, <1>4, <1>5 DEF AliasHeld

\* The scanner, which counts the scan between the flag and its release.
LEMMA ScanKeeps ==
  ASSUME AliasHeld, (\E s \in Specs : AskApplication(s)) \/ FileScan \/ FlagScan \/ CountScan \/ FreeScan
  PROVE  AliasHeld'
<1>1. /\ mirrors' = mirrors /\ lister' = lister /\ captor' = captor /\ at' = at /\ owedPass' = owedPass
  BY DEF AskApplication, FileScan, FlagScan, CountScan, FreeScan, ScanStep, captures
<1>2. TakesComing' <=> TakesComing
  BY <1>1 DEF TakesComing
<1>3. ScanIsHeard'
  <2>1. CASE \E s \in Specs : AskApplication(s)
    BY <2>1, <1>2 DEF AskApplication, ScanStep, AliasHeld, ScanIsHeard, ScanHeard
  <2>2. CASE FileScan
    BY <2>2, <1>2 DEF FileScan, ScanStep, AliasHeld, ScanIsHeard, ScanHeard
  <2>3. CASE FlagScan
    BY <2>3, <1>2 DEF FlagScan, ScanStep, AliasHeld, ScanIsHeard, ScanHeard
  <2>4. CASE CountScan
    BY <2>4, <1>2 DEF CountScan, AliasHeld, ScanIsHeard, ScanHeard
  <2>5. CASE FreeScan
    BY <2>5, <1>2 DEF FreeScan, ScanStep, AliasHeld, ScanIsHeard, ScanHeard
  <2>6. QED
    BY <2>1, <2>2, <2>3, <2>4, <2>5
<1>4. Belongs' /\ ListIsHeard'
  BY <1>1, <1>2 DEF AliasHeld, Belongs, ListIsHeard, ListHeard
<1>5. PictureIsHeard'
  BY <1>1, <1>2 DEF AliasHeld, PictureIsHeard
<1>6. QED
  BY <1>3, <1>4, <1>5 DEF AliasHeld

\* The captor: an item leaves `out` with the picture of it, or in vain.
LEMMA CaptureKeeps ==
  ASSUME AliasHeld,
         \/ \E ask \in captor.asks : Capture(ask)
         \/ \E taken \in captor.shots : Release(taken)
         \/ \E landing \in captor.pushing : Push(landing)
         \/ FlagCapture
  PROVE  AliasHeld'
<1>1. /\ mirrors' = mirrors /\ lister' = lister /\ scanner' = scanner /\ at' = at /\ owedPass' = owedPass
  BY DEF Capture, Release, Push, FlagCapture, CaptorStep, captures
<1>2. TakesComing' <=> TakesComing
  BY <1>1 DEF TakesComing
<1>3. PictureIsHeard
  BY DEF AliasHeld
<1>4. PictureIsHeard'
  <2>1. ASSUME NEW ask \in captor.asks, Capture(ask) PROVE PictureIsHeard'
    <3>1. PICK taken : /\ taken.item = ask.item
                       /\ captor' = [captor EXCEPT !.asks = @ \ {ask}, !.shots = @ \cup {taken}]
      BY <2>1 DEF Capture, CaptorStep
    <3>2. /\ captor' = [out |-> captor.out, asks |-> captor.asks \ {ask},
                        shots |-> captor.shots \cup {taken},
                        pushing |-> captor.pushing, finished |-> captor.finished,
                        flagging |-> captor.flagging, landed |-> captor.landed, waking |-> captor.waking]
      BY <1>3, <3>1 DEF PictureIsHeard
    <3>3. captor'.out \subseteq {x.item : x \in captor'.asks \cup captor'.shots}
      BY <1>3, <3>1, <3>2 DEF PictureIsHeard
    <3>4. QED
      BY <1>2, <1>3, <3>2, <3>3 DEF PictureIsHeard
  <2>2. ASSUME NEW taken \in captor.shots, Release(taken) PROVE PictureIsHeard'
    <3>1. PICK b, more : /\ captor.waking => b
                         /\ captor' = [captor EXCEPT !.shots = @ \ {taken}, !.out = @ \ {taken.item},
                                                     !.waking = b, !.pushing = more]
      BY <2>2 DEF Release, CaptorStep
    <3>2. /\ captor' = [out |-> captor.out \ {taken.item}, asks |-> captor.asks,
                        shots |-> captor.shots \ {taken},
                        pushing |-> more, finished |-> captor.finished,
                        flagging |-> captor.flagging, landed |-> captor.landed, waking |-> b]
      BY <1>3, <3>1 DEF PictureIsHeard
    <3>3. captor'.out \subseteq {x.item : x \in captor'.asks \cup captor'.shots}
      BY <1>3, <3>1, <3>2 DEF PictureIsHeard
    <3>4. QED
      BY <1>2, <1>3, <3>1, <3>2, <3>3 DEF PictureIsHeard
  <2>3. ASSUME NEW landing \in captor.pushing, Push(landing) PROVE PictureIsHeard'
    <3>1. /\ captor' = [out |-> captor.out, asks |-> captor.asks, shots |-> captor.shots,
                        pushing |-> captor.pushing \ {landing},
                        finished |-> Append(captor.finished, landing),
                        flagging |-> captor.flagging + 1, landed |-> captor.landed, waking |-> captor.waking]
      BY <1>3, <2>3 DEF Push, CaptorStep, PictureIsHeard
    <3>2. QED
      BY <1>2, <1>3, <3>1 DEF PictureIsHeard
  <2>4. CASE FlagCapture
    <3>1. /\ captor.flagging > 0
          /\ captor' = [out |-> captor.out, asks |-> captor.asks, shots |-> captor.shots,
                        pushing |-> captor.pushing, finished |-> captor.finished,
                        flagging |-> captor.flagging - 1, landed |-> TRUE, waking |-> TRUE]
      BY <1>3, <2>4 DEF FlagCapture, CaptorStep, PictureIsHeard
    <3>2. QED
      BY <1>2, <1>3, <3>1 DEF PictureIsHeard
  <2>5. QED
    BY <2>1, <2>2, <2>3, <2>4
<1>5. Belongs' /\ ListIsHeard' /\ ScanIsHeard'
  BY <1>1, <1>2 DEF AliasHeld, Belongs, ListIsHeard, ListHeard, ScanIsHeard, ScanHeard
<1>6. QED
  BY <1>4, <1>5 DEF AliasHeld

\* A worker's last step: the pass is owed.
LEMMA WakeKeeps ==
  ASSUME AliasHeld, Wake
  PROVE  AliasHeld'
<1>1. mirrors' = mirrors /\ TakesComing'
  BY DEF Wake, captures, TakesComing
<1>2. ListIsHeard'
  BY <1>1 DEF Wake, AliasHeld, ListIsHeard, ListHeard
<1>3. ScanIsHeard'
  BY <1>1 DEF Wake, AliasHeld, ScanIsHeard, ScanHeard
<1>4. PictureIsHeard'
  BY <1>1 DEF Wake, AliasHeld, PictureIsHeard
<1>5. Belongs'
  BY <1>1 DEF AliasHeld, Belongs
<1>6. QED
  BY <1>2, <1>3, <1>4, <1>5 DEF AliasHeld

\* A request of a worker that is free, or of one that is not, which it passes over.
LEMMA ListAsked ==
  ASSUME NEW l, NEW c \in BOOLEAN, ListHeard(l, c)
  PROVE  ListHeard(ListRequest(l), c)
BY DEF ListRequest, ListHeard

LEMMA ScanAsked ==
  ASSUME NEW s, NEW c \in BOOLEAN, ScanHeard(s, c), ~s.running
  PROVE  ScanHeard(ScanRequest(s), c)
BY DEF ScanRequest, ScanHeard

\* What has been taken from a worker is not owed a pass.
LEMMA ListTaken ==
  ASSUME NEW l, NEW c, NEW d \in BOOLEAN, ListHeard(l, c)
  PROVE  ListHeard(ListTake(l), d)
BY DEF ListTake, ListHeard

\* A picture asked for counts as being taken.
LEMMA Submitted ==
  ASSUME PictureIsHeard, TakesComing' = TakesComing, NEW ask, captor' = Submit(captor, ask)
  PROVE  PictureIsHeard'
<1>1. CASE ask.item \in captor.out
  BY <1>1 DEF Submit, PictureIsHeard
<1>2. CASE ask.item \notin captor.out
  <2>1. captor' = [out |-> captor.out \cup {ask.item}, asks |-> captor.asks \cup {ask},
                   shots |-> captor.shots, pushing |-> captor.pushing,
                   finished |-> captor.finished, flagging |-> captor.flagging,
                   landed |-> captor.landed, waking |-> captor.waking]
    BY <1>2 DEF Submit, PictureIsHeard
  <2>2. captor'.out \subseteq {x.item : x \in captor'.asks \cup captor'.shots}
    BY <2>1 DEF PictureIsHeard
  <2>3. QED
    BY <2>1, <2>2 DEF PictureIsHeard
<1>3. QED
  BY <1>1, <1>2

\* A pass begins, or finds that nothing was flagged.
LEMMA StartKeeps ==
  ASSUME AliasHeld, StartPass
  PROVE  AliasHeld'
<1>1. /\ mirrors' = mirrors /\ scanner' = scanner /\ captor' = captor
      /\ scanner.landed \/ captor.landed \/ lister.landed => TakesComing'
      /\ lister' = ListRequest(lister) \/ lister' = lister
  BY DEF StartPass, Pending, TakesComing
<1>2. ListHeard(lister, TakesComing')
  BY <1>1 DEF AliasHeld, ListIsHeard, ListHeard
<1>3. TakesComing' \in BOOLEAN
  BY DEF TakesComing
<1>4. ListIsHeard'
  BY <1>1, <1>2, <1>3, ListAsked DEF ListIsHeard
<1>5. ScanIsHeard'
  BY <1>1 DEF AliasHeld, ScanIsHeard, ScanHeard
<1>6. PictureIsHeard'
  BY <1>1 DEF AliasHeld, PictureIsHeard
<1>7. Belongs'
  BY <1>1 DEF AliasHeld, Belongs
<1>8. QED
  BY <1>4, <1>5, <1>6, <1>7 DEF AliasHeld

\* It takes what every worker has finished, and lowers its flag.
LEMMA GatherKeeps ==
  ASSUME AliasHeld, Gather
  PROVE  AliasHeld'
<1>1. /\ mirrors' = mirrors
      /\ scanner' = [scanner EXCEPT !.finished = {}, !.landed = FALSE]
      /\ captor' = [captor EXCEPT !.finished = <<>>, !.landed = FALSE]
      /\ lister' = ListRequest(ListTake(lister)) \/ lister' = ListTake(lister)
  BY DEF Gather, BeginPass, TakeLandings
<1>2. TakesComing' \in BOOLEAN
  BY DEF TakesComing
<1>3. ListHeard(ListTake(lister), TakesComing')
  BY <1>2, ListTaken DEF AliasHeld, ListIsHeard
<1>4. ListIsHeard'
  BY <1>1, <1>2, <1>3, ListAsked DEF ListIsHeard
<1>5. ScanIsHeard'
  BY <1>1 DEF AliasHeld, ScanIsHeard, ScanHeard
<1>6. PictureIsHeard'
  BY <1>1 DEF AliasHeld, PictureIsHeard
<1>7. Belongs'
  BY <1>1 DEF AliasHeld, Belongs
<1>8. QED
  BY <1>4, <1>5, <1>6, <1>7 DEF AliasHeld

\* A picture goes to a mirror of the spec it was taken for, or to none.
LEMMA CollectKeeps ==
  ASSUME AliasHeld, Collect
  PROVE  AliasHeld'
<1>1. /\ scanner' = scanner /\ captor' = captor /\ lister' = lister
      /\ TakesComing => TakesComing'
  BY DEF Collect, TakesComing
<1>2. ListIsHeard' /\ ScanIsHeard'
  BY <1>1 DEF AliasHeld, ListIsHeard, ListHeard, ScanIsHeard, ScanHeard
<1>3. PictureIsHeard'
  BY <1>1 DEF AliasHeld, PictureIsHeard
<1>4. Belongs'
  <2>1. CASE mirrors' = mirrors
    BY <2>1 DEF AliasHeld, Belongs
  <2>2. CASE mirrors' # mirrors
    <3>1. PICK a, shot : /\ Holds(a) /\ Wants(mirrors[a], shot)
                         /\ mirrors' = [mirrors EXCEPT ![a].held = {shot}]
      BY <2>2 DEF Collect
    <3>2. IsMirror(mirrors[a]) /\ mirrors[a].spec = shot.spec
      BY <3>1 DEF AliasHeld, Belongs, Holds, Wants
    <3>3. mirrors' = [mirrors EXCEPT ![a] = [mirrors[a] EXCEPT !.held = {shot}]]
      BY <3>1
    <3>4. IsMirror([mirrors[a] EXCEPT !.held = {shot}])
      BY <3>2 DEF IsMirror
    <3>5. QED
      BY <3>1, <3>3, <3>4 DEF AliasHeld, Belongs, Holds
  <2>3. QED
    BY <2>1, <2>2
<1>5. QED
  BY <1>2, <1>3, <1>4 DEF AliasHeld

\* A scan is asked of the scanner only when it is free.
LEMMA ScanKept ==
  ASSUME ScanIsHeard, TakesComing' = TakesComing,
         scanner' = scanner \/ \E native \in BOOLEAN : AskForScan(native)
  PROVE  ScanIsHeard'
<1>1. scanner' = scanner \/ (~scanner.running /\ scanner' = ScanRequest(scanner))
  BY DEF AskForScan
<1>2. TakesComing \in BOOLEAN
  BY DEF TakesComing
<1>3. QED
  BY <1>1, <1>2, ScanAsked DEF ScanIsHeard

LEMMA RescanKeeps ==
  ASSUME AliasHeld, NoteRescan
  PROVE  AliasHeld'
<1>1. /\ mirrors' = mirrors /\ captor' = captor /\ lister' = lister /\ TakesComing' = TakesComing
      /\ scanner' = scanner \/ AskForScan(FALSE)
  BY DEF NoteRescan, TakesComing
<1>2. ScanIsHeard'
  BY <1>1, ScanKept DEF AliasHeld
<1>3. ListIsHeard' /\ PictureIsHeard' /\ Belongs'
  BY <1>1 DEF AliasHeld, ListIsHeard, ListHeard, PictureIsHeard, Belongs
<1>4. QED
  BY <1>2, <1>3 DEF AliasHeld

\* An item that is looked at: forgotten, left, or its mirror another window's.
LEMMA LookKeeps ==
  ASSUME AliasHeld, NEW a \in AliasItems, Hide(a) \/ Leave(a) \/ Refresh(a) \/ EndPass
  PROVE  AliasHeld'
<1>1. TakesComing' = TakesComing
  <2>1. owedPass' = owedPass /\ (at' = at \/ (at' # "begin" /\ at # "begin"))
    <3>1. CASE Hide(a)
      BY <3>1 DEF Hide
    <3>2. CASE Leave(a)
      BY <3>2 DEF Leave
    <3>3. CASE Refresh(a)
      BY <3>3 DEF Refresh
    <3>4. CASE EndPass
      BY <3>4 DEF EndPass
    <3>5. QED
      BY <3>1, <3>2, <3>3, <3>4
  <2>2. QED
    BY <2>1 DEF TakesComing
<1>2. CASE Hide(a) \/ Leave(a) \/ EndPass
  <2>1. /\ lister' = lister /\ scanner' = scanner /\ captor' = captor
        /\ mirrors' = mirrors \/ mirrors' = Forgotten(a)
    BY <1>2 DEF Hide, Leave, EndPass
  <2>2. Belongs'
    BY <2>1 DEF AliasHeld, Belongs, Forgotten
  <2>3. ListIsHeard' /\ ScanIsHeard' /\ PictureIsHeard'
    BY <1>1, <2>1 DEF AliasHeld, ListIsHeard, ListHeard, ScanIsHeard, ScanHeard, PictureIsHeard
  <2>4. QED
    BY <2>2, <2>3 DEF AliasHeld
<1>3. CASE Refresh(a)
  <2>1. /\ lister' = lister \/ lister' = ListRequest(lister)
        /\ scanner' = scanner \/ \E native \in BOOLEAN : AskForScan(native)
        /\ captor' = captor \/ \E ask : captor' = Submit(captor, ask)
    BY <1>3 DEF Refresh, AskForScan, AsksForScan
  <2>2. IsMirror(Mirror(a))
    BY DEF Mirror, Created, Holds, AliasHeld, Belongs, IsMirror
  <2>3. Belongs'
    <3>1. \/ mirrors' = mirrors
          \/ SetMirror(a, [Mirror(a) EXCEPT !.window = {}])
          \/ \E w : SetMirror(a, [Mirror(a) EXCEPT !.window = {w}, !.watched = TRUE])
      BY <1>3 DEF Refresh
    <3>2. CASE mirrors' = mirrors
      BY <3>2 DEF AliasHeld, Belongs
    <3>3. CASE mirrors' # mirrors
      <4>1. PICK mirror : IsMirror(mirror) /\ SetMirror(a, mirror)
        <5>1. /\ IsMirror([Mirror(a) EXCEPT !.window = {}])
              /\ \A v : IsMirror([Mirror(a) EXCEPT !.window = {v}, !.watched = TRUE])
          BY <2>2 DEF IsMirror
        <5>2. QED
          BY <3>1, <3>3, <5>1
      <4>2. QED
        BY <4>1 DEF SetMirror, AliasHeld, Belongs
    <3>4. QED
      BY <3>2, <3>3
  <2>4. TakesComing \in BOOLEAN
    BY DEF TakesComing
  <2>5. ListIsHeard'
    BY <1>1, <2>1, <2>4, ListAsked DEF AliasHeld, ListIsHeard
  <2>6. ScanIsHeard'
    BY <1>1, <2>1, ScanKept DEF AliasHeld
  <2>7. PictureIsHeard'
    <3>1. CASE captor' = captor
      BY <1>1, <3>1 DEF AliasHeld, PictureIsHeard
    <3>2. QED
      BY <1>1, <2>1, <3>1, Submitted DEF AliasHeld
  <2>8. QED
    BY <2>3, <2>5, <2>6, <2>7 DEF AliasHeld
<1>4. QED
  BY <1>2, <1>3

LEMMA PicturesStart == AliasInit => AliasHeld
BY DEF AliasInit, AliasHeld, Belongs, ListIsHeard, ListHeard, ScanIsHeard, ScanHeard,
       PictureIsHeard, TakesComing

LEMMA PicturesStep == AliasHeld /\ [AliasNext]_aliasVars => AliasHeld'
<1> SUFFICES ASSUME AliasHeld, [AliasNext]_aliasVars
             PROVE  AliasHeld'
  OBVIOUS
<1>1. CASE Change
  BY <1>1, ChangeKeeps
<1>2. CASE Work
  <2>1. CASE ReadList \/ FileList \/ FlagList \/ FreeList
    BY <2>1, ListKeeps
  <2>2. CASE (\E s \in Specs : AskApplication(s)) \/ FileScan \/ FlagScan \/ CountScan \/ FreeScan
    BY <2>2, ScanKeeps
  <2>3. CASE \/ \E ask \in captor.asks : Capture(ask)
             \/ \E taken \in captor.shots : Release(taken)
             \/ \E landing \in captor.pushing : Push(landing)
             \/ FlagCapture
    BY <2>3, CaptureKeeps
  <2>4. CASE Wake \/ StartPass \/ Gather \/ Collect \/ NoteRescan
    BY <2>4, WakeKeeps, StartKeeps, GatherKeeps, CollectKeeps, RescanKeeps
  <2>5. CASE (\E a \in AliasItems : Hide(a) \/ Leave(a) \/ Refresh(a))
    BY <2>5, LookKeeps
  <2>6. CASE EndPass
    <3>1. /\ mirrors' = mirrors /\ lister' = lister /\ scanner' = scanner /\ captor' = captor
          /\ TakesComing' = TakesComing
      BY <2>6 DEF EndPass, TakesComing
    <3>2. Belongs' /\ ListIsHeard' /\ ScanIsHeard'
      BY <3>1 DEF AliasHeld, Belongs, ListIsHeard, ListHeard, ScanIsHeard, ScanHeard
    <3>3. PictureIsHeard'
      BY <3>1 DEF AliasHeld, PictureIsHeard
    <3>4. QED
      BY <3>2, <3>3 DEF AliasHeld
  <2>7. QED
    BY <1>2, <2>1, <2>2, <2>3, <2>4, <2>5, <2>6 DEF Work
<1>3. CASE UNCHANGED aliasVars
  <2>1. /\ mirrors' = mirrors /\ lister' = lister /\ scanner' = scanner /\ captor' = captor
        /\ at' = at /\ owedPass' = owedPass
    BY <1>3 DEF aliasVars, captures
  <2>2. TakesComing' = TakesComing
    BY <2>1 DEF TakesComing
  <2>3. Belongs' /\ ListIsHeard' /\ ScanIsHeard'
    BY <2>1, <2>2 DEF AliasHeld, Belongs, ListIsHeard, ListHeard, ScanIsHeard, ScanHeard
  <2>4. PictureIsHeard'
    BY <2>1, <2>2 DEF AliasHeld, PictureIsHeard
  <2>5. QED
    BY <2>3, <2>4 DEF AliasHeld
<1>4. QED
  BY <1>1, <1>2, <1>3 DEF AliasNext

LEMMA RestBelongs == AliasHeld => PicturesBelong
<1> SUFFICES ASSUME AliasHeld PROVE PicturesBelong
  OBVIOUS
<1>1. \A a \in DOMAIN mirrors : \A held \in mirrors[a].held : held.spec = mirrors[a].spec
  BY DEF AliasHeld, Belongs, IsMirror
<1>2. ASSUME Idle
      PROVE  /\ lister.finished = {} /\ scanner.finished = {} /\ captor.finished = <<>>
             /\ ~lister.landed /\ ~scanner.landed /\ ~captor.landed
             /\ captor.out = {}
  <2>1. ~TakesComing
    BY <1>2 DEF Idle, TakesComing
  <2>2. lister.finished = {} /\ ~lister.landed
    BY <1>2, <2>1 DEF Idle, AliasHeld, ListIsHeard, ListHeard
  <2>3. scanner.finished = {} /\ ~scanner.landed
    BY <1>2, <2>1 DEF Idle, AliasHeld, ScanIsHeard, ScanHeard
  <2>4. captor.finished = <<>> /\ ~captor.landed
    BY <1>2, <2>1 DEF Idle, AliasHeld, PictureIsHeard
  <2>5. captor.out = {}
    BY <1>2 DEF Idle, AliasHeld, PictureIsHeard
  <2>6. QED
    BY <2>2, <2>3, <2>4, <2>5
<1>3. QED
  BY <1>1, <1>2 DEF PicturesBelong

\* Whatever is edited, hidden, despawned or rebuilt while pictures are being
\* taken, a mirror holds a picture of its own spec only; and when nothing is
\* under way nothing that a worker finished is left behind, no flag is up and no
\* item counts as being captured, so that it could never be asked for again.
THEOREM PicturesStay == AliasSpec => []PicturesBelong
<1>1. AliasSpec => []AliasHeld
  BY PicturesStart, PicturesStep, PTL DEF AliasSpec
<1>2. QED
  BY <1>1, RestBelongs, PTL

\* What is typed of the aliases, part by part: the system they mirror and what
\* is noticed of it, each mirror, each worker, and the pass.
Landing == [item: AliasItems, shot: Captured]
PictureAsk == [item: AliasItems, spec: Specs, window: Windows]
WindowList == [ok: BOOLEAN, list: [Windows -> Shown]]

\* Nothing, or one of these.
OneOf(S) == {{}} \cup {{x} : x \in S}

SystemTyped ==
  /\ bar \in [Windows -> Shown] /\ paint \in {1, 2} /\ granted \in BOOLEAN
  /\ changes \in 0..MaxChanges
  /\ names \in [AliasItems -> Shown] /\ drawn \in [AliasItems -> BOOLEAN]
  /\ edited \in BOOLEAN /\ launched \in BOOLEAN /\ displaced \in BOOLEAN
  /\ dirty \subseteq AliasItems

MirrorTyped(m) ==
  /\ m.spec \in Specs /\ m.watched \in BOOLEAN
  /\ m.window \in OneOf(Windows) /\ m.held \in OneOf(Captured)
MirrorsTyped == \A a \in DOMAIN mirrors : a \in AliasItems /\ MirrorTyped(mirrors[a])

ListTyped(l) ==
  /\ l.stage \in Stage /\ l.running \in BOOLEAN /\ l.landed \in BOOLEAN /\ l.waking \in BOOLEAN
  /\ l.result \subseteq WindowList /\ l.finished \subseteq WindowList
ScanTyped(s) ==
  /\ s.stage \in Stage /\ s.running \in BOOLEAN /\ s.landed \in BOOLEAN /\ s.waking \in BOOLEAN
  /\ s.found \subseteq Hosted /\ s.unasked \subseteq Hosted /\ s.finished \subseteq SUBSET Hosted
CaptorTyped(c) ==
  /\ c.landed \in BOOLEAN /\ c.waking \in BOOLEAN
  /\ c.out \subseteq AliasItems /\ c.asks \subseteq PictureAsk
  /\ \A t \in c.shots : t.item \in AliasItems /\ t.shot \subseteq Captured
  /\ c.pushing \subseteq Landing /\ c.finished \in Seq(Landing)

PassTyped ==
  /\ owed \in BOOLEAN /\ rescan \in BOOLEAN /\ asked \in BOOLEAN /\ owedPass \in BOOLEAN
  /\ content \in [AliasItems -> SUBSET Picture]
  /\ table \in [Windows -> Shown] /\ attributed \subseteq Windows
  /\ due \in {"everything"} \X {{}} \cup {"these"} \X SUBSET AliasItems
  /\ landedNow \in SUBSET (AliasItems \X Picture) /\ landings \in Seq(Landing)
  /\ latest \subseteq SUBSET Hosted
  /\ at \in {"out", "begin", "collect", "rescan", "items"}
\* ... in which only an item with an alias is looked at.
TodoTyped ==
  /\ todo \subseteq AliasItems /\ \A a \in todo : names[a] # Nothing
  /\ at # "items" => todo = {}

AliasRest ==
  /\ SystemTyped /\ MirrorsTyped /\ ListTyped(lister) /\ ScanTyped(scanner)
  /\ CaptorTyped(captor) /\ PassTyped /\ TodoTyped

LEMMA AliasRestStart == AliasInit => AliasRest
<1> SUFFICES ASSUME AliasInit PROVE AliasRest
  OBVIOUS
<1>1. SystemTyped
  <2>1. changes \in 0..MaxChanges /\ dirty \subseteq AliasItems
    BY AliasAssumption DEF AliasInit
  <2>2. names \in [AliasItems -> Shown] /\ drawn \in [AliasItems -> BOOLEAN]
    BY DEF AliasInit, Shown
  <2>3. QED
    BY <2>1, <2>2 DEF AliasInit, SystemTyped
<1>2. MirrorsTyped /\ TodoTyped
  BY DEF AliasInit, MirrorsTyped, TodoTyped
<1>3. ListTyped(lister) /\ ScanTyped(scanner)
  BY DEF AliasInit, ListTyped, ScanTyped, Stage
<1>4. CaptorTyped(captor)
  BY DEF AliasInit, CaptorTyped
<1>5. PassTyped
  <2>1. content \in [AliasItems -> SUBSET Picture] /\ table \in [Windows -> Shown]
    BY DEF AliasInit, Shown
  <2>2. attributed \subseteq Windows /\ latest \subseteq SUBSET Hosted /\ landedNow = {}
    BY DEF AliasInit
  <2>3. due \in {"everything"} \X {{}} \cup {"these"} \X SUBSET AliasItems
    BY DEF AliasInit
  <2>4. landings \in Seq(Landing)
    BY DEF AliasInit
  <2>5. QED
    BY <2>1, <2>2, <2>3, <2>4 DEF AliasInit, PassTyped
<1>6. QED
  BY <1>1, <1>2, <1>3, <1>4, <1>5 DEF AliasRest

\* A mirror of an item that stays, or is forgotten.
LEMMA ForgottenTyped ==
  ASSUME MirrorsTyped, NEW a, mirrors' = mirrors \/ mirrors' = Forgotten(a)
  PROVE  MirrorsTyped'
BY DEF MirrorsTyped, Forgotten

\* What the user and the system do.
LEMMA ChangeTyped ==
  ASSUME AliasRest, Change
  PROVE  AliasRest'
<1>1. SystemTyped /\ MirrorsTyped /\ PassTyped /\ TodoTyped
  BY DEF AliasRest
<1>2. lister' = lister /\ scanner' = scanner /\ captor' = captor
  BY DEF Change, SetDrawn, Despawn, SetAlias, Launch, Rebuild, DisplayChanges, Repainted, Grant
<1>3. ListTyped(lister)' /\ ScanTyped(scanner)' /\ CaptorTyped(captor)'
  BY <1>2 DEF AliasRest
<1>4. ChangeMade => changes' \in 0..MaxChanges
  BY <1>1, AliasAssumption DEF ChangeMade, SystemTyped
<1>5. ASSUME NEW a \in AliasItems, SetDrawn(a) PROVE AliasRest'
  <2>1. SystemTyped'
    BY <1>1, <1>4, <1>5 DEF SetDrawn, SystemTyped
  <2>2. MirrorsTyped' /\ PassTyped' /\ TodoTyped'
    BY <1>1, <1>5 DEF SetDrawn, MirrorsTyped, PassTyped, TodoTyped, captures
  <2>3. QED
    BY <1>3, <2>1, <2>2 DEF AliasRest
<1>6. ASSUME NEW a \in AliasItems, Despawn(a) PROVE AliasRest'
  <2>1. SystemTyped'
    BY <1>1, <1>4, <1>6 DEF Despawn, SystemTyped, Shown, noticed
  <2>2. MirrorsTyped'
    BY <1>1, <1>6, ForgottenTyped DEF Despawn
  <2>3. PassTyped' /\ TodoTyped'
    BY <1>1, <1>6 DEF Despawn, PassTyped, TodoTyped
  <2>4. QED
    BY <1>3, <2>1, <2>2, <2>3 DEF AliasRest
<1>7. ASSUME NEW a \in AliasItems, NEW s \in Shown, SetAlias(a, s) PROVE AliasRest'
  <2>1. SystemTyped'
    BY <1>1, <1>4, <1>7 DEF SetAlias, SystemTyped
  <2>2. MirrorsTyped' /\ PassTyped' /\ TodoTyped'
    BY <1>1, <1>7 DEF SetAlias, MirrorsTyped, PassTyped, TodoTyped
  <2>3. QED
    BY <1>3, <2>1, <2>2 DEF AliasRest
<1>8. ASSUME NEW w \in Windows, NEW s \in Specs, Launch(w, s) PROVE AliasRest'
  <2>1. SystemTyped'
    BY <1>1, <1>4, <1>8 DEF Launch, SystemTyped, Shown
  <2>2. MirrorsTyped' /\ PassTyped' /\ TodoTyped'
    BY <1>1, <1>8 DEF Launch, MirrorsTyped, PassTyped, TodoTyped, captures
  <2>3. QED
    BY <1>3, <2>1, <2>2 DEF AliasRest
<1>9. ASSUME NEW v \in Windows, NEW w \in Windows, Rebuild(v, w) PROVE AliasRest'
  <2>1. SystemTyped'
    BY <1>1, <1>4, <1>9 DEF Rebuild, SystemTyped, Shown, noticed
  <2>2. MirrorsTyped' /\ PassTyped' /\ TodoTyped'
    BY <1>1, <1>9 DEF Rebuild, MirrorsTyped, PassTyped, TodoTyped, captures
  <2>3. QED
    BY <1>3, <2>1, <2>2 DEF AliasRest
<1>10. CASE DisplayChanges \/ Repainted \/ Grant
  <2>1. SystemTyped'
    <3>1. CASE DisplayChanges
      BY <1>1, <1>4, <3>1 DEF DisplayChanges, SystemTyped
    <3>2. CASE Grant
      BY <1>1, <1>4, <3>2 DEF Grant, SystemTyped, noticed
    <3>3. CASE Repainted
      <4>1. paint' \in {1, 2} /\ dirty' \subseteq AliasItems
        BY <1>1, <3>3 DEF Repainted, SystemTyped, MirrorsTyped
      <4>2. QED
        BY <1>1, <1>4, <3>3, <4>1 DEF Repainted, SystemTyped
    <3>4. QED
      BY <1>10, <3>1, <3>2, <3>3
  <2>2. MirrorsTyped' /\ PassTyped' /\ TodoTyped'
    BY <1>1, <1>10 DEF DisplayChanges, Repainted, Grant, MirrorsTyped, PassTyped, TodoTyped, captures
  <2>3. QED
    BY <1>3, <2>1, <2>2 DEF AliasRest
<1>11. QED
  BY <1>5, <1>6, <1>7, <1>8, <1>9, <1>10 DEF Change

\* What a worker does leaves the rest as it is.
WorkerOnly ==
  /\ UNCHANGED <<system, edited, launched, displaced, dirty, mirrors, owed, rescan, content, table,
                 attributed, due, landedNow, landings, latest, at, todo>>
  /\ asked' \in BOOLEAN /\ owedPass' \in BOOLEAN

\* ... so that a step of a worker has its own type to keep.
LEMMA RestOfWork ==
  ASSUME AliasRest, WorkerOnly,
         ListTyped(lister') /\ ScanTyped(scanner') /\ CaptorTyped(captor')
  PROVE  AliasRest'
<1>1. SystemTyped' /\ MirrorsTyped'
  BY DEF AliasRest, WorkerOnly, SystemTyped, MirrorsTyped, system
<1>2. PassTyped'
  BY DEF AliasRest, WorkerOnly, PassTyped
<1>3. TodoTyped'
  BY DEF AliasRest, WorkerOnly, TodoTyped, system
<1>4. QED
  BY <1>1, <1>2, <1>3 DEF AliasRest

\* The lister, the scanner and the captor at work.
LEMMA ListWorkTyped ==
  ASSUME AliasHeld, AliasRest, ReadList \/ FileList \/ FlagList \/ FreeList
  PROVE  AliasRest'
<1>1. ListTyped(lister) /\ ScanTyped(scanner) /\ CaptorTyped(captor) /\ PassTyped /\ SystemTyped
  BY DEF AliasRest
<1>2. WorkerOnly /\ scanner' = scanner /\ captor' = captor
  BY <1>1 DEF ReadList, FileList, FlagList, FreeList, ListStep, captures, noticed, WorkerOnly, PassTyped
<1>3. DOMAIN lister = {"running", "stage", "result", "finished", "landed", "waking"}
  BY DEF AliasHeld, ListIsHeard, ListHeard
<1>4. ListTyped(lister')
  <2>1. CASE ReadList
    <3>1. PICK r \in WindowList : lister' = [lister EXCEPT !.stage = "read", !.result = {r}]
      BY <1>1, <2>1 DEF ReadList, ListStep, WindowList, SystemTyped
    <3>2. QED
      BY <1>1, <1>3, <3>1 DEF ListTyped, Stage
  <2>2. CASE FileList
    BY <1>1, <1>3, <2>2 DEF FileList, ListStep, ListTyped, Stage
  <2>3. CASE FlagList
    BY <1>1, <1>3, <2>3 DEF FlagList, ListStep, ListTyped, Stage
  <2>4. CASE FreeList
    BY <1>1, <1>3, <2>4 DEF FreeList, ListStep, ListTyped, Stage
  <2>5. QED
    BY <2>1, <2>2, <2>3, <2>4
<1>5. QED
  BY <1>1, <1>2, <1>4, RestOfWork

LEMMA ScanWorkTyped ==
  ASSUME AliasHeld, AliasRest,
         (\E s \in Specs : AskApplication(s)) \/ FileScan \/ FlagScan \/ CountScan \/ FreeScan
  PROVE  AliasRest'
<1>1. ListTyped(lister) /\ ScanTyped(scanner) /\ CaptorTyped(captor) /\ PassTyped
  BY DEF AliasRest
<1>2. WorkerOnly /\ lister' = lister /\ captor' = captor
  <2>1. CASE CountScan
    BY <1>1, <2>1 DEF CountScan, noticed, WorkerOnly, PassTyped
  <2>2. CASE ~CountScan
    BY <1>1, <2>2 DEF AskApplication, FileScan, FlagScan, FreeScan, ScanStep, captures, noticed,
                      WorkerOnly, PassTyped
  <2>3. QED
    BY <2>1, <2>2
<1>3. DOMAIN scanner = {"running", "stage", "found", "unasked", "finished", "landed", "waking"}
  BY DEF AliasHeld, ScanIsHeard, ScanHeard
<1>4. ScanTyped(scanner')
  <2>1. CASE \E s \in Specs : AskApplication(s)
    <3>1. PICK s, found :
             /\ s \in scanner.unasked /\ found \in {scanner.found, scanner.found \cup {s}}
             /\ scanner' = [scanner EXCEPT !.unasked = @ \ {s}, !.found = found]
      BY <2>1 DEF AskApplication, ScanStep
    <3>2. QED
      BY <1>1, <1>3, <3>1 DEF ScanTyped
  <2>2. CASE FileScan
    BY <1>1, <1>3, <2>2 DEF FileScan, ScanStep, ScanTyped, Stage
  <2>3. CASE FlagScan
    BY <1>1, <1>3, <2>3 DEF FlagScan, ScanStep, ScanTyped, Stage
  <2>4. CASE CountScan
    BY <1>1, <1>3, <2>4 DEF CountScan, ScanTyped, Stage
  <2>5. CASE FreeScan
    BY <1>1, <1>3, <2>5 DEF FreeScan, ScanStep, ScanTyped, Stage
  <2>6. QED
    BY <2>1, <2>2, <2>3, <2>4, <2>5
<1>5. QED
  BY <1>1, <1>2, <1>4, RestOfWork

\* The fields of the captor, whatever it holds.
CaptorFields == {"out", "asks", "shots", "pushing", "finished", "flagging", "landed", "waking"}

LEMMA CaptureWorkTyped ==
  ASSUME AliasHeld, AliasRest,
         \/ \E ask \in captor.asks : Capture(ask)
         \/ \E taken \in captor.shots : Release(taken)
         \/ \E landing \in captor.pushing : Push(landing)
         \/ FlagCapture
  PROVE  AliasRest'
<1>1. ListTyped(lister) /\ ScanTyped(scanner) /\ CaptorTyped(captor) /\ PassTyped /\ SystemTyped
  BY DEF AliasRest
<1>2. WorkerOnly /\ lister' = lister /\ scanner' = scanner
  BY <1>1 DEF Capture, Release, Push, FlagCapture, CaptorStep, captures, noticed, WorkerOnly, PassTyped
<1>3. DOMAIN captor = CaptorFields
  BY DEF AliasHeld, PictureIsHeard, CaptorFields
<1>4. CaptorTyped(captor')
  <2>1. ASSUME NEW ask \in captor.asks, Capture(ask) PROVE CaptorTyped(captor')
    <3> DEFINE taken == [item |-> ask.item,
                         shot |-> IF bar[ask.window] = Nothing THEN {}
                                  ELSE {[spec |-> ask.spec, window |-> ask.window,
                                         picture |-> <<bar[ask.window], paint>>]}]
    <3>1. ask \in PictureAsk
      BY <1>1 DEF CaptorTyped
    <3>2. taken.item \in AliasItems /\ taken.shot \subseteq Captured
      BY <1>1, <3>1 DEF PictureAsk, Captured, Picture, SystemTyped
    <3>3. captor' = [captor EXCEPT !.asks = @ \ {ask}, !.shots = @ \cup {taken}]
      BY <2>1 DEF Capture, CaptorStep
    <3> HIDE DEF taken
    <3>4. QED
      BY <1>1, <1>3, <3>2, <3>3 DEF CaptorTyped, CaptorFields
  <2>2. ASSUME NEW taken \in captor.shots, Release(taken) PROVE CaptorTyped(captor')
    <3> DEFINE more == {[item |-> taken.item, shot |-> s] : s \in taken.shot}
    <3>1. more \subseteq Landing
      BY <1>1 DEF CaptorTyped, Landing
    <3>2. PICK b \in BOOLEAN :
             captor' = [captor EXCEPT !.shots = @ \ {taken}, !.out = @ \ {taken.item},
                                      !.waking = b, !.pushing = @ \cup more]
      BY <2>2 DEF Release, CaptorStep
    <3> HIDE DEF more
    <3>3. QED
      BY <1>1, <1>3, <3>1, <3>2 DEF CaptorTyped, CaptorFields
  <2>3. ASSUME NEW landing \in captor.pushing, Push(landing) PROVE CaptorTyped(captor')
    <3>1. landing \in Landing /\ Append(captor.finished, landing) \in Seq(Landing)
      BY <1>1 DEF CaptorTyped
    <3>2. QED
      BY <1>1, <1>3, <2>3, <3>1 DEF Push, CaptorStep, CaptorTyped, CaptorFields
  <2>4. CASE FlagCapture
    BY <1>1, <1>3, <2>4 DEF FlagCapture, CaptorStep, CaptorTyped, CaptorFields
  <2>5. QED
    BY <2>1, <2>2, <2>3, <2>4
<1>5. QED
  BY <1>1, <1>2, <1>4, RestOfWork

\* A worker's last step.
LEMMA WakeTyped ==
  ASSUME AliasHeld, AliasRest, Wake
  PROVE  AliasRest'
<1>1. ListTyped(lister) /\ ScanTyped(scanner) /\ CaptorTyped(captor) /\ PassTyped
  BY DEF AliasRest
<1>2. WorkerOnly
  BY <1>1 DEF Wake, captures, noticed, WorkerOnly, PassTyped
<1>3. DOMAIN captor = CaptorFields
  BY DEF AliasHeld, PictureIsHeard, CaptorFields
<1>4. ListTyped(lister')
  BY <1>1 DEF Wake, AliasHeld, ListIsHeard, ListHeard, ListTyped
<1>5. ScanTyped(scanner')
  BY <1>1 DEF Wake, AliasHeld, ScanIsHeard, ScanHeard, ScanTyped
<1>6. CaptorTyped(captor')
  BY <1>1, <1>3 DEF Wake, CaptorTyped, CaptorFields
<1>7. QED
  BY <1>2, <1>4, <1>5, <1>6, RestOfWork

\* A worker that is asked, or whose results are taken, is of its type.
LEMMA ListAskedTyped == ASSUME NEW l, NEW c, ListHeard(l, c), ListTyped(l) PROVE ListTyped(ListRequest(l))
BY DEF ListHeard, ListTyped, ListRequest, Stage

LEMMA ListTakenTyped == ASSUME NEW l, NEW c, ListHeard(l, c), ListTyped(l) PROVE ListTyped(ListTake(l))
BY DEF ListHeard, ListTyped, ListTake

LEMMA ScanAskedTyped == ASSUME NEW s, NEW c, ScanHeard(s, c), ScanTyped(s) PROVE ScanTyped(ScanRequest(s))
BY DEF ScanHeard, ScanTyped, ScanRequest, Stage

LEMMA SubmittedTyped ==
  ASSUME PictureIsHeard, CaptorTyped(captor), NEW ask \in PictureAsk
  PROVE  CaptorTyped(Submit(captor, ask))
<1>1. DOMAIN captor = CaptorFields
  BY DEF PictureIsHeard, CaptorFields
<1>2. QED
  BY <1>1 DEF Submit, CaptorTyped, CaptorFields, PictureAsk

\* A pass begins, or finds that there is nothing to look at.
LEMMA StartTyped ==
  ASSUME AliasHeld, AliasRest, StartPass
  PROVE  AliasRest'
<1>1. SystemTyped /\ MirrorsTyped /\ PassTyped /\ TodoTyped /\ ListTyped(lister)
  BY DEF AliasRest
<1>2. SystemTyped'
  BY <1>1 DEF StartPass, SystemTyped, system
<1>3. MirrorsTyped' /\ ScanTyped(scanner)' /\ CaptorTyped(captor)'
  BY DEF StartPass, AliasRest, MirrorsTyped
<1>4. lister' = ListRequest(lister) \/ lister' = lister
  BY DEF StartPass
<1>5. ListTyped(lister')
  BY <1>1, <1>4, ListAskedTyped DEF AliasHeld, ListIsHeard
<1>6. PassTyped'
  <2>1. at' \in {"begin", "out"} /\ rescan' \in BOOLEAN /\ owedPass' \in BOOLEAN
    BY <1>1 DEF StartPass
  <2>2. QED
    BY <1>1, <2>1 DEF StartPass, PassTyped
<1>7. TodoTyped'
  BY <1>1 DEF StartPass, TodoTyped, system
<1>8. QED
  BY <1>2, <1>3, <1>5, <1>6, <1>7 DEF AliasRest

\* It takes what the workers have finished.
LEMMA GatherTyped ==
  ASSUME AliasHeld, AliasRest, Gather
  PROVE  AliasRest'
<1>1. SystemTyped /\ MirrorsTyped /\ PassTyped /\ TodoTyped /\ ListTyped(lister) /\ ScanTyped(scanner)
      /\ CaptorTyped(captor)
  BY DEF AliasRest
<1>2. /\ dirty' \in {dirty, {}}
      /\ due' \in {<<"everything", {}>>, <<"these", dirty>>}
  BY DEF Gather, DecideDue
<1>3. SystemTyped'
  BY <1>1, <1>2 DEF Gather, SystemTyped, system
<1>4. MirrorsTyped'
  BY <1>1 DEF Gather, MirrorsTyped
<1>5. ScanTyped(scanner')
  BY <1>1 DEF Gather, BeginPass, AliasHeld, ScanIsHeard, ScanHeard, ScanTyped
<1>6. CaptorTyped(captor')
  <2>1. captor' = [captor EXCEPT !.finished = <<>>, !.landed = FALSE] /\ <<>> \in Seq(Landing)
    BY DEF Gather, TakeLandings
  <2>2. DOMAIN captor = CaptorFields
    BY DEF AliasHeld, PictureIsHeard, CaptorFields
  <2>3. QED
    BY <1>1, <2>1, <2>2 DEF CaptorTyped, CaptorFields
<1>7. ListTyped(lister')
  <2>1. lister' = ListRequest(ListTake(lister)) \/ lister' = ListTake(lister)
    BY DEF Gather, BeginPass
  <2>2. ListHeard(lister, TakesComing) /\ TakesComing \in BOOLEAN
    BY DEF AliasHeld, ListIsHeard, TakesComing
  <2>3. ListTyped(ListTake(lister)) /\ ListHeard(ListTake(lister), TRUE)
    BY <1>1, <2>2, ListTakenTyped, ListTaken
  <2>4. ListTyped(ListRequest(ListTake(lister)))
    BY <2>3, ListAskedTyped
  <2>5. QED
    BY <2>1, <2>3, <2>4
<1>8. PassTyped'
  <2>1. latest' \subseteq SUBSET Hosted
    BY <1>1 DEF Gather, BeginPass, PassTyped, ScanTyped
  <2>2. Repairs \subseteq [Windows -> Shown]
    BY <1>1 DEF Repairs, ListTyped, WindowList
  <2>3. table' \in [Windows -> Shown] /\ attributed' \subseteq Windows
    BY <1>1, <2>2 DEF Gather, BeginPass, PassTyped
  <2>4. due' \in {"everything"} \X {{}} \cup {"these"} \X SUBSET AliasItems
    BY <1>1, <1>2 DEF SystemTyped
  <2>5. landings' \in Seq(Landing)
    BY <1>1 DEF Gather, TakeLandings, CaptorTyped
  <2>6. owed' \in BOOLEAN /\ rescan' \in BOOLEAN /\ at' \in {"rescan", "collect"}
    BY DEF Gather, BeginPass
  <2>7. QED
    BY <1>1, <2>1, <2>3, <2>4, <2>5, <2>6 DEF Gather, PassTyped
<1>9. TodoTyped'
  BY <1>1 DEF Gather, TodoTyped, system
<1>10. QED
  BY <1>3, <1>4, <1>5, <1>6, <1>7, <1>8, <1>9 DEF AliasRest

\* A picture is looked at.
LEMMA CollectTyped ==
  ASSUME AliasHeld, AliasRest, Collect
  PROVE  AliasRest'
<1>1. SystemTyped /\ MirrorsTyped /\ PassTyped /\ TodoTyped
  BY DEF AliasRest
<1>2. SystemTyped' /\ ListTyped(lister)' /\ ScanTyped(scanner)' /\ CaptorTyped(captor)'
  BY <1>1 DEF Collect, AliasRest, SystemTyped, system, noticed
<1>3. PICK seq \in Seq(Landing) : seq = landings
  BY <1>1 DEF PassTyped
<1>4. landings' \in Seq(Landing) /\ Head(landings) \in Landing
  BY <1>3 DEF Collect
<1>5. PICK a \in AliasItems, shot \in Captured : a = Head(landings).item /\ shot = Head(landings).shot
  BY <1>4 DEF Landing
<1>6. \/ UNCHANGED <<mirrors, landedNow>>
      \/ /\ a \in DOMAIN mirrors /\ mirrors' = [mirrors EXCEPT ![a].held = {shot}]
         /\ landedNow' = {c \in landedNow : c[1] # a} \cup {<<a, shot.picture>>}
  BY <1>5 DEF Collect, Holds
<1>7. MirrorsTyped'
  <2>1. CASE mirrors' = mirrors
    BY <1>1, <2>1 DEF MirrorsTyped
  <2>2. CASE mirrors' # mirrors
    <3>1. a \in DOMAIN mirrors /\ mirrors' = [mirrors EXCEPT ![a] = [mirrors[a] EXCEPT !.held = {shot}]]
      BY <1>6, <2>2
    <3>2. MirrorTyped([mirrors[a] EXCEPT !.held = {shot}])
      <4>1. MirrorTyped(mirrors[a]) /\ DOMAIN mirrors[a] = {"spec", "window", "held", "watched"}
        BY <1>1, <3>1 DEF MirrorsTyped, AliasHeld, Belongs, IsMirror
      <4>2. QED
        BY <4>1 DEF MirrorTyped, OneOf
    <3>3. QED
      BY <1>1, <3>1, <3>2 DEF MirrorsTyped
  <2>3. QED
    BY <2>1, <2>2
<1>8. landedNow' \subseteq AliasItems \X Picture
  BY <1>1, <1>6 DEF PassTyped, Captured
<1>9. PassTyped' /\ TodoTyped'
  <2>1. at' \in {"rescan", "collect"} /\ at = "collect"
    BY DEF Collect
  <2>2. PassTyped'
    BY <1>1, <1>4, <1>8, <2>1 DEF Collect, PassTyped
  <2>3. TodoTyped'
    BY <1>1, <2>1 DEF Collect, TodoTyped, system
  <2>4. QED
    BY <2>2, <2>3
<1>10. QED
  BY <1>2, <1>7, <1>9 DEF AliasRest

\* A scanner that is asked, or is not.
LEMMA ScanKeptTyped ==
  ASSUME ScanIsHeard, ScanTyped(scanner), asked \in BOOLEAN,
         UNCHANGED <<scanner, asked>> \/ \E native \in BOOLEAN : AskForScan(native)
  PROVE  ScanTyped(scanner') /\ asked' \in BOOLEAN
BY ScanAskedTyped DEF AskForScan, ScanIsHeard

\* A scan that is owed is asked for, and the items are listed.
LEMMA RescanTyped ==
  ASSUME AliasHeld, AliasRest, NoteRescan
  PROVE  AliasRest'
<1>1. SystemTyped /\ MirrorsTyped /\ PassTyped /\ TodoTyped /\ ScanTyped(scanner)
  BY DEF AliasRest
<1>2. SystemTyped' /\ MirrorsTyped' /\ ListTyped(lister)' /\ CaptorTyped(captor)'
  BY <1>1 DEF NoteRescan, AliasRest, SystemTyped, MirrorsTyped, system, noticed
<1>3. ScanTyped(scanner') /\ asked' \in BOOLEAN
  BY <1>1, ScanKeptTyped DEF NoteRescan, AliasHeld, PassTyped
<1>4. PassTyped'
  BY <1>1, <1>3 DEF NoteRescan, PassTyped
<1>5. TodoTyped'
  BY DEF NoteRescan, TodoTyped, system
<1>6. QED
  BY <1>2, <1>3, <1>4, <1>5 DEF AliasRest

\* An item is looked at, and the pass ends.
LEMMA LookTyped ==
  ASSUME AliasHeld, AliasRest, NEW a \in AliasItems, Hide(a) \/ Leave(a)
  PROVE  AliasRest'
<1>1. SystemTyped /\ MirrorsTyped /\ PassTyped /\ TodoTyped
  BY DEF AliasRest
<1>2. SystemTyped' /\ ListTyped(lister)' /\ ScanTyped(scanner)' /\ CaptorTyped(captor)' /\ TodoTyped'
  BY <1>1 DEF Hide, Leave, Looking, AliasRest, SystemTyped, TodoTyped, system, noticed
<1>3. mirrors' = mirrors \/ mirrors' = Forgotten(a)
  BY DEF Hide, Leave
<1>4. MirrorsTyped'
  BY <1>1, <1>3, ForgottenTyped
<1>5. PassTyped'
  <2>1. content' = content \/ content' = [content EXCEPT ![a] = {}]
    BY DEF Hide, Leave
  <2>2. content' \in [AliasItems -> SUBSET Picture]
    BY <1>1, <2>1 DEF PassTyped
  <2>3. QED
    BY <1>1, <2>2 DEF Hide, Leave, PassTyped
<1>6. QED
  BY <1>2, <1>4, <1>5 DEF AliasRest

\* A mirror is made, or becomes another window's, and what it needs is asked for.
LEMMA RefreshTyped ==
  ASSUME AliasHeld, AliasRest, NEW a \in AliasItems, Refresh(a)
  PROVE  AliasRest'
<1>1. SystemTyped /\ MirrorsTyped /\ PassTyped /\ TodoTyped /\ ListTyped(lister) /\ ScanTyped(scanner)
      /\ CaptorTyped(captor)
  BY DEF AliasRest
<1>2. SystemTyped'
  BY <1>1 DEF Refresh, SystemTyped, system, noticed
<1>3. TodoTyped' /\ names[a] \in Specs
  BY <1>1 DEF Refresh, Looking, TodoTyped, SystemTyped, Shown, system
<1>4. Finds(names[a]) \subseteq Windows
  BY DEF Finds
<1>5. MirrorTyped(Mirror(a)) /\ DOMAIN Mirror(a) = {"spec", "window", "held", "watched"}
  BY <1>1, <1>3 DEF Mirror, Created, Holds, MirrorsTyped, MirrorTyped, OneOf, AliasHeld, Belongs, IsMirror
<1>6. MirrorsTyped'
  <2>1. \/ mirrors' = mirrors
        \/ SetMirror(a, [Mirror(a) EXCEPT !.window = {}])
        \/ \E w \in Windows : SetMirror(a, [Mirror(a) EXCEPT !.window = {w}, !.watched = TRUE])
    BY <1>4 DEF Refresh
  <2>2. /\ MirrorTyped([Mirror(a) EXCEPT !.window = {}])
        /\ \A w \in Windows : MirrorTyped([Mirror(a) EXCEPT !.window = {w}, !.watched = TRUE])
    BY <1>5 DEF MirrorTyped, OneOf
  <2>3. CASE mirrors' = mirrors
    BY <1>1, <2>3 DEF MirrorsTyped
  <2>4. CASE mirrors' # mirrors
    <3>1. PICK mirror : MirrorTyped(mirror) /\ SetMirror(a, mirror)
      BY <2>1, <2>2, <2>4
    <3>2. QED
      BY <1>1, <3>1 DEF SetMirror, MirrorsTyped
  <2>5. QED
    BY <2>3, <2>4
<1>7. ListTyped(lister')
  <2>1. lister' = lister \/ lister' = ListRequest(lister)
    BY DEF Refresh
  <2>2. QED
    BY <1>1, <2>1, ListAskedTyped DEF AliasHeld, ListIsHeard
<1>8. ScanTyped(scanner') /\ asked' \in BOOLEAN
  <2>1. UNCHANGED <<scanner, asked>> \/ \E native \in BOOLEAN : AskForScan(native)
    BY DEF Refresh, AskForScan, AsksForScan
  <2>2. QED
    BY <1>1, <2>1, ScanKeptTyped DEF AliasHeld, PassTyped
<1>9. CaptorTyped(captor')
  <2>1. \/ captor' = captor
        \/ \E w \in Windows : captor' = Submit(captor, [item |-> a, spec |-> names[a], window |-> w])
    BY <1>4 DEF Refresh
  <2>2. \A w \in Windows : [item |-> a, spec |-> names[a], window |-> w] \in PictureAsk
    BY <1>3 DEF PictureAsk
  <2>3. QED
    BY <1>1, <2>1, <2>2, SubmittedTyped DEF AliasHeld
<1>10. PassTyped'
  BY <1>1, <1>8 DEF Refresh, PassTyped
<1>11. QED
  BY <1>2, <1>3, <1>6, <1>7, <1>8, <1>9, <1>10 DEF AliasRest

\* The pictures that landed go to their items.
LEMMA EndTyped ==
  ASSUME AliasRest, EndPass
  PROVE  AliasRest'
<1>1. SystemTyped /\ MirrorsTyped /\ PassTyped /\ TodoTyped
  BY DEF AliasRest
<1>2. SystemTyped' /\ MirrorsTyped' /\ ListTyped(lister)' /\ ScanTyped(scanner)' /\ CaptorTyped(captor)'
  BY <1>1 DEF EndPass, AliasRest, SystemTyped, MirrorsTyped, system, noticed
<1>3. content' \in [AliasItems -> SUBSET Picture]
  <2>1. ASSUME NEW l \in landedNow PROVE l[2] \in Picture
    BY <1>1, <2>1 DEF PassTyped
  <2>2. QED
    BY <1>1, <2>1 DEF EndPass, PassTyped
<1>4. PassTyped'
  BY <1>1, <1>3 DEF EndPass, PassTyped
<1>5. TodoTyped'
  BY <1>1 DEF EndPass, TodoTyped
<1>6. QED
  BY <1>2, <1>4, <1>5 DEF AliasRest

\* Whatever is changed, read, captured or looked at, the types stay.
LEMMA AliasRestStep == AliasHeld /\ AliasRest /\ [AliasNext]_aliasVars => AliasRest'
<1> SUFFICES ASSUME AliasHeld, AliasRest, [AliasNext]_aliasVars PROVE AliasRest'
  OBVIOUS
<1>1. CASE Work
  BY <1>1, ListWorkTyped, ScanWorkTyped, CaptureWorkTyped, WakeTyped, StartTyped, GatherTyped,
     CollectTyped, RescanTyped, LookTyped, RefreshTyped, EndTyped DEF Work
<1>2. CASE UNCHANGED aliasVars
  <2>1. SystemTyped' /\ MirrorsTyped' /\ ListTyped(lister)' /\ ScanTyped(scanner)'
    BY <1>2 DEF aliasVars, system, noticed, captures, AliasRest, SystemTyped, MirrorsTyped
  <2>2. CaptorTyped(captor)' /\ PassTyped' /\ TodoTyped'
    BY <1>2 DEF aliasVars, system, captures, AliasRest, PassTyped, TodoTyped
  <2>3. QED
    BY <2>1, <2>2 DEF AliasRest
<1>3. QED
  BY <1>1, <1>2, ChangeTyped DEF AliasNext

\* Nothing or one of a set counts as one at most.
LEMMA OneCounts == ASSUME NEW S, NEW T \in OneOf(S) PROVE T \subseteq S /\ Cardinality(T) <= 1
<1>1. CASE T = {}
  BY <1>1, FS_EmptySet
<1>2. CASE T # {}
  <2>1. PICK x \in S : T = {x}
    BY <1>2 DEF OneOf
  <2>2. Cardinality({x}) = 1
    BY FS_Singleton
  <2>3. QED
    BY <2>1, <2>2
<1>3. QED
  BY <1>1, <1>2

\* ... and they are all of the aliases' type.
LEMMA AliasIsTyped == AliasRest => AliasTypeOK
<1> SUFFICES ASSUME AliasRest PROVE AliasTypeOK
  OBVIOUS
<1>1. ASSUME NEW a \in DOMAIN mirrors
      PROVE  /\ a \in AliasItems /\ mirrors[a].spec \in Specs
             /\ mirrors[a].window \subseteq Windows /\ Cardinality(mirrors[a].window) <= 1
             /\ mirrors[a].held \subseteq Captured /\ Cardinality(mirrors[a].held) <= 1
             /\ mirrors[a].watched \in BOOLEAN
  BY OneCounts DEF AliasRest, MirrorsTyped, MirrorTyped
<1>2. /\ {edited, launched, displaced, owed, rescan, asked, owedPass} \subseteq BOOLEAN
      /\ {lister.running, lister.landed, lister.waking, scanner.running, scanner.landed,
          scanner.waking, captor.landed, captor.waking} \subseteq BOOLEAN
  BY DEF AliasRest, SystemTyped, PassTyped, ListTyped, ScanTyped, CaptorTyped
<1>3. {captor.finished, landings} \subseteq Seq([item: AliasItems, shot: Captured])
  BY DEF AliasRest, PassTyped, CaptorTyped, Landing
<1>4. lister.stage \in Stage /\ scanner.stage \in Stage
      /\ lister.finished \subseteq [ok: BOOLEAN, list: [Windows -> Shown]]
      /\ scanner.finished \subseteq SUBSET Hosted /\ captor.out \subseteq AliasItems
  BY DEF AliasRest, ListTyped, ScanTyped, CaptorTyped, WindowList
<1>5. QED
  BY <1>1, <1>2, <1>3, <1>4 DEF AliasRest, SystemTyped, PassTyped, TodoTyped, AliasTypeOK

-----------------------------------------------------------------------------
(* AliasWatch. *)

\* What is in a queue of errands: one that makes an observer for a registration,
\* one that drops that of an application, one that matches it again.
Makes(q, i, c) == i \in 1 .. Len(q) /\ q[i].errand = "create" /\ q[i].context = c
Drops(q, i, p) == i \in 1 .. Len(q) /\ q[i].errand = "drop" /\ q[i].pid = p
Matches(q, i, p) == i \in 1 .. Len(q) /\ q[i].errand = "resync" /\ q[i].pid = p
HasCreate(q, c) == \E i \in 1 .. Len(q) : Makes(q, i, c)
HasDrop(q, p) == \E i \in 1 .. Len(q) : Drops(q, i, p)
HasResync(q, p) == \E i \in 1 .. Len(q) : Matches(q, i, p)

\* The observers of p are dropped before that of c is made, that of c is made
\* once, and each is made for the application of its registration.
DropsFirst(q, c, p) ==
  \A i, j \in 1 .. Len(q) : Makes(q, i, c) /\ Drops(q, j, p) => j < i
MakesOnce(q, c) ==
  \A i, j \in 1 .. Len(q) : Makes(q, i, c) /\ Makes(q, j, c) => j = i
Owned(q, o) ==
  \A i \in 1 .. Len(q) : q[i].errand = "create" =>
    q[i].context \in Contexts /\ q[i].pid = o[q[i].context]

\* An errand sent is behind all the others.
LEMMA Sent ==
  ASSUME NEW q \in Seq(Errands), NEW x \in Errands
  PROVE  /\ Append(q, x) \in Seq(Errands)
         /\ Len(Append(q, x)) = Len(q) + 1 /\ Append(q, x)[Len(q) + 1] = x
         /\ \A i \in 1 .. Len(q) : Append(q, x)[i] = q[i]
BY AppendProperties

\* What an errand sent adds.
LEMMA SentAdds ==
  ASSUME NEW q \in Seq(Errands), NEW x \in Errands
  PROVE  /\ \A c : HasCreate(Append(q, x), c) <=> HasCreate(q, c) \/ (x.errand = "create" /\ x.context = c)
         /\ \A p : HasDrop(Append(q, x), p) <=> HasDrop(q, p) \/ (x.errand = "drop" /\ x.pid = p)
         /\ \A p : HasResync(Append(q, x), p) <=> HasResync(q, p) \/ (x.errand = "resync" /\ x.pid = p)
<1>1. PICK n \in Nat : n = Len(q)
  BY LenProperties
<1>2. /\ Len(Append(q, x)) = n + 1 /\ Append(q, x)[n + 1] = x
      /\ \A i \in 1 .. n : Append(q, x)[i] = q[i]
  BY <1>1, Sent
<1>3. 1 .. n + 1 = (1 .. n) \cup {n + 1}
  BY <1>1
<1>4. \A c : HasCreate(Append(q, x), c) <=> HasCreate(q, c) \/ (x.errand = "create" /\ x.context = c)
  BY <1>1, <1>2, <1>3 DEF HasCreate, Makes
<1>5. \A p : HasDrop(Append(q, x), p) <=> HasDrop(q, p) \/ (x.errand = "drop" /\ x.pid = p)
  BY <1>1, <1>2, <1>3 DEF HasDrop, Drops
<1>6. \A p : HasResync(Append(q, x), p) <=> HasResync(q, p) \/ (x.errand = "resync" /\ x.pid = p)
  BY <1>1, <1>2, <1>3 DEF HasResync, Matches
<1>7. QED
  BY <1>4, <1>5, <1>6

\* An errand sent disturbs the order only if it drops what is to be made, and
\* the count only if it makes it again.
LEMMA SentKeepsOrder ==
  ASSUME NEW q \in Seq(Errands), NEW x \in Errands
  PROVE  /\ \A c, p : DropsFirst(q, c, p) /\ ~(x.errand = "drop" /\ x.pid = p /\ HasCreate(q, c))
                        => DropsFirst(Append(q, x), c, p)
         /\ \A c : MakesOnce(q, c) /\ ~(x.errand = "create" /\ x.context = c /\ HasCreate(q, c))
                        => MakesOnce(Append(q, x), c)
         /\ \A o : Owned(q, o) /\ (x.errand = "create" => x.context \in Contexts /\ x.pid = o[x.context])
                        => Owned(Append(q, x), o)
<1>1. PICK n \in Nat : n = Len(q)
  BY LenProperties
<1>2. /\ Len(Append(q, x)) = n + 1 /\ Append(q, x)[n + 1] = x
      /\ \A i \in 1 .. n : Append(q, x)[i] = q[i]
  BY <1>1, Sent
<1>3. 1 .. n + 1 = (1 .. n) \cup {n + 1} /\ \A i \in 1 .. n : i < n + 1
  BY <1>1
<1>4. ASSUME NEW c, NEW p, DropsFirst(q, c, p), ~(x.errand = "drop" /\ x.pid = p /\ HasCreate(q, c))
      PROVE  DropsFirst(Append(q, x), c, p)
  <2>1. SUFFICES ASSUME NEW i \in 1 .. n + 1, NEW j \in 1 .. n + 1,
                        Makes(Append(q, x), i, c), Drops(Append(q, x), j, p)
                 PROVE  j < i
    BY <1>2 DEF DropsFirst
  <2>2. CASE i \in 1 .. n /\ j \in 1 .. n
    BY <2>1, <2>2, <1>1, <1>2, <1>4 DEF DropsFirst, Makes, Drops
  <2>3. CASE i = n + 1 /\ j \in 1 .. n
    BY <2>3, <1>3
  <2>4. CASE i = n + 1 /\ j = n + 1
    BY <2>1, <2>4, <1>2 DEF Makes, Drops
  <2>5. CASE i \in 1 .. n /\ j = n + 1
    BY <2>1, <2>5, <1>1, <1>2, <1>4 DEF Makes, Drops, HasCreate
  <2>6. QED
    BY <1>3, <2>2, <2>3, <2>4, <2>5
<1>5. ASSUME NEW c, MakesOnce(q, c), ~(x.errand = "create" /\ x.context = c /\ HasCreate(q, c))
      PROVE  MakesOnce(Append(q, x), c)
  <2>1. SUFFICES ASSUME NEW i \in 1 .. n + 1, NEW j \in 1 .. n + 1,
                        Makes(Append(q, x), i, c), Makes(Append(q, x), j, c)
                 PROVE  j = i
    BY <1>2 DEF MakesOnce
  <2>2. CASE i \in 1 .. n /\ j \in 1 .. n
    BY <2>1, <2>2, <1>1, <1>2, <1>5 DEF MakesOnce, Makes
  <2>3. CASE i \in 1 .. n /\ j = n + 1
    BY <2>1, <2>3, <1>1, <1>2, <1>5 DEF Makes, HasCreate
  <2>4. CASE i = n + 1 /\ j \in 1 .. n
    BY <2>1, <2>4, <1>1, <1>2, <1>5 DEF Makes, HasCreate
  <2>5. CASE i = n + 1 /\ j = n + 1
    BY <2>5
  <2>6. QED
    BY <1>3, <2>2, <2>3, <2>4, <2>5
<1>6. ASSUME NEW o, Owned(q, o), x.errand = "create" => x.context \in Contexts /\ x.pid = o[x.context]
      PROVE  Owned(Append(q, x), o)
  BY <1>1, <1>2, <1>3, <1>6 DEF Owned
<1>7. QED
  BY <1>4, <1>5, <1>6

\* An errand taken leaves the others, each one place further.
LEMMA Taken ==
  ASSUME NEW q \in Seq(Errands), q # <<>>
  PROVE  /\ Tail(q) \in Seq(Errands) /\ Head(q) \in Errands /\ Head(q) = q[1]
         /\ Len(q) \in Nat \ {0} /\ Len(Tail(q)) = Len(q) - 1
         /\ \A i \in 1 .. Len(q) - 1 : Tail(q)[i] = q[i + 1]
BY HeadTailProperties, LenProperties, EmptySeq

\* What an errand taken takes away.
LEMMA TakenLeaves ==
  ASSUME NEW q \in Seq(Errands), q # <<>>
  PROVE  /\ \A c : HasCreate(q, c) <=> HasCreate(Tail(q), c) \/ (Head(q).errand = "create" /\ Head(q).context = c)
         /\ \A p : HasDrop(q, p) <=> HasDrop(Tail(q), p) \/ (Head(q).errand = "drop" /\ Head(q).pid = p)
         /\ \A p : HasResync(q, p) <=> HasResync(Tail(q), p) \/ (Head(q).errand = "resync" /\ Head(q).pid = p)
<1>1. PICK n \in Nat : Len(q) = n + 1
  BY Taken
<1>2. /\ Len(Tail(q)) = n /\ Head(q) = q[1]
      /\ \A i \in 1 .. n : Tail(q)[i] = q[i + 1]
  BY <1>1, Taken
<1>3. /\ 1 \in 1 .. n + 1 /\ \A i \in 1 .. n : i + 1 \in 1 .. n + 1
      /\ \A j \in 1 .. n + 1 : j = 1 \/ \E i \in 1 .. n : j = i + 1
  <2>1. \A j \in 1 .. n + 1 : j # 1 => j - 1 \in 1 .. n /\ j = (j - 1) + 1
    BY <1>1
  <2>2. QED
    BY <1>1, <2>1
<1>4. \A c : HasCreate(q, c) <=> HasCreate(Tail(q), c) \/ (Head(q).errand = "create" /\ Head(q).context = c)
  BY <1>1, <1>2, <1>3 DEF HasCreate, Makes
<1>5. \A p : HasDrop(q, p) <=> HasDrop(Tail(q), p) \/ (Head(q).errand = "drop" /\ Head(q).pid = p)
  BY <1>1, <1>2, <1>3 DEF HasDrop, Drops
<1>6. \A p : HasResync(q, p) <=> HasResync(Tail(q), p) \/ (Head(q).errand = "resync" /\ Head(q).pid = p)
  BY <1>1, <1>2, <1>3 DEF HasResync, Matches
<1>7. QED
  BY <1>4, <1>5, <1>6

\* The order of the others stands, and what was taken first came before them.
LEMMA TakenKeepsOrder ==
  ASSUME NEW q \in Seq(Errands), q # <<>>
  PROVE  /\ \A c, p : DropsFirst(q, c, p) =>
              /\ DropsFirst(Tail(q), c, p)
              /\ Head(q).errand = "create" /\ Head(q).context = c => ~HasDrop(q, p)
         /\ \A c : MakesOnce(q, c) =>
              /\ MakesOnce(Tail(q), c)
              /\ Head(q).errand = "create" /\ Head(q).context = c => ~HasCreate(Tail(q), c)
         /\ \A o : Owned(q, o) => Owned(Tail(q), o)
<1>1. PICK n \in Nat : Len(q) = n + 1
  BY Taken
<1>2. /\ Len(Tail(q)) = n /\ Head(q) = q[1]
      /\ \A i \in 1 .. n : Tail(q)[i] = q[i + 1]
  BY <1>1, Taken
<1>3. /\ 1 \in 1 .. n + 1 /\ \A i \in 1 .. n : i + 1 \in 1 .. n + 1 /\ i + 1 # 1
      /\ \A i, j \in 1 .. n : (j + 1 < i + 1 => j < i) /\ (j + 1 = i + 1 => j = i)
      /\ \A j \in 1 .. n + 1 : ~(j < 1)
  BY <1>1
<1>4. ASSUME NEW c, NEW p, DropsFirst(q, c, p)
      PROVE  DropsFirst(Tail(q), c, p)
  <2>1. SUFFICES ASSUME NEW i \in 1 .. n, NEW j \in 1 .. n,
                        Makes(Tail(q), i, c), Drops(Tail(q), j, p)
                 PROVE  j < i
    BY <1>2 DEF DropsFirst
  <2>2. Makes(q, i + 1, c) /\ Drops(q, j + 1, p)
    BY <2>1, <1>1, <1>2, <1>3 DEF Makes, Drops
  <2>3. j + 1 < i + 1
    BY <2>2, <1>1, <1>3, <1>4 DEF DropsFirst
  <2>4. QED
    BY <2>3
<1>5. ASSUME NEW c, NEW p, DropsFirst(q, c, p), Head(q).errand = "create", Head(q).context = c
      PROVE  ~HasDrop(q, p)
  BY <1>1, <1>2, <1>3, <1>5 DEF DropsFirst, Makes, HasDrop
<1>6. ASSUME NEW c, MakesOnce(q, c)
      PROVE  MakesOnce(Tail(q), c)
  <2>1. SUFFICES ASSUME NEW i \in 1 .. n, NEW j \in 1 .. n,
                        Makes(Tail(q), i, c), Makes(Tail(q), j, c)
                 PROVE  j = i
    BY <1>2 DEF MakesOnce
  <2>2. Makes(q, i + 1, c) /\ Makes(q, j + 1, c)
    BY <2>1, <1>1, <1>2, <1>3 DEF Makes
  <2>3. j + 1 = i + 1
    BY <2>2, <1>1, <1>3, <1>6 DEF MakesOnce
  <2>4. QED
    BY <2>3
<1>7. ASSUME NEW c, MakesOnce(q, c), Head(q).errand = "create", Head(q).context = c
      PROVE  ~HasCreate(Tail(q), c)
  BY <1>1, <1>2, <1>3, <1>7 DEF MakesOnce, Makes, HasCreate
<1>8. ASSUME NEW o, Owned(q, o)
      PROVE  Owned(Tail(q), o)
  BY <1>1, <1>2, <1>3, <1>8 DEF Owned
<1>9. QED
  BY <1>4, <1>5, <1>6, <1>7, <1>8

-----------------------------------------------------------------------------
Steps == {"none", "spawned", "creating", "refused", "created", "asking", "gone"}
MainRecord ==
  [made: 0..MaxContexts, pidOf: [Mirrored -> Pids \cup {0}], watching: [Pids -> 0..MaxContexts],
   watched: [Contexts -> Watchers], owner: [Contexts -> Pids \cup {0}], failed: SUBSET Pids,
   step: [Contexts -> Steps], lame: SUBSET Contexts, permit: SUBSET Contexts,
   queue: Seq(Errands), outlived: SUBSET Pids]
Failures == [pid: Pids, of: Contexts, trusted: BOOLEAN]

\* A registration has been made once it has an application, and the one an
\* application has is its own, was not ended, and watches something.
Registered(m) ==
  /\ \A c \in Contexts : IF c > m.made THEN m.step[c] = "none" /\ c \notin m.lame
                         ELSE m.step[c] # "none" /\ m.owner[c] \in Pids
  /\ \A p \in Pids : m.watching[p] # 0 =>
       /\ m.watching[p] <= m.made /\ m.owner[m.watching[p]] = p
       /\ m.watching[p] \notin m.lame /\ m.watched[m.watching[p]] # NoOne

\* An observer is made once, for a registration whose task waits for it or has gone.
Queued(m) ==
  /\ Owned(m.queue, m.owner)
  /\ \A c \in Contexts :
       /\ MakesOnce(m.queue, c)
       /\ HasCreate(m.queue, c) => c <= m.made /\ m.step[c] \in {"creating", "gone"}

\* One that was ended before its observer was made watches nothing.
Emptied(m) ==
  \A c \in Contexts, p \in Pids :
    /\ m.owner[c] = p /\ m.watching[p] # c /\ p \notin m.outlived
    /\ m.step[c] = "spawned" \/ HasCreate(m.queue, c)
    => m.watched[c] = NoOne

\* A failure is of a registration whose task has gone.
AnsweredFor(m, R) == \A r \in R : r.of \in Contexts /\ m.step[r.of] = "gone" /\ m.owner[r.of] = r.pid

\* The observer of an application against the registration w it has: there is
\* none until it is made, and it is w's from then on; what it was matched against
\* is what w watches, or it is asked to match again.
Stands(m, R, o, t, k, p, w) ==
  /\ HasCreate(m.queue, w) <=> m.step[w] = "creating"
  /\ DropsFirst(m.queue, w, p)
  /\ m.step[w] \in {"spawned", "creating"} => o[p] = 0 \/ HasDrop(m.queue, p)
  /\ m.step[w] \notin {"spawned", "creating"} => ~HasDrop(m.queue, p)
  /\ m.step[w] \in {"refused", "gone"} => o[p] = 0
  /\ m.step[w] \in {"created", "asking"} => o[p] = w
  /\ m.step[w] = "gone" => \E r \in R : r.of = w
  /\ m.step[w] \in {"created", "asking"} /\ p \notin k /\ t[p] # m.watched[w]
       => w \in m.permit \/ HasResync(m.queue, p)

\* An application without a registration has no observer, or it is to be dropped.
Follows(m, R, o, t, k, p) ==
  IF m.watching[p] = 0 THEN o[p] = 0 \/ HasDrop(m.queue, p)
  ELSE Stands(m, R, o, t, k, p, m.watching[p])

Good(m, R, o, t, k) ==
  /\ Registered(m) /\ Queued(m) /\ Emptied(m) /\ AnsweredFor(m, R)
  /\ \A p \in Pids : p \notin m.outlived => Follows(m, R, o, t, k, p)

AliasTypes ==
  /\ Main \in MainRecord /\ results \subseteq Failures
  /\ observer \in [Pids -> 0..MaxContexts] /\ matched \in [Pids -> Watchers] /\ kept \subseteq Pids
AliasInv == AliasTypes /\ Good(Main, results, observer, matched, kept)

-----------------------------------------------------------------------------
\* What a call of `detach`, or the results, end: only tasks, and of those only
\* the ones that are said.
LEMMA AbortEnds ==
  ASSUME NEW m \in MainRecord, NEW cs \in SUBSET Contexts
  PROVE  /\ Abort(m, cs) \in MainRecord
         /\ Abort(m, cs).made = m.made /\ Abort(m, cs).pidOf = m.pidOf
         /\ Abort(m, cs).watching = m.watching /\ Abort(m, cs).watched = m.watched
         /\ Abort(m, cs).owner = m.owner /\ Abort(m, cs).failed = m.failed
         /\ Abort(m, cs).permit = m.permit /\ Abort(m, cs).queue = m.queue
         /\ Abort(m, cs).outlived = m.outlived
         /\ Abort(m, cs).lame = m.lame \cup {c \in cs : m.step[c] \in Midstep}
         /\ \A c \in Contexts :
              Abort(m, cs).step[c] = IF c \in cs /\ m.step[c] \notin Midstep THEN "gone" ELSE m.step[c]
BY DEF Abort, MainRecord, Steps, Midstep

\* The applications results are of, and the registrations they end.
FailedPids == {r.pid : r \in results}
EndedBy(m) == {m.watching[p] : p \in FailedPids} \ {0}

\* What applying the results does to the main thread's state.
LEMMA AppliedIs ==
  ASSUME NEW m \in MainRecord, results \subseteq Failures
  PROVE  /\ FailedPids \subseteq Pids /\ EndedBy(m) \subseteq Contexts
         /\ Applied(m) \in MainRecord
         /\ Applied(m).made = m.made /\ Applied(m).watched = m.watched
         /\ Applied(m).owner = m.owner /\ Applied(m).permit = m.permit
         /\ Applied(m).queue = m.queue
         /\ Applied(m).lame = m.lame \cup {c \in EndedBy(m) : m.step[c] \in Midstep}
         /\ \A c \in Contexts :
              Applied(m).step[c] = IF c \in EndedBy(m) /\ m.step[c] \notin Midstep THEN "gone" ELSE m.step[c]
         /\ \A p \in Pids : Applied(m).watching[p] = IF p \in FailedPids THEN 0 ELSE m.watching[p]
         /\ Applied(m).outlived =
              m.outlived \cup {p \in FailedPids : m.watching[p] \notin {0} \cup FailuresOf(p)}
<1> DEFINE pids == FailedPids
           cs == EndedBy(m)
<1>1. pids \subseteq Pids
  BY DEF Failures, FailedPids
<1>2. cs \subseteq Contexts
  BY <1>1 DEF MainRecord, Contexts, EndedBy
<1> HIDE DEF pids, cs
<1>3. PICK a : a = Abort(m, cs)
  OBVIOUS
<1>4. /\ a \in MainRecord
      /\ a.made = m.made /\ a.watched = m.watched /\ a.owner = m.owner /\ a.permit = m.permit
      /\ a.queue = m.queue /\ a.watching = m.watching /\ a.outlived = m.outlived
      /\ a.lame = m.lame \cup {c \in cs : m.step[c] \in Midstep}
      /\ \A c \in Contexts : a.step[c] = IF c \in cs /\ m.step[c] \notin Midstep THEN "gone" ELSE m.step[c]
  BY <1>2, <1>3, AbortEnds
<1>5. PICK F \in SUBSET Pids : F = {r.pid : r \in {x \in results : x.trusted}}
  BY DEF Failures
<1>6. PICK O \in SUBSET Pids : O = {p \in pids : m.watching[p] \notin {0} \cup FailuresOf(p)}
  BY <1>1
<1>7. PICK W \in [Pids -> 0..MaxContexts] : W = [p \in Pids |-> IF p \in pids THEN 0 ELSE a.watching[p]]
  <2>1. \A p \in Pids : (IF p \in pids THEN 0 ELSE a.watching[p]) \in 0..MaxContexts
    BY <1>4, AliasWatchAssumption DEF MainRecord
  <2>2. QED
    BY <2>1
<1>8. PICK D \in [Mirrored -> Pids \cup {0}] : D = [e \in Mirrored |-> IF a.pidOf[e] \in pids THEN 0 ELSE a.pidOf[e]]
  <2>1. \A e \in Mirrored : (IF a.pidOf[e] \in pids THEN 0 ELSE a.pidOf[e]) \in Pids \cup {0}
    BY <1>4 DEF MainRecord
  <2>2. QED
    BY <2>1
<1>9. Applied(m) = [a EXCEPT !.watching = W, !.failed = a.failed \cup F, !.pidOf = D,
                             !.outlived = a.outlived \cup O]
  BY <1>3, <1>5, <1>6, <1>7, <1>8 DEF Applied, pids, cs, FailedPids, EndedBy
<1>10. a.failed \cup F \in SUBSET Pids /\ a.outlived \cup O \in SUBSET Pids
  BY <1>4 DEF MainRecord
<1>11. Applied(m) \in MainRecord
  BY <1>4, <1>9, <1>10 DEF MainRecord
<1>12. /\ Applied(m).made = a.made /\ Applied(m).watched = a.watched
       /\ Applied(m).owner = a.owner /\ Applied(m).permit = a.permit
       /\ Applied(m).queue = a.queue /\ Applied(m).lame = a.lame /\ Applied(m).step = a.step
       /\ Applied(m).watching = W /\ Applied(m).outlived = a.outlived \cup O
  BY <1>4, <1>9 DEF MainRecord
<1>13. QED
  BY <1>1, <1>2, <1>4, <1>6, <1>7, <1>11, <1>12 DEF pids, cs

\* Registrations are numbered from one.
LEMMA ContextsAre == Contexts \subseteq Nat \ {0} /\ 0 \notin Contexts /\ 0..MaxContexts = Contexts \cup {0}
BY AliasWatchAssumption DEF Contexts

\* A registration some application has is that application's alone.
LEMMA OwnersDiffer ==
  ASSUME NEW m \in MainRecord, Registered(m), NEW p \in Pids, NEW q \in Pids,
         m.watching[p] # 0, m.watching[p] = m.watching[q]
  PROVE  p = q
BY DEF Registered

\* Applying the results leaves none to apply, and ends what they are of: the
\* observer of one that failed is not there, and of one that did not the
\* application is noted.
LEMMA AppliedKeeps ==
  ASSUME NEW m \in MainRecord, results \subseteq Failures, NEW o, NEW t, NEW k,
         Good(m, results, o, t, k)
  PROVE  Applied(m) \in MainRecord /\ Good(Applied(m), {}, o, t, k)
<1>1. PICK pids : pids = FailedPids
  OBVIOUS
<1>2. PICK cs : cs = EndedBy(m)
  OBVIOUS
<1>3. PICK a : a = Applied(m)
  OBVIOUS
<1>4. /\ pids \subseteq Pids /\ cs \subseteq Contexts /\ a \in MainRecord
      /\ a.made = m.made /\ a.watched = m.watched /\ a.owner = m.owner /\ a.permit = m.permit
      /\ a.queue = m.queue
      /\ a.lame = m.lame \cup {c \in cs : m.step[c] \in Midstep}
      /\ \A c \in Contexts : a.step[c] = IF c \in cs /\ m.step[c] \notin Midstep THEN "gone" ELSE m.step[c]
      /\ \A p \in Pids : a.watching[p] = IF p \in pids THEN 0 ELSE m.watching[p]
      /\ a.outlived = m.outlived \cup {p \in pids : m.watching[p] \notin {0} \cup FailuresOf(p)}
  BY <1>1, <1>2, <1>3, AppliedIs
<1>5. /\ Registered(m) /\ Queued(m) /\ Emptied(m) /\ AnsweredFor(m, results)
      /\ \A p \in Pids : p \notin m.outlived => Follows(m, results, o, t, k, p)
  BY DEF Good
<1>6. \A p \in Pids : m.watching[p] \in Contexts \cup {0}
  BY ContextsAre DEF MainRecord
<1>7. \A c \in cs : c \in Contexts /\ \E p \in pids : c = m.watching[p] /\ c # 0
  BY <1>1, <1>2, <1>4 DEF EndedBy
<1>8. \A c \in cs : c <= m.made /\ m.step[c] # "none" /\ m.owner[c] \in pids /\ m.watching[m.owner[c]] = c
  <2>1. SUFFICES ASSUME NEW c \in cs PROVE c <= m.made /\ m.step[c] # "none" /\ m.owner[c] \in pids /\ m.watching[m.owner[c]] = c
    OBVIOUS
  <2>2. PICK p \in pids : c = m.watching[p] /\ c # 0
    BY <1>7
  <2>3. c <= m.made /\ m.owner[c] = p
    BY <2>2, <1>4, <1>5 DEF Registered
  <2>4. m.step[c] # "none"
    BY <2>3, <1>5, <1>7, ContextsAre DEF Registered, MainRecord
  <2>5. QED
    BY <2>2, <2>3, <2>4
<1>9. \A p \in Pids : p \notin pids => m.watching[p] \notin cs
  <2>1. SUFFICES ASSUME NEW p \in Pids, m.watching[p] \in cs PROVE p \in pids
    OBVIOUS
  <2>2. m.watching[p] # 0
    BY <2>1, <1>7
  <2>3. m.owner[m.watching[p]] = p
    BY <2>2, <1>5 DEF Registered
  <2>4. QED
    BY <2>1, <2>3, <1>8
<1>10. Registered(a)
  <2>1. \A c \in Contexts : IF c > a.made THEN a.step[c] = "none" /\ c \notin a.lame
                            ELSE a.step[c] # "none" /\ a.owner[c] \in Pids
    <3>1. SUFFICES ASSUME NEW c \in Contexts
                   PROVE  IF c > m.made THEN a.step[c] = "none" /\ c \notin a.lame
                          ELSE a.step[c] # "none" /\ m.owner[c] \in Pids
      BY <1>4
    <3>2. c > m.made => c \notin cs
      BY <1>8, ContextsAre DEF MainRecord
    <3>3. QED
      BY <3>2, <1>4, <1>5 DEF Registered
  <2>2. ASSUME NEW p \in Pids, a.watching[p] # 0
        PROVE  /\ a.watching[p] <= a.made /\ a.owner[a.watching[p]] = p
               /\ a.watching[p] \notin a.lame /\ a.watched[a.watching[p]] # NoOne
    <3>1. p \notin pids /\ a.watching[p] = m.watching[p]
      BY <2>2, <1>4
    <3>2. QED
      BY <2>2, <3>1, <1>4, <1>5, <1>9 DEF Registered
  <2>3. QED
    BY <2>1, <2>2 DEF Registered
<1>11. Queued(a)
  <2>1. Owned(a.queue, a.owner)
    BY <1>4, <1>5 DEF Queued
  <2>2. ASSUME NEW c \in Contexts
        PROVE  /\ MakesOnce(a.queue, c)
               /\ HasCreate(a.queue, c) => c <= a.made /\ a.step[c] \in {"creating", "gone"}
    BY <1>4, <1>5 DEF Queued
  <2>3. QED
    BY <2>1, <2>2 DEF Queued
<1>12. \A r \in results : r \in Failures /\ r.pid \in pids /\ r.of \in Contexts
  BY <1>1 DEF Failures, FailedPids
<1>13. \A p \in pids : p \notin a.outlived /\ m.watching[p] # 0 =>
         m.step[m.watching[p]] = "gone" /\ p \notin m.outlived
  <2>1. SUFFICES ASSUME NEW p \in pids, p \notin a.outlived, m.watching[p] # 0
                 PROVE  m.step[m.watching[p]] = "gone" /\ p \notin m.outlived
    OBVIOUS
  <2>2. m.watching[p] \in FailuresOf(p) /\ p \notin m.outlived
    BY <2>1, <1>4
  <2>3. PICK r \in results : r.of = m.watching[p]
    BY <2>2 DEF FailuresOf
  <2>4. QED
    BY <2>2, <2>3, <1>5 DEF AnsweredFor
<1>14. Emptied(a)
  <2>1. SUFFICES ASSUME NEW c \in Contexts, NEW p \in Pids,
                        a.owner[c] = p, a.watching[p] # c, p \notin a.outlived,
                        a.step[c] = "spawned" \/ HasCreate(a.queue, c)
                 PROVE  a.watched[c] = NoOne
    BY DEF Emptied
  <2>2. m.owner[c] = p /\ p \notin m.outlived /\ (m.step[c] = "spawned" \/ HasCreate(m.queue, c))
    BY <2>1, <1>4
  <2>3. m.watching[p] # c
    <3>1. SUFFICES ASSUME m.watching[p] = c PROVE FALSE
      OBVIOUS
    <3>2. p \in pids /\ c # 0
      BY <2>1, <3>1, <1>4, ContextsAre
    <3>3. m.step[c] = "gone"
      BY <3>1, <3>2, <2>1, <1>13
    <3>4. HasCreate(m.queue, c) <=> m.step[c] = "creating"
      BY <2>2, <3>1, <3>2, <1>5 DEF Follows, Stands
    <3>5. QED
      BY <2>2, <3>3, <3>4
  <2>4. QED
    BY <2>2, <2>3, <1>4, <1>5 DEF Emptied
<1>15. ASSUME NEW p \in Pids, p \notin a.outlived
       PROVE  Follows(a, {}, o, t, k, p)
  <2>1. p \notin m.outlived
    BY <1>4, <1>15
  <2>2. CASE p \in pids
    <3>1. a.watching[p] = 0
      BY <2>2, <1>4
    <3>2. o[p] = 0 \/ HasDrop(m.queue, p)
      <4>1. CASE m.watching[p] = 0
        BY <4>1, <2>1, <1>5 DEF Follows
      <4>2. CASE m.watching[p] # 0
        <5>1. m.step[m.watching[p]] = "gone"
          BY <4>2, <2>2, <1>13, <1>15
        <5>2. QED
          BY <4>2, <5>1, <2>1, <1>5 DEF Follows, Stands
      <4>3. QED
        BY <4>1, <4>2
    <3>3. QED
      BY <3>1, <3>2, <1>4 DEF Follows
  <2>3. CASE p \notin pids
    <3>1. a.watching[p] = m.watching[p]
      BY <2>3, <1>4
    <3>2. CASE m.watching[p] = 0
      BY <3>1, <3>2, <2>1, <1>4, <1>5 DEF Follows
    <3>3. CASE m.watching[p] # 0
      <4>1. PICK w \in Contexts : w = m.watching[p]
        BY <3>3, <1>6
      <4>2. Stands(m, results, o, t, k, p, w)
        BY <4>1, <3>3, <2>1, <1>5 DEF Follows
      <4>3. a.step[w] = m.step[w] /\ m.owner[w] = p
        BY <4>1, <3>3, <2>3, <1>4, <1>5, <1>9 DEF Registered
      <4>4. m.step[w] # "gone"
        <5>1. SUFFICES ASSUME NEW r \in results, r.of = w PROVE FALSE
          BY <4>2 DEF Stands
        <5>2. r.pid = p
          BY <5>1, <4>3, <1>5 DEF AnsweredFor
        <5>3. QED
          BY <5>2, <2>3, <1>12
      <4>5. Stands(a, {}, o, t, k, p, w)
        BY <4>2, <4>3, <4>4, <1>4 DEF Stands
      <4>6. QED
        BY <4>1, <4>5, <3>1, <3>3 DEF Follows
    <3>4. QED
      BY <3>2, <3>3
  <2>4. QED
    BY <2>2, <2>3
<1>16. AnsweredFor(a, {})
  BY DEF AnsweredFor
<1>17. QED
  BY <1>3, <1>4, <1>10, <1>11, <1>14, <1>15, <1>16 DEF Good

-----------------------------------------------------------------------------
\* What an alias that is not the last leaves: a registration to be matched again.
LEMMA WatchedChangeKeeps ==
  ASSUME NEW m \in MainRecord, NEW R, NEW o, NEW t, NEW k, Good(m, R, o, t, k),
         NEW p \in Pids, NEW c \in Contexts, m.watching[p] = c, NEW e \in Mirrored, NEW f \in Frames \cup {0},
         [m.watched[c] EXCEPT ![e] = f] # NoOne
  PROVE  Rematch(m, c, e, f) \in MainRecord /\ Good(Rematch(m, c, e, f), R, o, t, k)
<1>1. c = m.watching[p] /\ m.watching[p] # 0
  BY ContextsAre
<1>2. PICK n : n = Rematch(m, c, e, f)
  OBVIOUS
<1>3. m.watched[c] \in Watchers /\ [m.watched[c] EXCEPT ![e] = f] \in Watchers
  BY DEF MainRecord, Watchers
<1>4. PICK W \in [Contexts -> Watchers] :
        /\ W = [m.watched EXCEPT ![c] = [m.watched[c] EXCEPT ![e] = f]]
        /\ \A d \in Contexts : d # c => W[d] = m.watched[d]
        /\ W[c] # NoOne
  <2> DEFINE X == [m.watched EXCEPT ![c] = [m.watched[c] EXCEPT ![e] = f]]
  <2>1. m.watched \in [Contexts -> Watchers]
    BY DEF MainRecord
  <2>2. X \in [Contexts -> Watchers] /\ X[c] = [m.watched[c] EXCEPT ![e] = f]
        /\ \A d \in Contexts : d # c => X[d] = m.watched[d]
    BY <2>1, <1>3
  <2>3. X[c] # NoOne
    BY <2>2, <1>1
  <2>4. QED
    BY <2>2, <2>3
<1>5. n = [m EXCEPT !.watched = W, !.permit = m.permit \cup {c}]
  BY <1>2, <1>4 DEF MainRecord, Rematch
<1>6. /\ n \in MainRecord
      /\ n.made = m.made /\ n.watching = m.watching /\ n.owner = m.owner /\ n.step = m.step
      /\ n.lame = m.lame /\ n.queue = m.queue /\ n.outlived = m.outlived
      /\ n.watched = W /\ n.permit = m.permit \cup {c}
  BY <1>4, <1>5 DEF MainRecord
<1>7. /\ Registered(m) /\ Queued(m) /\ Emptied(m) /\ AnsweredFor(m, R)
      /\ \A q \in Pids : q \notin m.outlived => Follows(m, R, o, t, k, q)
  BY DEF Good
<1>8. m.owner[c] = p
  BY <1>1, <1>7 DEF Registered
<1>9. \A q \in Pids : m.watching[q] # 0 => m.watching[q] \in Contexts
  BY ContextsAre DEF MainRecord
<1>10. Registered(n)
  <2>1. ASSUME NEW q \in Pids, m.watching[q] # 0
        PROVE  W[m.watching[q]] # NoOne
    <3>1. m.watching[q] \in Contexts /\ m.watched[m.watching[q]] # NoOne
      BY <2>1, <1>7, <1>9 DEF Registered
    <3>2. QED
      BY <3>1, <1>4
  <2>2. QED
    BY <2>1, <1>6, <1>7 DEF Registered
<1>11. Queued(n) /\ AnsweredFor(n, R)
  BY <1>6, <1>7 DEF Queued, AnsweredFor
<1>12. Emptied(n)
  <2>1. SUFFICES ASSUME NEW d \in Contexts, NEW q \in Pids,
                        m.owner[d] = q, m.watching[q] # d, q \notin m.outlived,
                        m.step[d] = "spawned" \/ HasCreate(m.queue, d)
                 PROVE  W[d] = NoOne
    BY <1>6 DEF Emptied
  <2>2. d # c
    BY <2>1, <1>1, <1>8
  <2>3. QED
    BY <2>1, <2>2, <1>4, <1>7 DEF Emptied
<1>13. ASSUME NEW q \in Pids, q \notin m.outlived
       PROVE  Follows(n, R, o, t, k, q)
  <2>1. Follows(m, R, o, t, k, q)
    BY <1>7, <1>13
  <2>2. CASE m.watching[q] = 0
    BY <2>1, <2>2, <1>6 DEF Follows
  <2>3. CASE m.watching[q] # 0
    <3>1. PICK w \in Contexts : w = m.watching[q]
      BY <2>3, <1>9
    <3>2. Stands(m, R, o, t, k, q, w)
      BY <2>1, <2>3, <3>1 DEF Follows
    <3>3. w = c \/ W[w] = m.watched[w]
      BY <1>4
    <3>4. Stands(n, R, o, t, k, q, w)
      BY <3>2, <3>3, <1>6 DEF Stands
    <3>5. QED
      BY <3>1, <3>4, <2>3, <1>6 DEF Follows
  <2>4. QED
    BY <2>2, <2>3
<1>14. n \in MainRecord /\ Good(n, R, o, t, k)
  BY <1>6, <1>10, <1>11, <1>12, <1>13 DEF Good
<1>15. QED
  BY <1>1, <1>2, <1>14

\* What the last alias leaves: no registration, and an observer to be dropped.
LEMMA EndKeeps ==
  ASSUME NEW m \in MainRecord, NEW R, NEW o, NEW t, NEW k, Good(m, R, o, t, k),
         NEW p \in Pids, NEW c \in Contexts, m.watching[p] = c, NEW e \in Mirrored,
         [m.watched[c] EXCEPT ![e] = 0] = NoOne
  PROVE  Close(m, c, e, p) \in MainRecord /\ Good(Close(m, c, e, p), R, o, t, k)
<1>1. c = m.watching[p] /\ m.watching[p] # 0
  BY ContextsAre
<1>2. PICK W \in [Contexts -> Watchers] :
        /\ W = [m.watched EXCEPT ![c] = [m.watched[c] EXCEPT ![e] = 0]]
        /\ \A d \in Contexts : d # c => W[d] = m.watched[d]
        /\ W[c] = NoOne
  <2>1. m.watched[c] \in Watchers /\ [m.watched[c] EXCEPT ![e] = 0] \in Watchers
    BY DEF MainRecord, Watchers
  <2> DEFINE X == [m.watched EXCEPT ![c] = [m.watched[c] EXCEPT ![e] = 0]]
  <2>2. m.watched \in [Contexts -> Watchers]
    BY DEF MainRecord
  <2>3. X \in [Contexts -> Watchers] /\ X[c] = [m.watched[c] EXCEPT ![e] = 0]
        /\ \A d \in Contexts : d # c => X[d] = m.watched[d]
    BY <2>1, <2>2
  <2>4. X[c] = NoOne
    BY <2>3, <1>1
  <2>5. QED
    BY <2>3, <2>4
<1>3. PICK l : l = [m EXCEPT !.watched = W]
  OBVIOUS
<1>4. /\ l \in MainRecord /\ l.watched = W
      /\ l.made = m.made /\ l.watching = m.watching /\ l.owner = m.owner /\ l.step = m.step
      /\ l.lame = m.lame /\ l.queue = m.queue /\ l.outlived = m.outlived /\ l.permit = m.permit
  BY <1>2, <1>3 DEF MainRecord
<1>5. PICK a : a = Abort(l, {c})
  OBVIOUS
<1>6. {c} \in SUBSET Contexts
  OBVIOUS
<1>7. /\ a \in MainRecord /\ a.watched = W
      /\ a.made = m.made /\ a.watching = m.watching /\ a.owner = m.owner
      /\ a.queue = m.queue /\ a.outlived = m.outlived /\ a.permit = m.permit
      /\ \A d \in Contexts : d # c => a.step[d] = m.step[d]
      /\ a.step[c] = m.step[c] \/ a.step[c] = "gone"
      /\ m.step[c] = "spawned" => c \in a.lame
      /\ \A d : d \in a.lame => d \in m.lame \/ d = c
      /\ a.step[c] = "creating" => FALSE
  BY <1>4, <1>5, <1>6, AbortEnds DEF Midstep
<1>8. PICK x \in Errands : x = Errand("drop", p, 0) /\ x.errand = "drop" /\ x.pid = p
  <2>1. 0 \in 0..MaxContexts
    BY AliasWatchAssumption
  <2>2. Errand("drop", p, 0) \in Errands
    BY <2>1 DEF Errand, Errands
  <2>3. QED
    BY <2>2 DEF Errand
<1>9. PICK V \in [Pids -> 0..MaxContexts] :
        V[p] = 0 /\ V = [m.watching EXCEPT ![p] = 0] /\ \A q \in Pids : q # p => V[q] = m.watching[q]
  <2>1. 0 \in 0..MaxContexts /\ m.watching \in [Pids -> 0..MaxContexts]
    BY AliasWatchAssumption DEF MainRecord
  <2> DEFINE X == [m.watching EXCEPT ![p] = 0]
  <2>2. X \in [Pids -> 0..MaxContexts] /\ X[p] = 0 /\ \A q \in Pids : q # p => X[q] = m.watching[q]
    BY <2>1
  <2>3. QED
    BY <2>2
<1>10. m.queue \in Seq(Errands) /\ Append(m.queue, x) \in Seq(Errands)
  BY Sent DEF MainRecord
<1>11. PICK n : n = [a EXCEPT !.watching = V, !.queue = Append(m.queue, x)]
  OBVIOUS
<1>12. /\ n \in MainRecord /\ n.watched = W /\ n.watching = V /\ n.queue = Append(m.queue, x)
       /\ n.made = m.made /\ n.owner = m.owner /\ n.step = a.step /\ n.lame = a.lame
       /\ n.outlived = m.outlived /\ n.permit = m.permit
  BY <1>7, <1>9, <1>10, <1>11 DEF MainRecord
<1>13. /\ Registered(m) /\ Queued(m) /\ Emptied(m) /\ AnsweredFor(m, R)
       /\ \A q \in Pids : q \notin m.outlived => Follows(m, R, o, t, k, q)
  BY DEF Good
<1>14. m.owner[c] = p /\ c <= m.made /\ m.step[c] # "none"
  <2>1. m.owner[c] = p /\ c <= m.made
    BY <1>1, <1>13 DEF Registered
  <2>2. QED
    BY <2>1, <1>13, ContextsAre DEF Registered, MainRecord
<1>15. \A q \in Pids : q # p /\ m.watching[q] # 0 => m.watching[q] \in Contexts \ {c}
  BY <1>13, <1>14, ContextsAre DEF MainRecord, Registered
<1>16. /\ \A d : HasCreate(n.queue, d) <=> HasCreate(m.queue, d)
       /\ \A q : HasDrop(n.queue, q) <=> HasDrop(m.queue, q) \/ q = p
       /\ \A q : HasResync(n.queue, q) <=> HasResync(m.queue, q)
  BY <1>8, <1>10, <1>12, SentAdds
<1>17. /\ \A d, q : DropsFirst(m.queue, d, q) /\ q # p => DropsFirst(n.queue, d, q)
       /\ \A d : MakesOnce(m.queue, d) => MakesOnce(n.queue, d)
       /\ \A w : Owned(m.queue, w) => Owned(n.queue, w)
  BY <1>8, <1>10, <1>12, SentKeepsOrder
<1>18. Registered(n)
  <2>1. \A d \in Contexts : IF d > n.made THEN n.step[d] = "none" /\ d \notin n.lame
                            ELSE n.step[d] # "none" /\ n.owner[d] \in Pids
    <3>1. SUFFICES ASSUME NEW d \in Contexts
                   PROVE  IF d > m.made THEN a.step[d] = "none" /\ d \notin a.lame
                          ELSE a.step[d] # "none" /\ m.owner[d] \in Pids
      BY <1>12
    <3>2. d > m.made => d # c
      BY <1>14, ContextsAre DEF MainRecord
    <3>3. QED
      BY <3>2, <1>7, <1>13, <1>14 DEF Registered
  <2>2. ASSUME NEW q \in Pids, V[q] # 0
        PROVE  /\ V[q] <= m.made /\ m.owner[V[q]] = q
               /\ V[q] \notin a.lame /\ W[V[q]] # NoOne
    <3>1. q # p /\ V[q] = m.watching[q]
      BY <2>2, <1>9
    <3>2. V[q] \in Contexts /\ V[q] # c
      BY <2>2, <3>1, <1>15
    <3>3. QED
      BY <2>2, <3>1, <3>2, <1>2, <1>7, <1>13 DEF Registered
  <2>3. QED
    BY <2>1, <2>2, <1>12 DEF Registered
<1>19. Queued(n)
  <2>1. Owned(n.queue, n.owner)
    BY <1>12, <1>13, <1>17 DEF Queued
  <2>2. ASSUME NEW d \in Contexts
        PROVE  /\ MakesOnce(n.queue, d)
               /\ HasCreate(n.queue, d) => d <= n.made /\ n.step[d] \in {"creating", "gone"}
    <3>1. /\ MakesOnce(m.queue, d)
          /\ HasCreate(m.queue, d) => d <= m.made /\ m.step[d] \in {"creating", "gone"}
      BY <1>13 DEF Queued
    <3>2. a.step[d] = m.step[d] \/ a.step[d] = "gone"
      BY <1>7
    <3>3. QED
      BY <3>1, <3>2, <1>12, <1>16, <1>17
  <2>3. QED
    BY <2>1, <2>2 DEF Queued
<1>20. Emptied(n)
  <2>1. SUFFICES ASSUME NEW d \in Contexts, NEW q \in Pids,
                        m.owner[d] = q, V[q] # d, q \notin m.outlived,
                        a.step[d] = "spawned" \/ HasCreate(m.queue, d)
                 PROVE  W[d] = NoOne
    BY <1>12, <1>16 DEF Emptied
  <2>2. CASE d = c
    BY <2>2, <1>2
  <2>3. CASE d # c
    <3>1. m.watching[q] # d
      BY <2>1, <2>3, <1>1, <1>9
    <3>2. m.step[d] = "spawned" \/ HasCreate(m.queue, d)
      BY <2>1, <2>3, <1>7
    <3>3. QED
      BY <2>1, <2>3, <3>1, <3>2, <1>2, <1>13 DEF Emptied
  <2>4. QED
    BY <2>2, <2>3
<1>21. ASSUME NEW q \in Pids, q \notin m.outlived
       PROVE  Follows(n, R, o, t, k, q)
  <2>1. Follows(m, R, o, t, k, q)
    BY <1>13, <1>21
  <2>2. CASE q = p
    BY <2>2, <1>9, <1>12, <1>16 DEF Follows
  <2>3. CASE q # p /\ m.watching[q] = 0
    BY <2>1, <2>3, <1>9, <1>12, <1>16 DEF Follows
  <2>4. CASE q # p /\ m.watching[q] # 0
    <3>1. PICK w \in Contexts \ {c} : w = m.watching[q] /\ V[q] = w
      BY <2>4, <1>9, <1>15
    <3>2. Stands(m, R, o, t, k, q, w)
      BY <2>1, <2>4, <3>1 DEF Follows
    <3>3. W[w] = m.watched[w] /\ a.step[w] = m.step[w]
      BY <1>2, <1>7
    <3>4. Stands(n, R, o, t, k, q, w)
      BY <2>4, <3>2, <3>3, <1>12, <1>16, <1>17 DEF Stands
    <3>5. QED
      BY <3>1, <3>4, <2>4, <1>12 DEF Follows
  <2>5. QED
    BY <2>2, <2>3, <2>4
<1>22. ASSUME NEW r \in R
       PROVE  r.of \in Contexts /\ n.step[r.of] = "gone" /\ n.owner[r.of] = r.pid
  <2>1. r.of \in Contexts /\ m.step[r.of] = "gone" /\ m.owner[r.of] = r.pid
    BY <1>13, <1>22 DEF AnsweredFor
  <2>2. QED
    BY <2>1, <1>7, <1>12
<1>23. n \in MainRecord /\ Good(n, R, o, t, k)
  BY <1>12, <1>18, <1>19, <1>20, <1>21, <1>22 DEF Good, AnsweredFor
<1>24. n = Close(m, c, e, p)
  <2>1. l = [m EXCEPT !.watched[c][e] = 0]
    BY <1>2, <1>3 DEF MainRecord
  <2>2. Close(m, c, e, p) = [a EXCEPT !.watching[p] = 0, !.queue = Append(@, Errand("drop", p, 0))]
    BY <2>1, <1>5 DEF Close
  <2>3. n = [a EXCEPT !.watching = [m.watching EXCEPT ![p] = 0], !.queue = Append(m.queue, Errand("drop", p, 0))]
    BY <1>8, <1>9, <1>11
  <2>4. QED
    BY <2>2, <2>3, <1>7 DEF MainRecord
<1>25. QED
  BY <1>1, <1>23, <1>24

\* `detach`, whichever it is.
LEMMA DetachKeeps ==
  ASSUME NEW m \in MainRecord, NEW R, NEW o, NEW t, NEW k, Good(m, R, o, t, k),
         NEW p \in Pids, NEW e \in Mirrored
  PROVE  Detach(m, e, p) \in MainRecord /\ Good(Detach(m, e, p), R, o, t, k)
<1>1. CASE m.watching[p] = 0
  BY <1>1 DEF Detach
<1>2. CASE m.watching[p] # 0
  <2>1. PICK c \in Contexts : c = m.watching[p]
    BY <1>2, ContextsAre DEF MainRecord
  <2>2. CASE [m.watched[c] EXCEPT ![e] = 0] = NoOne
    <3>1. Detach(m, e, p) = Close(m, c, e, p)
      BY <1>2, <2>1, <2>2 DEF Detach
    <3>2. QED
      BY <1>2, <2>1, <2>2, <3>1, EndKeeps
  <2>3. CASE [m.watched[c] EXCEPT ![e] = 0] # NoOne
    <3>1. Detach(m, e, p) = Rematch(m, c, e, 0)
      BY <1>2, <2>1, <2>3 DEF Detach
    <3>2. QED
      BY <1>2, <2>1, <2>3, <3>1, WatchedChangeKeeps
  <2>4. QED
    BY <2>2, <2>3
<1>3. QED
  BY <1>1, <1>2

\* Which application an alias is of is of no matter to the observers.
LEMMA PidChangeKeeps ==
  ASSUME NEW m \in MainRecord, NEW R, NEW o, NEW t, NEW k, Good(m, R, o, t, k),
         NEW p \in Pids \cup {0}, NEW e \in Mirrored
  PROVE  [m EXCEPT !.pidOf[e] = p] \in MainRecord /\ Good([m EXCEPT !.pidOf[e] = p], R, o, t, k)
<1>1. PICK D : D = [m.pidOf EXCEPT ![e] = p]
  OBVIOUS
<1>2. PICK n : n = [m EXCEPT !.pidOf[e] = p]
  OBVIOUS
<1>3. n = [m EXCEPT !.pidOf = D] /\ D \in [Mirrored -> Pids \cup {0}]
  BY <1>1, <1>2 DEF MainRecord
<1>4. /\ n \in MainRecord /\ n.made = m.made /\ n.watching = m.watching /\ n.watched = m.watched
      /\ n.owner = m.owner /\ n.step = m.step /\ n.lame = m.lame /\ n.permit = m.permit
      /\ n.queue = m.queue /\ n.outlived = m.outlived
  BY <1>3 DEF MainRecord
<1>5. Registered(n) /\ Queued(n) /\ Emptied(n) /\ AnsweredFor(n, R)
  BY <1>4 DEF Good, Registered, Queued, Emptied, AnsweredFor
<1>6. \A q \in Pids : q \notin n.outlived => Follows(n, R, o, t, k, q)
  BY <1>4 DEF Good, Follows, Stands
<1>7. QED
  BY <1>2, <1>4, <1>5, <1>6 DEF Good

\* An alias that moved is detached from where it was.
LEMMA MovedKeeps ==
  ASSUME NEW m \in MainRecord, NEW R, NEW o, NEW t, NEW k, Good(m, R, o, t, k),
         NEW p \in Pids \cup {0}, NEW e \in Mirrored
  PROVE  Moved(m, e, p) \in MainRecord /\ Good(Moved(m, e, p), R, o, t, k)
<1>1. CASE m.pidOf[e] = p
  BY <1>1 DEF Moved
<1>2. CASE m.pidOf[e] # p
  <2>1. PICK d : d = IF m.pidOf[e] = 0 THEN m ELSE Detach(m, e, m.pidOf[e])
    OBVIOUS
  <2>2. m.pidOf[e] \in Pids \cup {0}
    BY DEF MainRecord
  <2>3. d \in MainRecord /\ Good(d, R, o, t, k)
    BY <2>1, <2>2, DetachKeeps
  <2>4. Moved(m, e, p) = [d EXCEPT !.pidOf[e] = p]
    BY <1>2, <2>1 DEF Moved
  <2>5. QED
    BY <2>3, <2>4, PidChangeKeeps
<1>3. QED
  BY <1>1, <1>2

\* What is made for one owner is made for the other, if they agree.
LEMMA OwnedStill ==
  ASSUME NEW q \in Seq(Errands), NEW u, NEW v, Owned(q, u),
         \A c \in Contexts : HasCreate(q, c) => v[c] = u[c]
  PROVE  Owned(q, v)
<1>1. SUFFICES ASSUME NEW i \in 1 .. Len(q), q[i].errand = "create"
               PROVE  q[i].context \in Contexts /\ q[i].pid = v[q[i].context]
  BY DEF Owned
<1>2. q[i].context \in Contexts /\ q[i].pid = u[q[i].context]
  BY <1>1 DEF Owned
<1>3. HasCreate(q, q[i].context)
  BY <1>1 DEF HasCreate, Makes
<1>4. QED
  BY <1>2, <1>3

\* A new registration begins without an observer, or with one to be dropped.
LEMMA SeedKeeps ==
  ASSUME NEW m \in MainRecord, NEW R, NEW o, NEW t, NEW k, Good(m, R, o, t, k),
         NEW p \in Pids, NEW e \in Mirrored, NEW f \in Frames,
         m.watching[p] = 0, m.made < MaxContexts
  PROVE  Seed(m, e, p, f) \in MainRecord /\ Good(Seed(m, e, p, f), R, o, t, k)
<1>1. PICK c \in Contexts : c = m.made + 1 /\ c > m.made /\ c # 0
  BY AliasWatchAssumption DEF MainRecord, Contexts
<1>2. PICK Y \in Watchers : Y = [NoOne EXCEPT ![e] = f] /\ Y # NoOne
  <2>1. NoOne \in Watchers /\ f # 0 /\ NoOne[e] = 0
    BY AliasWatchAssumption DEF NoOne, Watchers
  <2>2. [NoOne EXCEPT ![e] = f] \in Watchers /\ [NoOne EXCEPT ![e] = f][e] = f
    BY <2>1 DEF Watchers
  <2>3. QED
    BY <2>1, <2>2
<1>3. PICK W : W = [m.watched EXCEPT ![c] = Y]
  OBVIOUS
<1>4. W \in [Contexts -> Watchers] /\ W[c] = Y /\ \A d \in Contexts : d # c => W[d] = m.watched[d]
  BY <1>3 DEF MainRecord
<1>5. PICK V : V = [m.watching EXCEPT ![p] = c]
  OBVIOUS
<1>6. V \in [Pids -> 0..MaxContexts] /\ V[p] = c /\ \A q \in Pids : q # p => V[q] = m.watching[q]
  BY <1>5, ContextsAre DEF MainRecord
<1>7. PICK O : O = [m.owner EXCEPT ![c] = p]
  OBVIOUS
<1>8. O \in [Contexts -> Pids \cup {0}] /\ O[c] = p /\ \A d \in Contexts : d # c => O[d] = m.owner[d]
  BY <1>7 DEF MainRecord
<1>9. PICK S : S = [m.step EXCEPT ![c] = "spawned"]
  OBVIOUS
<1>10. S \in [Contexts -> Steps] /\ S[c] = "spawned" /\ \A d \in Contexts : d # c => S[d] = m.step[d]
  BY <1>9 DEF MainRecord, Steps
<1>11. PICK n : n = Seed(m, e, p, f)
  OBVIOUS
<1>12. n = [m EXCEPT !.made = c, !.watching = V, !.watched = W, !.owner = O, !.step = S]
  BY <1>1, <1>2, <1>3, <1>5, <1>7, <1>9, <1>11 DEF Seed, MainRecord
<1>13. /\ n \in MainRecord /\ n.made = c /\ n.watching = V /\ n.watched = W /\ n.owner = O
       /\ n.step = S /\ n.lame = m.lame /\ n.queue = m.queue /\ n.permit = m.permit
       /\ n.outlived = m.outlived
  <2>1. c \in 0..MaxContexts
    BY ContextsAre
  <2>2. QED
    BY <2>1, <1>4, <1>6, <1>8, <1>10, <1>12 DEF MainRecord
<1>14. /\ Registered(m) /\ Queued(m) /\ Emptied(m) /\ AnsweredFor(m, R)
       /\ \A q \in Pids : q \notin m.outlived => Follows(m, R, o, t, k, q)
  BY DEF Good
<1>15. m.step[c] = "none" /\ c \notin m.lame
  BY <1>1, <1>14 DEF Registered
<1>16. ~HasCreate(m.queue, c)
  BY <1>14, <1>15 DEF Queued
<1>17. m.made \in Nat /\ \A d \in Contexts : d \in Nat /\ (d > c => d > m.made) /\ (d <= m.made => d <= c)
                                         /\ (d # c /\ ~(d > c) => ~(d > m.made))
  BY <1>1, ContextsAre DEF MainRecord
<1>18. \A q \in Pids : q # p /\ m.watching[q] # 0 => m.watching[q] \in Contexts \ {c}
  <2>1. SUFFICES ASSUME NEW q \in Pids, m.watching[q] # 0 PROVE m.watching[q] \in Contexts \ {c}
    OBVIOUS
  <2>2. m.watching[q] \in Contexts /\ m.watching[q] <= m.made
    BY <2>1, <1>14, ContextsAre DEF Registered, MainRecord
  <2>3. QED
    BY <2>2, <1>1, <1>17
<1>19. Registered(n)
  <2>1. ASSUME NEW d \in Contexts
        PROVE  IF d > n.made THEN n.step[d] = "none" /\ d \notin n.lame
               ELSE n.step[d] # "none" /\ n.owner[d] \in Pids
    <3>1. CASE d = c
      BY <3>1, <1>8, <1>10, <1>13, <1>17
    <3>2. CASE d # c
      <4>1. IF d > m.made THEN m.step[d] = "none" /\ d \notin m.lame
            ELSE m.step[d] # "none" /\ m.owner[d] \in Pids
        BY <1>14 DEF Registered
      <4>2. QED
        BY <3>2, <4>1, <1>8, <1>10, <1>13, <1>17
    <3>3. QED
      BY <3>1, <3>2
  <2>2. ASSUME NEW q \in Pids, V[q] # 0
        PROVE  V[q] <= c /\ O[V[q]] = q /\ V[q] \notin m.lame /\ W[V[q]] # NoOne
    <3>1. CASE q = p
      BY <3>1, <1>2, <1>4, <1>6, <1>8, <1>15, <1>17
    <3>2. CASE q # p
      <4>1. V[q] = m.watching[q] /\ V[q] \in Contexts \ {c}
        BY <2>2, <3>2, <1>6, <1>18
      <4>2. m.watching[q] <= m.made /\ m.owner[m.watching[q]] = q
            /\ m.watching[q] \notin m.lame /\ m.watched[m.watching[q]] # NoOne
        BY <2>2, <4>1, <1>14 DEF Registered
      <4>3. QED
        BY <4>1, <4>2, <1>4, <1>8, <1>17
    <3>3. QED
      BY <3>1, <3>2
  <2>3. QED
    BY <2>1, <2>2, <1>13 DEF Registered
<1>20. Queued(n)
  <2>1. m.queue \in Seq(Errands)
    BY DEF MainRecord
  <2>2. Owned(m.queue, m.owner) /\ \A d \in Contexts : HasCreate(m.queue, d) => O[d] = m.owner[d]
    BY <1>8, <1>14, <1>16 DEF Queued
  <2>3. Owned(m.queue, O)
    BY <2>1, <2>2, OwnedStill
  <2>4. ASSUME NEW d \in Contexts
        PROVE  /\ MakesOnce(m.queue, d)
               /\ HasCreate(m.queue, d) => d <= c /\ S[d] \in {"creating", "gone"}
    BY <1>10, <1>14, <1>16, <1>17 DEF Queued
  <2>5. QED
    BY <2>3, <2>4, <1>13 DEF Queued
<1>21. Emptied(n)
  <2>1. SUFFICES ASSUME NEW d \in Contexts, NEW q \in Pids, O[d] = q, V[q] # d, q \notin m.outlived,
                        S[d] = "spawned" \/ HasCreate(m.queue, d)
                 PROVE  W[d] = NoOne
    BY <1>13 DEF Emptied
  <2>2. d # c
    BY <2>1, <1>6, <1>8
  <2>3. m.owner[d] = q /\ (m.step[d] = "spawned" \/ HasCreate(m.queue, d))
    BY <2>1, <2>2, <1>8, <1>10
  <2>4. m.watching[q] # d
    BY <2>1, <1>6, ContextsAre
  <2>5. QED
    BY <2>1, <2>2, <2>3, <2>4, <1>4, <1>14 DEF Emptied
<1>22. AnsweredFor(n, R)
  BY <1>8, <1>10, <1>13, <1>14, <1>15 DEF AnsweredFor
<1>23. ASSUME NEW q \in Pids, q \notin m.outlived
       PROVE  Follows(n, R, o, t, k, q)
  <2>1. Follows(m, R, o, t, k, q)
    BY <1>14, <1>23
  <2>2. CASE q = p
    <3>1. o[p] = 0 \/ HasDrop(m.queue, p)
      BY <2>1, <2>2 DEF Follows
    <3>2. DropsFirst(m.queue, c, p)
      BY <1>16 DEF DropsFirst, HasCreate
    <3>3. Stands(n, R, o, t, k, p, c)
      BY <3>1, <3>2, <1>10, <1>13, <1>16 DEF Stands
    <3>4. QED
      BY <2>2, <3>3, <1>1, <1>6, <1>13 DEF Follows
  <2>3. CASE q # p /\ m.watching[q] = 0
    BY <2>1, <2>3, <1>6, <1>13 DEF Follows
  <2>4. CASE q # p /\ m.watching[q] # 0
    <3>1. PICK w \in Contexts \ {c} : w = m.watching[q] /\ V[q] = w
      BY <2>4, <1>6, <1>18
    <3>2. Stands(m, R, o, t, k, q, w)
      BY <2>1, <2>4, <3>1 DEF Follows
    <3>3. W[w] = m.watched[w] /\ S[w] = m.step[w]
      BY <1>4, <1>10
    <3>4. Stands(n, R, o, t, k, q, w)
      BY <3>2, <3>3, <1>13 DEF Stands
    <3>5. QED
      BY <3>1, <3>4, <2>4, <1>13 DEF Follows
  <2>5. QED
    BY <2>2, <2>3, <2>4
<1>24. QED
  BY <1>11, <1>13, <1>19, <1>20, <1>21, <1>22, <1>23 DEF Good

\* An alias that joins a registration has it matched again.
LEMMA JoinKeeps ==
  ASSUME NEW m \in MainRecord, NEW R, NEW o, NEW t, NEW k, Good(m, R, o, t, k),
         NEW p \in Pids, NEW e \in Mirrored, NEW f \in Frames, m.watching[p] # 0
  PROVE  Join(m, e, p, f) \in MainRecord /\ Good(Join(m, e, p, f), R, o, t, k)
<1>1. PICK c \in Contexts : c = m.watching[p]
  BY ContextsAre DEF MainRecord
<1>2. CASE m.watched[c][e] = f
  BY <1>1, <1>2 DEF Join
<1>3. CASE m.watched[c][e] # f
  <2>1. [m.watched[c] EXCEPT ![e] = f] # NoOne
    <3>1. m.watched[c] \in Watchers /\ f # 0 /\ NoOne[e] = 0
      BY AliasWatchAssumption DEF MainRecord, NoOne
    <3>2. [m.watched[c] EXCEPT ![e] = f][e] = f
      BY <3>1 DEF Watchers
    <3>3. QED
      BY <3>1, <3>2
  <2>2. Join(m, e, p, f) = Rematch(m, c, e, f)
    BY <1>1, <1>3 DEF Join
  <2>3. f \in Frames \cup {0}
    OBVIOUS
  <2>4. QED
    BY <1>1, <2>1, <2>2, <2>3, WatchedChangeKeeps
<1>4. QED
  BY <1>2, <1>3

-----------------------------------------------------------------------------
\* What the main thread becomes is what it is then.
LEMMA MainBecomes ==
  ASSUME NEW M \in MainRecord, Becomes(M)
  PROVE  Main' = M
BY DEF MainRecord, Becomes, Main

\* A step of the main thread leaves the sources thread's state alone.
LEMMA MainStep ==
  ASSUME AliasInv, NEW M \in MainRecord, Becomes(M), results' \subseteq Failures,
         UNCHANGED <<observer, matched, kept>>, Good(M, results', observer, matched, kept)
  PROVE  AliasInv'
<1>1. Main' = M
  BY MainBecomes
<1>2. AliasTypes'
  BY <1>1 DEF AliasInv, AliasTypes
<1>3. Good(Main', results', observer', matched', kept')
  BY <1>1
<1>4. QED
  BY <1>2, <1>3 DEF AliasInv

\* An alias is watched where it is now.
LEMMA SyncOneKeeps ==
  ASSUME AliasInv, NEW e \in Mirrored, NEW p \in Pids \cup {0}, NEW f \in Frames, SyncOne(e, p, f)
  PROVE  AliasInv'
<1>1. /\ Main \in MainRecord /\ results \subseteq Failures
      /\ Good(Main, results, observer, matched, kept)
  BY DEF AliasInv, AliasTypes
<1>2. Applied(Main) \in MainRecord /\ Good(Applied(Main), {}, observer, matched, kept)
  BY <1>1, AppliedKeeps
<1>3. PICK m : m = Moved(Applied(Main), e, p)
  OBVIOUS
<1>4. m \in MainRecord /\ Good(m, {}, observer, matched, kept)
  BY <1>2, <1>3, MovedKeeps
<1>5. PICK M : M = IF p = 0 \/ p \in m.failed THEN m
                   ELSE IF m.watching[p] = 0 THEN Seed(m, e, p, f) ELSE Join(m, e, p, f)
  OBVIOUS
<1>6. /\ p # 0 /\ p \notin m.failed /\ m.watching[p] = 0 => m.made < MaxContexts
      /\ Becomes(M) /\ results' = {} /\ UNCHANGED <<observer, matched, kept>>
  BY <1>3, <1>5 DEF SyncOne
<1>7. M \in MainRecord /\ Good(M, {}, observer, matched, kept)
  <2>1. CASE p = 0 \/ p \in m.failed
    BY <2>1, <1>4, <1>5
  <2>2. CASE p # 0 /\ p \notin m.failed /\ m.watching[p] = 0
    <3>1. M = Seed(m, e, p, f) /\ p \in Pids /\ m.made < MaxContexts
      BY <2>2, <1>5, <1>6
    <3>2. QED
      BY <2>2, <3>1, <1>4, SeedKeeps
  <2>3. CASE p # 0 /\ p \notin m.failed /\ m.watching[p] # 0
    <3>1. M = Join(m, e, p, f) /\ p \in Pids
      BY <2>3, <1>5
    <3>2. QED
      BY <2>3, <3>1, <1>4, JoinKeeps
  <2>4. QED
    BY <2>1, <2>2, <2>3
<1>8. results' \subseteq Failures /\ Good(M, results', observer, matched, kept)
  BY <1>6, <1>7
<1>9. QED
  BY <1>6, <1>7, <1>8, MainStep

\* An alias that is no more is detached.
LEMMA ForgetKeeps ==
  ASSUME AliasInv, NEW e \in Mirrored, Forget(e)
  PROVE  AliasInv'
<1>1. /\ Main \in MainRecord /\ results \subseteq Failures
      /\ Good(Main, results, observer, matched, kept)
  BY DEF AliasInv, AliasTypes
<1>2. pidOf[e] \in Pids
  BY <1>1 DEF Main, MainRecord, Forget
<1>3. PICK d : d = Detach(Main, e, pidOf[e])
  OBVIOUS
<1>4. d \in MainRecord /\ Good(d, results, observer, matched, kept)
  BY <1>1, <1>2, <1>3, DetachKeeps
<1>5. 0 \in Pids \cup {0}
  OBVIOUS
<1>6. PICK M : M = [d EXCEPT !.pidOf[e] = 0]
  OBVIOUS
<1>7. M \in MainRecord /\ Good(M, results, observer, matched, kept)
  BY <1>4, <1>5, <1>6, PidChangeKeeps
<1>8. Becomes(M) /\ UNCHANGED <<observer, matched, kept, results>>
  BY <1>3, <1>6 DEF Forget
<1>9. results' \subseteq Failures /\ Good(M, results', observer, matched, kept)
  BY <1>1, <1>7, <1>8
<1>10. QED
  BY <1>7, <1>8, <1>9, MainStep

-----------------------------------------------------------------------------
\* The main thread's state, read as a record and as variables.
LEMMA MainIs ==
  /\ Main.made = made /\ Main.watching = watching /\ Main.watched = watched
  /\ Main.owner = owner /\ Main.failed = failed /\ Main.step = step /\ Main.lame = lame
  /\ Main.permit = permit /\ Main.queue = queue /\ Main.outlived = outlived /\ Main.pidOf = pidOf
BY DEF Main

\* One task's step, whichever errand it sends and whichever permit it takes.
LEMMA TaskTypes ==
  ASSUME AliasTypes, NEW c \in Contexts, NEW s \in Steps,
         step' = [step EXCEPT ![c] = s], UNCHANGED <<TaskVars, lame>>,
         queue' \in Seq(Errands), permit' \subseteq Contexts, results' \subseteq Failures
  PROVE  AliasTypes'
<1>1. /\ made \in 0..MaxContexts /\ pidOf \in [Mirrored -> Pids \cup {0}]
      /\ watching \in [Pids -> 0..MaxContexts] /\ watched \in [Contexts -> Watchers]
      /\ owner \in [Contexts -> Pids \cup {0}] /\ failed \subseteq Pids /\ step \in [Contexts -> Steps]
      /\ lame \subseteq Contexts /\ outlived \subseteq Pids
  BY MainIs DEF AliasTypes, MainRecord
<1>2. step' \in [Contexts -> Steps]
  BY <1>1
<1>3. Main' \in MainRecord
  BY <1>1, <1>2 DEF Main, MainRecord, TaskVars
<1>4. QED
  BY <1>3 DEF AliasTypes, TaskVars

\* What the invariant says of the registration an application has, when
\* another one takes a step.
LEMMA OthersStand ==
  ASSUME NEW m, NEW n, NEW R, NEW T, NEW o, NEW t, NEW k, NEW p, NEW w,
         Stands(m, R, o, t, k, p, w),
         n.step[w] = m.step[w], n.watched = m.watched,
         HasCreate(n.queue, w) <=> HasCreate(m.queue, w),
         HasDrop(n.queue, p) <=> HasDrop(m.queue, p),
         HasResync(m.queue, p) => HasResync(n.queue, p),
         DropsFirst(n.queue, w, p), w \in m.permit => w \in n.permit, R \subseteq T
  PROVE  Stands(n, T, o, t, k, p, w)
BY DEF Stands

\* A task that was ended goes.
LEMMA VanishKeeps ==
  ASSUME AliasInv, NEW c \in Contexts, Vanish(c)
  PROVE  AliasInv'
<1>1. /\ c \in lame /\ step' = [step EXCEPT ![c] = "gone"]
      /\ UNCHANGED <<TaskVars, lame, permit, queue, results>>
  BY DEF Vanish
<1>2. Main \in MainRecord /\ results \subseteq Failures /\ Good(Main, results, observer, matched, kept)
  BY DEF AliasInv, AliasTypes
<1>3. AliasTypes'
  <2>1. queue' \in Seq(Errands) /\ permit' \subseteq Contexts /\ results' \subseteq Failures /\ "gone" \in Steps
    BY <1>1, <1>2, MainIs DEF MainRecord, Steps
  <2>2. AliasTypes
    BY DEF AliasInv
  <2>3. QED
    BY <1>1, <2>1, <2>2, TaskTypes
<1>4. PICK m \in MainRecord : m = Main
  BY <1>2
<1>5. PICK n \in MainRecord : n = Main'
  BY <1>3 DEF AliasTypes
<1>6. /\ n.made = m.made /\ n.watching = m.watching /\ n.watched = m.watched /\ n.owner = m.owner
      /\ n.lame = m.lame /\ n.permit = m.permit /\ n.queue = m.queue /\ n.outlived = m.outlived
      /\ n.step = [m.step EXCEPT ![c] = "gone"] /\ c \in m.lame
  BY <1>1, <1>4, <1>5 DEF Main, TaskVars
<1>7. n.step[c] = "gone" /\ \A d \in Contexts : d # c => n.step[d] = m.step[d]
  BY <1>6 DEF MainRecord
<1>8. /\ Registered(m) /\ Queued(m) /\ Emptied(m) /\ AnsweredFor(m, results)
      /\ \A q \in Pids : q \notin m.outlived => Follows(m, results, observer, matched, kept, q)
  BY <1>2, <1>4 DEF Good
<1>9. Registered(n)
  BY <1>6, <1>7, <1>8 DEF Registered
<1>10. Queued(n)
  BY <1>6, <1>7, <1>8 DEF Queued
<1>11. Emptied(n)
  BY <1>6, <1>7, <1>8 DEF Emptied
<1>12. AnsweredFor(n, results)
  BY <1>6, <1>7, <1>8 DEF AnsweredFor
<1>13. ASSUME NEW q \in Pids, q \notin m.outlived
       PROVE  Follows(n, results, observer, matched, kept, q)
  <2>1. Follows(m, results, observer, matched, kept, q)
    BY <1>8, <1>13
  <2>2. CASE m.watching[q] = 0
    BY <2>1, <2>2, <1>6 DEF Follows
  <2>3. CASE m.watching[q] # 0
    <3>1. PICK w \in Contexts : w = m.watching[q]
      BY <2>3, ContextsAre DEF MainRecord
    <3>2. Stands(m, results, observer, matched, kept, q, w) /\ w # c
      BY <2>1, <2>3, <3>1, <1>6, <1>8 DEF Follows, Registered
    <3>3. DropsFirst(n.queue, w, q)
      BY <3>2, <1>6 DEF Stands
    <3>4. Stands(n, results, observer, matched, kept, q, w)
      BY <3>2, <3>3, <1>6, <1>7, OthersStand
    <3>5. QED
      BY <3>1, <3>4, <2>3, <1>6 DEF Follows
  <2>4. QED
    BY <2>2, <2>3
<1>14. Good(n, results, observer, matched, kept)
  BY <1>6, <1>9, <1>10, <1>11, <1>12, <1>13 DEF Good
<1>15. Good(Main', results', observer', matched', kept')
  BY <1>1, <1>5, <1>14 DEF TaskVars
<1>16. QED
  BY <1>3, <1>15 DEF AliasInv

\* A task asks for its observer.
LEMMA AskCreateKeeps ==
  ASSUME AliasInv, NEW c \in Contexts, AskCreate(c)
  PROVE  AliasInv'
<1>1. Main \in MainRecord /\ results \subseteq Failures /\ Good(Main, results, observer, matched, kept)
  BY DEF AliasInv, AliasTypes
<1>2. PICK m \in MainRecord : m = Main
  BY <1>1
<1>3. /\ Registered(m) /\ Queued(m) /\ Emptied(m) /\ AnsweredFor(m, results)
      /\ \A q \in Pids : q \notin m.outlived => Follows(m, results, observer, matched, kept, q)
  BY <1>1, <1>2 DEF Good
<1>4. m.step[c] = "spawned" /\ m.owner[c] = owner[c]
  BY <1>2 DEF AskCreate, Main
<1>5. c <= m.made /\ m.owner[c] \in Pids
  BY <1>3, <1>4, ContextsAre DEF Registered, MainRecord
<1>6. PICK x \in Errands : /\ x = Errand("create", owner[c], c)
                           /\ x.errand = "create" /\ x.pid = m.owner[c] /\ x.context = c
  <2>1. Errand("create", owner[c], c) \in Errands
    BY <1>4, <1>5, ContextsAre DEF Errand, Errands
  <2>2. QED
    BY <2>1, <1>4 DEF Errand
<1>7. PICK s \in {"gone", "creating"} : s = (IF c \in lame THEN "gone" ELSE "creating")
  OBVIOUS
<1>8. /\ step' = [step EXCEPT ![c] = s] /\ queue' = Append(queue, x)
      /\ UNCHANGED <<TaskVars, lame, permit, results>>
  BY <1>6, <1>7 DEF AskCreate, Go
<1>9. m.queue \in Seq(Errands) /\ m.queue = queue
  BY <1>2, MainIs DEF MainRecord
<1>10. AliasTypes'
  <2>1. queue' \in Seq(Errands)
    BY <1>8, <1>9, Sent
  <2>2. permit' \subseteq Contexts /\ results' \subseteq Failures /\ s \in Steps
    BY <1>1, <1>8, MainIs DEF MainRecord, Steps
  <2>3. AliasTypes
    BY DEF AliasInv
  <2>4. QED
    BY <1>8, <2>1, <2>2, <2>3, TaskTypes
<1>11. PICK n \in MainRecord : n = Main'
  BY <1>10 DEF AliasTypes
<1>12. /\ n.made = m.made /\ n.watching = m.watching /\ n.watched = m.watched /\ n.owner = m.owner
       /\ n.lame = m.lame /\ n.permit = m.permit /\ n.outlived = m.outlived
       /\ n.step = [m.step EXCEPT ![c] = s] /\ n.queue = Append(m.queue, x)
       /\ (s = "gone" <=> c \in m.lame)
  BY <1>2, <1>7, <1>8, <1>11 DEF Main, TaskVars
<1>13. n.step[c] = s /\ \A d \in Contexts : d # c => n.step[d] = m.step[d]
  BY <1>12 DEF MainRecord
<1>14. ~HasCreate(m.queue, c)
  BY <1>3, <1>4 DEF Queued
<1>15. /\ \A d : HasCreate(n.queue, d) <=> HasCreate(m.queue, d) \/ d = c
       /\ \A q : HasDrop(n.queue, q) <=> HasDrop(m.queue, q)
       /\ \A q : HasResync(n.queue, q) <=> HasResync(m.queue, q)
  BY <1>6, <1>9, <1>12, SentAdds
<1>16. /\ \A d, q : DropsFirst(m.queue, d, q) => DropsFirst(n.queue, d, q)
       /\ \A d : MakesOnce(m.queue, d) => MakesOnce(n.queue, d)
       /\ Owned(m.queue, m.owner) => Owned(n.queue, m.owner)
  <2>1. /\ \A d, q : DropsFirst(m.queue, d, q) /\ ~(x.errand = "drop" /\ x.pid = q /\ HasCreate(m.queue, d))
                        => DropsFirst(n.queue, d, q)
        /\ \A d : MakesOnce(m.queue, d) /\ ~(x.errand = "create" /\ x.context = d /\ HasCreate(m.queue, d))
                        => MakesOnce(n.queue, d)
        /\ \A o : Owned(m.queue, o) /\ (x.errand = "create" => x.context \in Contexts /\ x.pid = o[x.context])
                        => Owned(n.queue, o)
    BY <1>9, <1>12, SentKeepsOrder
  <2>2. x.errand # "drop"
    BY <1>6
  <2>3. \A d : ~(x.errand = "create" /\ x.context = d /\ HasCreate(m.queue, d))
    BY <1>6, <1>14
  <2>4. x.context \in Contexts /\ x.pid = m.owner[x.context]
    BY <1>6
  <2>5. QED
    BY <2>1, <2>2, <2>3, <2>4
<1>17. Registered(n)
  BY <1>3, <1>4, <1>12, <1>13 DEF Registered
<1>18. Queued(n)
  <2>1. Owned(n.queue, n.owner)
    BY <1>3, <1>12, <1>16 DEF Queued
  <2>2. ASSUME NEW d \in Contexts
        PROVE  /\ MakesOnce(n.queue, d)
               /\ HasCreate(n.queue, d) => d <= n.made /\ n.step[d] \in {"creating", "gone"}
    BY <1>3, <1>5, <1>12, <1>13, <1>15, <1>16 DEF Queued
  <2>3. QED
    BY <2>1, <2>2 DEF Queued
<1>19. Emptied(n)
  BY <1>3, <1>4, <1>12, <1>13, <1>15 DEF Emptied
<1>20. AnsweredFor(n, results)
  BY <1>3, <1>4, <1>12, <1>13 DEF AnsweredFor
<1>21. ASSUME NEW q \in Pids, q \notin m.outlived
       PROVE  Follows(n, results, observer, matched, kept, q)
  <2>1. Follows(m, results, observer, matched, kept, q)
    BY <1>3, <1>21
  <2>2. CASE m.watching[q] = 0
    BY <2>1, <2>2, <1>12, <1>15 DEF Follows
  <2>3. CASE m.watching[q] # 0
    <3>1. PICK w \in Contexts : w = m.watching[q]
      BY <2>3, ContextsAre DEF MainRecord
    <3>2. Stands(m, results, observer, matched, kept, q, w) /\ w \notin m.lame
      BY <2>1, <2>3, <3>1, <1>3 DEF Follows, Registered
    <3>3. DropsFirst(n.queue, w, q)
      BY <3>2, <1>16 DEF Stands
    <3>4. Stands(n, results, observer, matched, kept, q, w)
      <4>1. CASE w = c
        BY <3>2, <3>3, <4>1, <1>4, <1>12, <1>13, <1>15 DEF Stands
      <4>2. CASE w # c
        BY <3>2, <3>3, <4>2, <1>12, <1>13, <1>15, OthersStand
      <4>3. QED
        BY <4>1, <4>2
    <3>5. QED
      BY <3>1, <3>4, <2>3, <1>12 DEF Follows
  <2>4. QED
    BY <2>2, <2>3
<1>22. Good(n, results, observer, matched, kept)
  BY <1>12, <1>17, <1>18, <1>19, <1>20, <1>21 DEF Good
<1>23. Good(Main', results', observer', matched', kept')
  BY <1>8, <1>11, <1>22 DEF TaskVars
<1>24. QED
  BY <1>10, <1>23 DEF AliasInv

\* A task answers for a creation that was refused.
LEMMA AnswerKeeps ==
  ASSUME AliasInv, NEW c \in Contexts, NEW trusted \in BOOLEAN, Answer(c, trusted)
  PROVE  AliasInv'
<1>1. Main \in MainRecord /\ results \subseteq Failures /\ Good(Main, results, observer, matched, kept)
  BY DEF AliasInv, AliasTypes
<1>2. PICK m \in MainRecord : m = Main
  BY <1>1
<1>3. /\ Registered(m) /\ Queued(m) /\ Emptied(m) /\ AnsweredFor(m, results)
      /\ \A q \in Pids : q \notin m.outlived => Follows(m, results, observer, matched, kept, q)
  BY <1>1, <1>2 DEF Good
<1>4. m.step[c] = "refused" /\ m.owner[c] = owner[c]
  BY <1>2 DEF Answer, Main
<1>5. c <= m.made /\ m.owner[c] \in Pids
  BY <1>3, <1>4, ContextsAre DEF Registered, MainRecord
<1>6. PICK r \in Failures : /\ r = [pid |-> owner[c], of |-> c, trusted |-> trusted]
                            /\ r.of = c /\ r.pid = m.owner[c]
  <2>1. [pid |-> owner[c], of |-> c, trusted |-> trusted] \in Failures
    BY <1>4, <1>5 DEF Failures
  <2>2. QED
    BY <2>1, <1>4
<1>7. /\ step' = [step EXCEPT ![c] = "gone"] /\ results' = results \cup {r}
      /\ UNCHANGED <<TaskVars, lame, permit, queue>>
  BY <1>6 DEF Answer, Go
<1>8. AliasTypes'
  <2>1. queue' \in Seq(Errands) /\ permit' \subseteq Contexts /\ results' \subseteq Failures /\ "gone" \in Steps
    BY <1>1, <1>7, MainIs DEF MainRecord, Steps
  <2>2. AliasTypes
    BY DEF AliasInv
  <2>3. QED
    BY <1>7, <2>1, <2>2, TaskTypes
<1>9. PICK n \in MainRecord : n = Main'
  BY <1>8 DEF AliasTypes
<1>10. /\ n.made = m.made /\ n.watching = m.watching /\ n.watched = m.watched /\ n.owner = m.owner
       /\ n.lame = m.lame /\ n.permit = m.permit /\ n.queue = m.queue /\ n.outlived = m.outlived
       /\ n.step = [m.step EXCEPT ![c] = "gone"]
  BY <1>2, <1>7, <1>9 DEF Main, TaskVars
<1>11. n.step[c] = "gone" /\ \A d \in Contexts : d # c => n.step[d] = m.step[d]
  BY <1>10 DEF MainRecord
<1>12. Registered(n)
  BY <1>3, <1>4, <1>10, <1>11 DEF Registered
<1>13. Queued(n)
  BY <1>3, <1>10, <1>11 DEF Queued
<1>14. Emptied(n)
  BY <1>3, <1>10, <1>11 DEF Emptied
<1>15. AnsweredFor(n, results')
  BY <1>3, <1>6, <1>7, <1>10, <1>11 DEF AnsweredFor
<1>16. ASSUME NEW q \in Pids, q \notin m.outlived
       PROVE  Follows(n, results', observer, matched, kept, q)
  <2>1. Follows(m, results, observer, matched, kept, q)
    BY <1>3, <1>16
  <2>2. CASE m.watching[q] = 0
    BY <2>1, <2>2, <1>10 DEF Follows
  <2>3. CASE m.watching[q] # 0
    <3>1. PICK w \in Contexts : w = m.watching[q]
      BY <2>3, ContextsAre DEF MainRecord
    <3>2. Stands(m, results, observer, matched, kept, q, w)
      BY <2>1, <2>3, <3>1 DEF Follows
    <3>3. DropsFirst(n.queue, w, q) /\ results \subseteq results'
      BY <3>2, <1>7, <1>10 DEF Stands
    <3>4. Stands(n, results', observer, matched, kept, q, w)
      <4>1. CASE w = c
        <5>1. \E y \in results' : y.of = c
          BY <1>6, <1>7
        <5>2. n.step[w] = "gone" /\ m.step[w] = "refused"
          BY <4>1, <1>4, <1>11
        <5>3. QED
          BY <3>2, <3>3, <4>1, <5>1, <5>2, <1>10 DEF Stands
      <4>2. CASE w # c
        BY <3>2, <3>3, <4>2, <1>10, <1>11, OthersStand
      <4>3. QED
        BY <4>1, <4>2
    <3>5. QED
      BY <3>1, <3>4, <2>3, <1>10 DEF Follows
  <2>4. QED
    BY <2>2, <2>3
<1>17. Good(n, results', observer, matched, kept)
  BY <1>10, <1>12, <1>13, <1>14, <1>15, <1>16 DEF Good
<1>18. Good(Main', results', observer', matched', kept')
  BY <1>7, <1>9, <1>17 DEF TaskVars
<1>19. QED
  BY <1>8, <1>18 DEF AliasInv

\* A task asks for its observer to be matched again.
LEMMA AskResyncKeeps ==
  ASSUME AliasInv, NEW c \in Contexts, AskResync(c)
  PROVE  AliasInv'
<1>1. Main \in MainRecord /\ results \subseteq Failures /\ Good(Main, results, observer, matched, kept)
  BY DEF AliasInv, AliasTypes
<1>2. PICK m \in MainRecord : m = Main
  BY <1>1
<1>3. /\ Registered(m) /\ Queued(m) /\ Emptied(m) /\ AnsweredFor(m, results)
      /\ \A q \in Pids : q \notin m.outlived => Follows(m, results, observer, matched, kept, q)
  BY <1>1, <1>2 DEF Good
<1>4. m.step[c] = "created" /\ m.owner[c] = owner[c]
  BY <1>2 DEF AskResync, Main
<1>5. c <= m.made /\ m.owner[c] \in Pids
  BY <1>3, <1>4, ContextsAre DEF Registered, MainRecord
<1>6. PICK x \in Errands : /\ x = Errand("resync", owner[c], c)
                           /\ x.errand = "resync" /\ x.pid = m.owner[c]
  <2>1. Errand("resync", owner[c], c) \in Errands
    BY <1>4, <1>5, ContextsAre DEF Errand, Errands
  <2>2. QED
    BY <2>1, <1>4 DEF Errand
<1>7. PICK s \in {"gone", "asking"} : s = (IF c \in lame THEN "gone" ELSE "asking")
  OBVIOUS
<1>8. /\ step' = [step EXCEPT ![c] = s] /\ queue' = Append(queue, x) /\ permit' = permit \ {c}
      /\ UNCHANGED <<TaskVars, lame, results>>
  BY <1>6, <1>7 DEF AskResync, Go
<1>9. m.queue \in Seq(Errands) /\ m.queue = queue
  BY <1>2, MainIs DEF MainRecord
<1>10. AliasTypes'
  <2>1. queue' \in Seq(Errands)
    BY <1>8, <1>9, Sent
  <2>2. permit' \subseteq Contexts /\ results' \subseteq Failures /\ s \in Steps
    BY <1>1, <1>8, MainIs DEF MainRecord, Steps
  <2>3. AliasTypes
    BY DEF AliasInv
  <2>4. QED
    BY <1>8, <2>1, <2>2, <2>3, TaskTypes
<1>11. PICK n \in MainRecord : n = Main'
  BY <1>10 DEF AliasTypes
<1>12. /\ n.made = m.made /\ n.watching = m.watching /\ n.watched = m.watched /\ n.owner = m.owner
       /\ n.lame = m.lame /\ n.permit = m.permit \ {c} /\ n.outlived = m.outlived
       /\ n.step = [m.step EXCEPT ![c] = s] /\ n.queue = Append(m.queue, x)
       /\ (s = "gone" <=> c \in m.lame)
  BY <1>2, <1>7, <1>8, <1>11 DEF Main, TaskVars
<1>13. n.step[c] = s /\ \A d \in Contexts : d # c => n.step[d] = m.step[d]
  BY <1>12 DEF MainRecord
<1>14. /\ \A d : HasCreate(n.queue, d) <=> HasCreate(m.queue, d)
       /\ \A q : HasDrop(n.queue, q) <=> HasDrop(m.queue, q)
       /\ \A q : HasResync(n.queue, q) <=> HasResync(m.queue, q) \/ q = m.owner[c]
  BY <1>6, <1>9, <1>12, SentAdds
<1>15. /\ \A d, q : DropsFirst(m.queue, d, q) => DropsFirst(n.queue, d, q)
       /\ \A d : MakesOnce(m.queue, d) => MakesOnce(n.queue, d)
       /\ \A o : Owned(m.queue, o) => Owned(n.queue, o)
  BY <1>6, <1>9, <1>12, SentKeepsOrder
<1>16. Registered(n)
  BY <1>3, <1>4, <1>12, <1>13 DEF Registered
<1>17. Queued(n)
  <2>1. Owned(n.queue, n.owner)
    BY <1>3, <1>12, <1>15 DEF Queued
  <2>2. ~HasCreate(m.queue, c)
    BY <1>3, <1>4 DEF Queued
  <2>3. ASSUME NEW d \in Contexts
        PROVE  /\ MakesOnce(n.queue, d)
               /\ HasCreate(n.queue, d) => d <= n.made /\ n.step[d] \in {"creating", "gone"}
    BY <2>2, <1>3, <1>12, <1>13, <1>14, <1>15 DEF Queued
  <2>4. QED
    BY <2>1, <2>3 DEF Queued
<1>18. Emptied(n)
  BY <1>3, <1>4, <1>12, <1>13, <1>14 DEF Emptied
<1>19. AnsweredFor(n, results)
  BY <1>3, <1>4, <1>12, <1>13 DEF AnsweredFor
<1>20. ASSUME NEW q \in Pids, q \notin m.outlived
       PROVE  Follows(n, results, observer, matched, kept, q)
  <2>1. Follows(m, results, observer, matched, kept, q)
    BY <1>3, <1>20
  <2>2. CASE m.watching[q] = 0
    BY <2>1, <2>2, <1>12, <1>14 DEF Follows
  <2>3. CASE m.watching[q] # 0
    <3>1. PICK w \in Contexts : w = m.watching[q]
      BY <2>3, ContextsAre DEF MainRecord
    <3>2. Stands(m, results, observer, matched, kept, q, w) /\ w \notin m.lame /\ m.owner[w] = q
      BY <2>1, <2>3, <3>1, <1>3 DEF Follows, Registered
    <3>3. DropsFirst(n.queue, w, q)
      BY <3>2, <1>15 DEF Stands
    <3>4. Stands(n, results, observer, matched, kept, q, w)
      <4>1. CASE w = c
        BY <3>2, <3>3, <4>1, <1>4, <1>12, <1>13, <1>14 DEF Stands
      <4>2. CASE w # c
        BY <3>2, <3>3, <4>2, <1>12, <1>13, <1>14, OthersStand
      <4>3. QED
        BY <4>1, <4>2
    <3>5. QED
      BY <3>1, <3>4, <2>3, <1>12 DEF Follows
  <2>4. QED
    BY <2>2, <2>3
<1>21. Good(n, results, observer, matched, kept)
  BY <1>12, <1>16, <1>17, <1>18, <1>19, <1>20 DEF Good
<1>22. Good(Main', results', observer', matched', kept')
  BY <1>8, <1>11, <1>21 DEF TaskVars
<1>23. QED
  BY <1>10, <1>22 DEF AliasInv

-----------------------------------------------------------------------------
\* A step of the sources thread, as types.
LEMMA SourcesTypes ==
  ASSUME AliasTypes, UNCHANGED SourcesVars, queue' \in Seq(Errands), step' \in [Contexts -> Steps],
         observer' \in [Pids -> 0..MaxContexts], matched' \in [Pids -> Watchers], kept' \subseteq Pids
  PROVE  AliasTypes'
<1>1. /\ made \in 0..MaxContexts /\ pidOf \in [Mirrored -> Pids \cup {0}]
      /\ watching \in [Pids -> 0..MaxContexts] /\ watched \in [Contexts -> Watchers]
      /\ owner \in [Contexts -> Pids \cup {0}] /\ failed \subseteq Pids
      /\ lame \subseteq Contexts /\ outlived \subseteq Pids /\ permit \subseteq Contexts
      /\ results \subseteq Failures
  BY MainIs DEF AliasTypes, MainRecord
<1>2. Main' \in MainRecord
  BY <1>1 DEF Main, MainRecord, SourcesVars
<1>3. QED
  BY <1>1, <1>2 DEF AliasTypes, SourcesVars

\* What the sources thread leaves the main thread's state like.
LEMMA SourcesLeave ==
  ASSUME AliasTypes, AliasTypes', UNCHANGED SourcesVars
  PROVE  \E m, n \in MainRecord :
           /\ m = Main /\ n = Main'
           /\ n.made = m.made /\ n.watching = m.watching /\ n.watched = m.watched /\ n.owner = m.owner
           /\ n.lame = m.lame /\ n.permit = m.permit /\ n.outlived = m.outlived
           /\ m.step = step /\ n.step = step' /\ m.queue = queue /\ n.queue = queue'
           /\ m.watched = watched /\ m.lame = lame
<1>1. Main \in MainRecord /\ Main' \in MainRecord
  BY DEF AliasTypes
<1>2. /\ Main'.made = made' /\ Main'.watching = watching' /\ Main'.watched = watched'
      /\ Main'.owner = owner' /\ Main'.step = step' /\ Main'.lame = lame'
      /\ Main'.permit = permit' /\ Main'.queue = queue' /\ Main'.outlived = outlived'
  BY DEF Main
<1>3. QED
  BY <1>1, <1>2, MainIs DEF SourcesVars

\* What the invariant says of an application whose observer is left alone.
LEMMA OthersObserved ==
  ASSUME NEW m, NEW n, NEW R, NEW o, NEW t, NEW k, NEW o2, NEW t2, NEW k2, NEW p, NEW w,
         Stands(m, R, o, t, k, p, w),
         o2[p] = o[p], t2[p] = t[p], p \in k2 <=> p \in k,
         n.step[w] = m.step[w], n.watched = m.watched, n.permit = m.permit,
         HasCreate(n.queue, w) <=> HasCreate(m.queue, w),
         HasDrop(n.queue, p) <=> HasDrop(m.queue, p),
         HasResync(m.queue, p) <=> HasResync(n.queue, p),
         DropsFirst(n.queue, w, p)
  PROVE  Stands(n, R, o2, t2, k2, p, w)
BY DEF Stands

\* An observer taken down is of no registration whose observer has been made.
LEMMA DropKeeps ==
  ASSUME AliasInv, DropOnSources
  PROVE  AliasInv'
<1>1. AliasTypes /\ Main \in MainRecord /\ Good(Main, results, observer, matched, kept)
  BY DEF AliasInv, AliasTypes
<1>2. /\ queue \in Seq(Errands) /\ step \in [Contexts -> Steps]
      /\ observer \in [Pids -> 0..MaxContexts] /\ matched \in [Pids -> Watchers] /\ kept \subseteq Pids
  BY <1>1, MainIs DEF AliasTypes, MainRecord
<1>3. /\ queue # <<>> /\ Head(queue).errand = "drop" /\ queue' = Tail(queue)
      /\ UNCHANGED <<SourcesVars, step>>
      /\ observer' = [observer EXCEPT ![Head(queue).pid] = 0]
      /\ matched' = [matched EXCEPT ![Head(queue).pid] = NoOne]
      /\ kept' = kept \ {Head(queue).pid}
  BY DEF DropOnSources, Running
<1>4. Head(queue) \in Errands /\ Tail(queue) \in Seq(Errands)
  BY <1>2, <1>3, Taken
<1>5. PICK p \in Pids : p = Head(queue).pid
  BY <1>4 DEF Errands
<1>6. AliasTypes'
  <2>1. NoOne \in Watchers /\ 0 \in 0..MaxContexts
    BY AliasWatchAssumption DEF NoOne, Watchers
  <2>2. /\ observer' \in [Pids -> 0..MaxContexts] /\ matched' \in [Pids -> Watchers] /\ kept' \subseteq Pids
        /\ queue' \in Seq(Errands) /\ step' \in [Contexts -> Steps]
    BY <2>1, <1>2, <1>3, <1>4
  <2>3. QED
    BY <2>2, <1>1, <1>3, SourcesTypes
<1>7. PICK m \in MainRecord, n \in MainRecord :
           /\ m = Main /\ n = Main'
           /\ n.made = m.made /\ n.watching = m.watching /\ n.watched = m.watched /\ n.owner = m.owner
           /\ n.lame = m.lame /\ n.permit = m.permit /\ n.outlived = m.outlived
           /\ m.step = step /\ n.step = step' /\ m.queue = queue /\ n.queue = queue'
  BY <1>1, <1>3, <1>6, SourcesLeave
<1>8. n.step = m.step
  BY <1>3, <1>7
<1>9. /\ Registered(m) /\ Queued(m) /\ Emptied(m) /\ AnsweredFor(m, results)
      /\ \A q \in Pids : q \notin m.outlived => Follows(m, results, observer, matched, kept, q)
  BY <1>1, <1>7 DEF Good
<1>10. /\ \A c : HasCreate(n.queue, c) <=> HasCreate(m.queue, c)
       /\ \A q : q # p => (HasDrop(n.queue, q) <=> HasDrop(m.queue, q))
       /\ HasDrop(m.queue, p)
       /\ \A q : HasResync(n.queue, q) <=> HasResync(m.queue, q)
  BY <1>2, <1>3, <1>5, <1>7, TakenLeaves
<1>11. /\ \A c, q : DropsFirst(m.queue, c, q) => DropsFirst(n.queue, c, q)
       /\ \A c : MakesOnce(m.queue, c) => MakesOnce(n.queue, c)
       /\ \A o : Owned(m.queue, o) => Owned(n.queue, o)
  BY <1>2, <1>3, <1>7, TakenKeepsOrder
<1>12. observer'[p] = 0 /\ \A q \in Pids : q # p => observer'[q] = observer[q] /\ matched'[q] = matched[q]
                                                  /\ (q \in kept' <=> q \in kept)
  BY <1>2, <1>3, <1>5
<1>13. Registered(n) /\ Emptied(n) /\ AnsweredFor(n, results)
  BY <1>7, <1>8, <1>9, <1>10 DEF Registered, Emptied, AnsweredFor
<1>14. Queued(n)
  BY <1>7, <1>8, <1>9, <1>10, <1>11 DEF Queued
<1>15. ASSUME NEW q \in Pids, q \notin m.outlived
       PROVE  Follows(n, results, observer', matched', kept', q)
  <2>1. Follows(m, results, observer, matched, kept, q)
    BY <1>9, <1>15
  <2>2. CASE m.watching[q] = 0
    BY <2>1, <2>2, <1>7, <1>10, <1>12 DEF Follows
  <2>3. CASE m.watching[q] # 0
    <3>1. PICK w \in Contexts : w = m.watching[q]
      BY <2>3, ContextsAre DEF MainRecord
    <3>2. Stands(m, results, observer, matched, kept, q, w)
      BY <2>1, <2>3, <3>1 DEF Follows
    <3>3. DropsFirst(n.queue, w, q)
      BY <3>2, <1>11 DEF Stands
    <3>4. Stands(n, results, observer', matched', kept', q, w)
      <4>1. CASE q = p
        <5>1. m.step[w] \in {"spawned", "creating"}
          BY <4>1, <3>2, <1>10 DEF Stands
        <5>2. QED
          BY <4>1, <5>1, <3>2, <3>3, <1>8, <1>10, <1>12 DEF Stands
      <4>2. CASE q # p
        BY <4>2, <3>2, <3>3, <1>7, <1>8, <1>10, <1>12, OthersObserved
      <4>3. QED
        BY <4>1, <4>2
    <3>5. QED
      BY <3>1, <3>4, <2>3, <1>7 DEF Follows
  <2>4. QED
    BY <2>2, <2>3
<1>16. Good(n, results, observer', matched', kept')
  BY <1>7, <1>13, <1>14, <1>15 DEF Good
<1>17. Good(Main', results', observer', matched', kept')
  BY <1>3, <1>7, <1>16 DEF SourcesVars
<1>18. QED
  BY <1>6, <1>17 DEF AliasInv

\* An observer built again is matched against what its own registration watches.
LEMMA ResyncKeeps ==
  ASSUME AliasInv, ResyncOnSources
  PROVE  AliasInv'
<1>1. AliasTypes /\ Main \in MainRecord /\ Good(Main, results, observer, matched, kept)
  BY DEF AliasInv, AliasTypes
<1>2. /\ queue \in Seq(Errands) /\ step \in [Contexts -> Steps]
      /\ observer \in [Pids -> 0..MaxContexts] /\ matched \in [Pids -> Watchers] /\ kept \subseteq Pids
      /\ watched \in [Contexts -> Watchers]
  BY <1>1, MainIs DEF AliasTypes, MainRecord
<1>3. /\ queue # <<>> /\ Head(queue).errand = "resync" /\ queue' = Tail(queue)
      /\ UNCHANGED <<SourcesVars, observer>>
  BY DEF ResyncOnSources, Running
<1>4. Head(queue) \in Errands /\ Tail(queue) \in Seq(Errands)
  BY <1>2, <1>3, Taken
<1>5. PICK p \in Pids : p = Head(queue).pid
  BY <1>4 DEF Errands
<1>6. \/ /\ observer[p] # 0 /\ matched' = [matched EXCEPT ![p] = watched[observer[p]]]
         /\ kept' = kept \ {p}
      \/ /\ kept' = IF observer[p] = 0 THEN kept ELSE kept \cup {p}
         /\ matched' = matched
  BY <1>5 DEF ResyncOnSources
<1>7. PICK c : Hears(c, "asking", "created")
  BY DEF ResyncOnSources
<1>8. step' \in [Contexts -> Steps]
  BY <1>2, <1>7 DEF Hears, Steps
<1>9. \A d \in Contexts : \/ step'[d] = step[d]
                          \/ step[d] = "asking" /\ step'[d] = "created"
                          \/ step[d] = "asking" /\ step'[d] = "gone" /\ d \in lame
  BY <1>2, <1>7 DEF Hears
<1>10. AliasTypes'
  <2>1. observer[p] # 0 => watched[observer[p]] \in Watchers
    BY <1>2, ContextsAre
  <2>2. matched' \in [Pids -> Watchers] /\ kept' \subseteq Pids
    BY <2>1, <1>2, <1>6
  <2>3. queue' \in Seq(Errands) /\ observer' \in [Pids -> 0..MaxContexts]
    BY <1>2, <1>3, <1>4
  <2>4. QED
    BY <2>2, <2>3, <1>1, <1>3, <1>8, SourcesTypes
<1>11. PICK m \in MainRecord, n \in MainRecord :
           /\ m = Main /\ n = Main'
           /\ n.made = m.made /\ n.watching = m.watching /\ n.watched = m.watched /\ n.owner = m.owner
           /\ n.lame = m.lame /\ n.permit = m.permit /\ n.outlived = m.outlived
           /\ m.step = step /\ n.step = step' /\ m.queue = queue /\ n.queue = queue'
           /\ m.watched = watched /\ m.lame = lame
  BY <1>1, <1>3, <1>10, SourcesLeave
<1>12. \A d \in Contexts : \/ n.step[d] = m.step[d]
                           \/ m.step[d] = "asking" /\ n.step[d] = "created"
                           \/ m.step[d] = "asking" /\ n.step[d] = "gone" /\ d \in m.lame
  BY <1>9, <1>11
<1>13. /\ Registered(m) /\ Queued(m) /\ Emptied(m) /\ AnsweredFor(m, results)
       /\ \A q \in Pids : q \notin m.outlived => Follows(m, results, observer, matched, kept, q)
  BY <1>1, <1>11 DEF Good
<1>14. /\ \A d : HasCreate(n.queue, d) <=> HasCreate(m.queue, d)
       /\ \A q : HasDrop(n.queue, q) <=> HasDrop(m.queue, q)
       /\ \A q : q # p => (HasResync(n.queue, q) <=> HasResync(m.queue, q))
  BY <1>2, <1>3, <1>5, <1>11, TakenLeaves
<1>15. /\ \A d, q : DropsFirst(m.queue, d, q) => DropsFirst(n.queue, d, q)
       /\ \A d : MakesOnce(m.queue, d) => MakesOnce(n.queue, d)
       /\ \A o : Owned(m.queue, o) => Owned(n.queue, o)
  BY <1>2, <1>3, <1>11, TakenKeepsOrder
<1>16. \A q \in Pids : q # p => matched'[q] = matched[q] /\ (q \in kept' <=> q \in kept)
  BY <1>2, <1>5, <1>6
<1>17. Registered(n)
  BY <1>11, <1>12, <1>13 DEF Registered
<1>18. Queued(n)
  BY <1>11, <1>12, <1>13, <1>14, <1>15 DEF Queued
<1>19. Emptied(n)
  BY <1>11, <1>12, <1>13, <1>14 DEF Emptied
<1>20. AnsweredFor(n, results)
  BY <1>11, <1>12, <1>13 DEF AnsweredFor
<1>21. ASSUME NEW q \in Pids, q \notin m.outlived
       PROVE  Follows(n, results, observer, matched', kept', q)
  <2>1. Follows(m, results, observer, matched, kept, q)
    BY <1>13, <1>21
  <2>2. CASE m.watching[q] = 0
    BY <2>1, <2>2, <1>11, <1>14 DEF Follows
  <2>3. CASE m.watching[q] # 0
    <3>1. PICK w \in Contexts : w = m.watching[q]
      BY <2>3, ContextsAre DEF MainRecord
    <3>2. Stands(m, results, observer, matched, kept, q, w) /\ w \notin m.lame
      BY <2>1, <2>3, <3>1, <1>13 DEF Follows, Registered
    <3>3. DropsFirst(n.queue, w, q)
      BY <3>2, <1>15 DEF Stands
    <3>4. n.step[w] = m.step[w] \/ (m.step[w] = "asking" /\ n.step[w] = "created")
      BY <3>2, <1>12
    <3>5. n.step[w] \in {"created", "asking"} /\ q \notin kept' /\ matched'[q] # n.watched[w]
            => w \in n.permit \/ HasResync(n.queue, q)
      <4>1. SUFFICES ASSUME n.step[w] \in {"created", "asking"}, q \notin kept', matched'[q] # n.watched[w]
                     PROVE  w \in n.permit \/ HasResync(n.queue, q)
        OBVIOUS
      <4>2. m.step[w] \in {"created", "asking"} /\ observer[q] = w /\ w # 0
        BY <4>1, <3>2, <3>4, ContextsAre DEF Stands
      <4>3. CASE q = p
        <5>1. matched'[q] = watched[w]
          BY <4>1, <4>2, <4>3, <1>2, <1>6
        <5>2. QED
          BY <4>1, <5>1, <1>11
      <4>4. CASE q # p
        BY <4>1, <4>2, <4>4, <3>2, <1>11, <1>14, <1>16 DEF Stands
      <4>5. QED
        BY <4>3, <4>4
    <3>6. Stands(n, results, observer, matched', kept', q, w)
      BY <3>2, <3>3, <3>4, <3>5, <1>14 DEF Stands
    <3>7. QED
      BY <3>1, <3>6, <2>3, <1>11 DEF Follows
  <2>4. QED
    BY <2>2, <2>3
<1>22. Good(n, results, observer, matched', kept')
  BY <1>11, <1>17, <1>18, <1>19, <1>20, <1>21 DEF Good
<1>23. Good(Main', results', observer', matched', kept')
  BY <1>3, <1>11, <1>22 DEF SourcesVars
<1>24. QED
  BY <1>10, <1>23 DEF AliasInv

\* An observer that is made is of the registration the application has, and it
\* is kept unless that was emptied meanwhile, or the task answers for a refusal.
LEMMA CreateKeeps ==
  ASSUME AliasInv, CreateOnSources
  PROVE  AliasInv'
<1>1. AliasTypes /\ Main \in MainRecord /\ Good(Main, results, observer, matched, kept)
  BY DEF AliasInv, AliasTypes
<1>2. /\ queue \in Seq(Errands) /\ step \in [Contexts -> Steps]
      /\ observer \in [Pids -> 0..MaxContexts] /\ matched \in [Pids -> Watchers] /\ kept \subseteq Pids
      /\ watched \in [Contexts -> Watchers]
  BY <1>1, MainIs DEF AliasTypes, MainRecord
<1>3. /\ queue # <<>> /\ Head(queue).errand = "create" /\ queue' = Tail(queue)
      /\ UNCHANGED SourcesVars
  BY DEF CreateOnSources, Running
<1>4. Head(queue) \in Errands /\ Tail(queue) \in Seq(Errands)
  BY <1>2, <1>3, Taken
<1>5. PICK p \in Pids : p = Head(queue).pid
  BY <1>4 DEF Errands
<1>6. PICK c : c = Head(queue).context
  OBVIOUS
<1>7. /\ Main.queue = queue /\ Main.step = step /\ Main.owner = owner
      /\ Main.watched = watched /\ Main.made = made
  BY MainIs
<1>8. HasCreate(queue, c)
  BY <1>2, <1>3, <1>6, TakenLeaves
<1>9. c \in Contexts /\ owner[c] = p
  <2>1. Owned(queue, owner)
    BY <1>1, <1>7 DEF Good, Queued
  <2>2. Head(queue) = queue[1] /\ 1 \in 1 .. Len(queue)
    BY <1>2, <1>3, Taken
  <2>3. QED
    BY <2>1, <2>2, <1>3, <1>5, <1>6 DEF Owned
<1>10. c <= made /\ step[c] \in {"creating", "gone"} /\ MakesOnce(queue, c)
  BY <1>1, <1>7, <1>8, <1>9 DEF Good, Queued
<1>11. \/ /\ Hears(c, "creating", "created")
          /\ observer' = IF Keeps(c) THEN [observer EXCEPT ![p] = c] ELSE observer
          /\ matched' = IF Keeps(c) THEN [matched EXCEPT ![p] = watched[c]] ELSE matched
          /\ kept' = IF Keeps(c) THEN kept \ {p} ELSE kept
       \/ /\ step' = [step EXCEPT ![c] = IF step[c] = "creating" THEN "refused" ELSE step[c]]
          /\ UNCHANGED <<observer, matched, kept>>
  BY <1>5, <1>6 DEF CreateOnSources
<1>12. /\ step' \in [Contexts -> Steps]
       /\ \A d \in Contexts : d # c => step'[d] = step[d]
       /\ step[c] = "gone" => step'[c] = "gone"
       /\ step[c] = "creating" => \/ step'[c] = "gone" /\ c \in lame
                                  \/ step'[c] = "created" /\ Hears(c, "creating", "created")
                                  \/ /\ step'[c] = "refused" /\ UNCHANGED <<observer, matched, kept>>
  <2>1. CASE Hears(c, "creating", "created")
    BY <2>1, <1>2, <1>9, <1>10 DEF Hears, Steps
  <2>2. CASE /\ step' = [step EXCEPT ![c] = IF step[c] = "creating" THEN "refused" ELSE step[c]]
             /\ UNCHANGED <<observer, matched, kept>>
    BY <2>2, <1>2, <1>9, <1>10 DEF Steps
  <2>3. QED
    BY <2>1, <2>2, <1>11
<1>13. /\ \A q \in Pids : q # p \/ watched[c] = NoOne =>
            observer'[q] = observer[q] /\ matched'[q] = matched[q] /\ (q \in kept' <=> q \in kept)
       /\ step'[c] = "created" /\ watched[c] # NoOne => observer'[p] = c /\ matched'[p] = watched[c]
  <2>1. Keeps(c) <=> watched[c] # NoOne
    BY DEF Keeps, Empty
  <2>2. CASE /\ Hears(c, "creating", "created")
             /\ observer' = IF Keeps(c) THEN [observer EXCEPT ![p] = c] ELSE observer
             /\ matched' = IF Keeps(c) THEN [matched EXCEPT ![p] = watched[c]] ELSE matched
             /\ kept' = IF Keeps(c) THEN kept \ {p} ELSE kept
    <3>1. CASE Keeps(c)
      BY <3>1, <2>1, <2>2, <1>2, <1>9
    <3>2. CASE ~Keeps(c)
      BY <3>2, <2>1, <2>2
    <3>3. QED
      BY <3>1, <3>2
  <2>3. CASE /\ step' = [step EXCEPT ![c] = IF step[c] = "creating" THEN "refused" ELSE step[c]]
             /\ UNCHANGED <<observer, matched, kept>>
    <3>1. step'[c] # "created"
      BY <2>3, <1>2, <1>9, <1>10
    <3>2. QED
      BY <3>1, <2>3
  <2>4. QED
    BY <2>2, <2>3, <1>11
<1>14. AliasTypes'
  <2>1. watched[c] \in Watchers /\ c \in 0..MaxContexts
    BY <1>2, <1>9, ContextsAre
  <2>2. observer' \in [Pids -> 0..MaxContexts] /\ matched' \in [Pids -> Watchers] /\ kept' \subseteq Pids
    BY <2>1, <1>2, <1>11
  <2>3. queue' \in Seq(Errands)
    BY <1>3, <1>4
  <2>4. QED
    BY <2>2, <2>3, <1>1, <1>3, <1>12, SourcesTypes
<1>15. PICK m \in MainRecord, n \in MainRecord :
           /\ m = Main /\ n = Main'
           /\ n.made = m.made /\ n.watching = m.watching /\ n.watched = m.watched /\ n.owner = m.owner
           /\ n.lame = m.lame /\ n.permit = m.permit /\ n.outlived = m.outlived
           /\ m.step = step /\ n.step = step' /\ m.queue = queue /\ n.queue = queue'
           /\ m.watched = watched /\ m.lame = lame
  BY <1>1, <1>3, <1>14, SourcesLeave
<1>16. m.owner[c] = p /\ c <= m.made
  BY <1>7, <1>9, <1>10, <1>15
<1>17. /\ Registered(m) /\ Queued(m) /\ Emptied(m) /\ AnsweredFor(m, results)
       /\ \A q \in Pids : q \notin m.outlived => Follows(m, results, observer, matched, kept, q)
  BY <1>1, <1>15 DEF Good
<1>18. /\ \A d : d # c => (HasCreate(n.queue, d) <=> HasCreate(m.queue, d))
       /\ \A q : HasDrop(n.queue, q) <=> HasDrop(m.queue, q)
       /\ \A q : HasResync(n.queue, q) <=> HasResync(m.queue, q)
  BY <1>2, <1>3, <1>6, <1>15, TakenLeaves
<1>19. /\ \A d, q : DropsFirst(m.queue, d, q) => DropsFirst(n.queue, d, q)
       /\ \A q : DropsFirst(m.queue, c, q) => ~HasDrop(m.queue, q)
       /\ \A d : MakesOnce(m.queue, d) => MakesOnce(n.queue, d)
       /\ ~HasCreate(n.queue, c)
       /\ \A o : Owned(m.queue, o) => Owned(n.queue, o)
  BY <1>2, <1>3, <1>6, <1>10, <1>15, TakenKeepsOrder
<1>20. Registered(n)
  BY <1>10, <1>12, <1>15, <1>17 DEF Registered
<1>21. Queued(n)
  BY <1>12, <1>15, <1>17, <1>18, <1>19 DEF Queued
<1>22. step'[c] # "spawned"
  BY <1>10, <1>12
<1>23. Emptied(n)
  BY <1>12, <1>15, <1>17, <1>18, <1>19, <1>22 DEF Emptied
<1>24. AnsweredFor(n, results)
  BY <1>12, <1>15, <1>17 DEF AnsweredFor
<1>25. ASSUME NEW q \in Pids, q \notin m.outlived
       PROVE  Follows(n, results, observer', matched', kept', q)
  <2>1. Follows(m, results, observer, matched, kept, q)
    BY <1>17, <1>25
  <2>2. q = p /\ m.watching[q] # c => watched[c] = NoOne
    BY <1>8, <1>9, <1>15, <1>16, <1>17, <1>25 DEF Emptied
  <2>3. CASE m.watching[q] = 0
    <3>1. observer'[q] = observer[q]
      BY <2>2, <2>3, <1>9, <1>13, ContextsAre
    <3>2. QED
      BY <2>1, <2>3, <3>1, <1>15, <1>18 DEF Follows
  <2>4. CASE m.watching[q] # 0
    <3>1. PICK w \in Contexts : w = m.watching[q]
      BY <2>4, ContextsAre DEF MainRecord
    <3>2. /\ Stands(m, results, observer, matched, kept, q, w) /\ w \notin m.lame
          /\ m.owner[w] = q /\ m.watched[w] # NoOne
      BY <2>1, <2>4, <3>1, <1>17 DEF Follows, Registered
    <3>3. DropsFirst(n.queue, w, q)
      BY <3>2, <1>19 DEF Stands
    <3>4. Stands(n, results, observer', matched', kept', q, w)
      <4>1. CASE w = c
        <5>1. q = p /\ watched[c] # NoOne /\ c \notin lame
          BY <3>2, <4>1, <1>15, <1>16
        <5>2. m.step[c] = "creating" /\ ~HasDrop(m.queue, p) /\ observer[p] = 0
          BY <3>2, <4>1, <5>1, <1>8, <1>15, <1>19 DEF Stands
        <5>3. CASE step'[c] = "created"
          <6>1. observer'[p] = c /\ matched'[p] = watched[c]
            BY <5>1, <5>3, <1>13
          <6>2. n.step[c] = "created" /\ n.watched[c] = watched[c]
            BY <5>3, <1>15
          <6>3. QED
            BY <3>3, <4>1, <5>1, <5>2, <6>1, <6>2, <1>18, <1>19 DEF Stands
        <5>4. CASE step'[c] = "refused" /\ UNCHANGED <<observer, matched, kept>>
          <6>1. n.step[c] = "refused" /\ observer'[p] = 0
            BY <5>2, <5>4, <1>15
          <6>2. QED
            BY <3>3, <4>1, <5>1, <5>2, <6>1, <1>18, <1>19 DEF Stands
        <5>5. QED
          BY <5>1, <5>2, <5>3, <5>4, <1>12, <1>15
      <4>2. CASE w # c
        <5>1. q # p \/ watched[c] = NoOne
          BY <2>2, <3>1, <4>2
        <5>2. /\ observer'[q] = observer[q] /\ matched'[q] = matched[q] /\ (q \in kept' <=> q \in kept)
              /\ n.step[w] = m.step[w]
          BY <4>2, <5>1, <1>12, <1>13, <1>15
        <5>3. QED
          BY <3>2, <3>3, <4>2, <5>2, <1>15, <1>18, OthersObserved
      <4>3. QED
        BY <4>1, <4>2
    <3>5. QED
      BY <3>1, <3>4, <2>4, <1>15 DEF Follows
  <2>5. QED
    BY <2>3, <2>4
<1>26. Good(n, results, observer', matched', kept')
  BY <1>15, <1>20, <1>21, <1>23, <1>24, <1>25 DEF Good
<1>27. Good(Main', results', observer', matched', kept')
  BY <1>3, <1>15, <1>26 DEF SourcesVars
<1>28. QED
  BY <1>14, <1>27 DEF AliasInv

\* Nothing is registered, sent or observed to begin with.
LEMMA AliasStart == AliasWatchInit => AliasInv
<1>1. SUFFICES ASSUME AliasWatchInit PROVE AliasInv
  OBVIOUS
<1>2. queue = <<>> /\ Len(queue) = 0 /\ queue \in Seq(Errands)
  BY <1>1, EmptySeq DEF AliasWatchInit
<1>3. NoOne \in Watchers /\ 0 \in 0..MaxContexts
  BY AliasWatchAssumption DEF NoOne, Watchers
<1>4. AliasTypes
  BY <1>1, <1>2, <1>3 DEF AliasTypes, AliasWatchInit, Main, MainRecord, Steps
<1>5. PICK m : m = Main
  OBVIOUS
<1>6. /\ m.made = 0 /\ m.watching = [p \in Pids |-> 0] /\ m.step = [c \in Contexts |-> "none"]
      /\ m.lame = {} /\ m.queue = <<>>
  BY <1>1, <1>5, MainIs DEF AliasWatchInit
<1>7. \A c : ~HasCreate(m.queue, c)
  BY <1>2, <1>6 DEF HasCreate
<1>8. Registered(m)
  BY <1>6, ContextsAre DEF Registered
<1>9. Queued(m)
  BY <1>2, <1>6, <1>7 DEF Queued, Owned, MakesOnce
<1>10. Emptied(m)
  BY <1>6, <1>7 DEF Emptied
<1>11. AnsweredFor(m, results)
  BY <1>1 DEF AliasWatchInit, AnsweredFor
<1>12. \A p \in Pids : Follows(m, results, observer, matched, kept, p)
  BY <1>1, <1>6 DEF Follows, AliasWatchInit
<1>13. QED
  BY <1>4, <1>5, <1>8, <1>9, <1>10, <1>11, <1>12 DEF AliasInv, Good

\* Every step keeps the invariant.
LEMMA AliasStep == AliasInv /\ [AliasWatchNext]_watchVars => AliasInv'
<1>1. SUFFICES ASSUME AliasInv, [AliasWatchNext]_watchVars PROVE AliasInv'
  OBVIOUS
<1>2. CASE UNCHANGED <<made, pidOf, watching, watched, owner, failed, step, lame, permit, queue,
                       observer, matched, kept, results, outlived>>
  BY <1>1, <1>2 DEF AliasInv, AliasTypes, Good, Main
<1>3. CASE \E e \in Mirrored : Forget(e)
  BY <1>1, <1>3, ForgetKeeps
<1>4. CASE \E e \in Mirrored, p \in Pids \cup {0}, f \in Frames : SyncOne(e, p, f)
  BY <1>1, <1>4, SyncOneKeeps
<1>5. CASE \E c \in Contexts : Vanish(c) \/ AskCreate(c) \/ AskResync(c)
  BY <1>1, <1>5, VanishKeeps, AskCreateKeeps, AskResyncKeeps
<1>6. CASE \E c \in Contexts, t \in BOOLEAN : Answer(c, t)
  BY <1>1, <1>6, AnswerKeeps
<1>7. CASE CreateOnSources \/ ResyncOnSources \/ DropOnSources
  BY <1>1, <1>7, CreateKeeps, ResyncKeeps, DropKeeps
<1>8. CASE TakeDirtySet
  BY <1>2, <1>8 DEF TakeDirtySet
<1>9. CASE \E p \in Pids, f \in Frames : OnNotification(p, f)
  BY <1>2, <1>9 DEF OnNotification
<1>10. CASE UNCHANGED watchVars
  BY <1>2, <1>10 DEF watchVars
<1>11. QED
  BY <1>1, <1>3, <1>4, <1>5, <1>6, <1>7, <1>8, <1>9, <1>10 DEF AliasWatchNext

\* Whenever nothing is on its way for an application, its observer is that of
\* the registration it has, matched against what that watches.
LEMMA QuietMatches == AliasInv => ObservesWhatIsWatched
<1>1. SUFFICES ASSUME AliasInv, NEW p \in Pids, Quiescent(p), p \notin outlived
               PROVE  /\ observer[p] = watching[p]
                      /\ watching[p] # 0 /\ p \notin kept => matched[p] = watched[watching[p]]
  BY DEF ObservesWhatIsWatched
<1>2. PICK m \in MainRecord : m = Main
  BY <1>1 DEF AliasInv, AliasTypes
<1>3. /\ m.watching = watching /\ m.watched = watched /\ m.owner = owner /\ m.step = step
      /\ m.permit = permit /\ m.queue = queue /\ m.outlived = outlived
  BY <1>2, MainIs
<1>4. Registered(m) /\ AnsweredFor(m, results) /\ Follows(m, results, observer, matched, kept, p)
  BY <1>1, <1>2, <1>3 DEF AliasInv, Good
<1>5. ~HasDrop(m.queue, p) /\ ~HasResync(m.queue, p)
  <2>1. DOMAIN queue = 1 .. Len(queue)
    BY <1>3, LenProperties DEF MainRecord
  <2>2. QED
    BY <2>1, <1>1, <1>3 DEF Quiescent, HasDrop, HasResync, Drops, Matches
<1>6. CASE watching[p] = 0
  BY <1>3, <1>4, <1>5, <1>6 DEF Follows
<1>7. CASE watching[p] # 0
  <2>1. PICK w \in Contexts : w = watching[p]
    BY <1>3, <1>7, ContextsAre DEF MainRecord
  <2>2. Stands(m, results, observer, matched, kept, p, w) /\ w <= m.made /\ owner[w] = p
    BY <2>1, <1>3, <1>4, <1>7 DEF Follows, Registered
  <2>3. step[w] # "none"
    BY <2>2, <1>3, <1>4, ContextsAre DEF Registered, MainRecord
  <2>4. step[w] \in {"created", "gone"} /\ (w \in permit => step[w] # "created")
    BY <2>2, <2>3, <1>1 DEF Quiescent
  <2>5. step[w] # "gone"
    <3>1. SUFFICES ASSUME step[w] = "gone" PROVE FALSE
      OBVIOUS
    <3>2. PICK r \in results : r.of = w
      BY <2>2, <3>1, <1>3 DEF Stands
    <3>3. r.pid = p
      BY <2>2, <3>2, <1>3, <1>4 DEF AnsweredFor
    <3>4. QED
      BY <3>2, <3>3, <1>1 DEF Quiescent
  <2>6. QED
    BY <2>1, <2>2, <2>4, <2>5, <1>3, <1>5 DEF Stands
<1>8. QED
  BY <1>6, <1>7

\* Whenever nothing is on its way, the observer of an application is the one of
\* the registration the main thread has, matched against exactly the aliases
\* watched there unless a rebuild was refused, and one without a registration
\* has no observer (alias_watch.rs), however creating, detaching, watching anew
\* and failing overlap; the exception is an application whose registration was
\* ended by a failure of another.
THEOREM ObserversFollow == AliasWatchSpec => []ObservesWhatIsWatched
<1>1. AliasWatchSpec => []AliasInv
  BY AliasStart, AliasStep, PTL DEF AliasWatchSpec
<1>2. QED
  BY <1>1, QuietMatches, PTL

\* What is posted of the watch is of items that are mirrored.
LEMMA PostedStart == AliasWatchInit => posted \subseteq Mirrored
BY DEF AliasWatchInit

LEMMA PostedStep == posted \subseteq Mirrored /\ [AliasWatchNext]_watchVars => posted' \subseteq Mirrored
<1> SUFFICES ASSUME posted \subseteq Mirrored, [AliasWatchNext]_watchVars PROVE posted' \subseteq Mirrored
  OBVIOUS
<1>1. ASSUME NEW p, NEW f, OnNotification(p, f) PROVE posted' \subseteq Mirrored
  BY <1>1 DEF OnNotification, Named
<1>2. CASE UNCHANGED posted
  BY <1>2
<1>3. CASE TakeDirtySet
  BY <1>3 DEF TakeDirtySet
<1>4. QED
  BY <1>1, <1>2, <1>3 DEF AliasWatchNext, watchVars, Forget, SyncOne, Vanish, AskCreate, AskResync, Answer,
     CreateOnSources, ResyncOnSources, DropOnSources, TaskVars, SourcesVars

\* With the invariant of the observers, it is all of the watch's type.
LEMMA WatchIsTyped == AliasInv /\ posted \subseteq Mirrored => AliasWatchTypeOK
<1> SUFFICES ASSUME AliasInv, posted \subseteq Mirrored PROVE AliasWatchTypeOK
  OBVIOUS
<1>1. PICK m \in MainRecord : m = Main
  BY DEF AliasInv, AliasTypes
<1>2. /\ made = m.made /\ pidOf = m.pidOf /\ watching = m.watching /\ watched = m.watched /\ owner = m.owner
      /\ failed = m.failed /\ step = m.step /\ lame = m.lame /\ permit = m.permit /\ queue = m.queue
      /\ outlived = m.outlived
  BY <1>1 DEF Main
<1>3. QED
  BY <1>1, <1>2 DEF AliasInv, AliasTypes, MainRecord, Steps, Failures, AliasWatchTypeOK

-----------------------------------------------------------------------------
(* Panels. *)

\* The windows and what the items hold, as types.
PanelTypes ==
  /\ rearranged \in BOOLEAN /\ undrawn \in BOOLEAN /\ owesPass \in BOOLEAN /\ phase \in {"out", "end"}
  /\ attached \subseteq Screens /\ trait \in [Traits -> BOOLEAN]
  /\ DOMAIN window \subseteq Screens /\ window \in [DOMAIN window -> Window]
  /\ kindOf \in [PanelItems -> PointerKind \cup {"none"}] /\ spotOf \in [PanelItems -> Spots \cup {0}]
  /\ retained \in [Screens -> SUBSET (PanelItems \X Spots)]
  /\ tracked \in [PanelItems -> SUBSET (PointerKind \X Screens \X Spots)]
  /\ projected \in [Screens -> Rects]

\* A pass is asked for as long as one has something to do.
PassComes ==
  /\ phase = "end" => ~rearranged
  /\ ~owesPass => ~rearranged /\ ~undrawn

\* The windows are those of the displays chosen, each with the settings it was
\* told and the rectangles that were claimed.
WindowsFollow ==
  /\ ~rearranged /\ "panels" \notin refused => DOMAIN window = Chosen(display)
  /\ \A s \in DOMAIN window :
       /\ \A t \in Traits \ refused : window[s].trait[t] = trait[t]
       /\ ~window[s].unsure => window[s].rects = projected[s]

\* What was drawn is an item once on a display, where the items are laid out
\* unless a repaint is wanted.
Once(shownThen) == \A s \in Screens : \A p, q \in shownThen[s] : p[1] = q[1] => p = q
AsLaid(shownThen) == \A s \in Screens : \A p \in shownThen[s] : p[2] = spotOf[p[1]]
DrawnRight == Once(retained) /\ (~undrawn => AsLaid(retained))

\* An item holds one area, and what the areas are is what is claimed; once no
\* pass is asked for, it is one the item was drawn in, if it was drawn.
Single(areas) == \A a, b \in areas : a = b
HeldRight(i) ==
  /\ tracked[i] \subseteq AreasOf(i, retained)
  /\ kindOf[i] = "none" => tracked[i] = {}
  /\ kindOf[i] # "none" /\ Single(AreasOf(i, retained)) => tracked[i] = AreasOf(i, retained)
ClaimsFollow ==
  /\ \A i \in PanelItems : Single(tracked[i])
  /\ \A s \in Screens : projected[s] = ClaimedOn(s, tracked)
  /\ phase = "out" /\ ~owesPass => \A i \in PanelItems : HeldRight(i)

PanelsInv == PanelTypes /\ PassComes /\ WindowsFollow /\ DrawnRight /\ ClaimsFollow

-----------------------------------------------------------------------------
\* Displays are counted, whichever are attached.
LEMMA OrdinalTyped == ASSUME attached \subseteq Screens, NEW s PROVE OrdinalOf(s) \in Nat
<1>1. IsFiniteSet({t \in attached : t <= s})
  BY PanelsAssumption, FS_Subset
<1>2. QED
  BY <1>1, FS_CardinalityType DEF OrdinalOf

\* A window that comes up and one that is told its frame have the settings.
LEMMA OpenedRight ==
  ASSUME PanelTypes, NEW s \in Screens
  PROVE  /\ Opened(s) \in Window /\ Opened(s).trait = trait
         /\ ~Opened(s).unsure => Opened(s).rects = projected[s]
<1>1. OrdinalOf(s) \in Nat
  BY OrdinalTyped DEF PanelTypes
<1>2. PICK b \in BOOLEAN : b <=> projected[s] # {}
  OBVIOUS
<1>3. Opened(s) = [ordinal |-> OrdinalOf(s), trait |-> trait, clickable |-> FALSE, rects |-> {}, unsure |-> b]
  BY <1>2 DEF Opened
<1>4. {} \in Rects
  BY DEF Rects
<1>5. QED
  BY <1>1, <1>2, <1>3, <1>4 DEF Window, PanelTypes

\* A frame set in a window is a trait of that window and leaves the others.
LEMMA FramedRight ==
  ASSUME PanelTypes, NEW s \in DOMAIN window
  PROVE  /\ Framed(window[s], s) \in Window
         /\ Framed(window[s], s).trait["frame"] = trait["frame"]
         /\ \A t \in Traits : t # "frame" => Framed(window[s], s).trait[t] = window[s].trait[t]
         /\ Framed(window[s], s).unsure = window[s].unsure
         /\ Framed(window[s], s).rects = window[s].rects
<1>1. OrdinalOf(s) \in Nat /\ window[s] \in Window /\ "frame" \in Traits /\ trait["frame"] \in BOOLEAN
  BY OrdinalTyped, PanelsAssumption DEF PanelTypes
<1>2. QED
  BY <1>1 DEF Framed, Window

\* A rebuild, whether it ends or is cut short, leaves windows that follow.
LEMMA RebuildFollows ==
  ASSUME PanelTypes, WindowsFollow, NEW to,
         \/ window' = Rebuilding(to) /\ refused' = refused \ {"panels", "frame"}
         \/ \E failing \in Chosen(to) : window' = CutShort(to, failing) /\ refused' = refused \cup {"panels"},
         UNCHANGED <<trait, projected>>
  PROVE  /\ DOMAIN window' \subseteq Screens /\ window' \in [DOMAIN window' -> Window]
         /\ "panels" \notin refused' => DOMAIN window' = Chosen(to)
         /\ \A s \in DOMAIN window' :
              /\ \A t \in Traits \ refused' : window'[s].trait[t] = trait'[t]
              /\ ~window'[s].unsure => window'[s].rects = projected'[s]
<1>1. Chosen(to) \subseteq Screens /\ DOMAIN window \subseteq Screens
  BY DEF Chosen, PanelTypes
<1>2. CASE window' = Rebuilding(to) /\ refused' = refused \ {"panels", "frame"}
  <2>1. DOMAIN window' = Chosen(to) /\ \A s \in Chosen(to) : window'[s] = Rebuilt(s)
    BY <1>2 DEF Rebuilding
  <2>2. ASSUME NEW s \in Chosen(to)
        PROVE  /\ Rebuilt(s) \in Window
               /\ \A t \in Traits \ refused' : Rebuilt(s).trait[t] = trait[t]
               /\ ~Rebuilt(s).unsure => Rebuilt(s).rects = projected[s]
    <3>1. CASE s \in DOMAIN window
      <4>1. Rebuilt(s) = Framed(window[s], s)
        BY <3>1 DEF Rebuilt
      <4>2. \A t \in Traits \ refused' : t # "frame" => t \notin refused
        BY <1>2, PanelsAssumption
      <4>3. QED
        BY <3>1, <4>1, <4>2, FramedRight DEF WindowsFollow
    <3>2. CASE s \notin DOMAIN window
      <4>1. Rebuilt(s) = Opened(s)
        BY <3>2 DEF Rebuilt
      <4>2. s \in Screens
        BY <1>1
      <4>3. QED
        BY <4>1, <4>2, OpenedRight
    <3>3. QED
      BY <3>1, <3>2
  <2>3. window' \in [DOMAIN window' -> Window]
    <3>1. window' = [s \in Chosen(to) |-> Rebuilt(s)]
      BY <1>2 DEF Rebuilding
    <3>2. QED
      BY <3>1, <2>1, <2>2
  <2>4. QED
    BY <1>1, <2>1, <2>2, <2>3
<1>3. ASSUME NEW failing \in Chosen(to), window' = CutShort(to, failing), refused' = refused \cup {"panels"}
      PROVE  /\ DOMAIN window' \subseteq Screens /\ window' \in [DOMAIN window' -> Window]
             /\ "panels" \notin refused' => DOMAIN window' = Chosen(to)
             /\ \A s \in DOMAIN window' :
                  /\ \A t \in Traits \ refused' : window'[s].trait[t] = trait'[t]
                  /\ ~window'[s].unsure => window'[s].rects = projected'[s]
  <2>1. PICK D : D = {t \in DOMAIN window : t > failing \/ t \notin Chosen(to)}
    OBVIOUS
  <2>2. D \subseteq DOMAIN window /\ window' = [s \in D |-> window[s]]
    BY <1>3, <2>1 DEF CutShort
  <2>3. QED
    BY <1>1, <1>3, <2>2 DEF PanelTypes, WindowsFollow
<1>4. QED
  BY <1>2, <1>3

\* What a display shows is what is chosen of those attached.
LEMMA ChosenStill == ASSUME attached' = attached, NEW to PROVE Chosen(to)' = Chosen(to)
BY DEF Chosen, OrdinalOf

\* A change that asks for a pass and leaves the items alone keeps what is known of them.
LEMMA ItemsStand ==
  ASSUME DrawnRight, ClaimsFollow, owesPass', undrawn => undrawn',
         UNCHANGED <<retained, tracked, projected, spotOf>>
  PROVE  DrawnRight' /\ ClaimsFollow'
<1>1. DrawnRight'
  BY DEF DrawnRight, Once, AsLaid
<1>2. ClaimsFollow'
  BY DEF ClaimsFollow, ClaimedOn
<1>3. QED
  BY <1>1, <1>2

\* Choosing other displays has the windows rearranged before the next pass.
LEMMA RetargetKeeps ==
  ASSUME PanelsInv, NEW to, Retarget(to)
  PROVE  PanelsInv'
<1>1. PanelTypes /\ PassComes /\ WindowsFollow /\ DrawnRight /\ ClaimsFollow
  BY DEF PanelsInv
<1>2. /\ phase = "out" /\ display' = to /\ undrawn' = TRUE /\ owesPass' = TRUE
      /\ UNCHANGED <<attached, rearranged, trait, kindOf, spotOf, onlyOn, retained, tracked, phase, projected>>
      /\ \/ window' = Rebuilding(to) /\ refused' = refused \ {"panels", "frame"}
         \/ \E failing \in Chosen(to) : window' = CutShort(to, failing) /\ refused' = refused \cup {"panels"}
  BY DEF Retarget, Tweak
<1>3. /\ DOMAIN window' \subseteq Screens /\ window' \in [DOMAIN window' -> Window]
      /\ "panels" \notin refused' => DOMAIN window' = Chosen(to)
      /\ \A s \in DOMAIN window' :
           /\ \A t \in Traits \ refused' : window'[s].trait[t] = trait'[t]
           /\ ~window'[s].unsure => window'[s].rects = projected'[s]
  BY <1>1, <1>2, RebuildFollows
<1>4. DrawnRight' /\ ClaimsFollow'
  BY <1>1, <1>2, ItemsStand
<1>5. PanelTypes'
  BY <1>1, <1>2, <1>3 DEF PanelTypes
<1>6. PassComes'
  BY <1>1, <1>2 DEF PassComes
<1>7. WindowsFollow'
  BY <1>2, <1>3, ChosenStill DEF WindowsFollow
<1>8. QED
  BY <1>4, <1>5, <1>6, <1>7 DEF PanelsInv

\* A setting told to some of the windows, or to all.
LEMMA ToldFollows ==
  ASSUME PanelTypes, NEW t \in Traits, NEW v \in BOOLEAN, NEW told
  PROVE  /\ DOMAIN Told(window, t, v, told) = DOMAIN window
         /\ Told(window, t, v, told) \in [DOMAIN window -> Window]
         /\ \A s \in DOMAIN window :
              /\ s \in told => Told(window, t, v, told)[s].trait[t] = v
              /\ \A u \in Traits \ {t} : Told(window, t, v, told)[s].trait[u] = window[s].trait[u]
              /\ Told(window, t, v, told)[s].unsure = window[s].unsure
              /\ Told(window, t, v, told)[s].rects = window[s].rects
<1>1. \A s \in DOMAIN window : window[s] \in Window
  BY DEF PanelTypes
<1>2. ASSUME NEW w \in Window
      PROVE  /\ [w EXCEPT !.trait[t] = v] \in Window
             /\ [w EXCEPT !.trait[t] = v].trait[t] = v
             /\ \A u \in Traits \ {t} : [w EXCEPT !.trait[t] = v].trait[u] = w.trait[u]
             /\ [w EXCEPT !.trait[t] = v].unsure = w.unsure /\ [w EXCEPT !.trait[t] = v].rects = w.rects
  BY DEF Window
<1>3. QED
  BY <1>1, <1>2 DEF Told

\* A changed setting is told to windows, or is among the refused.
LEMMA SetTraitKeeps ==
  ASSUME PanelsInv, NEW t \in Traits, SetTrait(t)
  PROVE  PanelsInv'
<1>1. PanelTypes /\ PassComes /\ WindowsFollow /\ DrawnRight /\ ClaimsFollow
  BY DEF PanelsInv
<1>2. /\ phase = "out" /\ trait' = [trait EXCEPT ![t] = ~trait[t]] /\ undrawn' = TRUE /\ owesPass' = TRUE
      /\ UNCHANGED <<attached, rearranged, display, kindOf, spotOf, onlyOn, retained, tracked, phase, projected>>
      /\ \/ window' = Told(window, t, trait'[t], DOMAIN window) /\ refused' = refused \ {t}
         \/ \E failing \in DOMAIN window :
              window' = Told(window, t, trait'[t], ToldUntil(failing)) /\ refused' = refused \cup {t}
  BY DEF SetTrait, Tweak
<1>3. /\ trait' \in [Traits -> BOOLEAN] /\ trait'[t] \in BOOLEAN
      /\ \A u \in Traits \ {t} : trait'[u] = trait[u]
  BY <1>1, <1>2 DEF PanelTypes
<1>4. PICK told : /\ window' = Told(window, t, trait'[t], told)
                  /\ \/ told = DOMAIN window /\ refused' = refused \ {t}
                     \/ refused' = refused \cup {t}
  BY <1>2
<1>5. /\ DOMAIN window' = DOMAIN window /\ window' \in [DOMAIN window -> Window]
      /\ \A s \in DOMAIN window :
           /\ s \in told => window'[s].trait[t] = trait'[t]
           /\ \A u \in Traits \ {t} : window'[s].trait[u] = window[s].trait[u]
           /\ window'[s].unsure = window[s].unsure /\ window'[s].rects = window[s].rects
  BY <1>1, <1>3, <1>4, ToldFollows
<1>6. DrawnRight' /\ ClaimsFollow'
  BY <1>1, <1>2, ItemsStand
<1>7. PanelTypes'
  BY <1>1, <1>2, <1>3, <1>5 DEF PanelTypes
<1>8. PassComes'
  BY <1>1, <1>2 DEF PassComes
<1>9. WindowsFollow'
  <2>1. t # "panels" /\ ("panels" \in refused' <=> "panels" \in refused)
    BY <1>4, PanelsAssumption
  <2>2. ~rearranged' /\ "panels" \notin refused' => DOMAIN window' = Chosen(display)'
    BY <2>1, <1>1, <1>2, <1>5, ChosenStill DEF WindowsFollow
  <2>3. ASSUME NEW s \in DOMAIN window', NEW u \in Traits \ refused'
        PROVE  window'[s].trait[u] = trait'[u]
    <3>1. CASE u = t
      BY <3>1, <2>3, <1>4, <1>5
    <3>2. CASE u # t
      BY <3>2, <2>3, <1>1, <1>3, <1>4, <1>5 DEF WindowsFollow
    <3>3. QED
      BY <3>1, <3>2
  <2>4. \A s \in DOMAIN window' : ~window'[s].unsure => window'[s].rects = projected'[s]
    BY <1>1, <1>2, <1>5 DEF WindowsFollow
  <2>5. QED
    BY <2>2, <2>3, <2>4 DEF WindowsFollow
<1>10. QED
  BY <1>6, <1>7, <1>8, <1>9 DEF PanelsInv

\* A display that comes or goes has the windows rearranged before the next pass.
LEMMA PlugKeeps ==
  ASSUME PanelsInv, NEW s \in Screens, Plug(s)
  PROVE  PanelsInv'
<1>1. PanelTypes /\ PassComes /\ WindowsFollow /\ DrawnRight /\ ClaimsFollow
  BY DEF PanelsInv
<1>2. /\ phase = "out" /\ rearranged' = TRUE /\ owesPass' = TRUE
      /\ attached' = IF s \in attached THEN attached \ {s} ELSE attached \cup {s}
      /\ UNCHANGED <<display, trait, window, refused, kindOf, spotOf, onlyOn, undrawn, retained,
                     tracked, phase, projected>>
  BY DEF Plug, Tweak
<1>3. DrawnRight' /\ ClaimsFollow'
  BY <1>1, <1>2, ItemsStand
<1>4. PanelTypes'
  BY <1>1, <1>2 DEF PanelTypes
<1>5. PassComes' /\ WindowsFollow'
  BY <1>1, <1>2 DEF PassComes, WindowsFollow
<1>6. QED
  BY <1>3, <1>4, <1>5 DEF PanelsInv

\* The windows rebuilt are those of the displays chosen, with what is set.
LEMMA RebuildPanelsKeeps ==
  ASSUME PanelsInv, RebuildPanels
  PROVE  PanelsInv'
<1>1. PanelTypes /\ PassComes /\ WindowsFollow /\ DrawnRight /\ ClaimsFollow
  BY DEF PanelsInv
<1>2. /\ phase = "out" /\ owesPass /\ phase' = "end" /\ rearranged' = FALSE
      /\ undrawn' = (undrawn \/ rearranged)
      /\ UNCHANGED <<attached, display, trait, kindOf, spotOf, onlyOn, owesPass, retained, tracked, projected>>
  BY DEF RebuildPanels
<1>3. /\ DOMAIN window' \subseteq Screens /\ window' \in [DOMAIN window' -> Window]
      /\ "panels" \notin refused' => DOMAIN window' = Chosen(display)
      /\ \A s \in DOMAIN window' :
           /\ \A t \in Traits \ refused' : window'[s].trait[t] = trait'[t]
           /\ ~window'[s].unsure => window'[s].rects = projected'[s]
  <2>1. CASE ~rearranged /\ UNCHANGED <<window, refused>>
    BY <2>1, <1>1, <1>2 DEF WindowsFollow, PanelTypes
  <2>2. CASE \/ window' = Rebuilding(display) /\ refused' = refused \ {"panels", "frame"}
             \/ \E failing \in Chosen(display) :
                  window' = CutShort(display, failing) /\ refused' = refused \cup {"panels"}
    BY <2>2, <1>1, <1>2, RebuildFollows
  <2>3. QED
    BY <2>1, <2>2 DEF RebuildPanels
<1>4. DrawnRight' /\ ClaimsFollow'
  BY <1>1, <1>2, ItemsStand
<1>5. PanelTypes'
  BY <1>1, <1>2, <1>3 DEF PanelTypes
<1>6. PassComes'
  BY <1>1, <1>2 DEF PassComes
<1>7. WindowsFollow'
  BY <1>2, <1>3, ChosenStill DEF WindowsFollow
<1>8. QED
  BY <1>4, <1>5, <1>6, <1>7 DEF PanelsInv

\* An item that wants the pointer in another way has a pass coming.
LEMMA WantPointerKeeps ==
  ASSUME PanelsInv, NEW i \in PanelItems, NEW k \in PointerKind \cup {"none"}, WantPointer(i, k)
  PROVE  PanelsInv'
<1>1. PanelTypes /\ PassComes /\ WindowsFollow /\ DrawnRight /\ ClaimsFollow
  BY DEF PanelsInv
<1>2. /\ phase = "out" /\ kindOf' = [kindOf EXCEPT ![i] = k] /\ owesPass' = TRUE
      /\ UNCHANGED <<attached, rearranged, display, trait, spotOf, onlyOn, undrawn, retained, tracked,
                     phase, projected>>
  BY DEF WantPointer, Tweak
<1>3. /\ DOMAIN window' = DOMAIN window /\ window' \in [DOMAIN window -> Window]
      /\ \A s \in DOMAIN window : /\ window'[s].trait = window[s].trait
                                  /\ window'[s].unsure = window[s].unsure
                                  /\ window'[s].rects = window[s].rects
      /\ refused' \ {"clicks"} = refused \ {"clicks"}
      /\ refused \subseteq refused'
  <2>1. ASSUME NEW told
        PROVE  /\ DOMAIN Clickable(told) = DOMAIN window /\ Clickable(told) \in [DOMAIN window -> Window]
               /\ \A s \in DOMAIN window : /\ Clickable(told)[s].trait = window[s].trait
                                           /\ Clickable(told)[s].unsure = window[s].unsure
                                           /\ Clickable(told)[s].rects = window[s].rects
    <3>1. ASSUME NEW s \in DOMAIN window
          PROVE  /\ Clickable(told)[s] \in Window /\ Clickable(told)[s].trait = window[s].trait
                 /\ Clickable(told)[s].unsure = window[s].unsure
                 /\ Clickable(told)[s].rects = window[s].rects
      <4>1. PICK b \in BOOLEAN : b <=> window[s].clickable \/ s \in told
        OBVIOUS
      <4>2. Clickable(told)[s] = [window[s] EXCEPT !.clickable = b] /\ window[s] \in Window
        BY <4>1, <1>1 DEF Clickable, PanelTypes, Window
      <4>3. QED
        BY <4>2 DEF Window
    <3>2. QED
      BY <3>1 DEF Clickable
  <2>2. CASE UNCHANGED <<window, refused>>
    BY <2>2, <1>1 DEF PanelTypes
  <2>3. CASE window' = Clickable(DOMAIN window) /\ UNCHANGED refused
    BY <2>1, <2>3
  <2>4. CASE \E failing \in DOMAIN window :
               window' = Clickable(ToldUntil(failing)) /\ refused' = refused \cup {"clicks"}
    BY <2>1, <2>4
  <2>5. QED
    BY <2>2, <2>3, <2>4 DEF WantPointer
<1>4. DrawnRight' /\ ClaimsFollow'
  BY <1>1, <1>2, ItemsStand
<1>5. PanelTypes'
  BY <1>1, <1>2, <1>3 DEF PanelTypes
<1>6. PassComes'
  BY <1>1, <1>2 DEF PassComes
<1>7. WindowsFollow'
  <2>1. \A t \in Traits \ refused' : t \in Traits \ refused
    BY <1>3
  <2>2. "panels" \notin refused' => "panels" \notin refused
    BY <1>3
  <2>3. QED
    BY <2>1, <2>2, <1>1, <1>2, <1>3, ChosenStill DEF WindowsFollow
<1>8. QED
  BY <1>4, <1>5, <1>6, <1>7 DEF PanelsInv

\* An item laid out elsewhere has a repaint coming.
LEMMA LayKeeps ==
  ASSUME PanelsInv, NEW i \in PanelItems, NEW spot \in Spots \cup {0}, Lay(i, spot)
  PROVE  PanelsInv'
<1>1. PanelTypes /\ PassComes /\ WindowsFollow /\ DrawnRight /\ ClaimsFollow
  BY DEF PanelsInv
<1>2. /\ phase = "out" /\ spotOf' = [spotOf EXCEPT ![i] = spot] /\ undrawn' = TRUE /\ owesPass' = TRUE
      /\ UNCHANGED <<attached, rearranged, display, trait, window, refused, kindOf, onlyOn, retained,
                     tracked, phase, projected>>
  BY DEF Lay, Tweak
<1>3. DrawnRight'
  BY <1>1, <1>2 DEF DrawnRight, Once
<1>4. ClaimsFollow'
  BY <1>1, <1>2 DEF ClaimsFollow, ClaimedOn
<1>5. PanelTypes'
  BY <1>1, <1>2 DEF PanelTypes
<1>6. PassComes' /\ WindowsFollow'
  BY <1>1, <1>2, ChosenStill DEF PassComes, WindowsFollow
<1>7. QED
  BY <1>3, <1>4, <1>5, <1>6 DEF PanelsInv

-----------------------------------------------------------------------------
\* What an item was drawn in.
LEMMA AreasAre ==
  ASSUME NEW i \in PanelItems, NEW shownThen, shownThen \in [Screens -> SUBSET (PanelItems \X Spots)]
  PROVE  \A a : a \in AreasOf(i, shownThen) <=>
           \E s \in Screens : \E p \in shownThen[s] : p[1] = i /\ a = <<kindOf[i], s, p[2]>>
BY DEF AreasOf

\* An item holds one area it was drawn in, and if it was drawn in one, that.
LEMMA PlacedRight ==
  ASSUME NEW i \in PanelItems, NEW shownThen, shownThen \in [Screens -> SUBSET (PanelItems \X Spots)],
         Once(shownThen), Single(tracked[i])
  PROVE  /\ Placing(i, shownThen) \subseteq AreasOf(i, shownThen)
         /\ Single(Placing(i, shownThen))
         /\ kindOf[i] = "none" => Placing(i, shownThen) = {}
         /\ kindOf[i] # "none" /\ Single(AreasOf(i, shownThen)) => Placing(i, shownThen) = AreasOf(i, shownThen)
<1>1. PICK areas : areas = AreasOf(i, shownThen)
  OBVIOUS
<1>2. PICK other : other = areas \ tracked[i]
  OBVIOUS
<1>3. PICK last : last = Max({a[2] : a \in other})
  OBVIOUS
<1>4. Placing(i, shownThen) = IF kindOf[i] = "none" \/ areas = {} THEN {}
                          ELSE IF other = {} THEN tracked[i] ELSE {a \in other : a[2] = last}
  BY <1>1, <1>2, <1>3 DEF Placing
<1>5. CASE kindOf[i] = "none" \/ areas = {}
  BY <1>1, <1>4, <1>5 DEF Single
<1>6. CASE kindOf[i] # "none" /\ areas # {} /\ other = {}
  <2>1. areas \subseteq tracked[i] /\ Placing(i, shownThen) = tracked[i]
    BY <1>2, <1>4, <1>6
  <2>2. tracked[i] = areas
    BY <2>1, <1>6 DEF Single
  <2>3. QED
    BY <2>1, <2>2, <1>1, <1>6
<1>7. CASE kindOf[i] # "none" /\ areas # {} /\ other # {}
  <2>1. Placing(i, shownThen) = {a \in other : a[2] = last} /\ other \subseteq areas
    BY <1>2, <1>4, <1>7
  <2>2. \A a \in areas, b \in areas : a[2] = b[2] => a = b
    <3>1. SUFFICES ASSUME NEW a \in areas, NEW b \in areas, a[2] = b[2] PROVE a = b
      OBVIOUS
    <3>2. PICK s \in Screens : \E p \in shownThen[s] : p[1] = i /\ a = <<kindOf[i], s, p[2]>>
      BY <1>1, AreasAre
    <3>3. PICK t \in Screens : \E q \in shownThen[t] : q[1] = i /\ b = <<kindOf[i], t, q[2]>>
      BY <1>1, AreasAre
    <3>4. PICK p \in shownThen[s] : p[1] = i /\ a = <<kindOf[i], s, p[2]>>
      BY <3>2
    <3>5. PICK q \in shownThen[t] : q[1] = i /\ b = <<kindOf[i], t, q[2]>>
      BY <3>3
    <3>6. s = t
      BY <3>1, <3>4, <3>5
    <3>7. p = q
      BY <3>4, <3>5, <3>6 DEF Once
    <3>8. QED
      BY <3>4, <3>5, <3>6, <3>7
  <2>3. Single(Placing(i, shownThen))
    BY <2>1, <2>2 DEF Single
  <2>4. ASSUME Single(areas) PROVE Placing(i, shownThen) = areas
    <3>1. PICK x \in other : TRUE
      BY <1>7
    <3>2. areas = {x} /\ other = {x}
      BY <2>1, <2>4, <3>1 DEF Single
    <3>3. PICK s \in Screens : x[2] = s
      <4>1. PICK s \in Screens : \E p \in shownThen[s] : p[1] = i /\ x = <<kindOf[i], s, p[2]>>
        <5>1. x \in AreasOf(i, shownThen)
          BY <1>1, <3>2
        <5>2. QED
          BY <5>1, AreasAre
      <4>2. QED
        BY <4>1
    <3>4. {a[2] : a \in other} = {s} /\ s \in Nat
      BY <3>2, <3>3, PanelsAssumption
    <3>5. last = s
      BY <3>4, <1>3 DEF Max
    <3>6. QED
      BY <2>1, <3>2, <3>3, <3>5
  <2>5. QED
    BY <2>1, <2>3, <2>4, <1>1, <1>7
<1>8. QED
  BY <1>5, <1>6, <1>7

\* A window that is told what is claimed, or refuses some of it.
LEMMA TrackingRight ==
  ASSUME NEW w \in Window, NEW claimed \in Rects, NEW x \in Tracking(w, claimed)
  PROVE  /\ x \in Window /\ x.trait = w.trait
         /\ ~x.unsure => x.rects = claimed
<1>1. PICK b \in BOOLEAN, some \in Rects : x = [w EXCEPT !.rects = some, !.unsure = b] /\ (~b => some = claimed)
  <2>1. w = [w EXCEPT !.rects = w.rects] /\ w.rects \in Rects
    BY DEF Window
  <2>2. CASE x = [w EXCEPT !.rects = claimed, !.unsure = FALSE]
    BY <2>2
  <2>3. CASE x = [w EXCEPT !.unsure = TRUE]
    <3>1. x = [w EXCEPT !.rects = w.rects, !.unsure = TRUE]
      BY <2>3 DEF Window
    <3>2. QED
      BY <3>1, <2>1
  <2>4. CASE \E some \in SUBSET claimed : x = [w EXCEPT !.rects = some, !.unsure = TRUE]
    <3>1. PICK some \in SUBSET claimed : x = [w EXCEPT !.rects = some, !.unsure = TRUE]
      BY <2>4
    <3>2. some \in Rects
      BY DEF Rects
    <3>3. QED
      BY <3>1, <3>2
  <2>5. QED
    BY <2>2, <2>3, <2>4 DEF Tracking
<1>2. QED
  BY <1>1 DEF Window

\* The end of a pass: what was drawn is where the items are laid out unless a
\* repaint is wanted, and what is claimed is what was drawn.
LEMMA EndPanelPassKeeps ==
  ASSUME PanelsInv, EndPanelPass
  PROVE  PanelsInv'
<1>1. PanelTypes /\ PassComes /\ WindowsFollow /\ DrawnRight /\ ClaimsFollow
  BY DEF PanelsInv
<1>2. /\ phase = "end" /\ phase' = "out" /\ owesPass' = undrawn'
      /\ UNCHANGED <<attached, rearranged, display, trait, refused, kindOf, spotOf, onlyOn>>
  BY DEF EndPanelPass
<1>3. /\ undrawn' \in BOOLEAN
      /\ retained' \in [Screens -> SUBSET (PanelItems \X Spots)]
      /\ Once(retained') /\ (~undrawn' => \A s \in Screens : \A p \in retained'[s] : p[2] = spotOf[p[1]])
  <2>1. CASE KeepDrawn
    BY <2>1, <1>1 DEF KeepDrawn, PanelTypes, DrawnRight, AsLaid
  <2>2. CASE Repaint
    <3>1. undrawn' = FALSE /\ retained' = [s \in Screens |-> IF trait["hidden"] THEN {} ELSE Laid(s)]
      BY <2>2 DEF Repaint
    <3>2. \A s \in Screens : \A p \in Laid(s) :
            p \in PanelItems \X Spots /\ p[2] = spotOf[p[1]]
      BY <1>1 DEF Laid, PanelTypes
    <3>3. \A s \in Screens : \A p, q \in Laid(s) : p[1] = q[1] => p = q
      BY DEF Laid
    <3>4. \A s \in Screens : retained'[s] \subseteq Laid(s)
      BY <3>1
    <3>5. retained' \in [Screens -> SUBSET (PanelItems \X Spots)]
      <4>1. \A s \in Screens : (IF trait["hidden"] THEN {} ELSE Laid(s)) \in SUBSET (PanelItems \X Spots)
        BY <3>2
      <4>2. QED
        BY <3>1, <4>1
    <3>6. Once(retained')
      BY <3>3, <3>4 DEF Once
    <3>7. QED
      BY <3>1, <3>2, <3>4, <3>5, <3>6
  <2>3. QED
    BY <2>1, <2>2 DEF EndPanelPass
<1>4. /\ tracked' = [i \in PanelItems |-> Placing(i, retained')]
      /\ projected' = [s \in Screens |-> ClaimedOn(s, tracked')]
      /\ DOMAIN window' = DOMAIN window /\ window' = [s \in DOMAIN window |-> window'[s]]
      /\ \A s \in DOMAIN window :
           IF s \in MovedOn(tracked') THEN window'[s] \in Tracking(window[s], projected'[s])
           ELSE window'[s] = window[s]
  BY DEF EndPanelPass, Track
<1>5. ASSUME NEW i \in PanelItems
      PROVE  /\ tracked'[i] \subseteq AreasOf(i, retained') /\ Single(tracked'[i])
             /\ kindOf[i] = "none" => tracked'[i] = {}
             /\ kindOf[i] # "none" /\ Single(AreasOf(i, retained')) => tracked'[i] = AreasOf(i, retained')
  <2>1. Single(tracked[i]) /\ tracked'[i] = Placing(i, retained')
    BY <1>1, <1>4 DEF ClaimsFollow
  <2>2. QED
    BY <2>1, <1>3, PlacedRight
<1>6. tracked' \in [PanelItems -> SUBSET (PointerKind \X Screens \X Spots)]
  <2>1. ASSUME NEW i \in PanelItems, NEW a \in tracked'[i]
        PROVE  a \in PointerKind \X Screens \X Spots
    <3>1. a \in AreasOf(i, retained') /\ kindOf[i] \in PointerKind
      BY <2>1, <1>1, <1>5 DEF PanelTypes
    <3>2. PICK s \in Screens : \E p \in retained'[s] : p[1] = i /\ a = <<kindOf[i], s, p[2]>>
      BY <3>1, <1>3, AreasAre
    <3>3. PICK p \in retained'[s] : a = <<kindOf[i], s, p[2]>>
      BY <3>2
    <3>4. p[2] \in Spots
      BY <3>3, <1>3
    <3>5. QED
      BY <3>1, <3>3, <3>4
  <2>2. QED
    BY <2>1, <1>4
<1>7. \A s \in Screens : ClaimedOn(s, tracked') \in Rects
  BY <1>6 DEF ClaimedOn, Rects
<1>8. projected' \in [Screens -> Rects] /\ \A s \in Screens : projected'[s] = ClaimedOn(s, tracked')
  BY <1>4, <1>7
<1>9. ASSUME NEW s \in DOMAIN window
      PROVE  /\ window'[s] \in Window /\ window'[s].trait = window[s].trait
             /\ ~window'[s].unsure => window'[s].rects = projected'[s]
  <2>1. s \in Screens /\ window[s] \in Window /\ projected'[s] \in Rects
    BY <1>1, <1>8 DEF PanelTypes
  <2>2. CASE s \in MovedOn(tracked')
    <3>1. window'[s] \in Tracking(window[s], projected'[s])
      BY <2>2, <1>4
    <3>2. QED
      BY <3>1, <2>1, TrackingRight
  <2>3. CASE s \notin MovedOn(tracked')
    <3>1. window'[s] = window[s] /\ projected'[s] = projected[s]
      BY <2>1, <2>3, <1>4, <1>8 DEF MovedOn
    <3>2. QED
      BY <3>1, <2>1, <1>1 DEF WindowsFollow
  <2>4. QED
    BY <2>2, <2>3
<1>10. PanelTypes'
  <2>1. window' \in [DOMAIN window' -> Window]
    BY <1>4, <1>9
  <2>2. QED
    BY <2>1, <1>1, <1>2, <1>3, <1>4, <1>6, <1>8 DEF PanelTypes
<1>11. PassComes'
  BY <1>1, <1>2 DEF PassComes
<1>12. WindowsFollow'
  <2>1. Chosen(display)' = Chosen(display)
    BY <1>2, ChosenStill
  <2>2. ASSUME NEW s \in DOMAIN window'
        PROVE  /\ \A t \in Traits \ refused' : window'[s].trait[t] = trait'[t]
               /\ ~window'[s].unsure => window'[s].rects = projected'[s]
    BY <1>1, <1>2, <1>4, <1>9 DEF WindowsFollow
  <2>3. QED
    BY <2>1, <2>2, <1>1, <1>2, <1>4 DEF WindowsFollow
<1>13. DrawnRight'
  BY <1>2, <1>3 DEF DrawnRight, AsLaid, Once
<1>14. ClaimsFollow'
  <2>1. \A i \in PanelItems : AreasOf(i, retained)' = AreasOf(i, retained')
    BY <1>2 DEF AreasOf
  <2>2. \A i \in PanelItems : HeldRight(i)'
    BY <2>1, <1>2, <1>5 DEF HeldRight
  <2>3. QED
    BY <2>2, <1>5, <1>8 DEF ClaimsFollow
<1>15. QED
  BY <1>10, <1>11, <1>12, <1>13, <1>14 DEF PanelsInv

\* Windows of all displays, and nothing drawn.
LEMMA PanelsStart == PanelsInit => PanelsInv
<1>1. SUFFICES ASSUME PanelsInit PROVE PanelsInv
  OBVIOUS
<1>2. /\ attached \subseteq Screens /\ rearranged = FALSE /\ display = 0 /\ trait = Plain
      /\ projected = [s \in Screens |-> {}] /\ window = [s \in attached |-> Opened(s)]
      /\ kindOf = [i \in PanelItems |-> "none"] /\ spotOf \in [PanelItems -> Spots]
      /\ undrawn = TRUE /\ owesPass = TRUE /\ phase = "out"
      /\ retained = [s \in Screens |-> {}] /\ tracked = [i \in PanelItems |-> {}]
  BY <1>1 DEF PanelsInit
<1>3. trait \in [Traits -> BOOLEAN] /\ DOMAIN window = attached /\ \A s \in attached : window[s] = Opened(s)
  BY <1>2 DEF Plain
<1>4. ASSUME NEW s \in attached
      PROVE  /\ Opened(s) \in Window /\ Opened(s).trait = trait
             /\ Opened(s).rects = {} /\ projected[s] = {}
  <2>1. OrdinalOf(s) \in Nat
    BY <1>2, OrdinalTyped
  <2>2. PICK b \in BOOLEAN : b <=> projected[s] # {}
    OBVIOUS
  <2>3. Opened(s) = [ordinal |-> OrdinalOf(s), trait |-> trait, clickable |-> FALSE, rects |-> {}, unsure |-> b]
    BY <2>2 DEF Opened
  <2>4. {} \in Rects
    BY DEF Rects
  <2>5. QED
    BY <2>1, <2>2, <2>3, <2>4, <1>2, <1>3 DEF Window
<1>5. Chosen(display) = attached
  BY <1>2 DEF Chosen, Targets
<1>6. PanelTypes
  <2>1. window \in [DOMAIN window -> Window]
    BY <1>2, <1>3, <1>4
  <2>2. {} \in Rects
    BY DEF Rects
  <2>3. QED
    BY <2>1, <2>2, <1>2, <1>3 DEF PanelTypes
<1>7. PassComes
  BY <1>2 DEF PassComes
<1>8. WindowsFollow
  BY <1>2, <1>3, <1>4, <1>5 DEF WindowsFollow
<1>9. DrawnRight
  BY <1>2 DEF DrawnRight, Once
<1>10. ClaimsFollow
  BY <1>2 DEF ClaimsFollow, ClaimedOn, Single
<1>11. QED
  BY <1>6, <1>7, <1>8, <1>9, <1>10 DEF PanelsInv

\* Every step keeps the invariant.
LEMMA PanelsStep == PanelsInv /\ [PanelsNext]_panelsVars => PanelsInv'
<1>1. SUFFICES ASSUME PanelsInv, [PanelsNext]_panelsVars PROVE PanelsInv'
  OBVIOUS
<1>2. CASE \E to \in 0..Cardinality(Screens) : Retarget(to)
  BY <1>1, <1>2, RetargetKeeps
<1>3. CASE \E t \in Traits : SetTrait(t)
  BY <1>1, <1>3, SetTraitKeeps
<1>4. CASE \E s \in Screens : Plug(s)
  BY <1>1, <1>4, PlugKeeps
<1>5. CASE RebuildPanels
  BY <1>1, <1>5, RebuildPanelsKeeps
<1>6. CASE \E i \in PanelItems, k \in PointerKind \cup {"none"} : WantPointer(i, k)
  BY <1>1, <1>6, WantPointerKeeps
<1>7. CASE \E i \in PanelItems, spot \in Spots \cup {0} : Lay(i, spot)
  BY <1>1, <1>7, LayKeeps
<1>8. CASE EndPanelPass
  BY <1>1, <1>8, EndPanelPassKeeps
<1>9. CASE UNCHANGED panelsVars
  <2>1. PanelTypes'
    BY <1>1, <1>9 DEF panelsVars, PanelsInv, PanelTypes
  <2>2. PassComes' /\ WindowsFollow'
    BY <1>1, <1>9, ChosenStill DEF panelsVars, PanelsInv, PassComes, WindowsFollow
  <2>3. DrawnRight'
    BY <1>1, <1>9 DEF panelsVars, PanelsInv, DrawnRight, Once, AsLaid
  <2>4. ClaimsFollow'
    BY <1>1, <1>9 DEF panelsVars, PanelsInv, ClaimsFollow, ClaimedOn, HeldRight, AreasOf
  <2>5. QED
    BY <2>1, <2>2, <2>3, <2>4 DEF PanelsInv
<1>10. QED
  BY <1>1, <1>2, <1>3, <1>4, <1>5, <1>6, <1>7, <1>8, <1>9 DEF PanelsNext

\* What is claimed at rest is what was drawn of the items that want the pointer.
LEMMA RestFollows == PanelsInv => PanelsFollow
<1>1. SUFFICES ASSUME PanelsInv, PanelsRest PROVE
        /\ "panels" \notin refused => DOMAIN window = Chosen(display)
        /\ \A s \in DOMAIN window :
             /\ \A t \in Traits \ refused : window[s].trait[t] = trait[t]
             /\ ~window[s].unsure =>
                  /\ \A i \in PanelItems :
                       PlacedOn(i) = {s} /\ WatchedFor(i, s) => spotOf[i] \in window[s].rects
                  /\ \A r \in window[s].rects : \E i \in PanelItems : WatchedFor(i, s) /\ spotOf[i] = r
  BY DEF PanelsFollow
<1>2. /\ PanelTypes /\ PassComes /\ WindowsFollow /\ DrawnRight /\ ClaimsFollow
      /\ phase = "out" /\ ~owesPass /\ ~rearranged /\ ~undrawn
  BY <1>1 DEF PanelsInv, PanelsRest, PassComes
<1>3. /\ retained \in [Screens -> SUBSET (PanelItems \X Spots)]
      /\ \A s \in Screens : \A p \in retained[s] : p[2] = spotOf[p[1]]
      /\ \A i \in PanelItems : HeldRight(i)
      /\ DOMAIN window \subseteq Screens
  BY <1>2 DEF PanelTypes, DrawnRight, AsLaid, ClaimsFollow
<1>4. ASSUME NEW s \in DOMAIN window, ~window[s].unsure
      PROVE  window[s].rects = ClaimedOn(s, tracked) /\ s \in Screens
  BY <1>2, <1>3, <1>4 DEF WindowsFollow, ClaimsFollow
<1>5. ASSUME NEW s \in DOMAIN window, ~window[s].unsure, NEW i \in PanelItems,
             PlacedOn(i) = {s}, WatchedFor(i, s)
      PROVE  spotOf[i] \in window[s].rects
  <2>1. <<i, spotOf[i]>> \in retained[s] /\ kindOf[i] # "none" /\ s \in Screens
    BY <1>3, <1>5 DEF WatchedFor
  <2>2. \A a \in AreasOf(i, retained) : a = <<kindOf[i], s, spotOf[i]>>
    <3>1. SUFFICES ASSUME NEW a \in AreasOf(i, retained) PROVE a = <<kindOf[i], s, spotOf[i]>>
      OBVIOUS
    <3>2. PICK t \in Screens : \E p \in retained[t] : p[1] = i /\ a = <<kindOf[i], t, p[2]>>
      BY <1>3, AreasAre
    <3>3. PICK p \in retained[t] : p[1] = i /\ a = <<kindOf[i], t, p[2]>>
      BY <3>2
    <3>4. t \in PlacedOn(i)
      BY <3>3 DEF PlacedOn
    <3>5. t = s /\ p[2] = spotOf[i]
      BY <3>3, <3>4, <1>3, <1>5
    <3>6. QED
      BY <3>3, <3>5
  <2>3. <<kindOf[i], s, spotOf[i]>> \in AreasOf(i, retained)
    <3>1. \E p \in retained[s] : p[1] = i /\ <<kindOf[i], s, spotOf[i]>> = <<kindOf[i], s, p[2]>>
      BY <2>1
    <3>2. QED
      BY <2>1, <3>1, <1>3, AreasAre
  <2>4. <<kindOf[i], s, spotOf[i]>> \in tracked[i]
    BY <2>1, <2>2, <2>3, <1>3 DEF HeldRight, Single
  <2>5. spotOf[i] \in ClaimedOn(s, tracked)
    <3>1. <<kindOf[i], s, spotOf[i]>> \in UNION {tracked[j] : j \in PanelItems}
      BY <2>4
    <3>2. <<kindOf[i], s, spotOf[i]>>[2] = s /\ <<kindOf[i], s, spotOf[i]>>[3] = spotOf[i]
      OBVIOUS
    <3>3. QED
      BY <3>1, <3>2 DEF ClaimedOn
  <2>6. QED
    BY <2>5, <1>4, <1>5
<1>6. ASSUME NEW s \in DOMAIN window, ~window[s].unsure, NEW r \in window[s].rects
      PROVE  \E i \in PanelItems : WatchedFor(i, s) /\ spotOf[i] = r
  <2>1. PICK i \in PanelItems : \E a \in tracked[i] : a[2] = s /\ a[3] = r
    BY <1>4, <1>6 DEF ClaimedOn
  <2>2. PICK a \in tracked[i] : a[2] = s /\ a[3] = r
    BY <2>1
  <2>3. a \in AreasOf(i, retained) /\ kindOf[i] # "none"
    BY <2>2, <1>3 DEF HeldRight
  <2>4. PICK t \in Screens : \E p \in retained[t] : p[1] = i /\ a = <<kindOf[i], t, p[2]>>
    BY <2>3, <1>3, AreasAre
  <2>5. PICK p \in retained[t] : p[1] = i /\ a = <<kindOf[i], t, p[2]>>
    BY <2>4
  <2>6. t = s /\ r = p[2]
    BY <2>2, <2>5
  <2>7. p[2] = spotOf[i] /\ p \in PanelItems \X Spots
    BY <2>5, <1>3
  <2>8. p = <<i, spotOf[i]>>
    BY <2>5, <2>7
  <2>9. QED
    BY <2>3, <2>5, <2>6, <2>7, <2>8 DEF WatchedFor
<1>7. "panels" \notin refused => DOMAIN window = Chosen(display)
  BY <1>2 DEF WindowsFollow
<1>8. \A s \in DOMAIN window : \A t \in Traits \ refused : window[s].trait[t] = trait[t]
  BY <1>2 DEF WindowsFollow
<1>9. QED
  BY <1>5, <1>6, <1>7, <1>8

\* Once no pass is asked for, the windows are those of the displays chosen, with
\* the settings there are, as far as the window server took them; and each
\* watches the rectangles of what wants the pointer and was drawn there, and no
\* other (bar.rs, tracking.rs), however settings, displays and items changed.
THEOREM WindowsAreRight == PanelsSpec => []PanelsFollow
<1>1. PanelsSpec => []PanelsInv
  BY PanelsStart, PanelsStep, PTL DEF PanelsSpec
<1>2. QED
  BY <1>1, RestFollows, PTL

\* What the invariant of the panels leaves open of its types.
OrdinalsBounded(w) == \A s \in DOMAIN w : w[s].ordinal \in 1..Cardinality(Screens)
PanelsRemain ==
  /\ tweaks \in 0..MaxPanelChanges /\ display \in Nat /\ onlyOn \in [PanelItems -> Nat]
  /\ refused \subseteq Traits \cup {"panels", "clicks"} /\ OrdinalsBounded(window)

LEMMA ScreensCounted == Cardinality(Screens) \in Nat
BY PanelsAssumption, FS_CardinalityType

\* A display that is attached has a number among those of the displays there can be.
LEMMA OrdinalBounded ==
  ASSUME attached \subseteq Screens, NEW s \in attached
  PROVE  OrdinalOf(s) \in 1..Cardinality(Screens)
<1> DEFINE before == {t \in attached : t <= s}
<1>1. before \subseteq Screens /\ IsFiniteSet(Screens) /\ s \in Nat
  BY PanelsAssumption
<1>2. IsFiniteSet(before) /\ Cardinality(before) <= Cardinality(Screens)
  BY <1>1, FS_Subset
<1>3. s \in before
  BY <1>1
<1>4. Cardinality(before) \in Nat /\ Cardinality(before) # 0
  BY <1>2, <1>3, FS_CardinalityType, FS_EmptySet
<1> HIDE DEF before
<1>5. PICK n \in Nat : n = Cardinality(before)
  BY <1>4
<1>6. PICK k \in Nat : k = Cardinality(Screens)
  BY ScreensCounted
<1>7. n \in 1..k
  BY <1>2, <1>4, <1>5, <1>6
<1>8. QED
  BY <1>5, <1>6, <1>7 DEF OrdinalOf, before

LEMMA PanelsRemainStart == PanelsInit => PanelsRemain
<1> SUFFICES ASSUME PanelsInit PROVE PanelsRemain
  OBVIOUS
<1>1. attached \subseteq Screens /\ window = [s \in attached |-> Opened(s)]
  BY DEF PanelsInit
<1>2. \A s \in attached : Opened(s).ordinal = OrdinalOf(s)
  BY DEF Opened
<1>3. OrdinalsBounded(window)
  BY <1>1, <1>2, OrdinalBounded DEF OrdinalsBounded
<1>4. QED
  BY <1>3, PanelsAssumption DEF PanelsInit, PanelsRemain

\* A rebuild, whole or cut short, numbers the windows by the displays that are attached.
LEMMA RebuildNumbers ==
  ASSUME PanelTypes, PanelsRemain, NEW to,
         \/ window' = Rebuilding(to) /\ refused' = refused \ {"panels", "frame"}
         \/ \E failing \in Chosen(to) : window' = CutShort(to, failing) /\ refused' = refused \cup {"panels"}
  PROVE  OrdinalsBounded(window') /\ refused' \subseteq Traits \cup {"panels", "clicks"}
<1>1. CASE window' = Rebuilding(to) /\ refused' = refused \ {"panels", "frame"}
  <2>1. ASSUME NEW s \in Chosen(to) PROVE Rebuilt(s).ordinal = OrdinalOf(s)
    <3>1. CASE s \in DOMAIN window
      <4>1. window[s] \in Window
        BY <3>1 DEF PanelTypes
      <4>2. QED
        BY <3>1, <4>1 DEF Rebuilt, Framed, Window
    <3>2. CASE s \notin DOMAIN window
      BY <3>2 DEF Rebuilt, Opened
    <3>3. QED
      BY <3>1, <3>2
  <2>2. Chosen(to) \subseteq attached /\ attached \subseteq Screens
    BY DEF Chosen, PanelTypes
  <2>3. QED
    BY <1>1, <2>1, <2>2, OrdinalBounded DEF Rebuilding, OrdinalsBounded, PanelsRemain
<1>2. ASSUME NEW failing, window' = CutShort(to, failing), refused' = refused \cup {"panels"}
      PROVE  OrdinalsBounded(window') /\ refused' \subseteq Traits \cup {"panels", "clicks"}
  BY <1>2 DEF CutShort, OrdinalsBounded, PanelsRemain
<1>3. QED
  BY <1>1, <1>2

\* Whatever is retargeted, set, attached or built, that is so.
LEMMA PanelsRemainStep == PanelsInv /\ PanelsRemain /\ [PanelsNext]_panelsVars => PanelsRemain'
<1> SUFFICES ASSUME PanelsInv, PanelsRemain, [PanelsNext]_panelsVars PROVE PanelsRemain'
  OBVIOUS
<1>1. PanelTypes /\ DOMAIN window = DOMAIN window
  BY DEF PanelsInv
<1>2. \A s \in DOMAIN window : window[s] \in Window
  BY <1>1 DEF PanelTypes
<1>3. ASSUME UNCHANGED <<display, onlyOn>>, tweaks' \in 0..MaxPanelChanges,
             refused' \subseteq Traits \cup {"panels", "clicks"}, DOMAIN window' = DOMAIN window,
             \A s \in DOMAIN window : window'[s].ordinal = window[s].ordinal
      PROVE  PanelsRemain'
  BY <1>3 DEF PanelsRemain, OrdinalsBounded
<1>4. Tweak => tweaks' \in 0..MaxPanelChanges
  BY PanelsAssumption DEF Tweak, PanelsRemain
<1>5. refused \subseteq Traits \cup {"panels", "clicks"}
  BY DEF PanelsRemain
<1>6. ASSUME NEW to \in 0..Cardinality(Screens), Retarget(to) PROVE PanelsRemain'
  <2>1. OrdinalsBounded(window') /\ refused' \subseteq Traits \cup {"panels", "clicks"}
    BY <1>1, <1>6, RebuildNumbers DEF Retarget
  <2>2. display' \in Nat
    BY <1>6, ScreensCounted DEF Retarget
  <2>3. QED
    BY <1>4, <1>6, <2>1, <2>2 DEF Retarget, PanelsRemain, OrdinalsBounded
<1>7. ASSUME NEW t \in Traits, SetTrait(t) PROVE PanelsRemain'
  <2>1. PICK told : window' = Told(window, t, trait'[t], told)
    BY <1>7 DEF SetTrait
  <2>2. DOMAIN window' = DOMAIN window /\ \A s \in DOMAIN window : window'[s].ordinal = window[s].ordinal
    BY <1>2, <2>1 DEF Told, Window
  <2>3. QED
    BY <1>3, <1>4, <1>5, <1>7, <2>2 DEF SetTrait
<1>8. ASSUME NEW s \in Screens, Plug(s) PROVE PanelsRemain'
  BY <1>3, <1>4, <1>5, <1>8 DEF Plug
<1>9. CASE RebuildPanels
  <2>1. CASE UNCHANGED <<window, refused>>
    BY <1>3, <1>5, <1>9, <2>1 DEF RebuildPanels, PanelsRemain
  <2>2. CASE ~UNCHANGED <<window, refused>>
    <3>1. OrdinalsBounded(window') /\ refused' \subseteq Traits \cup {"panels", "clicks"}
      BY <1>1, <1>9, <2>2, RebuildNumbers DEF RebuildPanels
    <3>2. QED
      BY <1>9, <3>1 DEF RebuildPanels, PanelsRemain, OrdinalsBounded
  <2>3. QED
    BY <2>1, <2>2
<1>10. ASSUME NEW i \in PanelItems, NEW k \in PointerKind \cup {"none"}, WantPointer(i, k) PROVE PanelsRemain'
  <2>1. CASE UNCHANGED <<window, refused>>
    BY <1>3, <1>4, <1>5, <1>10, <2>1 DEF WantPointer
  <2>2. CASE \E told : window' = Clickable(told)
    <3>1. PICK told : window' = Clickable(told)
      BY <2>2
    <3>2. DOMAIN window' = DOMAIN window /\ \A s \in DOMAIN window : window'[s].ordinal = window[s].ordinal
      BY <1>2, <3>1 DEF Clickable, Window
    <3>3. QED
      BY <1>3, <1>4, <1>5, <1>10, <3>2 DEF WantPointer
  <2>3. QED
    BY <1>10, <2>1, <2>2 DEF WantPointer
<1>11. ASSUME NEW i \in PanelItems, NEW spot \in Spots \cup {0}, Lay(i, spot) PROVE PanelsRemain'
  BY <1>3, <1>4, <1>5, <1>11 DEF Lay
<1>12. CASE EndPanelPass
  <2>1. UNCHANGED <<tweaks, display, refused, onlyOn>> /\ Track(retained')
    BY <1>12 DEF EndPanelPass
  <2>2. /\ DOMAIN window' = DOMAIN window
        /\ \A s \in DOMAIN window : window'[s] = window[s] \/ \E c : window'[s] \in Tracking(window[s], c)
    BY <2>1 DEF Track
  <2>3. ASSUME NEW w \in Window, NEW c, NEW v \in Tracking(w, c) PROVE v.ordinal = w.ordinal
    BY DEF Tracking, Window
  <2>4. QED
    BY <1>2, <1>3, <1>5, <2>1, <2>2, <2>3 DEF PanelsRemain
<1>13. CASE UNCHANGED panelsVars
  BY <1>3, <1>5, <1>13 DEF panelsVars, PanelsRemain
<1>14. QED
  BY <1>6, <1>7, <1>8, <1>9, <1>10, <1>11, <1>12, <1>13 DEF PanelsNext

\* What is one at most is counted as one at most.
LEMMA SingleCounts == ASSUME NEW areas, Single(areas) PROVE Cardinality(areas) <= 1
<1>1. CASE areas = {}
  BY <1>1, FS_EmptySet
<1>2. CASE areas # {}
  <2>1. PICK a : areas = {a}
    BY <1>2 DEF Single
  <2>2. Cardinality({a}) = 1
    BY FS_Singleton
  <2>3. QED
    BY <2>1, <2>2
<1>3. QED
  BY <1>1, <1>2

\* With the invariant of the panels, it is all of the panels' type.
LEMMA PanelsIsTyped == PanelsInv /\ PanelsRemain => PanelsTypeOK
<1> SUFFICES ASSUME PanelsInv, PanelsRemain PROVE PanelsTypeOK
  OBVIOUS
<1>1. PanelTypes
  BY DEF PanelsInv
<1>2. \A i \in PanelItems : Cardinality(tracked[i]) <= 1
  BY SingleCounts DEF PanelsInv, ClaimsFollow
<1>3. \A s \in DOMAIN window : window[s] \in Window
  BY <1>1 DEF PanelTypes
<1>4. QED
  BY <1>1, <1>2, <1>3 DEF PanelTypes, PanelsRemain, OrdinalsBounded, PanelsTypeOK

-----------------------------------------------------------------------------
(* What is least, and induction. *)

LEMMA LeastNat == ASSUME NEW T \in SUBSET Nat, T # {} PROVE Min(T) \in T /\ \A y \in T : Min(T) <= y
<1> DEFINE R == {ss \in Nat \X Nat : ss[1] < ss[2]}
<1>1. IsWellFoundedOn(R, Nat)
  BY NatLessThanWellFounded DEF OpToRel
<1>2. \E x \in T : \A y \in T : ~ (<<y, x>> \in R)
  <2> HIDE DEF R
  <2> QED
    BY <1>1, WFMin
<1>3. PICK x \in T : \A y \in T : ~ (<<y, x>> \in R)
  BY <1>2
<1>4. ASSUME NEW y \in T PROVE x <= y
  <2>1. x \in Nat /\ y \in Nat /\ ~ (<<y, x>> \in R)
    BY <1>3
  <2>2. ~(y < x)
    BY <2>1
  <2>3. QED
    BY <2>1, <2>2
<1>5. QED
  BY <1>4 DEF Min

\* Induction: a set that has 0 and with a number the next has them all.
LEMMA AllNat == ASSUME NEW T \in SUBSET Nat, 0 \in T, \A n \in T : n + 1 \in T PROVE T = Nat
<1>1. SUFFICES ASSUME Nat \ T # {} PROVE FALSE
  OBVIOUS
<1>2. PICK x \in Nat \ T : \A y \in Nat \ T : x <= y
  <2>1. Nat \ T \in SUBSET Nat
    OBVIOUS
  <2>2. QED
    BY <1>1, <2>1, LeastNat
<1>3. x # 0 /\ x - 1 \in Nat
  BY <1>2
<1>4. x - 1 \in T
  BY <1>2, <1>3
<1>5. QED
  BY <1>2, <1>3, <1>4

LEMMA GreatestNat ==
  ASSUME NEW n \in Nat, NEW T \in SUBSET (0..n), T # {}
  PROVE  Max(T) \in T /\ \A y \in T : Max(T) >= y
<1> DEFINE U == {k \in Nat : \A y \in T : y <= k}
           least == Min(U)
<1>1. n \in U
  OBVIOUS
<1>2. least \in U /\ \A k \in U : least <= k
  <2> HIDE DEF U
  <2>1. U \in SUBSET Nat
    BY DEF U
  <2>2. QED
    BY <1>1, <2>1, LeastNat
<1> HIDE DEF least
<1>3. least \in T
  <2>1. SUFFICES ASSUME least \notin T PROVE FALSE
    OBVIOUS
  <2>2. \A y \in T : y \in Nat /\ y <= least /\ y # least /\ least \in Nat
    BY <1>2, <2>1
  <2>3. \A y \in T : y <= least - 1
    BY <2>2
  <2>4. least - 1 \in U
    <3>1. least - 1 \in Nat
      <4>1. PICK y \in T : TRUE
        OBVIOUS
      <4>2. y \in Nat /\ y <= least /\ y # least /\ least \in Nat
        BY <2>2
      <4>3. QED
        BY <4>2
    <3>2. QED
      BY <2>3, <3>1
  <2>5. QED
    BY <1>2, <2>4
<1>4. \A y \in T : least >= y
  BY <1>2
<1>5. QED
  BY <1>3, <1>4 DEF Max

-----------------------------------------------------------------------------
(* Geometry. *)

\* What a sum is step by step, g.
Sums(g, w, m) == g = [k \in 0..m |-> IF k = 0 THEN 0 ELSE g[k - 1] + w[k]]

LEMMA SumsExist == ASSUME NEW w, NEW m \in Nat PROVE \E g : Sums(g, w, m)
<1> DEFINE T == {k \in Nat : \E g : Sums(g, w, k)}
<1>1. 0 \in T
  <2> DEFINE g == [j \in 0..0 |-> 0]
  <2>1. g = [k \in 0..0 |-> IF k = 0 THEN 0 ELSE g[k - 1] + w[k]]
    OBVIOUS
  <2>2. QED
    BY <2>1 DEF Sums
<1>2. ASSUME NEW k \in T PROVE k + 1 \in T
  <2>1. PICK f : Sums(f, w, k)
    OBVIOUS
  <2> DEFINE g == [n \in 0..(k + 1) |-> IF n = k + 1 THEN f[k] + w[k + 1] ELSE f[n]]
  <2>2. \A n \in 0..k : f[n] = IF n = 0 THEN 0 ELSE f[n - 1] + w[n]
    BY <2>1 DEF Sums
  <2>3. \A n \in 0..(k + 1) : g[n] = IF n = 0 THEN 0 ELSE g[n - 1] + w[n]
    BY <2>2
  <2>4. g = [n \in 0..(k + 1) |-> IF n = 0 THEN 0 ELSE g[n - 1] + w[n]]
    BY <2>3
  <2> HIDE DEF g
  <2>5. Sums(g, w, k + 1) /\ k + 1 \in Nat
    BY <2>4 DEF Sums
  <2>6. QED
    BY <2>5
<1>3. T = Nat
  <2> HIDE DEF T
  <2>1. T \in SUBSET Nat
    BY DEF T
  <2>2. QED
    BY <1>1, <1>2, <2>1, AllNat
<1>4. QED
  BY <1>3

LEMMA UptoIs ==
  ASSUME NEW w, Len(w) \in Nat
  PROVE  Upto(w, 0) = 0 /\ \A k \in 1..Len(w) : Upto(w, k) = Upto(w, k - 1) + w[k]
<1> DEFINE sum[k \in 0..Len(w)] == IF k = 0 THEN 0 ELSE sum[k - 1] + w[k]
<1>1. \A k : Upto(w, k) = sum[k]
  BY DEF Upto
<1>2. sum = [k \in 0..Len(w) |-> IF k = 0 THEN 0 ELSE sum[k - 1] + w[k]]
  BY SumsExist DEF Sums
<1> HIDE DEF sum
<1>3. sum[0] = 0 /\ \A k \in 1..Len(w) : sum[k] = sum[k - 1] + w[k]
  BY <1>2
<1>4. QED
  BY <1>1, <1>3

\* The sum of widths grows.
LEMMA UptoGrows ==
  ASSUME NEW w \in Seq(Nat)
  PROVE  \A j \in 0..Len(w) : \A i \in 0..j : Upto(w, i) \in Nat /\ Upto(w, j) \in Nat
                                              /\ Upto(w, i) <= Upto(w, j)
<1>1. Len(w) \in Nat /\ \A k \in 1..Len(w) : w[k] \in Nat
  OBVIOUS
<1> DEFINE n == Len(w)
           U(k) == Upto(w, k)
<1>2. U(0) = 0 /\ \A k \in 1..n : U(k) = U(k - 1) + w[k]
  BY <1>1, UptoIs
<1>3. n \in Nat /\ \A k \in 1..n : w[k] \in Nat
  BY <1>1
<1> HIDE DEF U, n
<1> DEFINE Grown(k) == \A i \in 0..k : U(i) \in Nat /\ U(k) \in Nat /\ U(i) <= U(k)
           T == {k \in Nat : k <= n => Grown(k)}
<1>4. 0 \in T
  BY <1>2
<1>5. ASSUME NEW k \in T PROVE k + 1 \in T
  <2>1. k \in Nat /\ (k <= n => Grown(k))
    OBVIOUS
  <2>2. ASSUME k + 1 <= n PROVE Grown(k + 1)
    <3>1. k + 1 \in 1..n /\ (k + 1) - 1 = k /\ k <= n
      BY <1>3, <2>1, <2>2
    <3>2. U(k + 1) = U(k) + w[k + 1] /\ w[k + 1] \in Nat
      BY <1>2, <1>3, <3>1
    <3>3. \A i \in 0..k : U(i) \in Nat /\ U(k) \in Nat /\ U(i) <= U(k)
      BY <2>1, <3>1
    <3>4. U(k) \in Nat
      BY <2>1, <3>3
    <3>5. U(k + 1) \in Nat /\ U(k) <= U(k + 1)
      BY <3>2, <3>4
    <3>6. ASSUME NEW i \in 0..(k + 1) PROVE U(i) \in Nat /\ U(k + 1) \in Nat /\ U(i) <= U(k + 1)
      <4>1. CASE i = k + 1
        BY <3>5, <4>1
      <4>2. CASE i # k + 1
        <5>1. i \in 0..k
          BY <2>1, <4>2
        <5>2. QED
          BY <3>3, <3>5, <5>1
      <4>3. QED
        BY <4>1, <4>2
    <3>7. QED
      BY <3>6
  <2> HIDE DEF Grown
  <2>3. QED
    BY <2>1, <2>2
<1> HIDE DEF Grown
<1>6. T = Nat
  <2> HIDE DEF T
  <2>1. T \in SUBSET Nat
    BY DEF T
  <2>2. QED
    BY <1>4, <1>5, <2>1, AllNat
<1>7. \A k \in 0..n : Grown(k)
  BY <1>3, <1>6
<1>8. QED
  BY <1>7 DEF Grown, U, n

\* What is at an item of the sheet, and a row of them in their order.
Item == [id: Nat, at: Buckets, width: Nat]
InRow(items) == items \in Seq(Item) /\ \A i, j \in 1..Len(items) : i < j => items[i].id < items[j].id

LEMMA WidthsOf ==
  ASSUME NEW items, InRow(items)
  PROVE  /\ Widths(items) \in Seq(Nat) /\ Len(Widths(items)) = Len(items) /\ Len(items) \in Nat
         /\ \A k \in 1..Len(items) : Widths(items)[k] = items[k].width /\ items[k] \in Item
<1> DEFINE n == Len(items)
<1>1. n \in Nat /\ \A k \in 1..n : items[k] \in Item
  BY DEF InRow
<1>2. \A k \in 1..n : items[k].width \in Nat
  BY <1>1 DEF Item
<1>3. Widths(items) = [k \in 1..n |-> items[k].width]
  BY DEF Widths
<1>4. Widths(items) \in [1..n -> Nat]
  BY <1>2, <1>3
<1> HIDE DEF n
<1>5. Widths(items) \in Seq(Nat) /\ Len(Widths(items)) = n
  BY <1>1, <1>4
<1>6. QED
  BY <1>1, <1>3, <1>5 DEF n

\* What of the items is where, from one place up to another.
LaidRow(rects, items, from, to) ==
  /\ from \in Int /\ to \in Int
  /\ \A r \in rects : /\ r.x \in Int /\ r.width \in Nat /\ from <= r.x /\ r.x + r.width <= to
                      /\ \E i \in 1..Len(items) : r.id = items[i].id
  /\ \A r, s \in rects : r.id < s.id => r.x + r.width <= s.x
  /\ rects # {} => (\E r \in rects : r.x = from) /\ (\E r \in rects : r.x + r.width = to)

LEMMA RunIsLaid ==
  ASSUME NEW items, InRow(items), NEW x \in Int
  PROVE  /\ Total(Widths(items)) \in Nat
         /\ LaidRow(Range(RunFrom(x, items)), items, x, x + Total(Widths(items)))
         /\ RunFrom(x, items) \in [1..Len(items) -> Range(RunFrom(x, items))]
<1> DEFINE w == Widths(items)
           n == Len(items)
           row == RunFrom(x, items)
           total == Total(w)
           rects == Range(row)
           U(k) == Upto(w, k)
<1>1. /\ w \in Seq(Nat) /\ Len(w) = n /\ n \in Nat
      /\ \A k \in 1..n : w[k] = items[k].width /\ items[k] \in Item /\ items[k].width \in Nat
  BY WidthsOf DEF Item
<1>2. \A i, j \in 1..n : i < j => items[i].id < items[j].id
  BY DEF InRow
<1>3. row = [k \in 1..n |-> [id |-> items[k].id, x |-> x + U(k - 1), width |-> items[k].width]]
  BY DEF RunFrom
<1>4. rects = {row[k] : k \in 1..n} /\ row \in [1..n -> rects]
  BY <1>3 DEF Range
<1>5. total = U(n)
  BY <1>1 DEF Total
<1> HIDE DEF w, n, row, total, rects
<1>6. \A j \in 0..n : \A i \in 0..j : U(i) \in Nat /\ U(j) \in Nat /\ U(i) <= U(j)
  BY <1>1, UptoGrows
<1>7. U(0) = 0 /\ \A k \in 1..n : U(k) = U(k - 1) + w[k]
  BY <1>1, UptoIs
<1> HIDE DEF U
<1>8. total \in Nat
  BY <1>1, <1>5, <1>6
<1>9. ASSUME NEW k \in 1..n
      PROVE  /\ row[k].id = items[k].id /\ row[k].x = x + U(k - 1) /\ row[k].width = items[k].width
             /\ U(k - 1) \in Nat /\ U(k) \in Nat /\ U(k) = U(k - 1) + items[k].width /\ U(k) <= total
             /\ items[k].width \in Nat /\ items[k].id \in Nat
  <2>1. k - 1 \in 0..k /\ k \in 0..n /\ k \in 0..k /\ n \in 0..n
    BY <1>1
  <2>2. U(k - 1) \in Nat /\ U(k) \in Nat /\ U(k) <= total
    BY <1>5, <1>6, <2>1
  <2>3. items[k].width \in Nat /\ items[k].id \in Nat
    BY <1>1 DEF Item
  <2>4. QED
    BY <1>1, <1>3, <1>7, <2>2, <2>3
<1>10. \A r \in rects : /\ r.x \in Int /\ r.width \in Nat /\ x <= r.x /\ r.x + r.width <= x + total
                        /\ \E i \in 1..Len(items) : r.id = items[i].id
  <2> SUFFICES ASSUME NEW k \in 1..n
               PROVE  /\ row[k].x \in Int /\ row[k].width \in Nat /\ x <= row[k].x
                      /\ row[k].x + row[k].width <= x + total
                      /\ \E i \in 1..Len(items) : row[k].id = items[i].id
    BY <1>4
  <2>1. /\ row[k].x \in Int /\ row[k].width \in Nat /\ x <= row[k].x
        /\ row[k].x + row[k].width <= x + total
    BY <1>8, <1>9
  <2>2. QED
    BY <1>9, <2>1 DEF n
<1>11. \A r, s \in rects : r.id < s.id => r.x + r.width <= s.x
  <2> SUFFICES ASSUME NEW i \in 1..n, NEW j \in 1..n, row[i].id < row[j].id
               PROVE  row[i].x + row[i].width <= row[j].x
    BY <1>4
  <2>1. i < j
    <3>1. items[i].id < items[j].id /\ items[i].id \in Nat /\ items[j].id \in Nat
      BY <1>9
    <3>2. ~(j < i) /\ i # j
      BY <1>2, <3>1
    <3>3. QED
      BY <1>1, <3>2
  <2>2. i \in 0..(j - 1) /\ j - 1 \in 0..n
    BY <1>1, <2>1
  <2>3. U(i) <= U(j - 1)
    BY <1>6, <2>2
  <2>4. QED
    BY <1>9, <2>3
<1>12. rects # {} => (\E r \in rects : r.x = x) /\ (\E r \in rects : r.x + r.width = x + total)
  <2> SUFFICES ASSUME rects # {}
               PROVE  (\E r \in rects : r.x = x) /\ (\E r \in rects : r.x + r.width = x + total)
    OBVIOUS
  <2>1. 1 \in 1..n /\ n \in 1..n
    BY <1>1, <1>4
  <2>2. row[1] \in rects /\ row[n] \in rects
    BY <1>4, <2>1
  <2>3. row[1].x = x
    BY <1>7, <1>9, <2>1
  <2>4. row[n].x + row[n].width = x + total
    BY <1>5, <1>9, <2>1
  <2>5. QED
    BY <2>2, <2>3, <2>4
<1>13. x + total \in Int
  BY <1>8
<1>14. LaidRow(rects, items, x, x + total)
  BY <1>10, <1>11, <1>12, <1>13 DEF LaidRow
<1>15. QED
  BY <1>4, <1>8, <1>14 DEF rects, row, total, w, n

LEMMA RunUpToIsLaid ==
  ASSUME NEW items, InRow(items), NEW x \in Int
  PROVE  /\ LaidRow(Range(RunUpTo(x, items)), items, x - Total(Widths(items)), x)
         /\ RunUpTo(x, items) \in [1..Len(items) -> Range(RunUpTo(x, items))]
<1> DEFINE total == Total(Widths(items))
           row == RunFrom(x - total, items)
           n == Len(items)
<1>1. total \in Nat
  BY RunIsLaid
<1>2. x - total \in Int /\ (x - total) + total = x
  BY <1>1
<1> HIDE DEF total
<1>3. LaidRow(Range(row), items, x - total, x) /\ row \in [1..n -> Range(row)]
  BY <1>2, RunIsLaid DEF total
<1>4. Len(row) = n /\ n \in Nat
  <2>1. n \in Nat
    BY DEF InRow
  <2>2. DOMAIN row = 1..n
    BY DEF RunFrom
  <2>3. QED
    BY <1>3, <2>1
<1>5. RunUpTo(x, items) = [k \in 1..n |-> row[(n - k) + 1]]
  <2>1. RunUpTo(x, items) = Reverse(row)
    BY DEF RunUpTo, total
  <2> HIDE DEF row, n
  <2>2. QED
    BY <1>4, <2>1 DEF Reverse
<1> HIDE DEF row, n
<1>6. Range(RunUpTo(x, items)) = Range(row)
  <2>1. \A k \in 1..n : (n - k) + 1 \in 1..n /\ (n - ((n - k) + 1)) + 1 = k
    BY <1>4
  <2>2. DOMAIN row = 1..n
    BY <1>3
  <2>3. QED
    BY <1>5, <2>1, <2>2 DEF Range
<1>7. RunUpTo(x, items) \in [1..n -> Range(RunUpTo(x, items))]
  BY <1>5 DEF Range
<1>8. QED
  BY <1>3, <1>6, <1>7 DEF total, n

\* What is picked of the first k, g.
RowKeeps(g, items, b, m) ==
  g = [k \in 0..m |-> IF k = 0 THEN <<>> ELSE With(g[k - 1], items[k], b)]

LEMMA KeepsExist == ASSUME NEW items, NEW b, NEW m \in Nat PROVE \E g : RowKeeps(g, items, b, m)
<1> DEFINE T == {k \in Nat : \E g : RowKeeps(g, items, b, k)}
<1>1. 0 \in T
  <2> DEFINE g == [j \in 0..0 |-> <<>>]
  <2>1. g = [k \in 0..0 |-> IF k = 0 THEN <<>> ELSE With(g[k - 1], items[k], b)]
    OBVIOUS
  <2> HIDE DEF g
  <2>2. RowKeeps(g, items, b, 0)
    BY <2>1 DEF RowKeeps
  <2>3. QED
    BY <2>2
<1>2. ASSUME NEW k \in T PROVE k + 1 \in T
  <2>1. PICK f : RowKeeps(f, items, b, k)
    OBVIOUS
  <2>2. f = [n \in 0..k |-> IF n = 0 THEN <<>> ELSE With(f[n - 1], items[n], b)]
    BY <2>1 DEF RowKeeps
  <2> DEFINE g == [n \in 0..(k + 1) |-> IF n = k + 1 THEN With(f[k], items[k + 1], b) ELSE f[n]]
  <2>3. \A n \in 0..k : f[n] = IF n = 0 THEN <<>> ELSE With(f[n - 1], items[n], b)
    BY <2>2
  <2>4. \A n \in 0..(k + 1) : g[n] = IF n = 0 THEN <<>> ELSE With(g[n - 1], items[n], b)
    BY <2>3
  <2>5. g = [n \in 0..(k + 1) |-> IF n = 0 THEN <<>> ELSE With(g[n - 1], items[n], b)]
    BY <2>4
  <2> HIDE DEF g
  <2>6. RowKeeps(g, items, b, k + 1) /\ k + 1 \in Nat
    BY <2>5 DEF RowKeeps
  <2>7. QED
    BY <2>6
<1>3. T = Nat
  <2> HIDE DEF T
  <2>1. T \in SUBSET Nat
    BY DEF T
  <2>2. QED
    BY <1>1, <1>2, <2>1, AllNat
<1>4. QED
  BY <1>3

\* The items of a bucket, in their order.
LEMMA InKeepsOrder ==
  ASSUME NEW S, NEW items \in Seq(S), NEW b
  PROVE  /\ In(b, items) \in Seq(S)
         /\ \A i \in 1..Len(In(b, items)) : \E k \in 1..Len(items) :
              In(b, items)[i] = items[k] /\ items[k].at = b
         /\ \A i, j \in 1..Len(In(b, items)) : i < j =>
              \E k, l \in 1..Len(items) : k < l /\ In(b, items)[i] = items[k] /\ In(b, items)[j] = items[l]
<1> DEFINE n == Len(items)
           picked[k \in 0..Len(items)] == IF k = 0 THEN <<>> ELSE With(picked[k - 1], items[k], b)
<1>1. n \in Nat /\ \A k \in 1..n : items[k] \in S
  OBVIOUS
<1>2. In(b, items) = picked[n]
  BY DEF In
<1>3. picked = [k \in 0..Len(items) |-> IF k = 0 THEN <<>> ELSE With(picked[k - 1], items[k], b)]
  <2>1. PICK m \in Nat : m = Len(items)
    BY <1>1 DEF n
  <2>2. PICK g : RowKeeps(g, items, b, m)
    BY KeepsExist
  <2>3. g = [k \in 0..Len(items) |-> IF k = 0 THEN <<>> ELSE With(g[k - 1], items[k], b)]
    BY <2>1, <2>2 DEF RowKeeps
  <2>4. QED
    BY <2>3
<1> HIDE DEF picked
<1>4. /\ picked[0] = <<>>
      /\ \A k \in 1..n : picked[k] = With(picked[k - 1], items[k], b)
  BY <1>1, <1>3
<1> HIDE DEF n
<1> DEFINE Fine(k) ==
             /\ picked[k] \in Seq(S)
             /\ \A i, j \in 1..Len(picked[k]) : i < j =>
                  \E m, l \in 1..k : m < l /\ picked[k][i] = items[m] /\ picked[k][j] = items[l]
             /\ \A i \in 1..Len(picked[k]) : \E m \in 1..k : picked[k][i] = items[m] /\ items[m].at = b
           T == {k \in Nat : k <= n => Fine(k)}
<1>6. 0 \in T
  <2>1. picked[0] \in Seq(S) /\ Len(picked[0]) = 0
    BY <1>4
  <2>2. QED
    BY <2>1
<1>7. ASSUME NEW k \in T PROVE k + 1 \in T
  <2>1. k \in Nat /\ (k <= n => Fine(k))
    OBVIOUS
  <2>2. ASSUME k + 1 <= n PROVE Fine(k + 1)
    <3>1. k + 1 \in 1..n /\ (k + 1) - 1 = k /\ Fine(k) /\ k \in 0..n
      <4> HIDE DEF Fine
      <4>1. k \in Nat /\ n \in Nat /\ k + 1 <= n
        BY <1>1, <2>1, <2>2
      <4>2. k <= n /\ k \in 0..n /\ k + 1 \in 1..n /\ (k + 1) - 1 = k
        BY <4>1
      <4>3. QED
        BY <2>1, <4>2
    <3>2. picked[k + 1] = IF items[k + 1].at = b THEN Append(picked[k], items[k + 1]) ELSE picked[k]
      BY <1>4, <3>1 DEF With
    <3>3. \A i \in 1..Len(picked[k]) : \E m \in 1..(k + 1) : picked[k][i] = items[m] /\ items[m].at = b
      BY <2>1, <3>1
    <3>4. CASE items[k + 1].at # b
      <4>1. \A i, j \in 1..Len(picked[k]) : i < j =>
              \E m, l \in 1..(k + 1) : m < l /\ picked[k][i] = items[m] /\ picked[k][j] = items[l]
        <5>1. 1..k \subseteq 1..(k + 1)
          BY <2>1
        <5>2. \A i, j \in 1..Len(picked[k]) : i < j =>
                \E m, l \in 1..k : m < l /\ picked[k][i] = items[m] /\ picked[k][j] = items[l]
          BY <3>1
        <5>3. QED
          BY <5>1, <5>2
      <4>2. QED
        BY <3>1, <3>2, <3>3, <3>4, <4>1
    <3>5. CASE items[k + 1].at = b
      <4> DEFINE s == picked[k]
                 t == picked[k + 1]
                 e == items[k + 1]
                 l == Len(s)
      <4>1. s \in Seq(S) /\ e \in S /\ t = Append(s, e) /\ l \in Nat
        BY <1>1, <3>1, <3>2, <3>5
      <4>2. /\ \A i, j \in 1..l : i < j => \E m, h \in 1..k : m < h /\ s[i] = items[m] /\ s[j] = items[h]
            /\ \A i \in 1..l : \E m \in 1..k : s[i] = items[m] /\ items[m].at = b
        BY <3>1
      <4> HIDE DEF s, t, l
      <4>3. t \in Seq(S) /\ Len(t) = l + 1 /\ t[l + 1] = e /\ \A i \in 1..l : t[i] = s[i]
        BY <4>1 DEF l
      <4>4. \A i \in 1..l : \E m \in 1..k : s[i] = items[m] /\ m < k + 1
        BY <2>1, <4>2
      <4>5. \A i \in 1..(l + 1) : i \in 1..l \/ i = l + 1
        BY <4>1
      <4>6. \A i, j \in 1..(l + 1) : i < j =>
              \E m, h \in 1..(k + 1) : m < h /\ t[i] = items[m] /\ t[j] = items[h]
        <5> SUFFICES ASSUME NEW i \in 1..(l + 1), NEW j \in 1..(l + 1), i < j
                     PROVE  \E m, h \in 1..(k + 1) : m < h /\ t[i] = items[m] /\ t[j] = items[h]
          OBVIOUS
        <5>1. i \in 1..l
          BY <4>1
        <5>2. CASE j \in 1..l
          <6>1. PICK m \in 1..k, h \in 1..k : m < h /\ s[i] = items[m] /\ s[j] = items[h]
            BY <4>2, <5>1, <5>2
          <6>2. m \in 1..(k + 1) /\ h \in 1..(k + 1)
            BY <2>1
          <6>3. QED
            BY <4>3, <5>1, <5>2, <6>1, <6>2
        <5>3. CASE j = l + 1
          <6>1. PICK m \in 1..k : s[i] = items[m] /\ m < k + 1
            BY <4>4, <5>1
          <6>2. m \in 1..(k + 1) /\ k + 1 \in 1..(k + 1)
            BY <2>1
          <6>3. QED
            BY <4>3, <5>1, <5>3, <6>1, <6>2 DEF e
        <5>4. QED
          BY <4>5, <5>2, <5>3
      <4>7. \A i \in 1..(l + 1) : \E m \in 1..(k + 1) : t[i] = items[m] /\ items[m].at = b
        <5> SUFFICES ASSUME NEW i \in 1..(l + 1)
                     PROVE  \E m \in 1..(k + 1) : t[i] = items[m] /\ items[m].at = b
          OBVIOUS
        <5>1. CASE i \in 1..l
          <6>1. PICK m \in 1..k : s[i] = items[m] /\ items[m].at = b
            BY <4>2, <5>1
          <6>2. m \in 1..(k + 1)
            BY <2>1
          <6>3. QED
            BY <4>3, <5>1, <6>1, <6>2
        <5>2. CASE i = l + 1
          <6>1. k + 1 \in 1..(k + 1)
            BY <2>1
          <6>2. QED
            BY <3>5, <4>3, <5>2, <6>1
        <5>3. QED
          BY <4>5, <5>1, <5>2
      <4>8. \A i, j \in 1..Len(t) : i < j =>
              \E m, h \in 1..(k + 1) : m < h /\ t[i] = items[m] /\ t[j] = items[h]
        <5>1. 1..Len(t) = 1..(l + 1)
          BY <4>3
        <5>2. SUFFICES ASSUME NEW i \in 1..Len(t), NEW j \in 1..Len(t), i < j
                       PROVE  \E m, h \in 1..(k + 1) : m < h /\ t[i] = items[m] /\ t[j] = items[h]
          OBVIOUS
        <5>3. i \in 1..(l + 1) /\ j \in 1..(l + 1)
          BY <5>1
        <5>4. QED
          BY <4>6, <5>2, <5>3
      <4>9. \A i \in 1..Len(t) : \E m \in 1..(k + 1) : t[i] = items[m] /\ items[m].at = b
        BY <4>3, <4>7
      <4>10. t \in Seq(S)
        BY <4>3
      <4>11. t = picked[k + 1]
        BY DEF t
      <4> HIDE DEF e
      <4>12. QED
        BY <4>8, <4>9, <4>10, <4>11
    <3>6. QED
      BY <3>4, <3>5
  <2> HIDE DEF Fine
  <2>3. QED
    BY <2>1, <2>2
<1> HIDE DEF Fine
<1>8. T = Nat
  <2> HIDE DEF T
  <2>1. T \in SUBSET Nat
    BY DEF T
  <2>2. QED
    BY <1>6, <1>7, <2>1, AllNat
<1>9. Fine(n)
  BY <1>1, <1>8
<1>10. QED
  BY <1>2, <1>9 DEF Fine, n

LEMMA InIsRow ==
  ASSUME NEW items, InRow(items), NEW b
  PROVE  /\ InRow(In(b, items))
         /\ \A i \in 1..Len(In(b, items)) : \E k \in 1..Len(items) :
              In(b, items)[i] = items[k] /\ items[k].at = b
<1>1. items \in Seq(Item) /\ \A i, j \in 1..Len(items) : i < j => items[i].id < items[j].id
  BY DEF InRow
<1>2. /\ In(b, items) \in Seq(Item)
      /\ \A i \in 1..Len(In(b, items)) : \E k \in 1..Len(items) :
           In(b, items)[i] = items[k] /\ items[k].at = b
      /\ \A i, j \in 1..Len(In(b, items)) : i < j =>
           \E k, l \in 1..Len(items) : k < l /\ In(b, items)[i] = items[k] /\ In(b, items)[j] = items[l]
  BY <1>1, InKeepsOrder
<1>3. \A i, j \in 1..Len(In(b, items)) : i < j => In(b, items)[i].id < In(b, items)[j].id
  BY <1>1, <1>2
<1>4. QED
  BY <1>2, <1>3 DEF InRow

LEMMA Extremes ==
  ASSUME NEW a \in Int, NEW b \in Int
  PROVE  /\ Least(a, b) = IF a <= b THEN a ELSE b
         /\ Most(a, b) = IF a >= b THEN a ELSE b
BY DEF Least, Most, Min, Max

LEMMA Fits ==
  ASSUME NEW x \in Int, NEW low \in Int, NEW high \in Int
  PROVE  Fit(x, low, high) = Most(low, Least(x, high))
BY DEF Fit, Least, Most

\* What measures an item agrees with what draws it.
LEMMA BoxesHold == ASSUME sheet \in Boxes PROVE DrawsInItsBox
<1>1. /\ sheet.icon \in Run /\ sheet.label \in Run
      /\ sheet.middle \in Nat /\ sheet.left \in Int /\ sheet.between \in Int /\ sheet.right \in Int
  BY GeometryAssumption DEF Boxes
<1>2. ASSUME NEW run \in Run PROVE RunWidth(run) \in Int /\ (run.empty => RunWidth(run) = 0)
  <2>1. run.before \in Int /\ run.ink \in Int /\ run.after \in Int
    BY GeometryAssumption DEF Run
  <2>2. QED
    BY <2>1 DEF RunWidth
<1>3. /\ Overhang(sheet) \in {Unmeasured(sheet) + gaps * sheet.between : gaps \in 0..2}
      /\ Sound(sheet.icon) /\ Sound(sheet.label) /\ Unmeasured(sheet) = 0 => Overhang(sheet) = 0
  <2> DEFINE icon == RunWidth(sheet.icon)
             label == RunWidth(sheet.label)
             between == sheet.between
             middle == sheet.middle
             measured == MeasuredMiddle(sheet)
             first == IF ~sheet.icon.empty /\ middle > 0 THEN between ELSE 0
             second == IF (~sheet.icon.empty \/ middle > 0) /\ ~sheet.label.empty THEN between ELSE 0
             one == IF icon > 0 /\ measured > 0 THEN between ELSE 0
             two == IF (icon > 0 \/ measured > 0) /\ label > 0 THEN between ELSE 0
  <2>1. /\ icon \in Int /\ label \in Int
        /\ (sheet.icon.empty => icon = 0) /\ (sheet.label.empty => label = 0)
    BY <1>1, <1>2
  <2>2. measured \in Nat /\ (measured = 0 \/ measured = middle) /\ middle \in Nat /\ between \in Int
    BY <1>1 DEF MeasuredMiddle
  <2>3. WidthOf(sheet) = sheet.left + icon + one + measured + two + label + sheet.right
    BY DEF WidthOf
  <2>4. PenAtEnd(sheet) = sheet.left + icon + first + middle + second + label
    <3> HIDE DEF icon, label, measured
    <3>1. AfterIcon(sheet) = sheet.left + icon + first
      BY <1>1, <2>1, <2>2 DEF AfterIcon, icon
    <3>2. PenAtEnd(sheet) = AfterIcon(sheet) + middle + second + label
      BY DEF PenAtEnd, AtLabel, AfterMiddle, label
    <3>3. QED
      BY <3>1, <3>2
  <2>5. Unmeasured(sheet) = middle - measured
    BY DEF Unmeasured
  <2>6. /\ Sound(sheet.icon) => (sheet.icon.empty <=> ~(icon > 0))
        /\ Sound(sheet.label) => (sheet.label.empty <=> ~(label > 0))
    BY <1>1, <1>2 DEF Sound
  <2> HIDE DEF icon, label, measured
  <2>7. /\ first - one \in {0, between} /\ second - two \in {0, between}
        /\ first \in Int /\ one \in Int /\ second \in Int /\ two \in Int
    BY <2>1, <2>2
  <2>8. Sound(sheet.icon) /\ Sound(sheet.label) /\ middle = measured => first = one /\ second = two
    BY <2>6
  <2> HIDE DEF first, second, one, two, middle, between
  <2>9. Overhang(sheet) = (middle - measured) + (first - one) + (second - two)
    BY <1>1, <2>1, <2>2, <2>3, <2>4, <2>7 DEF Overhang
  <2>10. \E gaps \in 0..2 : Overhang(sheet) = (middle - measured) + gaps * between
    <3>1. CASE first - one = 0 /\ second - two = 0
      <4>1. Overhang(sheet) = (middle - measured) + 0 * between
        BY <2>2, <2>7, <2>9, <3>1
      <4>2. QED
        BY <4>1
    <3>2. CASE (first - one = between /\ second - two = 0) \/ (first - one = 0 /\ second - two = between)
      <4>1. Overhang(sheet) = (middle - measured) + 1 * between
        BY <2>2, <2>7, <2>9, <3>2
      <4>2. QED
        BY <4>1
    <3>3. CASE first - one = between /\ second - two = between
      <4>1. Overhang(sheet) = (middle - measured) + 2 * between
        BY <2>2, <2>7, <2>9, <3>3
      <4>2. QED
        BY <4>1
    <3>4. QED
      BY <2>7, <3>1, <3>2, <3>3
  <2>11. Sound(sheet.icon) /\ Sound(sheet.label) /\ middle = measured => Overhang(sheet) = 0
    BY <2>2, <2>7, <2>8, <2>9
  <2>12. middle - measured = 0 => middle = measured
    BY <2>2
  <2>13. QED
    BY <2>5, <2>10, <2>11, <2>12 DEF between
<1>4. ASSUME NEW ink \in Lengths \cap Nat
      PROVE  LET box == AliasBox(sheet, ink) IN 0 <= box.at /\ box.at + ink <= box.width
  <2> DEFINE slack == Most(sheet.left + sheet.right, 0)
             pen == Fit(sheet.left, 0, slack)
  <2>1. slack \in Int /\ slack >= 0
    BY <1>1, Extremes
  <2> HIDE DEF slack
  <2>2. pen = Most(0, Least(sheet.left, slack))
    BY <1>1, <2>1, Fits
  <2>3. Least(sheet.left, slack) = IF sheet.left <= slack THEN sheet.left ELSE slack
    BY <1>1, <2>1, Extremes
  <2>4. Least(sheet.left, slack) \in Int
    BY <1>1, <2>1, <2>3
  <2>5. pen = IF 0 >= Least(sheet.left, slack) THEN 0 ELSE Least(sheet.left, slack)
    BY <2>2, <2>4, Extremes
  <2>6. 0 <= pen /\ pen <= slack /\ pen \in Int
    BY <1>1, <2>1, <2>3, <2>5
  <2>7. AliasBox(sheet, ink) = [at |-> pen, width |-> ink + slack]
    BY DEF AliasBox, slack
  <2> HIDE DEF pen
  <2>8. QED
    BY <2>1, <2>6, <2>7
<1>5. ASSUME NEW filled \in 0..sheet.middle, NEW knob \in Lengths \cap Nat
      PROVE  LET pen == KnobAt(sheet.middle, filled, knob)
             IN 0 <= pen /\ (knob < sheet.middle => pen + knob < sheet.middle)
  <2> DEFINE free == Most(sheet.middle - (knob + 1), 0)
             want == filled - knob \div 2
             pen == Fit(want, 0, free)
  <2>1. /\ free \in Int /\ want \in Int
        /\ free = IF sheet.middle - (knob + 1) >= 0 THEN sheet.middle - (knob + 1) ELSE 0
    BY <1>1, Extremes
  <2> HIDE DEF free, want
  <2>2. pen = Most(0, Least(want, free))
    BY <2>1, Fits
  <2>3. Least(want, free) = IF want <= free THEN want ELSE free
    BY <2>1, Extremes
  <2>4. Least(want, free) \in Int
    BY <2>1, <2>3
  <2>5. pen = IF 0 >= Least(want, free) THEN 0 ELSE Least(want, free)
    BY <2>2, <2>4, Extremes
  <2>6. 0 <= pen /\ pen <= free /\ pen \in Int
    BY <1>1, <2>1, <2>3, <2>5
  <2>7. KnobAt(sheet.middle, filled, knob) = pen
    BY DEF KnobAt, want, free
  <2> HIDE DEF pen
  <2>8. QED
    BY <1>1, <2>1, <2>6, <2>7
<1>6. ASSUME NEW width \in Lengths \cap Nat
      PROVE  LET inner == BackgroundAt(sheet, width) IN inner.width > 0 => inner.at + inner.width <= width
                                                          \/ ~(sheet.left >= 0 /\ sheet.right >= 0)
  <2> DEFINE rest == width - sheet.left - sheet.right
  <2>1. rest \in Int /\ Most(rest, 0) = IF rest >= 0 THEN rest ELSE 0
    BY <1>1, Extremes
  <2>2. BackgroundAt(sheet, width) = [at |-> sheet.left, width |-> Most(rest, 0)]
    BY DEF BackgroundAt
  <2>3. sheet.right >= 0 /\ rest > 0 => sheet.left + rest <= width
    BY <1>1
  <2> HIDE DEF rest
  <2>4. QED
    BY <1>1, <2>1, <2>2, <2>3
<1>7. QED
  BY <1>3, <1>4, <1>5, <1>6 DEF DrawsInItsBox

LEMMA Joined ==
  ASSUME NEW S, NEW a \in Seq(S), NEW b \in Seq(S)
  PROVE  a \o b \in Seq(S) /\ Range(a \o b) = Range(a) \cup Range(b)
<1>1. /\ a \o b \in Seq(S) /\ Len(a) \in Nat /\ Len(b) \in Nat /\ Len(a \o b) = Len(a) + Len(b)
      /\ DOMAIN a = 1..Len(a) /\ DOMAIN b = 1..Len(b) /\ DOMAIN (a \o b) = 1..(Len(a) + Len(b))
  OBVIOUS
<1>2. \A k \in 1..(Len(a) + Len(b)) : (a \o b)[k] = IF k <= Len(a) THEN a[k] ELSE b[k - Len(a)]
  OBVIOUS
<1>3. Range(a \o b) \subseteq Range(a) \cup Range(b)
  <2> SUFFICES ASSUME NEW k \in 1..(Len(a) + Len(b)) PROVE (a \o b)[k] \in Range(a) \cup Range(b)
    BY <1>1 DEF Range
  <2>1. CASE k <= Len(a)
    BY <1>1, <1>2, <2>1 DEF Range
  <2>2. CASE ~(k <= Len(a))
    <3>1. k - Len(a) \in 1..Len(b)
      BY <1>1, <2>2
    <3>2. QED
      BY <1>1, <1>2, <2>2, <3>1 DEF Range
  <2>3. QED
    BY <2>1, <2>2
<1>4. Range(a) \subseteq Range(a \o b)
  <2> SUFFICES ASSUME NEW k \in 1..Len(a) PROVE a[k] \in Range(a \o b)
    BY <1>1 DEF Range
  <2>1. k \in 1..(Len(a) + Len(b)) /\ k <= Len(a)
    BY <1>1
  <2>2. QED
    BY <1>1, <1>2, <2>1 DEF Range
<1>5. Range(b) \subseteq Range(a \o b)
  <2> SUFFICES ASSUME NEW k \in 1..Len(b) PROVE b[k] \in Range(a \o b)
    BY <1>1 DEF Range
  <2>1. Len(a) + k \in 1..(Len(a) + Len(b)) /\ ~(Len(a) + k <= Len(a)) /\ (Len(a) + k) - Len(a) = k
    BY <1>1
  <2>2. (a \o b)[Len(a) + k] = b[k]
    BY <1>2, <2>1
  <2>3. QED
    BY <1>1, <2>1, <2>2 DEF Range
<1>6. QED
  BY <1>1, <1>3, <1>4, <1>5

\* Where the middle of the bar begins and ends.
CenterStart(items) == (BarWidth - Total(Widths(In("center", items)))) \div 2
CenterEnd(items) == CenterStart(items) + Total(Widths(In("center", items)))
\* What is arranged of a bucket, and where it begins and ends.
Piece(b, items) ==
  CASE b = "left" -> RunFrom(0, In("left", items))
    [] b = "right" -> RunUpTo(BarWidth, In("right", items))
    [] b = "center" -> RunFrom(CenterStart(items), In("center", items))
    [] b = "center_left" -> RunUpTo(Least(CenterStart(items), (BarWidth - sheet.notch) \div 2), In("center_left", items))
    [] b = "center_right" -> RunFrom(Most(CenterEnd(items), (BarWidth + sheet.notch) \div 2), In("center_right", items))
Starts(b, items) ==
  CASE b = "left" -> 0
    [] b = "right" -> BarWidth - Total(Widths(In("right", items)))
    [] b = "center" -> CenterStart(items)
    [] b = "center_left" -> Least(CenterStart(items), (BarWidth - sheet.notch) \div 2)
                              - Total(Widths(In("center_left", items)))
    [] b = "center_right" -> Most(CenterEnd(items), (BarWidth + sheet.notch) \div 2)
Ends(b, items) ==
  CASE b = "left" -> Total(Widths(In("left", items)))
    [] b = "right" -> BarWidth
    [] b = "center" -> CenterEnd(items)
    [] b = "center_left" -> Least(CenterStart(items), (BarWidth - sheet.notch) \div 2)
    [] b = "center_right" -> Most(CenterEnd(items), (BarWidth + sheet.notch) \div 2)
                               + Total(Widths(In("center_right", items)))

LEMMA MiddleIs ==
  ASSUME NEW items, InRow(items), sheet.notch \in Int
  PROVE  /\ CenterStart(items) \in Int /\ CenterEnd(items) \in Int /\ CenterStart(items) <= CenterEnd(items)
         /\ Least(CenterStart(items), (BarWidth - sheet.notch) \div 2) \in Int
         /\ Least(CenterStart(items), (BarWidth - sheet.notch) \div 2) <= CenterStart(items)
         /\ Least(CenterStart(items), (BarWidth - sheet.notch) \div 2) <= (BarWidth - sheet.notch) \div 2
         /\ Most(CenterEnd(items), (BarWidth + sheet.notch) \div 2) \in Int
         /\ CenterEnd(items) <= Most(CenterEnd(items), (BarWidth + sheet.notch) \div 2)
         /\ (BarWidth + sheet.notch) \div 2 <= Most(CenterEnd(items), (BarWidth + sheet.notch) \div 2)
<1> DEFINE total == Total(Widths(In("center", items)))
           low == (BarWidth - sheet.notch) \div 2
           high == (BarWidth + sheet.notch) \div 2
<1>1. total \in Nat
  BY InIsRow, RunIsLaid
<1> HIDE DEF total
<1>2. CenterStart(items) = (BarWidth - total) \div 2 /\ CenterEnd(items) = CenterStart(items) + total
  BY DEF CenterStart, CenterEnd, total
<1>3. BarWidth \in Int /\ low \in Int /\ high \in Int
  BY GeometryAssumption
<1>4. CenterStart(items) \in Int
  BY <1>1, <1>2, <1>3
<1>5. CenterEnd(items) \in Int /\ CenterStart(items) <= CenterEnd(items)
  BY <1>1, <1>2, <1>4
<1> HIDE DEF low, high
<1>6. Least(CenterStart(items), low) \in Int /\ Least(CenterStart(items), low) <= CenterStart(items)
      /\ Least(CenterStart(items), low) <= low
  BY <1>3, <1>4, Extremes
<1>7. Most(CenterEnd(items), high) \in Int /\ CenterEnd(items) <= Most(CenterEnd(items), high)
      /\ high <= Most(CenterEnd(items), high)
  BY <1>3, <1>5, Extremes
<1>8. QED
  BY <1>4, <1>5, <1>6, <1>7 DEF low, high

LEMMA PieceIsLaid ==
  ASSUME NEW items, InRow(items), sheet.notch \in Int, NEW b \in Buckets
  PROVE  /\ LaidRow(Range(Piece(b, items)), In(b, items), Starts(b, items), Ends(b, items))
         /\ Piece(b, items) \in Seq(Range(Piece(b, items)))
<1>1. /\ InRow(In(b, items)) /\ Len(In(b, items)) \in Nat
  BY InIsRow DEF InRow
<1>2. ASSUME Piece(b, items) \in [1..Len(In(b, items)) -> Range(Piece(b, items))]
      PROVE  Piece(b, items) \in Seq(Range(Piece(b, items)))
  BY <1>1, <1>2
<1>3. BarWidth \in Int
  BY GeometryAssumption
<1>4. CASE b = "left"
  <2>1. Piece(b, items) = RunFrom(0, In(b, items)) /\ Starts(b, items) = 0
        /\ Ends(b, items) = Total(Widths(In(b, items)))
    BY <1>4 DEF Piece, Starts, Ends
  <2>2. Total(Widths(In(b, items))) \in Nat /\ 0 \in Int
    BY <1>1, RunIsLaid
  <2>3. 0 + Total(Widths(In(b, items))) = Total(Widths(In(b, items)))
    BY <2>2
  <2>4. QED
    BY <1>1, <1>2, <2>1, <2>2, <2>3, RunIsLaid
<1>5. CASE b = "right"
  <2>1. Piece(b, items) = RunUpTo(BarWidth, In(b, items)) /\ Ends(b, items) = BarWidth
        /\ Starts(b, items) = BarWidth - Total(Widths(In(b, items)))
    BY <1>5 DEF Piece, Starts, Ends
  <2>2. QED
    BY <1>1, <1>2, <1>3, <2>1, RunUpToIsLaid
<1>6. CASE b = "center"
  <2>1. Piece(b, items) = RunFrom(CenterStart(items), In(b, items)) /\ Starts(b, items) = CenterStart(items)
        /\ Ends(b, items) = CenterStart(items) + Total(Widths(In(b, items)))
    BY <1>6 DEF Piece, Starts, Ends, CenterEnd
  <2>2. QED
    BY <1>1, <1>2, <2>1, MiddleIs, RunIsLaid
<1>7. CASE b = "center_left"
  <2> DEFINE x == Least(CenterStart(items), (BarWidth - sheet.notch) \div 2)
  <2>1. Piece(b, items) = RunUpTo(x, In(b, items)) /\ Ends(b, items) = x
        /\ Starts(b, items) = x - Total(Widths(In(b, items)))
    BY <1>7 DEF Piece, Starts, Ends
  <2>2. x \in Int
    BY MiddleIs
  <2> HIDE DEF x
  <2>3. QED
    BY <1>1, <1>2, <2>1, <2>2, RunUpToIsLaid
<1>8. CASE b = "center_right"
  <2> DEFINE x == Most(CenterEnd(items), (BarWidth + sheet.notch) \div 2)
  <2>1. Piece(b, items) = RunFrom(x, In(b, items)) /\ Starts(b, items) = x
        /\ Ends(b, items) = x + Total(Widths(In(b, items)))
    BY <1>8 DEF Piece, Starts, Ends
  <2>2. x \in Int
    BY MiddleIs
  <2> HIDE DEF x
  <2>3. QED
    BY <1>1, <1>2, <2>1, <2>2, RunIsLaid
<1>9. QED
  BY <1>4, <1>5, <1>6, <1>7, <1>8 DEF Buckets

IsNumbered(items) == InRow(items) /\ \A k \in 1..Len(items) : items[k].id = k
Arranged(items) == Arrange(items, BarWidth, [left |-> 0, right |-> 0], sheet.notch)

LEMMA ArrangedIs ==
  ASSUME NEW items, IsNumbered(items), sheet.notch \in Int
  PROVE  /\ Range(Arranged(items)) = UNION {Range(Piece(b, items)) : b \in Buckets}
         /\ \A b \in Buckets : Placed(items, b) = Range(Piece(b, items))
<1>1. InRow(items) /\ BarWidth - 0 = BarWidth
  BY GeometryAssumption DEF IsNumbered
<1> DEFINE p1 == Piece("left", items)
           p2 == Piece("right", items)
           p3 == Piece("center", items)
           p4 == Piece("center_left", items)
           p5 == Piece("center_right", items)
           S == UNION {Range(Piece(b, items)) : b \in Buckets}
<1>2. Arranged(items) = p1 \o p2 \o p3 \o p4 \o p5
  BY <1>1 DEF Arranged, Arrange, Piece, CenterStart, CenterEnd
<1>3. \A b \in Buckets : Piece(b, items) \in Seq(S)
  <2> SUFFICES ASSUME NEW b \in Buckets PROVE Piece(b, items) \in Seq(S)
    OBVIOUS
  <2>1. Piece(b, items) \in Seq(Range(Piece(b, items)))
    BY <1>1, PieceIsLaid
  <2>2. Range(Piece(b, items)) \subseteq S
    OBVIOUS
  <2> HIDE DEF S
  <2>3. QED
    BY <2>1, <2>2
<1>4. /\ p1 \in Seq(S) /\ p2 \in Seq(S) /\ p3 \in Seq(S) /\ p4 \in Seq(S) /\ p5 \in Seq(S)
      /\ S = Range(p1) \cup Range(p2) \cup Range(p3) \cup Range(p4) \cup Range(p5)
  <2>1. S = Range(p1) \cup Range(p2) \cup Range(p3) \cup Range(p4) \cup Range(p5)
    BY DEF Buckets
  <2> HIDE DEF S
  <2>2. QED
    BY <1>3, <2>1 DEF Buckets
<1> HIDE DEF p1, p2, p3, p4, p5, S
<1>5. Range(Arranged(items)) = S
  <2> DEFINE q2 == p1 \o p2
             q3 == q2 \o p3
             q4 == q3 \o p4
             q5 == q4 \o p5
  <2>1. Arranged(items) = q5
    BY <1>2
  <2>2. q2 \in Seq(S) /\ Range(q2) = Range(p1) \cup Range(p2)
    BY <1>4, Joined
  <2> HIDE DEF q2
  <2>3. q3 \in Seq(S) /\ Range(q3) = Range(q2) \cup Range(p3)
    BY <1>4, <2>2, Joined
  <2> HIDE DEF q3
  <2>4. q4 \in Seq(S) /\ Range(q4) = Range(q3) \cup Range(p4)
    BY <1>4, <2>3, Joined
  <2> HIDE DEF q4
  <2>5. Range(q5) = Range(q4) \cup Range(p5)
    BY <1>4, <2>4, Joined
  <2> HIDE DEF q5
  <2>6. QED
    BY <1>4, <2>1, <2>2, <2>3, <2>4, <2>5
<1>6. ASSUME NEW b \in Buckets, NEW r \in Range(Piece(b, items)) PROVE items[r.id].at = b
  <2>1. PICK i \in 1..Len(In(b, items)) : r.id = In(b, items)[i].id
    BY <1>1, PieceIsLaid DEF LaidRow
  <2>2. PICK k \in 1..Len(items) : In(b, items)[i] = items[k] /\ items[k].at = b
    BY <1>1, InIsRow
  <2>3. QED
    BY <2>1, <2>2 DEF IsNumbered
<1>7. \A b \in Buckets : Placed(items, b) = Range(Piece(b, items))
  <2>1. \A b \in Buckets : Placed(items, b) = {r \in Range(Arranged(items)) : items[r.id].at = b}
    BY DEF Placed, Arranged
  <2>2. \A r \in S : \E b \in Buckets : r \in Range(Piece(b, items))
    BY DEF S
  <2>3. \A b \in Buckets : Range(Piece(b, items)) \subseteq S
    BY DEF S
  <2>4. ASSUME NEW b \in Buckets PROVE Placed(items, b) = Range(Piece(b, items))
    <3>1. ASSUME NEW r \in Range(Piece(b, items)) PROVE r \in Placed(items, b)
      BY <1>5, <1>6, <2>1, <2>3
    <3>2. ASSUME NEW r \in Placed(items, b) PROVE r \in Range(Piece(b, items))
      <4>1. r \in S /\ items[r.id].at = b
        BY <1>5, <2>1
      <4>2. PICK c \in Buckets : r \in Range(Piece(c, items))
        BY <2>2, <4>1
      <4>3. c = b
        BY <1>6, <4>1, <4>2
      <4>4. QED
        BY <4>2, <4>3
    <3>3. QED
      BY <3>1, <3>2
  <2>5. QED
    BY <2>4
<1>8. QED
  BY <1>5, <1>7 DEF S

\* The items of a row, whatever they measure, in their order.
AnyItem == [id: Nat, at: Buckets, width: Int]
AnyRow(items) ==
  /\ items \in Seq(AnyItem)
  /\ \A i, j \in 1..Len(items) : i < j => items[i].id < items[j].id
NoneShrinks(items) == \A n \in DOMAIN items : items[n].width >= 0

LEMMA RowIsNumbered ==
  ASSUME sheet \in Rows
  PROVE  /\ AnyRow(Identified(sheet.items))
         /\ NoneShrinks(Identified(sheet.items)) => IsNumbered(Identified(sheet.items))
         /\ sheet.notch \in Int /\ sheet.notch % 2 = 0
         /\ sheet.align \in {"left", "center", "right"} /\ sheet.panel \in Int
<1>1. PICK n \in 0..Runs : sheet.items \in [1..n -> [at: Buckets, width: Lengths]]
  BY DEF Rows
<1>2. /\ sheet.notch \in Int /\ sheet.align \in {"left", "center", "right"} /\ sheet.notch % 2 = 0
      /\ sheet.panel \in Int
  BY GeometryAssumption DEF Rows
<1>3. n \in Nat /\ Len(sheet.items) = n
  BY <1>1, GeometryAssumption
<1> DEFINE items == Identified(sheet.items)
<1>4. items = [k \in 1..n |-> [id |-> k, at |-> sheet.items[k].at, width |-> sheet.items[k].width]]
  BY <1>3 DEF Identified
<1> HIDE DEF items
<1>5. \A k \in 1..n : sheet.items[k].at \in Buckets /\ sheet.items[k].width \in Int
  BY <1>1, GeometryAssumption
<1>6. \A k \in 1..n : items[k] \in AnyItem /\ items[k].id = k
  BY <1>3, <1>4, <1>5 DEF AnyItem
<1>7. items \in [1..n -> AnyItem] /\ DOMAIN items = 1..n
  BY <1>4, <1>6
<1>8. items \in Seq(AnyItem) /\ Len(items) = n
  BY <1>3, <1>7
<1>9. \A i, j \in 1..n : i < j => items[i].id < items[j].id
  BY <1>6
<1>10. AnyRow(items)
  BY <1>8, <1>9 DEF AnyRow
<1>11. ASSUME NoneShrinks(items) PROVE IsNumbered(items)
  <2>1. \A k \in 1..n : items[k] \in Item
    BY <1>6, <1>7, <1>11 DEF Item, AnyItem, NoneShrinks
  <2>2. items \in [1..n -> Item]
    BY <1>7, <2>1
  <2>3. items \in Seq(Item)
    BY <1>3, <2>2
  <2>4. QED
    BY <1>6, <1>8, <1>9, <2>3 DEF IsNumbered, InRow
<1>12. QED
  BY <1>2, <1>10, <1>11 DEF items

\* A popup's row, and how wide it is either way.
LEMMA PopupIsLaid ==
  ASSUME NEW items, AnyRow(items)
  PROVE  /\ \A r, s \in Range(ArrangePopup(items, TRUE).placed) : r.id < s.id => r.x + r.width <= s.x
         /\ \A horizontal \in BOOLEAN : ArrangePopup(items, horizontal).width \in Int
<1> DEFINE n == Len(items)
           taking == [k \in 1..n |-> [items[k] EXCEPT !.width = Most(@, 0)]]
<1>1. n \in Nat /\ \A k \in 1..n : items[k] \in AnyItem
  BY DEF AnyRow
<1>2. \A k \in 1..n : /\ taking[k] \in Item /\ taking[k].id = items[k].id
                       /\ items[k].width \in Int /\ taking[k].width \in Nat
                       /\ taking[k].width = IF items[k].width >= 0 THEN items[k].width ELSE 0
  <2> SUFFICES ASSUME NEW k \in 1..n
               PROVE  /\ taking[k] \in Item /\ taking[k].id = items[k].id
                      /\ items[k].width \in Int /\ taking[k].width \in Nat
                      /\ taking[k].width = IF items[k].width >= 0 THEN items[k].width ELSE 0
    OBVIOUS
  <2>1. items[k] \in AnyItem /\ items[k].width \in Int
    BY <1>1 DEF AnyItem
  <2>2. Most(items[k].width, 0) = (IF items[k].width >= 0 THEN items[k].width ELSE 0)
    BY <2>1, Extremes
  <2>3. Most(items[k].width, 0) \in Nat
    BY <2>1, <2>2
  <2>4. taking[k] = [items[k] EXCEPT !.width = Most(@, 0)]
    OBVIOUS
  <2> HIDE DEF taking
  <2>5. QED
    BY <2>1, <2>2, <2>3, <2>4 DEF Item, AnyItem
<1>3. InRow(taking) /\ Len(taking) = n
  <2>1. taking \in [1..n -> Item]
    BY <1>2
  <2> HIDE DEF n
  <2>2. taking \in Seq(Item) /\ Len(taking) = n
    BY <1>1, <2>1
  <2> HIDE DEF taking
  <2>3. \A i, j \in 1..n : i < j => taking[i].id < taking[j].id
    BY <1>2 DEF AnyRow, n
  <2>4. QED
    BY <2>2, <2>3 DEF InRow
<1>4. /\ ArrangePopup(items, TRUE).placed = RunFrom(0, taking)
      /\ ArrangePopup(items, TRUE).width = Total(Widths(taking))
  BY DEF ArrangePopup
<1> DEFINE wide == {0} \cup {items[k].width : k \in 1..n}
<1>5. ArrangePopup(items, FALSE).width = Max(wide)
  BY DEF ArrangePopup
<1> HIDE DEF taking
<1>6. /\ Total(Widths(taking)) \in Nat
      /\ \A r, s \in Range(RunFrom(0, taking)) : r.id < s.id => r.x + r.width <= s.x
  BY <1>3, RunIsLaid DEF LaidRow
<1>7. Max(wide) \in Int
  <2> DEFINE w == Widths(taking)
             total == Total(w)
             taken == {0} \cup {taking[k].width : k \in 1..n}
  <2>1. /\ w \in Seq(Nat) /\ Len(w) = n /\ \A k \in 1..n : w[k] = taking[k].width
    BY <1>3, WidthsOf DEF InRow
  <2>2. total \in Nat /\ total = Upto(w, n)
    BY <1>6, <2>1 DEF Total
  <2> HIDE DEF w, n, total
  <2>3. ASSUME NEW k \in 1..n PROVE taking[k].width \in 0..total
    <3>1. k - 1 \in 0..k /\ k \in 0..n /\ n \in 0..n /\ k \in 0..k
      BY <1>1
    <3>2. Upto(w, k - 1) \in Nat /\ Upto(w, k) \in Nat /\ Upto(w, k) <= total
      BY <2>1, <2>2, <3>1, UptoGrows
    <3>3. Upto(w, k) = Upto(w, k - 1) + taking[k].width
      BY <1>1, <2>1, UptoIs
    <3>4. QED
      BY <1>2, <2>1, <2>2, <3>2, <3>3
  <2>4. taken \in SUBSET (0..total) /\ taken # {}
    BY <2>2, <2>3
  <2> HIDE DEF taken
  <2>5. Max(taken) \in taken /\ \A m \in taken : m <= Max(taken)
    BY <2>2, <2>4, GreatestNat
  <2>6. PICK most \in 0..total : most = Max(taken) /\ most \in Int /\ most >= 0
    <3>1. Max(taken) \in 0..total
      BY <2>4, <2>5
    <3>2. \A m \in 0..total : m \in Int /\ m >= 0
      BY <2>2
    <3>3. QED
      BY <3>1, <3>2
  <2>7. most \in wide
    BY <1>2, <2>5, <2>6 DEF taken
  <2>8. \A m \in wide : m \in Int /\ most >= m
    <3>1. \A k \in 1..n : taking[k].width <= most /\ items[k].width <= taking[k].width
      BY <1>2, <2>5, <2>6 DEF taken
    <3>2. QED
      BY <1>2, <2>6, <3>1
  <2> HIDE DEF wide
  <2>9. Max(wide) \in wide
    BY <2>6, <2>7, <2>8 DEF Max
  <2>10. QED
    BY <2>8, <2>9
<1>8. ASSUME NEW horizontal \in BOOLEAN
      PROVE  ArrangePopup(items, horizontal).width \in Int
  <2> HIDE DEF wide
  <2>1. CASE horizontal = TRUE
    <3>1. Total(Widths(taking)) \in Int
      BY <1>6
    <3>2. QED
      BY <1>4, <2>1, <3>1
  <2>2. CASE horizontal = FALSE
    BY <1>5, <1>7, <2>2
  <2>3. QED
    BY <2>1, <2>2
<1>9. QED
  BY <1>4, <1>6, <1>8

LEMMA AnchorsHold ==
  ASSUME NEW host, host.x \in Int, host.width \in Int, NEW width \in Int,
         NEW align \in {"left", "center", "right"}, width <= BarWidth
  PROVE  0 <= AnchorAt(host, width, align, BarWidth) /\ AnchorAt(host, width, align, BarWidth) + width <= BarWidth
<1> DEFINE x == CASE align = "left" -> host.x
                  [] align = "center" -> host.x + (host.width - width) \div 2
                  [] align = "right" -> host.x + host.width - width
<1>1. x \in Int
  <2>1. CASE align = "left"
    BY <2>1
  <2>2. CASE align = "center"
    <3>1. x = host.x + (host.width - width) \div 2
      BY <2>2
    <3>2. host.width - width \in Int
      OBVIOUS
    <3>3. (host.width - width) \div 2 \in Int
      BY <3>2
    <3>4. QED
      BY <3>1, <3>3
  <2>3. CASE align = "right"
    BY <2>3
  <2>4. QED
    BY <2>1, <2>2, <2>3
<1>2. AnchorAt(host, width, align, BarWidth) = Most(Least(x, BarWidth - width), 0)
  BY DEF AnchorAt
<1> HIDE DEF x
<1>3. BarWidth \in Nat /\ BarWidth - width \in Int
  BY GeometryAssumption
<1>4. Least(x, BarWidth - width) = IF x <= BarWidth - width THEN x ELSE BarWidth - width
  BY <1>1, <1>3, Extremes
<1>5. Least(x, BarWidth - width) \in Int /\ Least(x, BarWidth - width) <= BarWidth - width
  BY <1>1, <1>3, <1>4
<1>6. Most(Least(x, BarWidth - width), 0) =
        IF Least(x, BarWidth - width) >= 0 THEN Least(x, BarWidth - width) ELSE 0
  BY <1>5, Extremes
<1>7. QED
  BY <1>2, <1>3, <1>5, <1>6

LEMMA Halves ==
  ASSUME NEW n \in Int, n % 2 = 0
  PROVE  n \div 2 \in Int /\ 2 * (n \div 2) = n
OBVIOUS

LEMMA EvenSides ==
  ASSUME NEW n \in Int, NEW m \in Int, n % 2 = 0, m % 2 = 0
  PROVE  /\ (n + m) \in Int /\ (n + m) % 2 = 0
         /\ (n - m) \in Int /\ (n - m) % 2 = 0
OBVIOUS

\* Of a row none of which measures less than nothing.
LEMMA ForwardRowsHold ==
  ASSUME NEW items, IsNumbered(items), sheet.notch \in Int, sheet.notch % 2 = 0
  PROVE  LET middle == UNION {Placed(items, b) : b \in {"center", "center_left", "center_right"}}
         IN /\ \A b \in Buckets : \A r, s \in Placed(items, b) : r.id < s.id => r.x + r.width <= s.x
            /\ \A r, s \in middle : r.id # s.id => Apart(r, s)
            /\ \A r \in Placed(items, "center_left") : 2 * (r.x + r.width) <= BarWidth - sheet.notch
            /\ \A r \in Placed(items, "center_right") : 2 * r.x >= BarWidth + sheet.notch
            /\ Placed(items, "left") # {} => \E r \in Placed(items, "left") : r.x = 0
            /\ Placed(items, "right") # {} =>
                 \E r \in Placed(items, "right") : r.x + r.width = BarWidth
<1> DEFINE middle == UNION {Placed(items, b) : b \in {"center", "center_left", "center_right"}}
<1>1. /\ InRow(items) /\ BarWidth \in Nat /\ BarWidth % 2 = 0
  BY GeometryAssumption DEF IsNumbered
<1>2. ASSUME NEW b \in Buckets
      PROVE  LaidRow(Placed(items, b), In(b, items), Starts(b, items), Ends(b, items))
  BY <1>1, ArrangedIs, PieceIsLaid
<1>3. \A b \in Buckets : \A r, s \in Placed(items, b) : r.id < s.id => r.x + r.width <= s.x
  BY <1>2 DEF LaidRow
<1>4. ASSUME NEW b \in Buckets, NEW r \in Placed(items, b)
      PROVE  /\ r.x \in Int /\ r.width \in Nat /\ Starts(b, items) <= r.x /\ r.x + r.width <= Ends(b, items)
             /\ Starts(b, items) \in Int /\ Ends(b, items) \in Int /\ r.id \in Nat
  <2>1. /\ r.x \in Int /\ r.width \in Nat /\ Starts(b, items) <= r.x /\ r.x + r.width <= Ends(b, items)
        /\ Starts(b, items) \in Int /\ Ends(b, items) \in Int
    BY <1>2 DEF LaidRow
  <2>2. PICK i \in 1..Len(In(b, items)) : r.id = In(b, items)[i].id
    BY <1>2 DEF LaidRow
  <2>3. In(b, items)[i] \in Item
    BY <1>1, InIsRow DEF InRow
  <2>4. QED
    BY <2>1, <2>2, <2>3 DEF Item
<1> DEFINE low == Least(CenterStart(items), (BarWidth - sheet.notch) \div 2)
           high == Most(CenterEnd(items), (BarWidth + sheet.notch) \div 2)
<1>5. /\ CenterStart(items) \in Int /\ CenterEnd(items) \in Int /\ CenterStart(items) <= CenterEnd(items)
      /\ low \in Int /\ low <= CenterStart(items) /\ low <= (BarWidth - sheet.notch) \div 2
      /\ high \in Int /\ CenterEnd(items) <= high /\ (BarWidth + sheet.notch) \div 2 <= high
  BY <1>1, MiddleIs
<1>6. /\ Starts("left", items) = 0 /\ Ends("right", items) = BarWidth
      /\ Starts("center", items) = CenterStart(items) /\ Ends("center", items) = CenterEnd(items)
      /\ Ends("center_left", items) = low /\ Starts("center_right", items) = high
  BY DEF Starts, Ends
<1> HIDE DEF low, high
<1>7. \A r \in Placed(items, "center_left") : 2 * (r.x + r.width) <= BarWidth - sheet.notch
  <2> SUFFICES ASSUME NEW r \in Placed(items, "center_left")
               PROVE  2 * (r.x + r.width) <= BarWidth - sheet.notch
    OBVIOUS
  <2>1. r.x \in Int /\ r.width \in Nat /\ r.x + r.width <= low
    BY <1>4, <1>6 DEF Buckets
  <2> DEFINE side == BarWidth - sheet.notch
  <2>2. side \in Int /\ side % 2 = 0
    <3>1. /\ BarWidth \in Int /\ BarWidth % 2 = 0
          /\ sheet.notch \in Int /\ sheet.notch % 2 = 0
      BY <1>1
    <3>2. QED
      BY <3>1, EvenSides
  <2>3. low <= side \div 2
    BY <1>5
  <2> HIDE DEF side
  <2>4. side \div 2 \in Int /\ 2 * (side \div 2) = side
    BY <2>2, Halves
  <2>5. 2 * (r.x + r.width) <= side
    BY <1>5, <2>1, <2>2, <2>3, <2>4
  <2>6. QED
    BY <2>5 DEF side
<1>8. \A r \in Placed(items, "center_right") : 2 * r.x >= BarWidth + sheet.notch
  <2> SUFFICES ASSUME NEW r \in Placed(items, "center_right")
               PROVE  2 * r.x >= BarWidth + sheet.notch
    OBVIOUS
  <2>1. r.x \in Int /\ high <= r.x
    BY <1>4, <1>6 DEF Buckets
  <2> DEFINE side == BarWidth + sheet.notch
  <2>2. side \in Int /\ side % 2 = 0
    <3>1. /\ BarWidth \in Int /\ BarWidth % 2 = 0
          /\ sheet.notch \in Int /\ sheet.notch % 2 = 0
      BY <1>1
    <3>2. QED
      BY <3>1, EvenSides
  <2>3. side \div 2 <= high
    BY <1>5
  <2> HIDE DEF side
  <2>4. side \div 2 \in Int /\ 2 * (side \div 2) = side
    BY <2>2, Halves
  <2>5. 2 * r.x >= side
    BY <1>5, <2>1, <2>2, <2>3, <2>4
  <2>6. QED
    BY <2>5 DEF side
<1>9. \A r, s \in middle : r.id # s.id => Apart(r, s)
  <2> SUFFICES ASSUME NEW r \in middle, NEW s \in middle, r.id # s.id PROVE Apart(r, s)
    OBVIOUS
  <2>1. PICK b \in {"center", "center_left", "center_right"} : r \in Placed(items, b)
    OBVIOUS
  <2>2. PICK c \in {"center", "center_left", "center_right"} : s \in Placed(items, c)
    OBVIOUS
  <2>3. b \in Buckets /\ c \in Buckets
    BY DEF Buckets
  <2>4. /\ r.x \in Int /\ r.width \in Nat /\ Starts(b, items) <= r.x /\ r.x + r.width <= Ends(b, items)
        /\ Starts(b, items) \in Int /\ Ends(b, items) \in Int /\ r.id \in Nat
    BY <1>4, <2>1, <2>3
  <2>5. /\ s.x \in Int /\ s.width \in Nat /\ Starts(c, items) <= s.x /\ s.x + s.width <= Ends(c, items)
        /\ Starts(c, items) \in Int /\ Ends(c, items) \in Int /\ s.id \in Nat
    BY <1>4, <2>2, <2>3
  <2>6. CASE b = c
    <3>0. PICK n \in Nat, m \in Nat : n = r.id /\ m = s.id /\ n # m
      BY <2>4, <2>5
    <3>1. r.id < s.id \/ s.id < r.id
      BY <3>0
    <3>2. QED
      BY <1>3, <2>1, <2>2, <2>3, <2>6, <3>1 DEF Apart
  <2>7. CASE b # c
    <3>1. Ends(b, items) <= Starts(c, items) \/ Ends(c, items) <= Starts(b, items)
      BY <1>5, <1>6, <2>7
    <3>2. QED
      BY <2>4, <2>5, <3>1 DEF Apart
  <2>8. QED
    BY <2>6, <2>7
<1>10. /\ Placed(items, "left") # {} => \E r \in Placed(items, "left") : r.x = 0
       /\ Placed(items, "right") # {} => \E r \in Placed(items, "right") : r.x + r.width = BarWidth
  BY <1>2, <1>6 DEF LaidRow, Buckets
<1>11. QED
  BY <1>3, <1>7, <1>8, <1>9, <1>10

LEMMA RowsHold == ASSUME sheet \in Rows PROVE ArrangesApart
<1> DEFINE items == Identified(sheet.items)
<1>1. /\ AnyRow(items) /\ (NoneShrinks(items) => IsNumbered(items))
      /\ sheet.notch \in Int /\ sheet.notch % 2 = 0
      /\ sheet.align \in {"left", "center", "right"} /\ sheet.panel \in Int
      /\ BarWidth \in Nat /\ Lengths \subseteq Int
  BY RowIsNumbered, GeometryAssumption
<1> HIDE DEF items
<1>2. ASSUME NEW x \in -BarWidth..2 * BarWidth, NEW taken \in Lengths, NEW horizontal \in BOOLEAN,
             sheet.panel = 0, ArrangePopup(items, horizontal).width <= BarWidth
      PROVE  LET host == OnDesktop(sheet.panel, [x |-> x, width |-> taken])
                 width == ArrangePopup(items, horizontal).width
                 spot == AnchorAt(host, width, sheet.align, BarWidth)
             IN sheet.panel <= spot /\ spot + width <= sheet.panel + BarWidth
  <2> DEFINE host == OnDesktop(sheet.panel, [x |-> x, width |-> taken])
             width == ArrangePopup(items, horizontal).width
  <2>1. x \in Int /\ taken \in Int
    BY <1>1
  <2>2. host.x \in Int /\ host.width \in Int
    BY <1>1, <2>1 DEF OnDesktop
  <2>3. width \in Int
    BY <1>1, PopupIsLaid
  <2> HIDE DEF host, width
  <2>4. /\ 0 <= AnchorAt(host, width, sheet.align, BarWidth)
        /\ AnchorAt(host, width, sheet.align, BarWidth) + width <= BarWidth
    <3>1. width <= BarWidth
      BY <1>2 DEF width
    <3>2. QED
      BY <1>1, <2>2, <2>3, <3>1, AnchorsHold
  <2>5. sheet.panel + BarWidth = BarWidth
    BY <1>1, <1>2
  <2>6. QED
    BY <1>2, <2>4, <2>5 DEF host, width
<1>3. \A r, s \in Range(ArrangePopup(items, TRUE).placed) : r.id < s.id => r.x + r.width <= s.x
  BY <1>1, PopupIsLaid
<1>4. QED
  BY <1>1, <1>2, <1>3, ForwardRowsHold DEF ArrangesApart, items, NoneShrinks

\* What a sheet is: blank, a box or a row that was measured.
Sheeted == sheet \in {Blank} \cup Boxes \cup Rows

LEMMA SheetStart == GeometryInit => Sheeted
BY DEF GeometryInit, Sheeted

LEMMA SheetStep == Sheeted /\ [GeometryNext]_sheet => Sheeted'
BY DEF Sheeted, GeometryNext, MeasureBox, MeasureRow, Boxes, Rows, Run

LEMMA SheetHolds == Sheeted => DrawsWhatItMeasured
<1> SUFFICES ASSUME Sheeted PROVE DrawsWhatItMeasured
  OBVIOUS
<1>1. CASE sheet = Blank
  BY <1>1 DEF Blank, DrawsWhatItMeasured, DrawsInItsBox, ArrangesApart
<1>2. CASE sheet \in Boxes
  <2>1. sheet.kind = "box"
    BY <1>2 DEF Boxes
  <2>2. QED
    BY <1>2, <2>1, BoxesHold DEF DrawsWhatItMeasured, ArrangesApart
<1>3. CASE sheet \in Rows
  <2>1. sheet.kind = "row"
    BY <1>3 DEF Rows
  <2>2. QED
    BY <1>3, <2>1, RowsHold DEF DrawsWhatItMeasured, DrawsInItsBox
<1>4. QED
  BY <1>1, <1>2, <1>3 DEF Sheeted

\* Any item is drawn in the box it measured (layout.rs `width`, `draw_item`), and
\* any number of them, of any widths, are arranged apart (`arrange`, `popup_anchor`).
THEOREM DrawnAsMeasured == GeometrySpec => []DrawsWhatItMeasured
BY SheetStart, SheetStep, SheetHolds, PTL DEF GeometrySpec

-----------------------------------------------------------------------------
(* Layout. *)

\* What is measured, and what is placed.
Tile == [id: All, at: Buckets, width: Nat]
PlacedRects == [id: All, x: Int, width: Int]

LEMMA TileWidths ==
  ASSUME NEW items \in Seq(Tile)
  PROVE  /\ Widths(items) \in Seq(Nat) /\ Len(Widths(items)) = Len(items) /\ Len(items) \in Nat
         /\ \A k \in 1..Len(items) : Widths(items)[k] = items[k].width /\ items[k] \in Tile
<1> DEFINE n == Len(items)
<1>1. n \in Nat /\ \A k \in 1..n : items[k] \in Tile
  OBVIOUS
<1>2. \A k \in 1..n : items[k].width \in Nat
  BY <1>1 DEF Tile
<1>3. Widths(items) = [k \in 1..n |-> items[k].width]
  BY DEF Widths
<1>4. Widths(items) \in [1..n -> Nat]
  BY <1>2, <1>3
<1> HIDE DEF n
<1>5. Widths(items) \in Seq(Nat) /\ Len(Widths(items)) = n
  BY <1>1, <1>4
<1>6. QED
  BY <1>1, <1>3, <1>5 DEF n

\* A run, from the left or up to the right, has its items in their order or backwards.
LEMMA RunKeeps ==
  ASSUME NEW items \in Seq(Tile), NEW x \in Int
  PROVE  /\ Total(Widths(items)) \in Nat
         /\ RunFrom(x, items) \in Seq(PlacedRects) /\ Len(RunFrom(x, items)) = Len(items)
         /\ \A k \in 1..Len(items) : RunFrom(x, items)[k].id = items[k].id
<1> DEFINE w == Widths(items)
           n == Len(items)
           row == RunFrom(x, items)
<1>1. /\ w \in Seq(Nat) /\ Len(w) = n /\ n \in Nat
      /\ \A k \in 1..n : w[k] = items[k].width /\ items[k] \in Tile
  BY TileWidths
<1>2. row = [k \in 1..n |-> [id |-> items[k].id, x |-> x + Upto(w, k - 1), width |-> items[k].width]]
  BY DEF RunFrom
<1>3. Total(w) = Upto(w, n)
  BY <1>1 DEF Total
<1> HIDE DEF w, n, row
<1>4. \A k \in 0..n : Upto(w, k) \in Nat
  BY <1>1, UptoGrows
<1>5. \A k \in 1..n : row[k] \in PlacedRects
  <2> SUFFICES ASSUME NEW k \in 1..n PROVE row[k] \in PlacedRects
    OBVIOUS
  <2>1. k - 1 \in 0..n
    BY <1>1
  <2>2. x + Upto(w, k - 1) \in Int
    BY <1>4, <2>1
  <2>3. items[k].id \in All /\ items[k].width \in Int
    BY <1>1 DEF Tile
  <2>4. QED
    BY <1>2, <2>2, <2>3 DEF PlacedRects
<1>6. row \in Seq(PlacedRects) /\ Len(row) = n
  <2>1. row \in [1..n -> PlacedRects]
    BY <1>2, <1>5
  <2>2. QED
    BY <1>1, <2>1
<1>7. Total(w) \in Nat
  BY <1>1, <1>3, <1>4
<1>8. \A k \in 1..n : row[k].id = items[k].id
  BY <1>2
<1>9. QED
  BY <1>6, <1>7, <1>8 DEF w, n, row

LEMMA BackwardsKeeps ==
  ASSUME NEW items \in Seq(Tile), NEW x \in Int
  PROVE  /\ RunUpTo(x, items) \in Seq(PlacedRects) /\ Len(RunUpTo(x, items)) = Len(items)
         /\ \A k \in 1..Len(items) : RunUpTo(x, items)[k].id = items[Len(items) - k + 1].id
<1> DEFINE n == Len(items)
           from == x - Total(Widths(items))
           row == RunFrom(from, items)
           back == RunUpTo(x, items)
<1>1. n \in Nat
  OBVIOUS
<1>2. from \in Int
  BY RunKeeps
<1>3. back = Reverse(row)
  BY DEF RunUpTo
<1> HIDE DEF from
<1>4. row \in Seq(PlacedRects) /\ Len(row) = n /\ \A k \in 1..n : row[k].id = items[k].id
  BY <1>2, RunKeeps
<1> HIDE DEF row, back, n
<1>5. back = [k \in 1..n |-> row[(n - k) + 1]]
  BY <1>3, <1>4 DEF Reverse
<1>6. \A k \in 1..n : (n - k) + 1 \in 1..n
  BY <1>1
<1>7. back \in [1..n -> PlacedRects]
  BY <1>4, <1>5, <1>6
<1>8. back \in Seq(PlacedRects) /\ Len(back) = n
  BY <1>1, <1>7
<1>9. \A k \in 1..n : back[k].id = items[(n - k) + 1].id
  BY <1>4, <1>5, <1>6
<1>10. QED
  BY <1>8, <1>9 DEF back, n

\* What can be ordered by a number can be put in a row by it.
InTheirOrder(f, S, key) ==
  /\ f \in Listings(S)
  /\ \A i, j \in 1..Cardinality(S) : i < j => key[f[i]] < key[f[j]]

LEMMA RowOfMore ==
  ASSUME NEW S, IsFiniteSet(S), NEW key \in [S -> Nat], \A p, q \in S : key[p] = key[q] => p = q,
         NEW x \in S, \A y \in S : key[x] <= key[y],
         NEW g, InTheirOrder(g, S \ {x}, key)
  PROVE  \E f : InTheirOrder(f, S, key)
<1> DEFINE n == Cardinality(S)
           f == [i \in 1..n |-> IF i = 1 THEN x ELSE g[i - 1]]
<1>1. n \in Nat /\ Cardinality(S \ {x}) = n - 1
  BY FS_CardinalityType, FS_RemoveElement
<1>2. n # 0
  BY FS_EmptySet
<1>3. /\ g \in [1..(n - 1) -> S \ {x}]
      /\ \A i, j \in 1..(n - 1) : g[i] = g[j] => i = j
      /\ \A i, j \in 1..(n - 1) : i < j => key[g[i]] < key[g[j]]
  BY <1>1 DEF InTheirOrder, Listings
<1> HIDE DEF n
<1>4. f[1] = x /\ \A i \in 2..n : i - 1 \in 1..(n - 1) /\ f[i] = g[i - 1]
  BY <1>1, <1>2
<1>5. ASSUME NEW i \in 2..n PROVE f[i] \in S /\ f[i] # x
  <2> HIDE DEF f
  <2>1. i - 1 \in 1..(n - 1) /\ f[i] = g[i - 1]
    BY <1>4
  <2>2. g[i - 1] \in S \ {x}
    BY <2>1, <1>3
  <2>3. QED
    BY <2>1, <2>2
<1>6. \A i \in 1..n : i = 1 \/ i \in 2..n
  BY <1>1
<1>7. f \in [1..n -> S]
  <2>1. \A i \in 1..n : f[i] \in S
    BY <1>4, <1>5, <1>6
  <2>2. QED
    BY <2>1
<1> HIDE DEF f
<1>8. ASSUME NEW i \in 1..n, NEW j \in 1..n, f[i] = f[j] PROVE i = j
  <2>1. CASE i = 1 \/ j = 1
    BY <2>1, <1>4, <1>5, <1>6, <1>8
  <2>2. CASE i \in 2..n /\ j \in 2..n
    <3>1. i - 1 = j - 1
      BY <2>2, <1>3, <1>4, <1>8
    <3>2. QED
      BY <3>1
  <2>3. QED
    BY <2>1, <2>2, <1>6
<1>9. ASSUME NEW i \in 1..n, NEW j \in 1..n, i < j PROVE key[f[i]] < key[f[j]]
  <2>1. j \in 2..n
    BY <1>9
  <2>2. CASE i = 1
    <3>1. f[i] = x /\ f[j] \in S /\ f[j] # x
      BY <2>1, <2>2, <1>4, <1>5
    <3>2. key[x] <= key[f[j]] /\ key[x] # key[f[j]]
      BY <3>1
    <3>3. QED
      BY <3>1, <3>2
  <2>3. CASE i \in 2..n
    <3>1. i - 1 < j - 1
      BY <1>9
    <3>2. QED
      BY <3>1, <2>1, <2>3, <1>3, <1>4
  <2>4. QED
    BY <2>2, <2>3, <1>6
<1>10. InTheirOrder(f, S, key)
  BY <1>7, <1>8, <1>9 DEF InTheirOrder, Listings, n
<1>11. QED
  BY <1>10

LEMMA Sortable ==
  ASSUME NEW U, IsFiniteSet(U), NEW key \in [U -> Nat], \A p, q \in U : key[p] = key[q] => p = q
  PROVE  \E f : InTheirOrder(f, U, key)
<1> DEFINE Rowed(S) == \E f : InTheirOrder(f, S, key)
           T == {n \in Nat : \A S \in SUBSET U : Cardinality(S) = n => Rowed(S)}
<1>1. \A S \in SUBSET U : IsFiniteSet(S) /\ Cardinality(S) \in Nat
  BY FS_Subset, FS_CardinalityType
<1>2. 0 \in T
  <2> SUFFICES ASSUME NEW S \in SUBSET U, Cardinality(S) = 0 PROVE Rowed(S)
    OBVIOUS
  <2>1. S = {}
    BY <1>1, FS_EmptySet
  <2> DEFINE f == [i \in 1..0 |-> 0]
  <2>2. f \in [1..0 -> S]
    OBVIOUS
  <2>3. InTheirOrder(f, S, key)
    BY <2>2 DEF InTheirOrder, Listings
  <2>4. QED
    BY <2>3
<1>3. ASSUME NEW n \in T PROVE n + 1 \in T
  <2> SUFFICES ASSUME NEW S \in SUBSET U, Cardinality(S) = n + 1 PROVE Rowed(S)
    OBVIOUS
  <2>1. n \in Nat /\ IsFiniteSet(S) /\ S # {}
    BY <1>1, FS_EmptySet
  <2> DEFINE K == {key[s] : s \in S}
  <2>2. K \in SUBSET Nat /\ K # {}
    BY <2>1
  <2>3. PICK x \in S : key[x] = Min(K) /\ \A y \in K : Min(K) <= y
    BY <2>2, LeastNat
  <2>4. \A y \in S : key[x] <= key[y]
    BY <2>3
  <2>5. S \ {x} \in SUBSET U /\ Cardinality(S \ {x}) = n
    <3>1. Cardinality(S \ {x}) = Cardinality(S) - 1
      BY <2>1, FS_RemoveElement
    <3>2. QED
      BY <3>1, <2>1
  <2>6. PICK g : InTheirOrder(g, S \ {x}, key)
    BY <2>5
  <2> DEFINE k2 == [s \in S |-> key[s]]
  <2>7. k2 \in [S -> Nat] /\ \A s \in S : k2[s] = key[s]
    OBVIOUS
  <2> HIDE DEF k2
  <2>8. \A s \in S \ {x} : k2[s] = key[s]
    BY <2>7
  <2>9. InTheirOrder(g, S \ {x}, k2)
    BY <2>6, <2>8 DEF InTheirOrder, Listings
  <2>10. \E f : InTheirOrder(f, S, k2)
    BY <2>1, <2>4, <2>7, <2>9, RowOfMore
  <2>11. PICK f : InTheirOrder(f, S, k2)
    BY <2>10
  <2>12. InTheirOrder(f, S, key)
    BY <2>7, <2>11 DEF InTheirOrder, Listings
  <2>13. QED
    BY <2>12
<1>4. T = Nat
  <2> HIDE DEF T
  <2>1. T \in SUBSET Nat
    BY DEF T
  <2>2. QED
    BY <1>2, <1>3, <2>1, AllNat
<1>5. Cardinality(U) \in T
  BY <1>1, <1>4
<1>6. QED
  BY <1>5

-----------------------------------------------------------------------------
\* What there is to lay out, and in which order.
OrdersDiffer == \A p, q \in DOMAIN boxes : boxes[p].order = boxes[q].order => p = q
Boxed ==
  /\ DOMAIN boxes \subseteq All /\ OrdersDiffer
  /\ \A b \in DOMAIN boxes : boxes[b] \in Box /\ (b \in Brackets => ~boxes[b].inPopup)
  /\ members \in [Brackets -> SUBSET Drawables] /\ rows \in Listings(Brackets)

LEMMA OrderIs ==
  ASSUME Boxed, NEW S \in SUBSET DOMAIN boxes
  PROVE  /\ IsFiniteSet(S) /\ Cardinality(S) \in Nat /\ InOrder(S) \in Listings(S)
         /\ \A i, j \in 1..Cardinality(S) : i < j => boxes[InOrder(S)[i]].order < boxes[InOrder(S)[j]].order
<1> DEFINE key == [b \in S |-> boxes[b].order]
<1>1. IsFiniteSet(All) /\ S \subseteq All
  BY LayoutAssumption DEF Boxed, All
<1>2. IsFiniteSet(S) /\ Cardinality(S) \in Nat
  BY <1>1, FS_Subset, FS_CardinalityType
<1>3. Cardinality(All) \in Nat
  BY <1>1, FS_CardinalityType
<1>4. \A b \in S : boxes[b].order \in Nat
  BY <1>3 DEF Boxed, Box
<1>5. key \in [S -> Nat] /\ \A b \in S : key[b] = boxes[b].order
  BY <1>4
<1>6. \A p, q \in S : key[p] = key[q] => p = q
  BY <1>5 DEF Boxed, OrdersDiffer
<1> HIDE DEF key
<1>7. PICK f : InTheirOrder(f, S, key)
  BY <1>2, <1>5, <1>6, Sortable
<1>8. /\ f \in Listings(S)
      /\ \A i, j \in 1..Cardinality(S) : i < j => boxes[f[i]].order < boxes[f[j]].order
  <2>1. f \in [1..Cardinality(S) -> S]
    BY <1>7 DEF InTheirOrder, Listings
  <2>2. QED
    BY <1>5, <1>7, <2>1 DEF InTheirOrder
<1> DEFINE T == {g \in Listings(S) :
                  \A i, j \in 1..Cardinality(S) : i < j => boxes[g[i]].order < boxes[g[j]].order}
<1>9. f \in T
  BY <1>8
<1> HIDE DEF T
<1>10. InOrder(S) \in T
  BY <1>9 DEF InOrder, Whichever, T
<1>11. QED
  BY <1>2, <1>10 DEF T

LEMMA MeasuredIs ==
  ASSUME Boxed, NEW S \in SUBSET DOMAIN boxes
  PROVE  /\ Measured(S) \in Seq(Tile) /\ Len(Measured(S)) = Cardinality(S) /\ Cardinality(S) \in Nat
         /\ Cardinality(S) = 0 <=> S = {}
         /\ \A i \in 1..Cardinality(S) : /\ Measured(S)[i].id \in S
                                         /\ Measured(S)[i].at = boxes[Measured(S)[i].id].at
         /\ \A i, j \in 1..Cardinality(S) :
              i < j => boxes[Measured(S)[i].id].order < boxes[Measured(S)[j].id].order
<1> DEFINE seq == InOrder(S)
           n == Cardinality(S)
           row == Measured(S)
<1>1. /\ IsFiniteSet(S) /\ n \in Nat /\ seq \in [1..n -> S]
      /\ \A i, j \in 1..n : i < j => boxes[seq[i]].order < boxes[seq[j]].order
  BY OrderIs DEF Listings
<1>2. row = [i \in 1..n |-> [id |-> seq[i], at |-> boxes[seq[i]].at, width |-> boxes[seq[i]].width]]
  BY DEF Measured
<1>3. n = 0 <=> S = {}
  BY <1>1, FS_EmptySet
<1> HIDE DEF seq, n, row
<1>4. ASSUME NEW i \in 1..n
      PROVE  row[i] \in Tile /\ row[i].id = seq[i] /\ seq[i] \in S /\ row[i].at = boxes[seq[i]].at
  <2>1. seq[i] \in S /\ seq[i] \in All
    BY <1>1 DEF Boxed
  <2>2. boxes[seq[i]] \in Box
    BY <2>1 DEF Boxed
  <2>3. boxes[seq[i]].at \in Buckets /\ boxes[seq[i]].width \in Nat
    BY <2>2, LayoutAssumption DEF Box
  <2>4. QED
    BY <1>2, <2>1, <2>3 DEF Tile
<1>5. row \in [1..n -> Tile]
  BY <1>2, <1>4
<1>6. row \in Seq(Tile) /\ Len(row) = n
  BY <1>1, <1>5
<1>7. \A i, j \in 1..n : i < j => boxes[row[i].id].order < boxes[row[j].id].order
  BY <1>1, <1>4
<1>8. QED
  BY <1>1, <1>3, <1>4, <1>6, <1>7 DEF n, row

\* Numbers in a row have a least and a greatest.
LEMMA Bounds ==
  ASSUME NEW n \in Nat, NEW f \in [1..n -> Int]
  PROVE  \E low, high \in Int : \A k \in 1..n : low <= f[k] /\ f[k] <= high
<1> DEFINE Bounded(m) == \E low, high \in Int : \A k \in 1..n : k <= m => low <= f[k] /\ f[k] <= high
           T == {m \in Nat : Bounded(m)}
<1>1. 0 \in T
  <2>1. \A k \in 1..n : k <= 0 => 0 <= f[k] /\ f[k] <= 0
    OBVIOUS
  <2>2. QED
    BY <2>1
<1>2. ASSUME NEW m \in T PROVE m + 1 \in T
  <2>1. m \in Nat
    OBVIOUS
  <2>2. PICK low \in Int, high \in Int : \A k \in 1..n : k <= m => low <= f[k] /\ f[k] <= high
    OBVIOUS
  <2>3. CASE m + 1 \in 1..n
    <3> DEFINE v == f[m + 1]
               lower == IF v < low THEN v ELSE low
               higher == IF v > high THEN v ELSE high
    <3>1. v \in Int
      BY <2>3
    <3> HIDE DEF v
    <3>2. /\ lower \in Int /\ higher \in Int /\ lower <= v /\ v <= higher
          /\ lower <= low /\ high <= higher
      BY <3>1
    <3> HIDE DEF lower, higher
    <3>3. ASSUME NEW k \in 1..n, k <= m + 1 PROVE lower <= f[k] /\ f[k] <= higher
      <4>1. CASE k = m + 1
        BY <4>1, <3>2 DEF v
      <4>2. CASE k <= m
        <5>1. f[k] \in Int /\ low <= f[k] /\ f[k] <= high
          BY <4>2, <2>2
        <5>2. QED
          BY <5>1, <3>2
      <4>3. QED
        BY <3>3, <4>1, <4>2, <2>1
    <3>4. Bounded(m + 1)
      BY <3>2, <3>3
    <3> HIDE DEF Bounded
    <3>5. QED
      BY <3>4, <2>1
  <2>4. CASE m + 1 \notin 1..n
    <3>1. \A k \in 1..n : k <= m + 1 => k <= m
      BY <2>4, <2>1
    <3>2. Bounded(m + 1)
      BY <3>1, <2>2
    <3> HIDE DEF Bounded
    <3>3. QED
      BY <3>2, <2>1
  <2>5. QED
    BY <2>3, <2>4
<1>3. T = Nat
  <2> HIDE DEF T
  <2>1. T \in SUBSET Nat
    BY DEF T
  <2>2. QED
    BY <1>1, <1>2, <2>1, AllNat
<1>4. Bounded(n)
  BY <1>3
<1>5. QED
  BY <1>4

LEMMA LeastInt ==
  ASSUME NEW S \in SUBSET Int, S # {}, NEW low \in Int, \A y \in S : low <= y
  PROVE  Min(S) \in S
<1> DEFINE T == {y - low : y \in S}
<1>1. T \in SUBSET Nat /\ T # {}
  <2>1. \A y \in S : y - low \in Nat
    OBVIOUS
  <2>2. QED
    BY <2>1
<1>2. PICK x \in S : x - low = Min(T) /\ \A y \in T : Min(T) <= y
  BY <1>1, LeastNat
<1>3. \A y \in S : x <= y
  <2> TAKE y \in S
  <2>1. y - low \in T
    OBVIOUS
  <2>2. x - low <= y - low
    BY <1>2, <2>1
  <2>3. x \in Int /\ y \in Int
    OBVIOUS
  <2>4. QED
    BY <2>2, <2>3
<1>4. QED
  BY <1>3 DEF Min

LEMMA GreatestInt ==
  ASSUME NEW S \in SUBSET Int, S # {}, NEW high \in Int, \A y \in S : y <= high
  PROVE  Max(S) \in S
<1> DEFINE T == {high - y : y \in S}
<1>1. T \in SUBSET Nat /\ T # {}
  <2>1. \A y \in S : high - y \in Nat
    OBVIOUS
  <2>2. QED
    BY <2>1
<1>2. PICK x \in S : high - x = Min(T) /\ \A y \in T : Min(T) <= y
  BY <1>1, LeastNat
<1>3. \A y \in S : x >= y
  <2> TAKE y \in S
  <2>1. high - y \in T
    OBVIOUS
  <2>2. high - x <= high - y
    BY <1>2, <2>1
  <2>3. x \in Int /\ y \in Int
    OBVIOUS
  <2>4. QED
    BY <2>2, <2>3
<1>4. QED
  BY <1>3 DEF Max

\* A bracket over its members is placed like anything else.
LEMMA SpanIs ==
  ASSUME NEW list \in Seq(PlacedRects), NEW b \in Brackets, Spanned(b, list)
  PROVE  SpanOf(b, list) \in PlacedRects /\ SpanOf(b, list).id = b /\ members[b] # {}
<1> DEFINE over == {r \in Range(list) : r.id \in members[b]}
           lefts == {r.x : r \in over}
           rights == {r.x + r.width : r \in over}
           n == Len(list)
<1>1. n \in Nat /\ \A k \in 1..n : list[k] \in PlacedRects
  OBVIOUS
<1>2. over # {} /\ members[b] # {}
  BY DEF Spanned
<1>3. \A k \in 1..n : list[k].x \in Int /\ list[k].x + list[k].width \in Int
  BY <1>1 DEF PlacedRects
<1>4. \A r \in over : \E k \in 1..n : r = list[k]
  BY DEF Range
<1> HIDE DEF over, n
<1> DEFINE f == [k \in 1..n |-> list[k].x]
           g == [k \in 1..n |-> list[k].x + list[k].width]
<1>5. f \in [1..n -> Int] /\ g \in [1..n -> Int]
  BY <1>3
<1>6. PICK low \in Int : \A k \in 1..n : low <= f[k]
  <2> HIDE DEF f, g
  <2> QED
    BY <1>1, <1>5, Bounds
<1>7. PICK high \in Int : \A k \in 1..n : g[k] <= high
  <2> HIDE DEF f, g
  <2> QED
    BY <1>1, <1>5, Bounds
<1>8. lefts \in SUBSET Int /\ lefts # {} /\ \A y \in lefts : low <= y
  BY <1>2, <1>3, <1>4, <1>6
<1>9. rights \in SUBSET Int /\ rights # {} /\ \A y \in rights : y <= high
  BY <1>2, <1>3, <1>4, <1>7
<1>10. SpanOf(b, list) = [id |-> b, x |-> Min(lefts), width |-> Max(rights) - Min(lefts)]
  BY DEF SpanOf, over
<1> HIDE DEF lefts, rights
<1>11. Min(lefts) \in Int
  BY <1>8, LeastInt
<1>12. Max(rights) \in Int
  BY <1>9, GreatestInt
<1>13. b \in All
  BY DEF All
<1>14. QED
  BY <1>2, <1>10, <1>11, <1>12, <1>13 DEF PlacedRects

\* The brackets are in the order in which they are listed.
Spun(f, list, m) ==
  f = [n \in 0..m |-> IF n = 0 THEN <<>> ELSE Spans(rows[n], list, f[n - 1])]

LEMMA SpunExist == ASSUME NEW list, NEW m \in Nat PROVE \E g : Spun(g, list, m)
<1> DEFINE T == {k \in Nat : \E g : Spun(g, list, k)}
<1>1. 0 \in T
  <2> DEFINE g == [j \in 0..0 |-> <<>>]
  <2>1. g = [n \in 0..0 |-> IF n = 0 THEN <<>> ELSE Spans(rows[n], list, g[n - 1])]
    OBVIOUS
  <2> HIDE DEF g
  <2>2. Spun(g, list, 0)
    BY <2>1 DEF Spun
  <2>3. QED
    BY <2>2
<1>2. ASSUME NEW k \in T PROVE k + 1 \in T
  <2>1. PICK f : Spun(f, list, k)
    OBVIOUS
  <2>2. f = [n \in 0..k |-> IF n = 0 THEN <<>> ELSE Spans(rows[n], list, f[n - 1])]
    BY <2>1 DEF Spun
  <2> DEFINE g == [n \in 0..(k + 1) |-> IF n = k + 1 THEN Spans(rows[k + 1], list, f[k]) ELSE f[n]]
  <2>3. \A n \in 0..k : f[n] = IF n = 0 THEN <<>> ELSE Spans(rows[n], list, f[n - 1])
    BY <2>2
  <2>4. \A n \in 0..(k + 1) : g[n] = IF n = 0 THEN <<>> ELSE Spans(rows[n], list, g[n - 1])
    BY <2>3
  <2>5. g = [n \in 0..(k + 1) |-> IF n = 0 THEN <<>> ELSE Spans(rows[n], list, g[n - 1])]
    BY <2>4
  <2> HIDE DEF g
  <2>6. Spun(g, list, k + 1) /\ k + 1 \in Nat
    BY <2>5 DEF Spun
  <2>7. QED
    BY <2>6
<1>3. T = Nat
  <2> HIDE DEF T
  <2>1. T \in SUBSET Nat
    BY DEF T
  <2>2. QED
    BY <1>1, <1>2, <2>1, AllNat
<1>4. QED
  BY <1>3

LEMMA BracketsAre ==
  ASSUME Boxed, NEW list \in Seq(PlacedRects)
  PROVE  /\ BracketsOver(list) \in Seq(PlacedRects)
         /\ \A i \in 1..Len(BracketsOver(list)) :
              /\ BracketsOver(list)[i].id \in Brackets \cap DOMAIN boxes
              /\ members[BracketsOver(list)[i].id] # {}
         /\ \A i, j \in 1..Len(BracketsOver(list)) : i < j =>
              \E k, l \in 1..Len(rows) : /\ k < l
                                         /\ rows[k] = BracketsOver(list)[i].id
                                         /\ rows[l] = BracketsOver(list)[j].id
<1> DEFINE m == Len(rows)
           spans[n \in 0..m] == IF n = 0 THEN <<>> ELSE Spans(rows[n], list, spans[n - 1])
<1>1. m \in Nat /\ \A n \in 1..m : rows[n] \in Brackets
  <2>1. Cardinality(Brackets) \in Nat
    BY LayoutAssumption, FS_Subset, FS_CardinalityType DEF All
  <2>2. rows \in [1..Cardinality(Brackets) -> Brackets]
    BY DEF Boxed, Listings
  <2>3. m = Cardinality(Brackets)
    BY <2>1, <2>2
  <2>4. QED
    BY <2>1, <2>2, <2>3
<1>2. BracketsOver(list) = spans[m]
  BY DEF BracketsOver
<1>3. \E g : Spun(g, list, m)
  BY <1>1, SpunExist
<1>4. \A n \in 0..m : spans[n] = IF n = 0 THEN <<>> ELSE Spans(rows[n], list, spans[n - 1])
  BY <1>3 DEF Spun
<1> HIDE DEF m, spans
<1> DEFINE GoodRow(n) ==
      /\ spans[n] \in Seq(PlacedRects)
      /\ \A i \in 1..Len(spans[n]) :
           /\ spans[n][i].id \in Brackets \cap DOMAIN boxes /\ members[spans[n][i].id] # {}
           /\ \E k \in 1..m : k <= n /\ rows[k] = spans[n][i].id
      /\ \A i, j \in 1..Len(spans[n]) : i < j =>
           \E k, l \in 1..m : k < l /\ rows[k] = spans[n][i].id /\ rows[l] = spans[n][j].id
           T == {n \in Nat : n <= m => GoodRow(n)}
<1>5. 0 \in T
  <2>1. spans[0] = <<>>
    BY <1>1, <1>4
  <2>2. GoodRow(0)
    BY <2>1
  <2> HIDE DEF GoodRow
  <2>3. QED
    BY <2>2
<1>6. ASSUME NEW n \in T PROVE n + 1 \in T
  <2>1. n \in Nat /\ (n <= m => GoodRow(n))
    BY DEF T
  <2> SUFFICES ASSUME n + 1 <= m PROVE GoodRow(n + 1)
    <3> HIDE DEF GoodRow
    <3> QED
      BY <2>1 DEF T
  <2>2. GoodRow(n)
    <3> HIDE DEF GoodRow
    <3> QED
      BY <1>1, <2>1
  <2> DEFINE before == spans[n]
             after == spans[n + 1]
             b == rows[n + 1]
  <2>3. after = Spans(b, list, before) /\ b \in Brackets
    BY <1>1, <1>4, <2>1
  <2>4. n + 1 \in 1..m
    BY <1>1, <2>1
  <2>5. CASE b \in DOMAIN boxes /\ Spanned(b, list)
    <3> DEFINE r == SpanOf(b, list)
    <3>1. r \in PlacedRects /\ r.id = b /\ members[b] # {}
      BY <2>3, <2>5, SpanIs
    <3>2. after = Append(before, r)
      BY <2>3, <2>5 DEF Spans
    <3>3. before \in Seq(PlacedRects)
      BY <2>2
    <3>4. PICK len \in Nat : len = Len(before)
      BY <3>3
    <3> HIDE DEF r, b
    <3>5. after \in Seq(PlacedRects) /\ Len(after) = len + 1 /\ after[len + 1] = r
          /\ \A i \in 1..len : after[i] = before[i]
      <4> HIDE DEF before, after
      <4> QED
        BY <3>1, <3>2, <3>3, <3>4
    <3>6. \A i \in 1..(len + 1) : i = len + 1 \/ i \in 1..len
      BY <3>4
    <3>7. \A i \in 1..len : /\ before[i].id \in Brackets \cap DOMAIN boxes /\ members[before[i].id] # {}
                            /\ \E k \in 1..m : k <= n /\ rows[k] = before[i].id
      BY <2>2, <3>4
    <3>8. \A i, j \in 1..len : i < j =>
            \E k, l \in 1..m : k < l /\ rows[k] = before[i].id /\ rows[l] = before[j].id
      BY <2>2, <3>4
    <3>9. rows[n + 1] = b
      BY DEF b
    <3> HIDE DEF before, after
    <3>10. \A i \in 1..Len(after) : /\ after[i].id \in Brackets \cap DOMAIN boxes /\ members[after[i].id] # {}
                                    /\ \E k \in 1..m : k <= n + 1 /\ rows[k] = after[i].id
      <4> SUFFICES ASSUME NEW i \in 1..(len + 1)
                   PROVE  /\ after[i].id \in Brackets \cap DOMAIN boxes /\ members[after[i].id] # {}
                          /\ \E k \in 1..m : k <= n + 1 /\ rows[k] = after[i].id
        BY <3>5
      <4>1. CASE i = len + 1
        BY <4>1, <2>3, <2>4, <2>5, <3>1, <3>5, <3>9, <2>1
      <4>2. CASE i \in 1..len
        <5>1. after[i] = before[i]
          BY <4>2, <3>5
        <5>2. PICK k \in 1..m : k <= n /\ rows[k] = before[i].id
          BY <4>2, <3>7
        <5>3. k <= n + 1
          BY <5>2, <2>1, <1>1
        <5>4. QED
          BY <4>2, <3>7, <5>1, <5>2, <5>3
      <4>3. QED
        BY <3>6, <4>1, <4>2
    <3>11. ASSUME NEW i \in 1..Len(after), NEW j \in 1..Len(after), i < j
           PROVE  \E k, l \in 1..m : k < l /\ rows[k] = after[i].id /\ rows[l] = after[j].id
      <4>1. i \in 1..len /\ (j = len + 1 \/ j \in 1..len)
        BY <3>4, <3>5, <3>6, <3>11
      <4>2. after[i] = before[i]
        BY <4>1, <3>5
      <4>3. CASE j = len + 1
        <5>1. PICK k \in 1..m : k <= n /\ rows[k] = before[i].id
          BY <4>1, <3>7
        <5>2. k < n + 1
          BY <5>1, <2>1, <1>1
        <5>3. rows[n + 1] = after[j].id
          BY <4>3, <3>1, <3>5, <3>9
        <5>4. QED
          BY <4>2, <5>1, <5>2, <5>3, <2>4
      <4>4. CASE j \in 1..len
        <5>1. after[j] = before[j]
          BY <4>4, <3>5
        <5>2. QED
          BY <4>1, <4>2, <4>4, <5>1, <3>8, <3>11
      <4>5. QED
        BY <4>1, <4>3, <4>4
    <3>12. QED
      BY <3>5, <3>10, <3>11 DEF after
  <2>6. CASE ~(b \in DOMAIN boxes /\ Spanned(b, list))
    <3>1. after = before
      BY <2>3, <2>6 DEF Spans
    <3>2. \A k \in 1..m : k <= n => k <= n + 1
      BY <1>1, <2>1
    <3>3. /\ before \in Seq(PlacedRects)
          /\ \A i \in 1..Len(before) :
               /\ before[i].id \in Brackets \cap DOMAIN boxes /\ members[before[i].id] # {}
               /\ \E k \in 1..m : k <= n /\ rows[k] = before[i].id
          /\ \A i, j \in 1..Len(before) : i < j =>
               \E k, l \in 1..m : k < l /\ rows[k] = before[i].id /\ rows[l] = before[j].id
      BY <2>2
    <3> HIDE DEF before, b
    <3>4. /\ after \in Seq(PlacedRects)
          /\ \A i \in 1..Len(after) :
               /\ after[i].id \in Brackets \cap DOMAIN boxes /\ members[after[i].id] # {}
               /\ \E k \in 1..m : k <= n + 1 /\ rows[k] = after[i].id
          /\ \A i, j \in 1..Len(after) : i < j =>
               \E k, l \in 1..m : k < l /\ rows[k] = after[i].id /\ rows[l] = after[j].id
      <4> HIDE DEF after
      <4>1. ASSUME NEW i \in 1..Len(before) PROVE \E k \in 1..m : k <= n + 1 /\ rows[k] = before[i].id
        <5>1. PICK k \in 1..m : k <= n /\ rows[k] = before[i].id
          BY <3>3
        <5>2. QED
          BY <5>1, <3>2
      <4>2. \A i \in 1..Len(before) :
               /\ before[i].id \in Brackets \cap DOMAIN boxes /\ members[before[i].id] # {}
               /\ \E k \in 1..m : k <= n + 1 /\ rows[k] = before[i].id
        BY <3>3, <4>1
      <4> HIDE DEF T, GoodRow
      <4>3. QED
        BY <3>1, <3>3, <4>2
    <3>5. QED
      BY <3>4
  <2>7. QED
    BY <2>5, <2>6
<1>7. T = Nat
  <2> HIDE DEF T
  <2>1. T \in SUBSET Nat
    BY DEF T
  <2>2. QED
    BY <1>5, <1>6, <2>1, AllNat
<1>8. GoodRow(m)
  <2> HIDE DEF GoodRow
  <2> QED
    BY <1>1, <1>7
<1>9. QED
  BY <1>2, <1>8 DEF m

-----------------------------------------------------------------------------
\* What is under what, of two items of the bar: brackets under what they span,
\* in the order in which they are listed, and the buckets one after the other,
\* each in its order or, if it is laid from the right, backwards.
Rank(bucket) == IF bucket = "left" THEN 1 ELSE IF bucket = "right" THEN 2 ELSE IF bucket = "center" THEN 3
                ELSE IF bucket = "center_left" THEN 4 ELSE 5
FromRight == {"right", "center_left"}
Over(b) == b \in Brackets /\ members[b] # {}
Listed(p, q) == \E k, l \in 1..Len(rows) : k < l /\ rows[k] = p /\ rows[l] = q
Earlier(p, q) == IF boxes[p].at \in FromRight THEN boxes[q].order < boxes[p].order
                 ELSE boxes[p].order < boxes[q].order
Below(p, q) ==
  \/ Over(p) /\ ~Over(q)
  \/ Over(p) /\ Over(q) /\ Listed(p, q)
  \/ /\ ~Over(p) /\ ~Over(q)
     /\ \/ Rank(boxes[p].at) < Rank(boxes[q].at)
        \/ boxes[p].at = boxes[q].at /\ Earlier(p, q)

LEMMA OrdersAre == ASSUME Boxed, NEW p \in DOMAIN boxes PROVE boxes[p].order \in Nat /\ boxes[p].at \in Buckets
<1>1. IsFiniteSet(All)
  BY LayoutAssumption DEF All
<1>2. Cardinality(All) \in Nat
  BY <1>1, FS_CardinalityType
<1>3. boxes[p] \in Box
  BY DEF Boxed
<1>4. QED
  BY <1>2, <1>3, LayoutAssumption DEF Box

LEMMA BelowOneWay ==
  ASSUME Boxed, NEW p \in DOMAIN boxes, NEW q \in DOMAIN boxes, Below(p, q)
  PROVE  ~Below(q, p)
<1> DEFINE n == Cardinality(Brackets)
<1>1. n \in Nat /\ rows \in [1..n -> Brackets] /\ \A i, j \in 1..n : rows[i] = rows[j] => i = j
  <2>1. Cardinality(Brackets) \in Nat
    BY LayoutAssumption, FS_Subset, FS_CardinalityType DEF All
  <2>2. QED
    BY <2>1 DEF Boxed, Listings
<1> HIDE DEF n
<1>2. Len(rows) = n
  BY <1>1
<1>3. Listed(p, q) => ~Listed(q, p)
  BY <1>1, <1>2 DEF Listed
<1>4. /\ boxes[p].order \in Nat /\ boxes[q].order \in Nat
      /\ Rank(boxes[p].at) \in Nat /\ Rank(boxes[q].at) \in Nat
  BY OrdersAre DEF Rank
<1>5. boxes[p].at = boxes[q].at /\ Earlier(p, q) => ~Earlier(q, p)
  BY <1>4 DEF Earlier
<1>6. QED
  BY <1>3, <1>4, <1>5 DEF Below

Chained(list) ==
  /\ list \in Seq(PlacedRects)
  /\ \A n \in 1..Len(list) : list[n].id \in DOMAIN boxes /\ ~boxes[list[n].id].inPopup
  /\ \A n, m \in 1..Len(list) : n < m => Below(list[n].id, list[m].id)

LEMMA ChainsJoin ==
  ASSUME NEW a, NEW b, Chained(a), Chained(b),
         \A n \in 1..Len(a), m \in 1..Len(b) : Below(a[n].id, b[m].id)
  PROVE  /\ Chained(a \o b)
         /\ \A k \in 1..Len(a \o b) : \/ \E n \in 1..Len(a) : (a \o b)[k] = a[n]
                                      \/ \E m \in 1..Len(b) : (a \o b)[k] = b[m]
<1> DEFINE ab == a \o b
<1>1. a \in Seq(PlacedRects) /\ b \in Seq(PlacedRects)
  BY DEF Chained
<1>2. PICK p \in Nat : p = Len(a)
  BY <1>1
<1>3. PICK q \in Nat : q = Len(b)
  BY <1>1
<1>4. /\ ab \in Seq(PlacedRects) /\ Len(ab) = p + q
      /\ \A k \in 1..(p + q) : ab[k] = IF k <= p THEN a[k] ELSE b[k - p]
  BY <1>1, <1>2, <1>3
<1> HIDE DEF ab
<1>5. ASSUME NEW k \in 1..(p + q)
      PROVE  (k \in 1..p /\ ab[k] = a[k]) \/ (k > p /\ k - p \in 1..q /\ ab[k] = b[k - p])
  BY <1>4
<1>6. \A k \in 1..(p + q) : ab[k].id \in DOMAIN boxes /\ ~boxes[ab[k].id].inPopup
  BY <1>2, <1>3, <1>5 DEF Chained
<1>7. ASSUME NEW k \in 1..(p + q), NEW l \in 1..(p + q), k < l PROVE Below(ab[k].id, ab[l].id)
  <2>1. CASE k \in 1..p /\ l \in 1..p
    <3>1. ab[k] = a[k] /\ ab[l] = a[l]
      BY <1>4, <2>1
    <3>2. QED
      BY <3>1, <2>1, <1>2, <1>7 DEF Chained
  <2>2. CASE k \in 1..p /\ ~(l \in 1..p)
    <3>1. ab[k] = a[k] /\ l - p \in 1..q /\ ab[l] = b[l - p]
      BY <1>5, <2>2
    <3>2. QED
      BY <3>1, <2>2, <1>2, <1>3
  <2>3. CASE ~(k \in 1..p)
    <3>1. /\ ab[k] = b[k - p] /\ ab[l] = b[l - p] /\ k - p \in 1..q /\ l - p \in 1..q /\ k - p < l - p
      BY <1>5, <1>7, <2>3
    <3>2. QED
      BY <3>1, <1>3 DEF Chained
  <2>4. QED
    BY <2>1, <2>2, <2>3
<1>8. \A k \in 1..(p + q) : \/ \E n \in 1..p : ab[k] = a[n]
                            \/ \E m \in 1..q : ab[k] = b[m]
  BY <1>5
<1>9. QED
  BY <1>2, <1>3, <1>4, <1>6, <1>7, <1>8 DEF Chained, ab

\* The items of one bucket.
PieceOf(list, bucket) ==
  /\ Chained(list)
  /\ \A n \in 1..Len(list) : boxes[list[n].id].at = bucket /\ ~Over(list[n].id)

LEMMA PiecesAre ==
  ASSUME Boxed, NEW S \in SUBSET DOMAIN boxes, \A b \in S : ~Over(b) /\ ~boxes[b].inPopup,
         NEW bucket \in Buckets, NEW x \in Int
  PROVE  /\ Total(Widths(In(bucket, Measured(S)))) \in Nat
         /\ bucket \notin FromRight => PieceOf(RunFrom(x, In(bucket, Measured(S))), bucket)
         /\ bucket \in FromRight => PieceOf(RunUpTo(x, In(bucket, Measured(S))), bucket)
<1> DEFINE all == Measured(S)
           items == In(bucket, all)
<1>1. PICK c \in Nat : c = Cardinality(S)
  BY MeasuredIs
<1>2. /\ all \in Seq(Tile) /\ Len(all) = c
      /\ \A i \in 1..c : all[i].id \in S /\ all[i].at = boxes[all[i].id].at
      /\ \A i, j \in 1..c : i < j => boxes[all[i].id].order < boxes[all[j].id].order
  BY <1>1, MeasuredIs
<1> HIDE DEF all
<1>3. /\ items \in Seq(Tile)
      /\ \A i \in 1..Len(items) : \E k \in 1..c : items[i] = all[k] /\ all[k].at = bucket
      /\ \A i, j \in 1..Len(items) : i < j =>
           \E k, l \in 1..c : k < l /\ items[i] = all[k] /\ items[j] = all[l]
  <2>1. all \in Seq(Tile)
    BY <1>2
  <2>2. /\ items \in Seq(Tile)
        /\ \A i \in 1..Len(items) : \E k \in 1..Len(all) : items[i] = all[k] /\ all[k].at = bucket
        /\ \A i, j \in 1..Len(items) : i < j =>
             \E k, l \in 1..Len(all) : k < l /\ items[i] = all[k] /\ items[j] = all[l]
    BY <2>1, InKeepsOrder
  <2> HIDE DEF items
  <2>3. Len(all) = c
    BY <1>2
  <2>4. QED
    BY <2>2, <2>3
<1> HIDE DEF items
<1>4. PICK n \in Nat : n = Len(items)
  BY <1>3
<1>5. ASSUME NEW i \in 1..n
      PROVE  items[i].id \in S /\ boxes[items[i].id].at = bucket
  BY <1>2, <1>3, <1>4
<1>6. ASSUME NEW i \in 1..n, NEW j \in 1..n, i < j
      PROVE  boxes[items[i].id].order < boxes[items[j].id].order
  BY <1>2, <1>3, <1>4, <1>6
<1>7. Total(Widths(items)) \in Nat
  BY <1>3, RunKeeps
<1>8. ASSUME bucket \notin FromRight PROVE PieceOf(RunFrom(x, items), bucket)
  <2> DEFINE row == RunFrom(x, items)
  <2>1. row \in Seq(PlacedRects) /\ Len(row) = n /\ \A k \in 1..n : row[k].id = items[k].id
    BY <1>3, <1>4, RunKeeps
  <2> HIDE DEF row
  <2>2. \A k \in 1..n : /\ row[k].id \in DOMAIN boxes /\ ~boxes[row[k].id].inPopup
                        /\ boxes[row[k].id].at = bucket /\ ~Over(row[k].id)
    BY <2>1, <1>5
  <2>3. ASSUME NEW k \in 1..n, NEW l \in 1..n, k < l PROVE Below(row[k].id, row[l].id)
    <3>1. boxes[row[k].id].order < boxes[row[l].id].order
      BY <2>1, <1>6, <2>3
    <3>2. Earlier(row[k].id, row[l].id)
      BY <3>1, <2>2, <1>8 DEF Earlier
    <3>3. QED
      BY <3>2, <2>2 DEF Below
  <2>4. QED
    BY <2>1, <2>2, <2>3 DEF PieceOf, Chained, row
<1>9. ASSUME bucket \in FromRight PROVE PieceOf(RunUpTo(x, items), bucket)
  <2> DEFINE row == RunUpTo(x, items)
  <2>1. row \in Seq(PlacedRects) /\ Len(row) = n /\ \A k \in 1..n : row[k].id = items[n - k + 1].id
    BY <1>3, <1>4, BackwardsKeeps
  <2> HIDE DEF row
  <2>2. \A k \in 1..n : n - k + 1 \in 1..n
    OBVIOUS
  <2>3. \A k \in 1..n : /\ row[k].id \in DOMAIN boxes /\ ~boxes[row[k].id].inPopup
                        /\ boxes[row[k].id].at = bucket /\ ~Over(row[k].id)
    BY <2>1, <2>2, <1>5
  <2>4. ASSUME NEW k \in 1..n, NEW l \in 1..n, k < l PROVE Below(row[k].id, row[l].id)
    <3>1. n - l + 1 < n - k + 1
      BY <2>4
    <3>2. boxes[row[l].id].order < boxes[row[k].id].order
      BY <2>1, <2>2, <1>6, <3>1
    <3>3. Earlier(row[k].id, row[l].id)
      BY <3>2, <2>3, <1>9 DEF Earlier
    <3>4. QED
      BY <3>3, <2>3 DEF Below
  <2>5. QED
    BY <2>1, <2>3, <2>4 DEF PieceOf, Chained, row
<1>10. QED
  BY <1>7, <1>8, <1>9 DEF items, all

Heaped(list, rank) ==
  /\ Chained(list)
  /\ \A n \in 1..Len(list) : Rank(boxes[list[n].id].at) <= rank /\ ~Over(list[n].id)

LEMMA HeapsGrow ==
  ASSUME Boxed, NEW bucket \in Buckets, NEW rank \in Nat, rank < Rank(bucket),
         NEW a, Heaped(a, rank), NEW b, PieceOf(b, bucket)
  PROVE  Heaped(a \o b, Rank(bucket))
<1>1. Chained(a) /\ Chained(b)
  BY DEF Heaped, PieceOf
<1>2. Rank(bucket) \in Nat
  BY DEF Rank
<1>3. \A n \in 1..Len(a) : /\ a[n].id \in DOMAIN boxes /\ Rank(boxes[a[n].id].at) \in Nat
                           /\ Rank(boxes[a[n].id].at) <= rank /\ ~Over(a[n].id)
  BY <1>1 DEF Heaped, Chained, Rank
<1>4. \A m \in 1..Len(b) : b[m].id \in DOMAIN boxes /\ boxes[b[m].id].at = bucket /\ ~Over(b[m].id)
  BY <1>1 DEF PieceOf, Chained
<1>5. ASSUME NEW n \in 1..Len(a), NEW m \in 1..Len(b) PROVE Below(a[n].id, b[m].id)
  <2>1. Rank(boxes[a[n].id].at) < Rank(boxes[b[m].id].at)
    BY <1>2, <1>3, <1>4
  <2>2. QED
    BY <2>1, <1>3, <1>4 DEF Below
<1> DEFINE ab == a \o b
<1>6. /\ Chained(ab)
      /\ \A k \in 1..Len(ab) : (\E n \in 1..Len(a) : ab[k] = a[n]) \/ (\E m \in 1..Len(b) : ab[k] = b[m])
  BY <1>1, <1>5, ChainsJoin
<1> HIDE DEF ab
<1>7. ASSUME NEW k \in 1..Len(ab) PROVE Rank(boxes[ab[k].id].at) <= Rank(bucket) /\ ~Over(ab[k].id)
  <2>1. CASE \E n \in 1..Len(a) : ab[k] = a[n]
    BY <2>1, <1>2, <1>3
  <2>2. CASE \E m \in 1..Len(b) : ab[k] = b[m]
    BY <2>2, <1>2, <1>4
  <2>3. QED
    BY <1>6, <2>1, <2>2
<1>8. QED
  BY <1>6, <1>7 DEF Heaped, ab

LEMMA LaidIs == ASSUME Boxed PROVE Chained(LaidOut)
<1> DEFINE bare == {b \in DOMAIN boxes : /\ boxes[b].drawing /\ ~boxes[b].inPopup
                                         /\ b \in Brackets => members[b] = {}}
           items == Measured(bare)
           pad == [left |-> 0, right |-> 0]
           row == Arrange(items, BarWidth, pad, 0)
<1>1. LaidOut = BracketsOver(row) \o row
  BY DEF LaidOut
<1>2. bare \in SUBSET DOMAIN boxes /\ \A b \in bare : ~Over(b) /\ ~boxes[b].inPopup
  BY DEF Over
<1> HIDE DEF bare
<1> DEFINE total == Total(Widths(In("center", items)))
           start == (BarWidth - total) \div 2
           x4 == Least(start, (BarWidth - 0) \div 2)
           x5 == Most(start + total, (BarWidth + 0) \div 2)
           p1 == RunFrom(0, In("left", items))
           p2 == RunUpTo(BarWidth - 0, In("right", items))
           p3 == RunFrom(start, In("center", items))
           p4 == RunUpTo(x4, In("center_left", items))
           p5 == RunFrom(x5, In("center_right", items))
<1>3. row = (((p1 \o p2) \o p3) \o p4) \o p5
  BY DEF Arrange
<1>4. BarWidth \in Int /\ BarWidth - 0 \in Int /\ 0 \in Int
  BY GeometryAssumption
<1>5. total \in Nat
  <2> HIDE DEF items
  <2>1. "center" \in Buckets
    BY DEF Buckets
  <2>2. QED
    BY <1>2, <1>4, <2>1, PiecesAre DEF items
<1> HIDE DEF total, items, row
<1>6. start \in Int /\ start + total \in Int /\ (BarWidth - 0) \div 2 \in Int /\ (BarWidth + 0) \div 2 \in Int
  BY <1>4, <1>5
<1> HIDE DEF start
<1>7. x4 \in Int /\ x5 \in Int
  BY <1>6, Extremes
<1> HIDE DEF x4, x5
<1>8. /\ {"left", "right", "center", "center_left", "center_right"} \subseteq Buckets
      /\ "left" \notin FromRight /\ "right" \in FromRight /\ "center" \notin FromRight
      /\ "center_left" \in FromRight /\ "center_right" \notin FromRight
  BY DEF Buckets, FromRight
<1>9. PieceOf(p1, "left")
  BY <1>2, <1>4, <1>8, PiecesAre DEF items
<1>10. PieceOf(p2, "right")
  BY <1>2, <1>4, <1>8, PiecesAre DEF items
<1>11. PieceOf(p3, "center")
  BY <1>2, <1>6, <1>8, PiecesAre DEF items
<1>12. PieceOf(p4, "center_left")
  BY <1>2, <1>7, <1>8, PiecesAre DEF items
<1>13. PieceOf(p5, "center_right")
  BY <1>2, <1>7, <1>8, PiecesAre DEF items
<1>14. /\ Rank("left") = 1 /\ Rank("right") = 2 /\ Rank("center") = 3 /\ Rank("center_left") = 4
       /\ Rank("center_right") = 5
  BY DEF Rank
<1> HIDE DEF p1, p2, p3, p4, p5
<1>15. Heaped(p1, 1)
  BY <1>9, <1>14 DEF Heaped, PieceOf
<1> DEFINE h2 == p1 \o p2
           h3 == h2 \o p3
           h4 == h3 \o p4
           h5 == h4 \o p5
<1>16. Heaped(h2, 2)
  BY <1>8, <1>10, <1>14, <1>15, HeapsGrow
<1> HIDE DEF h2
<1>17. Heaped(h3, 3)
  BY <1>8, <1>11, <1>14, <1>16, HeapsGrow
<1> HIDE DEF h3
<1>18. Heaped(h4, 4)
  BY <1>8, <1>12, <1>14, <1>17, HeapsGrow
<1> HIDE DEF h4
<1>19. Heaped(h5, 5)
  BY <1>8, <1>13, <1>14, <1>18, HeapsGrow
<1>20. Heaped(row, 5)
  BY <1>3, <1>19 DEF h2, h3, h4
<1>21. Chained(row) /\ row \in Seq(PlacedRects) /\ \A m \in 1..Len(row) : ~Over(row[m].id)
  BY <1>20 DEF Heaped, Chained
<1> DEFINE over == BracketsOver(row)
<1>22. /\ over \in Seq(PlacedRects)
       /\ \A i \in 1..Len(over) : over[i].id \in Brackets \cap DOMAIN boxes /\ members[over[i].id] # {}
       /\ \A i, j \in 1..Len(over) : i < j =>
            \E k, l \in 1..Len(rows) : k < l /\ rows[k] = over[i].id /\ rows[l] = over[j].id
  BY <1>21, BracketsAre
<1> HIDE DEF over
<1>23. Chained(over) /\ \A i \in 1..Len(over) : Over(over[i].id)
  <2>1. \A i \in 1..Len(over) : Over(over[i].id) /\ ~boxes[over[i].id].inPopup
    BY <1>22 DEF Over, Boxed
  <2>2. \A i, j \in 1..Len(over) : i < j => Below(over[i].id, over[j].id)
    BY <1>22, <2>1 DEF Below, Listed
  <2>3. QED
    BY <1>22, <2>1, <2>2 DEF Chained
<1>24. \A n \in 1..Len(over), m \in 1..Len(row) : Below(over[n].id, row[m].id)
  BY <1>21, <1>23 DEF Below
<1>25. Chained(over \o row)
  BY <1>21, <1>23, <1>24, ChainsJoin
<1>26. QED
  BY <1>1, <1>25 DEF over

OfPopup == {b \in DOMAIN boxes : boxes[b].drawing /\ boxes[b].inPopup}
Stacked(list) ==
  /\ list \in Seq(PlacedRects)
  /\ \A n \in 1..Len(list) : list[n].id \in OfPopup
  /\ \A n, m \in 1..Len(list) : n < m => boxes[list[n].id].order < boxes[list[m].id].order

LEMMA HungIs ==
  ASSUME Boxed, NEW barList
  PROVE  Stacked(Hung(barList).list) /\ (Hung(barList).list = <<>> <=> Hung(barList).frame = <<>>)
<1> DEFINE children == {b \in DOMAIN boxes : boxes[b].drawing /\ boxes[b].inPopup}
           items == Measured(children)
           row == ArrangePopup(items, TRUE)
           none == ~hanging.drawing \/ Host \notin DOMAIN boxes \/ HostAt(barList) = {} \/ children = {}
           frame == LET host == OnDesktop(PanelX, Whichever(HostAt(barList)))
                    IN <<AnchorAt(host, row.width, "left", BarWidth), row.width>>
<1>1. Hung(barList) = IF none THEN Nowhere ELSE [list |-> row.placed, frame |-> frame]
  BY DEF Hung
<1>2. children \in SUBSET DOMAIN boxes /\ children = OfPopup
  BY DEF OfPopup
<1>3. frame # <<>>
  OBVIOUS
<1>4. none \/ children # {}
  OBVIOUS
<1> HIDE DEF none, frame, children
<1>5. CASE none
  BY <1>1, <1>5 DEF Nowhere, Stacked
<1>6. CASE ~none
  <2>1. PICK c \in Nat : c = Cardinality(children)
    BY <1>2, MeasuredIs
  <2>2. /\ items \in Seq(Tile) /\ Len(items) = c /\ c # 0
        /\ \A i \in 1..c : items[i].id \in children
        /\ \A i, j \in 1..c : i < j => boxes[items[i].id].order < boxes[items[j].id].order
    BY <1>2, <1>4, <1>6, <2>1, MeasuredIs
  <2> HIDE DEF items
  <2> DEFINE taking == [n \in 1..Len(items) |-> [items[n] EXCEPT !.width = Most(@, 0)]]
  <2>3. row.placed = RunFrom(0, taking)
    BY DEF ArrangePopup
  <2>4. ASSUME NEW n \in 1..c PROVE taking[n] \in Tile /\ taking[n].id = items[n].id
    <3>1. items[n] \in Tile
      BY <2>2
    <3>2. Most(items[n].width, 0) \in Nat
      <4>1. items[n].width \in Nat
        BY <3>1 DEF Tile
      <4>2. QED
        BY <4>1, Extremes
    <3>3. taking[n] = [items[n] EXCEPT !.width = Most(@, 0)]
      BY <2>2
    <3>4. QED
      BY <3>1, <3>2, <3>3 DEF Tile
  <2>5. taking \in [1..c -> Tile]
    BY <2>2, <2>4
  <2>6. taking \in Seq(Tile) /\ Len(taking) = c
    BY <2>5
  <2> HIDE DEF taking, row
  <2> DEFINE list == row.placed
  <2>7. /\ list \in Seq(PlacedRects) /\ Len(list) = c
        /\ \A k \in 1..c : list[k].id = taking[k].id
    BY <2>3, <2>6, RunKeeps
  <2> HIDE DEF list
  <2>8. \A k \in 1..c : list[k].id = items[k].id
    BY <2>4, <2>7
  <2>9. Stacked(list)
    BY <1>2, <2>2, <2>7, <2>8 DEF Stacked
  <2>10. list # <<>>
    BY <2>2, <2>7
  <2>11. QED
    BY <1>1, <1>3, <1>6, <2>9, <2>10 DEF list
<1>7. QED
  BY <1>5, <1>6

-----------------------------------------------------------------------------
\* What a surface shows of a list, with looks as they were when it was drawn.
DrawnIn(x, list, ground, look) ==
  LET over == {n \in DOMAIN list : x \in Columns(list[n])}
  IN [ground |-> ground,
      drawn |-> {<<list[n].id, look[list[n].id]>> : n \in over},
      onTop |-> {<<list[p[1]].id, list[p[2]].id>> : p \in {q \in over \X over : q[2] < q[1]}}]
Shows(list, ground, look) == [x \in 0..(BarWidth - 1) |-> DrawnIn(x, list, ground, look)]

LEMMA PaintedIs ==
  ASSUME NEW list \in Seq(PlacedRects), NEW ground, NEW look, NEW x \in 0..(BarWidth - 1),
         \A n \in 1..Len(list) : look[list[n].id] = boxes[list[n].id].look,
         NEW torn, NEW t \in torn, t.x \in Int, t.width \in Int, x \in Columns(t)
  PROVE  Painted(x, list, ground, torn) = DrawnIn(x, list, ground, look)
<1> DEFINE over == {n \in DOMAIN list : x \in Columns(list[n])}
           into == {n \in DOMAIN list : x \in Columns(list[n]) /\ \E u \in torn : Intersects(u, list[n])}
<1>1. BarWidth \in Nat /\ \A n \in DOMAIN list : list[n] \in PlacedRects /\ n \in 1..Len(list)
  BY GeometryAssumption
<1>2. ASSUME NEW n \in DOMAIN list, x \in Columns(list[n]) PROVE Intersects(t, list[n])
  <2>1. list[n].x \in Int /\ list[n].width \in Int /\ list[n].x <= x /\ x < list[n].x + list[n].width
    BY <1>1, <1>2 DEF Columns, PlacedRects
  <2>2. t.x <= x /\ x < t.x + t.width
    BY DEF Columns
  <2>3. QED
    BY <1>1, <2>1, <2>2 DEF Intersects
<1>3. into = over
  BY <1>2
<1> DEFINE drawnThere == {<<list[n].id, boxes[list[n].id].look>> : n \in over}
           seen == {<<list[n].id, look[list[n].id]>> : n \in over}
           onTop == {<<list[p[1]].id, list[p[2]].id>> : p \in {q \in over \X over : q[2] < q[1]}}
<1>4. \A n \in over : boxes[list[n].id].look = look[list[n].id]
  BY <1>1
<1>5. drawnThere = seen
  <2> HIDE DEF over
  <2> QED
    BY <1>4
<1>6. Painted(x, list, ground, torn) = [ground |-> ground, drawn |-> drawnThere, onTop |-> onTop]
  BY <1>3 DEF Painted
<1>7. DrawnIn(x, list, ground, look) = [ground |-> ground, drawn |-> seen, onTop |-> onTop]
  BY DEF DrawnIn
<1> HIDE DEF drawnThere, seen, onTop
<1>8. QED
  BY <1>5, <1>6, <1>7

LEMMA FullIs ==
  ASSUME NEW list \in Seq(PlacedRects), NEW ground, NEW look,
         \A n \in 1..Len(list) : look[list[n].id] = boxes[list[n].id].look
  PROVE  Full(list, ground) = Shows(list, ground, look)
<1>1. BarWidth \in Nat /\ Everywhere.x = 0 /\ Everywhere.width = BarWidth
  BY GeometryAssumption DEF Everywhere
<1>2. ASSUME NEW x \in 0..(BarWidth - 1)
      PROVE  Painted(x, list, ground, {Everywhere}) = DrawnIn(x, list, ground, look)
  <2>1. x \in Columns(Everywhere)
    BY <1>1 DEF Columns
  <2>2. Everywhere.x \in Int /\ Everywhere.width \in Int /\ Everywhere \in {Everywhere}
    BY <1>1
  <2>3. QED
    BY <2>1, <2>2, PaintedIs
<1>3. QED
  BY <1>2 DEF Full, Shows

\* What is torn is enough: what covers a column that is not is as it was drawn,
\* and in the order in which it was.
Rests(x, old, new, changed) ==
  /\ \A n \in 1..Len(old) : x \in Columns(old[n]) => \E k \in 1..Len(new) : new[k] = old[n]
  /\ \A k \in 1..Len(new) : x \in Columns(new[k]) =>
       new[k].id \notin changed /\ \E n \in 1..Len(old) : old[n] = new[k]

LEMMA NotTorn ==
  ASSUME NEW old \in Seq(PlacedRects), NEW new \in Seq(PlacedRects), NEW changed, NEW x,
         ~ \E t \in Torn(old, new, changed) : x \in Columns(t)
  PROVE  Rests(x, old, new, changed)
<1>1. ASSUME NEW n \in 1..Len(old), x \in Columns(old[n])
      PROVE  \E k \in 1..Len(new) : new[k] = old[n]
  <2>1. old[n] \in Range(old)
    BY DEF Range
  <2>2. old[n] \notin Torn(old, new, changed)
    BY <1>1
  <2>3. RectOf(old[n].id, new) = {old[n]}
    BY <2>1, <2>2 DEF Torn
  <2>4. old[n] \in Range(new)
    BY <2>3 DEF RectOf
  <2>5. QED
    BY <2>4 DEF Range
<1>2. ASSUME NEW k \in 1..Len(new), x \in Columns(new[k])
      PROVE  new[k].id \notin changed /\ \E n \in 1..Len(old) : old[n] = new[k]
  <2>1. new[k] \in Range(new)
    BY DEF Range
  <2>2. new[k] \notin Torn(old, new, changed)
    BY <1>2
  <2>3. new[k] \in Range(old) /\ new[k].id \notin changed
    BY <2>1, <2>2 DEF Torn
  <2>4. QED
    BY <2>3 DEF Range
<1>3. QED
  BY <1>1, <1>2 DEF Rests

LEMMA Mends ==
  ASSUME NEW old \in Seq(PlacedRects), NEW new \in Seq(PlacedRects), NEW ground, NEW changed, NEW look, NEW now,
         \A n, m \in 1..Len(new) : new[n].id = new[m].id => n = m,
         \A n \in 1..Len(new) : /\ now[new[n].id] = boxes[new[n].id].look
                                /\ new[n].id \notin changed => now[new[n].id] = look[new[n].id],
         \A n, m \in 1..Len(old), k, l \in 1..Len(new) :
           /\ n < m /\ old[n] = new[k] /\ old[m] = new[l]
           /\ new[k].id \notin changed /\ new[l].id \notin changed
           => k < l
  PROVE  Mended(Shows(old, ground, look), new, ground, Torn(old, new, changed)) = Shows(new, ground, now)
<1> DEFINE torn == Torn(old, new, changed)
           pixels == Shows(old, ground, look)
<1>1. \A t \in torn : t \in PlacedRects
  BY DEF Torn, Range
<1>2. \A t \in torn : t.x \in Int /\ t.width \in Int
  BY <1>1 DEF PlacedRects
<1> HIDE DEF torn
<1>3. ASSUME NEW x \in 0..(BarWidth - 1), \E t \in torn : x \in Columns(t)
      PROVE  Painted(x, new, ground, torn) = DrawnIn(x, new, ground, now)
  <2>1. PICK t \in torn : x \in Columns(t)
    BY <1>3
  <2>2. t.x \in Int /\ t.width \in Int
    BY <1>2
  <2>3. QED
    BY <2>1, <2>2, PaintedIs
<1>4. ASSUME NEW x \in 0..(BarWidth - 1), ~ \E t \in torn : x \in Columns(t)
      PROVE  DrawnIn(x, old, ground, look) = DrawnIn(x, new, ground, now)
  <2>1. /\ \A n \in 1..Len(old) : x \in Columns(old[n]) => \E k \in 1..Len(new) : new[k] = old[n]
        /\ \A k \in 1..Len(new) : x \in Columns(new[k]) =>
             new[k].id \notin changed /\ \E n \in 1..Len(old) : old[n] = new[k]
    <3>1. ~ \E t \in Torn(old, new, changed) : x \in Columns(t)
      BY <1>4 DEF torn
    <3>2. Rests(x, old, new, changed)
      BY <3>1, NotTorn
    <3>3. QED
      BY <3>2 DEF Rests
  <2> DEFINE was == {n \in DOMAIN old : x \in Columns(old[n])}
             is == {n \in DOMAIN new : x \in Columns(new[n])}
  <2>2. PICK p \in Nat : p = Len(old) /\ DOMAIN old = 1..p
    OBVIOUS
  <2>3. PICK q \in Nat : q = Len(new) /\ DOMAIN new = 1..q
    OBVIOUS
  <2>4. was \subseteq 1..p /\ is \subseteq 1..q
    BY <2>2, <2>3
  <2>5. \A n \in was : \E k \in is : new[k] = old[n]
    BY <2>1, <2>2, <2>3
  <2>6. \A k \in is : new[k].id \notin changed /\ \E n \in was : old[n] = new[k]
    BY <2>1, <2>2, <2>3
  <2> HIDE DEF was, is
  <2>7. \A k \in is : now[new[k].id] = look[new[k].id]
    BY <2>3, <2>4, <2>6
  <2> DEFINE drawnWas == {<<old[n].id, look[old[n].id]>> : n \in was}
             drawnIs == {<<new[n].id, now[new[n].id]>> : n \in is}
             topWas == {<<old[p1[1]].id, old[p1[2]].id>> : p1 \in {q1 \in was \X was : q1[2] < q1[1]}}
             topIs == {<<new[p1[1]].id, new[p1[2]].id>> : p1 \in {q1 \in is \X is : q1[2] < q1[1]}}
  <2>8. drawnWas = drawnIs
    <3>1. ASSUME NEW n \in was PROVE <<old[n].id, look[old[n].id]>> \in drawnIs
      <4>1. PICK k \in is : new[k] = old[n]
        BY <2>5
      <4>2. QED
        BY <4>1, <2>7
    <3>2. ASSUME NEW k \in is PROVE <<new[k].id, now[new[k].id]>> \in drawnWas
      <4>1. PICK n \in was : old[n] = new[k]
        BY <2>6
      <4>2. QED
        BY <4>1, <2>7
    <3>3. QED
      BY <3>1, <3>2
  <2>9. ASSUME NEW a \in was, NEW b \in was, b < a
        PROVE  <<old[a].id, old[b].id>> \in topIs
    <3>1. PICK k \in is : new[k] = old[a]
      BY <2>5
    <3>2. PICK l \in is : new[l] = old[b]
      BY <2>5
    <3>3. l < k
      BY <2>2, <2>3, <2>4, <2>6, <2>9, <3>1, <3>2
    <3>4. <<k, l>> \in {q1 \in is \X is : q1[2] < q1[1]}
      BY <3>3
    <3>5. QED
      BY <3>1, <3>2, <3>4
  <2>10. ASSUME NEW k \in is, NEW l \in is, l < k
         PROVE  <<new[k].id, new[l].id>> \in topWas
    <3>1. PICK a \in was : old[a] = new[k]
      BY <2>6
    <3>2. PICK b \in was : old[b] = new[l]
      BY <2>6
    <3>3. k \in 1..q /\ l \in 1..q /\ a \in 1..p /\ b \in 1..p
      BY <2>4
    <3>4. a # b
      BY <2>3, <2>10, <3>1, <3>2, <3>3
    <3>5. ~(a < b)
      BY <2>2, <2>3, <2>6, <2>10, <3>1, <3>2, <3>3
    <3>6. b < a
      BY <3>3, <3>4, <3>5
    <3>7. <<a, b>> \in {q1 \in was \X was : q1[2] < q1[1]}
      BY <3>6
    <3>8. QED
      BY <3>1, <3>2, <3>7
  <2>11. topWas = topIs
    <3>1. ASSUME NEW p1 \in {q1 \in was \X was : q1[2] < q1[1]}
          PROVE  <<old[p1[1]].id, old[p1[2]].id>> \in topIs
      <4> HIDE DEF topIs
      <4> QED
        BY <2>9
    <3>2. ASSUME NEW p1 \in {q1 \in is \X is : q1[2] < q1[1]}
          PROVE  <<new[p1[1]].id, new[p1[2]].id>> \in topWas
      <4> HIDE DEF topWas
      <4> QED
        BY <2>10
    <3>3. topWas \subseteq topIs
      <4> HIDE DEF topIs
      <4> QED
        BY <3>1
    <3>4. topIs \subseteq topWas
      <4> HIDE DEF topWas
      <4> QED
        BY <3>2
    <3>5. QED
      <4> HIDE DEF topWas, topIs
      <4> QED
        BY <3>3, <3>4
  <2>12. DrawnIn(x, old, ground, look) = [ground |-> ground, drawn |-> drawnWas, onTop |-> topWas]
    BY DEF DrawnIn, was
  <2>13. DrawnIn(x, new, ground, now) = [ground |-> ground, drawn |-> drawnIs, onTop |-> topIs]
    BY DEF DrawnIn, is
  <2> HIDE DEF drawnWas, drawnIs, topWas, topIs
  <2>14. QED
    BY <2>8, <2>11, <2>12, <2>13
<1>5. \A x \in 0..(BarWidth - 1) : pixels[x] = DrawnIn(x, old, ground, look)
  BY DEF Shows
<1> HIDE DEF pixels
<1>6. \A x \in 0..(BarWidth - 1) :
        (IF \E t \in torn : x \in Columns(t) THEN Painted(x, new, ground, torn) ELSE pixels[x])
          = DrawnIn(x, new, ground, now)
  BY <1>3, <1>4, <1>5
<1>7. Mended(pixels, new, ground, torn) = Shows(new, ground, now)
  BY <1>6 DEF Mended, Shows
<1>8. QED
  BY <1>7 DEF pixels, torn

-----------------------------------------------------------------------------
\* A step that leaves the items of the bar as they are leaves the bar as it is.
LEMMA OrderKept ==
  ASSUME NEW S, \A b \in S : boxes'[b].order = boxes[b].order
  PROVE  InOrder(S)' = InOrder(S)
<1> DEFINE T == {f \in Listings(S) :
                  \A i, j \in 1..Cardinality(S) : i < j => boxes[f[i]].order < boxes[f[j]].order}
           U == {f \in Listings(S) :
                  \A i, j \in 1..Cardinality(S) : i < j => boxes'[f[i]].order < boxes'[f[j]].order}
<1>1. T = U
  <2>1. ASSUME NEW f \in Listings(S), NEW i \in 1..Cardinality(S) PROVE boxes'[f[i]].order = boxes[f[i]].order
    BY DEF Listings
  <2>2. QED
    BY <2>1
<1>2. InOrder(S) = Whichever(T)
  BY DEF InOrder
<1>3. InOrder(S)' = Whichever(U)
  BY DEF InOrder, Whichever, Listings
<1> HIDE DEF T, U
<1>4. QED
  BY <1>1, <1>2, <1>3

LEMMA MeasuredKept ==
  ASSUME NEW S, NEW c \in Nat, c = Cardinality(S), \A b \in S : boxes'[b] = boxes[b],
         InOrder(S) \in Listings(S)
  PROVE  Measured(S)' = Measured(S)
<1> DEFINE seq == InOrder(S)
<1>1. InOrder(S)' = seq /\ seq \in [1..c -> S]
  BY OrderKept DEF Listings
<1>2. Measured(S) = [n \in 1..c |-> [id |-> seq[n], at |-> boxes[seq[n]].at, width |-> boxes[seq[n]].width]]
  BY DEF Measured
<1>3. Measured(S)' = [n \in 1..c |-> [id |-> InOrder(S)'[n], at |-> boxes'[InOrder(S)'[n]].at,
                                      width |-> boxes'[InOrder(S)'[n]].width]]
  BY DEF Measured
<1> HIDE DEF seq
<1>4. \A n \in 1..c : boxes'[seq[n]] = boxes[seq[n]]
  BY <1>1
<1>5. QED
  BY <1>1, <1>2, <1>3, <1>4

LEMMA BracketsKept ==
  ASSUME Boxed, NEW list, rows' = rows, members' = members,
         \A b \in Brackets : /\ b \in DOMAIN boxes' <=> b \in DOMAIN boxes
                             /\ b \in DOMAIN boxes => boxes'[b] = boxes[b]
  PROVE  BracketsOver(list)' = BracketsOver(list)
<1> DEFINE m == Len(rows)
           over(b) == {r \in Range(list) : r.id \in members'[b]}
           left(b) == Min({r.x : r \in over(b)})
           span(b) == [id |-> b, x |-> left(b), width |-> Max({r.x + r.width : r \in over(b)}) - left(b)]
           next(b, sofar) == IF b \in DOMAIN boxes' /\ boxes'[b].drawing /\ \E r \in Range(list) : r.id \in members'[b]
                             THEN Append(sofar, span(b)) ELSE sofar
           was[n \in 0..m] == IF n = 0 THEN <<>> ELSE Spans(rows[n], list, was[n - 1])
           Is(g) == g = [n \in 0..Len(rows') |-> IF n = 0 THEN <<>> ELSE next(rows'[n], g[n - 1])]
           is == CHOOSE g : Is(g)
<1>1. m \in Nat /\ \A n \in 1..m : rows[n] \in Brackets
  <2>1. Cardinality(Brackets) \in Nat
    BY LayoutAssumption, FS_Subset, FS_CardinalityType DEF All
  <2>2. rows \in [1..Cardinality(Brackets) -> Brackets]
    BY DEF Boxed, Listings
  <2>3. m = Cardinality(Brackets)
    BY <2>1, <2>2
  <2>4. QED
    BY <2>1, <2>2, <2>3
<1>2. ASSUME NEW b \in Brackets, NEW sofar
      PROVE  next(b, sofar) = Spans(b, list, sofar)
  <2>1. span(b) = SpanOf(b, list)
    BY DEF SpanOf
  <2>2. QED
    BY <2>1 DEF Spans, Spanned
<1>3. BracketsOver(list) = was[m]
  BY DEF BracketsOver
<1>4. BracketsOver(list)' = is[Len(rows')]
  BY DEF BracketsOver, Spans, Spanned, SpanOf, Range
<1> HIDE DEF next
<1>5. was = [n \in 0..m |-> IF n = 0 THEN <<>> ELSE Spans(rows[n], list, was[n - 1])]
  BY <1>1, SpunExist DEF Spun
<1> HIDE DEF m, was
<1>6. was = [n \in 0..m |-> IF n = 0 THEN <<>> ELSE next(rows[n], was[n - 1])]
  <2>1. \A n \in 0..m : (IF n = 0 THEN <<>> ELSE Spans(rows[n], list, was[n - 1]))
                          = (IF n = 0 THEN <<>> ELSE next(rows[n], was[n - 1]))
    BY <1>1, <1>2
  <2>2. QED
    BY <1>5, <2>1
<1>7. Is(was)
  BY <1>6 DEF m
<1>8. Is(is)
  <2> HIDE DEF Is
  <2> QED
    BY <1>7
<1> HIDE DEF is
<1>9. is = [n \in 0..m |-> IF n = 0 THEN <<>> ELSE next(rows[n], is[n - 1])]
  BY <1>8 DEF m
<1> HIDE DEF Is
<1>a. \A n \in 0..m : was[n] = IF n = 0 THEN <<>> ELSE next(rows[n], was[n - 1])
  BY <1>6
<1>b. \A n \in 0..m : is[n] = IF n = 0 THEN <<>> ELSE next(rows[n], is[n - 1])
  BY <1>9
<1> DEFINE T == {n \in Nat : n <= m => was[n] = is[n]}
<1>10. 0 \in T
  BY <1>1, <1>6, <1>9
<1>11. ASSUME NEW n \in T PROVE n + 1 \in T
  <2> SUFFICES ASSUME n + 1 <= m PROVE was[n + 1] = is[n + 1]
    OBVIOUS
  <2>1. n \in Nat /\ n + 1 \in 1..m /\ was[n] = is[n]
    BY <1>1
  <2> HIDE DEF T
  <2>2. n + 1 \in 0..m /\ n + 1 # 0 /\ (n + 1) - 1 = n
    BY <1>1, <2>1
  <2>3. was[n + 1] = next(rows[n + 1], was[n]) /\ is[n + 1] = next(rows[n + 1], is[n])
    BY <1>a, <1>b, <2>2
  <2>4. QED
    BY <2>1, <2>2, <2>3
<1>12. T = Nat
  <2> HIDE DEF T
  <2>1. T \in SUBSET Nat
    BY DEF T
  <2>2. QED
    BY <1>10, <1>11, <2>1, AllNat
<1>13. was[m] = is[m]
  BY <1>1, <1>12
<1>14. QED
  BY <1>3, <1>4, <1>13 DEF m

OfBar == {b \in DOMAIN boxes : ~boxes[b].inPopup}
BareBoxes == {b \in DOMAIN boxes : /\ boxes[b].drawing /\ ~boxes[b].inPopup
                                   /\ b \in Brackets => members[b] = {}}

LEMMA BarKept ==
  ASSUME Boxed, Boxed', rows' = rows, members' = members,
         OfBar' = OfBar, \A b \in OfBar : boxes'[b] = boxes[b]
  PROVE  LaidOut' = LaidOut
<1> DEFINE pad == [left |-> 0, right |-> 0]
           row == Arrange(Measured(BareBoxes), BarWidth, pad, 0)
<1>1. LaidOut = BracketsOver(row) \o row
  BY DEF LaidOut, BareBoxes
<1>2. LaidOut' = BracketsOver(row)' \o row'
  BY DEF LaidOut, BareBoxes
<1>3. BareBoxes \subseteq OfBar /\ BareBoxes \in SUBSET DOMAIN boxes
  BY DEF BareBoxes, OfBar
<1>4. BareBoxes' = BareBoxes
  BY DEF BareBoxes, OfBar
<1>5. PICK S : S = BareBoxes
  OBVIOUS
<1>6. Measured(S)' = Measured(S)
  <2>1. S \in SUBSET DOMAIN boxes /\ \A b \in S : boxes'[b] = boxes[b]
    BY <1>3, <1>5
  <2>2. Cardinality(S) \in Nat /\ InOrder(S) \in Listings(S)
    BY <2>1, OrderIs
  <2>3. QED
    BY <2>1, <2>2, MeasuredKept
<1>7. Measured(BareBoxes)' = Measured(BareBoxes)
  BY <1>4, <1>5, <1>6
<1>8. row' = row
  BY <1>7
<1>9. PICK list : list = row
  OBVIOUS
<1>10. \A b \in Brackets : /\ b \in DOMAIN boxes' <=> b \in DOMAIN boxes
                           /\ b \in DOMAIN boxes => boxes'[b] = boxes[b]
  BY DEF OfBar, Boxed
<1>11. BracketsOver(list)' = BracketsOver(list)
  BY <1>10, BracketsKept
<1>12. BracketsOver(row)' = BracketsOver(row)
  <2> HIDE DEF row
  <2> QED
    BY <1>8, <1>9, <1>11
<1>13. QED
  BY <1>1, <1>2, <1>8, <1>12

\* And one that leaves those of the popup, but for where in the bar they would be,
\* leaves the popup.
LEMMA SameRow ==
  ASSUME NEW a \in Seq(Tile), NEW b \in Seq(Tile), Len(a) = Len(b),
         \A k \in 1..Len(a) : a[k].id = b[k].id /\ a[k].width = b[k].width
  PROVE  ArrangePopup(a, TRUE) = ArrangePopup(b, TRUE)
<1> DEFINE n == Len(a)
           s == [k \in 1..Len(a) |-> [a[k] EXCEPT !.width = Most(@, 0)]]
           t == [k \in 1..Len(b) |-> [b[k] EXCEPT !.width = Most(@, 0)]]
<1>1. n \in Nat /\ \A k \in 1..n : a[k] \in Tile /\ b[k] \in Tile
  OBVIOUS
<1>2. ArrangePopup(a, TRUE) = [placed |-> RunFrom(0, s), width |-> Total(Widths(s))]
  BY DEF ArrangePopup
<1>3. ArrangePopup(b, TRUE) = [placed |-> RunFrom(0, t), width |-> Total(Widths(t))]
  BY DEF ArrangePopup
<1>4. ASSUME NEW k \in 1..n PROVE s[k].id = t[k].id /\ s[k].width = t[k].width
  <2>1. a[k] \in Tile /\ b[k] \in Tile
    BY <1>1
  <2>2. s[k] = [a[k] EXCEPT !.width = Most(@, 0)] /\ t[k] = [b[k] EXCEPT !.width = Most(@, 0)]
    OBVIOUS
  <2> HIDE DEF s, t
  <2>3. s[k].id = a[k].id /\ s[k].width = Most(a[k].width, 0)
    BY <2>1, <2>2 DEF Tile
  <2>4. t[k].id = b[k].id /\ t[k].width = Most(b[k].width, 0)
    BY <2>1, <2>2 DEF Tile
  <2>5. QED
    BY <2>3, <2>4
<1>5. Len(s) = n /\ Len(t) = n
  BY <1>1
<1> HIDE DEF s, t, n
<1>6. Widths(s) = Widths(t)
  BY <1>4, <1>5 DEF Widths
<1>7. RunFrom(0, s) = RunFrom(0, t)
  BY <1>4, <1>5, <1>6 DEF RunFrom
<1>8. QED
  BY <1>2, <1>3, <1>6, <1>7

LEMMA ItemsKept ==
  ASSUME Boxed, NEW S \in SUBSET DOMAIN boxes, DOMAIN boxes' \subseteq All, S \subseteq DOMAIN boxes',
         \A b \in DOMAIN boxes' : boxes'[b] \in Box,
         \A b \in S : boxes'[b].width = boxes[b].width /\ boxes'[b].order = boxes[b].order
  PROVE  ArrangePopup(Measured(S), TRUE)' = ArrangePopup(Measured(S), TRUE)
<1> DEFINE seq == InOrder(S)
           c == Cardinality(S)
           was == Measured(S)
           is == [n \in 1..c |-> [id |-> seq[n], at |-> boxes'[seq[n]].at, width |-> boxes'[seq[n]].width]]
<1>1. c \in Nat /\ seq \in [1..c -> S]
  BY OrderIs DEF Listings
<1>2. was \in Seq(Tile) /\ Len(was) = c
  BY MeasuredIs
<1>3. was = [n \in 1..c |-> [id |-> seq[n], at |-> boxes[seq[n]].at, width |-> boxes[seq[n]].width]]
  BY DEF Measured
<1>4. InOrder(S)' = seq
  BY OrderKept
<1>5. Measured(S)' = [n \in 1..c |-> [id |-> InOrder(S)'[n], at |-> boxes'[InOrder(S)'[n]].at,
                                      width |-> boxes'[InOrder(S)'[n]].width]]
  BY DEF Measured
<1> HIDE DEF seq, c, was
<1>6. Measured(S)' = is
  BY <1>4, <1>5
<1>7. ASSUME NEW n \in 1..c
      PROVE  is[n] \in Tile /\ is[n].id = was[n].id /\ is[n].width = was[n].width
  <2>1. seq[n] \in S /\ seq[n] \in All /\ boxes'[seq[n]] \in Box
    BY <1>1 DEF Boxed
  <2>2. boxes'[seq[n]].at \in Buckets /\ boxes'[seq[n]].width \in Nat
    BY <2>1, LayoutAssumption DEF Box
  <2>3. boxes'[seq[n]].width = boxes[seq[n]].width
    BY <2>1
  <2>4. QED
    BY <1>3, <2>1, <2>2, <2>3 DEF Tile
<1>8. is \in [1..c -> Tile]
  BY <1>7
<1>9. is \in Seq(Tile) /\ Len(is) = c
  BY <1>1, <1>8
<1> HIDE DEF is
<1>10. ArrangePopup(is, TRUE) = ArrangePopup(was, TRUE)
  BY <1>2, <1>7, <1>9, SameRow
<1>11. ArrangePopup(Measured(S), TRUE)' = ArrangePopup(is, TRUE)
  BY <1>6
<1>12. QED
  BY <1>10, <1>11 DEF was

LEMMA PopupKept ==
  ASSUME Boxed, Boxed', NEW barList, hanging'.drawing = hanging.drawing,
         Host \in DOMAIN boxes' <=> Host \in DOMAIN boxes,
         OfPopup' = OfPopup, \A b \in OfPopup : /\ boxes'[b].width = boxes[b].width
                                                /\ boxes'[b].order = boxes[b].order
  PROVE  Hung(barList)' = Hung(barList)
<1>1. OfPopup \subseteq DOMAIN boxes /\ OfPopup \subseteq DOMAIN boxes'
  BY DEF OfPopup
<1>2. PICK S : S = OfPopup
  OBVIOUS
<1>3. S \in SUBSET DOMAIN boxes /\ S \subseteq DOMAIN boxes'
  BY <1>1, <1>2
<1>4. DOMAIN boxes' \subseteq All /\ \A b \in DOMAIN boxes' : boxes'[b] \in Box
  BY DEF Boxed
<1>5. \A b \in S : boxes'[b].width = boxes[b].width /\ boxes'[b].order = boxes[b].order
  BY <1>2
<1>6. ArrangePopup(Measured(S), TRUE)' = ArrangePopup(Measured(S), TRUE)
  BY <1>3, <1>4, <1>5, ItemsKept
<1> DEFINE row == ArrangePopup(Measured(OfPopup), TRUE)
<1>7. row' = row
  BY <1>2, <1>6
<1>8. Hung(barList) = IF ~hanging.drawing \/ Host \notin DOMAIN boxes \/ HostAt(barList) = {} \/ OfPopup = {}
                  THEN Nowhere
                  ELSE [list |-> row.placed,
                        frame |-> LET host == OnDesktop(PanelX, Whichever(HostAt(barList)))
                                  IN <<AnchorAt(host, row.width, "left", BarWidth), row.width>>]
  BY DEF Hung, OfPopup
<1>9. Hung(barList)' = IF ~hanging'.drawing \/ Host \notin DOMAIN boxes' \/ HostAt(barList) = {} \/ OfPopup' = {}
                   THEN Nowhere
                   ELSE [list |-> row'.placed,
                         frame |-> LET host == OnDesktop(PanelX, Whichever(HostAt(barList)))
                                   IN <<AnchorAt(host, row'.width, "left", BarWidth), row'.width>>]
  BY DEF Hung, OfPopup, HostAt, Nowhere, Whichever, OnDesktop, AnchorAt
<1> HIDE DEF row
<1>10. QED
  BY <1>7, <1>8, <1>9

-----------------------------------------------------------------------------
\* To start with each is listed once.
LEMMA ListingExists ==
  ASSUME NEW S, IsFiniteSet(S)
  PROVE  Cardinality(S) \in Nat /\ Whichever(Listings(S)) \in Listings(S)
<1>1. Cardinality(S) \in Nat /\ ExistsBijection(1..Cardinality(S), S)
  BY FS_CardinalityType
<1>2. PICK f : f \in Bijection(1..Cardinality(S), S)
  BY <1>1 DEF ExistsBijection
<1>3. f \in Listings(S)
  BY <1>2 DEF Bijection, Injection, IsInjective, Listings
<1>4. QED
  BY <1>1, <1>3 DEF Whichever

LEMMA ListingHasAll ==
  ASSUME NEW S, IsFiniteSet(S), NEW f \in Listings(S), NEW x \in S
  PROVE  \E n \in 1..Cardinality(S) : f[n] = x
<1> DEFINE n == Cardinality(S)
           R == {f[k] : k \in 1..n}
<1>1. n \in Nat
  BY FS_CardinalityType
<1>2. f \in [1..n -> S] /\ \A i, j \in 1..n : f[i] = f[j] => i = j
  BY DEF Listings
<1> HIDE DEF n
<1>3. f \in Bijection(1..n, R)
  BY <1>2 DEF Bijection, Injection, Surjection, IsInjective
<1>4. IsFiniteSet(1..n) /\ Cardinality(1..n) = n
  BY <1>1, FS_Interval
<1>5. R \in SUBSET S
  BY <1>2
<1> HIDE DEF R
<1>6. Cardinality(R) = n
  BY <1>3, <1>4, FS_Bijection DEF ExistsBijection
<1>7. R = S
  BY <1>5, <1>6, FS_Subset DEF n
<1>8. QED
  BY <1>7 DEF R, n

LEMMA PlacesDiffer ==
  ASSUME NEW S, IsFiniteSet(S), NEW f \in Listings(S)
  PROVE  /\ \A x \in S : PlaceIn(f, x) \in 1..Cardinality(S)
         /\ \A x, y \in S : PlaceIn(f, x) = PlaceIn(f, y) => x = y
<1>1. DOMAIN f = 1..Cardinality(S)
  BY DEF Listings
<1>2. ASSUME NEW x \in S PROVE PlaceIn(f, x) \in 1..Cardinality(S) /\ f[PlaceIn(f, x)] = x
  <2>1. \E n \in DOMAIN f : f[n] = x
    <3>1. \E n \in 1..Cardinality(S) : f[n] = x
      BY ListingHasAll
    <3>2. QED
      BY <1>1, <3>1
  <2>2. PlaceIn(f, x) \in DOMAIN f /\ f[PlaceIn(f, x)] = x
    BY <2>1 DEF PlaceIn
  <2>3. QED
    BY <1>1, <2>2
<1>3. \A x, y \in S : PlaceIn(f, x) = PlaceIn(f, y) => x = y
  <2> SUFFICES ASSUME NEW x \in S, NEW y \in S, PlaceIn(f, x) = PlaceIn(f, y) PROVE x = y
    OBVIOUS
  <2>1. f[PlaceIn(f, x)] = x /\ f[PlaceIn(f, y)] = y
    BY <1>2
  <2>2. QED
    BY <2>1
<1>4. QED
  BY <1>2, <1>3

-----------------------------------------------------------------------------
\* What is known between two repaints. A surface shows its list as the items
\* looked when they were drawn: those that nothing has touched since look so
\* still, and are in the same order. When nothing is owed it shows what there is.
Still(s) == DOMAIN boxes \ touched[s]
Looked(s, list, ground, pixels) ==
  \E look \in [All -> 0..1] : /\ pixels = Shows(list, ground, look)
                              /\ \A b \in Still(s) : look[b] = boxes[b].look
Distinct(list) == \A n, m \in 1..Len(list) : list[n].id = list[m].id => n = m

BarShown ==
  ~force /\ ~unlisted.bar /\ placed.bar.frame # <<>> =>
    /\ Looked("bar", placed.bar.list, setting.look, shown.bar)
    /\ Distinct(placed.bar.list)
    /\ \A n, m \in 1..Len(placed.bar.list) :
         n < m /\ {placed.bar.list[n].id, placed.bar.list[m].id} \subseteq Still("bar") =>
             Below(placed.bar.list[n].id, placed.bar.list[m].id)
PopupShown ==
  /\ placed.popup.list = <<>> => placed.popup.frame = <<>>
  /\ ~unlisted.popup /\ placed.popup.list # <<>> =>
       /\ Looked("popup", placed.popup.list, hanging.look, shown.popup)
       /\ Distinct(placed.popup.list)
       /\ \A n, m \in 1..Len(placed.popup.list) :
            n < m /\ {placed.popup.list[n].id, placed.popup.list[m].id} \subseteq Still("popup") =>
               boxes[placed.popup.list[n].id].order < boxes[placed.popup.list[m].id].order
BarRests ==
  ~unpainted.bar /\ ~unlisted.bar /\ ~setting.hidden => shown.bar = Full(LaidOut, setting.look)
HungNow(hung) == IF hung.list = <<>> THEN <<>> ELSE Full(hung.list, hanging.look)
PopupRests ==
  ~unpainted.popup => ~unpainted.bar /\ (~unlisted.popup => shown.popup = HungNow(Hung(placed.bar.list)))

LayTyped ==
  /\ Boxed
  /\ setting \in [hidden: BOOLEAN, look: 0..1] /\ hanging \in [drawing: BOOLEAN, look: 0..1]
  /\ touched \in [Surface -> SUBSET All] /\ unpainted \in [Surface -> BOOLEAN]
  /\ force \in BOOLEAN /\ unlisted \in [Surface -> BOOLEAN]
  /\ placed.bar.list \in Seq(PlacedRects) /\ placed.popup.list \in Seq(PlacedRects)

LayInv == LayTyped /\ BarShown /\ PopupShown /\ BarRests /\ PopupRests

LEMMA LayStarts == LayoutInit => LayInv
<1> SUFFICES ASSUME LayoutInit PROVE LayInv
  OBVIOUS
<1> USE DEF LayoutInit
<1>1. IsFiniteSet(All) /\ IsFiniteSet(Brackets) /\ All = Drawables \cup Brackets
  BY LayoutAssumption, FS_Subset DEF All
<1>2. PICK f \in Listings(All) : f = Whichever(Listings(All))
  BY <1>1, ListingExists
<1> DEFINE n == Cardinality(All)
           bucket == Whichever(LayBuckets)
           width == Min(LayWidths)
<1>3. /\ \A b \in All : PlaceIn(f, b) \in 1..n
      /\ \A p, q \in All : PlaceIn(f, p) = PlaceIn(f, q) => p = q
  BY <1>1, PlacesDiffer
<1>4. bucket \in LayBuckets
  BY LayoutAssumption DEF Whichever
<1>5. width \in LayWidths
  BY LayoutAssumption, LeastNat
<1> HIDE DEF n, bucket, width
<1>6. boxes = [b \in All |-> [at |-> bucket, order |-> PlaceIn(f, b), drawing |-> TRUE, width |-> width,
                              look |-> 0, inPopup |-> hanging.drawing /\ b \in Drawables \ {Host}]]
  BY <1>2 DEF bucket, width
<1>7. hanging \in [drawing: BOOLEAN, look: 0..1]
  OBVIOUS
<1>8. ASSUME NEW b \in All PROVE boxes[b] \in Box /\ (b \in Brackets => ~boxes[b].inPopup)
  <2>1. boxes[b] = [at |-> bucket, order |-> PlaceIn(f, b), drawing |-> TRUE, width |-> width, look |-> 0,
                    inPopup |-> hanging.drawing /\ b \in Drawables \ {Host}]
    BY <1>6
  <2>2. (hanging.drawing /\ b \in Drawables \ {Host}) \in BOOLEAN
    OBVIOUS
  <2>3. boxes[b] \in Box
    BY <2>1, <2>2, <1>3, <1>4, <1>5 DEF Box, n
  <2>4. b \in Brackets => ~(hanging.drawing /\ b \in Drawables \ {Host})
    BY LayoutAssumption
  <2>5. QED
    BY <2>1, <2>3, <2>4
<1>9. \A p, q \in All : boxes[p].order = boxes[q].order => p = q
  BY <1>3, <1>6
<1>10. DOMAIN boxes = All
  BY <1>6
<1>11. rows \in Listings(Brackets)
  BY <1>1, ListingExists
<1>12. Boxed
  BY <1>8, <1>9, <1>10, <1>11 DEF Boxed, OrdersDiffer
<1>13. placed.bar = Nowhere /\ placed.popup = Nowhere
  BY DEF Surface
<1>14. Nowhere.list = <<>> /\ Nowhere.frame = <<>>
  BY DEF Nowhere
<1>15. LayTyped
  <2>1. setting \in [hidden: BOOLEAN, look: 0..1]
    OBVIOUS
  <2>2. /\ touched \in [Surface -> SUBSET All] /\ unpainted \in [Surface -> BOOLEAN]
        /\ unlisted \in [Surface -> BOOLEAN] /\ force \in BOOLEAN
    OBVIOUS
  <2>3. placed.bar.list \in Seq(PlacedRects) /\ placed.popup.list \in Seq(PlacedRects)
    <3>1. placed.bar.list = <<>> /\ placed.popup.list = <<>>
      BY <1>13, <1>14
    <3> HIDE DEF LayoutInit
    <3>2. <<>> \in Seq(PlacedRects)
      OBVIOUS
    <3>3. QED
      BY <3>1, <3>2
  <2>4. QED
    BY <1>7, <1>12, <2>1, <2>2, <2>3 DEF LayTyped
<1>16. BarShown /\ PopupShown
  BY <1>13, <1>14 DEF BarShown, PopupShown
<1>17. unpainted.bar /\ unpainted.popup
  BY DEF Surface
<1>18. BarRests /\ PopupRests
  BY <1>17 DEF BarRests, PopupRests
<1>19. QED
  BY <1>15, <1>16, <1>18 DEF LayInv

-----------------------------------------------------------------------------
\* What a change leaves as it is.
LEMMA FullKept ==
  ASSUME NEW list, NEW ground, \A n \in DOMAIN list : boxes'[list[n].id].look = boxes[list[n].id].look
  PROVE  Full(list, ground)' = Full(list, ground)
<1>1. ASSUME NEW x, NEW into PROVE Painted(x, list, ground, into)' = Painted(x, list, ground, into)
  <2> DEFINE over == {n \in DOMAIN list : x \in Columns(list[n]) /\ \E t \in into : Intersects(t, list[n])}
             drawnThere == {<<list[n].id, boxes[list[n].id].look>> : n \in over}
             drawn1 == {<<list[n].id, boxes'[list[n].id].look>> : n \in over}
             onTop == {<<list[p[1]].id, list[p[2]].id>> : p \in {q \in over \X over : q[2] < q[1]}}
  <2>1. Painted(x, list, ground, into) = [ground |-> ground, drawn |-> drawnThere, onTop |-> onTop]
    BY DEF Painted
  <2>2. Painted(x, list, ground, into)' = [ground |-> ground, drawn |-> drawn1, onTop |-> onTop]
    BY DEF Painted, Columns, Intersects
  <2>3. \A n \in over : boxes'[list[n].id].look = boxes[list[n].id].look
    OBVIOUS
  <2> HIDE DEF over, onTop
  <2>4. drawnThere = drawn1
    BY <2>3
  <2> HIDE DEF drawnThere, drawn1
  <2>5. QED
    BY <2>1, <2>2, <2>4
<1>2. Full(list, ground) = [x \in 0..(BarWidth - 1) |-> Painted(x, list, ground, {Everywhere})]
  BY DEF Full
<1>3. Full(list, ground)' = [x \in 0..(BarWidth - 1) |-> Painted(x, list, ground, {Everywhere})']
  BY DEF Full, Everywhere
<1>4. \A x : Painted(x, list, ground, {Everywhere})' = Painted(x, list, ground, {Everywhere})
  BY <1>1 DEF Everywhere
<1>5. QED
  BY <1>2, <1>3, <1>4

LEMMA BarRestsKept ==
  ASSUME Boxed, Boxed', BarRests, shown'.bar = shown.bar, unpainted.bar => unpainted'.bar, unlisted.bar => unlisted'.bar,
         \/ unpainted'.bar \/ unlisted'.bar
         \/ /\ OfBar' = OfBar /\ \A b \in OfBar : boxes'[b] = boxes[b]
            /\ rows' = rows /\ members' = members /\ setting' = setting
  PROVE  BarRests'
<1> SUFFICES ASSUME ~unpainted'.bar, ~unlisted'.bar, ~setting'.hidden
             PROVE  shown'.bar = Full(LaidOut, setting.look)'
  BY DEF BarRests
<1>1. /\ OfBar' = OfBar /\ \A b \in OfBar : boxes'[b] = boxes[b]
      /\ rows' = rows /\ members' = members /\ setting' = setting
  OBVIOUS
<1>2. shown.bar = Full(LaidOut, setting.look)
  BY <1>1 DEF BarRests
<1>3. LaidOut' = LaidOut
  BY <1>1, BarKept
<1>4. Chained(LaidOut)
  BY LaidIs
<1>5. \A n \in DOMAIN LaidOut : LaidOut[n].id \in OfBar
  BY <1>4 DEF Chained, OfBar
<1>6. PICK list : list = LaidOut
  OBVIOUS
<1>7. PICK ground : ground = setting.look
  OBVIOUS
<1>8. Full(list, ground)' = Full(list, ground)
  <2>1. \A n \in DOMAIN list : boxes'[list[n].id].look = boxes[list[n].id].look
    BY <1>1, <1>5, <1>6
  <2>2. QED
    BY <2>1, FullKept
<1>9. Full(LaidOut, setting.look)' = Full(list, ground)'
  BY <1>1, <1>3, <1>6, <1>7
<1>10. QED
  BY <1>2, <1>6, <1>7, <1>8, <1>9

LEMMA PopupRestsKept ==
  ASSUME Boxed, Boxed', PopupRests, shown' = shown, placed' = placed, unlisted.popup => unlisted'.popup,
         \/ unpainted'.popup
         \/ /\ unpainted' = unpainted
            /\ \/ unlisted'.popup
               \/ /\ OfPopup' = OfPopup /\ hanging' = hanging
                  /\ Host \in DOMAIN boxes' <=> Host \in DOMAIN boxes
                  /\ \A b \in OfPopup : /\ boxes'[b].width = boxes[b].width
                                        /\ boxes'[b].order = boxes[b].order
                                        /\ boxes'[b].look = boxes[b].look
  PROVE  PopupRests'
<1> SUFFICES ASSUME ~unpainted'.popup, ~unlisted'.popup
             PROVE  shown'.popup = HungNow(Hung(placed.bar.list))'
  BY DEF PopupRests
<1>1. /\ OfPopup' = OfPopup /\ hanging' = hanging
      /\ Host \in DOMAIN boxes' <=> Host \in DOMAIN boxes
      /\ \A b \in OfPopup : /\ boxes'[b].width = boxes[b].width /\ boxes'[b].order = boxes[b].order
                            /\ boxes'[b].look = boxes[b].look
  OBVIOUS
<1>2. shown.popup = HungNow(Hung(placed.bar.list))
  BY DEF PopupRests
<1>3. PICK barList : barList = placed.bar.list
  OBVIOUS
<1>4. Hung(barList)' = Hung(barList)
  BY <1>1, PopupKept
<1>5. PICK hung : hung = Hung(barList)
  OBVIOUS
<1>6. \A n \in DOMAIN hung.list : hung.list[n].id \in OfPopup
  BY <1>5, HungIs DEF Stacked
<1>7. PICK ground : ground = hanging.look
  OBVIOUS
<1>8. Full(hung.list, ground)' = Full(hung.list, ground)
  <2>1. PICK list : list = hung.list
    OBVIOUS
  <2>2. \A n \in DOMAIN list : boxes'[list[n].id].look = boxes[list[n].id].look
    BY <1>1, <1>6, <2>1
  <2>3. Full(list, ground)' = Full(list, ground)
    BY <2>2, FullKept
  <2>4. QED
    BY <2>1, <2>3
<1>9. HungNow(hung)' = HungNow(hung)
  BY <1>1, <1>7, <1>8 DEF HungNow
<1>10. HungNow(Hung(placed.bar.list))' = HungNow(hung)'
  BY <1>3, <1>4, <1>5
<1>11. QED
  BY <1>2, <1>3, <1>5, <1>9, <1>10

\* What nothing has touched stays as it was drawn, whatever else changes.
UntouchedOn(s) == Still(s)' \subseteq Still(s) /\ \A b \in Still(s)' : boxes'[b] = boxes[b]
Untouched == UntouchedOn("bar") /\ UntouchedOn("popup")

LEMMA LookedKept ==
  ASSUME NEW s \in Surface, NEW list, NEW ground, NEW pixels, Looked(s, list, ground, pixels), UntouchedOn(s)
  PROVE  Looked(s, list, ground, pixels)'
<1>1. PICK look \in [All -> 0..1] : /\ pixels = Shows(list, ground, look)
                                    /\ \A b \in Still(s) : look[b] = boxes[b].look
  BY DEF Looked
<1>2. \A b \in Still(s)' : look[b] = boxes'[b].look
  BY <1>1 DEF UntouchedOn
<1>3. Shows(list, ground, look)' = Shows(list, ground, look)
  BY DEF Shows, DrawnIn, Columns
<1>4. pixels = Shows(list, ground, look)'
  BY <1>1, <1>3
<1>5. QED
  BY <1>2, <1>4 DEF Looked, All

LEMMA BarShownKept ==
  ASSUME BarShown, placed'.bar = placed.bar, shown'.bar = shown.bar, UntouchedOn("bar"),
         force => force', unlisted.bar => unlisted'.bar,
         unlisted'.bar \/ (rows' = rows /\ members' = members), force' \/ setting' = setting
  PROVE  BarShown'
<1> SUFFICES ASSUME ~force', ~unlisted'.bar, placed.bar.frame # <<>>
             PROVE  /\ Looked("bar", placed.bar.list, setting.look, shown.bar)'
                    /\ Distinct(placed.bar.list)
                    /\ \A n, m \in 1..Len(placed.bar.list) :
                         n < m /\ {placed.bar.list[n].id, placed.bar.list[m].id} \subseteq Still("bar")' =>
                             Below(placed.bar.list[n].id, placed.bar.list[m].id)'
  BY DEF BarShown, Distinct
<1>1. rows' = rows /\ members' = members /\ setting' = setting
  OBVIOUS
<1>2. PICK list : list = placed.bar.list
  OBVIOUS
<1>3. PICK ground : ground = setting.look
  OBVIOUS
<1>4. PICK pixels : pixels = shown.bar
  OBVIOUS
<1>5. /\ Looked("bar", list, ground, pixels) /\ Distinct(list)
      /\ \A n, m \in 1..Len(list) :
           n < m /\ {list[n].id, list[m].id} \subseteq Still("bar") => Below(list[n].id, list[m].id)
  BY <1>2, <1>3, <1>4 DEF BarShown
<1>6. "bar" \in Surface
  BY DEF Surface
<1>7. Looked("bar", list, ground, pixels)'
  BY <1>5, <1>6, LookedKept
<1>8. Looked("bar", placed.bar.list, setting.look, shown.bar)' = Looked("bar", list, ground, pixels)'
  BY <1>1, <1>2, <1>3, <1>4
<1>9. Still("bar")' \subseteq Still("bar") /\ \A b \in Still("bar")' : boxes'[b] = boxes[b]
  BY DEF UntouchedOn
<1>10. ASSUME NEW p \in Still("bar")', NEW q \in Still("bar")', Below(p, q) PROVE Below(p, q)'
  <2>1. boxes'[p] = boxes[p] /\ boxes'[q] = boxes[q]
    BY <1>9
  <2>2. (Over(p)' <=> Over(p)) /\ (Over(q)' <=> Over(q)) /\ (Listed(p, q)' <=> Listed(p, q))
    BY <1>1 DEF Over, Listed
  <2>3. Earlier(p, q)' <=> Earlier(p, q)
    BY <2>1 DEF Earlier, FromRight
  <2>4. QED
    BY <1>10, <2>1, <2>2, <2>3 DEF Below, Rank
<1>11. \A n, m \in 1..Len(list) :
         n < m /\ {list[n].id, list[m].id} \subseteq Still("bar")' => Below(list[n].id, list[m].id)'
  BY <1>5, <1>9, <1>10
<1>12. \A n, m \in 1..Len(placed.bar.list) :
         n < m /\ {placed.bar.list[n].id, placed.bar.list[m].id} \subseteq Still("bar")' =>
             Below(placed.bar.list[n].id, placed.bar.list[m].id)'
  BY <1>2, <1>11
<1>13. QED
  BY <1>2, <1>5, <1>7, <1>8, <1>12

LEMMA PopupShownKept ==
  ASSUME PopupShown, placed' = placed, shown' = shown, UntouchedOn("popup"),
         unlisted.popup => unlisted'.popup, unlisted'.popup \/ hanging'.look = hanging.look
  PROVE  PopupShown'
<1>1. placed.popup.list = <<>> => placed.popup.frame = <<>>
  BY DEF PopupShown
<1> SUFFICES ASSUME ~unlisted'.popup, placed.popup.list # <<>>
             PROVE  /\ Looked("popup", placed.popup.list, hanging.look, shown.popup)'
                    /\ Distinct(placed.popup.list)
                    /\ \A n, m \in 1..Len(placed.popup.list) :
                         n < m /\ {placed.popup.list[n].id, placed.popup.list[m].id} \subseteq Still("popup")' =>
                             boxes'[placed.popup.list[n].id].order < boxes'[placed.popup.list[m].id].order
  BY <1>1 DEF PopupShown, Distinct
<1>2. PICK list : list = placed.popup.list
  OBVIOUS
<1>3. PICK ground : ground = hanging.look
  OBVIOUS
<1>4. PICK pixels : pixels = shown.popup
  OBVIOUS
<1>5. /\ Looked("popup", list, ground, pixels) /\ Distinct(list)
      /\ \A n, m \in 1..Len(list) :
           n < m /\ {list[n].id, list[m].id} \subseteq Still("popup") =>
             boxes[list[n].id].order < boxes[list[m].id].order
  BY <1>2, <1>3, <1>4 DEF PopupShown
<1>6. "popup" \in Surface
  BY DEF Surface
<1>7. Looked("popup", list, ground, pixels)'
  BY <1>5, <1>6, LookedKept
<1>8. Looked("popup", placed.popup.list, hanging.look, shown.popup)' = Looked("popup", list, ground, pixels)'
  BY <1>2, <1>3, <1>4
<1>9. Still("popup")' \subseteq Still("popup") /\ \A b \in Still("popup")' : boxes'[b] = boxes[b]
  BY DEF UntouchedOn
<1>10. \A n, m \in 1..Len(list) :
         n < m /\ {list[n].id, list[m].id} \subseteq Still("popup")' =>
           boxes'[list[n].id].order < boxes'[list[m].id].order
  <2> SUFFICES ASSUME NEW n \in 1..Len(list), NEW m \in 1..Len(list), n < m,
                      list[n].id \in Still("popup")', list[m].id \in Still("popup")'
               PROVE  boxes'[list[n].id].order < boxes'[list[m].id].order
    OBVIOUS
  <2>1. boxes[list[n].id].order < boxes[list[m].id].order
    BY <1>5, <1>9
  <2>2. boxes'[list[n].id] = boxes[list[n].id] /\ boxes'[list[m].id] = boxes[list[m].id]
    BY <1>9
  <2>3. QED
    BY <2>1, <2>2
<1>11. QED
  BY <1>2, <1>5, <1>7, <1>8, <1>10

LEMMA ChangeIsKept ==
  ASSUME LayInv, LayTyped', placed' = placed, shown' = shown, Untouched,
         force => force', unlisted.bar => unlisted'.bar, unlisted.popup => unlisted'.popup,
         unlisted'.bar \/ (rows' = rows /\ members' = members), force' \/ setting' = setting,
         unlisted'.popup \/ hanging'.look = hanging.look,
         unpainted.bar => unpainted'.bar,
         \/ unpainted'.bar \/ unlisted'.bar
         \/ /\ OfBar' = OfBar /\ \A b \in OfBar : boxes'[b] = boxes[b]
            /\ rows' = rows /\ members' = members /\ setting' = setting,
         \/ unpainted'.popup
         \/ /\ unpainted' = unpainted
            /\ \/ unlisted'.popup
               \/ /\ OfPopup' = OfPopup /\ hanging' = hanging
                  /\ Host \in DOMAIN boxes' <=> Host \in DOMAIN boxes
                  /\ \A b \in OfPopup : /\ boxes'[b].width = boxes[b].width
                                        /\ boxes'[b].order = boxes[b].order
                                        /\ boxes'[b].look = boxes[b].look
  PROVE  LayInv'
<1>1. Boxed /\ Boxed'
  BY DEF LayInv, LayTyped
<1>2. BarShown' /\ PopupShown'
  <2>1. BarShown /\ PopupShown
    BY DEF LayInv
  <2>2. QED
    BY <2>1, BarShownKept, PopupShownKept DEF Untouched
<1>3. BarRests'
  <2>1. BarRests
    BY DEF LayInv
  <2>2. QED
    BY <1>1, <2>1, BarRestsKept
<1>4. PopupRests'
  <2>1. PopupRests
    BY DEF LayInv
  <2>2. QED
    BY <1>1, <2>1, PopupRestsKept
<1>5. QED
  BY <1>2, <1>3, <1>4 DEF LayInv

-----------------------------------------------------------------------------
\* Each change.
LEMMA NotedIs ==
  ASSUME LayTyped, NEW b \in All, NEW forBar \in BOOLEAN, NEW forPopup \in BOOLEAN,
         Noted(b, forBar, forPopup)
  PROVE  /\ touched' \in [Surface -> SUBSET All] /\ unpainted' \in [Surface -> BOOLEAN]
         /\ \A s \in Surface : touched'[s] = touched[s] \cup {b}
         /\ unpainted'.bar <=> (unpainted.bar \/ forBar)
         /\ unpainted'.popup <=> (unpainted.popup \/ forBar \/ forPopup)
         /\ ~forBar /\ ~forPopup => unpainted' = unpainted
<1>1. /\ touched \in [Surface -> SUBSET All] /\ unpainted \in [Surface -> BOOLEAN]
  BY DEF LayTyped
<1>2. /\ touched' = [s \in Surface |-> touched[s] \cup {b}]
      /\ unpainted' = [s \in Surface |-> unpainted[s] \/ forBar \/ (s = "popup" /\ forPopup)]
  BY DEF Noted
<1>3. touched' \in [Surface -> SUBSET All] /\ \A s \in Surface : touched'[s] = touched[s] \cup {b}
  BY <1>1, <1>2
<1>4. "bar" \in Surface /\ "popup" \in Surface /\ "bar" # "popup"
  BY DEF Surface
<1>5. unpainted' \in [Surface -> BOOLEAN]
  BY <1>1, <1>2
<1>6. unpainted'["bar"] <=> (unpainted["bar"] \/ forBar)
  BY <1>2, <1>4
<1>7. unpainted'["popup"] <=> (unpainted["popup"] \/ forBar \/ forPopup)
  BY <1>2, <1>4
<1>8. ASSUME ~forBar, ~forPopup PROVE unpainted' = unpainted
  BY <1>1, <1>2, <1>8
<1>9. QED
  BY <1>3, <1>5, <1>6, <1>7, <1>8

LEMMA OneChanges ==
  ASSUME Boxed, NEW b \in DOMAIN boxes, NEW new \in Box, new.order = boxes[b].order,
         boxes' = [boxes EXCEPT ![b] = new], b \in Brackets => ~new.inPopup, members' = members, rows' = rows
  PROVE  /\ Boxed' /\ DOMAIN boxes' = DOMAIN boxes /\ boxes'[b] = new
         /\ \A c \in DOMAIN boxes : c # b => boxes'[c] = boxes[c]
<1>1. /\ DOMAIN boxes' = DOMAIN boxes /\ boxes'[b] = new
      /\ \A c \in DOMAIN boxes : c # b => boxes'[c] = boxes[c]
  BY DEF Boxed
<1>2. \A c \in DOMAIN boxes : boxes'[c].order = boxes[c].order
  BY <1>1
<1>3. OrdersDiffer'
  BY <1>1, <1>2 DEF Boxed, OrdersDiffer
<1>4. \A c \in DOMAIN boxes : boxes'[c] \in Box /\ (c \in Brackets => ~boxes'[c].inPopup)
  <2> SUFFICES ASSUME NEW c \in DOMAIN boxes PROVE boxes'[c] \in Box /\ (c \in Brackets => ~boxes'[c].inPopup)
    OBVIOUS
  <2>1. CASE c = b
    BY <1>1, <2>1
  <2>2. CASE c # b
    BY <1>1, <2>2 DEF Boxed
  <2>3. QED
    BY <2>1, <2>2
<1>5. Boxed'
  BY <1>1, <1>3, <1>4 DEF Boxed, Box, All, Listings
<1>6. QED
  BY <1>1, <1>5

LEMMA RestyleStep == ASSUME LayInv, NEW b \in All, Restyle(b) PROVE LayInv'
<1>1. LayTyped /\ Boxed
  BY DEF LayInv, LayTyped
<1>2. PICK new \in {[boxes[b] EXCEPT !.look = 1 - @], [boxes[b] EXCEPT !.drawing = ~@]}
                     \cup {[boxes[b] EXCEPT !.width = w] : w \in LayWidths} :
        boxes' = [boxes EXCEPT ![b] = new]
  BY DEF Restyle
<1>3. b \in DOMAIN boxes /\ boxes[b] \in Box
  BY <1>1 DEF Boxed, Restyle
<1>4. new \in Box /\ new.order = boxes[b].order /\ (new.inPopup <=> boxes[b].inPopup)
  <2>1. CASE new = [boxes[b] EXCEPT !.look = 1 - @]
    BY <1>3, <2>1 DEF Box
  <2>2. CASE new = [boxes[b] EXCEPT !.drawing = ~@]
    BY <1>3, <2>2 DEF Box
  <2>3. CASE \E w \in LayWidths : new = [boxes[b] EXCEPT !.width = w]
    BY <1>3, <2>3 DEF Box
  <2>4. QED
    BY <1>2, <2>1, <2>2, <2>3
<1> DEFINE hung == boxes[b].inPopup
<1>5. hung \in BOOLEAN
  BY <1>3 DEF Box
<1>6. Noted(b, ~hung, hung)
  BY DEF Restyle
<1>7. /\ members' = members /\ rows' = rows /\ setting' = setting /\ hanging' = hanging /\ force' = force
      /\ placed' = placed /\ shown' = shown /\ unlisted' = unlisted
  BY DEF Restyle
<1>8. /\ Boxed' /\ DOMAIN boxes' = DOMAIN boxes /\ boxes'[b] = new
      /\ \A c \in DOMAIN boxes : c # b => boxes'[c] = boxes[c]
  BY <1>1, <1>2, <1>3, <1>4, <1>7, OneChanges DEF Boxed
<1>9. /\ touched' \in [Surface -> SUBSET All] /\ unpainted' \in [Surface -> BOOLEAN]
      /\ \A s \in Surface : touched'[s] = touched[s] \cup {b}
      /\ unpainted'.bar <=> (unpainted.bar \/ ~hung)
      /\ unpainted'.popup
  BY <1>1, <1>5, <1>6, NotedIs
<1>10. LayTyped'
  BY <1>1, <1>7, <1>8, <1>9 DEF LayTyped
<1>11. Untouched
  BY <1>8, <1>9 DEF Untouched, UntouchedOn, Still, Surface
<1>12. hung => OfBar' = OfBar /\ \A c \in OfBar : boxes'[c] = boxes[c]
  BY <1>3, <1>4, <1>8 DEF OfBar
<1>13. QED
  BY <1>7, <1>9, <1>10, <1>11, <1>12, ChangeIsKept

LEMMA PutInStep == ASSUME LayInv, NEW b \in All, NEW bucket \in LayBuckets, PutIn(b, bucket) PROVE LayInv'
<1>1. LayTyped /\ Boxed
  BY DEF LayInv, LayTyped
<1> DEFINE new == [boxes[b] EXCEPT !.at = bucket]
           hung == boxes[b].inPopup
<1>2. boxes' = [boxes EXCEPT ![b] = new]
  BY <1>1 DEF PutIn
<1>3. b \in DOMAIN boxes /\ boxes[b] \in Box
  BY <1>1 DEF Boxed, PutIn
<1>4. /\ new \in Box /\ new.order = boxes[b].order /\ (new.inPopup <=> boxes[b].inPopup)
      /\ new.width = boxes[b].width /\ new.look = boxes[b].look /\ (new.drawing <=> boxes[b].drawing)
  BY <1>3 DEF Box
<1>5. hung \in BOOLEAN
  BY <1>3 DEF Box
<1>6. Noted(b, ~hung, FALSE)
  BY DEF PutIn
<1>7. /\ members' = members /\ rows' = rows /\ setting' = setting /\ hanging' = hanging /\ force' = force
      /\ placed' = placed /\ shown' = shown /\ unlisted' = unlisted
  BY DEF PutIn
<1> HIDE DEF new
<1>8. /\ Boxed' /\ DOMAIN boxes' = DOMAIN boxes /\ boxes'[b] = new
      /\ \A c \in DOMAIN boxes : c # b => boxes'[c] = boxes[c]
  BY <1>1, <1>2, <1>3, <1>4, <1>7, OneChanges DEF Boxed
<1>9. /\ touched' \in [Surface -> SUBSET All] /\ unpainted' \in [Surface -> BOOLEAN]
      /\ \A s \in Surface : touched'[s] = touched[s] \cup {b}
      /\ unpainted'.bar <=> (unpainted.bar \/ ~hung)
      /\ unpainted'.popup <=> (unpainted.popup \/ ~hung)
      /\ hung => unpainted' = unpainted
  BY <1>1, <1>5, <1>6, NotedIs
<1>10. LayTyped'
  BY <1>1, <1>7, <1>8, <1>9 DEF LayTyped
<1>11. Untouched
  BY <1>8, <1>9 DEF Untouched, UntouchedOn, Still, Surface
<1>12. hung => OfBar' = OfBar /\ \A c \in OfBar : boxes'[c] = boxes[c]
  BY <1>3, <1>4, <1>8 DEF OfBar
<1>13. OfPopup' = OfPopup /\ \A c \in OfPopup : /\ boxes'[c].width = boxes[c].width
                                                /\ boxes'[c].order = boxes[c].order
                                                /\ boxes'[c].look = boxes[c].look
  <2>1. ASSUME NEW c \in DOMAIN boxes
        PROVE  /\ boxes'[c].inPopup <=> boxes[c].inPopup
               /\ boxes'[c].drawing <=> boxes[c].drawing
               /\ boxes'[c].width = boxes[c].width /\ boxes'[c].order = boxes[c].order
               /\ boxes'[c].look = boxes[c].look
    <3>1. CASE c = b
      BY <3>1, <1>4, <1>8
    <3>2. CASE c # b
      BY <3>2, <1>8
    <3>3. QED
      BY <3>1, <3>2
  <2>2. QED
    BY <2>1, <1>8 DEF OfPopup
<1>14. QED
  BY <1>7, <1>8, <1>9, <1>10, <1>11, <1>12, <1>13, ChangeIsKept

LEMMA SwapStep == ASSUME LayInv, NEW b \in All, NEW c \in All, Swap(b, c) PROVE LayInv'
<1>1. LayTyped /\ Boxed
  BY DEF LayInv, LayTyped
<1>2. b # c /\ b \in DOMAIN boxes /\ c \in DOMAIN boxes /\ boxes[b] \in Box /\ boxes[c] \in Box
  BY <1>1 DEF Boxed, Swap
<1> DEFINE newB == [boxes[b] EXCEPT !.order = boxes[c].order]
           newC == [boxes[c] EXCEPT !.order = boxes[b].order]
<1>3. boxes' = [boxes EXCEPT ![b].order = boxes[c].order, ![c].order = boxes[b].order]
  BY DEF Swap
<1>4. boxes'[b] = newB /\ boxes'[c] = newC
  BY <1>2, <1>3
<1>5. DOMAIN boxes' = DOMAIN boxes /\ \A i \in DOMAIN boxes \ {b, c} : boxes'[i] = boxes[i]
  BY <1>2, <1>3
<1>6. /\ newB \in Box /\ newB.order = boxes[c].order /\ (newB.inPopup <=> boxes[b].inPopup)
      /\ newC \in Box /\ newC.order = boxes[b].order /\ (newC.inPopup <=> boxes[c].inPopup)
  BY <1>2 DEF Box
<1> HIDE DEF newB, newC
<1>7. /\ members' = members /\ rows' = rows /\ setting' = setting /\ hanging' = hanging /\ force' = force
      /\ placed' = placed /\ shown' = shown /\ unlisted' = unlisted
  BY DEF Swap
<1>8. OrdersDiffer'
  <2> SUFFICES ASSUME NEW p \in DOMAIN boxes, NEW q \in DOMAIN boxes, boxes'[p].order = boxes'[q].order
               PROVE  p = q
    BY <1>5 DEF OrdersDiffer
  <2>1. \A x, y \in DOMAIN boxes : boxes[x].order = boxes[y].order => x = y
    BY <1>1 DEF Boxed, OrdersDiffer
  <2>2. boxes'[b].order = boxes[c].order /\ boxes'[c].order = boxes[b].order
    BY <1>4, <1>6
  <2>3. QED
    BY <1>2, <1>5, <2>1, <2>2
<1>9. \A i \in DOMAIN boxes : boxes'[i] \in Box /\ (boxes'[i].inPopup <=> boxes[i].inPopup)
  <2> SUFFICES ASSUME NEW i \in DOMAIN boxes
               PROVE  boxes'[i] \in Box /\ (boxes'[i].inPopup <=> boxes[i].inPopup)
    OBVIOUS
  <2>1. CASE i \in {b, c}
    BY <2>1, <1>4, <1>6
  <2>2. CASE i \notin {b, c}
    BY <2>2, <1>1, <1>5 DEF Boxed
  <2>3. QED
    BY <2>1, <2>2
<1>10. Boxed'
  BY <1>1, <1>5, <1>7, <1>8, <1>9 DEF Boxed, Box, All, Listings
<1> DEFINE ofBar == \E i \in {b, c} : ~boxes[i].inPopup
           ofPopup == \E i \in {b, c} : boxes[i].inPopup
<1>11. /\ touched' = [s \in Surface |-> touched[s] \cup {b, c}]
       /\ unpainted' = [s \in Surface |-> unpainted[s] \/ ofBar \/ (s = "popup" /\ ofPopup)]
  BY DEF Swap
<1>12. ofBar \/ ofPopup
  OBVIOUS
<1>13. ~ofBar => boxes[b].inPopup /\ boxes[c].inPopup
  OBVIOUS
<1> HIDE DEF ofBar, ofPopup
<1>14. "bar" \in Surface /\ "popup" \in Surface /\ "bar" # "popup"
  BY DEF Surface
<1>15. /\ touched' \in [Surface -> SUBSET All] /\ \A s \in Surface : touched'[s] = touched[s] \cup {b, c}
  BY <1>1, <1>11 DEF LayTyped
<1>16. unpainted' \in [Surface -> BOOLEAN]
  BY <1>1, <1>11 DEF LayTyped
<1>17. unpainted'["popup"] /\ (unpainted["bar"] \/ ofBar => unpainted'["bar"])
  BY <1>11, <1>12, <1>14
<1>18. LayTyped'
  BY <1>1, <1>7, <1>10, <1>15, <1>16 DEF LayTyped
<1>19. Untouched
  BY <1>5, <1>15 DEF Untouched, UntouchedOn, Still, Surface
<1>20. ~ofBar => OfBar' = OfBar /\ \A i \in OfBar : boxes'[i] = boxes[i]
  BY <1>2, <1>5, <1>9, <1>13 DEF OfBar
<1>21. QED
  BY <1>7, <1>17, <1>18, <1>19, <1>20, ChangeIsKept

LEMMA RehangStep == ASSUME LayInv, NEW b \in All, Rehang(b) PROVE LayInv'
<1>1. LayTyped /\ Boxed
  BY DEF LayInv, LayTyped
<1>2. b \in DOMAIN boxes /\ b \notin Brackets /\ boxes[b] \in Box
  BY <1>1 DEF Boxed, Rehang
<1> DEFINE new == [boxes[b] EXCEPT !.inPopup = ~@]
           hung == boxes[b].inPopup
<1>3. boxes' = [boxes EXCEPT ![b] = new]
  BY DEF Rehang
<1>4. new \in Box /\ new.order = boxes[b].order /\ hung \in BOOLEAN
  BY <1>2 DEF Box
<1>5. /\ members' = members /\ rows' = rows /\ setting' = setting /\ hanging' = hanging /\ force' = force
      /\ placed' = placed /\ shown' = shown
  BY DEF Rehang
<1> HIDE DEF new
<1>6. /\ Boxed' /\ DOMAIN boxes' = DOMAIN boxes /\ boxes'[b] = new
      /\ \A c \in DOMAIN boxes : c # b => boxes'[c] = boxes[c]
  BY <1>1, <1>2, <1>3, <1>4, <1>5, OneChanges
<1>7. /\ touched' = [s \in Surface |-> touched[s] \cup {b}]
      /\ unpainted' = [s \in Surface |-> unpainted[s] \/ hung]
      /\ unlisted' = [s \in Surface |-> unlisted[s] \/ ~hung]
  BY DEF Rehang
<1> HIDE DEF hung
<1>8. "bar" \in Surface /\ "popup" \in Surface
  BY DEF Surface
<1>9. /\ touched \in [Surface -> SUBSET All] /\ unpainted \in [Surface -> BOOLEAN]
      /\ unlisted \in [Surface -> BOOLEAN]
  BY <1>1 DEF LayTyped
<1>10. touched' \in [Surface -> SUBSET All] /\ \A s \in Surface : touched'[s] = touched[s] \cup {b}
  BY <1>7, <1>9
<1>11. unpainted' \in [Surface -> BOOLEAN] /\ unlisted' \in [Surface -> BOOLEAN]
  BY <1>4, <1>7, <1>9
<1>12. \A s \in Surface : /\ unpainted'[s] <=> (unpainted[s] \/ hung)
                          /\ unlisted'[s] <=> (unlisted[s] \/ ~hung)
  BY <1>7
<1>13. LayTyped'
  BY <1>1, <1>5, <1>6, <1>10, <1>11 DEF LayTyped
<1>14. Untouched
  BY <1>6, <1>10 DEF Untouched, UntouchedOn, Still, Surface
<1>15. /\ unpainted'.bar <=> (unpainted.bar \/ hung)
       /\ unpainted'.popup <=> (unpainted.popup \/ hung)
       /\ unlisted'.bar <=> (unlisted.bar \/ ~hung)
       /\ unlisted'.popup <=> (unlisted.popup \/ ~hung)
  BY <1>8, <1>12
<1>16. ~hung => unpainted' = unpainted
  BY <1>7, <1>9
<1>17. QED
  BY <1>5, <1>13, <1>14, <1>15, <1>16, ChangeIsKept

LEMMA TakeOutStep == ASSUME LayInv, NEW b \in All, TakeOut(b) PROVE LayInv'
<1>1. LayTyped /\ Boxed
  BY DEF LayInv, LayTyped
<1>2. /\ DOMAIN boxes' = DOMAIN boxes \ {b} /\ \A c \in DOMAIN boxes' : boxes'[c] = boxes[c]
  BY DEF TakeOut
<1>3. /\ members' = members /\ rows' = rows /\ setting' = setting /\ force' = force
      /\ placed' = placed /\ shown' = shown /\ unlisted' = unlisted
      /\ touched' = [s \in Surface |-> touched[s] \ {b}]
      /\ unpainted' = [s \in Surface |-> TRUE]
  BY DEF TakeOut
<1>4. hanging' \in [drawing: BOOLEAN, look: 0..1] /\ hanging'.look = hanging.look
  <2>1. hanging \in [drawing: BOOLEAN, look: 0..1]
    BY <1>1 DEF LayTyped
  <2>2. hanging' = IF b = Host THEN [hanging EXCEPT !.drawing = FALSE] ELSE hanging
    BY DEF TakeOut
  <2>3. QED
    BY <2>1, <2>2
<1>5. Boxed'
  BY <1>1, <1>2, <1>3 DEF Boxed, OrdersDiffer, Box, All, Listings
<1>6. touched' \in [Surface -> SUBSET All] /\ \A s \in Surface : touched'[s] = touched[s] \ {b}
  BY <1>1, <1>3 DEF LayTyped
<1>7. unpainted' \in [Surface -> BOOLEAN] /\ unpainted'.bar /\ unpainted'.popup
  BY <1>3 DEF Surface
<1>8. LayTyped'
  BY <1>1, <1>3, <1>4, <1>5, <1>6, <1>7 DEF LayTyped
<1>9. Untouched
  BY <1>2, <1>6 DEF Untouched, UntouchedOn, Still, Surface
<1>10. QED
  BY <1>3, <1>4, <1>7, <1>8, <1>9, ChangeIsKept

\* What no gate looks at: the members of a bracket, and how brackets are listed.
LEMMA UnlistedStep ==
  ASSUME LayInv, unlisted' = [unlisted EXCEPT !.bar = TRUE],
         members' \in [Brackets -> SUBSET Drawables], rows' \in Listings(Brackets),
         UNCHANGED <<boxes, setting, hanging, touched, unpainted, force, placed, shown>>
  PROVE  LayInv'
<1>1. LayTyped /\ Boxed
  BY DEF LayInv, LayTyped
<1>2. Boxed'
  BY <1>1 DEF Boxed, OrdersDiffer, Box, All, Listings
<1>3. /\ unlisted' \in [Surface -> BOOLEAN] /\ unlisted'.bar
      /\ unlisted'.popup = unlisted.popup
  BY <1>1 DEF LayTyped, Surface
<1>4. LayTyped'
  BY <1>1, <1>2, <1>3 DEF LayTyped
<1>5. Untouched
  BY DEF Untouched, UntouchedOn, Still, Surface
<1>6. OfPopup' = OfPopup
  BY DEF OfPopup
<1>7. QED
  BY <1>3, <1>4, <1>5, <1>6, ChangeIsKept

LEMMA SetMembersStep ==
  ASSUME LayInv, NEW b \in Brackets, NEW S \in SUBSET Drawables, SetMembers(b, S) PROVE LayInv'
<1>1. Boxed
  BY DEF LayInv, LayTyped
<1>2. members' \in [Brackets -> SUBSET Drawables] /\ rows' \in Listings(Brackets)
  BY <1>1 DEF SetMembers, Boxed
<1>3. QED
  BY <1>2, UnlistedStep DEF SetMembers

LEMMA RelistStep == ASSUME LayInv, NEW order \in Listings(Brackets), Relist(order) PROVE LayInv'
<1>1. Boxed
  BY DEF LayInv, LayTyped
<1>2. members' \in [Brackets -> SUBSET Drawables] /\ rows' \in Listings(Brackets)
  BY <1>1 DEF Relist, Boxed
<1>3. QED
  BY <1>2, UnlistedStep DEF Relist

LEMMA SetSettingStep ==
  ASSUME LayInv, NEW changed \in [hidden: BOOLEAN, look: 0..1], SetSetting(changed) PROVE LayInv'
<1>1. LayTyped /\ Boxed
  BY DEF LayInv, LayTyped
<1>2. Boxed'
  BY <1>1 DEF SetSetting, Boxed, OrdersDiffer, Box, All, Listings
<1>3. unpainted' \in [Surface -> BOOLEAN] /\ unpainted'.bar /\ unpainted'.popup
  BY DEF SetSetting, Surface
<1>4. LayTyped'
  BY <1>1, <1>2, <1>3 DEF LayTyped, SetSetting
<1>5. Untouched
  BY DEF SetSetting, Untouched, UntouchedOn, Still
<1>6. QED
  BY <1>3, <1>4, <1>5, ChangeIsKept DEF SetSetting

LEMMA SetPopupStep ==
  ASSUME LayInv, NEW changed \in [drawing: BOOLEAN, look: 0..1], SetPopup(changed) PROVE LayInv'
<1>1. LayTyped /\ Boxed
  BY DEF LayInv, LayTyped
<1>2. Boxed'
  BY <1>1 DEF SetPopup, Boxed, OrdersDiffer, Box, All, Listings
<1>3. /\ unpainted' \in [Surface -> BOOLEAN] /\ unpainted'.popup /\ (unpainted'.bar <=> unpainted.bar)
  BY <1>1 DEF SetPopup, LayTyped, Surface
<1>4. /\ unlisted' \in [Surface -> BOOLEAN] /\ (unlisted'.bar <=> unlisted.bar)
      /\ (unlisted'.popup <=> (unlisted.popup \/ hanging.look # hanging'.look))
  BY <1>1 DEF SetPopup, LayTyped, Surface
<1>5. /\ UNCHANGED <<boxes, rows, members, setting, touched, force, placed, shown>> /\ hanging' = changed
  BY DEF SetPopup
<1>6. LayTyped'
  BY <1>1, <1>2, <1>3, <1>4, <1>5 DEF LayTyped
<1>7. Untouched
  BY <1>5 DEF Untouched, UntouchedOn, Still, Surface
<1>8. OfBar' = OfBar
  BY <1>5 DEF OfBar
<1>9. QED
  BY <1>3, <1>4, <1>5, <1>6, <1>7, <1>8, ChangeIsKept

-----------------------------------------------------------------------------
\* A repaint.
NowLooks == [b \in All |-> IF b \in DOMAIN boxes THEN boxes[b].look ELSE 0]

LEMMA LooksAre ==
  ASSUME Boxed
  PROVE  NowLooks \in [All -> 0..1] /\ \A b \in DOMAIN boxes : NowLooks[b] = boxes[b].look
<1>1. \A b \in DOMAIN boxes : b \in All /\ boxes[b].look \in 0..1
  BY DEF Boxed, Box
<1>2. QED
  BY <1>1 DEF NowLooks

LEMMA ChainedDistinct == ASSUME Boxed, NEW list, Chained(list) PROVE Distinct(list)
<1> SUFFICES ASSUME NEW n \in 1..Len(list), NEW m \in 1..Len(list), list[n].id = list[m].id
             PROVE  n = m
  BY DEF Distinct
<1>1. Len(list) \in Nat /\ list[n].id \in DOMAIN boxes
  BY DEF Chained
<1>2. ASSUME NEW i \in 1..Len(list), NEW j \in 1..Len(list), i < j, list[i].id = list[j].id PROVE FALSE
  <2>1. Below(list[i].id, list[i].id) /\ list[i].id \in DOMAIN boxes
    BY <1>2 DEF Chained
  <2>2. QED
    BY <2>1, BelowOneWay
<1>3. n < m \/ m < n \/ n = m
  BY <1>1
<1>4. QED
  BY <1>2, <1>3

LEMMA StackedDistinct == ASSUME Boxed, NEW list, Stacked(list) PROVE Distinct(list)
<1> SUFFICES ASSUME NEW n \in 1..Len(list), NEW m \in 1..Len(list), list[n].id = list[m].id
             PROVE  n = m
  BY DEF Distinct
<1>1. Len(list) \in Nat /\ list[n].id \in DOMAIN boxes
  BY DEF Stacked, OfPopup
<1>2. boxes[list[n].id].order \in Nat
  BY <1>1, OrdersAre
<1>3. n < m \/ m < n \/ n = m
  BY <1>1
<1>4. QED
  BY <1>2, <1>3 DEF Stacked

LEMMA BarPaints ==
  ASSUME LayInv, ~setting.hidden, ~unlisted.bar \/ BarWhole
  PROVE  BarAfter = Full(LaidOut, setting.look)
<1>1. Boxed /\ LayTyped /\ BarShown
  BY DEF LayInv, LayTyped
<1>2. CASE BarWhole
  BY <1>2 DEF BarAfter
<1>3. CASE ~BarWhole
  <2>1. ~force /\ placed.bar.frame # <<>> /\ ~unlisted.bar
    BY <1>3 DEF BarWhole
  <2>2. PICK old : old = placed.bar.list
    OBVIOUS
  <2>3. PICK new : new = LaidOut
    OBVIOUS
  <2>4. PICK ground : ground = setting.look
    OBVIOUS
  <2>5. PICK changed : changed = touched.bar
    OBVIOUS
  <2>6. /\ Looked("bar", old, ground, shown.bar) /\ Distinct(old)
        /\ \A n, m \in 1..Len(old) :
             n < m /\ {old[n].id, old[m].id} \subseteq Still("bar") => Below(old[n].id, old[m].id)
    BY <1>1, <2>1, <2>2, <2>4 DEF BarShown
  <2>7. PICK look \in [All -> 0..1] : /\ shown.bar = Shows(old, ground, look)
                                      /\ \A b \in Still("bar") : look[b] = boxes[b].look
    BY <2>6 DEF Looked
  <2>8. Still("bar") = DOMAIN boxes \ changed
    BY <2>5 DEF Still
  <2>9. Chained(new)
    BY <1>1, <2>3, LaidIs
  <2>10. Distinct(new)
    BY <1>1, <2>9, ChainedDistinct
  <2>11. old \in Seq(PlacedRects) /\ new \in Seq(PlacedRects)
    BY <1>1, <2>2, <2>9 DEF LayTyped, Chained
  <2>12. \A n \in 1..Len(new) : /\ new[n].id \in DOMAIN boxes
                                /\ NowLooks[new[n].id] = boxes[new[n].id].look
                                /\ new[n].id \notin changed => NowLooks[new[n].id] = look[new[n].id]
    BY <1>1, <2>7, <2>8, <2>9, LooksAre DEF Chained
  <2>13. ASSUME NEW n \in 1..Len(old), NEW m \in 1..Len(old), NEW k \in 1..Len(new), NEW l \in 1..Len(new),
                n < m, old[n] = new[k], old[m] = new[l], new[k].id \notin changed, new[l].id \notin changed
         PROVE  k < l
    <3>1. new[k].id \in Still("bar") /\ new[l].id \in Still("bar")
      BY <2>8, <2>12, <2>13
    <3>2. Below(new[k].id, new[l].id)
      BY <2>6, <2>13, <3>1
    <3>3. ~Below(new[l].id, new[k].id)
      BY <1>1, <2>12, <3>2, BelowOneWay
    <3>4. ~(l < k)
      BY <2>9, <3>3 DEF Chained
    <3>5. k # l
      BY <2>6, <2>11, <2>13 DEF Distinct
    <3>6. Len(new) \in Nat
      BY <2>11
    <3>7. QED
      BY <3>4, <3>5, <3>6
  <2>14. \A n, m \in 1..Len(new) : new[n].id = new[m].id => n = m
    BY <2>10 DEF Distinct
  <2>15. Mended(Shows(old, ground, look), new, ground, Torn(old, new, changed)) = Shows(new, ground, NowLooks)
    BY <2>11, <2>12, <2>13, <2>14, Mends
  <2>16. Full(new, ground) = Shows(new, ground, NowLooks)
    BY <2>11, <2>12, FullIs
  <2>17. BarAfter = Mended(shown.bar, new, ground, Torn(old, new, changed))
    BY <1>3, <2>2, <2>3, <2>4, <2>5 DEF BarAfter
  <2>18. QED
    BY <2>3, <2>4, <2>7, <2>15, <2>16, <2>17
<1>4. QED
  BY <1>2, <1>3

LEMMA PopupPaints ==
  ASSUME LayInv, NEW barList, ~unlisted.popup \/ Hung(barList).list = <<>> \/ PopupWhole(Hung(barList))
  PROVE  PopupAfter(Hung(barList)) = HungNow(Hung(barList))
<1>1. Boxed /\ LayTyped /\ PopupShown
  BY DEF LayInv, LayTyped
<1>2. PICK hung : hung = Hung(barList)
  OBVIOUS
<1>3. Stacked(hung.list) /\ (hung.list = <<>> <=> hung.frame = <<>>)
  BY <1>1, <1>2, HungIs
<1>4. CASE hung.list = <<>> \/ PopupWhole(hung)
  BY <1>2, <1>4 DEF PopupAfter, HungNow
<1>5. CASE hung.list # <<>> /\ ~PopupWhole(hung)
  <2>1. ~unlisted.popup /\ placed.popup.frame = hung.frame /\ placed.popup.frame # <<>>
    BY <1>2, <1>3, <1>5 DEF PopupWhole
  <2>2. placed.popup.list # <<>>
    BY <1>1, <2>1 DEF PopupShown
  <2>3. PICK old : old = placed.popup.list
    OBVIOUS
  <2>4. PICK new : new = hung.list
    OBVIOUS
  <2>5. PICK ground : ground = hanging.look
    OBVIOUS
  <2>6. PICK changed : changed = touched.popup
    OBVIOUS
  <2>7. /\ Looked("popup", old, ground, shown.popup) /\ Distinct(old)
        /\ \A n, m \in 1..Len(old) :
             n < m /\ {old[n].id, old[m].id} \subseteq Still("popup") =>
               boxes[old[n].id].order < boxes[old[m].id].order
    BY <1>1, <2>1, <2>2, <2>3, <2>5 DEF PopupShown
  <2>8. PICK look \in [All -> 0..1] : /\ shown.popup = Shows(old, ground, look)
                                      /\ \A b \in Still("popup") : look[b] = boxes[b].look
    BY <2>7 DEF Looked
  <2>9. Still("popup") = DOMAIN boxes \ changed
    BY <2>6 DEF Still
  <2>10. Stacked(new) /\ Distinct(new)
    BY <1>1, <1>3, <2>4, StackedDistinct
  <2>11. old \in Seq(PlacedRects) /\ new \in Seq(PlacedRects)
    BY <1>1, <2>3, <2>10 DEF LayTyped, Stacked
  <2>12. \A n \in 1..Len(new) : /\ new[n].id \in DOMAIN boxes
                                /\ NowLooks[new[n].id] = boxes[new[n].id].look
                                /\ new[n].id \notin changed => NowLooks[new[n].id] = look[new[n].id]
    BY <1>1, <2>8, <2>9, <2>10, LooksAre DEF Stacked, OfPopup
  <2>13. ASSUME NEW n \in 1..Len(old), NEW m \in 1..Len(old), NEW k \in 1..Len(new), NEW l \in 1..Len(new),
                n < m, old[n] = new[k], old[m] = new[l], new[k].id \notin changed, new[l].id \notin changed
         PROVE  k < l
    <3>1. new[k].id \in Still("popup") /\ new[l].id \in Still("popup")
      BY <2>9, <2>12, <2>13
    <3>2. boxes[new[k].id].order < boxes[new[l].id].order
      BY <2>7, <2>13, <3>1
    <3>3. boxes[new[k].id].order \in Nat /\ boxes[new[l].id].order \in Nat
      BY <1>1, <2>12, OrdersAre
    <3>4. ~(l < k)
      BY <2>10, <3>2, <3>3 DEF Stacked
    <3>5. k # l
      BY <3>2, <3>3
    <3>6. Len(new) \in Nat
      BY <2>11
    <3>7. QED
      BY <3>4, <3>5, <3>6
  <2>14. \A n, m \in 1..Len(new) : new[n].id = new[m].id => n = m
    BY <2>10 DEF Distinct
  <2>15. Mended(Shows(old, ground, look), new, ground, Torn(old, new, changed)) = Shows(new, ground, NowLooks)
    BY <2>11, <2>12, <2>13, <2>14, Mends
  <2>16. Full(new, ground) = Shows(new, ground, NowLooks)
    BY <2>11, <2>12, FullIs
  <2>17. PopupAfter(hung) = Mended(shown.popup, new, ground, Torn(old, new, changed))
    BY <1>5, <2>3, <2>4, <2>5, <2>6 DEF PopupAfter
  <2>18. HungNow(hung) = Full(new, ground)
    BY <1>5, <2>4, <2>5 DEF HungNow
  <2>19. QED
    BY <1>2, <2>8, <2>15, <2>16, <2>17, <2>18
<1>6. QED
  BY <1>4, <1>5

\* A surface that has just been drawn shows what there is, as it looks.
LEMMA DrawnNow ==
  ASSUME Boxed, NEW list \in Seq(PlacedRects), \A n \in 1..Len(list) : list[n].id \in DOMAIN boxes,
         boxes' = boxes, NEW s \in Surface, NEW ground
  PROVE  Looked(s, list, ground, Full(list, ground))'
<1>1. NowLooks \in [All -> 0..1] /\ \A b \in DOMAIN boxes : NowLooks[b] = boxes[b].look
  BY LooksAre
<1>2. PICK look : look = NowLooks
  OBVIOUS
<1>3. Full(list, ground) = Shows(list, ground, look)
  BY <1>1, <1>2, FullIs
<1>4. Full(list, ground)' = Full(list, ground)
  BY FullKept
<1>5. Shows(list, ground, look)' = Shows(list, ground, look)
  BY DEF Shows, DrawnIn, Columns
<1>6. \A b \in Still(s)' : look[b] = boxes'[b].look
  BY <1>1, <1>2 DEF Still
<1>7. QED
  BY <1>1, <1>2, <1>3, <1>4, <1>5, <1>6 DEF Looked, All

LEMMA PaintStep == ASSUME LayInv, PresentFrame PROVE LayInv'
<1> DEFINE barList == IF unpainted.bar THEN BarNow ELSE placed.bar
           hung == Hung(barList.list)
<1>1. LayTyped /\ Boxed /\ BarShown /\ PopupShown /\ BarRests /\ PopupRests
  BY DEF LayInv, LayTyped
<1>2. Paint(barList, hung, unpainted)
  BY DEF PresentFrame
<1> HIDE DEF hung, barList
<1>3. /\ placed' = [bar |-> barList, popup |-> hung]
      /\ shown' = [bar |-> IF unpainted.bar THEN BarAfter ELSE shown.bar, popup |-> PopupAfter(hung)]
      /\ touched' = [bar |-> IF unpainted.bar THEN {} ELSE touched.bar, popup |-> {}]
      /\ force' = (force /\ ~unpainted.bar)
      /\ unlisted' = [bar |-> unlisted.bar /\ ~(unpainted.bar /\ BarWhole),
                       popup |-> unlisted.popup /\ hung.list # <<>> /\ ~PopupWhole(hung)]
      /\ unpainted' = [s \in Surface |-> FALSE]
      /\ boxes' = boxes /\ rows' = rows /\ members' = members /\ setting' = setting /\ hanging' = hanging
  BY <1>2 DEF Paint
<1>4. Surface = {"bar", "popup"} /\ "bar" \in Surface /\ "popup" \in Surface
  BY DEF Surface
<1>5. Boxed'
  BY <1>1, <1>3 DEF Boxed, OrdersDiffer, Box, All, Listings
<1>6. Chained(LaidOut) /\ Distinct(LaidOut)
  BY <1>1, LaidIs, ChainedDistinct
<1>7. Stacked(hung.list) /\ Distinct(hung.list) /\ (hung.list = <<>> <=> hung.frame = <<>>)
  BY <1>1, HungIs, StackedDistinct DEF hung
<1>8. unpainted.bar => /\ setting.hidden => barList.list = <<>> /\ barList.frame = <<>>
                       /\ ~setting.hidden => barList.list = LaidOut
  BY DEF barList, BarNow, Nowhere
<1>9. barList.list \in Seq(PlacedRects)
  <2>1. CASE unpainted.bar
    <3>1. <<>> \in Seq(PlacedRects) /\ LaidOut \in Seq(PlacedRects)
      BY <1>6 DEF Chained
    <3>2. setting.hidden \in BOOLEAN
      BY <1>1 DEF LayTyped
    <3>3. QED
      BY <1>8, <2>1, <3>1, <3>2
  <2>2. CASE ~unpainted.bar
    BY <1>1, <2>2 DEF LayTyped, barList
  <2>3. QED
    BY <2>1, <2>2
<1>10. LayTyped'
  <2>1. placed'.bar.list \in Seq(PlacedRects) /\ placed'.popup.list \in Seq(PlacedRects)
    BY <1>3, <1>7, <1>9 DEF Stacked
  <2>2. touched' \in [Surface -> SUBSET All]
    BY <1>1, <1>3, <1>4 DEF LayTyped
  <2>3. unpainted' \in [Surface -> BOOLEAN]
    BY <1>3
  <2>4. unlisted' \in [Surface -> BOOLEAN]
    <3> DEFINE ofBar == unlisted.bar /\ ~(unpainted.bar /\ BarWhole)
               ofPopup == unlisted.popup /\ hung.list # <<>> /\ ~PopupWhole(hung)
    <3>1. unlisted' = [bar |-> ofBar, popup |-> ofPopup] /\ ofBar \in BOOLEAN /\ ofPopup \in BOOLEAN
      BY <1>3
    <3> HIDE DEF ofBar, ofPopup
    <3>2. QED
      BY <1>4, <3>1
  <2>5. force' \in BOOLEAN
    BY <1>3
  <2>6. QED
    BY <1>1, <1>3, <1>5, <2>1, <2>2, <2>3, <2>4, <2>5 DEF LayTyped
<1>11. PICK ground : ground = setting.look
  OBVIOUS
<1>12. ASSUME unpainted.bar, ~setting.hidden, ~unlisted'.bar
       PROVE  /\ barList.list = LaidOut /\ shown'.bar = Full(LaidOut, ground)
              /\ Full(LaidOut, setting.look)' = Full(LaidOut, ground)
  <2>1. BarAfter = Full(LaidOut, setting.look)
    <3>1. ~unlisted.bar \/ BarWhole
      BY <1>3, <1>12
    <3>2. QED
      BY <1>12, <3>1, BarPaints
  <2>2. shown'.bar = Full(LaidOut, ground)
    BY <1>3, <1>11, <1>12, <2>1
  <2>3. LaidOut' = LaidOut
    BY <1>1, <1>3, <1>5, BarKept DEF OfBar
  <2>4. PICK list : list = LaidOut
    OBVIOUS
  <2>5. Full(list, ground)' = Full(list, ground)
    BY <1>3, FullKept
  <2>6. Full(LaidOut, setting.look)' = Full(list, ground)'
    BY <1>3, <1>11, <2>3, <2>4
  <2>7. QED
    BY <1>8, <1>12, <2>2, <2>4, <2>5, <2>6
<1>13. BarRests'
  <2>1. CASE unpainted.bar
    BY <1>3, <1>12, <2>1 DEF BarRests
  <2>2. CASE ~unpainted.bar
    <3>1. shown'.bar = shown.bar /\ (unlisted.bar => unlisted'.bar) /\ OfBar' = OfBar
      BY <1>3, <2>2 DEF OfBar
    <3>2. QED
      BY <1>1, <1>3, <1>5, <2>2, <3>1, BarRestsKept
  <2>3. QED
    BY <2>1, <2>2
<1>14. BarShown'
  <2>1. CASE ~unpainted.bar
    <3>1. /\ placed'.bar = placed.bar /\ shown'.bar = shown.bar /\ touched'.bar = touched.bar
          /\ (force => force') /\ (unlisted.bar => unlisted'.bar)
      BY <1>3, <2>1 DEF barList
    <3>2. UntouchedOn("bar")
      BY <1>3, <3>1 DEF UntouchedOn, Still
    <3>3. QED
      BY <1>1, <1>3, <3>1, <3>2, BarShownKept
  <2>2. CASE unpainted.bar /\ setting.hidden
    <3>1. placed'.bar.frame = <<>>
      BY <1>3, <1>8, <2>2
    <3>2. QED
      BY <3>1 DEF BarShown
  <2>3. CASE unpainted.bar /\ ~setting.hidden
    <3> SUFFICES ASSUME ~unlisted'.bar
                 PROVE  /\ Looked("bar", placed.bar.list, setting.look, shown.bar)'
                        /\ Distinct(placed.bar.list)'
                        /\ \A n, m \in 1..Len(placed'.bar.list) :
                             n < m /\ {placed'.bar.list[n].id, placed'.bar.list[m].id} \subseteq Still("bar")' =>
                                 Below(placed.bar.list[n].id, placed.bar.list[m].id)'
      BY DEF BarShown
    <3>1. PICK list : list = LaidOut
      OBVIOUS
    <3>2. placed'.bar.list = list /\ shown'.bar = Full(list, ground) /\ setting'.look = ground
      BY <1>3, <1>11, <1>12, <2>3, <3>1
    <3>3. /\ list \in Seq(PlacedRects) /\ Distinct(list) /\ \A n \in 1..Len(list) : list[n].id \in DOMAIN boxes
          /\ \A n, m \in 1..Len(list) : n < m => Below(list[n].id, list[m].id)
      BY <1>6, <3>1 DEF Chained
    <3>4. Looked("bar", list, ground, Full(list, ground))'
      BY <1>1, <1>3, <1>4, <3>3, DrawnNow
    <3>5. Full(list, ground)' = Full(list, ground)
      BY <1>3, FullKept
    <3>6. Looked("bar", placed.bar.list, setting.look, shown.bar)'
      BY <3>2, <3>4, <3>5
    <3>7. Distinct(placed.bar.list)'
      BY <3>2, <3>3 DEF Distinct
    <3>8. \A p, q : Below(p, q)' <=> Below(p, q)
      BY <1>3 DEF Below, Over, Listed, Earlier, Rank, FromRight
    <3>9. \A n, m \in 1..Len(list) : n < m => Below(list[n].id, list[m].id)'
      BY <3>3, <3>8
    <3>10. \A n, m \in 1..Len(placed'.bar.list) :
             n < m => Below(placed.bar.list[n].id, placed.bar.list[m].id)'
      BY <3>2, <3>9
    <3>11. QED
      BY <3>6, <3>7, <3>10
  <2>4. QED
    BY <2>1, <2>2, <2>3
<1>15. PICK base : base = hanging.look
  OBVIOUS
<1>16. PICK over : over = hung.list
  OBVIOUS
<1>17. Full(over, base)' = Full(over, base)
  BY <1>3, FullKept
<1>18. ~unlisted'.popup => shown'.popup = HungNow(hung)
  <2> SUFFICES ASSUME ~unlisted'.popup PROVE PopupAfter(hung) = HungNow(hung)
    BY <1>3
  <2>1. ~unlisted.popup \/ hung.list = <<>> \/ PopupWhole(hung)
    BY <1>3
  <2>2. QED
    BY <2>1, PopupPaints DEF hung
<1>19. PopupShown'
  <2>1. placed'.popup.list = <<>> => placed'.popup.frame = <<>>
    BY <1>3, <1>7
  <2> SUFFICES ASSUME ~unlisted'.popup, placed'.popup.list # <<>>
               PROVE  /\ Looked("popup", placed.popup.list, hanging.look, shown.popup)'
                      /\ Distinct(placed.popup.list)'
                      /\ \A n, m \in 1..Len(placed'.popup.list) : n < m =>
                           boxes'[placed'.popup.list[n].id].order < boxes'[placed'.popup.list[m].id].order
    BY <2>1 DEF PopupShown
  <2>2. placed'.popup.list = over /\ shown'.popup = Full(over, base) /\ hanging'.look = base
    BY <1>3, <1>15, <1>16, <1>18 DEF HungNow
  <2>3. /\ over \in Seq(PlacedRects) /\ Distinct(over) /\ \A n \in 1..Len(over) : over[n].id \in DOMAIN boxes
        /\ \A n, m \in 1..Len(over) : n < m => boxes[over[n].id].order < boxes[over[m].id].order
    BY <1>7, <1>16 DEF Stacked, OfPopup
  <2>4. Looked("popup", over, base, Full(over, base))'
    BY <1>1, <1>3, <1>4, <2>3, DrawnNow
  <2>5. Looked("popup", placed.popup.list, hanging.look, shown.popup)'
    BY <1>17, <2>2, <2>4
  <2>6. Distinct(placed.popup.list)'
    BY <2>2, <2>3 DEF Distinct
  <2>7. \A n, m \in 1..Len(placed'.popup.list) : n < m =>
          boxes'[placed'.popup.list[n].id].order < boxes'[placed'.popup.list[m].id].order
    BY <1>3, <2>2, <2>3
  <2>8. QED
    BY <2>5, <2>6, <2>7
<1>20. PopupRests'
  <2>1. ~unpainted'.bar
    BY <1>3, <1>4
  <2> SUFFICES ASSUME ~unlisted'.popup
               PROVE  shown'.popup = HungNow(Hung(placed.bar.list))'
    BY <2>1 DEF PopupRests
  <2>2. PICK list : list = barList.list
    OBVIOUS
  <2>3. Hung(list)' = Hung(list)
    BY <1>1, <1>3, <1>5, PopupKept DEF OfPopup
  <2>4. Hung(list) = hung
    BY <2>2 DEF hung
  <2>5. placed'.bar.list = list
    BY <1>3, <2>2
  <2>6. PICK now : now = hung
    OBVIOUS
  <2>7. HungNow(now)' = HungNow(now)
    BY <1>3, <1>15, <1>16, <1>17, <2>6 DEF HungNow
  <2>8. HungNow(Hung(placed.bar.list))' = HungNow(now)'
    BY <2>3, <2>4, <2>5, <2>6
  <2>9. QED
    BY <1>18, <2>6, <2>7, <2>8
<1>21. QED
  BY <1>10, <1>13, <1>14, <1>19, <1>20 DEF LayInv

LEMMA LayStays == LayInv /\ [LayoutNext]_layoutVars => LayInv'
<1> SUFFICES ASSUME LayInv, [LayoutNext]_layoutVars PROVE LayInv'
  OBVIOUS
<1>1. ASSUME NEW b \in All, Restyle(b) PROVE LayInv'
  BY <1>1, RestyleStep
<1>2. ASSUME NEW b \in All, Rehang(b) PROVE LayInv'
  BY <1>2, RehangStep
<1>3. ASSUME NEW b \in All, TakeOut(b) PROVE LayInv'
  BY <1>3, TakeOutStep
<1>4. ASSUME NEW b \in All, NEW bucket \in LayBuckets, PutIn(b, bucket) PROVE LayInv'
  BY <1>4, PutInStep
<1>5. ASSUME NEW b \in All, NEW c \in All, Swap(b, c) PROVE LayInv'
  BY <1>5, SwapStep
<1>6. ASSUME NEW b \in Brackets, NEW S \in SUBSET Drawables, SetMembers(b, S) PROVE LayInv'
  BY <1>6, SetMembersStep
<1>7. ASSUME NEW order \in Listings(Brackets), Relist(order) PROVE LayInv'
  BY <1>7, RelistStep
<1>8. ASSUME NEW h \in BOOLEAN, NEW l \in 0..1, SetSetting([hidden |-> h, look |-> l]) PROVE LayInv'
  BY <1>8, SetSettingStep
<1>9. ASSUME NEW h \in BOOLEAN, NEW l \in 0..1, SetPopup([drawing |-> h, look |-> l]) PROVE LayInv'
  BY <1>9, SetPopupStep
<1>10. ASSUME PresentFrame PROVE LayInv'
  BY <1>10, PaintStep
<1>11. ASSUME UNCHANGED layoutVars PROVE LayInv'
  <2>1. UNCHANGED <<boxes, members, rows, setting, hanging, touched, unpainted, force, placed, shown, unlisted>>
    BY <1>11 DEF layoutVars
  <2>2. Boxed /\ LayTyped
    BY DEF LayInv, LayTyped
  <2>3. Boxed'
    BY <2>1, <2>2 DEF Boxed, OrdersDiffer, Box, All, Listings
  <2>4. LayTyped'
    BY <2>1, <2>2, <2>3 DEF LayTyped
  <2>5. Untouched /\ OfBar' = OfBar /\ OfPopup' = OfPopup
    BY <2>1 DEF Untouched, UntouchedOn, Still, OfBar, OfPopup
  <2>6. QED
    BY <2>1, <2>4, <2>5, ChangeIsKept
<1>12. QED
  BY <1>1, <1>2, <1>3, <1>4, <1>5, <1>6, <1>7, <1>8, <1>9, <1>10, <1>11 DEF LayoutNext

\* Whatever changes, in whatever order and however many to a repaint, a repaint
\* that draws no more than what it thought had changed leaves the bar and the
\* popup as if all of them had been drawn (layout.rs `damage`, `draw_damaged`).
THEOREM ScreenIsCurrent == LayoutSpec => []ShowsWhatIsThere
<1>1. LayInv => ShowsWhatIsThere
  BY DEF LayInv, ShowsWhatIsThere, BarRests, PopupRests, HungNow
<1>2. QED
  BY <1>1, LayStarts, LayStays, PTL DEF LayoutSpec

\* A change made is counted, and a popup is placed if it is shown.
LayRest ==
  /\ restyled \in 0..MaxRestyles
  /\ placed.popup.list # <<>> <=> shown.popup # <<>>

\* What is placed, and what is mended of it, is something.
LEMMA FullIsThere == ASSUME NEW list, NEW ground PROVE Full(list, ground) # <<>>
<1>1. 0 \in DOMAIN Full(list, ground)
  BY GeometryAssumption DEF Full
<1>2. QED
  BY <1>1

LEMMA MendedIsThere == ASSUME NEW p, NEW list, NEW ground, NEW into PROVE Mended(p, list, ground, into) # <<>>
<1>1. 0 \in DOMAIN Mended(p, list, ground, into)
  BY GeometryAssumption DEF Mended
<1>2. QED
  BY <1>1

LEMMA LayRestStart == LayoutInit => LayRest
BY LayoutAssumption DEF LayoutInit, LayRest, Nowhere, Surface

\* Whatever is restyled, hung or laid out, that is so.
LEMMA LayRestStep == LayRest /\ [LayoutNext]_layoutVars => LayRest'
<1> SUFFICES ASSUME LayRest, [LayoutNext]_layoutVars PROVE LayRest'
  OBVIOUS
<1>1. MayRestyle => restyled' \in 0..MaxRestyles
  BY LayoutAssumption DEF MayRestyle, LayRest
<1>2. CASE MayRestyle /\ UNCHANGED <<placed, shown>>
  BY <1>1, <1>2 DEF LayRest
<1>3. CASE PresentFrame
  <2>1. PICK strip, popup : Paint(strip, popup, unpainted)
    BY <1>3 DEF PresentFrame
  <2>2. placed'.popup = popup /\ shown'.popup = PopupAfter(popup) /\ restyled' = restyled
    BY <2>1 DEF Paint
  <2>3. popup.list # <<>> <=> PopupAfter(popup) # <<>>
    BY FullIsThere, MendedIsThere DEF PopupAfter
  <2>4. QED
    BY <2>2, <2>3 DEF LayRest
<1>4. CASE UNCHANGED layoutVars
  BY <1>4 DEF layoutVars, LayRest
<1>5. QED
  BY <1>2, <1>3, <1>4 DEF LayoutNext, Restyle, Rehang, TakeOut, PutIn, Swap, SetMembers, Relist, SetSetting, SetPopup

\* With the invariant of the layout, it is all of the layout's type.
LEMMA LayIsTyped == LayInv /\ LayRest => LayoutTypeOK
<1> SUFFICES ASSUME LayInv, LayRest PROVE LayoutTypeOK
  OBVIOUS
<1>1. LayTyped /\ Boxed
  BY DEF LayInv, LayTyped
<1>2. ASSUME NEW s \in Surface, NEW r \in Range(placed[s].list) PROVE r.id \in All /\ {r.x, r.width} \subseteq Int
  <2>1. placed[s].list \in Seq(PlacedRects)
    BY <1>1 DEF Surface, LayTyped
  <2>2. r \in PlacedRects
    BY <1>2, <2>1 DEF Range
  <2>3. QED
    BY <2>2 DEF PlacedRects
<1>3. QED
  BY <1>1, <1>2 DEF LayTyped, Boxed, LayRest, LayoutTypeOK
=============================================================================
