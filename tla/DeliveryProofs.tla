--------------------------- MODULE DeliveryProofs ---------------------------
(***************************************************************************)
(* Theorems about Delivery, for any sources, drain budget and interests: an *)
(* event in a live feed has a drain coming; every event is in one place, in *)
(* order behind those before it and counted; and none is lost on its way.  *)
(***************************************************************************)
EXTENDS Delivery, SequenceTheorems, TLAPS

\* A feed that is not there holds nothing, so one that is started has nothing
\* behind it that nobody announced.
Closed == \A s \in Source \ up : queue[s] = <<>>

\* The inductive invariant.
IInv ==
  /\ DOMAIN queue = Source /\ DOMAIN producer = Source /\ up \subseteq Source
  /\ holds \subseteq Source /\ Closed /\ NoStrandedEvent

-----------------------------------------------------------------------------
\* What happens to the sources and their feeds outside a pass.
LEMMA EmittingStep ==
  ASSUME IInv, NEW t \in Source, Emitting(t)
  PROVE  IInv'
<1>1. CASE Emit(t)
  BY <1>1 DEF Emit, passVars, itemVars, IInv, Closed, NoStrandedEvent
<1>2. CASE FlagReady(t)
  <2>1. /\ UNCHANGED <<up, queue, owed, holds, stage, todo, left, turn>>
        /\ ready' = ready \cup {t} /\ producer' = [producer EXCEPT ![t] = "flagged"]
    BY <1>2 DEF FlagReady, passVars, itemVars
  <2>2. \A s \in Source : producer[s] = "flagged" => producer'[s] = "flagged"
    BY <2>1 DEF IInv
  <2>3. QED
    BY <2>1, <2>2 DEF IInv, Closed, NoStrandedEvent
<1>3. CASE WakeApp(t)
  BY <1>3 DEF WakeApp, passVars, itemVars, IInv, Closed, NoStrandedEvent
<1>4. QED
  BY <1>1, <1>2, <1>3 DEF Emitting

\* What a pass does to them: the ready set is spent before the feeds are looked
\* at, and what is left in them is announced again.
LEMMA PassKeeps ==
  ASSUME IInv, PassStep
  PROVE  IInv'
<1>1. CASE BeginDrain
  BY <1>1 DEF BeginDrain, emitVars, itemVars, IInv, Closed, NoStrandedEvent
<1>2. ASSUME NEW t \in Source, VisitFeed(t) PROVE IInv'
  <2>1. /\ UNCHANGED <<up, holds, ready, owed, stage, left, producer>>
        /\ todo' = todo \ {t} /\ turn' = t /\ stage = "draining" /\ turn = None /\ t \in todo
        /\ DOMAIN queue' = Source /\ \A s \in Source \ {t} : queue'[s] = queue[s]
    BY <1>2 DEF VisitFeed, emitVars, itemVars, IInv
  <2>2. None \notin Source
    BY DeliveryAssumption DEF None
  <2>3. ASSUME NEW s \in up, queue'[s] # <<>>
        PROVE  \/ producer[s] = "queued"
               \/ s \in ready /\ (owed \/ \E u \in Source : producer[u] = "flagged")
               \/ s \in todo' \cup left \cup {turn'}
    <3>1. CASE s = t
      BY <2>1, <3>1
    <3>2. CASE s # t
      BY <2>1, <2>2, <2>3, <3>2 DEF IInv, NoStrandedEvent
    <3>3. QED
      BY <3>1, <3>2
  <2>4. ASSUME NEW s \in Source, s \notin up PROVE queue'[s] = <<>>
    <3>1. queue[s] = <<>>
      BY <2>4 DEF IInv, Closed
    <3>2. CASE s = t
      <4>1. queue'[t] = SubSeq(queue[t], HandedOver(t) + 1, Len(queue[t]))
        BY <1>2 DEF VisitFeed, IInv
      <4>2. HandedOver(t) = 0 /\ Len(queue[t]) = 0
        BY <3>1, <3>2, DeliveryAssumption DEF HandedOver
      <4>3. QED
        BY <3>1, <3>2, <4>1, <4>2
    <3>3. QED
      BY <2>1, <3>1, <3>2
  <2>5. NoStrandedEvent'
    BY <2>1, <2>3 DEF NoStrandedEvent
  <2>6. QED
    BY <2>1, <2>4, <2>5 DEF IInv, Closed
<1>3. CASE LeaveFeed
  BY <1>3 DEF LeaveFeed, Backlogged, emitVars, feedVars, itemVars, IInv, Closed, NoStrandedEvent
<1>4. CASE EndDrain
  <2>1. /\ UNCHANGED <<up, holds, queue, producer>> /\ todo = {} /\ turn = None
        /\ ready' = ready \cup left /\ owed' = (owed \/ left # {})
    BY <1>4 DEF EndDrain, emitVars, itemVars
  <2>2. None \notin Source
    BY DeliveryAssumption DEF None
  <2>3. up \subseteq Source
    BY DEF IInv
  <2>4. ASSUME NEW s \in up, queue[s] # <<>>
        PROVE  \/ producer[s] = "queued"
               \/ s \in ready' /\ (owed' \/ \E u \in Source : producer[u] = "flagged")
    <3>1. CASE s \in left
      BY <2>1, <3>1
    <3>2. CASE s \notin left
      BY <2>1, <2>2, <2>3, <2>4, <3>2 DEF IInv, NoStrandedEvent
    <3>3. QED
      BY <3>1, <3>2
  <2>5. NoStrandedEvent'
    BY <2>1, <2>4 DEF NoStrandedEvent
  <2>6. QED
    BY <2>1, <2>5 DEF IInv, Closed
<1>5. CASE Flush
  BY <1>5 DEF Flush, emitVars, feedVars, itemVars, IInv, Closed, NoStrandedEvent
<1>6. CASE Ignore \/ RunScript
  BY <1>6 DEF Ignore, RunScript, emitVars, feedVars, itemVars, IInv, Closed, NoStrandedEvent
<1>7. CASE Count \/ QueueForPort \/ Refused
  BY <1>7 DEF Count, QueueForPort, Refused, emitVars, feedVars, itemVars, IInv, Closed, NoStrandedEvent
<1>8. CASE Settle
  <2>1. PICK gone \in SUBSET (up \ holds) :
          /\ up' = (up \cup holds) \ gone
          /\ queue' = [s \in Source |-> IF s \in gone THEN <<>> ELSE queue[s]]
    BY <1>8 DEF Settle
  <2>2. UNCHANGED <<producer, holds, ready, owed>> /\ stage = "dispatching"
    BY <1>8 DEF Settle, emitVars, itemVars
  <2>3. \A s \in Source : s \notin up' => queue'[s] = <<>>
    BY <2>1 DEF IInv, Closed
  <2>4. \A s \in Source : queue'[s] # <<>> => s \in up /\ queue'[s] = queue[s]
    BY <2>1 DEF IInv, Closed
  <2>5. ASSUME NEW s \in up', queue'[s] # <<>>
        PROVE  \/ producer[s] = "queued"
               \/ s \in ready /\ (owed \/ \E u \in Source : producer[u] = "flagged")
    <3>1. s \in Source /\ holds \subseteq Source
      BY <2>1 DEF IInv
    <3>2. s \in up /\ queue[s] # <<>>
      BY <2>4, <2>5, <3>1
    <3>3. QED
      BY <2>2, <3>2 DEF IInv, NoStrandedEvent
  <2>6. NoStrandedEvent'
    BY <2>2, <2>5 DEF NoStrandedEvent
  <2>7. up' \subseteq Source
    BY <2>1 DEF IInv
  <2>8. QED
    BY <2>1, <2>2, <2>3, <2>6, <2>7 DEF IInv, Closed
<1>9. QED
  BY <1>1, <1>2, <1>3, <1>4, <1>5, <1>6, <1>7, <1>8 DEF PassStep

\* Behind every event that waits in a live feed there is a drain: the bit and
\* the wake that `Emitter::send` leaves, whenever it is interrupted and wherever
\* the pass is, lead to one, and so do the feeds a drain stops short of.
THEOREM EventsComing == DeliverySpec => []NoStrandedEvent
<1>1. DeliveryInit => IInv
  BY DEF DeliveryInit, IInv, Closed, NoStrandedEvent
<1>2. IInv /\ [DeliveryNext]_deliveryVars => IInv'
  <2> SUFFICES ASSUME IInv, [DeliveryNext]_deliveryVars PROVE IInv'
    OBVIOUS
  <2>1. CASE PassElsewhere
    BY <2>1 DEF PassElsewhere, emitVars, passVars, itemVars, IInv, Closed, NoStrandedEvent
  <2>2. CASE PassStep
    BY <2>2, PassKeeps
  <2>3. ASSUME NEW s \in Source, Emitting(s) PROVE IInv'
    BY <2>3, EmittingStep
  <2>4. ASSUME NEW kinds \in Interests, NEW attach \in BOOLEAN, Subscribe(kinds, attach)
        PROVE  IInv'
    BY <2>4, DeliveryAssumption DEF Subscribe, emitVars, feedVars, passVars, IInv, Closed, NoStrandedEvent
  <2>5. ASSUME NEW p \in Port, Task(p) \/ ClientExits(p) PROVE IInv'
    <3>1. UNCHANGED <<emitVars, feedVars, passVars, itemVars>>
      BY <2>5 DEF Task, Recv, HandOver, SendFails, FindGone, ClientExits
    <3>2. QED
      BY <3>1 DEF emitVars, feedVars, passVars, itemVars, IInv, Closed, NoStrandedEvent
  <2>6. CASE UNCHANGED deliveryVars
    BY <2>6 DEF deliveryVars, emitVars, feedVars, passVars, itemVars, IInv, Closed, NoStrandedEvent
  <2>7. QED
    BY <2>1, <2>2, <2>3, <2>4, <2>5, <2>6 DEF DeliveryNext
<1>3. IInv => NoStrandedEvent
  BY DEF IInv
<1>4. QED
  BY <1>1, <1>2, <1>3, PTL DEF DeliverySpec

-----------------------------------------------------------------------------
(* Sequences of events.                                                     *)

Once(q) == \A i, j \in DOMAIN q : q[i].nr = q[j].nr => i = j

\* Nothing in r has happened before anything of the same source in q.
Ahead(q, r) == \A i \in DOMAIN q, j \in DOMAIN r : q[i].from = r[j].from => q[i].nr < r[j].nr

Apart(q, r) == Numbers(q) \cap Numbers(r) = {}

AllFrom(q, s) == \A i \in DOMAIN q : q[i].from = s

\* What one sequence after another has, and when it is in order and has nothing
\* twice.
LEMMA Concat ==
  ASSUME NEW q \in Seq(Event), NEW r \in Seq(Event)
  PROVE  /\ q \o r \in Seq(Event)
         /\ Numbers(q \o r) = Numbers(q) \cup Numbers(r)
         /\ InOrder(q \o r) <=> InOrder(q) /\ InOrder(r) /\ Ahead(q, r)
         /\ Once(q \o r) <=> Once(q) /\ Once(r) /\ Apart(q, r)
<1> DEFINE c == q \o r
<1>1. /\ c \in Seq(Event) /\ Len(c) = Len(q) + Len(r)
      /\ Len(q) \in Nat /\ Len(r) \in Nat
      /\ DOMAIN c = 1 .. Len(c) /\ DOMAIN q = 1 .. Len(q) /\ DOMAIN r = 1 .. Len(r)
  OBVIOUS
<1>2. /\ \A i \in DOMAIN q : i \in DOMAIN c /\ c[i] = q[i]
      /\ \A j \in DOMAIN r : Len(q) + j \in DOMAIN c /\ c[Len(q) + j] = r[j]
  BY <1>1
<1>3. \A k \in DOMAIN c : \/ k \in DOMAIN q
                          \/ k - Len(q) \in DOMAIN r /\ k = Len(q) + (k - Len(q))
  BY <1>1
<1>4. Numbers(c) = Numbers(q) \cup Numbers(r)
  <2>1. Numbers(c) \subseteq Numbers(q) \cup Numbers(r)
    BY <1>2, <1>3 DEF Numbers
  <2>2. Numbers(q) \subseteq Numbers(c) /\ Numbers(r) \subseteq Numbers(c)
    BY <1>2 DEF Numbers
  <2>3. QED
    BY <2>1, <2>2
<1>5. ASSUME InOrder(c) PROVE InOrder(q) /\ InOrder(r) /\ Ahead(q, r)
  <2>1. \A i, j \in DOMAIN r : i < j => Len(q) + i < Len(q) + j
    BY <1>1
  <2>2. \A i \in DOMAIN q, j \in DOMAIN r : i < Len(q) + j
    BY <1>1
  <2>3. InOrder(q)
    BY <1>2, <1>5 DEF InOrder
  <2>4. InOrder(r)
    BY <1>2, <1>5, <2>1 DEF InOrder
  <2>5. Ahead(q, r)
    BY <1>2, <1>5, <2>2 DEF InOrder, Ahead
  <2>6. QED
    BY <2>3, <2>4, <2>5
<1>6. ASSUME InOrder(q), InOrder(r), Ahead(q, r) PROVE InOrder(c)
  <2> SUFFICES ASSUME NEW i \in DOMAIN c, NEW j \in DOMAIN c, i < j, c[i].from = c[j].from
               PROVE  c[i].nr < c[j].nr
    BY DEF InOrder
  <2>1. CASE i \in DOMAIN q /\ j \in DOMAIN q
    BY <1>2, <1>6, <2>1 DEF InOrder
  <2>2. CASE i \in DOMAIN q /\ j - Len(q) \in DOMAIN r
    BY <1>2, <1>3, <1>6, <2>2 DEF Ahead
  <2>3. CASE i - Len(q) \in DOMAIN r /\ j - Len(q) \in DOMAIN r
    <3>1. i - Len(q) < j - Len(q)
      BY <1>1
    <3>2. c[i] = r[i - Len(q)] /\ c[j] = r[j - Len(q)]
      BY <1>1, <1>2, <2>3
    <3>3. QED
      BY <1>6, <2>3, <3>1, <3>2 DEF InOrder
  <2>4. QED
    BY <1>1, <1>3, <2>1, <2>2, <2>3
<1>7. ASSUME Once(c) PROVE Once(q) /\ Once(r) /\ Apart(q, r)
  <2>1. Once(q)
    BY <1>2, <1>7 DEF Once
  <2>2. ASSUME NEW i \in DOMAIN r, NEW j \in DOMAIN r, r[i].nr = r[j].nr PROVE i = j
    <3>1. c[Len(q) + i].nr = c[Len(q) + j].nr
      BY <1>2, <2>2
    <3>2. Len(q) + i = Len(q) + j
      BY <1>2, <1>7, <3>1 DEF Once
    <3>3. QED
      BY <1>1, <3>2
  <2>3. ASSUME NEW i \in DOMAIN q, NEW j \in DOMAIN r, q[i].nr = r[j].nr PROVE FALSE
    <3>1. c[i].nr = c[Len(q) + j].nr
      BY <1>2, <2>3
    <3>2. i = Len(q) + j
      BY <1>2, <1>7, <3>1 DEF Once
    <3>3. QED
      BY <1>1, <3>2
  <2>4. QED
    BY <2>1, <2>2, <2>3 DEF Apart, Numbers, Once
<1>8. ASSUME Once(q), Once(r), Apart(q, r) PROVE Once(c)
  <2> SUFFICES ASSUME NEW i \in DOMAIN c, NEW j \in DOMAIN c, c[i].nr = c[j].nr
               PROVE  i = j
    BY DEF Once
  <2>0. \A k \in DOMAIN q, l \in DOMAIN r : q[k].nr # r[l].nr
    BY <1>8 DEF Apart, Numbers
  <2>1. CASE i \in DOMAIN q /\ j \in DOMAIN q
    BY <1>2, <1>8, <2>1 DEF Once
  <2>2. CASE i \in DOMAIN q /\ j - Len(q) \in DOMAIN r
    BY <1>1, <1>2, <2>0, <2>2
  <2>3. CASE i - Len(q) \in DOMAIN r /\ j \in DOMAIN q
    BY <1>1, <1>2, <2>0, <2>3
  <2>4. CASE i - Len(q) \in DOMAIN r /\ j - Len(q) \in DOMAIN r
    <3>1. c[i] = r[i - Len(q)] /\ c[j] = r[j - Len(q)]
      BY <1>1, <1>2, <2>4
    <3>2. i - Len(q) = j - Len(q)
      BY <1>8, <2>4, <3>1 DEF Once
    <3>3. QED
      BY <1>1, <3>2
  <2>5. QED
    BY <1>3, <2>1, <2>2, <2>3, <2>4
<1>9. QED
  BY <1>1, <1>4, <1>5, <1>6, <1>7, <1>8

\* ... and which of three come in which order.
LEMMA AheadOfBoth ==
  ASSUME NEW q \in Seq(Event), NEW r \in Seq(Event), NEW t \in Seq(Event)
  PROVE  /\ Ahead(q \o r, t) <=> Ahead(q, t) /\ Ahead(r, t)
         /\ Ahead(t, q \o r) <=> Ahead(t, q) /\ Ahead(t, r)
<1> DEFINE c == q \o r
<1>1. /\ Len(q) \in Nat /\ Len(r) \in Nat /\ DOMAIN c = 1 .. Len(q) + Len(r)
      /\ DOMAIN q = 1 .. Len(q) /\ DOMAIN r = 1 .. Len(r)
  OBVIOUS
<1>2. /\ \A i \in DOMAIN q : i \in DOMAIN c /\ c[i] = q[i]
      /\ \A j \in DOMAIN r : Len(q) + j \in DOMAIN c /\ c[Len(q) + j] = r[j]
  BY <1>1
<1>3. \A k \in DOMAIN c : \/ k \in DOMAIN q
                          \/ k - Len(q) \in DOMAIN r /\ c[k] = r[k - Len(q)]
  BY <1>1
<1>4. Ahead(c, t) => Ahead(q, t) /\ Ahead(r, t)
  BY <1>2 DEF Ahead
<1>5. Ahead(t, c) => Ahead(t, q) /\ Ahead(t, r)
  BY <1>2 DEF Ahead
<1>6. Ahead(q, t) /\ Ahead(r, t) => Ahead(c, t)
  BY <1>2, <1>3 DEF Ahead
<1>7. Ahead(t, q) /\ Ahead(t, r) => Ahead(t, c)
  BY <1>2, <1>3 DEF Ahead
<1>8. QED
  BY <1>4, <1>5, <1>6, <1>7

LEMMA Nothing ==
  /\ Numbers(<<>>) = {} /\ InOrder(<<>>) /\ Once(<<>>) /\ <<>> \in Seq(Event)
  /\ \A q \in Seq(Event) : /\ Ahead(<<>>, q) /\ Ahead(q, <<>>)
                           /\ q \o <<>> = q /\ <<>> \o q = q
<1>1. DOMAIN <<>> = {}
  OBVIOUS
<1>2. QED
  BY <1>1 DEF Numbers, InOrder, Once, Ahead

LEMMA OneEvent ==
  ASSUME NEW e \in Event
  PROVE  /\ <<e>> \in Seq(Event) /\ InOrder(<<e>>) /\ Once(<<e>>) /\ Numbers(<<e>>) = {e.nr}
         /\ \A q \in Seq(Event) : Append(q, e) = q \o <<e>>
<1>1. /\ DOMAIN <<e>> = {1} /\ <<e>>[1] = e /\ <<e>> \in Seq(Event)
      /\ \A q \in Seq(Event) : Append(q, e) = q \o <<e>>
  OBVIOUS
<1>2. QED
  BY <1>1 DEF Numbers, InOrder, Once

LEMMA FirstEvent ==
  ASSUME NEW q \in Seq(Event), q # <<>>
  PROVE  /\ Head(q) \in Event /\ Tail(q) \in Seq(Event) /\ <<Head(q)>> \in Seq(Event)
         /\ q = <<Head(q)>> \o Tail(q) /\ Len(q) = 1 + Len(Tail(q))
OBVIOUS

\* What comes from two sources has no order to keep.
LEMMA FromElsewhere ==
  ASSUME NEW q \in Seq(Event), NEW r \in Seq(Event), NEW s, NEW t
  PROVE  /\ AllFrom(q \o r, s) <=> AllFrom(q, s) /\ AllFrom(r, s)
         /\ AllFrom(q, s) /\ AllFrom(r, t) /\ s # t => Ahead(q, r)
<1> DEFINE c == q \o r
<1>1. /\ Len(q) \in Nat /\ Len(r) \in Nat /\ DOMAIN c = 1 .. Len(q) + Len(r)
      /\ DOMAIN q = 1 .. Len(q) /\ DOMAIN r = 1 .. Len(r)
  OBVIOUS
<1>2. /\ \A i \in DOMAIN q : i \in DOMAIN c /\ c[i] = q[i]
      /\ \A j \in DOMAIN r : Len(q) + j \in DOMAIN c /\ c[Len(q) + j] = r[j]
  BY <1>1
<1>3. \A k \in DOMAIN c : \/ k \in DOMAIN q
                          \/ k - Len(q) \in DOMAIN r /\ c[k] = r[k - Len(q)]
  BY <1>1
<1>4. AllFrom(c, s) => AllFrom(q, s) /\ AllFrom(r, s)
  BY <1>2 DEF AllFrom
<1>5. AllFrom(q, s) /\ AllFrom(r, s) => AllFrom(c, s)
  BY <1>2, <1>3 DEF AllFrom
<1>6. AllFrom(q, s) /\ AllFrom(r, t) /\ s # t => Ahead(q, r)
  BY DEF AllFrom, Ahead
<1>7. QED
  BY <1>4, <1>5, <1>6

LEMMA Regroup ==
  ASSUME NEW q \in Seq(Event), NEW r \in Seq(Event), NEW t \in Seq(Event)
  PROVE  q \o r \o t = q \o (r \o t)
BY ConcatAssociative

LEMMA FrontAndRest ==
  ASSUME NEW q \in Seq(Event), NEW k \in 0 .. Len(q)
  PROVE  /\ SubSeq(q, 1, k) \in Seq(Event) /\ SubSeq(q, k + 1, Len(q)) \in Seq(Event)
         /\ q = SubSeq(q, 1, k) \o SubSeq(q, k + 1, Len(q))
<1>1. SubSeq(q, 1, k) \in Seq(Event) /\ SubSeq(q, k + 1, Len(q)) \in Seq(Event)
  BY SubSeqProperties
<1>2. SubSeq(q, 1, k) \o SubSeq(q, k + 1, Len(q)) = SubSeq(q, 1, Len(q))
  <2>1. 1 \in 1 .. Len(q) + 1 /\ k \in 1 - 1 .. Len(q) /\ Len(q) \in k .. Len(q)
    OBVIOUS
  <2>2. QED
    BY <2>1, ConcatAdjacentSubSeq, Zenon
<1>3. QED
  BY <1>1, <1>2, SubSeqFull

-----------------------------------------------------------------------------
(* Events at their places: E and F are what each place has before and after  *)
(* a step.                                                                   *)

Lone(E) == \A a, b \in Place : Once(E[a]) /\ (a # b => Apart(E[a], E[b]))
Within(E, n) == \A a \in Place : Numbers(E[a]) \subseteq 1 .. n
Known(E) == UNION {Numbers(E[a]) : a \in Place}

\* A place that loses events has none it did not have.
LEMMA Lost ==
  ASSUME NEW E, NEW F, NEW n \in Nat, Lone(E), Within(E, n),
         \A a \in Place : Numbers(F[a]) \subseteq Numbers(E[a]) /\ (Once(E[a]) => Once(F[a]))
  PROVE  Lone(F) /\ Within(F, n)
<1>1. Within(F, n)
  BY DEF Within
<1>2. \A a, b \in Place : Apart(E[a], E[b]) => Apart(F[a], F[b])
  BY DEF Apart
<1>3. QED
  BY <1>1, <1>2 DEF Lone

\* Events that go from the front of one place to the end of another.
LEMMA Moved ==
  ASSUME NEW E, NEW F, NEW n \in Nat, Lone(E), Within(E, n),
         NEW a \in Place, NEW b \in Place, a # b, NEW q \in Seq(Event),
         F[a] \in Seq(Event), E[b] \in Seq(Event),
         E[a] = q \o F[a], F[b] = E[b] \o q,
         \A c \in Place : c # a /\ c # b => F[c] = E[c]
  PROVE  Lone(F) /\ Within(F, n)
<1>1. /\ Numbers(E[a]) = Numbers(q) \cup Numbers(F[a])
      /\ Once(E[a]) => Once(q) /\ Once(F[a]) /\ Apart(q, F[a])
  BY Concat
<1>2. /\ Numbers(F[b]) = Numbers(E[b]) \cup Numbers(q)
      /\ Once(E[b]) /\ Once(q) /\ Apart(E[b], q) => Once(F[b])
  BY Concat
<1>3. Once(q) /\ Once(F[a]) /\ Apart(q, F[a]) /\ Apart(E[b], q)
  BY <1>1 DEF Lone, Apart
<1>4. Once(F[b])
  BY <1>2, <1>3 DEF Lone
<1>5. Within(F, n)
  <2> SUFFICES ASSUME NEW c \in Place PROVE Numbers(F[c]) \subseteq 1 .. n
    BY DEF Within
  <2>1. Numbers(E[a]) \subseteq 1 .. n /\ Numbers(E[b]) \subseteq 1 .. n /\ Numbers(E[c]) \subseteq 1 .. n
    BY DEF Within
  <2>2. CASE c = a
    BY <1>1, <2>1, <2>2
  <2>3. CASE c = b
    BY <1>1, <1>2, <2>1, <2>3
  <2>4. QED
    BY <2>1, <2>2, <2>3
<1>6. \A c \in Place : Once(F[c])
  BY <1>3, <1>4 DEF Lone
<1>7. ASSUME NEW c \in Place, NEW d \in Place, c # d PROVE Apart(F[c], F[d])
  <2>1. /\ Apart(E[c], E[d]) /\ Apart(E[a], E[b])
        /\ c # a => Apart(E[c], E[a])
        /\ d # a => Apart(E[d], E[a])
    BY <1>7 DEF Lone, Apart
  <2>2. CASE c = b
    BY <1>1, <1>2, <1>3, <1>7, <2>1, <2>2 DEF Apart
  <2>3. CASE d = b
    BY <1>1, <1>2, <1>3, <1>7, <2>1, <2>3 DEF Apart
  <2>4. CASE c # b /\ d # b
    <3>1. Numbers(F[c]) \subseteq Numbers(E[c]) /\ Numbers(F[d]) \subseteq Numbers(E[d])
      BY <1>1, <2>4
    <3>2. QED
      BY <2>1, <3>1 DEF Apart
  <2>5. QED
    BY <2>2, <2>3, <2>4
<1>8. QED
  BY <1>5, <1>6, <1>7 DEF Lone

LEMMA MovedKept ==
  ASSUME NEW E, NEW F, NEW a \in Place, NEW b \in Place, NEW q \in Seq(Event),
         F[a] \in Seq(Event), E[b] \in Seq(Event),
         E[a] = q \o F[a], F[b] = E[b] \o q,
         \A c \in Place : c # a /\ c # b => F[c] = E[c]
  PROVE  Known(E) \subseteq Known(F)
<1>1. /\ Numbers(E[a]) = Numbers(q) \cup Numbers(F[a])
      /\ Numbers(F[b]) = Numbers(E[b]) \cup Numbers(q)
  BY Concat
<1>2. ASSUME NEW c \in Place, NEW x \in Numbers(E[c]) PROVE \E d \in Place : x \in Numbers(F[d])
  <2>1. CASE c = a
    BY <1>1, <1>2, <2>1
  <2>2. CASE c = b
    BY <1>1, <1>2, <2>2
  <2>3. QED
    BY <1>2, <2>1, <2>2
<1>3. QED
  <2> SUFFICES ASSUME NEW x \in Known(E) PROVE x \in Known(F)
    OBVIOUS
  <2>1. PICK c \in Place : x \in Numbers(E[c])
    BY DEF Known
  <2>2. PICK d \in Place : x \in Numbers(F[d])
    BY <1>2, <2>1
  <2>3. QED
    BY <2>2 DEF Known

\* An event that happens, behind everything at one place.
LEMMA Happened ==
  ASSUME NEW E, NEW F, NEW n \in Nat, Lone(E), Within(E, n),
         NEW a \in Place, NEW e \in Event, e.nr = n + 1,
         E[a] \in Seq(Event), F[a] = E[a] \o <<e>>,
         \A c \in Place : c # a => F[c] = E[c]
  PROVE  Lone(F) /\ Within(F, n + 1) /\ Known(E) \subseteq Known(F)
<1>0. n + 1 \notin 1 .. n /\ 1 .. n \subseteq 1 .. n + 1 /\ n + 1 \in 1 .. n + 1
  OBVIOUS
<1>1. /\ <<e>> \in Seq(Event) /\ Once(<<e>>) /\ Numbers(<<e>>) = {n + 1}
  BY OneEvent
<1>2. /\ Numbers(F[a]) = Numbers(E[a]) \cup {n + 1}
      /\ Once(E[a]) /\ Apart(E[a], <<e>>) => Once(F[a])
  <2>1. /\ Numbers(E[a] \o <<e>>) = Numbers(E[a]) \cup Numbers(<<e>>)
        /\ Once(E[a] \o <<e>>) <=> Once(E[a]) /\ Once(<<e>>) /\ Apart(E[a], <<e>>)
    BY <1>1, Concat, Zenon
  <2>2. QED
    BY <1>1, <2>1
<1>3. \A c \in Place : n + 1 \notin Numbers(E[c])
  BY <1>0, Zenon DEF Within
<1>4. \A c \in Place : Once(F[c])
  BY <1>1, <1>2, <1>3 DEF Lone, Apart
<1>5. \A c \in Place : Numbers(F[c]) \subseteq 1 .. n + 1
  <2>1. \A c \in Place : Numbers(E[c]) \subseteq 1 .. n + 1
    BY <1>0, Zenon DEF Within
  <2>2. QED
    BY <1>0, <1>2, <2>1
<1>6. \A c, d \in Place : c # d => Apart(F[c], F[d])
  <2> SUFFICES ASSUME NEW c \in Place, NEW d \in Place, c # d PROVE Apart(F[c], F[d])
    OBVIOUS
  <2>1. Numbers(E[c]) \cap Numbers(E[d]) = {}
    BY DEF Lone, Apart
  <2>2. CASE c # a /\ d # a
    BY <2>1, <2>2 DEF Apart
  <2>3. CASE c = a
    <3>1. F[d] = E[d] /\ n + 1 \notin Numbers(E[d])
      BY <1>3, <2>3
    <3>2. QED
      BY <1>2, <2>1, <2>3, <3>1 DEF Apart
  <2>4. CASE d = a
    <3>1. F[c] = E[c] /\ n + 1 \notin Numbers(E[c])
      BY <1>3, <2>4
    <3>2. QED
      BY <1>2, <2>1, <2>4, <3>1 DEF Apart
  <2>5. QED
    BY <2>2, <2>3, <2>4
<1>7. Known(E) \subseteq Known(F)
  BY <1>2 DEF Known
<1>8. QED
  BY <1>4, <1>5, <1>6, <1>7 DEF Lone, Within

-----------------------------------------------------------------------------
(* What is so of all the places at once.                                     *)

Whole == [a \in Place |-> EventsAt(a)]
NoneLost == Known(Whole) \subseteq Known(Whole')

AsPlaced ==
  /\ \A s \in Source : Whole[<<"feed", s>>] = queue[s]
  /\ \A p \in Port : Whole[<<"port", p>>] = Path(p)
  /\ Whole[<<"batch", None>>] = batch /\ Whole[<<"script", None>>] = scripts

\* There are the feeds, the ports, the batch and the script.
LEMMA Places ==
  /\ \A a \in Place : \/ \E s \in Source : a = <<"feed", s>>
                      \/ \E p \in Port : a = <<"port", p>>
                      \/ a = <<"batch", None>> \/ a = <<"script", None>>
  /\ \A s \in Source : <<"feed", s>> \in Place
  /\ \A p \in Port : <<"port", p>> \in Place
  /\ <<"batch", None>> \in Place /\ <<"script", None>> \in Place
  /\ <<"batch", None>> # <<"script", None>>
  /\ \A s \in Source : \A p \in Port : <<"feed", s>> # <<"port", p>>
  /\ \A s \in Source : <<"feed", s>> # <<"batch", None>> /\ <<"feed", s>> # <<"script", None>>
  /\ \A p \in Port : <<"port", p>> # <<"batch", None>> /\ <<"port", p>> # <<"script", None>>
BY DEF Place

LEMMA Contents == AsPlaced /\ AsPlaced'
<1>1. AsPlaced
  BY Places DEF AsPlaced, Whole, EventsAt
<1>2. AsPlaced'
  BY Places DEF AsPlaced, Whole, EventsAt
<1>3. QED
  BY <1>1, <1>2

\* A port's sequence is what it has, is sending and is still to send.
LEMMA PathTyped ==
  ASSUME DeliveryTypeOK, NEW p \in Port
  PROVE  /\ got[p] \in Seq(Event) /\ sending[p] \in Seq(Event) /\ backlog[p] \in Seq(Event)
         /\ Path(p) \in Seq(Event)
<1>1. got[p] \in Seq(Event) /\ backlog[p] \in Seq(Event)
  BY DEF DeliveryTypeOK
<1>2. sending[p] \in {<<>>} \cup {<<e>> : e \in Event}
  BY DEF DeliveryTypeOK
<1>3. sending[p] \in Seq(Event)
  BY <1>2, OneEvent, Nothing
<1>4. QED
  BY <1>1, <1>3, Concat DEF Path

LEMMA Typed ==
  ASSUME DeliveryTypeOK
  PROVE  /\ batch \in Seq(Event) /\ scripts \in Seq(Event)
         /\ \A s \in Source : queue[s] \in Seq(Event)
         /\ \A p \in Port : Path(p) \in Seq(Event)
         /\ port # 0 => port \in Port
<1>1. port # 0 => port \in Port
  BY DeliveryAssumption DEF DeliveryTypeOK, Port
<1>2. QED
  BY <1>1, PathTyped DEF DeliveryTypeOK

\* In whatever order events can still meet, they are.
Ordered ==
  /\ \A p \in Port : InOrder(Path(p))
  /\ InOrder(batch)
  /\ \A s \in Source : InOrder(queue[s]) /\ Ahead(batch, queue[s])
  /\ port # 0 => Ahead(Path(port), batch) /\ \A s \in Source : Ahead(Path(port), queue[s])

LEMMA OrderedPorts ==
  ASSUME DeliveryTypeOK
  PROVE  Ordered => PortOrder
<1> SUFFICES ASSUME Ordered PROVE PortOrder
  OBVIOUS
<1>1. /\ batch \in Seq(Event) /\ \A s \in Source : queue[s] \in Seq(Event)
      /\ \A p \in Port : Path(p) \in Seq(Event)
      /\ port # 0 => port \in Port
  BY Typed
<1>2. ASSUME NEW s \in Source PROVE InOrder(batch \o queue[s])
  BY <1>1, Concat DEF Ordered
<1>3. ASSUME port # 0, NEW s \in Source PROVE InOrder(Path(port) \o batch \o queue[s])
  <2>1. /\ Path(port) \in Seq(Event) /\ InOrder(Path(port)) /\ InOrder(batch)
        /\ Ahead(Path(port), batch) /\ queue[s] \in Seq(Event)
    BY <1>1, <1>3 DEF Ordered
  <2>2. Path(port) \o batch \in Seq(Event) /\ InOrder(Path(port) \o batch)
    BY <1>1, <2>1, Concat
  <2>3. Ahead(Path(port) \o batch, queue[s])
    BY <1>1, <1>3, <2>1, AheadOfBoth DEF Ordered
  <2>4. QED
    BY <2>1, <2>2, <2>3, Concat DEF Ordered
<1>4. QED
  BY <1>2, <1>3 DEF Ordered, PortOrder

\* That every event is at one place, once, is that nothing is handled twice.
LEMMA LoneHandledOnce == Lone(Whole) => HandledOnce
<1> SUFFICES ASSUME Lone(Whole), NEW a \in Place, NEW b \in Place,
                    NEW i \in DOMAIN EventsAt(a), NEW j \in DOMAIN EventsAt(b),
                    EventsAt(a)[i].nr = EventsAt(b)[j].nr
             PROVE  a = b /\ i = j
  BY DEF HandledOnce
<1>1. Whole[a] = EventsAt(a) /\ Whole[b] = EventsAt(b)
  BY DEF Whole
<1>2. a = b
  BY <1>1 DEF Lone, Apart, Numbers
<1>3. QED
  BY <1>1, <1>2 DEF Lone, Once

-----------------------------------------------------------------------------
(* The inductive invariant for the way of the events.                        *)

OfItsFeed == \A s \in Source : AllFrom(queue[s], s)

\* What the ports' tasks have in hand, and how it is counted: a port still to be
\* attached has nothing, and one whose task has gone counts the push in progress
\* at least, whatever else it was left with.
Waiting(p) == Len(backlog[p]) + Len(sending[p])
Coming(p) == IF stage = "queueing" /\ port = p THEN 1 ELSE 0
Counted ==
  \A p \in Port :
    /\ drain[p] = "sending" <=> sending[p] # <<>>
    /\ p > opened => drain[p] = "recv" /\ Path(p) = <<>>
    /\ drain[p] = "gone" => depth[p] >= Coming(p)
    /\ drain[p] # "gone" => depth[p] = Waiting(p) + Coming(p)

Queueing == stage = "queueing" => batch # <<>> /\ port # 0

\* The lists have who holds handles, and between two flushes who let go of them.
Listed == listed \subseteq holds \cup leaving /\ (stage # "applying" => leaving = {})

Tracked ==
  /\ DeliveryTypeOK
  /\ Lone(Whole) /\ Within(Whole, happened)
  /\ Ordered /\ OfItsFeed
  /\ Counted /\ Queueing /\ Listed

LEMMA WaitingTyped ==
  ASSUME DeliveryTypeOK, NEW p \in Port
  PROVE  Waiting(p) \in Nat /\ Coming(p) \in Nat
<1>1. backlog[p] \in Seq(Event) /\ sending[p] \in Seq(Event)
  BY PathTyped
<1>2. PICK n \in Nat, m \in Nat : n = Len(backlog[p]) /\ m = Len(sending[p])
  BY <1>1
<1>3. n + m \in Nat
  OBVIOUS
<1>4. Waiting(p) = n + m
  BY <1>2 DEF Waiting
<1>5. Coming(p) \in Nat
  BY DEF Coming
<1>6. QED
  BY <1>3, <1>4, <1>5

\* The places do not change but for what their places are called.
LEMMA Still ==
  ASSUME DeliveryTypeOK, UNCHANGED <<happened, queue, batch, scripts>>,
         \A p \in Port : Path(p)' = Path(p)
  PROVE  /\ Lone(Whole) /\ Within(Whole, happened) => (Lone(Whole) /\ Within(Whole, happened))'
         /\ OfItsFeed => OfItsFeed'
         /\ Ordered /\ (port' = port \/ port' = 0) => Ordered'
         /\ NoneLost
<1>1. ASSUME NEW a \in Place PROVE EventsAt(a)' = EventsAt(a)
  BY Places DEF EventsAt
<1>2. Whole' = Whole
  BY <1>1 DEF Whole
<1>3. ASSUME Ordered, port' = port \/ port' = 0 PROVE Ordered'
  <2>1. CASE port' = 0
    BY <1>3, <2>1 DEF Ordered
  <2>2. CASE port' = port
    <3>1. \A p \in Port : InOrder(Path(p)')
      BY <1>3 DEF Ordered
    <3>2. ASSUME port # 0 PROVE Path(port)' = Path(port)
      BY <2>2, <3>2, Typed DEF Path
    <3>3. QED
      BY <1>3, <2>2, <3>1, <3>2 DEF Ordered
  <2>3. QED
    BY <1>3, <2>1, <2>2
<1>4. QED
  BY <1>2, <1>3 DEF OfItsFeed, NoneLost

\* What goes on beside the events: callbacks, wakes, and the pass's own turns.
LEMMA BesideKeeps ==
  ASSUME Tracked,
         \/ PassElsewhere \/ BeginDrain \/ LeaveFeed \/ EndDrain
         \/ \E s \in Source : FlagReady(s) \/ WakeApp(s)
         \/ UNCHANGED deliveryVars
  PROVE  Tracked' /\ NoneLost
<1>1. /\ UNCHANGED <<happened, up, queue, batch, scripts, portVars, itemVars>>
      /\ stage' = "queueing" <=> stage = "queueing"
      /\ stage' # "applying" => stage # "applying"
  BY DEF PassElsewhere, BeginDrain, LeaveFeed, EndDrain, FlagReady, WakeApp,
         deliveryVars, emitVars, feedVars, passVars
<1>2. UNCHANGED <<got, sending, backlog, depth, drain, peer, port, opened, holds, leaving, listed>>
  BY <1>1 DEF portVars, itemVars
<1>3. /\ producer' \in [Source -> {"idle", "queued", "flagged"}]
      /\ ready' \subseteq Source /\ owed' \in BOOLEAN
      /\ stage' \in {"parked", "draining", "applying", "dispatching", "queueing"}
      /\ todo' \subseteq Source /\ left' \subseteq Source /\ turn' \in Source \cup {None}
  <2> USE DEF Tracked, DeliveryTypeOK
  <2>1. CASE PassElsewhere \/ UNCHANGED deliveryVars
    BY <2>1 DEF PassElsewhere, deliveryVars, emitVars, feedVars, passVars
  <2>2. CASE BeginDrain
    BY <2>2 DEF BeginDrain, emitVars
  <2>3. CASE LeaveFeed
    BY <2>3 DEF LeaveFeed, emitVars, feedVars
  <2>4. CASE EndDrain
    BY <2>4 DEF EndDrain, emitVars
  <2>5. ASSUME NEW s \in Source, FlagReady(s) \/ WakeApp(s)
        PROVE  /\ producer' \in [Source -> {"idle", "queued", "flagged"}]
               /\ ready' \subseteq Source /\ owed' \in BOOLEAN
               /\ UNCHANGED <<stage, todo, left, turn>>
    BY <2>5 DEF FlagReady, WakeApp, passVars
  <2>6. QED
    BY <2>1, <2>2, <2>3, <2>4, <2>5
<1>4. DeliveryTypeOK'
  BY <1>1, <1>2, <1>3 DEF Tracked, DeliveryTypeOK
<1>5. \A p \in Port : Path(p)' = Path(p) /\ Waiting(p)' = Waiting(p) /\ Coming(p)' = Coming(p)
  BY <1>1, <1>2 DEF Path, Waiting, Coming
<1>6. (Lone(Whole) /\ Within(Whole, happened) /\ OfItsFeed /\ Ordered)' /\ NoneLost
  BY <1>1, <1>2, <1>5, Still DEF Tracked
<1>7. (Counted /\ Queueing /\ Listed)'
  BY <1>1, <1>2, <1>5 DEF Tracked, Counted, Queueing, Listed
<1>8. QED
  BY <1>4, <1>6, <1>7 DEF Tracked

\* A subscription changes where the item's events go from now on: to a port that
\* nothing has been put in front of yet, or to the script.
LEMMA SubscribeKeeps ==
  ASSUME Tracked, NEW kinds \in Interests, NEW attach \in BOOLEAN, Subscribe(kinds, attach)
  PROVE  Tracked' /\ NoneLost
<1>1. /\ UNCHANGED <<happened, queue, batch, scripts, stage, got, sending, backlog, depth, drain>>
      /\ stage = "applying"
      /\ holds' = kinds /\ leaving' = leaving \cup holds /\ listed' = listed \cup kinds
  BY DEF Subscribe, emitVars, feedVars, passVars, portVars
<1>2. \/ port' = 0 /\ opened' = opened
      \/ opened < MaxPorts /\ opened' = opened + 1 /\ port' = opened'
  BY DEF Subscribe
<1>3. DeliveryTypeOK'
  <2>1. kinds \subseteq Source
    BY DeliveryAssumption
  <2>2. opened' \in 0 .. MaxPorts /\ port' \in 0 .. opened'
    BY <1>2, DeliveryAssumption DEF Tracked, DeliveryTypeOK
  <2>3. UNCHANGED <<emitVars, feedVars, passVars, portVars, scripts>>
    BY DEF Subscribe
  <2>4. QED
    BY <1>1, <2>1, <2>2, <2>3 DEF Tracked, DeliveryTypeOK, emitVars, feedVars, passVars, portVars
<1>4. \A p \in Port : Path(p)' = Path(p) /\ Waiting(p)' = Waiting(p) /\ Coming(p)' = Coming(p)
  BY <1>1 DEF Path, Waiting, Coming
<1>5. (Lone(Whole) /\ Within(Whole, happened) /\ OfItsFeed)' /\ NoneLost
  BY <1>1, <1>4, Still DEF Tracked
<1>6. Ordered'
  <2>1. CASE port' = 0
    BY <1>1, <1>4, <2>1, Still DEF Tracked
  <2>2. CASE port' = opened + 1 /\ opened < MaxPorts
    <3>1. port' \in Port /\ port' > opened
      BY <2>2, DeliveryAssumption DEF Tracked, DeliveryTypeOK, Port
    <3>2. Path(port)' = <<>>
      <4>1. \A p \in Port : p = port' => Path(p)' = <<>>
        BY <1>4, <3>1 DEF Tracked, Counted
      <4>2. QED
        BY <3>1, <4>1 DEF Path
    <3>3. (\A p \in Port : InOrder(Path(p))) /\ InOrder(batch)
      BY DEF Tracked, Ordered
    <3>4. \A s \in Source : InOrder(queue[s]) /\ Ahead(batch, queue[s])
      BY DEF Tracked, Ordered
    <3>5. Ahead(<<>>, batch) /\ \A s \in Source : Ahead(<<>>, queue[s])
      BY Nothing, Typed DEF Tracked
    <3>6. QED
      BY <1>1, <1>4, <3>2, <3>3, <3>4, <3>5 DEF Ordered
  <2>3. QED
    BY <1>2, <2>1, <2>2
<1>7. Counted'
  <2>1. \A p \in Port : p > opened' => p > opened
    BY <1>2 DEF Tracked, DeliveryTypeOK, Port
  <2>2. QED
    BY <1>1, <1>4, <2>1 DEF Tracked, Counted
<1>8. (Queueing /\ Listed)'
  BY <1>1 DEF Tracked, Queueing, Listed
<1>9. QED
  BY <1>3, <1>5, <1>6, <1>7, <1>8 DEF Tracked

LEMMA FlushKeeps ==
  ASSUME Tracked, Flush
  PROVE  Tracked' /\ NoneLost
<1>1. /\ UNCHANGED <<happened, queue, batch, scripts, got, sending, backlog, depth, drain, opened, port, holds>>
      /\ stage = "applying" /\ stage' = "dispatching"
      /\ listed' = listed \ leaving /\ leaving' = {}
  BY DEF Flush, emitVars, feedVars, portVars
<1>2. DeliveryTypeOK'
  BY <1>1 DEF Flush, Tracked, DeliveryTypeOK, emitVars, feedVars, portVars
<1>3. \A p \in Port : Path(p)' = Path(p) /\ Waiting(p)' = Waiting(p) /\ Coming(p)' = Coming(p)
  BY <1>1 DEF Path, Waiting, Coming
<1>4. (Lone(Whole) /\ Within(Whole, happened) /\ OfItsFeed /\ Ordered)' /\ NoneLost
  BY <1>1, <1>3, Still DEF Tracked
<1>5. (Counted /\ Queueing /\ Listed)'
  BY <1>1, <1>3 DEF Tracked, Counted, Queueing, Listed
<1>6. QED
  BY <1>2, <1>4, <1>5 DEF Tracked

LEMMA CountKeeps ==
  ASSUME Tracked, Count
  PROVE  Tracked' /\ NoneLost
<1>1. /\ UNCHANGED <<happened, queue, batch, scripts, got, sending, backlog, drain, opened, port,
                     holds, listed, leaving>>
      /\ stage = "dispatching" /\ stage' = "queueing" /\ batch # <<>> /\ port # 0
      /\ depth' = [depth EXCEPT ![port] = @ + 1]
  BY DEF Count, emitVars, feedVars, itemVars
<1>2. DeliveryTypeOK'
  <2>1. port \in Port /\ depth \in [Port -> Nat]
    BY <1>1, Typed DEF Tracked, DeliveryTypeOK
  <2>2. depth' \in [Port -> Nat]
    BY <1>1, <2>1
  <2>3. QED
    BY <1>1, <2>2 DEF Count, Tracked, DeliveryTypeOK, emitVars, feedVars, itemVars
<1>3. \A p \in Port : Path(p)' = Path(p) /\ Waiting(p)' = Waiting(p)
  BY <1>1 DEF Path, Waiting
<1>4. (Lone(Whole) /\ Within(Whole, happened) /\ OfItsFeed /\ Ordered)' /\ NoneLost
  BY <1>1, <1>3, Still DEF Tracked
<1>5. Counted'
  <2> SUFFICES ASSUME NEW p \in Port
               PROVE  /\ drain[p] = "sending" <=> sending[p] # <<>>
                      /\ p > opened => drain[p] = "recv" /\ Path(p) = <<>>
                      /\ drain[p] = "gone" => depth'[p] >= Coming(p)'
                      /\ drain[p] # "gone" => depth'[p] = Waiting(p) + Coming(p)'
    BY <1>1, <1>3 DEF Counted
  <2>1. depth[p] \in Nat /\ depth'[p] = IF p = port THEN depth[p] + 1 ELSE depth[p]
    BY <1>1 DEF Tracked, DeliveryTypeOK
  <2>2. Coming(p) = 0 /\ Coming(p)' = IF p = port THEN 1 ELSE 0
    BY <1>1 DEF Coming
  <2>3. Waiting(p) \in Nat
    BY WaitingTyped DEF Tracked
  <2>4. QED
    BY <2>1, <2>2, <2>3 DEF Tracked, Counted
<1>6. (Queueing /\ Listed)'
  BY <1>1 DEF Tracked, Queueing, Listed
<1>7. QED
  BY <1>2, <1>4, <1>5, <1>6 DEF Tracked

\* A client that exits leaves what is in front of it to its task.
LEMMA ClientExitsKeeps ==
  ASSUME Tracked, NEW q \in Port, ClientExits(q)
  PROVE  Tracked' /\ NoneLost
<1>1. /\ UNCHANGED <<happened, queue, batch, scripts, stage, got, sending, backlog, depth, drain,
                     opened, port, holds, listed, leaving>>
      /\ peer' = peer \ {q}
  BY DEF ClientExits, emitVars, feedVars, passVars, itemVars
<1>2. DeliveryTypeOK'
  BY <1>1 DEF ClientExits, Tracked, DeliveryTypeOK, emitVars, feedVars, passVars, itemVars
<1>3. \A p \in Port : Path(p)' = Path(p) /\ Waiting(p)' = Waiting(p) /\ Coming(p)' = Coming(p)
  BY <1>1 DEF Path, Waiting, Coming
<1>4. (Lone(Whole) /\ Within(Whole, happened) /\ OfItsFeed /\ Ordered)' /\ NoneLost
  BY <1>1, <1>3, Still DEF Tracked
<1>5. (Counted /\ Queueing /\ Listed)'
  BY <1>1, <1>3 DEF Tracked, Counted, Queueing, Listed
<1>6. QED
  BY <1>2, <1>4, <1>5 DEF Tracked

\* A task takes the next event, and gives it to its client: the port's sequence
\* is the same before and after.
LEMMA RecvKeeps ==
  ASSUME Tracked, NEW q \in Port, Recv(q)
  PROVE  Tracked' /\ NoneLost
<1> DEFINE e == Head(backlog[q])
           rest == Tail(backlog[q])
<1>1. /\ UNCHANGED <<happened, queue, batch, scripts, stage, got, depth, opened, port,
                     holds, listed, leaving>>
      /\ drain[q] = "recv" /\ backlog[q] # <<>>
      /\ sending' = [sending EXCEPT ![q] = <<e>>]
      /\ backlog' = [backlog EXCEPT ![q] = rest]
      /\ drain' = [drain EXCEPT ![q] = "sending"]
  BY DEF Recv, emitVars, feedVars, passVars, itemVars
<1>2. /\ got[q] \in Seq(Event) /\ backlog[q] \in Seq(Event)
      /\ sending[q] = <<>>
  BY <1>1, PathTyped DEF Tracked, Counted
<1>3. /\ e \in Event /\ rest \in Seq(Event) /\ <<e>> \in Seq(Event)
      /\ backlog[q] = <<e>> \o rest /\ Len(backlog[q]) = 1 + Len(rest)
  BY <1>1, <1>2, FirstEvent
<1>4. /\ sending'[q] = <<e>> /\ backlog'[q] = rest /\ drain'[q] = "sending"
      /\ \A p \in Port : p # q => /\ sending'[p] = sending[p] /\ backlog'[p] = backlog[p]
                                  /\ drain'[p] = drain[p]
  BY <1>1 DEF Tracked, DeliveryTypeOK
<1>5. DeliveryTypeOK'
  <2>1. /\ sending' \in [Port -> {<<>>} \cup {<<f>> : f \in Event}]
        /\ backlog' \in [Port -> Seq(Event)]
        /\ drain' \in [Port -> {"recv", "sending", "gone"}]
    BY <1>1, <1>3 DEF Tracked, DeliveryTypeOK
  <2>2. QED
    BY <1>1, <2>1 DEF Recv, Tracked, DeliveryTypeOK, emitVars, feedVars, passVars, itemVars
<1>6. Path(q)' = Path(q)
  <2>1. got[q] \o <<>> = got[q]
    BY <1>2, Nothing
  <2>2. got[q] \o <<e>> \o rest = got[q] \o (<<e>> \o rest)
    BY <1>2, <1>3, Regroup
  <2>3. QED
    BY <1>1, <1>2, <1>3, <1>4, <2>1, <2>2 DEF Path
<1>7. \A p \in Port : Path(p)' = Path(p) /\ Coming(p)' = Coming(p)
  BY <1>1, <1>4, <1>6 DEF Path, Coming
<1>8. (Lone(Whole) /\ Within(Whole, happened) /\ OfItsFeed /\ Ordered)' /\ NoneLost
  BY <1>1, <1>7, Still DEF Tracked
<1>9. Counted'
  <2> SUFFICES ASSUME NEW p \in Port
               PROVE  /\ drain'[p] = "sending" <=> sending'[p] # <<>>
                      /\ p > opened => drain'[p] = "recv" /\ Path(p) = <<>>
                      /\ drain'[p] = "gone" => depth[p] >= Coming(p)
                      /\ drain'[p] # "gone" => depth[p] = Waiting(p)' + Coming(p)
    BY <1>1, <1>7 DEF Counted
  <2>1. CASE p # q
    BY <1>4, <2>1 DEF Tracked, Counted, Waiting
  <2>2. CASE p = q
    <3>1. depth[q] = Waiting(q) + Coming(q)
      BY <1>1 DEF Tracked, Counted
    <3>2. Waiting(q)' = Waiting(q) /\ <<e>> # <<>>
      BY <1>2, <1>3, <1>4 DEF Waiting
    <3>3. ~(q > opened)
      <4>1. got[q] \o <<>> \o backlog[q] # <<>>
        BY <1>1, <1>2
      <4>2. QED
        BY <1>2, <4>1 DEF Tracked, Counted, Path
    <3>4. QED
      BY <1>4, <2>2, <3>1, <3>2, <3>3
  <2>3. QED
    BY <2>1, <2>2
<1>10. (Queueing /\ Listed)'
  BY <1>1 DEF Tracked, Queueing, Listed
<1>11. QED
  BY <1>5, <1>8, <1>9, <1>10 DEF Tracked

LEMMA HandOverKeeps ==
  ASSUME Tracked, NEW q \in Port, HandOver(q)
  PROVE  Tracked' /\ NoneLost
<1>1. /\ UNCHANGED <<happened, queue, batch, scripts, stage, backlog, opened, port,
                     holds, listed, leaving>>
      /\ drain[q] = "sending"
      /\ got' = [got EXCEPT ![q] = @ \o sending[q]]
      /\ sending' = [sending EXCEPT ![q] = <<>>]
      /\ depth' = [depth EXCEPT ![q] = @ - 1]
      /\ drain' = [drain EXCEPT ![q] = "recv"]
  BY DEF HandOver, emitVars, feedVars, passVars, itemVars
<1>2. PICK e \in Event : sending[q] = <<e>>
  BY <1>1, Nothing DEF Tracked, Counted, DeliveryTypeOK
<1>3. /\ got'[q] = got[q] \o <<e>> /\ sending'[q] = <<>> /\ drain'[q] = "recv"
      /\ depth'[q] = depth[q] - 1
      /\ \A p \in Port : p # q => /\ got'[p] = got[p] /\ sending'[p] = sending[p]
                                  /\ drain'[p] = drain[p] /\ depth'[p] = depth[p]
  BY <1>1, <1>2 DEF Tracked, DeliveryTypeOK
<1>4. /\ <<e>> \in Seq(Event) /\ got[q] \in Seq(Event) /\ got[q] \o <<e>> \in Seq(Event)
      /\ backlog[q] \in Seq(Event)
  BY OneEvent, PathTyped, Concat DEF Tracked
<1>5. depth[q] = Waiting(q) + Coming(q) /\ Waiting(q) = 1 + Waiting(q)' /\ Waiting(q)' \in Nat
  <2>1. depth[q] = Waiting(q) + Coming(q)
    BY <1>1 DEF Tracked, Counted
  <2>2. PICK n \in Nat : n = Len(backlog[q])
    BY <1>4
  <2>3. Len(<<e>>) = 1 /\ Len(<<>>) = 0 /\ backlog'[q] = backlog[q]
    BY <1>1
  <2>4. Waiting(q) = n + 1 /\ Waiting(q)' = n + 0
    BY <1>2, <1>3, <2>2, <2>3 DEF Waiting
  <2>5. QED
    BY <2>1, <2>4
<1>6. Coming(q) \in Nat /\ Waiting(q) \in Nat
  BY WaitingTyped DEF Tracked
<1>7. DeliveryTypeOK'
  <2>1. depth[q] - 1 \in Nat
    BY <1>5, <1>6
  <2>2. /\ got' \in [Port -> Seq(Event)] /\ depth' \in [Port -> Nat]
        /\ sending' \in [Port -> {<<>>} \cup {<<f>> : f \in Event}]
        /\ drain' \in [Port -> {"recv", "sending", "gone"}]
    BY <1>1, <1>2, <1>4, <2>1 DEF Tracked, DeliveryTypeOK
  <2>3. QED
    BY <1>1, <2>2 DEF HandOver, Tracked, DeliveryTypeOK, emitVars, feedVars, passVars, itemVars
<1>8. Path(q)' = Path(q)
  <2>1. got[q] \o <<e>> \o <<>> = got[q] \o <<e>>
    BY <1>4, Nothing
  <2>2. QED
    BY <1>1, <1>2, <1>3, <2>1 DEF Path
<1>9. \A p \in Port : Path(p)' = Path(p) /\ Coming(p)' = Coming(p)
  BY <1>1, <1>3, <1>8 DEF Path, Coming
<1>10. (Lone(Whole) /\ Within(Whole, happened) /\ OfItsFeed /\ Ordered)' /\ NoneLost
  BY <1>1, <1>9, Still DEF Tracked
<1>11. Counted'
  <2> SUFFICES ASSUME NEW p \in Port
               PROVE  /\ drain'[p] = "sending" <=> sending'[p] # <<>>
                      /\ p > opened => drain'[p] = "recv" /\ Path(p) = <<>>
                      /\ drain'[p] = "gone" => depth'[p] >= Coming(p)
                      /\ drain'[p] # "gone" => depth'[p] = Waiting(p)' + Coming(p)
    BY <1>1, <1>9 DEF Counted
  <2>1. CASE p # q
    BY <1>1, <1>3, <2>1 DEF Tracked, Counted, Waiting
  <2>2. CASE p = q
    <3>1. depth'[q] = Waiting(q)' + Coming(q)
      BY <1>3, <1>5, <1>6
    <3>2. QED
      BY <1>3, <2>2, <3>1 DEF Tracked, Counted
  <2>3. QED
    BY <2>1, <2>2
<1>12. (Queueing /\ Listed)'
  BY <1>1 DEF Tracked, Queueing, Listed
<1>13. QED
  BY <1>7, <1>10, <1>11, <1>12 DEF Tracked

\* A sequence that loses some events and keeps the others as they were.
LEMMA Without ==
  ASSUME NEW q \in Seq(Event), NEW x \in Seq(Event), NEW r \in Seq(Event)
  PROVE  /\ q \o r \in Seq(Event)
         /\ Numbers(q \o r) \subseteq Numbers(q \o x \o r)
         /\ InOrder(q \o x \o r) => InOrder(q \o r)
         /\ Once(q \o x \o r) => Once(q \o r)
         /\ \A t \in Seq(Event) : Ahead(q \o x \o r, t) => Ahead(q \o r, t)
<1>1. /\ q \o x \in Seq(Event) /\ Numbers(q \o x) = Numbers(q) \cup Numbers(x)
      /\ InOrder(q \o x) => InOrder(q)
      /\ Once(q \o x) => Once(q)
  BY Concat
<1>2. /\ q \o r \in Seq(Event) /\ Numbers(q \o r) = Numbers(q) \cup Numbers(r)
      /\ InOrder(q) /\ InOrder(r) /\ Ahead(q, r) => InOrder(q \o r)
      /\ Once(q) /\ Once(r) /\ Apart(q, r) => Once(q \o r)
  BY Concat
<1>3. /\ Numbers(q \o x \o r) = Numbers(q \o x) \cup Numbers(r)
      /\ InOrder(q \o x \o r) => InOrder(q \o x) /\ InOrder(r) /\ Ahead(q \o x, r)
      /\ Once(q \o x \o r) => Once(q \o x) /\ Once(r) /\ Apart(q \o x, r)
  BY <1>1, Concat
<1>4. \A t \in Seq(Event) : /\ Ahead(q \o x, t) => Ahead(q, t)
                            /\ Ahead(q \o x \o r, t) => Ahead(q \o x, t) /\ Ahead(r, t)
                            /\ Ahead(q, t) /\ Ahead(r, t) => Ahead(q \o r, t)
  BY <1>1, AheadOfBoth
<1>5. Apart(q \o x, r) => Apart(q, r)
  BY <1>1 DEF Apart
<1>6. QED
  BY <1>1, <1>2, <1>3, <1>4, <1>5

\* A port that loses some of what it was given leaves the rest as it was.
LEMMA PathShrinks ==
  ASSUME Tracked, DeliveryTypeOK', NEW q \in Port,
         UNCHANGED <<happened, queue, batch, scripts, port>>,
         \A p \in Port : p # q => Path(p)' = Path(p),
         /\ Numbers(Path(q)') \subseteq Numbers(Path(q))
         /\ InOrder(Path(q)) => InOrder(Path(q)')
         /\ Once(Path(q)) => Once(Path(q)')
         /\ \A t \in Seq(Event) : Ahead(Path(q), t) => Ahead(Path(q)', t)
  PROVE  (Lone(Whole) /\ Within(Whole, happened) /\ OfItsFeed /\ Ordered)'
<1> DEFINE E == Whole
           F == Whole'
<1>1. /\ \A a \in Place : a # <<"port", q>> => F[a] = E[a]
      /\ E[<<"port", q>>] = Path(q) /\ F[<<"port", q>>] = Path(q)'
  BY Contents, Places DEF AsPlaced
<1>2. \A a \in Place : Numbers(F[a]) \subseteq Numbers(E[a]) /\ (Once(E[a]) => Once(F[a]))
  BY <1>1, Places
<1>3. Lone(E) /\ Within(E, happened) /\ happened \in Nat
  BY DEF Tracked, DeliveryTypeOK
<1> HIDE DEF E, F
<1>4. Lone(F) /\ Within(F, happened)
  BY <1>2, <1>3, Lost
<1>5. Ordered'
  <2>1. \A p \in Port : InOrder(Path(p)')
    BY DEF Tracked, Ordered
  <2>2. ASSUME port # 0
        PROVE  Ahead(Path(port)', batch) /\ \A s \in Source : Ahead(Path(port)', queue[s])
    <3>1. Ahead(Path(port), batch) /\ \A s \in Source : Ahead(Path(port), queue[s])
      BY <2>2 DEF Tracked, Ordered
    <3>2. /\ port \in Port /\ batch \in Seq(Event) /\ \A s \in Source : queue[s] \in Seq(Event)
      BY <2>2, Typed DEF Tracked
    <3>3. CASE port = q
      <4>1. Path(port)' = Path(q)' /\ Path(port) = Path(q)
        BY <3>3 DEF Path
      <4>2. QED
        BY <3>1, <3>2, <4>1
    <3>4. CASE port # q
      <4>1. Path(port)' = Path(port)
        BY <3>2, <3>4 DEF Path
      <4>2. QED
        BY <3>1, <4>1
    <3>5. QED
      BY <3>3, <3>4
  <2>3. QED
    BY <2>1, <2>2 DEF Tracked, Ordered
<1>6. QED
  BY <1>4, <1>5 DEF F, Tracked, OfItsFeed

\* An event the kernel refuses is passed over.
LEMMA SendFailsKeeps ==
  ASSUME Tracked, NEW q \in Port, SendFails(q)
  PROVE  Tracked'
<1>1. /\ UNCHANGED <<happened, queue, batch, scripts, stage, backlog, got, opened, port,
                     holds, listed, leaving>>
      /\ drain[q] = "sending"
      /\ sending' = [sending EXCEPT ![q] = <<>>]
      /\ depth' = [depth EXCEPT ![q] = @ - 1]
      /\ drain' = [drain EXCEPT ![q] = "recv"]
  BY DEF SendFails, emitVars, feedVars, passVars, itemVars
<1>2. PICK e \in Event : sending[q] = <<e>>
  BY <1>1, Nothing DEF Tracked, Counted, DeliveryTypeOK
<1>3. /\ sending'[q] = <<>> /\ drain'[q] = "recv" /\ depth'[q] = depth[q] - 1
      /\ \A p \in Port : p # q => /\ sending'[p] = sending[p]
                                  /\ drain'[p] = drain[p] /\ depth'[p] = depth[p]
  BY <1>1, <1>2 DEF Tracked, DeliveryTypeOK
<1>4. /\ <<e>> \in Seq(Event) /\ got[q] \in Seq(Event) /\ backlog[q] \in Seq(Event)
  BY OneEvent, PathTyped DEF Tracked
<1>5. depth[q] = Waiting(q) + Coming(q) /\ Waiting(q) = 1 + Waiting(q)' /\ Waiting(q)' \in Nat
  <2>1. depth[q] = Waiting(q) + Coming(q)
    BY <1>1 DEF Tracked, Counted
  <2>2. PICK n \in Nat : n = Len(backlog[q])
    BY <1>4
  <2>3. Len(<<e>>) = 1 /\ Len(<<>>) = 0 /\ backlog'[q] = backlog[q]
    BY <1>1
  <2>4. Waiting(q) = n + 1 /\ Waiting(q)' = n + 0
    BY <1>2, <1>3, <2>2, <2>3 DEF Waiting
  <2>5. QED
    BY <2>1, <2>4
<1>6. Coming(q) \in Nat /\ Waiting(q) \in Nat
  BY WaitingTyped DEF Tracked
<1>7. DeliveryTypeOK'
  <2>1. depth[q] - 1 \in Nat
    BY <1>5, <1>6
  <2>2. /\ depth' \in [Port -> Nat]
        /\ sending' \in [Port -> {<<>>} \cup {<<f>> : f \in Event}]
        /\ drain' \in [Port -> {"recv", "sending", "gone"}]
    BY <1>1, <2>1 DEF Tracked, DeliveryTypeOK
  <2>3. QED
    BY <1>1, <2>2 DEF SendFails, Tracked, DeliveryTypeOK, emitVars, feedVars, passVars, itemVars
<1>8. /\ Path(q) = got[q] \o <<e>> \o backlog[q] /\ Path(q)' = got[q] \o backlog[q]
      /\ \A p \in Port : p # q => Path(p)' = Path(p)
  <2>1. got[q] \o <<>> = got[q]
    BY <1>4, Nothing
  <2>2. QED
    BY <1>1, <1>2, <1>3, <2>1 DEF Path
<1>9. (Lone(Whole) /\ Within(Whole, happened) /\ OfItsFeed /\ Ordered)'
  <2>1. /\ Numbers(Path(q)') \subseteq Numbers(Path(q))
        /\ InOrder(Path(q)) => InOrder(Path(q)')
        /\ Once(Path(q)) => Once(Path(q)')
        /\ \A t \in Seq(Event) : Ahead(Path(q), t) => Ahead(Path(q)', t)
    <3> DEFINE before == got[q] \o <<e>> \o backlog[q]
               after == got[q] \o backlog[q]
    <3>1. /\ Numbers(after) \subseteq Numbers(before)
          /\ InOrder(before) => InOrder(after)
          /\ Once(before) => Once(after)
          /\ \A t \in Seq(Event) : Ahead(before, t) => Ahead(after, t)
      BY <1>4, Without
    <3>2. Path(q) = before /\ Path(q)' = after
      BY <1>8
    <3> HIDE DEF before, after
    <3>3. QED
      BY <3>1, <3>2
  <2>2. QED
    BY <1>1, <1>7, <1>8, <2>1, PathShrinks
<1>10. Counted'
  <2> SUFFICES ASSUME NEW p \in Port
               PROVE  /\ drain'[p] = "sending" <=> sending'[p] # <<>>
                      /\ p > opened => drain'[p] = "recv" /\ Path(p)' = <<>>
                      /\ drain'[p] = "gone" => depth'[p] >= Coming(p)
                      /\ drain'[p] # "gone" => depth'[p] = Waiting(p)' + Coming(p)
    BY <1>1 DEF Counted, Coming
  <2>1. CASE p # q
    BY <1>1, <1>3, <1>8, <2>1 DEF Tracked, Counted, Waiting
  <2>2. CASE p = q
    <3>1. depth'[q] = Waiting(q)' + Coming(q)
      BY <1>3, <1>5, <1>6
    <3>2. ~(q > opened)
      BY <1>1 DEF Tracked, Counted
    <3>3. QED
      BY <1>3, <2>2, <3>1, <3>2
  <2>3. QED
    BY <2>1, <2>2
<1>11. (Queueing /\ Listed)'
  BY <1>1 DEF Tracked, Queueing, Listed
<1>12. QED
  BY <1>7, <1>9, <1>10, <1>11 DEF Tracked

\* A task that finds its client gone closes its queue on what waits in it.
LEMMA FindGoneKeeps ==
  ASSUME Tracked, NEW q \in Port, FindGone(q)
  PROVE  Tracked'
<1>1. /\ UNCHANGED <<happened, queue, batch, scripts, stage, got, depth, opened, port,
                     holds, listed, leaving>>
      /\ drain[q] = "sending"
      /\ sending' = [sending EXCEPT ![q] = <<>>]
      /\ backlog' = [backlog EXCEPT ![q] = <<>>]
      /\ drain' = [drain EXCEPT ![q] = "gone"]
  BY DEF FindGone, emitVars, feedVars, passVars, itemVars
<1>2. /\ sending'[q] = <<>> /\ backlog'[q] = <<>> /\ drain'[q] = "gone"
      /\ \A p \in Port : p # q => /\ sending'[p] = sending[p] /\ backlog'[p] = backlog[p]
                                  /\ drain'[p] = drain[p]
  BY <1>1 DEF Tracked, DeliveryTypeOK
<1>3. DeliveryTypeOK'
  <2>1. /\ sending' \in [Port -> {<<>>} \cup {<<f>> : f \in Event}]
        /\ backlog' \in [Port -> Seq(Event)]
        /\ drain' \in [Port -> {"recv", "sending", "gone"}]
    BY <1>1, Nothing DEF Tracked, DeliveryTypeOK
  <2>2. QED
    BY <1>1, <2>1 DEF FindGone, Tracked, DeliveryTypeOK, emitVars, feedVars, passVars, itemVars
<1>4. got[q] \in Seq(Event) /\ sending[q] \in Seq(Event) /\ backlog[q] \in Seq(Event)
  BY PathTyped DEF Tracked
<1>5. Path(q)' = got[q]
  BY <1>1, <1>2, <1>4, Nothing DEF Path
<1>6. \A p \in Port : p # q => Path(p)' = Path(p)
  BY <1>1, <1>2 DEF Path
<1>7. /\ Numbers(got[q]) \subseteq Numbers(Path(q))
      /\ InOrder(Path(q)) => InOrder(got[q])
      /\ Once(Path(q)) => Once(got[q])
      /\ \A t \in Seq(Event) : Ahead(Path(q), t) => Ahead(got[q], t)
  <2>1. got[q] \o sending[q] \in Seq(Event)
    BY <1>4, Concat
  <2>2. QED
    BY <1>4, <2>1, Concat, AheadOfBoth DEF Path
<1>8. (Lone(Whole) /\ Within(Whole, happened) /\ OfItsFeed /\ Ordered)'
  BY <1>1, <1>3, <1>5, <1>6, <1>7, PathShrinks
<1>9. Counted'
  <2> SUFFICES ASSUME NEW p \in Port
               PROVE  /\ drain'[p] = "sending" <=> sending'[p] # <<>>
                      /\ p > opened => drain'[p] = "recv" /\ Path(p)' = <<>>
                      /\ drain'[p] = "gone" => depth[p] >= Coming(p)
                      /\ drain'[p] # "gone" => depth[p] = Waiting(p)' + Coming(p)
    BY <1>1 DEF Counted, Coming
  <2>1. CASE p # q
    BY <1>1, <1>2, <1>6, <2>1 DEF Tracked, Counted, Waiting
  <2>2. CASE p = q
    <3>1. depth[q] = Waiting(q) + Coming(q) /\ ~(q > opened)
      BY <1>1 DEF Tracked, Counted
    <3>2. Waiting(q) \in Nat /\ Coming(q) \in Nat
      BY WaitingTyped DEF Tracked
    <3>3. depth[q] >= Coming(q)
      BY <3>1, <3>2
    <3>4. QED
      BY <1>2, <2>2, <3>1, <3>3
  <2>3. QED
    BY <2>1, <2>2
<1>10. (Queueing /\ Listed)'
  BY <1>1 DEF Tracked, Queueing, Listed
<1>11. QED
  BY <1>3, <1>8, <1>9, <1>10 DEF Tracked

\* The first event of the batch and those behind it.
LEMMA FirstOfBatch ==
  ASSUME Tracked, batch # <<>>
  PROVE  /\ Head(batch) \in Event /\ <<Head(batch)>> \in Seq(Event) /\ Tail(batch) \in Seq(Event)
         /\ batch = <<Head(batch)>> \o Tail(batch)
         /\ InOrder(<<Head(batch)>>) /\ InOrder(Tail(batch)) /\ Ahead(<<Head(batch)>>, Tail(batch))
         /\ \A s \in Source : Ahead(<<Head(batch)>>, queue[s]) /\ Ahead(Tail(batch), queue[s])
         /\ port # 0 => /\ Ahead(Path(port), <<Head(batch)>>) /\ Ahead(Path(port), Tail(batch))
                        /\ \A s \in Source : Ahead(Path(port), queue[s])
<1> DEFINE e == Head(batch)
           rest == Tail(batch)
<1>1. batch \in Seq(Event) /\ \A s \in Source : queue[s] \in Seq(Event)
  BY Typed DEF Tracked
<1>2. /\ e \in Event /\ <<e>> \in Seq(Event) /\ rest \in Seq(Event) /\ batch = <<e>> \o rest
  BY <1>1, FirstEvent
<1> HIDE DEF e, rest
<1>3. InOrder(<<e>>) /\ InOrder(rest) /\ Ahead(<<e>>, rest)
  <2>1. InOrder(batch)
    BY DEF Tracked, Ordered
  <2>2. QED
    BY <1>2, <2>1, Concat
<1>4. \A s \in Source : Ahead(<<e>>, queue[s]) /\ Ahead(rest, queue[s])
  <2>1. \A s \in Source : Ahead(batch, queue[s])
    BY DEF Tracked, Ordered
  <2>2. QED
    BY <1>1, <1>2, <2>1, AheadOfBoth
<1>5. ASSUME port # 0
      PROVE  /\ Ahead(Path(port), <<e>>) /\ Ahead(Path(port), rest)
             /\ \A s \in Source : Ahead(Path(port), queue[s])
  <2>1. Ahead(Path(port), batch) /\ \A s \in Source : Ahead(Path(port), queue[s])
    BY <1>5 DEF Tracked, Ordered
  <2>2. Path(port) \in Seq(Event)
    BY <1>5, Typed DEF Tracked
  <2>3. QED
    BY <1>2, <2>1, <2>2, AheadOfBoth
<1>6. QED
  BY <1>2, <1>3, <1>4, <1>5 DEF e, rest

\* Where the first of the batch leaves it, for the script, for a port or for
\* nowhere, the order of the others stays.
LEMMA BatchOrder ==
  ASSUME Tracked, batch # <<>>, batch' = Tail(batch), UNCHANGED queue,
         \A p \in Port : Path(p)' = Path(p), port' = port \/ port' = 0
  PROVE  (OfItsFeed /\ Ordered)'
<1>1. \A p \in Port : InOrder(Path(p)')
  BY DEF Tracked, Ordered
<1>2. ASSUME port' # 0
      PROVE  Ahead(Path(port)', batch') /\ \A s \in Source : Ahead(Path(port)', queue[s])
  <2>1. port' = port /\ port \in Port
    BY <1>2, Typed DEF Tracked
  <2>2. Path(port)' = Path(port)
    BY <2>1 DEF Path
  <2>3. QED
    BY <1>2, <2>1, <2>2, FirstOfBatch
<1>3. InOrder(batch') /\ \A s \in Source : InOrder(queue[s]) /\ Ahead(batch', queue[s])
  BY FirstOfBatch DEF Tracked, Ordered
<1>4. QED
  BY <1>1, <1>2, <1>3 DEF Tracked, Ordered, OfItsFeed

\* An event on nobody's list.
LEMMA IgnoreKeeps ==
  ASSUME Tracked, Ignore
  PROVE  Tracked'
<1>1. /\ UNCHANGED <<happened, queue, scripts, stage, got, sending, backlog, depth, drain, opened,
                     port, holds, listed, leaving>>
      /\ stage = "dispatching" /\ batch # <<>> /\ batch' = Tail(batch)
  BY DEF Ignore, emitVars, feedVars, portVars, itemVars
<1>2. DeliveryTypeOK'
  BY <1>1, FirstOfBatch DEF Ignore, Tracked, DeliveryTypeOK, emitVars, feedVars, portVars, itemVars
<1>3. \A p \in Port : Path(p)' = Path(p) /\ Waiting(p)' = Waiting(p) /\ Coming(p)' = Coming(p)
  BY <1>1 DEF Path, Waiting, Coming
<1>4. (OfItsFeed /\ Ordered)'
  BY <1>1, <1>3, BatchOrder
<1>5. (Lone(Whole) /\ Within(Whole, happened))'
  <2> DEFINE E == Whole
             F == Whole'
  <2>1. /\ \A a \in Place : a # <<"batch", None>> => F[a] = E[a]
        /\ E[<<"batch", None>>] = batch /\ F[<<"batch", None>>] = Tail(batch)
    BY <1>1, <1>3, Contents, Places DEF AsPlaced
  <2>2. Numbers(Tail(batch)) \subseteq Numbers(batch) /\ (Once(batch) => Once(Tail(batch)))
    BY <1>1, FirstOfBatch, Concat
  <2>3. \A a \in Place : Numbers(F[a]) \subseteq Numbers(E[a]) /\ (Once(E[a]) => Once(F[a]))
    BY <2>1, <2>2
  <2>4. Lone(E) /\ Within(E, happened) /\ happened \in Nat
    BY DEF Tracked, DeliveryTypeOK
  <2> HIDE DEF E, F
  <2>5. Lone(F) /\ Within(F, happened)
    BY <2>3, <2>4, Lost
  <2>6. QED
    BY <1>1, <2>5 DEF F
<1>6. (Counted /\ Queueing /\ Listed)'
  BY <1>1, <1>3 DEF Tracked, Counted, Queueing, Listed
<1>7. QED
  BY <1>2, <1>4, <1>5, <1>6 DEF Tracked

\* An event that the item's script is run for, whether the item has no port or
\* one whose task has gone.
LEMMA ScriptRuns ==
  ASSUME Tracked, batch # <<>>, batch' = Tail(batch), scripts' = Append(scripts, Head(batch)),
         UNCHANGED <<happened, queue, got, sending, backlog>>
  PROVE  (Lone(Whole) /\ Within(Whole, happened))' /\ NoneLost
<1> DEFINE E == Whole
           F == Whole'
           q == <<Head(batch)>>
           a == <<"batch", None>>
           b == <<"script", None>>
<1>1. /\ q \in Seq(Event) /\ Tail(batch) \in Seq(Event) /\ scripts \in Seq(Event)
      /\ batch = q \o Tail(batch) /\ scripts' = scripts \o q
  BY FirstOfBatch, OneEvent, Typed DEF Tracked
<1>2. \A p \in Port : Path(p)' = Path(p)
  BY DEF Path
<1>3. /\ a \in Place /\ b \in Place /\ a # b
      /\ E[a] = batch /\ F[a] = Tail(batch) /\ E[b] = scripts /\ F[b] = scripts'
      /\ \A c \in Place : c # a /\ c # b => F[c] = E[c]
  <2>1. a \in Place /\ b \in Place /\ a # b
    BY Places
  <2>2. E[a] = batch /\ F[a] = Tail(batch) /\ E[b] = scripts /\ F[b] = scripts'
    BY Contents DEF AsPlaced
  <2>3. \A s \in Source : F[<<"feed", s>>] = E[<<"feed", s>>]
    BY Contents DEF AsPlaced
  <2>4. \A p \in Port : F[<<"port", p>>] = E[<<"port", p>>]
    BY <1>2, Contents DEF AsPlaced
  <2> HIDE DEF E, F
  <2>5. QED
    BY <2>1, <2>2, <2>3, <2>4, Places
<1>4. Lone(E) /\ Within(E, happened) /\ happened \in Nat
  BY DEF Tracked, DeliveryTypeOK
<1>5. F[a] \in Seq(Event) /\ E[b] \in Seq(Event) /\ E[a] = q \o F[a] /\ F[b] = E[b] \o q
  BY <1>1, <1>3
<1> HIDE DEF E, F, q, a, b
<1>6. Lone(F) /\ Within(F, happened)
  BY <1>1, <1>3, <1>4, <1>5, Moved
<1>7. Known(E) \subseteq Known(F)
  <2>1. a \in Place /\ b \in Place /\ q \in Seq(Event)
    BY <1>1, <1>3
  <2>2. \A c \in Place : c # a /\ c # b => F[c] = E[c]
    BY <1>3
  <2>3. QED
    BY <1>5, <2>1, <2>2, MovedKept
<1>8. QED
  BY <1>6, <1>7 DEF E, F, NoneLost

LEMMA RunScriptKeeps ==
  ASSUME Tracked, RunScript
  PROVE  Tracked' /\ NoneLost
<1>1. /\ UNCHANGED <<happened, queue, stage, got, sending, backlog, depth, drain, opened,
                     port, holds, listed, leaving>>
      /\ stage = "dispatching" /\ batch # <<>> /\ batch' = Tail(batch)
      /\ scripts' = Append(scripts, Head(batch))
  BY DEF RunScript, emitVars, feedVars, portVars, itemVars
<1>2. DeliveryTypeOK'
  <2>1. scripts' \in Seq(Event) /\ batch' \in Seq(Event)
    BY <1>1, FirstOfBatch, Typed DEF Tracked
  <2>2. QED
    BY <1>1, <2>1 DEF RunScript, Tracked, DeliveryTypeOK, emitVars, feedVars, portVars, itemVars
<1>3. \A p \in Port : Path(p)' = Path(p) /\ Waiting(p)' = Waiting(p) /\ Coming(p)' = Coming(p)
  BY <1>1 DEF Path, Waiting, Coming
<1>4. (OfItsFeed /\ Ordered)'
  BY <1>1, <1>3, BatchOrder
<1>5. (Lone(Whole) /\ Within(Whole, happened))' /\ NoneLost
  BY <1>1, ScriptRuns
<1>6. (Counted /\ Queueing /\ Listed)'
  BY <1>1, <1>3 DEF Tracked, Counted, Queueing, Listed
<1>7. QED
  BY <1>2, <1>4, <1>5, <1>6 DEF Tracked

\* The queue that has closed takes the count back, and the port's place with it.
LEMMA RefusedKeeps ==
  ASSUME Tracked, Refused
  PROVE  Tracked' /\ NoneLost
<1>1. /\ UNCHANGED <<happened, queue, got, sending, backlog, drain, opened, holds, listed, leaving>>
      /\ stage = "queueing" /\ stage' = "dispatching" /\ batch' = Tail(batch)
      /\ scripts' = Append(scripts, Head(batch))
      /\ drain[port] = "gone" /\ port' = 0 /\ depth' = [depth EXCEPT ![port] = @ - 1]
  BY DEF Refused, emitVars, feedVars
<1>2. batch # <<>> /\ port \in Port
  BY <1>1, Typed DEF Tracked, Queueing
<1>3. depth[port] \in Nat /\ depth[port] >= 1
  BY <1>1, <1>2 DEF Tracked, Counted, Coming, DeliveryTypeOK
<1>4. DeliveryTypeOK'
  <2>1. scripts' \in Seq(Event) /\ batch' \in Seq(Event)
    BY <1>1, <1>2, FirstOfBatch, Typed DEF Tracked
  <2>2. depth[port] - 1 \in Nat
    BY <1>3
  <2>3. depth' \in [Port -> Nat]
    BY <1>1, <2>2 DEF Tracked, DeliveryTypeOK
  <2>4. 0 \in 0 .. opened
    BY DEF Tracked, DeliveryTypeOK
  <2>5. QED
    BY <1>1, <2>1, <2>3, <2>4 DEF Refused, Tracked, DeliveryTypeOK, emitVars, feedVars
<1>5. \A p \in Port : Path(p)' = Path(p) /\ Waiting(p)' = Waiting(p)
  BY <1>1 DEF Path, Waiting
<1>6. (OfItsFeed /\ Ordered)'
  BY <1>1, <1>2, <1>5, BatchOrder
<1>7. (Lone(Whole) /\ Within(Whole, happened))' /\ NoneLost
  BY <1>1, <1>2, ScriptRuns
<1>8. Counted'
  <2> SUFFICES ASSUME NEW p \in Port
               PROVE  /\ drain[p] = "sending" <=> sending[p] # <<>>
                      /\ p > opened => drain[p] = "recv" /\ Path(p) = <<>>
                      /\ drain[p] = "gone" => depth'[p] >= 0
                      /\ drain[p] # "gone" => depth'[p] = Waiting(p) + 0
    BY <1>1, <1>5 DEF Counted, Coming
  <2>1. depth'[p] \in Nat
    BY <1>4 DEF DeliveryTypeOK
  <2>2. drain[p] # "gone" => depth'[p] = depth[p] /\ Coming(p) = 0
    BY <1>1, <1>2 DEF Coming, Tracked, DeliveryTypeOK
  <2>3. QED
    BY <2>1, <2>2 DEF Tracked, Counted
<1>9. (Queueing /\ Listed)'
  BY <1>1 DEF Tracked, Queueing, Listed
<1>10. QED
  BY <1>4, <1>6, <1>7, <1>8, <1>9 DEF Tracked

\* The counted event goes behind whatever its port was given before.
LEMMA QueueForPortKeeps ==
  ASSUME Tracked, QueueForPort
  PROVE  Tracked' /\ NoneLost
<1> DEFINE e == Head(batch)
           q == <<e>>
           rest == Tail(batch)
           a == <<"batch", None>>
           b == <<"port", port>>
<1>1. /\ UNCHANGED <<happened, queue, scripts, got, sending, depth, drain, opened,
                     port, holds, listed, leaving>>
      /\ stage = "queueing" /\ stage' = "dispatching" /\ batch' = rest
      /\ drain[port] # "gone"
      /\ backlog' = [backlog EXCEPT ![port] = Append(@, e)]
  BY DEF QueueForPort, emitVars, feedVars, itemVars
<1>2. batch # <<>> /\ port \in Port /\ port # 0
  BY <1>1, Typed DEF Tracked, Queueing
<1>3. /\ e \in Event /\ q \in Seq(Event) /\ rest \in Seq(Event) /\ batch = q \o rest
      /\ InOrder(q) /\ InOrder(rest) /\ Ahead(q, rest)
      /\ \A s \in Source : Ahead(q, queue[s]) /\ Ahead(rest, queue[s])
      /\ Ahead(Path(port), q) /\ Ahead(Path(port), rest)
      /\ \A s \in Source : Ahead(Path(port), queue[s])
  BY <1>2, FirstOfBatch
<1>4. /\ got[port] \in Seq(Event) /\ sending[port] \in Seq(Event) /\ backlog[port] \in Seq(Event)
      /\ Path(port) \in Seq(Event)
  BY <1>2, PathTyped DEF Tracked
<1>5. /\ backlog'[port] = backlog[port] \o q
      /\ \A p \in Port : p # port => backlog'[p] = backlog[p]
  BY <1>1, <1>2, <1>3, <1>4, OneEvent DEF Tracked, DeliveryTypeOK
<1>6. DeliveryTypeOK'
  <2>1. backlog' \in [Port -> Seq(Event)]
    BY <1>1, <1>2, <1>3, <1>4 DEF Tracked, DeliveryTypeOK
  <2>2. QED
    BY <1>1, <1>3, <2>1 DEF QueueForPort, Tracked, DeliveryTypeOK, emitVars, feedVars, itemVars
<1> HIDE DEF q, rest, a, b
<1>7. /\ Path(port)' = Path(port) \o q
      /\ \A p \in Port : p # port => Path(p)' = Path(p)
  <2>1. got[port] \o sending[port] \in Seq(Event)
    BY <1>4, Concat
  <2>2. got[port] \o sending[port] \o backlog[port] \o q
          = got[port] \o sending[port] \o (backlog[port] \o q)
    BY <1>3, <1>4, <2>1, Regroup
  <2>3. QED
    BY <1>1, <1>5, <2>2 DEF Path
<1>8. (Lone(Whole) /\ Within(Whole, happened))' /\ NoneLost
  <2> DEFINE E == Whole
             F == Whole'
  <2>1. a \in Place /\ b \in Place /\ a # b
    BY <1>2, Places DEF a, b
  <2>2. E[a] = batch /\ F[a] = rest /\ E[b] = Path(port) /\ F[b] = Path(port)'
    BY <1>1, <1>2, Contents DEF AsPlaced, a, b
  <2>3. \A s \in Source : F[<<"feed", s>>] = E[<<"feed", s>>]
    BY <1>1, Contents DEF AsPlaced
  <2>4. \A p \in Port : p # port => F[<<"port", p>>] = E[<<"port", p>>]
    BY <1>7, Contents DEF AsPlaced
  <2>5. F[<<"script", None>>] = E[<<"script", None>>]
    BY <1>1, Contents DEF AsPlaced
  <2>6. Lone(E) /\ Within(E, happened) /\ happened \in Nat
    BY DEF Tracked, DeliveryTypeOK
  <2> HIDE DEF E, F
  <2>7. \A c \in Place : c # a /\ c # b => F[c] = E[c]
    BY <2>3, <2>4, <2>5, Places DEF a, b
  <2>8. F[a] \in Seq(Event) /\ E[b] \in Seq(Event) /\ E[a] = q \o F[a] /\ F[b] = E[b] \o q
    BY <1>3, <1>4, <1>7, <2>2
  <2>9. Lone(F) /\ Within(F, happened)
    BY <1>3, <2>1, <2>6, <2>7, <2>8, Moved
  <2>10. Known(E) \subseteq Known(F)
    <3>1. a \in Place /\ b \in Place /\ q \in Seq(Event)
      BY <1>3, <2>1
    <3>2. QED
      BY <2>7, <2>8, <3>1, MovedKept
  <2>11. QED
    BY <1>1, <2>9, <2>10 DEF E, F, NoneLost
<1>9. (OfItsFeed /\ Ordered)'
  <2>1. InOrder(Path(port) \o q)
    BY <1>2, <1>3, <1>4, Concat DEF Tracked, Ordered
  <2>2. Ahead(Path(port) \o q, rest) /\ \A s \in Source : Ahead(Path(port) \o q, queue[s])
    BY <1>3, <1>4, Typed, AheadOfBoth DEF Tracked
  <2>3. ASSUME NEW p \in Port PROVE InOrder(Path(p)')
    <3>1. CASE p = port
      <4>1. Path(p)' = Path(port)'
        BY <1>1, <3>1 DEF Path
      <4>2. QED
        BY <1>7, <2>1, <4>1
    <3>2. CASE p # port
      BY <1>7, <3>2 DEF Tracked, Ordered
    <3>3. QED
      BY <3>1, <3>2
  <2>4. QED
    BY <1>1, <1>3, <1>7, <2>2, <2>3 DEF Tracked, Ordered, OfItsFeed
<1>10. Counted'
  <2> SUFFICES ASSUME NEW p \in Port
               PROVE  /\ drain[p] = "sending" <=> sending[p] # <<>>
                      /\ p > opened => drain[p] = "recv" /\ Path(p)' = <<>>
                      /\ drain[p] = "gone" => depth[p] >= 0
                      /\ drain[p] # "gone" => depth[p] = Waiting(p)' + 0
    BY <1>1 DEF Counted, Coming
  <2>1. /\ drain[p] = "sending" <=> sending[p] # <<>>
        /\ p > opened => drain[p] = "recv" /\ Path(p) = <<>>
        /\ drain[p] # "gone" => depth[p] = Waiting(p) + Coming(p)
    BY DEF Tracked, Counted
  <2>2. depth[p] \in Nat
    BY DEF Tracked, DeliveryTypeOK
  <2>3. CASE p # port
    <3>1. Waiting(p)' = Waiting(p) /\ Coming(p) = 0
      BY <1>1, <1>5, <2>3 DEF Waiting, Coming
    <3>2. QED
      BY <1>7, <2>1, <2>2, <2>3, <3>1
  <2>4. CASE p = port
    <3>1. Waiting(p)' = Waiting(p) + 1
      <4>1. PICK n \in Nat, m \in Nat : n = Len(backlog[p]) /\ m = Len(sending[p])
        BY <1>4, <2>4
      <4>2. Len(backlog'[p]) = n + 1
        BY <1>3, <1>4, <1>5, <2>4, <4>1 DEF q
      <4>3. Waiting(p) = n + m /\ Waiting(p)' = n + 1 + m
        BY <1>1, <4>1, <4>2 DEF Waiting
      <4>4. QED
        BY <4>3
    <3>2. Coming(p) = 1 /\ ~(p > opened)
      BY <1>1, <1>2, <2>4 DEF Coming, Tracked, DeliveryTypeOK
    <3>3. Waiting(p) \in Nat
      BY WaitingTyped DEF Tracked
    <3>4. QED
      BY <2>1, <2>2, <3>1, <3>2, <3>3
  <2>5. QED
    BY <2>3, <2>4
<1>11. (Queueing /\ Listed)'
  BY <1>1 DEF Tracked, Queueing, Listed
<1>12. QED
  BY <1>6, <1>8, <1>9, <1>10, <1>11 DEF Tracked

\* A channel goes with whatever is in it.
LEMMA SettleKeeps ==
  ASSUME Tracked, Settle
  PROVE  Tracked'
<1>1. /\ UNCHANGED <<happened, batch, scripts, got, sending, backlog, depth, drain, opened,
                     port, holds, listed, leaving>>
      /\ stage = "dispatching" /\ stage' = "parked"
  BY DEF Settle, emitVars, portVars, itemVars
<1>2. PICK gone \in SUBSET (up \ holds) :
        /\ up' = (up \cup holds) \ gone
        /\ queue' = [s \in Source |-> IF s \in gone THEN <<>> ELSE queue[s]]
  BY DEF Settle
<1>3. \A s \in Source : queue'[s] = queue[s] \/ queue'[s] = <<>>
  BY <1>2
<1>4. \A s \in Source : queue[s] \in Seq(Event) /\ queue'[s] \in Seq(Event)
  BY <1>3, Typed, Nothing DEF Tracked
<1>5. DeliveryTypeOK'
  <2>1. queue' \in [Source -> Seq(Event)]
    BY <1>2, <1>4
  <2>2. up' \subseteq Source
    BY <1>2 DEF Tracked, DeliveryTypeOK
  <2>3. QED
    BY <1>1, <2>1, <2>2 DEF Settle, Tracked, DeliveryTypeOK, emitVars, portVars, itemVars
<1>6. \A p \in Port : Path(p)' = Path(p) /\ Waiting(p)' = Waiting(p) /\ Coming(p)' = Coming(p)
  BY <1>1 DEF Path, Waiting, Coming
<1>7. (Lone(Whole) /\ Within(Whole, happened))'
  <2> DEFINE E == Whole
             F == Whole'
  <2>1. \A s \in Source : E[<<"feed", s>>] = queue[s] /\ F[<<"feed", s>>] = queue'[s]
    BY Contents DEF AsPlaced
  <2>2. \A p \in Port : F[<<"port", p>>] = E[<<"port", p>>]
    BY <1>6, Contents DEF AsPlaced
  <2>3. F[<<"batch", None>>] = E[<<"batch", None>>] /\ F[<<"script", None>>] = E[<<"script", None>>]
    BY <1>1, Contents DEF AsPlaced
  <2>4. Lone(E) /\ Within(E, happened) /\ happened \in Nat
    BY DEF Tracked, DeliveryTypeOK
  <2> HIDE DEF E, F
  <2>5. \A a \in Place : F[a] = E[a] \/ F[a] = <<>>
    BY <1>3, <2>1, <2>2, <2>3, Places
  <2>6. \A a \in Place : Numbers(F[a]) \subseteq Numbers(E[a]) /\ (Once(E[a]) => Once(F[a]))
    BY <2>5, Nothing
  <2>7. Lone(F) /\ Within(F, happened)
    BY <2>4, <2>6, Lost
  <2>8. QED
    BY <1>1, <2>7 DEF F
<1>8. OfItsFeed'
  <2>1. \A s : AllFrom(<<>>, s)
    BY DEF AllFrom
  <2>2. QED
    BY <1>3, <2>1 DEF Tracked, OfItsFeed
<1>9. Ordered'
  <2>1. \A s \in Source : InOrder(queue'[s]) /\ Ahead(batch, queue'[s])
    BY <1>3, Nothing, Typed DEF Tracked, Ordered
  <2>2. ASSUME port # 0 PROVE Ahead(Path(port)', batch) /\ \A s \in Source : Ahead(Path(port)', queue'[s])
    <3>1. port \in Port /\ Path(port)' = Path(port) /\ Path(port) \in Seq(Event)
      BY <1>1, <1>6, <2>2, Typed DEF Tracked, Path
    <3>2. Ahead(Path(port), batch) /\ \A s \in Source : Ahead(Path(port), queue[s])
      BY <2>2 DEF Tracked, Ordered
    <3>3. QED
      BY <1>3, <3>1, <3>2, Nothing
  <2>3. (\A p \in Port : InOrder(Path(p)')) /\ InOrder(batch')
    BY <1>1, <1>6 DEF Tracked, Ordered
  <2>4. QED
    BY <1>1, <2>1, <2>2, <2>3 DEF Ordered
<1>10. (Counted /\ Queueing /\ Listed)'
  BY <1>1, <1>6 DEF Tracked, Counted, Queueing, Listed
<1>11. QED
  BY <1>5, <1>7, <1>8, <1>9, <1>10 DEF Tracked

\* What a feed hands over goes behind what is drained already; it has no order to
\* keep to what other feeds still hold.
LEMMA VisitFeedKeeps ==
  ASSUME Tracked, NEW t \in Source, VisitFeed(t)
  PROVE  Tracked' /\ NoneLost
<1> DEFINE q == SubSeq(queue[t], 1, HandedOver(t))
           rest == SubSeq(queue[t], HandedOver(t) + 1, Len(queue[t]))
           a == <<"feed", t>>
           b == <<"batch", None>>
<1>1. /\ UNCHANGED <<happened, scripts, stage, got, sending, backlog, depth, drain, opened,
                     port, holds, listed, leaving>>
      /\ stage = "draining" /\ batch' = batch \o q
      /\ queue' = [queue EXCEPT ![t] = rest]
      /\ todo' = todo \ {t} /\ turn' = t
  BY DEF VisitFeed, emitVars, portVars, itemVars
<1>2. batch \in Seq(Event) /\ \A s \in Source : queue[s] \in Seq(Event)
  BY Typed DEF Tracked
<1>3. q \in Seq(Event) /\ rest \in Seq(Event) /\ queue[t] = q \o rest
  <2>1. HandedOver(t) \in 0 .. Len(queue[t])
    BY <1>2, DeliveryAssumption DEF HandedOver
  <2>2. QED
    BY <1>2, <2>1, FrontAndRest
<1>4. queue'[t] = rest /\ \A s \in Source : s # t => queue'[s] = queue[s]
  BY <1>1 DEF Tracked, DeliveryTypeOK
<1> HIDE DEF q, rest, a, b
<1>5. DeliveryTypeOK'
  <2>1. queue' \in [Source -> Seq(Event)] /\ batch' \in Seq(Event)
    BY <1>1, <1>2, <1>3, Concat DEF Tracked, DeliveryTypeOK
  <2>2. QED
    BY <1>1, <2>1 DEF VisitFeed, Tracked, DeliveryTypeOK, emitVars, portVars, itemVars
<1>6. \A p \in Port : Path(p)' = Path(p) /\ Waiting(p)' = Waiting(p) /\ Coming(p)' = Coming(p)
  BY <1>1 DEF Path, Waiting, Coming
<1>7. (Lone(Whole) /\ Within(Whole, happened))' /\ NoneLost
  <2> DEFINE E == Whole
             F == Whole'
  <2>1. a \in Place /\ b \in Place /\ a # b
    BY Places DEF a, b
  <2>2. E[a] = queue[t] /\ F[a] = rest /\ E[b] = batch /\ F[b] = batch'
    BY <1>4, Contents DEF AsPlaced, a, b
  <2>3. \A s \in Source : s # t => F[<<"feed", s>>] = E[<<"feed", s>>]
    BY <1>4, Contents DEF AsPlaced
  <2>4. \A p \in Port : F[<<"port", p>>] = E[<<"port", p>>]
    BY <1>6, Contents DEF AsPlaced
  <2>5. F[<<"script", None>>] = E[<<"script", None>>]
    BY <1>1, Contents DEF AsPlaced
  <2>6. Lone(E) /\ Within(E, happened) /\ happened \in Nat
    BY DEF Tracked, DeliveryTypeOK
  <2> HIDE DEF E, F
  <2>7. \A c \in Place : c # a /\ c # b => F[c] = E[c]
    BY <2>3, <2>4, <2>5, Places DEF a, b
  <2>8. F[a] \in Seq(Event) /\ E[b] \in Seq(Event) /\ E[a] = q \o F[a] /\ F[b] = E[b] \o q
    BY <1>1, <1>2, <1>3, <2>2
  <2>9. Lone(F) /\ Within(F, happened)
    BY <1>3, <2>1, <2>6, <2>7, <2>8, Moved
  <2>10. Known(E) \subseteq Known(F)
    <3>1. a \in Place /\ b \in Place /\ q \in Seq(Event)
      BY <1>3, <2>1
    <3>2. QED
      BY <2>7, <2>8, <3>1, MovedKept
  <2>11. QED
    BY <1>1, <2>9, <2>10 DEF E, F, NoneLost
<1>8. AllFrom(q, t) /\ AllFrom(rest, t)
  <2>1. AllFrom(q \o rest, t)
    BY <1>3 DEF Tracked, OfItsFeed
  <2>2. QED
    BY <1>3, <2>1, FromElsewhere
<1>9. OfItsFeed'
  BY <1>4, <1>8 DEF Tracked, OfItsFeed
<1>10. Ordered'
  <2>1. /\ InOrder(q) /\ InOrder(rest) /\ Ahead(q, rest)
        /\ Ahead(batch, q) /\ Ahead(batch, rest)
    <3>1. InOrder(q \o rest) /\ Ahead(batch, q \o rest)
      BY <1>3 DEF Tracked, Ordered
    <3>2. QED
      BY <1>2, <1>3, <3>1, Concat, AheadOfBoth
  <2>2. InOrder(batch')
    BY <1>1, <1>2, <1>3, <2>1, Concat DEF Tracked, Ordered
  <2>3. ASSUME NEW s \in Source PROVE InOrder(queue'[s]) /\ Ahead(batch', queue'[s])
    <3>1. CASE s = t
      BY <1>1, <1>2, <1>3, <1>4, <2>1, <3>1, AheadOfBoth
    <3>2. CASE s # t
      <4>1. Ahead(q, queue[s])
        BY <1>2, <1>3, <1>8, <3>2, FromElsewhere DEF Tracked, OfItsFeed
      <4>2. QED
        BY <1>1, <1>2, <1>3, <1>4, <3>2, <4>1, AheadOfBoth DEF Tracked, Ordered
    <3>3. QED
      BY <3>1, <3>2
  <2>4. ASSUME port # 0
        PROVE  Ahead(Path(port)', batch') /\ \A s \in Source : Ahead(Path(port)', queue'[s])
    <3>1. port \in Port /\ Path(port)' = Path(port) /\ Path(port) \in Seq(Event)
      BY <1>1, <1>6, <2>4, Typed DEF Tracked, Path
    <3>2. Ahead(Path(port), batch) /\ \A s \in Source : Ahead(Path(port), queue[s])
      BY <2>4 DEF Tracked, Ordered
    <3>3. Ahead(Path(port), q) /\ Ahead(Path(port), rest)
      <4>1. Ahead(Path(port), q \o rest)
        BY <1>3, <3>2
      <4>2. QED
        BY <1>3, <3>1, <4>1, AheadOfBoth
    <3>4. QED
      BY <1>1, <1>2, <1>3, <1>4, <3>1, <3>2, <3>3, AheadOfBoth
  <2>5. \A p \in Port : InOrder(Path(p)')
    BY <1>6 DEF Tracked, Ordered
  <2>6. QED
    BY <1>1, <2>2, <2>3, <2>4, <2>5 DEF Ordered
<1>11. (Counted /\ Queueing /\ Listed)'
  BY <1>1, <1>6 DEF Tracked, Counted, Queueing, Listed
<1>12. QED
  BY <1>5, <1>7, <1>9, <1>10, <1>11 DEF Tracked

\* What has just happened is behind whatever has happened before, wherever that
\* has got to.
LEMMA EmitKeeps ==
  ASSUME Tracked, NEW t \in Source, Emit(t)
  PROVE  Tracked' /\ NoneLost
<1> DEFINE e == [from |-> t, nr |-> happened + 1]
           a == <<"feed", t>>
<1>1. /\ UNCHANGED <<batch, scripts, stage, got, sending, backlog, depth, drain, opened,
                     port, holds, listed, leaving>>
      /\ happened < MaxEvents /\ happened' = happened + 1
      /\ queue' = [queue EXCEPT ![t] = Append(@, e)]
      /\ producer' = [producer EXCEPT ![t] = "queued"]
  BY DEF Emit, passVars, portVars, itemVars
<1>2. batch \in Seq(Event) /\ \A s \in Source : queue[s] \in Seq(Event)
  BY Typed DEF Tracked
<1>3. happened \in Nat /\ happened + 1 \in 1 .. MaxEvents
  BY <1>1, DeliveryAssumption DEF Tracked, DeliveryTypeOK
<1>4. e \in Event /\ e.nr = happened + 1 /\ e.from = t
  BY <1>3 DEF Event
<1>5. /\ queue'[t] = Append(queue[t], e) /\ \A s \in Source : s # t => queue'[s] = queue[s]
  BY <1>1 DEF Tracked, DeliveryTypeOK
<1> HIDE DEF e, a
<1>6. <<e>> \in Seq(Event) /\ InOrder(<<e>>) /\ queue'[t] = queue[t] \o <<e>>
  BY <1>2, <1>4, <1>5, OneEvent
<1>7. DeliveryTypeOK'
  <2>1. Append(queue[t], e) \in Seq(Event)
    BY <1>2, <1>4
  <2>2. queue' \in [Source -> Seq(Event)]
    BY <1>1, <2>1 DEF Tracked, DeliveryTypeOK, e
  <2>3. happened' \in 0 .. MaxEvents
    BY <1>1, <1>3
  <2>4. producer' \in [Source -> {"idle", "queued", "flagged"}]
    BY <1>1 DEF Tracked, DeliveryTypeOK
  <2>5. QED
    BY <1>1, <2>2, <2>3, <2>4 DEF Emit, Tracked, DeliveryTypeOK, passVars, portVars, itemVars
<1>8. \A p \in Port : Path(p)' = Path(p) /\ Waiting(p)' = Waiting(p) /\ Coming(p)' = Coming(p)
  BY <1>1 DEF Path, Waiting, Coming
<1>9. (Lone(Whole) /\ Within(Whole, happened))' /\ NoneLost
  <2> DEFINE E == Whole
             F == Whole'
  <2>1. a \in Place
    BY Places DEF a
  <2>2. E[a] = queue[t] /\ F[a] = queue'[t]
    BY Contents DEF AsPlaced, a
  <2>3. \A s \in Source : s # t => F[<<"feed", s>>] = E[<<"feed", s>>]
    BY <1>5, Contents DEF AsPlaced
  <2>4. \A p \in Port : F[<<"port", p>>] = E[<<"port", p>>]
    BY <1>8, Contents DEF AsPlaced
  <2>5. F[<<"batch", None>>] = E[<<"batch", None>>] /\ F[<<"script", None>>] = E[<<"script", None>>]
    BY <1>1, Contents DEF AsPlaced
  <2>6. Lone(E) /\ Within(E, happened)
    BY DEF Tracked
  <2> HIDE DEF E, F
  <2>7. \A c \in Place : c # a => F[c] = E[c]
    BY <2>3, <2>4, <2>5, Places DEF a
  <2>8. E[a] \in Seq(Event) /\ F[a] = E[a] \o <<e>>
    BY <1>2, <1>6, <2>2
  <2>9. Lone(F) /\ Within(F, happened + 1) /\ Known(E) \subseteq Known(F)
    BY <1>3, <1>4, <2>1, <2>6, <2>7, <2>8, Happened
  <2>10. QED
    BY <1>1, <2>9 DEF E, F, NoneLost
<1>10. ASSUME NEW q, Numbers(q) \subseteq 1 .. happened PROVE Ahead(q, <<e>>)
  <2> SUFFICES ASSUME NEW i \in DOMAIN q, NEW j \in DOMAIN <<e>> PROVE q[i].nr < <<e>>[j].nr
    BY DEF Ahead
  <2>1. q[i].nr \in 1 .. happened
    BY <1>10 DEF Numbers
  <2>2. j = 1 /\ <<e>>[j] = e
    OBVIOUS
  <2>3. QED
    BY <1>3, <1>4, <2>1, <2>2
<1>11. /\ \A s \in Source : Numbers(queue[s]) \subseteq 1 .. happened
       /\ \A p \in Port : Numbers(Path(p)) \subseteq 1 .. happened
       /\ Numbers(batch) \subseteq 1 .. happened
  BY Contents, Places DEF Tracked, Within, AsPlaced
<1>12. OfItsFeed'
  <2>1. AllFrom(<<e>>, t)
    BY <1>4 DEF AllFrom
  <2>2. AllFrom(queue[t] \o <<e>>, t)
    BY <1>2, <1>6, <2>1, FromElsewhere DEF Tracked, OfItsFeed
  <2>3. QED
    BY <1>5, <1>6, <2>2 DEF Tracked, OfItsFeed
<1>13. Ordered'
  <2>1. InOrder(queue'[t]) /\ Ahead(batch, queue'[t])
    <3>1. Ahead(queue[t], <<e>>) /\ Ahead(batch, <<e>>)
      BY <1>10, <1>11
    <3>2. InOrder(queue[t]) /\ Ahead(batch, queue[t])
      BY DEF Tracked, Ordered
    <3>3. InOrder(queue[t] \o <<e>>)
      BY <1>2, <1>6, <3>1, <3>2, Concat
    <3>4. Ahead(batch, queue[t] \o <<e>>)
      BY <1>2, <1>6, <3>1, <3>2, AheadOfBoth
    <3>5. QED
      BY <1>6, <3>3, <3>4
  <2>2. ASSUME port # 0 PROVE Ahead(Path(port)', batch') /\ \A s \in Source : Ahead(Path(port)', queue'[s])
    <3>1. port \in Port /\ Path(port)' = Path(port) /\ Path(port) \in Seq(Event)
      BY <1>1, <1>8, <2>2, Typed DEF Tracked, Path
    <3>2. Ahead(Path(port), batch) /\ \A s \in Source : Ahead(Path(port), queue[s])
      BY <2>2 DEF Tracked, Ordered
    <3>3. Ahead(Path(port), <<e>>)
      BY <1>10, <1>11, <3>1
    <3>4. Ahead(Path(port), queue'[t])
      <4>1. Ahead(Path(port), queue[t] \o <<e>>)
        BY <1>2, <1>6, <3>1, <3>2, <3>3, AheadOfBoth
      <4>2. QED
        BY <1>6, <4>1
    <3>5. QED
      BY <1>1, <1>5, <3>1, <3>2, <3>4
  <2>3. (\A p \in Port : InOrder(Path(p)')) /\ InOrder(batch')
    BY <1>1, <1>8 DEF Tracked, Ordered
  <2>4. QED
    BY <1>1, <1>5, <2>1, <2>2, <2>3 DEF Tracked, Ordered
<1>14. (Counted /\ Queueing /\ Listed)'
  BY <1>1, <1>8 DEF Tracked, Counted, Queueing, Listed
<1>15. QED
  BY <1>7, <1>9, <1>12, <1>13, <1>14 DEF Tracked

-----------------------------------------------------------------------------
LEMMA TrackedFromTheStart == DeliveryInit => Tracked
<1> SUFFICES ASSUME DeliveryInit PROVE Tracked
  OBVIOUS
<1>1. DeliveryTypeOK
  BY DeliveryAssumption, Nothing DEF DeliveryInit, DeliveryTypeOK
<1>2. \A p \in Port : Path(p) = <<>>
  BY Nothing DEF DeliveryInit, Path
<1>3. \A s \in Source : queue[s] = <<>>
  BY DEF DeliveryInit
<1>4. batch = <<>> /\ scripts = <<>> /\ port = 0 /\ happened = 0
  BY DEF DeliveryInit
<1>5. \A a \in Place : Whole[a] = <<>>
  BY <1>2, <1>3, <1>4, Contents, Places DEF AsPlaced
<1>6. Lone(Whole) /\ Within(Whole, happened)
  BY <1>5, Nothing DEF Lone, Within, Apart
<1>7. Ordered
  BY <1>2, <1>3, <1>4, Nothing DEF Ordered
<1>8. OfItsFeed
  BY <1>3 DEF OfItsFeed, AllFrom
<1>9. Counted
  <2>1. \A p \in Port : Waiting(p) = 0 /\ Coming(p) = 0
    BY DEF DeliveryInit, Waiting, Coming
  <2>2. QED
    BY <1>2, <2>1 DEF DeliveryInit, Counted
<1>10. Queueing /\ Listed
  BY DEF DeliveryInit, Queueing, Listed
<1>11. QED
  BY <1>1, <1>6, <1>7, <1>8, <1>9, <1>10 DEF Tracked

LEMMA TrackedAlways == DeliverySpec => []Tracked
<1>1. Tracked /\ [DeliveryNext]_deliveryVars => Tracked'
  <2> SUFFICES ASSUME Tracked, [DeliveryNext]_deliveryVars PROVE Tracked'
    OBVIOUS
  <2>1. CASE PassElsewhere \/ BeginDrain \/ LeaveFeed \/ EndDrain \/ UNCHANGED deliveryVars
    BY <2>1, BesideKeeps
  <2>2. ASSUME NEW s \in Source, FlagReady(s) \/ WakeApp(s) PROVE Tracked'
    BY <2>2, BesideKeeps
  <2>3. ASSUME NEW s \in Source, Emit(s) \/ VisitFeed(s) PROVE Tracked'
    BY <2>3, EmitKeeps, VisitFeedKeeps
  <2>4. CASE Flush \/ Ignore \/ RunScript \/ Count \/ QueueForPort \/ Refused \/ Settle
    BY <2>4, FlushKeeps, IgnoreKeeps, RunScriptKeeps, CountKeeps, QueueForPortKeeps, RefusedKeeps,
       SettleKeeps
  <2>5. ASSUME NEW kinds \in Interests, NEW attach \in BOOLEAN, Subscribe(kinds, attach)
        PROVE  Tracked'
    BY <2>5, SubscribeKeeps
  <2>6. ASSUME NEW p \in Port, Task(p) \/ ClientExits(p) PROVE Tracked'
    BY <2>6, RecvKeeps, HandOverKeeps, SendFailsKeeps, FindGoneKeeps, ClientExitsKeeps DEF Task
  <2>7. QED
    BY <2>1, <2>2, <2>3, <2>4, <2>5, <2>6 DEF DeliveryNext, PassStep, Emitting
<1>2. QED
  BY TrackedFromTheStart, <1>1, PTL DEF DeliverySpec

\* Every variable of the delivery has its type; in particular no port's depth
\* goes below zero.
THEOREM DeliveryTyped == DeliverySpec => []DeliveryTypeOK
<1>1. Tracked => DeliveryTypeOK
  BY DEF Tracked
<1>2. QED
  BY TrackedAlways, <1>1, PTL

\* Whatever the pass, the item's subscriptions, the ports' tasks and their
\* clients do, an event is in one place once, behind whatever of its source
\* happened before it, and a port's depth is what it has been given and its
\* client has not.
THEOREM HandledInOrder == DeliverySpec => []OnceInOrder
<1>1. Tracked => OnceInOrder
  <2> SUFFICES ASSUME Tracked PROVE OnceInOrder
    OBVIOUS
  <2>1. PortOrder
    BY OrderedPorts DEF Tracked
  <2>2. HandledOnce
    BY LoneHandledOnce DEF Tracked
  <2>3. DepthCounts
    BY DEF Tracked, Counted, DepthCounts, Waiting, Coming
  <2>4. QED
    BY <2>1, <2>2, <2>3 DEF OnceInOrder
<1>2. QED
  BY TrackedAlways, <1>1, PTL

-----------------------------------------------------------------------------
(* What is lost, and when.                                                   *)

\* The places hold what is on its way and what has arrived.
LEMMA Everywhere == DeliveryTypeOK => Known(Whole) = Moving \cup Arrived
<1> SUFFICES ASSUME DeliveryTypeOK PROVE Known(Whole) = Moving \cup Arrived
  OBVIOUS
<1>0. /\ \A n : n \in Moving <=> \/ \E s \in Source : n \in Numbers(queue[s])
                                 \/ n \in Numbers(batch)
                                 \/ \E p \in Port : n \in Numbers(sending[p] \o backlog[p])
      /\ \A n : n \in Arrived <=> n \in Numbers(scripts) \/ \E p \in Port : n \in Numbers(got[p])
  <2> DEFINE feeds == UNION {Numbers(queue[s]) : s \in Source}
             ports == UNION {Numbers(sending[p] \o backlog[p]) : p \in Port}
             theirs == UNION {Numbers(got[p]) : p \in Port}
  <2>1. \A n : n \in feeds <=> \E s \in Source : n \in Numbers(queue[s])
    OBVIOUS
  <2>2. \A n : n \in ports <=> \E p \in Port : n \in Numbers(sending[p] \o backlog[p])
    OBVIOUS
  <2>3. \A n : n \in theirs <=> \E p \in Port : n \in Numbers(got[p])
    OBVIOUS
  <2>4. Moving = feeds \cup Numbers(batch) \cup ports
    BY DEF Moving
  <2>5. Arrived = Numbers(scripts) \cup theirs
    BY DEF Arrived
  <2> HIDE DEF feeds, ports, theirs
  <2>6. QED
    BY <2>1, <2>2, <2>3, <2>4, <2>5
<1>1. ASSUME NEW p \in Port
      PROVE  Numbers(Path(p)) = Numbers(got[p]) \cup Numbers(sending[p] \o backlog[p])
  <2>1. got[p] \in Seq(Event) /\ sending[p] \in Seq(Event) /\ backlog[p] \in Seq(Event)
    BY PathTyped
  <2>2. sending[p] \o backlog[p] \in Seq(Event)
    BY <2>1, Concat
  <2>3. Path(p) = got[p] \o (sending[p] \o backlog[p])
    BY <2>1, Regroup DEF Path
  <2>4. QED
    BY <2>1, <2>2, <2>3, Concat
<1>2. ASSUME NEW n \in Known(Whole) PROVE n \in Moving \cup Arrived
  <2>1. PICK a \in Place : n \in Numbers(Whole[a])
    BY <1>2 DEF Known
  <2>2. \/ \E s \in Source : n \in Numbers(queue[s])
        \/ \E p \in Port : n \in Numbers(Path(p))
        \/ n \in Numbers(batch) \/ n \in Numbers(scripts)
    BY <2>1, Places, Contents DEF AsPlaced
  <2>3. QED
    BY <1>0, <1>1, <2>2
<1>3. ASSUME NEW n \in Moving \cup Arrived PROVE n \in Known(Whole)
  <2>1. \/ \E s \in Source : n \in Numbers(queue[s])
        \/ \E p \in Port : n \in Numbers(Path(p))
        \/ n \in Numbers(batch) \/ n \in Numbers(scripts)
    BY <1>0, <1>1, <1>3
  <2>2. \E a \in Place : n \in Numbers(Whole[a])
    BY <2>1, Places, Contents DEF AsPlaced
  <2>3. QED
    BY <2>2 DEF Known
<1>4. QED
  BY <1>2, <1>3

Excused(n) ==
  \/ \E s \in Source \ listed :
       n \in Numbers(queue[s]) \/ (batch # <<>> /\ Head(batch) = [from |-> s, nr |-> n])
  \/ \E p \in Port \ peer : n \in Numbers(Path(p))
  \/ \E p \in Port : n \in Numbers(sending[p])

\* A number that is at some place before a step and at none after it.
LEMMA WhereLost ==
  ASSUME NEW n \in Known(Whole), n \notin Known(Whole')
  PROVE  /\ \/ \E s \in Source : n \in Numbers(queue[s]) /\ n \notin Numbers(queue'[s])
            \/ \E p \in Port : n \in Numbers(Path(p)) /\ n \notin Numbers(Path(p)')
            \/ n \in Numbers(batch) /\ n \notin Numbers(batch')
            \/ n \in Numbers(scripts) /\ n \notin Numbers(scripts')
<1>1. PICK a \in Place : n \in Numbers(Whole[a])
  BY DEF Known
<1>2. n \notin Numbers(Whole'[a])
  BY <1>1 DEF Known
<1>3. QED
  BY <1>1, <1>2, Places, Contents DEF AsPlaced

LEMMA LossExcused ==
  ASSUME Tracked, Ignore \/ Settle \/ \E p \in Port : SendFails(p) \/ FindGone(p),
         NEW n \in Known(Whole), n \notin Known(Whole')
  PROVE  Excused(n)
<1>1. CASE Ignore
  <2>1. /\ UNCHANGED <<queue, scripts, got, sending, backlog>>
        /\ batch # <<>> /\ batch' = Tail(batch) /\ Head(batch).from \notin listed
    BY <1>1 DEF Ignore, feedVars, portVars
  <2>2. \A p \in Port : Path(p)' = Path(p)
    BY <2>1 DEF Path
  <2>3. n \in Numbers(batch) /\ n \notin Numbers(Tail(batch))
    BY <2>1, <2>2, WhereLost
  <2>4. Numbers(batch) = Numbers(<<Head(batch)>>) \cup Numbers(Tail(batch))
    <3>1. /\ <<Head(batch)>> \in Seq(Event) /\ Tail(batch) \in Seq(Event)
          /\ batch = <<Head(batch)>> \o Tail(batch)
      BY <2>1, FirstOfBatch
    <3>2. Numbers(<<Head(batch)>> \o Tail(batch)) = Numbers(<<Head(batch)>>) \cup Numbers(Tail(batch))
      BY <3>1, Concat
    <3>3. QED
      BY <3>1, <3>2
  <2>5. Head(batch) \in Event
    BY <2>1, FirstOfBatch
  <2>6. Head(batch).nr = n
    BY <2>3, <2>4, <2>5, OneEvent
  <2>7. Head(batch) = [from |-> Head(batch).from, nr |-> n] /\ Head(batch).from \in Source
    BY <2>5, <2>6 DEF Event
  <2>8. QED
    BY <2>1, <2>7 DEF Excused
<1>2. CASE Settle
  <2>1. PICK gone \in SUBSET (up \ holds) :
          queue' = [s \in Source |-> IF s \in gone THEN <<>> ELSE queue[s]]
    BY <1>2 DEF Settle
  <2>2. UNCHANGED <<batch, scripts, got, sending, backlog>> /\ stage = "dispatching"
    BY <1>2 DEF Settle, portVars
  <2>3. \A p \in Port : Path(p)' = Path(p)
    BY <2>2 DEF Path
  <2>4. PICK s \in Source : n \in Numbers(queue[s]) /\ n \notin Numbers(queue'[s])
    BY <2>2, <2>3, WhereLost
  <2>5. s \in gone
    BY <2>1, <2>4
  <2>6. s \notin listed
    BY <2>1, <2>2, <2>5 DEF Tracked, Listed
  <2>7. QED
    BY <2>4, <2>6 DEF Excused
<1>3. ASSUME NEW q \in Port, SendFails(q) PROVE Excused(n)
  <2>1. UNCHANGED <<queue, batch, scripts, got, backlog>> /\ sending' = [sending EXCEPT ![q] = <<>>]
    BY <1>3 DEF SendFails, feedVars, passVars
  <2>2. \A p \in Port : p # q => sending'[p] = sending[p]
    BY <2>1 DEF Tracked, DeliveryTypeOK
  <2>3. n \in Numbers(Path(q)) /\ n \notin Numbers(Path(q)')
    <3>1. \A p \in Port : p # q => Path(p)' = Path(p)
      BY <2>1, <2>2 DEF Path
    <3>2. QED
      BY <2>1, <3>1, WhereLost
  <2>4. /\ got[q] \in Seq(Event) /\ sending[q] \in Seq(Event) /\ backlog[q] \in Seq(Event)
        /\ got[q] \o sending[q] \in Seq(Event)
    BY PathTyped, Concat DEF Tracked
  <2>5. Numbers(Path(q)) = Numbers(got[q]) \cup Numbers(sending[q]) \cup Numbers(backlog[q])
    BY <2>4, Concat DEF Path
  <2>6. Numbers(Path(q)') = Numbers(got[q]) \cup Numbers(backlog[q])
    <3>1. sending'[q] = <<>> /\ got[q] \o <<>> = got[q]
      BY <2>1, <2>4, Nothing DEF Tracked, DeliveryTypeOK
    <3>2. Path(q)' = got[q] \o backlog[q]
      BY <2>1, <3>1 DEF Path
    <3>3. QED
      BY <2>4, <3>2, Concat
  <2>7. QED
    BY <2>3, <2>5, <2>6 DEF Excused
<1>4. ASSUME NEW q \in Port, FindGone(q) PROVE Excused(n)
  <2>1. /\ UNCHANGED <<queue, batch, scripts, got>> /\ q \notin peer
        /\ sending' = [sending EXCEPT ![q] = <<>>] /\ backlog' = [backlog EXCEPT ![q] = <<>>]
    BY <1>4 DEF FindGone, feedVars, passVars
  <2>2. \A p \in Port : p # q => Path(p)' = Path(p)
    BY <2>1 DEF Path, Tracked, DeliveryTypeOK
  <2>3. n \in Numbers(Path(q))
    BY <2>1, <2>2, WhereLost
  <2>4. QED
    BY <2>1, <2>3 DEF Excused
<1>5. QED
  BY <1>1, <1>2, <1>3, <1>4

\* An event that a source handed in is not lost on its way: only with a list the
\* item is not on, with a client that has exited, or with the one message the
\* kernel refused.
THEOREM NothingDropped == DeliverySpec => NeverDropped
<1> DEFINE All == Moving \cup Arrived
<1>1. Tracked /\ Tracked' /\ [DeliveryNext]_deliveryVars
        => [\A n \in All \ All' : Excused(n)]_deliveryVars
  <2> SUFFICES ASSUME Tracked, Tracked', DeliveryNext, NEW n \in All \ All' PROVE Excused(n)
    OBVIOUS
  <2>1. Known(Whole) = All
    BY Everywhere DEF Tracked
  <2>2. (Known(Whole) = All)'
    <3>1. (DeliveryTypeOK => Known(Whole) = All)'
      BY Everywhere, PTL
    <3>2. QED
      BY <3>1 DEF Tracked
  <2> HIDE DEF All
  <2>3. n \in Known(Whole) /\ n \notin Known(Whole')
    BY <2>1, <2>2
  <2>4. ~NoneLost
    BY <2>3 DEF NoneLost
  <2>5. CASE PassElsewhere \/ BeginDrain \/ LeaveFeed \/ EndDrain
    BY <2>4, <2>5, BesideKeeps
  <2>6. ASSUME NEW s \in Source, Emitting(s) \/ VisitFeed(s) PROVE FALSE
    BY <2>4, <2>6, BesideKeeps, EmitKeeps, VisitFeedKeeps DEF Emitting
  <2>7. CASE Flush \/ RunScript \/ Count \/ QueueForPort \/ Refused
    BY <2>4, <2>7, FlushKeeps, RunScriptKeeps, CountKeeps, QueueForPortKeeps, RefusedKeeps
  <2>8. ASSUME NEW kinds \in Interests, NEW attach \in BOOLEAN, Subscribe(kinds, attach)
        PROVE  FALSE
    BY <2>4, <2>8, SubscribeKeeps
  <2>9. ASSUME NEW p \in Port, Recv(p) \/ HandOver(p) \/ ClientExits(p) PROVE FALSE
    BY <2>4, <2>9, RecvKeeps, HandOverKeeps, ClientExitsKeeps
  <2>10. CASE Ignore \/ Settle \/ \E p \in Port : SendFails(p) \/ FindGone(p)
    BY <2>3, <2>10, LossExcused
  <2>11. QED
    BY <2>5, <2>6, <2>7, <2>8, <2>9, <2>10 DEF DeliveryNext, PassStep, Task
<1>2. [\A n \in All \ All' : Excused(n)]_deliveryVars
        => [\A n \in (Moving \cup Arrived) \ (Moving \cup Arrived)' :
              \/ \E s \in Source \ listed :
                   n \in Numbers(queue[s]) \/ (batch # <<>> /\ Head(batch) = [from |-> s, nr |-> n])
              \/ \E p \in Port \ peer : n \in Numbers(Path(p))
              \/ \E p \in Port : n \in Numbers(sending[p])]_deliveryVars
  BY DEF Excused
<1>3. QED
  BY TrackedAlways, <1>1, <1>2, PTL DEF DeliverySpec, NeverDropped
=============================================================================
