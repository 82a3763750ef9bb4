------------------------------ MODULE Delivery ------------------------------
(***************************************************************************)
(* The way of an event through the daemon: from a source's callback, on    *)
(* whatever thread its framework calls it, through the source's queue and  *)
(* the shared ready set (sources/mod.rs `Emitter`, `Feed`,                 *)
(* `Registry::drain`), over one pass of the schedule (ecs.rs               *)
(* `drain_events`, `apply_requests`, `dispatch_events`, `settle_sources`), *)
(* to the queue in front of a subscriber's port and the task draining it   *)
(* (subscribers.rs), or to the item's script.                              *)
(*                                                                         *)
(* One item stands for all: what it claims and the port it attached change *)
(* by `Subscribe` requests.  Which sources run is Registry's business; here *)
(* a settle may take down what is not claimed and starts what is.          *)
(***************************************************************************)
EXTENDS Integers, Sequences

CONSTANTS Source,           \* the event sources, one bit each
          Interests,        \* bound: what a subscription can name, as sources
          DrainBudget,      \* DRAIN_BUDGET: events one feed hands over a pass
          MaxEvents,        \* bound: events all sources produce together
          MaxPorts          \* bound: ports the item's clients attach

ASSUME DeliveryAssumption == /\ Interests \subseteq SUBSET Source /\ "none" \notin Source
                             /\ DrainBudget \in Nat \ {0}
                             /\ MaxEvents \in Nat
                             /\ MaxPorts \in Nat

VARIABLES
  happened,    \* how many events have happened; the next one's number
  producer,    \* each source's callback: where it is in `Emitter::send`
  up,          \* sources whose feed is there to receive
  queue,       \* each feed's channel
  ready,       \* the ready set: sources with something queued
  owed,        \* a pass is owed
  stage,       \* where the main thread is in its pass
  todo, turn,  \* drain: feeds still to visit, and the one being visited
  left,        \* drain: feeds stopped short of
  batch,       \* EventMessage: drained this pass and not dispatched
  holds,       \* sources the item holds handles for
  leaving,     \* sources whose handles it let go of this pass
  listed,      \* sources whose claims have it on their list
  port,        \* the item's entry in Subscribers, 0 for none
  opened,      \* how many ports have been attached
  depth,       \* each port's count of events queued and not handed over
  backlog,     \* each port's queue
  drain,       \* each port's task: "recv", "sending" or "gone"
  sending,     \* what each task is sending, if anything
  peer,        \* ports whose client is alive
  got,         \* what each port's client has received
  scripts      \* events the item's script was run for

emitVars == <<happened, producer>>
feedVars == <<up, queue, ready, owed>>
passVars == <<stage, todo, turn, left, batch>>
portVars == <<depth, backlog, drain, sending, peer, got>>
itemVars == <<holds, leaving, listed, port, opened>>
deliveryVars == <<emitVars, feedVars, passVars, portVars, itemVars, scripts>>

Event == [from : Source, nr : 1 .. MaxEvents]
Port == 1 .. MaxPorts
None == "none"

DeliveryTypeOK ==
  /\ happened \in 0 .. MaxEvents
  /\ producer \in [Source -> {"idle", "queued", "flagged"}]
  /\ up \subseteq Source /\ ready \subseteq Source
  /\ holds \subseteq Source /\ leaving \subseteq Source /\ listed \subseteq Source
  /\ queue \in [Source -> Seq(Event)]
  /\ owed \in BOOLEAN
  /\ stage \in {"parked", "draining", "applying", "dispatching", "queueing"}
  /\ todo \subseteq Source /\ left \subseteq Source /\ turn \in Source \cup {None}
  /\ batch \in Seq(Event) /\ scripts \in Seq(Event)
  /\ port \in 0 .. opened /\ opened \in 0 .. MaxPorts
  /\ depth \in [Port -> Nat]
  /\ backlog \in [Port -> Seq(Event)] /\ got \in [Port -> Seq(Event)]
  /\ drain \in [Port -> {"recv", "sending", "gone"}]
  /\ sending \in [Port -> {<<>>} \cup {<<e>> : e \in Event}]
  /\ peer \subseteq Port

DeliveryInit ==
  /\ happened = 0 /\ producer = [s \in Source |-> "idle"]
  /\ up = {} /\ queue = [s \in Source |-> <<>>]
  /\ ready = {} /\ owed = TRUE
  /\ stage = "parked" /\ todo = {} /\ turn = None /\ left = {} /\ batch = <<>>
  /\ holds = {} /\ leaving = {} /\ listed = {} /\ port = 0 /\ opened = 0
  /\ depth = [p \in Port |-> 0] /\ backlog = [p \in Port |-> <<>>]
  /\ drain = [p \in Port |-> "recv"] /\ sending = [p \in Port |-> <<>>]
  /\ peer = Port /\ got = [p \in Port |-> <<>>]
  /\ scripts = <<>>

-----------------------------------------------------------------------------
(* `Emitter::send`, on the thread the framework calls back.                 *)

\* The channel takes it, unless the feed has gone; then send returns.
Emit(s) ==
  /\ producer[s] = "idle" /\ happened < MaxEvents
  /\ s \in up
  /\ happened' = happened + 1
  /\ queue' = [queue EXCEPT ![s] = Append(@, [from |-> s, nr |-> happened'])]
  /\ producer' = [producer EXCEPT ![s] = "queued"]
  /\ UNCHANGED <<up, ready, owed, passVars, portVars, itemVars, scripts>>

\* `ready.fetch_or(bit)`.
FlagReady(s) ==
  /\ producer[s] = "queued"
  /\ ready' = ready \cup {s}
  /\ producer' = [producer EXCEPT ![s] = "flagged"]
  /\ UNCHANGED <<happened, up, queue, owed, passVars, portVars, itemVars, scripts>>

WakeAppForgotten(s) ==
  /\ producer[s] = "flagged"
  /\ producer' = [producer EXCEPT ![s] = "idle"]
  /\ UNCHANGED <<happened, feedVars, passVars, portVars, itemVars, scripts>>

WakeApp(s) ==
  /\ producer[s] = "flagged"
  /\ owed' = TRUE
  /\ producer' = [producer EXCEPT ![s] = "idle"]
  /\ UNCHANGED <<happened, up, queue, ready, passVars, portVars, itemVars, scripts>>

-----------------------------------------------------------------------------
(* A pass.                                                                  *)

\* Anything else the daemon reacts to.
PassElsewhere ==
  /\ ~owed
  /\ owed' = TRUE
  /\ UNCHANGED <<emitVars, up, queue, ready, passVars, portVars, itemVars, scripts>>

\* `Registry::drain` swaps the ready set for an empty one before it looks.
BeginDrain ==
  /\ stage = "parked" /\ owed
  /\ owed' = FALSE
  /\ stage' = "draining"
  /\ todo' = ready \cap up
  /\ ready' = {}
  /\ UNCHANGED <<emitVars, up, queue, turn, left, batch, portVars, itemVars, scripts>>

HandedOver(s) == IF Len(queue[s]) < DrainBudget THEN Len(queue[s]) ELSE DrainBudget

\* One feed's turn: at most DRAIN_BUDGET events.
VisitFeed(s) ==
  /\ stage = "draining" /\ turn = None
  /\ s \in todo
  /\ batch' = batch \o SubSeq(queue[s], 1, HandedOver(s))
  /\ queue' = [queue EXCEPT ![s] = SubSeq(@, HandedOver(s) + 1, Len(@))]
  /\ todo' = todo \ {s}
  /\ turn' = s
  /\ UNCHANGED <<emitVars, up, ready, owed, stage, left, portVars, itemVars, scripts>>

\* `backlogged`: whatever is still queued, or has been queued meanwhile.
NeverBacklogged(s) == FALSE
Backlogged(s) == queue[s] # <<>>

LeaveFeed ==
  /\ turn # None
  /\ left' = IF Backlogged(turn) THEN left \cup {turn} ELSE left
  /\ turn' = None
  /\ UNCHANGED <<emitVars, feedVars, stage, todo, batch, portVars, itemVars, scripts>>

\* The feeds stopped short of are signalled again, with one wake for them all.
EndDrain ==
  /\ stage = "draining" /\ todo = {} /\ turn = None
  /\ ready' = ready \cup left
  /\ owed' = (owed \/ left # {})
  /\ left' = {}
  /\ stage' = "applying"
  /\ UNCHANGED <<emitVars, up, queue, todo, turn, batch, portVars, itemVars, scripts>>

\* `Request::Subscribe` replaces what the item had: it is put on the new claims'
\* lists at once, and with a port, its events go there from now on; without,
\* back to its script.  Only a Lua config attaches a port, and only for events.
Subscribe(kinds, attach) ==
  /\ stage = "applying"
  /\ attach => kinds # {}
  /\ holds' = kinds
  /\ leaving' = leaving \cup holds
  /\ listed' = listed \cup kinds
  /\ IF attach THEN /\ opened < MaxPorts
                    /\ opened' = opened + 1
                    /\ port' = opened'
               ELSE port' = 0 /\ UNCHANGED opened
  /\ UNCHANGED <<emitVars, feedVars, passVars, portVars, scripts>>

\* The commands are applied: each handle let go of takes the item off its
\* claim's list, a new handle on the same claim or not.
Flush ==
  /\ stage = "applying"
  /\ stage' = "dispatching"
  /\ listed' = listed \ leaving
  /\ leaving' = {}
  /\ UNCHANGED <<emitVars, feedVars, todo, turn, left, batch,
                 portVars, holds, port, opened, scripts>>

\* `dispatch_events`, for one event: nobody claims it, or the item has no port
\* and its script is run, or it is counted and then queued (`Feed::push`).
Ignore ==
  /\ stage = "dispatching" /\ batch # <<>>
  /\ Head(batch).from \notin listed
  /\ batch' = Tail(batch)
  /\ UNCHANGED <<emitVars, feedVars, stage, todo, turn, left, portVars, itemVars, scripts>>

RunScript ==
  /\ stage = "dispatching" /\ batch # <<>>
  /\ Head(batch).from \in listed
  /\ port = 0
  /\ scripts' = Append(scripts, Head(batch))
  /\ batch' = Tail(batch)
  /\ UNCHANGED <<emitVars, feedVars, stage, todo, turn, left, portVars, itemVars>>

Count ==
  /\ stage = "dispatching" /\ batch # <<>>
  /\ Head(batch).from \in listed
  /\ port # 0
  /\ depth' = [depth EXCEPT ![port] = @ + 1]
  /\ stage' = "queueing"
  /\ UNCHANGED <<emitVars, feedVars, todo, turn, left, batch,
                 backlog, drain, sending, peer, got, itemVars, scripts>>

\* The channel refuses once its task has gone: the count is taken back, the
\* port forgotten, and the event is the script's after all.
QueueForPort ==
  /\ stage = "queueing"
  /\ drain[port] # "gone"
  /\ backlog' = [backlog EXCEPT ![port] = Append(@, Head(batch))]
  /\ batch' = Tail(batch)
  /\ stage' = "dispatching"
  /\ UNCHANGED <<emitVars, feedVars, todo, turn, left,
                 depth, drain, sending, peer, got, itemVars, scripts>>

RefusedDrops ==
  /\ stage = "queueing"
  /\ drain[port] = "gone"
  /\ depth' = [depth EXCEPT ![port] = @ - 1]
  /\ port' = 0
  /\ batch' = Tail(batch)
  /\ stage' = "dispatching"
  /\ UNCHANGED <<emitVars, feedVars, todo, turn, left,
                 backlog, drain, sending, peer, got, holds, leaving, listed, opened, scripts>>

Refused ==
  /\ stage = "queueing"
  /\ drain[port] = "gone"
  /\ depth' = [depth EXCEPT ![port] = @ - 1]
  /\ port' = 0
  /\ scripts' = Append(scripts, Head(batch))
  /\ batch' = Tail(batch)
  /\ stage' = "dispatching"
  /\ UNCHANGED <<emitVars, feedVars, todo, turn, left,
                 backlog, drain, sending, peer, got, holds, leaving, listed, opened>>

\* `settle_sources`, once all is dispatched: a claimed source is started, one
\* nothing claims may be taken down, and a channel goes with whatever is in it.
Settle ==
  /\ stage = "dispatching" /\ batch = <<>>
  /\ \E gone \in SUBSET (up \ holds) :
       /\ up' = (up \cup holds) \ gone
       /\ queue' = [s \in Source |-> IF s \in gone THEN <<>> ELSE queue[s]]
  /\ stage' = "parked"
  /\ UNCHANGED <<emitVars, ready, owed, todo, turn, left, batch,
                 portVars, itemVars, scripts>>

-----------------------------------------------------------------------------
(* The task in front of each port, and the client behind it.                *)

\* `backlog.recv`: the channel of a replaced or cleared port is still read to
\* its end.
RecvNewest(p) ==
  /\ drain[p] = "recv"
  /\ backlog[p] # <<>>
  /\ sending' = [sending EXCEPT ![p] = <<backlog[p][Len(backlog[p])]>>]
  /\ backlog' = [backlog EXCEPT ![p] = SubSeq(@, 1, Len(@) - 1)]
  /\ drain' = [drain EXCEPT ![p] = "sending"]
  /\ UNCHANGED <<emitVars, feedVars, passVars, itemVars, depth, peer, got, scripts>>

Recv(p) ==
  /\ drain[p] = "recv"
  /\ backlog[p] # <<>>
  /\ sending' = [sending EXCEPT ![p] = <<Head(backlog[p])>>]
  /\ backlog' = [backlog EXCEPT ![p] = Tail(@)]
  /\ drain' = [drain EXCEPT ![p] = "sending"]
  /\ UNCHANGED <<emitVars, feedVars, passVars, itemVars, depth, peer, got, scripts>>

\* `port.send`, when the client makes room.
HandOver(p) ==
  /\ drain[p] = "sending" /\ p \in peer
  /\ got' = [got EXCEPT ![p] = @ \o sending[p]]
  /\ sending' = [sending EXCEPT ![p] = <<>>]
  /\ depth' = [depth EXCEPT ![p] = @ - 1]
  /\ drain' = [drain EXCEPT ![p] = "recv"]
  /\ UNCHANGED <<emitVars, feedVars, passVars, itemVars, backlog, peer, scripts>>

\* Any other refusal of the kernel is about this one event: it is passed over.
SendFails(p) ==
  /\ drain[p] = "sending" /\ p \in peer
  /\ sending' = [sending EXCEPT ![p] = <<>>]
  /\ depth' = [depth EXCEPT ![p] = @ - 1]
  /\ drain' = [drain EXCEPT ![p] = "recv"]
  /\ UNCHANGED <<emitVars, feedVars, passVars, itemVars, backlog, peer, got, scripts>>

\* `Error::PeerGone`: the task returns, and its queue closes.
FindGone(p) ==
  /\ drain[p] = "sending" /\ p \notin peer
  /\ sending' = [sending EXCEPT ![p] = <<>>]
  /\ backlog' = [backlog EXCEPT ![p] = <<>>]
  /\ drain' = [drain EXCEPT ![p] = "gone"]
  /\ UNCHANGED <<emitVars, feedVars, passVars, itemVars, depth, peer, got, scripts>>

ClientExits(p) ==
  /\ p \in peer /\ p <= opened
  /\ peer' = peer \ {p}
  /\ UNCHANGED <<emitVars, feedVars, passVars, itemVars,
                 depth, backlog, drain, sending, got, scripts>>

-----------------------------------------------------------------------------
Emitting(s) == Emit(s) \/ FlagReady(s) \/ WakeApp(s)

PassStep == \/ BeginDrain \/ LeaveFeed \/ EndDrain \/ Flush
            \/ Ignore \/ RunScript \/ Count \/ QueueForPort \/ Refused
            \/ Settle
            \/ \E s \in Source : VisitFeed(s)

Task(p) == Recv(p) \/ HandOver(p) \/ SendFails(p) \/ FindGone(p)

DeliveryNext == \/ PassElsewhere \/ PassStep
        \/ \E s \in Source : Emitting(s)
        \/ \E kinds \in Interests, attach \in BOOLEAN : Subscribe(kinds, attach)
        \/ \E p \in Port : Task(p) \/ ClientExits(p)

\* A pass that is owed runs and runs to its end, a callback inside `send`
\* finishes it, and a client that is alive keeps making room.
DeliveryFairness == /\ WF_deliveryVars(PassStep)
            /\ \A s \in Source : WF_deliveryVars(FlagReady(s) \/ WakeApp(s))
            /\ \A p \in Port : WF_deliveryVars(Task(p))

DeliverySpec == DeliveryInit /\ [][DeliveryNext]_deliveryVars /\ DeliveryFairness

-----------------------------------------------------------------------------
\* An event in a live feed is on its way to being drained: its callback is yet
\* to raise the bit, or the bit is up with a wake to come or a pass owed, or the
\* drain in progress will still visit the feed or signal it again.
\* sources/mod.rs "the events are still queued, and the wake is already pending".
NoStrandedEvent ==
  \A s \in up : queue[s] # <<>> =>
    \/ producer[s] = "queued"
    \/ s \in ready /\ (owed \/ \E t \in Source : producer[t] = "flagged")
    \/ stage = "draining" /\ s \in todo \cup left \cup {turn}

\* Everything a port was given, from what its client has to what waits longest.
Path(p) == got[p] \o sending[p] \o backlog[p]

InOrder(events) ==
  \A i, j \in DOMAIN events :
    i < j /\ events[i].from = events[j].from => events[i].nr < events[j].nr

\* subscribers.rs "per-port ordering follows from that": what a client gets from
\* a source it gets in the order it happened, and nothing still to be handed
\* over, at any stage behind, can overtake it.
PortOrder ==
  /\ \A p \in Port : InOrder(Path(p))
  /\ \A s \in Source : InOrder(batch \o queue[s])
  /\ port # 0 => \A s \in Source : InOrder(Path(port) \o batch \o queue[s])

Numbers(events) == {events[i].nr : i \in DOMAIN events}

\* Where events are on their way, and where they have arrived.
Moving == (UNION {Numbers(queue[s]) : s \in Source}) \cup Numbers(batch)
            \cup (UNION {Numbers(sending[p] \o backlog[p]) : p \in Port})
Arrived == Numbers(scripts) \cup UNION {Numbers(got[p]) : p \in Port}

\* Nothing arrives twice: not by a client and the item's script both, not
\* by the port before and the port after a new subscription, and nothing that
\* has arrived is still on its way somewhere. Wherever an event is, it is there
\* once and nowhere else.
Place == ({"feed"} \X Source) \cup ({"port"} \X Port) \cup {<<"batch", None>>, <<"script", None>>}
EventsAt(a) == CASE a[1] = "feed" -> queue[a[2]]
                 [] a[1] = "port" -> Path(a[2])
                 [] a[1] = "batch" -> batch
                 [] a[1] = "script" -> scripts

HandledOnce ==
  \A a, b \in Place : \A i \in DOMAIN EventsAt(a), j \in DOMAIN EventsAt(b) :
    EventsAt(a)[i].nr = EventsAt(b)[j].nr => a = b /\ i = j

\* The depth a port reports is what has been pushed and not handed over, one
\* more while a push is between its count and its queue, and never below zero.
DepthCounts ==
  \A p \in Port : drain[p] # "gone" =>
    depth[p] = Len(backlog[p]) + Len(sending[p])
                 + (IF stage = "queueing" /\ port = p THEN 1 ELSE 0)

\* An event reaches whoever handles it once, and behind those before it, and is
\* counted until it does.
OnceInOrder == PortOrder /\ HandledOnce /\ DepthCounts

\* ecs.rs "An event is never dropped": one that was accepted leaves the daemon
\* unhandled only if the item is on no list of its source's, or with a client
\* that exited, or if the kernel refused it of all events.
NeverDropped ==
  [][\A n \in (Moving \cup Arrived) \ (Moving \cup Arrived)' :
       \/ \E s \in Source \ listed :
            n \in Numbers(queue[s]) \/ (batch # <<>> /\ Head(batch) = [from |-> s, nr |-> n])
       \/ \E p \in Port \ peer : n \in Numbers(Path(p))
       \/ \E p \in Port : n \in Numbers(sending[p])]_deliveryVars

\* However short the drain stops and whoever replaces whose port, every event
\* comes to its end.
ComesToRest == \A n \in 1 .. MaxEvents : n \in Moving ~> n \notin Moving
=============================================================================
