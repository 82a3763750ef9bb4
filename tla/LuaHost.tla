------------------------------- MODULE LuaHost -------------------------------
(* Lua configs and the daemon they talk to (src/crates/coolabah-lua: host.rs, *)
(* dispatch.rs, direct.rs, ipc.rs, events.rs).  A run is one config on its    *)
(* own thread, one coroutine with at most one call in flight.  Its dispatcher *)
(* is the queue it shares with a daemon that hosts it ("direct"), or a worker *)
(* thread in front of the daemon's Mach port ("ipc").  Once the config enters *)
(* its loop the run opens each item it has callbacks for, then hands their    *)
(* events to the callbacks, one at a time.                                    *)
(*                                                                            *)
(* What the daemon does with a request is its own modules' matter: here it    *)
(* takes it or refuses it, and an accepted Subscribe replaces what the item   *)
(* was subscribed to.                                                         *)
EXTENDS Integers, Sequences

CONSTANTS
  LuaRuns,      \* how many configs may be started, each replacing the last
  LuaItems,     \* the items a config has
  LuaKinds,     \* the kinds of event it may subscribe to
  MaxCalls,     \* bound on the calls the runs make besides subscribing
  MaxFired      \* bound on the events that are emitted
ASSUME LuaHostAssumption ==
  /\ LuaRuns \in Nat \ {0} /\ MaxCalls \in Nat /\ MaxFired \in Nat
  /\ LuaItems \cap {"nothing", "set"} = {}

LuaRun == 1..LuaRuns
NoAsk == "nothing"
NoRun == 0
Asks == {NoAsk, "set"} \cup LuaItems   \* an item stands for its Subscribe

VARIABLES
  transport,    \* "direct" or "ipc"
  daemonUp,     \* the daemon is there
  whereabouts,  \* where each run's coroutine is
  callbacks,    \* events.rs `items`: the kinds each item has a callback for
  toOpen,       \* the part of the loop's snapshot not opened yet
  ask,          \* what each run awaits the answer to
  telling,      \* the runs that have queued it and not yet called `notify`
  answer,       \* what came back
  calls,        \* calls made so far, of MaxCalls
  queued,       \* requests the daemon has not taken, and whether their asker still listens
  notified,     \* a pass was asked for
  passBatch,    \* what the pass has taken and not applied
  subscribed,   \* the daemon's: the kinds each item is subscribed to
  feed,         \* whose feed, or port, the daemon holds for each item
  wired,        \* events in an item's port, ahead of the thread that drains it
  inbox,        \* events the run has not looked at
  ends,         \* the items whose receiving end each run still has
  fired,        \* events emitted so far, of MaxFired
  forked,       \* the item whose script was given the last event, if one was
  opener,       \* history: the run that last asked to subscribe each item
  takenOf       \* history: the run whose Subscribe the daemon took since it was asked

luaHostVars == <<transport, daemonUp, whereabouts, callbacks, toOpen, ask, telling, answer, calls, queued,
                 notified, passBatch, subscribed, feed, wired, inbox, ends, fired, forked,
                 opener, takenOf>>
coroutine == <<whereabouts, callbacks, toOpen, calls>>
asking == <<ask, telling, answer>>
requests == <<queued, notified, passBatch>>
flow == <<wired, inbox>>
daemon == <<subscribed, feed>>
fixed == <<transport, daemonUp>>
history == <<fired, forked, opener, takenOf>>

RunStages == {"unstarted", "config", "opening", "listening", "calling", "ended", "failed"}
Live(r) == whereabouts[r] \notin {"unstarted", "ended", "failed"}
Request == [run : LuaRun, what : Asks \ {NoAsk}, kinds : SUBSET LuaKinds, open : BOOLEAN]

LuaHostTypeOK ==
  /\ transport \in {"direct", "ipc"} /\ daemonUp \in BOOLEAN
  /\ whereabouts \in [LuaRun -> RunStages] /\ callbacks \in [LuaRun -> [LuaItems -> SUBSET LuaKinds]]
  /\ toOpen \in [LuaRun -> [LuaItems -> SUBSET LuaKinds]]
  /\ ask \in [LuaRun -> Asks] /\ telling \in SUBSET LuaRun
  /\ answer \in [LuaRun -> {NoAsk, "ok", "error", "lost"}] /\ calls \in 0..MaxCalls
  /\ queued \in Seq(Request) /\ passBatch \in Seq(Request) /\ notified \in BOOLEAN
  /\ subscribed \in [LuaItems -> SUBSET LuaKinds] /\ feed \in [LuaItems -> LuaRun \cup {NoRun}]
  /\ wired \in [LuaRun -> [LuaItems -> Seq(LuaKinds)]]
  /\ inbox \in [LuaRun -> [LuaItems -> Seq(LuaKinds)]]
  /\ ends \in [LuaRun -> SUBSET LuaItems] /\ fired \in 0..MaxFired /\ forked \in LuaItems \cup {NoAsk}
  /\ opener \in [LuaItems -> LuaRun \cup {NoRun}] /\ takenOf \in [LuaItems -> LuaRun \cup {NoRun}]

NoKinds == [i \in LuaItems |-> {}]
NoEvents == [r \in LuaRun |-> [i \in LuaItems |-> <<>>]]

LuaHostInit ==
  /\ transport \in {"direct", "ipc"} /\ daemonUp = TRUE
  /\ whereabouts = [r \in LuaRun |-> "unstarted"] /\ callbacks = [r \in LuaRun |-> NoKinds]
  /\ toOpen = [r \in LuaRun |-> NoKinds]
  /\ ask = [r \in LuaRun |-> NoAsk] /\ telling = {} /\ answer = [r \in LuaRun |-> NoAsk]
  /\ calls = 0
  /\ queued = <<>> /\ notified = FALSE /\ passBatch = <<>>
  /\ subscribed = NoKinds /\ feed = [i \in LuaItems |-> NoRun]
  /\ wired = NoEvents /\ inbox = NoEvents /\ ends = [r \in LuaRun |-> {}]
  /\ fired = 0 /\ forked = NoAsk
  /\ opener = [i \in LuaItems |-> NoRun] /\ takenOf = [i \in LuaItems |-> NoRun]

(***************************************************************************)
(* The coroutine.                                                          *)
(***************************************************************************)
At(r, s) == whereabouts[r] = s /\ ask[r] = NoAsk
GoesTo(r, s) == whereabouts' = [whereabouts EXCEPT ![r] = s]

\* `forget_all`: a config being replaced stops receiving before its successor
\* starts.  Over a port it is the old process that goes, or stays.
ForgetAll == feed' = IF transport = "direct" THEN [i \in LuaItems |-> NoRun] ELSE feed

\* `host::spawn`: a thread, a state and a chunk of its own.
Start(r) ==
  /\ whereabouts[r] = "unstarted" /\ \A q \in LuaRun : q < r => whereabouts[q] # "unstarted"
  /\ GoesTo(r, "config") /\ ForgetAll
  /\ UNCHANGED <<fixed, callbacks, toOpen, calls, asking, requests, flow, subscribed, ends, history>>

\* `item:subscribe` only records the callback; it is made in the config or in
\* another callback.
AddCallback(r, i, k) ==
  /\ At(r, "config") \/ At(r, "calling")
  /\ callbacks' = [callbacks EXCEPT ![r][i] = @ \cup {k}]
  /\ callbacks' # callbacks
  /\ UNCHANGED <<fixed, whereabouts, toOpen, calls, asking, requests, flow, daemon, ends, history>>

\* `Channel::submit` pushes, and notifies afterwards; over ipc the worker is
\* handed a job.
PutTo(r, what, kinds) ==
  /\ ask' = [ask EXCEPT ![r] = what] /\ answer' = [answer EXCEPT ![r] = NoAsk]
  /\ IF transport = "direct"
       THEN /\ queued' = Append(queued, [run |-> r, what |-> what, kinds |-> kinds, open |-> TRUE])
            /\ telling' = telling \cup {r}
       ELSE UNCHANGED <<queued, telling>>
  /\ UNCHANGED <<notified, passBatch>>

AskSet(r) ==
  /\ At(r, "config") \/ At(r, "calling")
  /\ calls < MaxCalls /\ calls' = calls + 1
  /\ PutTo(r, "set", {})
  /\ UNCHANGED <<fixed, whereabouts, callbacks, toOpen, flow, daemon, ends, history>>

Notify(r) ==
  /\ r \in telling /\ telling' = telling \ {r} /\ notified' = daemonUp
  /\ UNCHANGED <<fixed, coroutine, ask, answer, queued, passBatch, flow, daemon, ends, history>>

\* An error nobody catches, or the chunk's end, drops the state and with it
\* every receiving end.
Depart(r, how) ==
  /\ GoesTo(r, how) /\ ends' = [ends EXCEPT ![r] = {}]
  /\ inbox' = [inbox EXCEPT ![r] = [i \in LuaItems |-> <<>>]]
  /\ wired' = [wired EXCEPT ![r] = [i \in LuaItems |-> <<>>]]

ChunkEnds(r) ==
  /\ At(r, "config") /\ \E how \in {"ended", "failed"} : Depart(r, how)
  /\ UNCHANGED <<fixed, callbacks, toOpen, calls, asking, requests, daemon, history>>

\* `Registry::run`: the items and kinds as they are now.
EnterLoop(r) ==
  /\ At(r, "config") /\ toOpen' = [toOpen EXCEPT ![r] = callbacks[r]]
  /\ GoesTo(r, "opening")
  /\ UNCHANGED <<fixed, callbacks, calls, asking, requests, flow, daemon, ends, history>>

OpenFeedLate(r, i) == UNCHANGED <<feed, ends>>

\* The feed is there before the request is queued, and replaces another run's.
OpenFeed(r, i) ==
  IF transport = "direct"
    THEN feed' = [feed EXCEPT ![i] = r] /\ ends' = [ends EXCEPT ![r] = @ \cup {i}]
    ELSE UNCHANGED <<feed, ends>>

Open(r, i) ==
  /\ At(r, "opening") /\ toOpen[r][i] # {}
  /\ toOpen' = [toOpen EXCEPT ![r][i] = {}]
  /\ OpenFeed(r, i) /\ PutTo(r, i, toOpen[r][i])
  /\ opener' = [opener EXCEPT ![i] = r] /\ takenOf' = [takenOf EXCEPT ![i] = NoRun]
  /\ UNCHANGED <<fixed, whereabouts, callbacks, calls, flow, subscribed, fired, forked>>

Listen(r) ==
  /\ At(r, "opening") /\ toOpen[r] = NoKinds /\ GoesTo(r, "listening")
  /\ UNCHANGED <<fixed, callbacks, toOpen, calls, asking, requests, flow, daemon, ends, history>>

\* The answer resumes the coroutine.  An item that could not be subscribed is
\* logged and skipped, its end dropped; a call's error is caught by the config
\* or ends the chunk, and in a callback is logged.
Resume(r) ==
  /\ ask[r] # NoAsk /\ answer[r] # NoAsk
  /\ ask' = [ask EXCEPT ![r] = NoAsk] /\ answer' = [answer EXCEPT ![r] = NoAsk]
  /\ \/ /\ ask[r] \in LuaItems
        /\ ends' = [ends EXCEPT ![r] = IF answer[r] = "ok" THEN @ \cup {ask[r]} ELSE @ \ {ask[r]}]
        /\ inbox' = IF answer[r] = "ok" THEN inbox ELSE [inbox EXCEPT ![r][ask[r]] = <<>>]
        /\ UNCHANGED <<whereabouts, wired>>
     \/ /\ ask[r] = "set" /\ UNCHANGED <<whereabouts, ends, flow>>
     \/ /\ ask[r] = "set" /\ answer[r] # "ok" /\ whereabouts[r] = "config" /\ Depart(r, "failed")
     \/ /\ ask[r] = "set" /\ answer[r] # "ok" /\ whereabouts[r] = "calling"
        /\ GoesTo(r, "listening") /\ UNCHANGED <<ends, flow>>
  /\ UNCHANGED <<fixed, callbacks, toOpen, calls, telling, requests, daemon, history>>

\* One event of one stream; the callback is looked up now, not at the snapshot.
Dispatch(r, i) ==
  /\ At(r, "listening") /\ i \in ends[r] /\ inbox[r][i] # <<>>
  /\ inbox' = [inbox EXCEPT ![r][i] = Tail(@)]
  /\ IF Head(inbox[r][i]) \in callbacks[r][i] THEN GoesTo(r, "calling") ELSE UNCHANGED whereabouts
  /\ UNCHANGED <<fixed, callbacks, toOpen, calls, asking, requests, wired, daemon, ends, history>>

Return(r) ==
  /\ At(r, "calling") /\ GoesTo(r, "listening")
  /\ UNCHANGED <<fixed, callbacks, toOpen, calls, asking, requests, flow, daemon, ends, history>>

\* A stream whose other end is gone ends once it is read.
StreamEnds(r, i) ==
  /\ At(r, "listening") /\ i \in ends[r] /\ feed[i] # r
  /\ ~\E k \in 1..Len(queued \o passBatch) :
        (queued \o passBatch)[k].run = r /\ (queued \o passBatch)[k].what = i
  /\ inbox[r][i] = <<>> /\ wired[r][i] = <<>>
  /\ ends' = [ends EXCEPT ![r] = @ \ {i}]
  /\ UNCHANGED <<fixed, coroutine, asking, requests, flow, daemon, history>>

\* `run` returns when every stream has ended, at once if there was none.
LoopEnds(r) ==
  /\ At(r, "listening") /\ ends[r] = {} /\ GoesTo(r, "config")
  /\ UNCHANGED <<fixed, callbacks, toOpen, calls, asking, requests, flow, daemon, ends, history>>

(***************************************************************************)
(* The threads of ipc.rs: the worker, and one per subscription.            *)
(***************************************************************************)
Answered(r, with) == answer' = [answer EXCEPT ![r] = with]

\* The worker connects anew for every job.  A call's reply comes from the
\* daemon; a Subscribe has none, and is answered with the queue the drain
\* thread fills, or with an error if that thread does not start.  The loop waits
\* meanwhile, so the callbacks are still those of the snapshot.
Serve(r) ==
  /\ transport = "ipc" /\ ask[r] # NoAsk /\ answer[r] = NoAsk
  /\ ~\E k \in 1..Len(queued \o passBatch) : (queued \o passBatch)[k].run = r
                                          /\ (queued \o passBatch)[k].what = ask[r]
  /\ IF ~daemonUp
       THEN Answered(r, "lost") /\ UNCHANGED <<queued, notified>>
       ELSE /\ \E how \in {"ok", "lost"} :
                 /\ queued' = Append(queued, [run |-> r, what |-> ask[r], open |-> how = "ok",
                      kinds |-> IF ask[r] = "set" THEN {} ELSE callbacks[r][ask[r]]])
                 /\ IF ask[r] = "set" THEN how = "ok" /\ UNCHANGED answer
                                      ELSE Answered(r, how)
            /\ notified' = TRUE
  /\ UNCHANGED <<fixed, coroutine, ask, telling, passBatch, flow, daemon, ends, history>>

\* The drain thread of a subscription, for as long as its process lives.
Forward(r, i) ==
  /\ wired[r][i] # <<>> /\ i \in ends[r]
  /\ wired' = [wired EXCEPT ![r][i] = Tail(@)]
  /\ inbox' = [inbox EXCEPT ![r][i] = Append(@, Head(wired[r][i]))]
  /\ UNCHANGED <<fixed, coroutine, asking, requests, daemon, ends, history>>

(***************************************************************************)
(* The daemon.                                                             *)
(***************************************************************************)
\* `Channel::drain` takes everything, under the lock and no longer.
DrainChannel ==
  /\ daemonUp /\ notified /\ passBatch = <<>>
  /\ notified' = FALSE /\ passBatch' = queued /\ queued' = <<>>
  /\ UNCHANGED <<fixed, coroutine, asking, flow, daemon, ends, history>>

\* One request is applied, or refused, and answered. A port nobody reads any
\* more takes nothing.
Apply ==
  /\ daemonUp /\ passBatch # <<>> /\ passBatch' = Tail(passBatch)
  /\ LET it == Head(passBatch) IN \E taken \in BOOLEAN :
       /\ IF (transport = "direct" \/ it.what = "set") /\ ask[it.run] = it.what
            THEN Answered(it.run, IF taken THEN "ok" ELSE "error")
            ELSE UNCHANGED answer
       /\ IF it.what \in LuaItems /\ taken
            THEN LET by == IF it.open THEN it.run ELSE NoRun IN
                 /\ takenOf' = [takenOf EXCEPT ![it.what] = by]
                 /\ subscribed' = [subscribed EXCEPT ![it.what] = it.kinds]
                 /\ feed' = IF transport = "ipc" THEN [feed EXCEPT ![it.what] = by] ELSE feed
            ELSE UNCHANGED <<takenOf, daemon>>
  /\ UNCHANGED <<fixed, coroutine, ask, telling, queued, notified, flow, ends, fired, forked,
                 opener>>

\* A receiving end that is there: one that is read, or about to be.
Receives(r, i) == i \in ends[r] \/ (ask[r] = i /\ answer[r] = "ok")

FeedTakes(i) == feed[i] # NoRun /\ Receives(feed[i], i)

\* `Channel::deliver`, and over a port what subscribers.rs does: the event is
\* taken, or the config that has gone is forgotten and the event given to the
\* item's script.
EmitEvent(i, k) ==
  /\ daemonUp /\ k \in subscribed[i] /\ fired < MaxFired /\ fired' = fired + 1
  /\ \/ /\ FeedTakes(i) /\ forked' = NoAsk
        /\ IF transport = "direct"
             THEN inbox' = [inbox EXCEPT ![feed[i]][i] = Append(@, k)] /\ UNCHANGED wired
             ELSE wired' = [wired EXCEPT ![feed[i]][i] = Append(@, k)] /\ UNCHANGED inbox
        /\ UNCHANGED feed
     \/ /\ ~FeedTakes(i) /\ forked' = i /\ feed' = [feed EXCEPT ![i] = NoRun] /\ UNCHANGED flow
  /\ UNCHANGED <<fixed, coroutine, asking, requests, subscribed, ends, opener, takenOf>>

\* A dropped `Call`, or a port that dies with messages in it, answers its asker
\* with the loss of the other end.  What a hosted config queued and the daemon
\* had not taken is not dropped: the config's own dispatcher holds the queue.
Dropped == IF transport = "direct" THEN passBatch ELSE queued \o passBatch
Lost == [r \in LuaRun |->
           IF answer[r] = NoAsk /\ \E k \in 1..Len(Dropped) : Dropped[k].run = r
                                                         /\ Dropped[k].what = ask[r]
             THEN "lost" ELSE answer[r]]

\* The daemon exits, between or within its passes.
Exit ==
  /\ daemonUp /\ daemonUp' = FALSE /\ answer' = Lost /\ passBatch' = <<>> /\ notified' = FALSE
  /\ queued' = IF transport = "direct" THEN queued ELSE <<>>
  /\ feed' = IF transport = "direct" THEN feed ELSE [i \in LuaItems |-> NoRun]
  /\ UNCHANGED <<transport, coroutine, ask, telling, flow, subscribed, ends, history>>

LuaHostNext ==
  \/ \E r \in LuaRun :
       \/ Start(r) \/ AskSet(r) \/ Notify(r) \/ ChunkEnds(r) \/ EnterLoop(r) \/ Listen(r)
       \/ Resume(r) \/ Return(r) \/ LoopEnds(r) \/ Serve(r)
       \/ \E i \in LuaItems : \/ Open(r, i) \/ Dispatch(r, i) \/ StreamEnds(r, i)
                              \/ Forward(r, i) \/ \E k \in LuaKinds : AddCallback(r, i, k)
  \/ DrainChannel \/ Apply \/ Exit
  \/ \E i \in LuaItems, k \in LuaKinds : EmitEvent(i, k)

LuaHostSpec == LuaHostInit /\ [][LuaHostNext]_luaHostVars

------------------------------------------------------------------------------
\* The config that nothing has replaced, whose Subscribe was taken and which
\* nobody else has asked for since, and is there to handle the item's events.
Handles(r, i) ==
  /\ takenOf[i] = r /\ opener[i] = r /\ Receives(r, i)
  /\ \A q \in LuaRun : q > r => whereabouts[q] = "unstarted"

\* direct.rs on `deliver`: "an item a config is handling itself must not also
\* have its shell script forked", from the moment its subscription is applied,
\* before the config knows.
NotForked ==
  [][fired' # fired /\ forked' # NoAsk => ~\E r \in LuaRun : Handles(r, forked')]_luaHostVars

Among(q, r) == \E k \in 1..Len(q) : q[k].run = r /\ q[k].what = ask[r]

\* A call nobody has answered is on its way to the daemon, and the pass that will
\* take it is asked for or about to be, whatever the interleaving of the queue
\* and the passes; but for a hosted config whose daemon went while its call was
\* in the queue.
NoCallStranded ==
  \A r \in LuaRun : ask[r] # NoAsk /\ answer[r] = NoAsk =>
    \/ transport = "direct" /\ ~daemonUp
    \/ transport = "ipc" /\ ~Among(queued \o passBatch, r)   \* with the worker
    \/ Among(passBatch, r)
    \/ Among(queued, r) /\ (notified \/ r \in telling)

LuaIsServed == NotForked /\ []NoCallStranded
==============================================================================
