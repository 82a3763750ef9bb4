-------------------------------- MODULE Pump --------------------------------
(***************************************************************************)
(* The daemon's frame pump: ecs.rs `pass`, the frame task, the coalescing  *)
(* drain, the frame budget with its deadline, and the two ways out; with   *)
(* the parts of runloop.rs, ipc.rs, signals.rs and skylight/connection.rs  *)
(* they run on.                                                            *)
(*                                                                         *)
(* One thread parks in the event loop.  Everything that wants it to act    *)
(* signals a run loop source: the service port delivers requests, PASS     *)
(* runs the app once, EXIT asks it to leave.  A pass awaits the window     *)
(* server connection, which captures on the worker pool also take; while   *)
(* it waits the loop keeps turning.  Once it has the connection it turns   *)
(* the loop itself to soak up what is already waiting (the drain), so the  *)
(* very handlers that start passes run inside one.                         *)
(***************************************************************************)
EXTENDS Naturals, Sequences

CONSTANTS Client,           \* processes holding a send right to the service
          Capture,          \* window captures running on the worker pool
          CoalesceLimit,    \* COALESCE_LIMIT: turns the drain may take
          SlowestRefresh    \* bound: the longest refresh interval of a display

ASSUME LimitAssumption == CoalesceLimit \in Nat /\ SlowestRefresh \in Nat \ {0}

Surface == {"bar", "popups"}

\* What a request asks.  "set" touches the bar, and so the popups hanging off
\* it; "popup" only a popup; "menus" is answered from the pool (`defer`).
Kind == {"set", "popup", "menus", "exit"}

Frame == "frame"            \* the frame task, as a taker of the connection
Nobody == "nobody"

ASSUME CaptureAssumption == Frame \notin Capture /\ Nobody \notin Capture

VARIABLES
  main,        \* where the main thread is
  token,       \* AppLoop's QUIT slot: "none" until the loop is entered, then
               \* "parked", and "taken" by whoever ends it
  passSig,     \* the PASS source is signalled
  exitSig,     \* the EXIT source is signalled
  stop,        \* signals.rs: "none", "recorded" (asked is set), "woken"
  client,      \* each client: "idle", or where its one request is
  asks,        \* what each client's current request asks
  port,        \* the kernel's queue on the service port
  inbox,       \* Requests: delivered and not applied
  permit,      \* FRAME: the one permit a Notify holds
  task,        \* the frame task's own state
  turns,       \* turns the drain has taken
  holder,      \* who has the connection
  queue,       \* tokio's FIFO of those waiting for it
  exitMsg,     \* AppExit: 0 absent, 1 in the older buffer, 2 in the newer
  dirty,       \* surfaces changed since their gate last looked
  undrawn,     \* surfaces whose pixels are behind the world
  want,        \* FrameBudget.bar and .popups
  interval,    \* FrameBudget.interval, the fastest display's
  age,         \* time since the last present, SlowestRefresh standing for more
  wake,        \* Wake: "none", or a registration "armed" or "fired"
  deadline     \* the age an armed registration fires at, 0 while there is none

loopVars   == <<main, token, passSig, exitSig, stop>>
ipcVars    == <<client, asks, port, inbox>>
frameVars  == <<permit, task, turns>>
lockVars   == <<holder, queue>>
budgetVars == <<exitMsg, dirty, undrawn, want, interval, age, wake, deadline>>
vars == <<loopVars, ipcVars, frameVars, lockVars, budgetVars>>

InFrame == main \in {"draining", "applying", "presenting", "closing"}

TypeOK ==
  /\ main \in {"starting", "base", "draining", "applying", "presenting", "closing", "left"}
  /\ token \in {"none", "parked", "taken"}
  /\ passSig \in BOOLEAN /\ exitSig \in BOOLEAN
  /\ stop \in {"none", "recorded", "woken"}
  /\ client \in [Client -> {"idle", "sent", "delivered", "deferred"}]
  /\ asks \in [Client -> Kind]
  /\ port \in Seq(Client) /\ inbox \in Seq(Client)
  /\ permit \in BOOLEAN
  /\ task \in {"idle", "acquiring", "running", "resumed"}
  /\ turns \in 0 .. CoalesceLimit
  /\ holder \in Capture \cup {Frame, Nobody}
  /\ queue \in Seq(Capture \cup {Frame})
  /\ exitMsg \in 0 .. 2
  /\ dirty \subseteq Surface /\ undrawn \subseteq Surface /\ want \subseteq Surface
  /\ interval \in 1 .. SlowestRefresh
  /\ age \in 0 .. SlowestRefresh
  /\ wake \in {"none", "armed", "fired"}
  /\ deadline \in 0 .. SlowestRefresh

\* The app is parked in APP, `run` has not yet made its own first pass.  The
\* panels have never drawn: everything is undrawn and nothing was presented.
Init ==
  /\ main = "starting" /\ token = "none"
  /\ passSig \in BOOLEAN /\ exitSig = FALSE /\ stop = "none"
  /\ client = [c \in Client |-> "idle"]
  /\ asks \in [Client -> {"set"}]
  /\ port = <<>> /\ inbox = <<>>
  /\ permit = FALSE /\ task = "idle" /\ turns = 0
  /\ holder = Nobody /\ queue = <<>>
  /\ exitMsg = 0
  /\ dirty = Surface /\ undrawn = Surface /\ want = {}
  /\ interval \in 1 .. SlowestRefresh /\ age = SlowestRefresh
  /\ wake = "none" /\ deadline = 0

-----------------------------------------------------------------------------
(* The connection: a fair asynchronous mutex (skylight/connection.rs).      *)

\* Hand the connection to whoever waits longest; poll_frame_task polls with
\* the PASS source's own waker, so the frame task is woken through that.
WakeNobody(taker) == UNCHANGED passSig
WakeTaker(taker) == passSig' = (passSig \/ taker = Frame)

PassOn ==
  IF queue = <<>>
  THEN holder' = Nobody /\ UNCHANGED <<queue, passSig>>
  ELSE /\ holder' = Head(queue)
       /\ queue' = Tail(queue)
       /\ WakeTaker(Head(queue))

Waiting(c) == \E i \in DOMAIN queue : queue[i] = c

CaptureAcquire(c) ==
  /\ holder # c /\ ~Waiting(c)
  /\ IF holder = Nobody
     THEN holder' = c /\ UNCHANGED queue
     ELSE queue' = Append(queue, c) /\ UNCHANGED holder
  /\ UNCHANGED <<loopVars, ipcVars, frameVars, budgetVars>>

CaptureRelease(c) ==
  /\ holder = c
  /\ PassOn
  /\ UNCHANGED <<main, token, exitSig, stop, ipcVars, frameVars, budgetVars>>

\* The task behind a capture is aborted while it waits: it leaves the queue.
CaptureCancel(c) ==
  /\ \E i \in DOMAIN queue :
       /\ queue[i] = c
       /\ queue' = SubSeq(queue, 1, i - 1) \o SubSeq(queue, i + 1, Len(queue))
  /\ UNCHANGED <<loopVars, ipcVars, frameVars, budgetVars, holder>>

-----------------------------------------------------------------------------
(* `pass`, as far as it gets in one poll of the frame task.                 *)

\* `run_frame` up to its await, given who holds the connection and who waits:
\* take it if it is free, else queue behind the captures already there.
AskForConnection(has, waiting) ==
  \/ /\ has = Nobody
     /\ main' = "draining" /\ turns' = 0 /\ task' = "running"
     /\ holder' = Frame /\ queue' = waiting
  \/ /\ has # Nobody
     /\ main' = "base" /\ task' = "acquiring" /\ UNCHANGED turns
     /\ holder' = has /\ queue' = Append(waiting, Frame)

\* `pass`, called by a handler the parked loop dispatched: notify_one and one
\* poll.  An idle task spends the permit at once.  A task waiting for the
\* connection leaves it, and resumes if the connection has come.
Poll ==
  \/ /\ task = "idle"
     /\ AskForConnection(holder, queue)
     /\ UNCHANGED permit
  \/ /\ task = "acquiring" /\ holder = Frame
     /\ main' = "draining" /\ turns' = 0 /\ task' = "resumed"
     /\ permit' = TRUE
     /\ UNCHANGED lockVars
  \/ /\ task = "acquiring" /\ holder # Frame
     /\ permit' = TRUE
     /\ main' = "base"
     /\ UNCHANGED <<task, turns, lockVars>>

\* `pass`, called by a handler dispatched from inside a frame: the check for
\* re-entrancy comes before the notify, so nothing at all happens.
ReenteredNotifies == permit' = TRUE
Reentered == UNCHANGED permit

\* `run` makes the one pass nothing asks for, then enters the loop.
FirstPass ==
  /\ main = "starting"
  /\ Poll
  /\ UNCHANGED <<token, passSig, exitSig, stop, ipcVars, budgetVars>>

Enter ==
  /\ main = "base" /\ token = "none"
  /\ token' = "parked"
  /\ UNCHANGED <<main, passSig, exitSig, stop, ipcVars, frameVars, lockVars, budgetVars>>

\* The parked loop's turn: PASS, or EXIT, which finds the app free.  A loop
\* that has been quit takes no further turn.
Parked == main = "base" /\ token = "parked"

HandlePass ==
  /\ Parked /\ passSig
  /\ passSig' = FALSE
  /\ Poll
  /\ UNCHANGED <<token, exitSig, stop, ipcVars, budgetVars>>

HandleExit ==
  /\ Parked /\ exitSig
  /\ exitSig' = FALSE
  /\ exitMsg' = 2
  /\ Poll
  /\ UNCHANGED <<token, passSig, stop, ipcVars, dirty, undrawn, want, interval, age, wake, deadline>>

\* A turn the drain takes, inside a frame.  PASS does nothing; EXIT's handler
\* cannot borrow the app either, so it writes no AppExit, and its own call to
\* `pass` does nothing.
Nested == main = "draining" /\ turns < CoalesceLimit

CountTurn == turns' = turns + 1

NestedPass ==
  /\ Nested /\ passSig
  /\ passSig' = FALSE
  /\ Reentered
  /\ CountTurn
  /\ UNCHANGED <<main, token, exitSig, stop, ipcVars, task, lockVars, budgetVars>>

NestedExit ==
  /\ Nested /\ exitSig
  /\ exitSig' = FALSE
  /\ Reentered
  /\ CountTurn
  /\ UNCHANGED <<main, token, passSig, stop, ipcVars, task, lockVars, budgetVars>>

-----------------------------------------------------------------------------
(* What any turn of the loop can also do.                                   *)

InTurn == \/ Parked /\ UNCHANGED turns
          \/ Nested /\ CountTurn

\* main.rs hands `serve` the shared source to signal, once per message.
AnnounceNothing == UNCHANGED passSig
Announce == passSig' = TRUE

\* ipc.rs `serve`: a message becomes a queued request, and signals PASS.
Deliver ==
  /\ InTurn
  /\ port # <<>>
  /\ client' = [client EXCEPT ![Head(port)] = "delivered"]
  /\ inbox' = Append(inbox, Head(port))
  /\ port' = Tail(port)
  /\ Announce
  /\ UNCHANGED <<main, token, exitSig, stop, asks, permit, task, lockVars, budgetVars>>

\* runloop.rs `wake_at`: the sleeping task's deadline has come; it takes its
\* entry out of ARMED and wakes the app.
Fire ==
  /\ InTurn
  /\ wake = "armed" /\ age >= deadline
  /\ wake' = "fired" /\ deadline' = 0
  /\ passSig' = TRUE
  /\ UNCHANGED <<main, token, exitSig, stop, ipcVars, permit, task, lockVars,
                 exitMsg, dirty, undrawn, want, interval, age>>

-----------------------------------------------------------------------------
(* One frame, from the connection to the end of the pass.                   *)

\* The drain stops when a turn handles nothing, or at its limit; then the
\* update begins, which ages the messages of the one before.
DrainDone ==
  /\ main = "draining"
  /\ turns = CoalesceLimit \/ ~(passSig \/ exitSig \/ port # <<>>)
  /\ main' = "applying"
  /\ turns' = 0
  /\ exitMsg' = IF exitMsg = 0 THEN 0 ELSE exitMsg - 1
  /\ UNCHANGED <<token, passSig, exitSig, stop, ipcVars, permit, task, lockVars,
                 dirty, undrawn, want, interval, age, wake, deadline>>

\* What applying a request changes that the screen shows.
Touched(kind) == CASE kind = "set" -> Surface
                   [] kind = "popup" -> {"popups"}
                   [] OTHER -> {}

\* apply_requests, one pop.
Apply ==
  LET c == Head(inbox) IN
  /\ main = "applying"
  /\ inbox # <<>>
  /\ inbox' = Tail(inbox)
  /\ client' = [client EXCEPT ![c] = IF asks[c] = "menus" THEN "deferred" ELSE "idle"]
  /\ dirty' = dirty \cup Touched(asks[c])
  /\ undrawn' = undrawn \cup Touched(asks[c])
  /\ exitMsg' = IF asks[c] = "exit" THEN 2 ELSE exitMsg
  /\ UNCHANGED <<loopVars, asks, port, frameVars, lockVars, want, interval, age, wake, deadline>>

\* The queue is drained, not taken from once.
TakenOnce == TRUE
DrainedDry == inbox = <<>>

ApplyDone ==
  /\ main = "applying"
  /\ DrainedDry
  /\ main' = "presenting"
  /\ UNCHANGED <<token, passSig, exitSig, stop, ipcVars, frameVars, lockVars, budgetVars>>

\* `rebuild_panels`, in an update that reads of a display change or a wake from
\* sleep: everything is drawn again, and the frame interval is measured anew.
DisplaysChanged ==
  /\ main = "applying"
  /\ DrainedDry
  /\ dirty' = Surface /\ undrawn' = Surface
  /\ interval' \in 1 .. SlowestRefresh
  /\ main' = "presenting"
  /\ UNCHANGED <<token, passSig, exitSig, stop, ipcVars, frameVars, lockVars,
                 exitMsg, want, age, wake, deadline>>

\* remember_bar and remember_popups: a gate's yes is kept until it is served.
RememberedOnlyNow == dirty
Remembered == want \cup dirty

\* arm_wake for a deferred draw: a registration still to come is left alone, a
\* spent one is replaced like an absent one.
RearmedIfAbsent == IF wake = "none" THEN "armed" ELSE wake
Rearmed == "armed"

\* The tail of the schedule: the gates, open_frame, arm_wake, the repaints and
\* close_frame.
Present ==
  /\ main = "presenting"
  /\ dirty' = {}
  /\ \/ /\ Remembered = {}
        /\ wake' = "none" /\ deadline' = 0
        /\ UNCHANGED <<undrawn, want, age>>
     \/ /\ Remembered # {} /\ age < interval
        /\ want' = Remembered
        /\ wake' = Rearmed
        /\ deadline' = IF wake = "armed" THEN deadline ELSE interval
        /\ UNCHANGED <<undrawn, age>>
     \/ /\ Remembered # {} /\ age >= interval
        /\ undrawn' = undrawn \ Remembered
        /\ want' = {}
        /\ age' = 0
        /\ wake' = "none" /\ deadline' = 0
  /\ main' = "closing"
  /\ UNCHANGED <<token, passSig, exitSig, stop, ipcVars, frameVars, lockVars,
                 exitMsg, interval>>

\* `should_exit`: an AppExit in either buffer.  The one EXIT's handler wrote has
\* aged by the end of the update.
ExitSeenIfNew == exitMsg = 2
ExitSeen == exitMsg # 0

\* The connection is dropped, the exit looked at, and the frame task goes round
\* again: a permit left by a pass that came while it waited is spent here.
EndFrame ==
  /\ main = "closing"
  /\ token' = IF ExitSeen /\ token = "parked" THEN "taken" ELSE token
  /\ IF permit
     THEN /\ permit' = FALSE
          /\ IF queue = <<>> THEN AskForConnection(Nobody, <<>>)
                             ELSE AskForConnection(Head(queue), Tail(queue))
          /\ UNCHANGED passSig
     ELSE /\ main' = "base" /\ task' = "idle"
          /\ PassOn
          /\ UNCHANGED <<permit, turns>>
  /\ UNCHANGED <<exitSig, stop, ipcVars, budgetVars>>

\* QuitApplicationEventLoop was called: once the handler that led to it has
\* returned, so does RunApplicationEventLoop.
LoopReturns ==
  /\ main = "base" /\ token = "taken"
  /\ main' = "left"
  /\ UNCHANGED <<token, passSig, exitSig, stop, ipcVars, frameVars, lockVars, budgetVars>>

-----------------------------------------------------------------------------
(* Everybody else.                                                          *)

Send(c, kind) ==
  /\ client[c] = "idle"
  /\ client' = [client EXCEPT ![c] = "sent"]
  /\ asks' = [asks EXCEPT ![c] = kind]
  /\ port' = Append(port, c)
  /\ UNCHANGED <<loopVars, inbox, frameVars, lockVars, budgetVars>>

\* A deferred query is answered by the pool, through the reply it was handed.
PoolAnswers(c) ==
  /\ client[c] = "deferred"
  /\ client' = [client EXCEPT ![c] = "idle"]
  /\ UNCHANGED <<loopVars, asks, port, inbox, frameVars, lockVars, budgetVars>>

\* signals.rs `watch`: the first signal wins the compare_exchange and wakes;
\* a second has nothing left to say.
RecordStop ==
  /\ stop = "none"
  /\ stop' = "recorded"
  /\ UNCHANGED <<main, token, passSig, exitSig, ipcVars, frameVars, lockVars, budgetVars>>

WakeExit ==
  /\ stop = "recorded"
  /\ stop' = "woken"
  /\ exitSig' = TRUE
  /\ UNCHANGED <<main, token, passSig, ipcVars, frameVars, lockVars, budgetVars>>

\* Any other source, script or routine wants a pass.
Nudge ==
  /\ ~passSig
  /\ passSig' = TRUE
  /\ UNCHANGED <<main, token, exitSig, stop, ipcVars, frameVars, lockVars, budgetVars>>

\* Time goes by since the last present.
Elapse ==
  /\ age < SlowestRefresh
  /\ age' = age + 1
  /\ UNCHANGED <<loopVars, ipcVars, frameVars, lockVars,
                 exitMsg, dirty, undrawn, want, interval, wake, deadline>>

-----------------------------------------------------------------------------
FrameStep == DrainDone \/ Apply \/ ApplyDone \/ DisplaysChanged \/ Present \/ EndFrame

NestedTurn == NestedPass \/ NestedExit

MainThread == \/ FirstPass \/ Enter \/ HandlePass \/ HandleExit \/ LoopReturns
              \/ FrameStep \/ NestedTurn

Others == \/ \E c \in Client : PoolAnswers(c) \/ \E kind \in Kind : Send(c, kind)
          \/ \E c \in Capture : CaptureAcquire(c) \/ CaptureRelease(c) \/ CaptureCancel(c)
          \/ RecordStop \/ WakeExit \/ Nudge \/ Elapse

Next == main # "left" /\ (MainThread \/ Deliver \/ Fire \/ Others)

\* The main thread finishes what it is in.  A turn of the parked loop performs
\* every signalled source and then one port message, so none of them is passed
\* over for ever although a frame keeps disabling them (strong fairness); the
\* reactor's timers likewise.  Time passes, a capture is one bounded round
\* trip, and the pool runs what it was given.
Fairness ==
  /\ WF_vars(FirstPass) /\ WF_vars(Enter) /\ WF_vars(LoopReturns)
  /\ WF_vars(FrameStep) /\ WF_vars(NestedTurn)
  /\ SF_vars(HandlePass) /\ SF_vars(HandleExit \/ NestedExit)
  /\ SF_vars(Deliver) /\ SF_vars(Fire)
  /\ WF_vars(Elapse) /\ WF_vars(WakeExit)
  /\ \A c \in Capture : WF_vars(CaptureRelease(c))
  /\ \A c \in Client : WF_vars(PoolAnswers(c))

Spec == Init /\ [][Next]_vars /\ Fairness

-----------------------------------------------------------------------------
\* A pass is on its way: `run` is about to make the first, or its source is
\* signalled, or the frame in progress goes round again, or the frame task is in
\* the queue for the connection, to be woken with it.
PassComing == \/ main = "starting"
              \/ passSig
              \/ permit /\ task = "resumed"
              \/ task = "acquiring" /\ Waiting(Frame)

\* No request sits in the queue with nothing to bring a pass about.  The drain
\* swallows the very signals that announce requests, so it is only the frame
\* it belongs to that may still owe them the pass.
NoStrandedRequest ==
  inbox # <<>> => PassComing \/ main \in {"draining", "applying"}

\* Nothing undrawn is left to chance: between frames, a surface whose pixels
\* are behind has a pass coming or a deadline that has not been spent.
UndrawnIsScheduled ==
  (undrawn # {} /\ ~InFrame /\ main # "left") => PassComing \/ wake = "armed"

\* ecs.rs on `pass`: no "extra pass for a signal the drain already accounted
\* for".  A permit is only ever left while the task waits for the connection.
NoExtraFrame == permit => task \in {"acquiring", "resumed"}

\* Whoever waits for the connection gets it or gives up, the frame included:
\* the daemon never holds it past the end of its pass.
ConnectionComesRound ==
  \A w \in Capture \cup {Frame} : Waiting(w) ~> (~Waiting(w) \/ main = "left")

\* Every request that is sent is answered, unless the daemon leaves first.
Answered ==
  \A c \in Client : client[c] # "idle" ~> (client[c] = "idle" \/ main = "left")

\* Every surface that is behind is drawn, although wakes coalesce, draws are
\* deferred to the frame boundary and the deadline may fire into the drain.
Drawn ==
  \A s \in Surface : s \in undrawn ~> (s \notin undrawn \/ main = "left")

\* An exit asked of a frame while the loop runs ends the loop.
ExitLeaves == (InFrame /\ exitMsg # 0 /\ token = "parked") ~> main = "left"

\* ecs.rs on `exit_waker`: "a signal leaves by exactly the path a --exit
\* request leaves by".
StopLeaves == (stop = "woken") ~> main = "left"
=============================================================================
