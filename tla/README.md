# A TLA+ verification of coolabah

coolabah (`src/`) is a status bar for macOS: one daemon that draws a bar and its
popups, keeps items in a Bevy ECS world, hears the system through event sources,
answers requests over a Mach service, and is configured by a script that is just
another client of that service. It draws nothing on a timer: every pass over the
world happens because something signalled the run loop. That makes the hard
questions ones of *waking, ordering and ownership*: is there always a wake behind
what is waiting; does an event, a result or a request arrive once and in order;
does what is claimed, marked or counted agree with what is.

This directory holds TLA+ modules of the parts that answer those questions, TLC
instances of them, and proofs checked by TLAPS.

## 1. Inventory

`PROJECT.json` lists every component with its sources and status. The ones with
logic of their own:

| Part | State | Operations | Correct when |
|---|---|---|---|
| Worker seam, `pool.rs` `Handoff`, `Sender` | a vector behind a mutex, a flag beside it, a run loop source | `send_all` (push, flag, wake), `ready`, `take` | no result stranded; each arrives once, in its sender's order |
| Task driver and pool, `runloop.rs`, `pool.rs` | the driver's slot, the errand channel, `Deferred`, `Task` | spawn, ring, poll, abort, drop | nothing waits without a turn coming; what nobody owns ends |
| C callbacks, `skylight/callback.rs`, `runloop.rs` | a state, its weak pointers, a relay; counted handlers | register, call, let go, reclaim | nothing is used after it is freed |
| Passes and frames, `ecs.rs` | the app slot, the frame task and its `Notify`, the drain's turn count, `FrameBudget`, `Wake`, `AppExit` | `pass`, `poll_frame_task`, `run_frame`, `open_frame`, `arm_wake`, `close_frame`, `exit_waker` | requests get a pass, pixels that are behind get drawn, an exit ends the loop, no pass for nothing |
| Requests, `ipc.rs`, `cli/client.rs`, `requests.rs` | kernel queue, `Requests`, the name `Index`, orders, defaults | deliver, apply, answer or defer | every client is answered; index, order and values agree with what was asked |
| Connection, `skylight/connection.rs` | a fair async mutex | acquire, hand over, give up | comes round to everybody |
| Event sources, `sources/mod.rs` | feeds, the ready set, budgets | `Emitter::send`, `drain` | no event left without a wake, none reordered |
| Subscribers, `subscribers.rs` | port per item, queue and depth per port, a task per port | `set`, `clear`, `push`, the task | each event handled once, in order, or on purpose not at all |
| Claims and registry, `sources/mod.rs` | `Watch` handles, claims and who they deliver to, registrations, grace marks and their count | subscribe, drop, declare, `settle`, `reconcile` | a source runs exactly when something wants it |
| Notifications, `sources/notifications.rs` | rows observed, a watch channel | install, adjust | rows agree with what is declared |
| Platform sources, `sources/*.rs` | a registration, a relay, what was last reported | the callback, the task that decides | what is so is reported, the right device is heard |
| Reload, `config.rs`, `sources/config.rs`, `ecs.rs` | `Stale` marks, `Reloading`, `ReloadWatch` | mark, touch, run, settle; `BeginConfig`/`EndConfig` | what a config left out goes, all else stays, an edit that is let through is run |
| Routines and scripts, `ecs.rs`, `script.rs` | a deadline per item, a job channel, permits | arm, expire, queue, start, wait | an item that wants updating has a deadline, permits come back |
| Aliases, `alias.rs`, `alias_watch.rs`, `extras.rs` | mirrors and their pictures, a window table, three workers, observers per application | list, scan, capture, rebind, watch | a picture is of what its item names, an observer of what is watched |
| Windows and pointer, `bar.rs`, `tracking.rs`, `sources/mouse.rs` | a window per display, the areas installed on each, the Carbon handler | rebuild, install, route, hover | windows follow settings, clicks go to what was drawn |
| Layout, `layout.rs`, `popup.rs` | placements, what each gate remembers, damage | measure, arrange, repaint | what is shown is what drawing everything would show |
| Command line, `cli/` and `protocol` | words read, commands, patches | read, fold, send | all of a line or nothing, and what it says is what happens |
| Lua host and API, `coolabah-lua` | the modules loaded, a call in flight, feeds, callbacks, default tables | require, add, set, subscribe, call, take back | calls are answered, events go to one place, handles name what was asked for |

**How they interact.** A framework calls a source back on a thread of its own; the
callback queues an event, raises the source's bit and signals the PASS run loop
source. A worker that finished pushes into a Handoff, raises its flag and signals
PASS. The kernel delivers a request; the port's handler queues it and signals PASS. A
hosted Lua config queues its calls where the next pass takes them. The main thread
performs PASS: the frame task takes the window server connection (waiting its turn
behind captures on the pool while the loop turns on), soaks up whatever else is
already waiting, then runs the schedule: drain events, apply requests, apply the
commands they queued, dispatch events, run routines, draw or defer to the frame
boundary, reload and settle. What has to wait for another thread never waits on the
main thread; it comes back as a signal.

**Where it is hard.** Signals coalesce, and the drain inside a frame performs the
very handlers that start passes. The flag of a Handoff is read without its lock.
Requests of one batch see the world as it was before the batch, but the index as it
is now. Handles drop when commands are applied, not when they are replaced. Ports
are replaced while their tasks still drain them. Reloads overlap, and so do the Lua
runs they start. Pictures, observers and clicks are about a menu bar, an application
or a frame that may be gone by the time they are looked at. `hazards` in
`PROJECT.json` lists each of these at its line with the properties that watch it.

## 2. Modules

| Module | Models | Checked by |
|---|---|---|
| `Mailbox` | what a worker-to-main seam promises | refined by `Handoff` |
| `Handoff` | `pool.rs` `Handoff<T>`, `Sender<T>` | `MCSeams`, `ThreadProofs` |
| `Executor` | the driver and errands of `runloop.rs`, `Deferred` and `Task` of `pool.rs` | `MCSeams`, `ThreadProofs` |
| `Callback` | `skylight/callback.rs`, `Retained` of `runloop.rs` | `MCSeams`, `ThreadProofs` |
| `PlatformSources`, `Volume` | `sources/` displays, wifi, brightness, volume, power, accessibility, spaces, media | `MCSeams`, `SourceProofs` |
| `Patches`, `CommandLine` | `protocol` patches and what `changes.rs` generates; `cli/` | `MCSeams`, `SourceProofs` |
| `Scripts` | `routines` of `ecs.rs`, `script.rs` | `MCSeams`, `SourceProofs` |
| `Pump` | passes, frames, budget and exits of `ecs.rs`, with what they run on in `runloop.rs`, `ipc.rs`, `signals.rs`, `connection.rs` | `MCPump` (two cfgs), `PumpProofs` |
| `Delivery` | an event from a source's callback to a client or a script | `MCDelivery`, `DeliveryProofs` |
| `Registry` | claims, sources, declarations and the notifications source | `MCRegistry` (three cfgs), `RegistryProofs` |
| `Reload` | items, marks, batches, config runs | `MCReload` (three cfgs), `ReloadProofs` |
| `Alias`, `AliasWatch` | `alias.rs` with `refresh_aliases`; `alias_watch.rs` | `MCScreen` (two cfgs), `ScreenProofs` |
| `Panels`, `Pointer` | `bar.rs`, `tracking.rs`, `sources/mouse.rs`, `route_pointer` and `track_hover` of `ecs.rs` | `MCScreen`, `ScreenProofs` |
| `Geometry`, `Layout` | measuring and arranging; gates, damage and repaint of `layout.rs` and `popup.rs` | `MCScreen`, `ScreenProofs` |
| `Items` | the requests of `requests.rs` about order, values, defaults, popups and graphs | `MCScreen`, `ConfigProofs` |
| `LuaModules`, `LuaApi` | `require.rs` and the sweep of `host.rs`; `api.rs` with `convert.rs` | `MCScreen`, `ConfigProofs` |
| `LuaHost` | `host.rs`, `dispatch.rs`, `direct.rs`, `ipc.rs`, `events.rs` of `coolabah-lua` | `MCScreen`, `ConfigProofs` |

Operators such as `WakeForgotten` or `ShallowMerge`, beside the definition they
resemble, are wrong versions of it. Nothing in a specification uses them: they are
what the properties were tried against, and `PROJECT.json` `mutants` says which
property notices which.

### Between threads
**Handoff and Mailbox.** A send is three steps, because the code unlocks before it
flags and flags before it wakes (`Push`, `Flag`, `WakeMain`); a take is two with the
mutex held across both (`Empty`, `Clear`), preceded by the lock-free `Ready`. `taken`
is a history variable. `Mailbox` has two actions, put down some and collect all;
`Handoff` implements it with `pending <- held, delivered <- taken`, liveness included.

**Executor.** `stack` is what the loop's thread is inside of: a ring is performed by the
loop or by the drain of a pass, the driver likewise, and the slot of the driver is
borrowed while `drive` is on it. Tasks are spawned by errands and by the schedule of a pass; a poll
spawns nothing here, so a spawn from inside one, which would find the slot borrowed
(`runloop.rs` 736-738), is outside the model. An errand is sent and then rung for; its handle lands
(`Arrive`) after its task was spawned, and its owner may let go before or after that.

**Callback.** A `Callback` owns the strong reference, the framework has a weak one as a
bare pointer. Upgrading it, the call and the release are steps of their own, and the
owner lets go between any two of them.

**PlatformSources and Volume.** One behaviour follows one source. `due` is what the
framework has yet to call back about, `ticks` the relay, `last` what the task remembers,
and `told` what was true when it last emitted. For brightness, a teardown names a display
and not a registration, so `TearDown` takes with it whatever else is registered for that
display: `lost` is the runs that lost theirs so. `crowded` is auxiliary, the runs that
registered beside one still coming down. In `Volume`, the two threads that both
move the listeners do so step by step (`at`).

**Scripts.** `standing` is each item's deadline. One pass looks at what has come due, arms
what follows and takes deadlines back; the workers are counted by what they hold a
permit for (`starting`, `running`, `waiting`).

### A pass and what it works on
**Pump.** `main` is where the main thread is: parked in the loop (`base`) or in a frame
(`draining`, `applying`, `presenting`, `closing`). `Poll` is `pass`: notify the frame
task, poll it once. `AskForConnection` is the await. `NestedPass` and `NestedExit` are
what the PASS and EXIT handlers do when the drain dispatches them. `Present` is the
end of the schedule: remember what wants drawing, open a frame or arm the deadline.
`exitMsg` is `AppExit` with Bevy's two message buffers, because whether an exit is
seen depends on how many updates old it is. `dirty` is what a change-detection gate
would report, `undrawn` what the screen is really behind with; that these can differ
is the point of `want`.

**Delivery.** One item stands for all; it may subscribe any number of times, with or
without a port. The drain is a visit and a look back for each feed (`VisitFeed`,
`LeaveFeed`), because callbacks run between the two. A push is `Count` then `QueueForPort`
or `Refused`; a port's task is `Recv` and then one of `HandOver`, `SendFails` and
`FindGone`. `holds`, `leaving` and `listed` keep the handles apart from the list of
who receives, since the code lets them part (see the findings).

**Registry.** `handles` and `leaving` are the `Watch`es items hold and those waiting to be
dropped by the command queue; `dependents` is each claim's list. A claim lives while any
handle does. `Reconciled` is one source's `reconcile_against`, `Evicted` its grace
pass, `Reconcile` the same for a set with the shared count. The notifications source
has rows, installed at start and adjusted by a task the loop polls between passes.
Whether a framework accepts a registration is a free choice.

**Reload.** `items` and `marked` are the world; `spawning`, `marking` and `despawning` the
batch's command queue; `index` changes at once. A request about the bar's windows may
re-enter the loop and let others in (`Reenter`, `Return`). A run answers in two steps,
`SendOutcome` before `Signal`. `Save` is `Debounce::admit`: an edit opens a window
(`recent`, closed by `WindowCloses`) and asks for a run, one that falls into the window is
refused and leaves nothing behind. `edited` says that a run which is still to begin will
find the file edited. Ghosts that no action reads remember what was touched for
the awaited run and whether an older one was still going.

**Items.** One pass takes requests, then applies their commands: until then an added item
is in the index and in no query, and a removed one the other way round. Of the fields
a patch can have one stands for all; what a patch is, is `Patches`.

### What is shown
**Alias.** Three workers, each publishing in steps (result, flag, release, wake), against a
pass that collects (one picture at a time, in the order they landed), resolves specs to
windows, rebinds, and submits captures. A spec is hosted by Control Centre or native, because only a scan can attribute the former.
**AliasWatch** has the registration (`watching`, the main thread's) apart from the observer
(the sources thread's), with the errands between them in a queue.

**Panels** has what settings and displays ask for beside what each window was told; every
call may be refused, and `refused` remembers it. **Pointer** has areas as places that showed
an item in the last frame. A pass is one action there: nothing else runs meanwhile on
the main thread. **Geometry** is arithmetic over one sheet of inputs, in half points. A sheet
is a box, on the bar or in a popup, whose children `WidthOf` measures without their graph or
slider, with texts that negative paddings may eat up; or a row of items of any widths, and
where its bar begins on the desktop. `OnDesktop` and `AnchorAt` keep the code's two systems
of coordinates apart: a popup's host is where it is on the desktop, and what the popup is
kept within is a width, from nought.
**Layout** shows, column by column, what is on the screen, so that damage too small leaves
an old column behind; the bar there begins at `PanelX`. Items are sorted before they are placed and brackets are not: they are
drawn as a query yields them (`rows`), and a mark that a reload puts on some and takes off
others moves them (`Relist`).

### What a config says
**Patches** and **CommandLine** read pairs and words one at a time, as the code does, and
choose each when it is read. **LuaModules** has the set of files a host watches, which
outlives the Lua states that fill it. **LuaApi** is one verb at a time with the requests it
becomes. **LuaHost** is the run, its one call in flight, and the daemon's end of it: over the
shared queue ("direct") or through a worker and a Mach port ("ipc").

## 3. Runs

| Run | Question | Bounds |
|---|---|---|
| `seams` | what crosses a thread or comes from outside: is anything stranded, dangling, not reported, or not what was said | see below |
| `screen` | what is shown, found by the pointer, ordered, loaded and served: is it what was asked | see below |
| `pump` | are requests answered, is all that is behind drawn, does the connection come round, does an exit leave | one client, one capture, a coalescing limit of one, two refresh intervals |
| `pump_stop` | does a stop signal always leave: **no** | one client, no capture |
| `delivery` | are events drained, ordered, handled once, never dropped, and at rest in the end | two sources, two events, two ports, budget one |
| `registry` | do sources serve exactly what is claimed | the bar and one item, four events, three sources, two notifications |
| `registry_resubscribe` | is what is wanted received: **not always** | the same |
| `registry_rebridge` | is what is declared observed: **not always** | the same |
| `reload` | does a reload take what was left out and only that, is every edit run | one name, one other client, two runs, two entities |
| `reload_overlap` | does every successful run drop what it left out: **no** | the same |
| `reload_batch` | does the index follow the world: **no** | one name, two other clients, one run, three entities |
| `alias_rewritten` | does an alias mirror what its item names: **no** | those of `screen` |

`seams` and `screen` each instantiate several machines. They share no state in these
models (the code joins them only through values the models choose freely), so
interleaving them would multiply states and show nothing; a behaviour is of one of them, `part`,
chosen at the start, and the others keep their initial state.

| Machine | Bounds in `MCSeams.cfg`, `MCScreen.cfg` |
|---|---|
| Handoff | two workers, three sends each, batches up to two |
| Executor | one errand, one awaited call, one task of the loop's own |
| Callback | one registration of each sort, one handler, two postings, batches of two |
| PlatformSources, Volume | eight sources, two starts, two waiting posts; two devices |
| Patches, CommandLine | five values, two pairs; eight commands, four words |
| Scripts | two items, update every 0 to 2 seconds, one permit, three seconds, two inputs |
| Alias, AliasWatch | one item, a hosted and a native spec, one window, one change; two items on one application, two frames, two registrations |
| Panels, Pointer | two displays, one item, three changes; two items over one place, a drain of one, three steps and two clicks |
| Geometry | lengths -2, 0 and 2, a bar of 8 that begins at one of them, at most two items in a row |
| Layout | two items, two brackets, widths 2 and 6, a bar that begins at 2, three changes |
| Items | three names, one of them a graph's, two samples, three requests |
| LuaModules, LuaApi, LuaHost | two names, two candidate files, two runs, one edit; three kinds, two verbs; two runs, one item, one kind, one call, one event |

Why the bounds are enough for what they are to show:

- *Handoff*: two workers are needed for a flag raised for a value already taken;
  three sends and batches of two let a worker push again between a take and its
  clear, and a batch straddle them. *Executor*: one of each kind is already every pair
  of frames that can be inside one another. *Callback*: two postings give one that is
  relayed while another is called. The safety half of these is proved without bounds.
- *PlatformSources*: two starts give a registration that is still coming down when the
  next one comes up, which is the most there is. *Volume*: two devices give one to leave
  and one to follow.
- *Patches*: two pairs are a repetition, a contradiction, a spelling of the same field,
  a whole and its part. *CommandLine*: four words are a command with its positional words
  and another flag among or behind them.
- *Scripts*: frequencies 1 and 2 over three seconds make boundaries coincide and part;
  one permit makes every second script wait.
- *Pump*: one synchronous client has at most one request outstanding, and one capture
  already makes the frame wait, be handed the connection and be woken. A limit of one
  gives a drain that stops at its limit and one that runs dry; the code's limit is
  larger, and only whether it is reached matters. With two refresh intervals a deadline
  can lie before and after a new one. `SlowestRefresh` stands for any age beyond it.
- *Delivery*: a budget of one with two events makes every drain stop short; two
  sources let one be visited while the other calls back; two ports give a replaced
  port whose task is still draining. Deadlock is checked.
- *Registry*: the bar wants one event nobody else provides for, the config source is
  eager, and the notifications source has a fixed event and a declared one. That is
  one source of every sort the code tells apart.
- *Reload*: requests act on names one at a time and the marks are on entities, so the
  contention is between clients over one name. The second run is one that an edit was
  let through for, and any number of edits is refused before, while and after it runs. Two
  names were tried and exceed
  twenty million states without a new kind of step. `reload_batch` has a third entity
  and a second client because the case needs an old item, its removal and its
  successor in one batch.
- *Alias*: the workers, not the items, make it hard: one window that closes or
  is repainted while each of three workers is out. *AliasWatch*: two registrations of one
  process are what results can be mistaken between; two items share it.
- *Panels*, *Pointer*, *Layout*: three changes are a change, another while the first is not
  drawn, and one that undoes it; a second item is what the first is moved over.
- *Geometry*: lengths on both sides of nothing make texts that take room, take none and take
  less than none, and bars that begin at, before and after nought; with two items each
  bucket has a first and a last. The proof is about rows of any length.
- *Items*: three names are one moved, one it is moved next to and one that must stay.
  `OrderIsKept` holds without these bounds.
- *LuaModules*: two runs overlap or follow each other, one edit moves or breaks a file in
  either. *LuaHost*: the second run is the one that takes the first one's feeds.

Several machines were also run alone with larger bounds, with the same result: Executor
with two errands, Callback with three postings, Volume with three devices,
PlatformSources with three starts, Scripts with two permits and three inputs, AliasWatch
with three registrations, Panels with two items and four changes, Layout with four
changes (with one bracket), Items with two names and five requests (and with three and six of those that add,
remove and reorder), LuaModules with three runs, LuaApi with three verbs.

`CHECK_DEADLOCK FALSE` is set for Pump, where the daemon leaves and then nothing
happens, and for `seams` and `screen`, where a command line is over, a sheet is measured,
a platform has nothing more to report. A bound on data (`MaxSends`, `MaxEvents`,
`MaxRuns` and the like) is a guard on the environment's actions and is never on a step
the code has to make.

## 4. Fairness

- *Handoff, Delivery, Reload*: a pass whose wake is pending runs and runs to its end;
  the run loop performs a signalled source and the code between is straight-line. A
  worker or callback inside `send` finishes it. A port's task is a future on a pool,
  and a living client keeps making room; a client may also die at any time.
- *Executor*: the loop turns, a thread that sent rings, what the thread is inside of comes
  to its end. Strong fairness for performing RING and DRIVER and for polling a task: a
  pass or another task disables them for a while, again and again, but a turn performs
  every signalled source and the local set keeps its tasks in a queue.
- *Pump*: weak fairness for what the main thread is in the middle of, for the pool,
  for time, and for the release of a capture's connection, which is one bounded round
  trip. Strong fairness for the PASS and EXIT handlers, for a message on the port and
  for a deadline that has passed: frames disable them again and again, but each turn
  of the parked loop performs every signalled source and takes one message.
- *Registry*: a pass that began ends and a task that was woken is polled. Nothing
  makes a pass begin; `IdleSourceStops` therefore states its own assumption, that
  passes keep coming.
- *Scripts*: a deadline that has passed fires, and a pass that was asked for runs. *Alias*:
  the pass and the three workers go on with what they have.
- Nothing is assumed of clients, of scripts ending, of frameworks calling back, or of a
  config's run ending.

## 5. What the checks show

- **Handoff.** `NothingStranded`: whenever something is held, a worker is on its way to
  the flag, or the flag is up with a wake or a pass behind it. `ImplementsMailbox`: each
  value is collected, once.
- **Executor, Scripts.** `NoWorkStranded`: a task with something to do has a turn of the
  driver coming; an item stands on a deadline
  exactly if it wants updating, on a boundary of its own frequency, and permits are never
  lost. `HandedOverIsDone`: an owner that lets go ends its task whichever way the
  handle's arrival and the drop race; a call is answered; a boundary that passed is looked at.
- **Callback.** `NeverDangling`.
- **Platform sources.** `SourcesListen`: once the callbacks and the relay are empty, what was
  last told is what is so, as long as the framework still calls the run back; the live
  brightness run is the one the callback reaches, and loses its registration only if it
  registered while another run was coming down; the volume source hears the device it
  remembers and no other.
- **Command line.** `CommandsMeanWhatTheySay`: a line with a mistake anywhere sends nothing,
  every flag of an accepted one is one request, and a patch's outcome does not depend on
  the order or nesting of its keys.
- **Pump.** `NoStrandedRequest`: the drain may swallow the signal that announced a
  request, but only in the frame that then takes it. `UndrawnIsScheduled`: between
  frames, what is behind has a pass or an unspent deadline. `NoExtraFrame`: a permit is
  only ever left while the frame task waits. `ConnectionComesRound`, `Answered`,
  `Drawn`, `ExitLeaves`.
- **Delivery.** `NoStrandedEvent`, `OnceInOrder` (no event overtakes an earlier one of its
  source at any stage, none is handled twice over ports being replaced and script
  fall-back, and the depth counts), `NeverDropped` (the three ways an accepted event may
  be let go are named in it; any other is a violation), `ComesToRest`.
- **Registry.** `ServesDemand` relates registrations to claims after every pass,
  `StaleCounts` the count to the marks (a count too low would leave a source registered
  for ever), `OnlyHoldersReceive`, `IdleSourceStops`.
- **Reload.** `SweepsNoMore` (only a success sweeps, and nothing that was touched for it),
  `DropsWhatWasLeftOut` (for a run that ran alone), `EditIsRun`: an edit that was let through,
  or refused before the run asked for had begun, is followed by a run that begins after
  it, and a run that has answered is settled. An edit refused later is followed by none.
- **Alias, AliasWatch.** `PicturesBelong`: a picture is never drawn for another spec than it
  was taken of, whatever changed while it was out. `AliasesRest`: an alias that is found
  nowhere is not polled for. `ObservesWhatIsWatched`: when nothing is on its way, the
  observer is that of the registration the main thread has.
- **Panels, Pointer.** `PanelsFollow`, `ClickHitsWhatWasDrawn`, `MouseServesDemand`.
- **Geometry, Layout.** `DrawsWhatItMeasured`: an item of the bar whose texts take room is drawn
  in the box that was measured, and where the two functions disagree it is by the graph or
  slider that was left out and at most two gaps. If no item measures less than nothing, no
  box of a bucket covers another, and the middle ones keep clear of each other and of the
  notch. A popup that fits on the display the desktop begins with is on it; of other
  displays nothing is said. `ShowsWhatIsThere`: partial repaints show what a whole one
  would, wherever the bar begins.
- **Items.** `OrderAndValuesKept`, `MovesOnlyWhatIsMoved`.
- **Lua.** `WatchesWhatIsLoaded`; `HandlesKeepPromises`: a handle that `add` returned names an
  item that has everything the call and the defaults said, and a bracket the members it was
  called with; `LuaIsServed`: calls are
  answered or on their way, and an item a config handles never has its script run.

Some of these name a case in which they do not hold, as the code is: a `Reorder`
that names an item twice or one of two of a name, a failure that is reported for an earlier registration of the
same process, a change no repaint gate looks at, more clicks than a pass takes, a call the
window server refused, a popup on a display that does not begin at nought, an edit refused
while a run executes. Each is in `hazards` or below.

### Where the code and its comments disagree
Each is a run that TLC finds violated; `findings` quotes the text.

1. **A stop can be swallowed** (`pump_stop`, `ecs.rs:352`). When the drain dispatches
   the EXIT handler, the app is borrowed and no `AppExit` is written; the signal is
   spent. The daemon stays up after SIGTERM.
2. **Subscribing again stops delivery** (`registry_resubscribe`, `requests.rs:997`). The
   new handle finds its owner listed already; dropping the old one takes the owner off.
   The event stays claimed, its source runs, and nobody receives it.
3. **A declaration's new notification is not observed** (`registry_rebridge`,
   `sources/mod.rs:1469`). Demand is the same set of kinds, so nothing is told.
4. **An overlapped run spares what the new config dropped** (`reload_overlap`,
   `ecs.rs:1356`). The older script's requests lift the newer run's marks.
5. **A bracket can unname an item** (`reload_batch`, `requests.rs:1119`). `EndConfig`
   removes by name what it reads from a world the batch's despawns have not reached.
6. **A rewritten alias mirrors what it named before** (`alias_rewritten`, `ecs.rs:1015`).
   The entity has an alias already, so none is made from the new spec.

Smaller things noted in passing, which the models follow the code in and no run is about:

- `sources/mod.rs`: the comment on `Liveness` speaks of a source surviving until the next
  pass; `EndConfig`'s republish marks the notifications source and the settle at the end
  of the same pass sweeps it.
- `subscribers.rs` 163-164 says a replaced port's task "stops its drain once it has finished
  the event in its hands"; the channel is read to its end, as in `Recv`, and
  `NeverDropped` depends on that.
- `cli/args.rs` 145-147: a key given under two spellings with two values is not refused.
  `cli/grammar.rs` 298-303: what follows `--add`'s position is dropped. A Lua `add` with no
  position defaults to left, where the command line refuses. A built-in event's name with
  a slip in it is taken for a custom one.
- `sources/brightness.rs` 163-173: the comment calls a late teardown of an earlier run a
  no-op, since the callback's context is the new run's. It unwatches by display and
  passthrough alone (`skylight` `display.rs` 199-205), so it takes the new run's
  registration too, and that run reports no change until the source is restarted.
- `config.rs` 156-161: an edit within 250 ms of an admitted one is refused. If the run that
  one asked for has begun by then, nothing runs the later edit; the comment at 140-143 has
  only the several events of one save in mind.
- `popup.rs` 307: "Kept on the display it belongs to". The host's frame is on the desktop
  (460, 509-516) and is clamped to a bare width (312-313), so on a display that does not
  begin at nought the popup is moved to where the first one is.
- `popup.rs` 488-496: a popup's items are measured without a graph or slider and drawn with it
  (`layout.rs` 814-821), over what is next to them. A text whose paddings bring it to zero or less is
  measured without its gaps and drawn with them (142-151, 809-824).
- `coolabah-lua` `direct.rs` 232: calls queued when the host goes are not answered.
  `host.rs` 159: overlapping runs share one set of modules. `api.rs` 795: options that cannot be read
  leave the item that was added, bare.
- `bar.rs` 341: a rebuild refused midway drops the windows not reached. `layout.rs` 971-1007:
  a refused drawing is recorded as drawn. `tracking.rs`: with two displays, an item's area is
  installed again on every pass.
- `ecs.rs` 1583: routines read the wall clock and sleep on another. 1619-1621: switching
  `updates` on again runs the script at once.
- `requests.rs` 993: an alias or a space that subscribes loses the handles its `Add` took. 905-921: a
  `Remove` by pattern can unname an item of the same batch, which stays; a later `Add` makes
  a second one of that name, and a `Reorder` that names it numbers one of the two (953-973),
  so that two items share an order. The attempt to prove `OrderAndValuesKept` found it.

## 6. What is proved

For every value of the constants, each proof from its module's named assumptions
alone:

| Module | Theorem | States |
|---|---|---|
| `ThreadProofs` | `HandoffTyped` | `Spec => []TypeOK` (of Handoff) |
| | `NeverStranded` | `Spec => []NothingStranded` |
| | `ArrivesInOrderOnce` | `Spec => []InOrderOnce` |
| | `SafelyImplements` | `Spec => ImplementsMailboxSafety` |
| | `TasksAreDriven` | `ExecutorSpec => []NoTaskStranded` |
| | `CallbackTyped` | `CallbackSpec => []CallbackTypeOK` |
| | `NothingDangles` | `CallbackSpec => []NeverDangling` |
| `SourceProofs` | `SourcesAreRight` | `PlatformSpec => []SourcesReport` |
| | `VolumeListens` | `VolumeSpec => []ListensToOne` |
| | `RoutinesAreArmed` | `ScriptsSpec => []RoutinesStand` |
| | `NoWorkIsStranded` | `SeamsSpec => []NoWorkStranded` |
| | `SourcesAreListening` | `SeamsSpec => []SourcesListen` |
| | `PairsMean` | `PatchesSpec => SaysWhatItMeans` |
| | `CommandLinesAreWhole` | `CommandSpec => []CommandsAreWhole` |
| | `CommandsAreMeant` | `SeamsSpec => CommandsMeanWhatTheySay` |
| | `SeamsTyped` | `SeamsSpec => []SeamsTypeOK` |
| | `SeamsStayRight` | `SeamsSpec =>` `[]` of what the theorems of `ThreadProofs` say of Handoff and Callback, and `ImplementsMailboxSafety` |
| `PumpProofs` | `TypeCorrect` | `Spec => []TypeOK` |
| | `RequestsComing` | `Spec => []NoStrandedRequest` |
| | `DrawsComing` | `Spec => []UndrawnIsScheduled` |
| | `NoPermitLeft` | `Spec => []NoExtraFrame` |
| `DeliveryProofs` | `DeliveryTyped` | `DeliverySpec => []DeliveryTypeOK` |
| | `EventsComing` | `DeliverySpec => []NoStrandedEvent` |
| | `HandledInOrder` | `DeliverySpec => []OnceInOrder` |
| | `NothingDropped` | `DeliverySpec => NeverDropped` |
| `RegistryProofs` | `TypeCorrect` | `Spec => []TypeOK` |
| | `OnlyHolders` | `Spec => []OnlyHoldersReceive` |
| | `StaleCounted` | `Spec => []StaleCounts` |
| | `DemandServed` | `Spec => []ServesDemand` |
| `ReloadProofs` | `SweptRightly` | `Spec => SweepsNoMore` |
| | `LeftOutIsDropped` | `Spec => DropsWhatWasLeftOut` |
| `ScreenProofs` | `MouseIsServing` | `PointerSpec => []MouseServesDemand` |
| | `ClicksHit` | `PointerSpec => []ClickHitsWhatWasDrawn` |
| | `PicturesStay` | `AliasSpec => []PicturesBelong` |
| | `ObserversFollow` | `AliasWatchSpec => []ObservesWhatIsWatched` |
| | `WindowsAreRight` | `PanelsSpec => []PanelsFollow` |
| | `DrawnAsMeasured` | `GeometrySpec => []DrawsWhatItMeasured` |
| | `ScreenIsCurrent` | `LayoutSpec => []ShowsWhatIsThere` |
| `ConfigProofs` | `WatchedIsLoaded` | `ModulesSpec => []WatchesWhatIsLoaded` |
| | `HandlesAreKept` | `ApiSpec => HandlesKeepPromises` |
| | `ConfigsAreServed` | `LuaHostSpec => LuaIsServed` |
| | `OrderIsKept` | `ItemsSpec => []OrderAndValuesKept` |
| | `MovesRightly` | `ItemsSpec => MovesOnlyWhatIsMoved` |
| | `ScreenTyped` | `ScreenSpec => []ScreenTypeOK` |
| | `ScreenStaysRight` | `ScreenSpec =>` `[]` of the nine invariants that `MCScreen` checks beside its type |
| | `ScreenActsRight` | `ScreenSpec => MovesOnlyWhatIsMoved /\ HandlesKeepPromises /\ LuaIsServed` |

A proof module holds the proofs of the machines of one area, a part each; the compositions
are at the end of `SourceProofs` (`MCSeams`) and of `ConfigProofs` (`MCScreen`).

**Handoff** (`SendsAssumption`: both bounds are natural numbers). The inductive
invariant is `TypeOK /\ Exclusion /\ NothingStranded /\ OnlySent /\ InOrderOnce`.
`NothingStranded` is not inductive alone: at `Clear` the flag goes down, which is safe
only because nothing was pushed since `Empty`, and that is `Exclusion`, the mutex's
whole purpose here. `InOrderOnce` needs `OnlySent` at `Push`: what is appended has to be
larger than all that worker has in the log. `SafelyImplements` maps `Push` to `Put`,
`Empty` to `Collect` or a stutter, and all else to a stutter.

**Executor** (`ExecutorAssumption`). A task that becomes ready signals DRIVER only if the
local set has a waker, so the invariant needs `Driven`: a task was spawned on a driver,
and one that waits was polled. `Outer` is about the stack: only a pass and its drain are ever
left for something inside them, so the driver is on top of it or not on it.

**Callback** (`CallbackAssumption`). One registration's references are counted exactly, by
phase: the owner's until it lets go, the framework's weak one until it is reclaimed, one
for a call inside. `KnownStands` follows, and from it that no call finds its block freed. A
relay's reader ends only when the last sender has, and a call holds one.

**PlatformSources** (`PlatformAssumption`: among others, the platforms are some of the eight
there are). What a source knows is not an invariant while something is in its relay;
`Informed` says what the relay will come to. For wifi, whose relay says which interface
joined what, the *last* post about an interface is what is so, or it is known already and
none is waiting (`ComesTo`); for the others it is enough that the relay is not empty. `Remembers` ties
what the task compares a reading with to what it told, and `RunsInTurn`, that one run is
live at a time, gives that the context is the live run's. That this run loses its registration
only beside another is `Crowding`: whatever is still coming down was so when it registered.

**Volume** (`VolumeAssumption`). Two threads run `relisten`; that they never do at once is
`OneRelistens`: the pool's does while the source is installed, CoreAudio's while it is live.
`Listened` then says, for the thread that is in it, which device's listeners are on at each step.

**Scripts** (`ScriptsAssumption`: frequencies are natural numbers). `RoutinesStand` needs
only types and that a deadline fires when it is reached (`FiredWhenDue`); the weight is
in `next_boundary`, that the boundary after a moment is a multiple of the frequency
and later by no more than one.

**Patches** (`PatchesAssumption`). A patch is read group by group, in the order in which the
heads of its keys are first named, and within a group key by key; both are recursive functions
over the pairs. What a reading says of a field is said after each step of them (`TableIs`, `ReadIs`, by
induction over the pairs): the field's own key, if the reading has come to it, else the bare form
of its head. That no two pairs contradict each other is what makes one pair stand for all of its
key, and that a group is folded in as a whole what makes the order of the groups not matter.

**CommandLine** (`CommandAssumption`: no command but those of the grammar). `CommandInv` says at
every argument what the property says at the end: all read so far is in the requests and in the
command being read (`Half`), in order, and the flags among it are as many as those. The weight is in
`TakesRequired`, that what a command takes as a name is never a flag, and in lemmas about
flattening a sequence with one more at its end (`FlatAppend`, `FlagsAppend`).

**Types** of the seven machines. `ExecutorRest`, `ScriptsRest` and `PlatformRest` are what the
invariants above leave open. One of them needs an argument: the facts a source has told are at
most one a key, since what it tells replaces what it told about the same one (`TellsFew`), and for
wifi, whose relay is one channel for two interfaces, that needs the relay to hold
readings of interfaces only.

**The composition** `MCSeams`. Its steps are steps of one machine that leave the others
alone (`SeamsAct`), so each machine's invariant is the composition's, and `NoWorkStranded`,
`SourcesListen`, `CommandsMeanWhatTheySay`, the types of all and `SeamsStayRight` follow.

**Pump** (`LimitAssumption`, `CaptureAssumption`: a capture is neither the frame task nor
nobody). The inductive invariant adds four facts. `OneFrame`: the frame task is past
its await exactly while the main thread is in a frame. `HandedOver`: a task that waits is in
the connection's queue, or has been handed the connection and signalled; this is what
makes it safe for the parked loop to spend a signal on a task that merely waits, and it
rests on three lemmas about the queue (`JoinQueue`, `LeaveHead`, `GiveUp`).
`Remembering`: what is behind is known to a gate or remembered by the budget. `Deferred`:
a frame that leaves something undrawn leaves a deadline. `ComingStep` is the argument
requests and drawing share: what is on its way stays so, or a frame begins.

**Delivery** (`DeliveryAssumption`: an interest is a set of sources, and no source is the
value that stands for none). For `NoStrandedEvent` the invariant adds `Closed`: a feed
that is not up holds nothing, so that one which starts has nothing behind it nobody
announced. The step that carries weight is `LeaveFeed`, which looks at the queue again and
signals for what arrived since the visit or lies behind the budget.

That events are handled once and in order is proved by their *place*: `EventsAt` says what
is in each feed, in the batch, with each port (what its client has, what is being sent, what
waits) and with the script. An event is in one place, once (`Lone`), and `Ordered` says
which places can still meet: a feed comes behind the batch, and both behind the port that
is being filled. A step then takes from the front of one place, or puts at the end of
another, and lemmas about two and three sequences one after the other carry the order
over. `DepthCounts` needs more than it says, of a port whose task has gone: it counts
the push in progress at least (`Counted`), so that the port's drop of it never goes below
zero. `NeverDropped` is proved by the same places: a number at some place before a step and
at none after it was in a feed that went, or a port, or was the one refused.

**Registry** (`RegistryAssumption`: among others, the sources are finitely many, and the
events the notifications source has of its own are not custom ones).
`OnlyHoldersReceive` holds only once the commands are applied; its strengthening
`ListedByHandle` says that whoever is listed holds a handle *or has one still to be
dropped*, and `DroppedByTheEnd` that none is left after `Flush`. `StaleCounts` needs that a
reconcile moves the marks exactly as it moves the count: `ReconciledSound` for one
source, `CountMoves` for the cardinalities, `ReconcileCounts` for any set of sources.
`TypeCorrect` follows from both: the count is bounded because it counts.

`ServesDemand` is about a settled daemon. In the middle of a pass, `DemandMet`: a demand that
is not met shows in `moved`, which is what makes settle look. `UnclaimedAtStart` covers the
pass before the first reconcile, and `NamedServed` what an unmarked source may still serve,
which `republish` relies on. `RowsServed` follows the rows through an adjustment its task
has yet to see.

**Reload** (`ReloadAssumption`: among others, there is a name). `KeptUnmarked`: what was
touched for the awaited run has no mark, or is having it lifted; with it no sweep takes what was
kept. For `DropsWhatWasLeftOut`, `MarkedOrKept`: while the awaited run has been alone,
whatever is there was touched or has its mark, and `OnlyItsRequests`: nothing of another run
is waiting to touch it. `ToBeMarked` reads the marks as the waiting commands will
leave them, since marks and world change at different times.

**Pointer** (`PointerAssumption`). `HandlersFollow`: only a stopped source has a handler that
is going, and what its task serves is what the source does, or an adjustment is
unseen. From it at most one handler hears a click, so that `HeardOnce` survives `Press`
however often handlers are replaced. A click that has not waited knows what is drawn
under it (`OverWhatIsDrawn`), because a pass, which draws, marks the clicks it leaves as late.

**Alias** (`AliasAssumption`). That a picture is of its mirror's spec is kept by `Wants` at
each picture that lands, and by a mirror being replaced, not changed, when its spec is
another (`Belongs`). That nothing is left behind when all is idle follows each result on its
way: filed and about to be flagged, flagged by a worker that has yet to wake the loop, or
a pass comes that takes it (`ListHeard`, `ScanHeard`, `PictureIsHeard`). Several captures may
be between filing and flagging at once, so for them that is a count; and an item is in `out`
only while there is an ask or a shot of it.

**AliasWatch** (`AliasWatchAssumption`). The main thread decides by what it has asked for,
the sources thread acts on a queue of errands, and tasks are aborted in between. The
invariant reads the main thread's state as one record (`Main`), as the calls of one
`sync_one` change it, and says, application by application, what its observer is *against
the registration it has*: `Stands` goes by the step its task is in. Until the observer is
made, an older one is gone or a drop for it stands in the queue before the create
(`DropsFirst`); once made it is this registration's, and if it is matched against anything
else than what is watched, the task holds a permit or a rebuild is queued. `Queued`: an
observer is made once, and only for a task that waits for it or has gone. The case the code
has a special guard for, a registration that ended while its observer was being made, is
`Emptied`: it watches nothing, so the create does not keep the observer. That last one fails for
a registration ended by another's failure, which `outlived` notes; the property makes the same
exception.

**Panels** (`PanelsAssumption`: among others, the displays are finitely many). A window may
be off while a pass is owed, so `WindowsFollow` speaks of what was told and what was
claimed, and `ClaimsFollow` of claims against what was drawn. `DrawnRight`: what was drawn
is where the items are laid out unless a repaint is wanted. `PassComes`: a pass is
owed as long as there is something for it to do. At the end of a pass an item holds one
area; if it was drawn in one, that (`PlacedRight`), and with several displays one of them.

**Items** (`ItemsAssumption`: the names are finitely many). A query finds neither what this
batch added nor loses what it removed, so a renumbering from zero meets items that keep their
number. Why it does not meet *them*: `OrdersStand`, what a query does not find yet comes after
all it finds. As the orders of what it finds are different naturals below any such number,
there are no more of them than that (`PlacesSuffice`, a pigeonhole), and the new numbers stay
below it, and below `next_order`. `SortedOnce`, `ReinsertedOnce` and `NumberedOnce` say that
each way of making an order has every item the query finds once; `NewPlace` is where a move
puts each, and `MovesRightly` is its arithmetic. `ValuesStand`: what is still to be given
defaults is an item no client could have set yet.

**Geometry** (`GeometryAssumption`: in the unit of the model lengths are even, so that
half of one, or of a sum of some, is exact; any lengths the code's floating point halves exactly
are, in a unit small enough; and a display has a width, without which a popup's damage in
`Layout` would not be an interval). There is one step, so the weight is in what it computes, for
rows of any length. The sums and the buckets are recursive functions, and what they
are is proved by induction over the naturals (`AllNat`, from the least element a set of
naturals has: the library's induction takes an operator). `RunIsLaid`: a run from `x` is
laid from `x` to `x` and its total, nothing over another, as `Upto` grows; a run laid up
to `x` is a run laid from as much before it (`RunUpToIsLaid`). `PieceIsLaid` gives each bucket the
interval it is laid in, and the middle three have intervals that do not meet. `BoxesHold` goes
through which texts take room, and `PopupIsLaid` lays a popup's items, a negative width
counting as none.

**Layout** (`LayoutAssumption`: among others, the items are finitely many, and no item is a
bracket too). While something is owed, a surface shows neither what is there nor what was when
it was last drawn as a whole. What it shows is its *list* with each item as that looked when
drawn (`Looked`); those nothing has touched since look so still, and lie over each other as
they would now. The second is an order on items, brackets first, by `rows` among themselves and
the rest by side and order (`Below`): two lists that hold the same two items have them in
the same order if their orders, sides and rows are the same (`LaidIs`, from
`InKeepsOrder` of Geometry, and `BelowOneWay`). `Mends` is the repaint: in a torn column all that is drawn is drawn anew; in a
column that is not, the items over it are the same ones as before, in the same rectangles, none of
them touched, so neither what is drawn there nor what is on top is another. `BarShown` and
`PopupShown` carry this through any number of changes, `BarRests` and `PopupRests` say that
a surface nothing is owed to is up to date, and a change that leaves a surface's items alone
leaves the layout alone (`BarKept`, `PopupKept`). The brackets' order is the one thing a repaint
cannot mend, since no rectangle moves: `unlisted` notes it.

**LuaModules** (`LuaModulesAssumption`). The property is about a run that is over; what
carries a run to its end is `HasItself` (a run that began alone has the set of modules to
itself until another begins) and `Lifted` (in that set, exactly what it has resolved carries no mark,
each under the file it resolved to), so that the sweep at its end takes exactly what it
did not ask for. The property is about runs that no other overlapped.

**LuaApi** (`LuaApiAssumption`). The code's merge descends as deep as the tables do; options hold
tables of plain values and no deeper, so that `DeepMerge` is written out for those two levels and is no
recursion. `MergeMerges` says of any tables that what the options say holds of the
merge, and what they leave unsaid is the default's; `LabelKept` and `LabelInherited` carry that
to the label a promise is about. `ApiInv` adds that the add under way was merged with
the defaults of now, and that a minted name is one of those made, by kind and number, which is why
no two handles share one.

**LuaHost** (`LuaHostAssumption`). `LuaIsServed` is an action property, that no script is
given an event a config handles, and an invariant, that a call is answered or on its way. For the
second, `Attended`: whatever the daemon has not taken has a pass asked for or about to
be by the run that queued it. For the first, the invariant follows a feed from the
moment a run asks for it: `OpensOnce` (it opens each item once and waits for the answer),
`ReaderStays` (a Subscribe on its way over a port has a reader at the other end),
`TakenAnew` (what the daemon has taken since is what it asked for), `SentThere` (the config
that handles an item is where the daemon sends its events).

**The composition** `MCScreen`. Again a step is a step of one machine and the others stay as they
are (`ScreenActs`), so each machine's invariant is the composition's. The invariants
above type what their own arguments need; what is left of each type is a second invariant beside
the first (`AliasRest`, `PointerRest`, `PanelsRemain`, `LayRest`, `ModulesRest`, `LuaHostRest`), and
`ScreenKept` is all of them. Most of what is left restates a guard, and some of it
needs an argument. A mirror that an item gets is of a spec: the items a pass has yet to look
at are those that had one when it began (`TodoTyped`), and an item's spec is only removed
between passes. A mirror has one window and one picture at most because both are replaced and never
added to (`MirrorTyped`). A window's number is among those of the displays there are, however many
come and go, because it is the count of those before it (`OrdinalBounded`). A click is routed to an
item, or to none, because nothing is drawn but items (`HitTyped`).

Model-checked only:

- Liveness under fairness (`ComesToRest`, `Answered`, `Drawn`, `ConnectionComesRound`,
  `ExitLeaves`, `IdleSourceStops`, `HandedOverIsDone`, `EditIsRun`, `AliasesRest`, and the
  liveness half of `ImplementsMailbox`), which is beyond the prover. What
  `SafelyImplements` leaves out of `ImplementsMailbox` is exactly the fairness of `Collect`.

## 7. What is not modelled

- Text, glyphs, fonts and pixels: floating point and drawing calls. Where an item goes and
  what of it is drawn again is modelled, what it looks like is not, nor where things go
  vertically. The space selection is a list the window server hands over.
- What a framework reports and when: a free choice. Matching a menu bar item's title
  against window lists is one too.
- Queries, which only read; encoding of requests, tables of spellings, and the macros that
  generate them; Lua's `exec`, and the conversion of answers to tables.
- The single-instance lock: one `fcntl` call at start-up. Start-up itself: permissions,
  logging, exit codes. Test support.
- SkyLight's other bindings are foreign calls and their types; its main-thread macro adds
  an argument.
- The filesystem watcher before `Debounce`: which events a save makes, and when. The two
  clocks of `routines` are one. A spawn from inside a poll of the driver.
- Bevy's command error handling, memory ordering weaker than
  the acquire and release the code asks for, the kernel dropping a message.

## 8. Plan

What could follow, in order of importance:

1. `Pump`, `Delivery` and `Executor` share the run loop source; an abstract "signalled
   source" that all refine would state once why a coalesced wake is enough.
2. The composition of `LuaHost` with `Delivery`: in one the daemon is abstract, in the
   other the client is.
