-------------------------- MODULE PlatformSources --------------------------
(***************************************************************************)
(* The sources that adapt one framework's notification each: displays,      *)
(* wifi, brightness, volume, power, accessibility, spaces and media. All     *)
(* have one shape: a callback posts to a relay, and a task reads the relay,   *)
(* looks at the system again where the callback did not, and emits what      *)
(* moved.                                                                   *)
(*                                                                         *)
(* One behaviour is about one of them (`platform`). A source may be started  *)
(* again while the registration before it is still coming down, because      *)
(* dropping its task only asks for that. An option is a set of at most one.  *)
(***************************************************************************)
EXTENDS Integers, Sequences, FiniteSets, SequencesExt

CONSTANTS
  Platforms,  \* the sources looked at
  Runs,       \* how often one is started
  MaxTicks    \* bound: posts waiting in one relay

ASSUME PlatformAssumption ==
  /\ Runs \in Nat \ {0} /\ MaxTicks \in Nat \ {0}
  /\ Platforms \subseteq {"displays", "wifi", "brightness", "volume", "power",
                           "accessibility", "spaces", "media"}

VARIABLES
  platform,  \* which source this behaviour is about
  reading,   \* what the system would answer now
  watch,     \* each run's registration
  due,       \* what the framework has yet to call it back about
  ticks,     \* its relay
  last,      \* what its task remembers of its last report
  told,      \* what was true of the system when it last emitted
  heard,     \* it has been called back since it registered
  context,   \* brightness.rs: CONTEXT, the run whose pointer it holds, or 0
  lost,      \* the runs whose registration another run's teardown took back
  crowded,   \* auxiliary: the runs that registered beside one still coming down
  replaced   \* accessibility.rs: how often the process replaced itself

brightnessVars == <<context, lost, crowded>>
platformVars == <<platform, reading, watch, due, ticks, last, told, heard,
                  brightnessVars, replaced>>

Run == 1 .. Runs

(***************************************************************************)
(* What the system can answer, and what a source makes of it.              *)
(***************************************************************************)
\* displays.rs `layout`: every display in order, its frame and whether it is
\* the main one; empty in the middle of a reconfiguration.
Placement(id, frame, main) == [id |-> id, frame |-> frame, main |-> main]
Layouts == {<<>>,
            <<Placement(1, 0, TRUE)>>,
            <<Placement(1, 0, TRUE), Placement(2, 1, FALSE)>>,
            <<Placement(1, 0, FALSE), Placement(2, 1, TRUE)>>}

\* wifi.rs `read_ssid`: what each interface's AirPort key resolves to.
Interfaces == {"en0", "en1"}
Joins == [Interfaces -> {{}, {"home"}}]

\* brightness.rs `percent`: rounded and pinned to 0..100; thousandths here.
Clamp(lo, hi, n) == IF n < lo THEN lo ELSE IF n > hi THEN hi ELSE n
Percent(thousandths) == Clamp(0, 100, (thousandths + 5) \div 10)
Scalars == {{}, {494}, {496}, {503}, {1008}}
Brightness(scalar) == {Percent(s) : s \in scalar}

\* volume.rs `current_scalar`: the first channel wins when it is not silent,
\* and either mute then silences it; thousandths here, no device no scalar.
Level(left, main, muteLeft, muteMain) ==
  [left |-> left, main |-> main, muteLeft |-> muteLeft, muteMain |-> muteMain]
Devices == {{}} \cup {{Level(n, 900, FALSE, FALSE)} : n \in {500, 506, 512}}
                \cup {{Level(0, 300, TRUE, FALSE)}, {Level(506, 300, FALSE, TRUE)}}
Scalar(device) ==
  {IF d.muteMain \/ (d.left > 0 /\ d.muteLeft) THEN 0
   ELSE IF d.left > 0 THEN d.left ELSE d.main : d \in device}
EPSILON == 10

\* power.rs: one entry of the list of power sources, and one whole answer.
Entry(type, cur, max, charging, empty, full) ==
  [type |-> type, cur |-> cur, max |-> max, charging |-> charging,
   empty |-> empty, full |-> full]
Answer(side, entries, adapter, milliamps, millivolts) ==
  [side |-> side, entries |-> entries, adapter |-> adapter,
   milliamps |-> milliamps, millivolts |-> millivolts]

\* `u32::try_from`: nothing for a negative number.
Unsigned(option) == {n \in option : n >= 0}
Positive(option) == {n \in option : n > 0}
Abs(n) == IF n < 0 THEN -n ELSE n

\* `measured_watts`: milliamps times millivolts, rounded to whole watts.
MeasuredWatts(answer) ==
  {(Abs(a) * v + 500000) \div 1000000 :
     a \in answer.milliamps, v \in Unsigned(answer.millivolts)}

ChargePercent(cur, max) == Clamp(0, 100, (cur * 100) \div max)

\* `internal_battery`: the first entry of that type decides, also when a
\* figure it needs is missing; which estimate is asked for follows `charging`.
InternalBattery(answer) ==
  LET found == SelectInSeq(answer.entries, LAMBDA x : x.type = "InternalBattery")
      battery == answer.entries[found]
  IN IF found = 0 THEN {}
     ELSE {[charge |-> ChargePercent(cur, max),
            charging |-> battery.charging,
            empty |-> IF battery.charging THEN {} ELSE Unsigned(battery.empty),
            full |-> IF battery.charging THEN Unsigned(battery.full) ELSE {}] :
             cur \in battery.cur, max \in Positive(battery.max)}

\* `read`: one snapshot of the power situation.
Snapshot(answer) ==
  LET battery == InternalBattery(answer)
      estimates(field) == UNION {b[field] : b \in battery}
      source ==
        CASE answer.side = "AC Power" ->
               [side |-> "Ac", adapter |-> Unsigned(answer.adapter),
                charging |-> \E b \in battery : b.charging,
                minutes |-> estimates("full")]
          [] answer.side = "Battery Power" ->
               [side |-> "Battery", adapter |-> {}, charging |-> FALSE,
                minutes |-> estimates("empty")]
          [] OTHER -> [side |-> "Unknown", adapter |-> {}, charging |-> FALSE,
                       minutes |-> {}]
  IN [source |-> source, watts |-> MeasuredWatts(answer),
      charge |-> {b.charge : b \in battery}]

\* `same_side`: the same source, but for the time estimates.
SameSide(a, b) ==
  /\ a.side = b.side
  /\ a.side = "Ac" => a.adapter = b.adapter /\ a.charging = b.charging

\* `Snapshot::differs_from`.
DiffersFrom(a, b) ==
  a.charge # b.charge \/ a.watts # b.watts \/ ~SameSide(a.source, b.source)

Answers ==
  LET cell(cur, charging) == Entry("InternalBattery", {cur}, {100}, charging, {90}, {0})
      ups == Entry("UPS", {1}, {1}, FALSE, {}, {})
  IN {Answer("Battery Power", <<cell(50, FALSE)>>, {}, {-1000}, {11700}),
      Answer("Battery Power", <<[cell(50, FALSE) EXCEPT !.empty = {91}]>>, {}, {-1000}, {11700}),
      Answer("Battery Power", <<[cell(49, FALSE) EXCEPT !.empty = {-1}]>>, {}, {-1000}, {11700}),
      Answer("AC Power", <<ups, cell(50, TRUE)>>, {96}, {2000}, {11700}),
      Answer("AC Power", <<ups, cell(50, FALSE)>>, {96}, {0}, {11700}),
      Answer("AC Power", <<[cell(50, FALSE) EXCEPT !.max = {0}]>>, {-1}, {}, {}),
      Answer("Off Line", <<>>, {}, {}, {})}

\* accessibility.rs `usable`: only a missing grant or a disabled API is a no.
Grants == {"ok", "no_answer", "not_trusted", "api_disabled"}
Usable(grant) == grant \notin {"not_trusted", "api_disabled"}

\* spaces.rs: the display with the active menu bar and its space.
Spaces == {{}, {<<1, 10>>}, {<<2, 20>>}}

Readings(p) == CASE p = "displays" -> Layouts
                 [] p = "wifi" -> Joins
                 [] p = "brightness" -> Scalars
                 [] p = "power" -> Answers
                 [] p = "accessibility" -> Grants
                 [] p = "spaces" -> Spaces
                 [] p = "volume" -> Devices
                 [] p = "media" -> {"blocked"}

\* What a callback can be about.
Keys(p) == IF p = "wifi" THEN Interfaces ELSE {p}

PlatformInit ==
  /\ platform \in Platforms
  /\ reading \in Readings(platform)
  /\ watch = [r \in Run |-> "none"]
  /\ due = [r \in Run |-> {}] /\ ticks = [r \in Run |-> <<>>]
  /\ last = [r \in Run |-> {}] /\ told = [r \in Run |-> {}]
  /\ heard = [r \in Run |-> {}]
  /\ context = 0 /\ lost = {} /\ crowded = {} /\ replaced = 0

PlatformTypeOK ==
  /\ reading \in Readings(platform)
  /\ watch \in [Run -> {"none", "spawned", "live", "stopping", "gone", "failed"}]
  /\ \A r \in Run : due[r] \subseteq Keys(platform) /\ Len(ticks[r]) <= MaxTicks
  /\ \A r \in Run : Cardinality(told[r]) <= Cardinality(Keys(platform))
  /\ context \in 0 .. Runs /\ lost \subseteq Run /\ crowded \subseteq Run
  /\ replaced \in 0 .. 1

(***************************************************************************)
(* A run of the source.                                                    *)
(***************************************************************************)
\* What makes `run` itself refuse, before anything is spawned.
Refuses(p) == \/ p = "media"
              \/ p \in {"brightness", "volume"} /\ reading = {}

\* `Source::run`: the registry starts it when the run before was let go.
StartRun(r) ==
  /\ watch[r] = "none"
  /\ r > 1 => watch[r - 1] \in {"stopping", "gone", "failed"}
  /\ watch' = [watch EXCEPT ![r] = IF Refuses(platform) THEN "failed" ELSE "spawned"]
  /\ UNCHANGED <<platform, reading, due, ticks, last, told, heard, brightnessVars, replaced>>

\* `Callback::new` on the spawned task's thread: the framework takes the
\* registration, or refuses it, which by then can only be logged.
Taken(r) ==
  \E to \in {"live", "failed"} : watch' = [watch EXCEPT ![r] = to]
Registering(r, p) == platform = p /\ watch[r] = "spawned"
IsRegistered(r) ==
  /\ Taken(r)
  /\ UNCHANGED <<platform, reading, due, ticks, last, told, heard, brightnessVars, replaced>>

RegisterWifi(r) == Registering(r, "wifi") /\ IsRegistered(r)
RegisterPower(r) == Registering(r, "power") /\ IsRegistered(r)
\* The listeners on the default device are Volume.tla's.
RegisterVolume(r) == Registering(r, "volume") /\ IsRegistered(r)

\* displays.rs looks at the layout first and registers after that.
SeedLayout(r) ==
  /\ Registering(r, "displays") /\ last[r] = {}
  /\ last' = [last EXCEPT ![r] = {reading}]
  /\ UNCHANGED <<platform, reading, watch, due, ticks, told, heard, brightnessVars, replaced>>
RegisterDisplays(r) == Registering(r, "displays") /\ last[r] # {} /\ IsRegistered(r)

\* brightness.rs stores its pointer before it registers, and takes it back on
\* a refusal.
RegisterBrightness(r) ==
  /\ Registering(r, "brightness")
  /\ Taken(r)
  /\ context' = IF watch'[r] = "live" THEN r ELSE 0
  /\ crowded' = IF \E other \in Run : watch[other] = "stopping"
                  THEN crowded \cup {r} ELSE crowded
  /\ UNCHANGED <<platform, reading, due, ticks, last, told, heard, lost, replaced>>

\* accessibility.rs has its watch, if one could be had, before its task runs
\* and looks.
WatchGrants(r) == Registering(r, "accessibility") /\ IsRegistered(r)
SeedGrant(r) ==
  /\ platform = "accessibility" /\ watch[r] = "live" /\ last[r] = {}
  /\ last' = [last EXCEPT ![r] = {Usable(reading)}]
  /\ UNCHANGED <<platform, reading, watch, due, ticks, told, heard, brightnessVars, replaced>>

\* spaces.rs: any of the four registrations failing takes all of them down.
WatchSpaces(r) ==
  /\ Registering(r, "spaces")
  /\ \E taken \in SUBSET {1401, 1325, 1326, 1339} :
       watch' = [watch EXCEPT ![r] = IF taken = {1401, 1325, 1326, 1339} THEN "live" ELSE "failed"]
  /\ UNCHANGED <<platform, reading, due, ticks, last, told, heard, brightnessVars, replaced>>

\* The registry drops the task: a request, answered later.
StopRun(r) ==
  /\ watch[r] \in {"spawned", "live"}
  /\ watch' = [watch EXCEPT ![r] = IF @ = "live" THEN "stopping" ELSE "gone"]
  /\ ticks' = [ticks EXCEPT ![r] = <<>>]
  /\ last' = [last EXCEPT ![r] = {}] /\ told' = [told EXCEPT ![r] = {}]
  /\ UNCHANGED <<platform, reading, due, heard, brightnessVars, replaced>>

\* brightness.rs: a teardown clears the pointer only while it is its own.
ClearsOwn(r) == IF context = r THEN 0 ELSE context

\* Whom the framework still calls back.
Watching == {r \in Run : watch[r] \in {"live", "stopping"}} \ lost

\* `unwatch_brightness` says which display, and not which registration.
TakenWith(r) == IF platform = "brightness" THEN Watching \ {r} ELSE {}

\* The task is dropped on its own thread and its registration taken back,
\* with every other the framework cannot tell from it.
TearDown(r) ==
  /\ watch[r] = "stopping"
  /\ watch' = [watch EXCEPT ![r] = "gone"]
  /\ lost' = lost \cup TakenWith(r)
  /\ due' = [n \in Run |-> IF n = r \/ n \in TakenWith(r) THEN {} ELSE due[n]]
  /\ heard' = [heard EXCEPT ![r] = {}]
  /\ context' = ClearsOwn(r)
  /\ UNCHANGED <<platform, reading, ticks, last, told, crowded, replaced>>

(***************************************************************************)
(* The framework.                                                          *)
(***************************************************************************)

Changed(now) == {k \in Keys(platform) :
                   IF platform = "wifi" THEN now[k] # reading[k] ELSE now # reading}

\* The system moves, or a framework announces what did not move; whoever is
\* registered is due a callback.
Move(now) ==
  /\ reading' = now
  /\ LET about == IF now = reading THEN Keys(platform) ELSE Changed(now)
     IN due' = [r \in Run |-> IF r \in Watching THEN due[r] \cup about ELSE due[r]]
  /\ UNCHANGED <<platform, watch, ticks, last, told, heard, brightnessVars, replaced>>

\* A callback runs: what it posts goes to the relay of a run, if it is there.
Call(r, p) == platform = p /\ r \in Watching /\ due[r] # {}
Posts(r, to, posts) ==
  /\ due' = [due EXCEPT ![r] = {}]
  /\ IF to # 0 /\ watch[to] = "live"
       THEN /\ Len(ticks[to]) + Len(posts) <= MaxTicks
            /\ ticks' = [ticks EXCEPT ![to] = @ \o posts]
            /\ heard' = [heard EXCEPT ![to] = @ \cup due[r]]
       ELSE UNCHANGED <<ticks, heard>>
  /\ UNCHANGED <<platform, reading, watch, last, told, brightnessVars, replaced>>
Tick == <<<<"moved">>>>

\* displays.rs: once before a change, which is ignored, and then a burst.
Reconfigured(r) ==
  /\ Call(r, "displays")
  /\ \/ UNCHANGED platformVars
     \/ Posts(r, r, Tick) \/ Posts(r, r, Tick \o Tick)

\* wifi.rs: every key that changed, and what it resolves to there and then.
ChangedKeys(r) ==
  /\ Call(r, "wifi")
  /\ Posts(r, r, [i \in 1 .. Cardinality(due[r]) |->
                   LET key == SetToSeq(due[r])[i] IN <<key, reading[key]>>])

\* brightness.rs: its callback is not handed a pointer and asks CONTEXT.
BrightnessChanged(r) == Call(r, "brightness") /\ Posts(r, context, Tick)

VolumeMoved(r) == Call(r, "volume") /\ Posts(r, r, Tick)
PowerMoved(r) == Call(r, "power") /\ Posts(r, r, Tick)
PokeGrants(r) == Call(r, "accessibility") /\ Posts(r, r, Tick)
SpaceChanged(r) == Call(r, "spaces") /\ Posts(r, r, Tick)

CallBack(r) ==
  \/ Reconfigured(r) \/ ChangedKeys(r) \/ BrightnessChanged(r) \/ VolumeMoved(r)
  \/ PowerMoved(r) \/ PokeGrants(r) \/ SpaceChanged(r)

(***************************************************************************)
(* The task of a run: `report` and `decide`.                               *)
(***************************************************************************)
\* It emits: whoever hears of it knows what the system answers now.
Emits(r, fact) == told' = [told EXCEPT ![r] = fact]
Quiet(r) == UNCHANGED <<last, told>>

\* displays.rs `report`: one look for the burst, after it was taken.
ReportLayout(r) ==
  IF last[r] = {reading} THEN Quiet(r)
  ELSE last' = [last EXCEPT ![r] = {reading}] /\ Emits(r, {reading})

Joined(facts, key, ssid) == {f \in facts : f[1] # key} \cup {<<key, ssid>>}

JoinedUnkeyed(r, key, ssid) ==
  IF \E k \in Interfaces : <<k, ssid>> \in last[r] THEN Quiet(r)
  ELSE /\ last' = [last EXCEPT ![r] = Joined(@, key, ssid)]
       /\ Emits(r, Joined(told[r], key, ssid))

\* wifi.rs `decide`: what each interface last joined.
DecideJoined(r, key, ssid) ==
  IF <<key, ssid>> \in last[r] THEN Quiet(r)
  ELSE /\ last' = [last EXCEPT ![r] = Joined(@, key, ssid)]
       /\ Emits(r, Joined(told[r], key, ssid))

\* brightness.rs `report`: a display that cannot be read says nothing.
ReportBrightness(r) ==
  LET now == Brightness(reading) IN
  IF now = {} \/ last[r] = now THEN Quiet(r)
  ELSE last' = [last EXCEPT ![r] = now] /\ Emits(r, now)

\* volume.rs `decide`: only a move by at least EPSILON since the last report.
ReportVolume(r) ==
  LET now == Scalar(reading) IN
  IF \E n \in now : \A before \in last[r] : Abs(n - before) >= EPSILON
    THEN last' = [last EXCEPT ![r] = now] /\ Emits(r, now)
    ELSE Quiet(r)

\* power.rs `decide`: what is remembered moves with every reading.
DecidePower(r) ==
  LET now == Snapshot(reading) IN
  /\ last' = [last EXCEPT ![r] = {now}]
  /\ IF \A before \in last[r] : DiffersFrom(before, now)
       THEN Emits(r, {now}) ELSE UNCHANGED told

\* accessibility.rs `check`: a grant this process cannot use replaces the
\* process once; a replacement that fails is the end of that look.
MayReplace == replaced = 0
CheckGrant(r) ==
  IF reading = "api_disabled" /\ MayReplace THEN Quiet(r)
  ELSE LET now == {Usable(reading)} IN
       /\ last' = [last EXCEPT ![r] = now]
       /\ IF last[r] # now THEN Emits(r, now) ELSE UNCHANGED told

\* ... and one that works is a new process with nothing running.
Replace(r) ==
  /\ platform = "accessibility" /\ watch[r] = "live" /\ last[r] # {} /\ ticks[r] # <<>>
  /\ reading = "api_disabled" /\ MayReplace
  /\ replaced' = replaced + 1
  /\ watch' = [n \in Run |-> "none"]
  /\ due' = [n \in Run |-> {}] /\ ticks' = [n \in Run |-> <<>>]
  /\ last' = [n \in Run |-> {}] /\ told' = [n \in Run |-> {}]
  /\ heard' = [n \in Run |-> {}]
  /\ context' = 0 /\ lost' = {} /\ crowded' = {}
  /\ UNCHANGED <<platform, reading>>

\* spaces.rs `report_space`: every change is reported, when there is an answer.
ReportSpace(r) ==
  /\ IF reading = {} THEN UNCHANGED told ELSE Emits(r, reading)
  /\ UNCHANGED last

Decide(r, tick) ==
  CASE platform = "displays" -> ReportLayout(r)
    [] platform = "wifi" -> DecideJoined(r, tick[1], tick[2])
    [] platform = "brightness" -> ReportBrightness(r)
    [] platform = "volume" -> ReportVolume(r)
    [] platform = "power" -> DecidePower(r)
    [] platform = "accessibility" -> CheckGrant(r)
    [] platform = "spaces" -> ReportSpace(r)

\* displays.rs and accessibility.rs answer a burst with one look.
Batched == {"displays", "accessibility"}

Report(r) ==
  /\ watch[r] = "live" /\ ticks[r] # <<>>
  /\ platform = "accessibility" => last[r] # {}
  /\ Decide(r, Head(ticks[r]))
  /\ ticks' = [ticks EXCEPT ![r] = IF platform \in Batched THEN <<>> ELSE Tail(@)]
  /\ UNCHANGED <<platform, reading, watch, due, heard, brightnessVars, replaced>>

PlatformNext ==
  \/ \E r \in Run :
       \/ StartRun(r) \/ SeedLayout(r) \/ SeedGrant(r)
       \/ RegisterDisplays(r) \/ RegisterWifi(r) \/ RegisterBrightness(r)
       \/ RegisterVolume(r) \/ RegisterPower(r) \/ WatchGrants(r) \/ WatchSpaces(r)
       \/ StopRun(r) \/ TearDown(r) \/ CallBack(r) \/ Replace(r) \/ Report(r)
  \/ \E now \in Readings(platform) : Move(now)

PlatformSpec == PlatformInit /\ [][PlatformNext]_platformVars

(***************************************************************************)
(* Properties.                                                             *)
(***************************************************************************)
\* What an item draws of a snapshot: all of it but the time estimates.
DrawnOf(snapshot) == [snapshot EXCEPT !.source.minutes = {}]

\* What is known of one thing a source reports on agrees with the system.
Known(r, key) ==
  CASE platform = "displays" -> last[r] = {reading}
    [] platform = "wifi" -> <<key, reading[key]>> \in told[r]
    [] platform = "brightness" ->
         Brightness(reading) # {} => told[r] = Brightness(reading)
    [] platform = "volume" ->
         \A n \in Scalar(reading) : \E t \in told[r] : Abs(n - t) < EPSILON
    [] platform = "power" ->
         \E t \in told[r] : DrawnOf(t) = DrawnOf(Snapshot(reading))
    [] platform = "accessibility" ->
         \/ last[r] = {Usable(reading)} \/ (reading = "api_disabled" /\ MayReplace)
    [] platform = "spaces" -> reading # {} => told[r] = reading

\* Once a run was called back and its relay is empty, whoever listens knows
\* what the system answers now, as long as the framework still calls the run
\* back, and whatever was left out as no change: the remembered report is
\* never ahead of, or behind, what was said.
ReportsWhatIsSo ==
  \A r \in Run : \A k \in Keys(platform) :
    ( /\ watch[r] = "live" /\ r \in Watching
      /\ k \in heard[r] /\ k \notin due[r] /\ ticks[r] = <<>>)
      => Known(r, k)

\* The brightness run that is live is the one the callback reaches, although
\* the run before it may come down after it registered; and the framework
\* calls it back, unless it registered while another was coming down, whose
\* teardown then takes both registrations.
LiveIsReached ==
  \A r \in Run : platform = "brightness" /\ watch[r] = "live" =>
    /\ context = r
    /\ r \in Watching \/ r \in crowded

SourcesReport == ReportsWhatIsSo /\ LiveIsReached
=============================================================================
