--------------------------- MODULE SourceProofs -----------------------------
(***************************************************************************)
(* Theorems about the sources the daemon listens to, for any platforms,    *)
(* restarts, devices, items and bounds.  PlatformSources: whoever was told *)
(* knows what the system answers now.  Volume: its source listens to the   *)
(* default device and to no other.  Scripts: every routine stands armed on *)
(* the next moment it is due.  Patches: a command means what its pairs     *)
(* say.  CommandLine: a line is taken as a whole.  Together with           *)
(* ThreadProofs they carry over to the composition that the run `seams`    *)
(* checks.                                                                 *)
(***************************************************************************)
EXTENDS MCSeams, ThreadProofs, FiniteSetTheorems, WellFoundedInduction

-----------------------------------------------------------------------------
(* PlatformSources. *)

USE DEF brightnessVars

\* What a callback may post.
Posted == {<<"moved">>} \cup (Interfaces \X {{}, {"home"}})

PlatformTypes ==
  /\ platform \in Platforms /\ reading \in Readings(platform)
  /\ watch \in [Run -> {"none", "spawned", "live", "stopping", "gone", "failed"}]
  /\ due \in [Run -> SUBSET Keys(platform)] /\ heard \in [Run -> SUBSET Keys(platform)]
  /\ ticks \in [Run -> Seq(Posted)]
  /\ last = [r \in Run |-> last[r]] /\ told = [r \in Run |-> told[r]]
  /\ context \in 0 .. Runs /\ lost \subseteq Run /\ crowded \subseteq Run

\* One run is being made or live at a time, and nothing but a run that was
\* started has been called back. Media is never started.
Over == {"stopping", "gone", "failed"}

RunsInTurn == \A r, q \in Run : q < r /\ watch[r] # "none" => watch[q] \in Over

Unheard ==
  \A r \in Run : /\ watch[r] \in {"none", "spawned"} => heard[r] = {} /\ r \notin lost
                 /\ watch[r] \notin {"none", "failed"} => platform # "media"

\* What a task remembers of its last report is what it said then; for a power
\* source, but for what nobody draws.
Remembers(r) ==
  /\ platform \in {"wifi", "brightness", "volume"} => last[r] = told[r]
  /\ platform = "volume" => last[r] \subseteq Int
  /\ platform = "power" =>
       \A b \in last[r] : /\ \E a \in Answers : b = Snapshot(a)
                          /\ \E t \in told[r] : DrawnOf(t) = DrawnOf(b)

\* What an interface joined is the last that is in a relay about it, or known.
ComesTo(q, facts, key, ssid) ==
  \/ <<key, ssid>> \in facts /\ \A i \in 1 .. Len(q) : q[i][1] # key
  \/ \E i \in 1 .. Len(q) :
       q[i] = <<key, ssid>> /\ \A j \in 1 .. Len(q) : j > i => q[j][1] # key

Coming(r, key) == ComesTo(ticks[r], told[r], key, reading[key])

Informed(r, key) ==
  IF platform = "wifi" THEN Coming(r, key) ELSE ticks[r] = <<>> => Known(r, key)

Reported(r) ==
  \A key \in Keys(platform) :
    (watch[r] = "live" /\ r \notin lost /\ key \in heard[r] /\ key \notin due[r])
      => Informed(r, key)

\* Whoever is live beside one still coming down registered beside it.
Crowding ==
  \A r, q \in Run :
    (platform = "brightness" /\ watch[r] = "live" /\ watch[q] = "stopping") => r \in crowded

Reached == LiveIsReached /\ Crowding

PlatformInv ==
  /\ PlatformTypes /\ RunsInTurn /\ Unheard /\ Reached
  /\ \A r \in Run : Remembers(r) /\ Reported(r)

-----------------------------------------------------------------------------
\* What callbacks are about, listed: every one of them once.
LEMMA Listing ==
  ASSUME NEW S, IsFiniteSet(S)
  PROVE  /\ Cardinality(S) \in Nat
         /\ SetToSeq(S) \in [1 .. Cardinality(S) -> S]
         /\ \A k \in S : \E i \in 1 .. Cardinality(S) : SetToSeq(S)[i] = k
         /\ \A i, j \in 1 .. Cardinality(S) : SetToSeq(S)[i] = SetToSeq(S)[j] => i = j
<1> DEFINE D == 1 .. Cardinality(S)
<1>1. Cardinality(S) \in Nat /\ ExistsBijection(D, S)
  BY FS_CardinalityType
<1>2. PICK f \in [D -> S] : IsInjective(f)
  BY <1>1 DEF ExistsBijection, Bijection, Injection, IsInjective
<1>3. SetToSeq(S) \in [D -> S] /\ IsInjective(SetToSeq(S))
  BY <1>2 DEF SetToSeq
<1>4. \A k \in S : \E i \in D : SetToSeq(S)[i] = k
  <2>1. SetToSeq(S) \in Injection(D, S)
    BY <1>3 DEF Injection, IsInjective
  <2>2. IsFiniteSet(D) /\ Cardinality(D) = Cardinality(S)
    BY <1>1, FS_Interval
  <2>3. SetToSeq(S) \in Surjection(D, S)
    BY <2>1, <2>2, FS_Injection
  <2>4. QED
    BY <2>3 DEF Surjection
<1>5. QED
  BY <1>1, <1>3, <1>4 DEF IsInjective

\* What comes to a relay still does when something about others is posted.
LEMMA ComesStill ==
  ASSUME NEW T, NEW q \in Seq(T), NEW p \in Seq(T), NEW facts, NEW key, NEW ssid,
         ComesTo(q, facts, key, ssid), \A j \in 1 .. Len(p) : p[j][1] # key
  PROVE  ComesTo(q \o p, facts, key, ssid)
<1>1. PICK m \in Nat, n \in Nat : m = Len(q) /\ n = Len(p)
  BY LenProperties
<1>2. Len(q \o p) = m + n
  BY <1>1, ConcatProperties
<1>3. \A i \in 1 .. m : (q \o p)[i] = q[i]
  BY <1>1, ConcatProperties
<1>4. \A i \in m + 1 .. m + n : (q \o p)[i] = p[i - m] /\ i - m \in 1 .. n
  BY <1>1, ConcatProperties
<1>5. \A i \in m + 1 .. m + n : (q \o p)[i][1] # key
  BY <1>1, <1>4
<1>6. CASE <<key, ssid>> \in facts /\ \A i \in 1 .. Len(q) : q[i][1] # key
  <2>1. \A i \in 1 .. m + n : (q \o p)[i][1] # key
    <3>1. TAKE i \in 1 .. m + n
    <3>2. i \in 1 .. m \/ i \in m + 1 .. m + n
      BY <1>1
    <3>3. QED
      BY <1>1, <1>3, <1>5, <1>6, <3>2
  <2>2. QED
    BY <1>2, <1>6, <2>1 DEF ComesTo
<1>7. CASE \E i \in 1 .. Len(q) :
             q[i] = <<key, ssid>> /\ \A j \in 1 .. Len(q) : j > i => q[j][1] # key
  <2>1. PICK i \in 1 .. m : q[i] = <<key, ssid>> /\ \A j \in 1 .. m : j > i => q[j][1] # key
    BY <1>1, <1>7
  <2>2. i \in 1 .. m + n /\ (q \o p)[i] = <<key, ssid>>
    BY <1>1, <1>3, <2>1
  <2>3. \A j \in 1 .. m + n : j > i => (q \o p)[j][1] # key
    <3>1. TAKE j \in 1 .. m + n
    <3>2. j \in 1 .. m \/ j \in m + 1 .. m + n
      BY <1>1
    <3>3. QED
      BY <1>3, <1>5, <2>1, <3>2
  <2>4. QED
    BY <1>2, <2>2, <2>3 DEF ComesTo
<1>8. QED
  BY <1>6, <1>7 DEF ComesTo

\* What is posted about a thing comes to the relay, if nothing else about it is
\* posted along with it.
LEMMA ComesAnew ==
  ASSUME NEW T, NEW q \in Seq(T), NEW p \in Seq(T), NEW facts, NEW key, NEW ssid,
         NEW k \in 1 .. Len(p), p[k] = <<key, ssid>>,
         \A j \in 1 .. Len(p) : j # k => p[j][1] # key
  PROVE  ComesTo(q \o p, facts, key, ssid)
<1>1. PICK m \in Nat, n \in Nat : m = Len(q) /\ n = Len(p)
  BY LenProperties
<1>2. Len(q \o p) = m + n
  BY <1>1, ConcatProperties
<1>3. \A i \in m + 1 .. m + n : (q \o p)[i] = p[i - m] /\ i - m \in 1 .. n
  BY <1>1, ConcatProperties
<1>4. m + k \in m + 1 .. m + n /\ (m + k) - m = k
  BY <1>1
<1>5. (q \o p)[m + k] = <<key, ssid>>
  BY <1>3, <1>4
<1>6. \A j \in 1 .. m + n : j > m + k => (q \o p)[j][1] # key
  <2>1. TAKE j \in 1 .. m + n
  <2>2. j > m + k => j \in m + 1 .. m + n /\ j - m # k
    BY <1>1
  <2>3. QED
    BY <1>1, <1>3, <2>2
<1>7. m + k \in 1 .. m + n
  BY <1>1
<1>8. QED
  BY <1>2, <1>5, <1>6, <1>7 DEF ComesTo

\* What comes to a relay still does, or is known, when its first is taken.
LEMMA ComesToBeKnown ==
  ASSUME NEW T, NEW q \in Seq(T), q # <<>>, NEW facts, NEW answered, NEW key, NEW ssid,
         ComesTo(q, facts, key, ssid),
         Head(q) = <<key, ssid>> => <<key, ssid>> \in answered,
         Head(q)[1] # key /\ <<key, ssid>> \in facts => <<key, ssid>> \in answered
  PROVE  ComesTo(Tail(q), answered, key, ssid)
<1>1. PICK m \in Nat : Len(q) = m + 1 /\ Len(Tail(q)) = m
  BY HeadTailProperties, LenProperties, EmptySeq
<1>2. \A i \in 1 .. m : Tail(q)[i] = q[i + 1] /\ i + 1 \in 1 .. m + 1
  BY <1>1, HeadTailProperties
<1>3. Head(q) = q[1] /\ 1 \in 1 .. m + 1
  BY <1>1, HeadTailProperties
<1>4. CASE <<key, ssid>> \in facts /\ \A i \in 1 .. Len(q) : q[i][1] # key
  <2>1. <<key, ssid>> \in answered
    BY <1>1, <1>3, <1>4
  <2>2. \A i \in 1 .. m : Tail(q)[i][1] # key
    BY <1>1, <1>2, <1>4
  <2>3. QED
    BY <1>1, <2>1, <2>2 DEF ComesTo
<1>5. ASSUME NEW i \in 1 .. m + 1, q[i] = <<key, ssid>>,
             \A j \in 1 .. m + 1 : j > i => q[j][1] # key
      PROVE  ComesTo(Tail(q), answered, key, ssid)
  <2>1. CASE i = 1
    <3>1. <<key, ssid>> \in answered
      BY <1>3, <1>5, <2>1
    <3>2. \A j \in 1 .. m : Tail(q)[j][1] # key
      <4>1. TAKE j \in 1 .. m
      <4>2. j + 1 > i /\ j + 1 \in 1 .. m + 1
        BY <2>1
      <4>3. QED
        BY <1>2, <1>5, <4>2
    <3>3. QED
      BY <1>1, <3>1, <3>2 DEF ComesTo
  <2>2. CASE i # 1
    <3>1. i - 1 \in 1 .. m /\ (i - 1) + 1 = i
      BY <2>2
    <3>2. Tail(q)[i - 1] = <<key, ssid>>
      BY <1>2, <1>5, <3>1
    <3>3. \A j \in 1 .. m : j > i - 1 => Tail(q)[j][1] # key
      <4>1. TAKE j \in 1 .. m
      <4>2. j > i - 1 => j + 1 > i /\ j + 1 \in 1 .. m + 1
        BY <3>1
      <4>3. QED
        BY <1>2, <1>5, <4>2
    <3>4. QED
      BY <1>1, <3>1, <3>2, <3>3 DEF ComesTo
  <2>3. QED
    BY <2>1, <2>2
<1>6. QED
  BY <1>1, <1>4, <1>5 DEF ComesTo

\* Two snapshots that do not differ are drawn alike.
LEMMA DrawnAlike ==
  ASSUME NEW a, NEW b, ~DiffersFrom(Snapshot(a), Snapshot(b))
  PROVE  DrawnOf(Snapshot(a)) = DrawnOf(Snapshot(b))
<1> DEFINE Shape(x) ==
      \E side, adapter, charging, minutes, watts, charge :
        /\ x = [source |-> [side |-> side, adapter |-> adapter, charging |-> charging,
                            minutes |-> minutes],
                watts |-> watts, charge |-> charge]
        /\ side # "Ac" => adapter = {} /\ charging = FALSE
<1>1. ASSUME NEW answer PROVE Shape(Snapshot(answer))
  <2>1. CASE answer.side = "AC Power"
    BY <2>1 DEF Snapshot
  <2>2. CASE answer.side = "Battery Power"
    BY <2>2 DEF Snapshot
  <2>3. CASE answer.side \notin {"AC Power", "Battery Power"}
    BY <2>3 DEF Snapshot
  <2>4. QED
    BY <2>1, <2>2, <2>3
<1>2. PICK side, adapter, charging, minutes, watts, charge :
        /\ Snapshot(a) = [source |-> [side |-> side, adapter |-> adapter, charging |-> charging,
                                      minutes |-> minutes],
                          watts |-> watts, charge |-> charge]
        /\ side # "Ac" => adapter = {} /\ charging = FALSE
  BY <1>1
<1>3. PICK side2, adapter2, charging2, minutes2, watts2, charge2 :
        /\ Snapshot(b) = [source |-> [side |-> side2, adapter |-> adapter2,
                                      charging |-> charging2, minutes |-> minutes2],
                          watts |-> watts2, charge |-> charge2]
        /\ side2 # "Ac" => adapter2 = {} /\ charging2 = FALSE
  BY <1>1
<1>4. side = side2 /\ adapter = adapter2 /\ charging = charging2
      /\ watts = watts2 /\ charge = charge2
  <2>1. /\ Snapshot(a).source.side = side /\ Snapshot(a).source.adapter = adapter
        /\ Snapshot(a).source.charging = charging
        /\ Snapshot(a).watts = watts /\ Snapshot(a).charge = charge
    BY <1>2
  <2>2. /\ Snapshot(b).source.side = side2 /\ Snapshot(b).source.adapter = adapter2
        /\ Snapshot(b).source.charging = charging2
        /\ Snapshot(b).watts = watts2 /\ Snapshot(b).charge = charge2
    BY <1>3
  <2>3. /\ watts = watts2 /\ charge = charge2 /\ side = side2
        /\ side = "Ac" => adapter = adapter2 /\ charging = charging2
    BY <2>1, <2>2 DEF DiffersFrom, SameSide
  <2>4. QED
    BY <1>2, <1>3, <2>3
<1>5. /\ DrawnOf(Snapshot(a)) = [source |-> [side |-> side, adapter |-> adapter,
                                             charging |-> charging, minutes |-> {}],
                                 watts |-> watts, charge |-> charge]
      /\ DrawnOf(Snapshot(b)) = [source |-> [side |-> side2, adapter |-> adapter2,
                                             charging |-> charging2, minutes |-> {}],
                                 watts |-> watts2, charge |-> charge2]
  BY <1>2, <1>3 DEF DrawnOf
<1>6. QED
  BY <1>4, <1>5

\* The scalar of a device is a number.
LEMMA ScalarsAreNumbers == ASSUME NEW d \in Devices PROVE Scalar(d) \subseteq Int
<1>1. ASSUME NEW x \in d PROVE x.left \in Int /\ x.main \in Int
  BY DEF Devices, Level
<1>2. QED
  BY <1>1 DEF Scalar

-----------------------------------------------------------------------------
\* A run nothing happened to is as well informed as it was.
LEMMA RunKept ==
  ASSUME NEW r \in Run, Remembers(r), Reported(r), UNCHANGED <<platform, reading, replaced>>,
         /\ watch'[r] = watch[r] /\ due'[r] = due[r] /\ ticks'[r] = ticks[r]
         /\ last'[r] = last[r] /\ told'[r] = told[r] /\ heard'[r] = heard[r]
         /\ r \in lost => r \in lost'
  PROVE  Remembers(r)' /\ Reported(r)'
<1>1. Remembers(r)'
  BY DEF Remembers
<1>2. \A key : Known(r, key)' <=> Known(r, key)
  BY DEF Known, MayReplace
<1>3. \A key : Informed(r, key)' <=> Informed(r, key)
  BY <1>2 DEF Informed, Coming
<1>4. Reported(r)'
  BY <1>3 DEF Reported
<1>5. QED
  BY <1>1, <1>4

\* Runs stay in turn as one of them moves on.
LEMMA RunsInTurnKept ==
  ASSUME RunsInTurn, NEW r \in Run, NEW to, watch = [q \in Run |-> watch[q]],
         watch' = [watch EXCEPT ![r] = to],
         watch[r] = "none" => (r > 1 => watch[r - 1] \in Over),
         watch[r] \in Over => to \in Over
  PROVE  RunsInTurn'
<1>1. SUFFICES ASSUME NEW s \in Run, NEW q \in Run, q < s, watch'[s] # "none"
               PROVE  watch'[q] \in Over
  BY DEF RunsInTurn
<1>2. CASE s # r
  <2>1. watch[s] # "none"
    BY <1>1, <1>2
  <2>2. watch[q] \in Over
    BY <1>1, <2>1 DEF RunsInTurn
  <2>3. QED
    BY <2>2
<1>3. CASE s = r
  <2>1. q # r /\ watch'[q] = watch[q]
    BY <1>1, <1>3, PlatformAssumption DEF Run
  <2>2. CASE watch[r] # "none"
    BY <1>1, <1>3, <2>1, <2>2 DEF RunsInTurn
  <2>3. CASE watch[r] = "none"
    <3>1. r - 1 \in Run /\ watch[r - 1] \in Over /\ (q = r - 1 \/ q < r - 1)
      BY <1>1, <1>3, <2>3, PlatformAssumption DEF Run
    <3>2. watch[r - 1] # "none"
      BY <3>1 DEF Over
    <3>3. QED
      BY <2>1, <3>1, <3>2 DEF RunsInTurn
  <2>4. QED
    BY <2>2, <2>3
<1>4. QED
  BY <1>2, <1>3

\* A run that is made, refused, started or stopped, and has nothing to say.
LEMMA WatchStep ==
  ASSUME PlatformInv, NEW r \in Run,
         NEW to \in {"none", "spawned", "live", "stopping", "gone", "failed"},
         watch' = [watch EXCEPT ![r] = to],
         UNCHANGED <<platform, reading, due, ticks, last, told, heard, lost, replaced>>,
         to \in {"none", "spawned", "live"} => heard[r] = {} /\ r \notin lost,
         to \notin {"none", "failed"} => platform # "media",
         watch[r] = "none" => (r > 1 => watch[r - 1] \in Over),
         watch[r] \in Over => to \in Over,
         context' \in 0 .. Runs, crowded' \subseteq Run, Reached'
  PROVE  PlatformInv'
<1>1. PlatformTypes'
  BY DEF PlatformInv, PlatformTypes
<1>2. RunsInTurn'
  <2>1. watch = [q \in Run |-> watch[q]]
    BY DEF PlatformInv, PlatformTypes
  <2>2. QED
    BY <2>1, RunsInTurnKept DEF PlatformInv
<1>3. Unheard'
  BY DEF PlatformInv, PlatformTypes, Unheard
<1>4. ASSUME NEW s \in Run PROVE Remembers(s)' /\ Reported(s)'
  <2>1. Remembers(s) /\ Reported(s)
    BY DEF PlatformInv
  <2>2. CASE s # r
    <3>1. watch'[s] = watch[s]
      BY <2>2 DEF PlatformInv, PlatformTypes
    <3>2. QED
      BY <2>1, <3>1, RunKept
  <2>3. CASE s = r
    <3>1. watch'[r] = "live" => heard'[r] = {}
      BY DEF PlatformInv, PlatformTypes
    <3>2. Reported(r)'
      BY <3>1 DEF Reported
    <3>3. Remembers(r)'
      BY <2>1, <2>3 DEF Remembers
    <3>4. QED
      BY <2>3, <3>2, <3>3
  <2>4. QED
    BY <2>2, <2>3
<1>5. QED
  BY <1>1, <1>2, <1>3, <1>4 DEF PlatformInv

\* Only one run can be live.
LEMMA OneLive ==
  ASSUME PlatformInv, NEW r \in Run, NEW s \in Run, watch[r] \in {"spawned", "live"},
         watch[s] \in {"spawned", "live"}
  PROVE  r = s
<1>1. r < s \/ s < r \/ r = s
  BY DEF Run
<1>2. QED
  BY <1>1 DEF PlatformInv, RunsInTurn, Over

\* A source being started, and its registration.
LEMMA StartingStep ==
  ASSUME PlatformInv, NEW r \in Run,
         \/ StartRun(r) \/ RegisterDisplays(r) \/ RegisterWifi(r) \/ RegisterBrightness(r)
         \/ RegisterVolume(r) \/ RegisterPower(r) \/ WatchGrants(r) \/ WatchSpaces(r)
  PROVE  PlatformInv'
<1>1. CASE StartRun(r)
  <2>1. PICK to \in {"failed", "spawned"} :
          /\ watch' = [watch EXCEPT ![r] = to]
          /\ to = "spawned" => platform # "media"
    BY <1>1 DEF StartRun, Refuses
  <2>2. /\ watch[r] = "none" /\ (r > 1 => watch[r - 1] \in Over) /\ heard[r] = {} /\ r \notin lost
        /\ UNCHANGED <<platform, reading, due, ticks, last, told, heard, brightnessVars, replaced>>
    BY <1>1 DEF StartRun, Over, PlatformInv, Unheard
  <2>3. Reached'
    BY <2>1, <2>2 DEF PlatformInv, PlatformTypes, Reached, LiveIsReached, Crowding, Watching
  <2>4. context' \in 0 .. Runs /\ crowded' \subseteq Run
    BY <2>2 DEF PlatformInv, PlatformTypes
  <2>5. QED
    BY <2>1, <2>2, <2>3, <2>4, WatchStep DEF Over
<1>2. ASSUME watch[r] = "spawned", NEW to \in {"live", "failed"},
             watch' = [watch EXCEPT ![r] = to],
             UNCHANGED <<platform, reading, due, ticks, last, told, heard, lost, replaced>>,
             crowded' \subseteq Run,
             \/ platform # "brightness" /\ context' = context
             \/ /\ context' = IF to = "live" THEN r ELSE 0
                /\ crowded \subseteq crowded'
                /\ \A q \in Run : watch[q] = "stopping" => r \in crowded'
      PROVE  PlatformInv'
  <2>1. heard[r] = {} /\ r \notin lost /\ platform # "media"
    BY <1>2 DEF PlatformInv, Unheard
  <2>2. context' \in 0 .. Runs
    BY <1>2, PlatformAssumption DEF PlatformInv, PlatformTypes, Run
  <2>3. Reached'
    <3>1. SUFFICES ASSUME platform = "brightness", NEW s \in Run, watch'[s] = "live"
                   PROVE  /\ context' = s /\ (s \in lost => s \in crowded')
                          /\ \A q \in Run : watch'[q] = "stopping" => s \in crowded'
      BY <1>2 DEF Reached, LiveIsReached, Crowding, Watching
    <3>2. s = r
      <4>1. s # r => watch[s] = "live"
        BY <1>2, <3>1 DEF PlatformInv, PlatformTypes
      <4>2. QED
        BY <1>2, <4>1, OneLive
    <3>3. to = "live"
      BY <1>2, <3>1, <3>2 DEF PlatformInv, PlatformTypes
    <3>4. \A q \in Run : watch'[q] = "stopping" => s \in crowded'
      BY <1>2, <3>1, <3>2, <3>3 DEF PlatformInv, PlatformTypes
    <3>5. QED
      BY <1>2, <3>1, <3>2, <3>3, <3>4 DEF PlatformInv, Unheard
  <2>4. QED
    BY <1>2, <2>1, <2>2, <2>3, WatchStep DEF Over
<1>3. CASE RegisterDisplays(r) \/ RegisterWifi(r) \/ RegisterVolume(r) \/ RegisterPower(r)
           \/ WatchGrants(r)
  BY <1>2, <1>3 DEF PlatformInv, PlatformTypes, RegisterDisplays, RegisterWifi, RegisterVolume, RegisterPower, WatchGrants,
                    Registering, IsRegistered, Taken
<1>4. CASE WatchSpaces(r)
  <2>1. /\ platform = "spaces" /\ watch[r] = "spawned"
        /\ UNCHANGED <<platform, reading, due, ticks, last, told, heard, brightnessVars, replaced>>
        /\ crowded \subseteq Run
    BY <1>4 DEF WatchSpaces, Registering, PlatformInv, PlatformTypes
  <2>2. watch'[r] \in {"live", "failed"} /\ watch' = [watch EXCEPT ![r] = watch'[r]]
    BY <1>4 DEF WatchSpaces, PlatformInv, PlatformTypes
  <2>3. QED
    BY <1>2, <2>1, <2>2
<1>5. CASE RegisterBrightness(r)
  <2>1. PICK to \in {"live", "failed"} : watch' = [watch EXCEPT ![r] = to]
    BY <1>5 DEF RegisterBrightness, Taken
  <2>2. watch'[r] = to /\ crowded \subseteq Run
    BY <2>1 DEF PlatformInv, PlatformTypes
  <2>3. QED
    BY <1>2, <1>5, <2>1, <2>2 DEF RegisterBrightness, Registering
<1>6. QED
  BY <1>1, <1>3, <1>4, <1>5

\* A run let go of forgets what it said, and is heard of no more.
LEMMA StoppingStep ==
  ASSUME PlatformInv, NEW r \in Run, StopRun(r) \/ TearDown(r)
  PROVE  PlatformInv'
<1>1. PICK to \in Over :
        /\ watch' = [watch EXCEPT ![r] = to]
        /\ watch[r] \in {"spawned", "live", "stopping"}
        /\ crowded' = crowded
        /\ lost' = lost \/ lost' = lost \cup TakenWith(r)
        /\ watch[r] = "spawned" \/ to = "gone" \/ watch[r] = "live"
        /\ watch[r] = "live" \/ to = "gone"
        /\ lost' = lost \/ watch[r] = "stopping"
  BY DEF StopRun, TearDown, Over
<1>2. UNCHANGED <<platform, reading, replaced>> /\ context' \in 0 .. Runs
  BY PlatformAssumption DEF StopRun, TearDown, ClearsOwn, PlatformInv, PlatformTypes
<1>3. /\ due' \in [Run -> SUBSET Keys(platform)] /\ heard' \in [Run -> SUBSET Keys(platform)]
      /\ ticks' \in [Run -> Seq(Posted)]
      /\ last' = [s \in Run |-> last'[s]] /\ told' = [s \in Run |-> told'[s]]
  <2>1. CASE StopRun(r)
    BY <2>1, EmptySeq DEF StopRun, PlatformInv, PlatformTypes
  <2>2. CASE TearDown(r)
    BY <2>2 DEF TearDown, PlatformInv, PlatformTypes
  <2>3. QED
    BY <2>1, <2>2
<1>4. PlatformTypes'
  BY <1>1, <1>2, <1>3 DEF PlatformInv, PlatformTypes, Over, TakenWith, Watching
<1>5. RunsInTurn'
  <2>1. watch = [q \in Run |-> watch[q]] /\ watch[r] # "none"
    BY <1>1 DEF PlatformInv, PlatformTypes
  <2>2. QED
    BY <1>1, <2>1, RunsInTurnKept DEF PlatformInv
<1>6. ASSUME NEW s \in Run, s # r
      PROVE  /\ watch'[s] = watch[s] /\ ticks'[s] = ticks[s]
             /\ last'[s] = last[s] /\ told'[s] = told[s] /\ heard'[s] = heard[s]
             /\ due'[s] = due[s] \/ s \in lost'
  BY <1>1, <1>6 DEF StopRun, TearDown, PlatformInv, PlatformTypes
<1>7. watch'[r] = to
  BY <1>1 DEF PlatformInv, PlatformTypes
<1>8. Unheard'
  <2>1. \A s \in Run : s \in lost' => s \in lost \/ watch[s] \in {"live", "stopping"}
    BY <1>1 DEF TakenWith, Watching
  <2>2. QED
    BY <1>1, <1>2, <1>6, <1>7, <2>1 DEF PlatformInv, Unheard, Over
<1>9. Reached'
  <2>1. SUFFICES ASSUME platform = "brightness", NEW s \in Run, watch'[s] = "live"
                 PROVE  /\ context' = s /\ (s \in lost' => s \in crowded)
                        /\ \A q \in Run : watch'[q] = "stopping" => s \in crowded
    BY <1>1, <1>2 DEF Reached, LiveIsReached, Crowding, Watching
  <2>2. s # r /\ watch[s] = "live"
    BY <1>6, <1>7, <2>1 DEF Over
  <2>3. context = s /\ (s \in lost => s \in crowded)
    BY <2>1, <2>2 DEF PlatformInv, Reached, LiveIsReached, Watching
  <2>4. context' = s
    BY <2>2, <2>3 DEF StopRun, TearDown, ClearsOwn
  <2>5. watch[r] = "stopping" => s \in crowded
    BY <2>1, <2>2 DEF PlatformInv, Reached, Crowding
  <2>6. s \in lost' => s \in crowded
    BY <1>1, <2>3, <2>5
  <2>7. watch[r] # "live"
    BY <2>2, OneLive
  <2>8. ASSUME NEW q \in Run, watch'[q] = "stopping" PROVE s \in crowded
    <3>1. q # r /\ watch[q] = "stopping"
      BY <1>1, <1>6, <1>7, <2>7, <2>8
    <3>2. QED
      BY <2>1, <2>2, <3>1 DEF PlatformInv, Reached, Crowding
  <2>9. QED
    BY <2>4, <2>6, <2>8
<1>10. ASSUME NEW s \in Run PROVE Remembers(s)' /\ Reported(s)'
  <2>1. CASE s # r
    <3>1. Remembers(s) /\ Reported(s) /\ (s \in lost => s \in lost')
      BY <1>1 DEF PlatformInv
    <3>2. CASE due'[s] = due[s]
      BY <1>2, <1>6, <2>1, <3>1, <3>2, RunKept
    <3>3. CASE s \in lost'
      <4>1. Remembers(s)'
        BY <1>2, <1>6, <2>1, <3>1 DEF Remembers
      <4>2. QED
        BY <3>3, <4>1 DEF Reported
    <3>4. QED
      BY <1>6, <2>1, <3>2, <3>3
  <2>2. CASE s = r
    <3>1. Reported(r)'
      BY <1>7 DEF Reported, Over
    <3>2. Remembers(r)'
      <4>1. CASE StopRun(r)
        <5>1. last'[r] = {} /\ told'[r] = {}
          BY <4>1 DEF StopRun, PlatformInv, PlatformTypes
        <5>2. QED
          BY <5>1 DEF Remembers
      <4>2. CASE TearDown(r)
        BY <4>2 DEF TearDown, PlatformInv, Remembers
      <4>3. QED
        BY <4>1, <4>2
    <3>3. QED
      BY <2>2, <3>1, <3>2
  <2>3. QED
    BY <2>1, <2>2
<1>11. QED
  BY <1>4, <1>5, <1>8, <1>9, <1>10 DEF PlatformInv

\* A new process has nothing running.
LEMMA ReplacingStep ==
  ASSUME PlatformInv, NEW r \in Run, Replace(r)
  PROVE  PlatformInv'
<1>1. /\ UNCHANGED <<platform, reading>> /\ context' = 0 /\ lost' = {}
      /\ \A s \in Run : watch'[s] = "none" /\ heard'[s] = {} /\ last'[s] = {} /\ told'[s] = {}
  BY DEF Replace
<1>2. PlatformTypes'
  BY EmptySeq, PlatformAssumption DEF Replace, PlatformInv, PlatformTypes
<1>3. RunsInTurn' /\ Unheard' /\ Reached'
  BY <1>1 DEF RunsInTurn, Unheard, Reached, LiveIsReached, Crowding
<1>4. \A s \in Run : Remembers(s)' /\ Reported(s)'
  BY <1>1 DEF Remembers, Reported
<1>5. QED
  BY <1>2, <1>3, <1>4 DEF PlatformInv

\* A first look.
LEMMA SeedingStep ==
  ASSUME PlatformInv, NEW r \in Run, SeedLayout(r) \/ SeedGrant(r)
  PROVE  PlatformInv'
<1>1. /\ UNCHANGED <<platform, reading, watch, due, ticks, told, heard, brightnessVars, replaced>>
      /\ \E seen : last' = [last EXCEPT ![r] = seen]
  BY DEF SeedLayout, SeedGrant
<1>2. PlatformTypes' /\ RunsInTurn' /\ Unheard' /\ Reached'
  BY <1>1 DEF PlatformInv, PlatformTypes, RunsInTurn, Unheard,
             Reached, LiveIsReached, Crowding, Watching
<1>3. ASSUME NEW s \in Run PROVE Remembers(s)' /\ Reported(s)'
  <2>1. CASE s # r
    <3>1. last'[s] = last[s]
      BY <1>1, <2>1 DEF PlatformInv, PlatformTypes
    <3>2. QED
      BY <1>1, <3>1, RunKept DEF PlatformInv
  <2>2. CASE s = r
    <3>1. Remembers(r)'
      BY <1>1 DEF SeedLayout, SeedGrant, Registering, Remembers
    <3>2. CASE SeedLayout(r)
      BY <2>2, <3>1, <3>2 DEF SeedLayout, Registering, Reported
    <3>3. CASE SeedGrant(r)
      <4>1. platform' = "accessibility" /\ last'[r] = {Usable(reading')}
        BY <3>3 DEF SeedGrant, PlatformInv, PlatformTypes
      <4>2. \A key : Known(r, key)'
        BY <4>1 DEF Known
      <4>3. QED
        BY <2>2, <3>1, <4>1, <4>2 DEF Reported, Informed
    <3>4. QED
      BY <3>2, <3>3
  <2>3. QED
    BY <2>1, <2>2
<1>4. QED
  BY <1>2, <1>3 DEF PlatformInv

-----------------------------------------------------------------------------
\* The system moves: whoever is live is due a callback about what moved.
LEMMA MovingStep ==
  ASSUME PlatformInv, NEW answered \in Readings(platform), Move(answered)
  PROVE  PlatformInv'
<1> DEFINE about == IF answered = reading THEN Keys(platform) ELSE Changed(answered)
<1>1. /\ reading' = answered
      /\ due' = [r \in Run |-> IF r \in Watching THEN due[r] \cup about ELSE due[r]]
      /\ UNCHANGED <<platform, watch, ticks, last, told, heard, brightnessVars, replaced>>
  BY DEF Move
<1>2. about \subseteq Keys(platform)
  BY DEF Changed
<1>3. PlatformTypes' /\ RunsInTurn' /\ Unheard' /\ Reached'
  BY <1>1, <1>2 DEF PlatformInv, PlatformTypes, RunsInTurn, Unheard,
             Reached, LiveIsReached, Crowding, Watching
<1>4. ASSUME NEW r \in Run PROVE Remembers(r)' /\ Reported(r)'
  <2>1. Remembers(r)'
    BY <1>1 DEF PlatformInv, Remembers
  <2>2. ASSUME NEW key \in Keys(platform), watch[r] = "live", r \notin lost,
               key \in heard[r], key \notin due'[r]
        PROVE  Informed(r, key)'
    <3>1. key \notin due[r] /\ key \notin about
      BY <1>1, <2>2 DEF Watching
    <3>2. platform = "wifi" /\ answered[key] = reading[key]
      BY <2>2, <3>1 DEF Changed
    <3>3. Coming(r, key)
      BY <2>2, <3>1, <3>2 DEF PlatformInv, Reported, Informed
    <3>4. Coming(r, key)'
      BY <1>1, <3>2, <3>3 DEF Coming
    <3>5. QED
      BY <1>1, <3>2, <3>4 DEF Informed
  <2>3. QED
    BY <1>1, <2>1, <2>2 DEF Reported
<1>5. QED
  BY <1>3, <1>4 DEF PlatformInv

-----------------------------------------------------------------------------
\* What a callback posts comes to the relay it posts to.
PostsAbout(r, to, posts) ==
  IF platform = "wifi"
    THEN /\ \A key \in due[r] : \E i \in 1 .. Len(posts) :
              posts[i] = <<key, reading[key]>>
              /\ \A j \in 1 .. Len(posts) : j # i => posts[j][1] # key
         /\ \A j \in 1 .. Len(posts) : posts[j][1] \in due[r]
    ELSE posts # <<>>

LEMMA PostingStep ==
  ASSUME PlatformInv, NEW r \in Run, NEW to \in 0 .. Runs, NEW posts \in Seq(Posted),
         Posts(r, to, posts), PostsAbout(r, to, posts), watch[r] = "live" => to = r
  PROVE  PlatformInv'
<1>1. /\ due' = [due EXCEPT ![r] = {}]
      /\ UNCHANGED <<platform, reading, watch, last, told, brightnessVars, replaced>>
      /\ \/ /\ to \in Run /\ watch[to] = "live"
            /\ ticks' = [ticks EXCEPT ![to] = @ \o posts]
            /\ heard' = [heard EXCEPT ![to] = @ \cup due[r]]
         \/ (to = 0 \/ watch[to] # "live") /\ UNCHANGED <<ticks, heard>>
  BY DEF Posts, Run
<1>2. PlatformTypes'
  <2>1. /\ due' \in [Run -> SUBSET Keys(platform)]
        /\ heard' \in [Run -> SUBSET Keys(platform)]
    BY <1>1 DEF PlatformInv, PlatformTypes
  <2>2. ticks' \in [Run -> Seq(Posted)]
    <3>1. to \in Run => ticks[to] \o posts \in Seq(Posted)
      BY ConcatProperties DEF PlatformInv, PlatformTypes
    <3>2. QED
      BY <1>1, <3>1 DEF PlatformInv, PlatformTypes
  <2>3. QED
    BY <1>1, <2>1, <2>2 DEF PlatformInv, PlatformTypes
<1>3. RunsInTurn' /\ Reached'
  BY <1>1 DEF PlatformInv, RunsInTurn, Reached, LiveIsReached, Crowding, Watching
<1>4. Unheard'
  BY <1>1 DEF PlatformInv, PlatformTypes, Unheard
<1>5. ASSUME NEW s \in Run PROVE Remembers(s)' /\ Reported(s)'
  <2>1. Remembers(s) /\ Reported(s)
    BY DEF PlatformInv
  <2>2. Remembers(s)'
    BY <1>1, <2>1 DEF Remembers
  <2>3. CASE watch[s] # "live"
    BY <1>1, <2>2, <2>3 DEF Reported
  <2>4. CASE watch[s] = "live" /\ s # to
    <3>1. s # r
      BY <2>4
    <3>2. due'[s] = due[s] /\ heard'[s] = heard[s] /\ ticks'[s] = ticks[s]
      BY <1>1, <2>4, <3>1 DEF PlatformInv, PlatformTypes
    <3>3. QED
      BY <1>1, <2>1, <3>2, RunKept
  <2>5. CASE watch[s] = "live" /\ s = to
    <3>1. /\ ticks'[s] = ticks[s] \o posts /\ heard'[s] = heard[s] \cup due[r]
          /\ due[s] \subseteq due'[s] \cup due[r]
      <4>1. /\ ticks = [q \in Run |-> ticks[q]] /\ heard = [q \in Run |-> heard[q]]
            /\ due = [q \in Run |-> due[q]]
        BY DEF PlatformInv, PlatformTypes
      <4>2. /\ ticks' = [ticks EXCEPT ![s] = @ \o posts]
            /\ heard' = [heard EXCEPT ![s] = @ \cup due[r]]
        BY <1>1, <2>5, PlatformAssumption DEF Run
      <4>3. QED
        BY <1>1, <4>1, <4>2
    <3>2. ASSUME NEW key \in Keys(platform), s \notin lost, key \in heard'[s], key \notin due'[s]
          PROVE  Informed(s, key)'
      <4>1. CASE platform # "wifi"
        <5>1. ticks'[s] # <<>>
          BY <3>1, <4>1, ConcatProperties, EmptySeq
             DEF PlatformInv, PlatformTypes, PostsAbout
        <5>2. QED
          BY <1>1, <4>1, <5>1 DEF Informed
      <4>2. CASE platform = "wifi"
        <5>1. ticks[s] \in Seq(Posted)
          BY DEF PlatformInv, PlatformTypes
        <5>2. CASE key \in due[r]
          <6>1. PICK i \in 1 .. Len(posts) :
                  posts[i] = <<key, reading[key]>>
                  /\ \A j \in 1 .. Len(posts) : j # i => posts[j][1] # key
            BY <4>2, <5>2 DEF PostsAbout
          <6>2. ComesTo(ticks[s] \o posts, told[s], key, reading[key])
            BY <5>1, <6>1, ComesAnew
          <6>3. QED
            BY <1>1, <3>1, <4>2, <6>2 DEF Informed, Coming
        <5>3. CASE key \notin due[r]
          <6>1. key \in heard[s] /\ key \notin due[s]
            BY <3>1, <3>2, <5>3
          <6>2. ComesTo(ticks[s], told[s], key, reading[key])
            BY <2>1, <2>5, <3>2, <4>2, <6>1 DEF Reported, Informed, Coming
          <6>3. \A j \in 1 .. Len(posts) : posts[j][1] # key
            BY <4>2, <5>3 DEF PostsAbout
          <6>4. ComesTo(ticks[s] \o posts, told[s], key, reading[key])
            BY <5>1, <6>2, <6>3, ComesStill
          <6>5. QED
            BY <1>1, <3>1, <4>2, <6>4 DEF Informed, Coming
        <5>4. QED
          BY <5>2, <5>3
      <4>3. QED
        BY <4>1, <4>2
    <3>3. QED
      BY <1>1, <2>2, <3>2 DEF Reported
  <2>6. QED
    BY <2>3, <2>4, <2>5
<1>6. QED
  BY <1>2, <1>3, <1>4, <1>5 DEF PlatformInv

\* What wifi.rs posts about the interfaces that changed.
LEMMA ChangedListed ==
  ASSUME PlatformInv, platform = "wifi", NEW r \in Run, NEW posts,
         posts = [i \in 1 .. Cardinality(due[r]) |->
                    LET key == SetToSeq(due[r])[i] IN <<key, reading[key]>>]
  PROVE  posts \in Seq(Posted) /\ PostsAbout(r, r, posts)
<1>1. due[r] \subseteq Interfaces /\ IsFiniteSet(Interfaces)
  <2>1. IsFiniteSet({"en0"}) /\ IsFiniteSet({"en0"} \cup {"en1"})
    BY FS_Singleton, FS_AddElement
  <2>2. Interfaces = {"en0"} \cup {"en1"}
    BY DEF Interfaces
  <2>3. QED
    BY <2>1, <2>2 DEF PlatformInv, PlatformTypes, Keys
<1>2. IsFiniteSet(due[r])
  BY <1>1, FS_Subset
<1> DEFINE n == Cardinality(due[r])
           list == SetToSeq(due[r])
<1>3. /\ n \in Nat /\ list \in [1 .. n -> due[r]]
      /\ \A k \in due[r] : \E i \in 1 .. n : list[i] = k
      /\ \A i, j \in 1 .. n : list[i] = list[j] => i = j
  BY <1>2, Listing
<1>4. posts = [i \in 1 .. n |-> <<list[i], reading[list[i]]>>]
  OBVIOUS
<1> HIDE DEF n, list
<1>5. \A i \in 1 .. n : <<list[i], reading[list[i]]>> \in Posted
  <2>1. reading \in [Interfaces -> {{}, {"home"}}]
    BY DEF PlatformInv, PlatformTypes, Readings, Joins
  <2>2. QED
    BY <1>1, <1>3, <2>1 DEF Posted
<1>6. posts \in Seq(Posted) /\ Len(posts) = n
  <2>1. posts \in [1 .. n -> Posted]
    BY <1>4, <1>5
  <2>2. QED
    <3>1. PICK m \in Nat : m = n
      BY <1>3
    <3>2. [1 .. m -> Posted] \in {[1 .. k -> Posted] : k \in Nat}
      BY <3>1
    <3>3. posts \in Seq(Posted)
      BY <2>1, <3>1, <3>2, SeqDef, Zenon
    <3>4. PICK l \in Nat : l = Len(posts) /\ DOMAIN posts = 1 .. l
      BY <3>3, LenProperties, Zenon
    <3>5. DOMAIN posts = 1 .. m
      BY <2>1, <3>1
    <3>6. 1 .. l = 1 .. m
      BY <3>4, <3>5
    <3>7. l = m
      <4>1. m \in 1 .. m \/ m = 0
        OBVIOUS
      <4>2. l \in 1 .. l \/ l = 0
        OBVIOUS
      <4>3. QED
        BY <3>6, <4>1, <4>2
    <3>8. QED
      BY <3>1, <3>3, <3>4, <3>7
<1>7. ASSUME NEW i \in 1 .. n
      PROVE  posts[i] = <<list[i], reading[list[i]]>> /\ posts[i][1] = list[i]
  <2>1. posts[i] = <<list[i], reading[list[i]]>>
    BY <1>4
  <2>2. QED
    BY <2>1
<1>8. PostsAbout(r, r, posts)
  <2>1. ASSUME NEW key \in due[r]
        PROVE  \E i \in 1 .. n : posts[i] = <<key, reading[key]>>
                 /\ \A j \in 1 .. n : j # i => posts[j][1] # key
    <3>1. PICK i \in 1 .. n : list[i] = key
      BY <1>3
    <3>2. posts[i] = <<key, reading[key]>>
      BY <1>7, <3>1
    <3>3. ASSUME NEW j \in 1 .. n, j # i PROVE posts[j][1] # key
      <4>1. list[j] # list[i]
        BY <1>3, <3>3
      <4>2. QED
        BY <1>7, <3>1, <4>1
    <3>4. QED
      BY <3>2, <3>3
  <2>2. \A j \in 1 .. n : posts[j][1] \in due[r]
    BY <1>3, <1>7
  <2>3. n = Len(posts)
    BY <1>6
  <2>5. \A key \in due[r] : \E i \in 1 .. Len(posts) :
              posts[i] = <<key, reading[key]>>
              /\ \A j \in 1 .. Len(posts) : j # i => posts[j][1] # key
    <3>1. TAKE key \in due[r]
    <3>2. PICK i \in 1 .. n : posts[i] = <<key, reading[key]>>
                 /\ \A j \in 1 .. n : j # i => posts[j][1] # key
      BY <2>1
    <3>3. i \in 1 .. Len(posts) /\ \A j \in 1 .. Len(posts) : j \in 1 .. n
      BY <2>3
    <3>4. QED
      BY <3>2, <3>3, Zenon
  <2>6. \A j \in 1 .. Len(posts) : posts[j][1] \in due[r]
    BY <2>2, <2>3
  <2>7. QED
    BY <2>5, <2>6 DEF PostsAbout
<1>9. QED
  BY <1>6, <1>8

\* A callback of any framework.
LEMMA CallingStep ==
  ASSUME PlatformInv, NEW r \in Run, CallBack(r)
  PROVE  PlatformInv'
<1>1. r \in 0 .. Runs /\ Tick \in Seq(Posted) /\ Tick \o Tick \in Seq(Posted)
      /\ Tick # <<>> /\ Tick \o Tick # <<>>
  BY PlatformAssumption DEF Run, Tick, Posted
<1>2. CASE UNCHANGED platformVars
  BY <1>2 DEF platformVars, PlatformInv, PlatformTypes, RunsInTurn, Unheard,
             Reached, LiveIsReached, Crowding, Watching,
              Remembers, Reported, Informed, Coming, Known, MayReplace
<1>3. ASSUME platform # "wifi", Posts(r, r, Tick) \/ Posts(r, r, Tick \o Tick)
      PROVE  PlatformInv'
  <2>1. PostsAbout(r, r, Tick) /\ PostsAbout(r, r, Tick \o Tick)
    BY <1>1, <1>3 DEF PostsAbout
  <2>2. QED
    BY <1>1, <1>3, <2>1, PostingStep
<1>4. CASE Reconfigured(r)
  BY <1>2, <1>3, <1>4 DEF Reconfigured, Call
<1>5. CASE ChangedKeys(r)
  <2> DEFINE posts == [i \in 1 .. Cardinality(due[r]) |->
                         LET key == SetToSeq(due[r])[i] IN <<key, reading[key]>>]
  <2>1. posts \in Seq(Posted) /\ PostsAbout(r, r, posts)
    BY <1>5, ChangedListed DEF ChangedKeys, Call
  <2>2. Posts(r, r, posts)
    BY <1>5 DEF ChangedKeys
  <2> HIDE DEF posts
  <2>3. QED
    BY <1>1, <2>1, <2>2, PostingStep
<1>6. CASE BrightnessChanged(r)
  <2>1. platform = "brightness" /\ Posts(r, context, Tick)
    BY <1>6 DEF BrightnessChanged, Call
  <2>2. context \in 0 .. Runs /\ (watch[r] = "live" => context = r)
    BY <2>1 DEF PlatformInv, PlatformTypes, Reached, LiveIsReached
  <2>3. PostsAbout(r, context, Tick)
    BY <1>1, <2>1 DEF PostsAbout
  <2>4. QED
    BY <1>1, <2>1, <2>2, <2>3, PostingStep
<1>7. CASE VolumeMoved(r) \/ PowerMoved(r) \/ PokeGrants(r) \/ SpaceChanged(r)
  BY <1>3, <1>7 DEF VolumeMoved, PowerMoved, PokeGrants, SpaceChanged, Call
<1>8. QED
  BY <1>4, <1>5, <1>6, <1>7 DEF CallBack

-----------------------------------------------------------------------------
\* What is reported of one interface is then known of it, and of no other.
LEMMA JoiningTells ==
  ASSUME PlatformInv, platform = "wifi", NEW r \in Run, NEW key, NEW ssid,
         DecideJoined(r, key, ssid)
  PROVE  /\ last'[r] = told'[r] /\ <<key, ssid>> \in told'[r]
         /\ \A k, s : k # key /\ <<k, s>> \in told[r] => <<k, s>> \in told'[r]
<1>1. last[r] = told[r]
  BY DEF PlatformInv, Remembers
<1>2. CASE <<key, ssid>> \in last[r]
  BY <1>1, <1>2 DEF DecideJoined, Quiet
<1>3. CASE <<key, ssid>> \notin last[r]
  <2>1. last'[r] = Joined(last[r], key, ssid) /\ told'[r] = Joined(told[r], key, ssid)
    BY <1>3 DEF DecideJoined, Emits, PlatformInv, PlatformTypes
  <2>2. QED
    BY <1>1, <2>1 DEF Joined
<1>4. QED
  BY <1>2, <1>3

\* A look that is the task's own: what it leaves known is what the system says.
LEMMA LookTells ==
  ASSUME PlatformInv, NEW r \in Run, watch[r] = "live", platform # "wifi", NEW tick,
         Decide(r, tick), UNCHANGED <<platform, reading, replaced>>, NEW key
  PROVE  Known(r, key)' /\ Remembers(r)'
<1>1. Remembers(r)
  BY DEF PlatformInv
<1>2. \A s, x : last' = [last EXCEPT ![r] = x] => last'[r] = x
  BY DEF PlatformInv, PlatformTypes
<1>3. \A x : Emits(r, x) => told'[r] = x
  BY DEF Emits, PlatformInv, PlatformTypes
<1>4. CASE platform = "displays"
  <2>1. ReportLayout(r)
    BY <1>4 DEF Decide
  <2>2. last'[r] = {reading}
    BY <1>2, <2>1 DEF ReportLayout, Quiet
  <2>3. QED
    BY <1>4, <2>2 DEF Known, Remembers
<1>5. CASE platform = "brightness"
  <2>1. ReportBrightness(r)
    BY <1>5 DEF Decide
  <2>2. /\ last'[r] = told'[r]
        /\ Brightness(reading) # {} => told'[r] = Brightness(reading)
    BY <1>1, <1>2, <1>3, <1>5, <2>1 DEF ReportBrightness, Quiet, Remembers
  <2>3. QED
    BY <1>5, <2>2 DEF Known, Remembers
<1>6. CASE platform = "volume"
  <2>1. ReportVolume(r)
    BY <1>6 DEF Decide
  <2>2. Scalar(reading) \subseteq Int
    <3>1. reading \in Devices
      BY <1>6 DEF PlatformInv, PlatformTypes, Readings
    <3>2. QED
      BY <3>1, ScalarsAreNumbers
  <2>3. last[r] = told[r] /\ last[r] \subseteq Int
    BY <1>1, <1>6 DEF Remembers
  <2>4. CASE \E n \in Scalar(reading) : \A before \in last[r] : Abs(n - before) >= EPSILON
    <3>1. last'[r] = Scalar(reading) /\ told'[r] = Scalar(reading)
      BY <1>2, <1>3, <2>1, <2>4 DEF ReportVolume
    <3>2. \A n \in Int : Abs(n - n) < EPSILON
      BY DEF Abs, EPSILON
    <3>3. QED
      BY <1>6, <2>2, <3>1, <3>2 DEF Known, Remembers
  <2>5. CASE ~(\E n \in Scalar(reading) : \A before \in last[r] : Abs(n - before) >= EPSILON)
    <3>1. last' = last /\ told' = told
      BY <2>1, <2>5 DEF ReportVolume, Quiet
    <3>2. \A n, t \in Int : ~(Abs(n - t) >= EPSILON) => Abs(n - t) < EPSILON
      BY DEF Abs, EPSILON
    <3>3. \A n \in Scalar(reading) : \E t \in told[r] : Abs(n - t) < EPSILON
      BY <2>2, <2>3, <2>5, <3>2
    <3>4. QED
      BY <1>6, <2>3, <3>1, <3>3 DEF Known, Remembers
  <2>6. QED
    BY <2>4, <2>5
<1>7. CASE platform = "power"
  <2> DEFINE answered == Snapshot(reading)
  <2>1. DecidePower(r) /\ reading \in Answers
    BY <1>7 DEF Decide, PlatformInv, PlatformTypes, Readings
  <2>2. last'[r] = {answered}
    BY <1>2, <2>1 DEF DecidePower
  <2>3. \E t \in told'[r] : DrawnOf(t) = DrawnOf(answered)
    <3>1. CASE \A before \in last[r] : DiffersFrom(before, answered)
      <4>1. told'[r] = {answered}
        BY <1>3, <2>1, <3>1 DEF DecidePower
      <4>2. QED
        BY <4>1
    <3>2. CASE ~(\A before \in last[r] : DiffersFrom(before, answered))
      <4>1. PICK before \in last[r] : ~DiffersFrom(before, answered)
        BY <3>2
      <4>2. PICK a \in Answers : before = Snapshot(a)
        BY <1>1, <1>7 DEF Remembers
      <4>3. DrawnOf(before) = DrawnOf(answered)
        BY <4>1, <4>2, DrawnAlike
      <4>4. \E t \in told[r] : DrawnOf(t) = DrawnOf(before)
        BY <1>1, <1>7 DEF Remembers
      <4>5. told' = told
        BY <2>1, <3>2 DEF DecidePower
      <4>6. QED
        BY <4>3, <4>4, <4>5
    <3>3. QED
      BY <3>1, <3>2
  <2>4. Known(r, key)'
    BY <1>7, <2>3 DEF Known
  <2>5. Remembers(r)'
    BY <1>7, <2>1, <2>2, <2>3 DEF Remembers
  <2>6. QED
    BY <2>4, <2>5
<1>8. CASE platform = "accessibility"
  <2>1. CheckGrant(r)
    BY <1>8 DEF Decide
  <2>2. last'[r] = {Usable(reading)} \/ (reading = "api_disabled" /\ MayReplace)
    BY <1>2, <2>1 DEF CheckGrant
  <2>3. QED
    BY <1>8, <2>2 DEF Known, Remembers, MayReplace
<1>9. CASE platform = "spaces"
  <2>1. ReportSpace(r)
    BY <1>9 DEF Decide
  <2>2. reading # {} => told'[r] = reading
    BY <1>3, <2>1 DEF ReportSpace
  <2>3. QED
    BY <1>9, <2>2 DEF Known, Remembers
<1>10. QED
  BY <1>4, <1>5, <1>6, <1>7, <1>8, <1>9, PlatformAssumption
     DEF PlatformInv, PlatformTypes, Unheard

\* The task takes what its relay holds and decides.
LEMMA ReportStep ==
  ASSUME PlatformInv, NEW r \in Run, Report(r)
  PROVE  PlatformInv'
<1>1. /\ watch[r] = "live" /\ ticks[r] # <<>> /\ Decide(r, Head(ticks[r]))
      /\ ticks' = [ticks EXCEPT ![r] = IF platform \in Batched THEN <<>> ELSE Tail(@)]
      /\ UNCHANGED <<platform, reading, watch, due, heard, brightnessVars, replaced>>
  BY DEF Report
<1>2. /\ last' = last \/ \E x : last' = [last EXCEPT ![r] = x]
      /\ told' = told \/ \E x : told' = [told EXCEPT ![r] = x]
  <2>1. platform \in {"displays", "wifi", "brightness", "volume", "power", "accessibility",
                      "spaces"}
    BY <1>1, PlatformAssumption DEF PlatformInv, PlatformTypes, Unheard
  <2>2. \A key, ssid : DecideJoined(r, key, ssid) =>
          /\ last' = last \/ \E x : last' = [last EXCEPT ![r] = x]
          /\ told' = told \/ \E x : told' = [told EXCEPT ![r] = x]
    BY DEF DecideJoined, Quiet, Emits
  <2>3. QED
    BY <1>1, <2>1, <2>2 DEF Decide, ReportLayout, ReportBrightness, ReportVolume,
       DecidePower, CheckGrant, ReportSpace, Quiet, Emits
<1>3. PlatformTypes'
  <2>1. Tail(ticks[r]) \in Seq(Posted) /\ <<>> \in Seq(Posted)
    BY <1>1, HeadTailProperties, EmptySeq DEF PlatformInv, PlatformTypes
  <2>2. ticks' \in [Run -> Seq(Posted)]
    BY <1>1, <2>1 DEF PlatformInv, PlatformTypes
  <2>3. last' = [s \in Run |-> last'[s]] /\ told' = [s \in Run |-> told'[s]]
    BY <1>2 DEF PlatformInv, PlatformTypes
  <2>4. QED
    BY <1>1, <2>2, <2>3 DEF PlatformInv, PlatformTypes
<1>4. RunsInTurn' /\ Unheard' /\ Reached'
  BY <1>1 DEF PlatformInv, RunsInTurn, Unheard, Reached, LiveIsReached, Crowding, Watching
<1>5. ASSUME NEW s \in Run, s # r PROVE Remembers(s)' /\ Reported(s)'
  <2>1. /\ ticks'[s] = ticks[s] /\ last'[s] = last[s] /\ told'[s] = told[s]
    BY <1>1, <1>2, <1>5 DEF PlatformInv, PlatformTypes
  <2>2. Remembers(s) /\ Reported(s)
    BY DEF PlatformInv
  <2>3. QED
    BY <1>1, <2>1, <2>2, RunKept
<1>6. CASE platform # "wifi"
  <2>1. \A key : Known(r, key)' /\ Remembers(r)'
    BY <1>1, <1>6, LookTells
  <2>2. Reported(r)'
    BY <1>1, <1>6, <2>1 DEF Reported, Informed
  <2>3. QED
    BY <1>3, <1>4, <1>5, <2>1, <2>2 DEF PlatformInv
<1>7. CASE platform = "wifi"
  <2> DEFINE h == Head(ticks[r])
  <2>1. /\ last'[r] = told'[r] /\ <<h[1], h[2]>> \in told'[r]
        /\ \A k, s : k # h[1] /\ <<k, s>> \in told[r] => <<k, s>> \in told'[r]
    <3>1. DecideJoined(r, h[1], h[2])
      BY <1>1, <1>7 DEF Decide
    <3>2. QED
      BY <1>7, <3>1, JoiningTells
  <2>2. Remembers(r)'
    BY <1>1, <1>7, <2>1 DEF Remembers
  <2>3. ticks'[r] = Tail(ticks[r]) /\ ticks[r] \in Seq(Posted)
    BY <1>1, <1>7 DEF Batched, PlatformInv, PlatformTypes
  <2>4. ASSUME NEW key \in Keys(platform), r \notin lost, key \in heard[r], key \notin due[r]
        PROVE  Informed(r, key)'
    <3>1. ComesTo(ticks[r], told[r], key, reading[key])
      BY <1>1, <1>7, <2>4 DEF PlatformInv, Reported, Informed, Coming
    <3>2. h = <<key, reading[key]>> => <<key, reading[key]>> \in told'[r]
      BY <2>1
    <3>3. h[1] # key /\ <<key, reading[key]>> \in told[r] => <<key, reading[key]>> \in told'[r]
      BY <2>1
    <3>4. ComesTo(Tail(ticks[r]), told'[r], key, reading[key])
      BY <1>1, <2>3, <3>1, <3>2, <3>3, ComesToBeKnown
    <3>5. QED
      BY <1>1, <1>7, <2>3, <3>4 DEF Informed, Coming
  <2>5. Reported(r)'
    BY <1>1, <2>4 DEF Reported
  <2>6. QED
    BY <1>3, <1>4, <1>5, <2>2, <2>5 DEF PlatformInv
<1>8. QED
  BY <1>6, <1>7

-----------------------------------------------------------------------------
\* Every step of a source.
LEMMA PlatformStep == PlatformInv /\ [PlatformNext]_platformVars => PlatformInv'
<1>1. SUFFICES ASSUME PlatformInv, [PlatformNext]_platformVars PROVE PlatformInv'
  OBVIOUS
<1>2. CASE UNCHANGED platformVars
  <2>1. PlatformTypes' /\ RunsInTurn' /\ Unheard' /\ Reached'
    BY <1>1, <1>2 DEF platformVars, PlatformInv, PlatformTypes, RunsInTurn, Unheard,
             Reached, LiveIsReached, Crowding, Watching
  <2>2. \A r \in Run : Remembers(r)' /\ Reported(r)'
    BY <1>1, <1>2, RunKept DEF platformVars, PlatformInv
  <2>3. QED
    BY <2>1, <2>2 DEF PlatformInv
<1>3. ASSUME NEW r \in Run,
             \/ StartRun(r) \/ SeedLayout(r) \/ SeedGrant(r)
             \/ RegisterDisplays(r) \/ RegisterWifi(r) \/ RegisterBrightness(r)
             \/ RegisterVolume(r) \/ RegisterPower(r) \/ WatchGrants(r) \/ WatchSpaces(r)
             \/ StopRun(r) \/ TearDown(r) \/ CallBack(r) \/ Replace(r) \/ Report(r)
      PROVE  PlatformInv'
  BY <1>1, <1>3, StartingStep, SeedingStep, StoppingStep, CallingStep, ReplacingStep, ReportStep
<1>4. ASSUME NEW answered \in Readings(platform), Move(answered) PROVE PlatformInv'
  BY <1>1, <1>4, MovingStep
<1>5. QED
  BY <1>1, <1>2, <1>3, <1>4 DEF PlatformNext

\* Nothing was started, so nothing is owed.
LEMMA PlatformStart == PlatformInit => PlatformInv
<1>1. SUFFICES ASSUME PlatformInit PROVE PlatformInv
  OBVIOUS
<1>2. PlatformTypes
  BY <1>1, PlatformAssumption, EmptySeq DEF PlatformInit, PlatformTypes
<1>3. RunsInTurn /\ Unheard /\ Reached
  BY <1>1 DEF PlatformInit, RunsInTurn, Unheard, Reached, LiveIsReached, Crowding, Watching
<1>4. \A r \in Run : Remembers(r) /\ Reported(r)
  BY <1>1 DEF PlatformInit, Remembers, Reported
<1>5. QED
  BY <1>2, <1>3, <1>4 DEF PlatformInv

\* A run that was told and has read its relay knows.
LEMMA ReportedSuffices == PlatformInv => SourcesReport
<1>1. SUFFICES ASSUME PlatformInv PROVE SourcesReport
  OBVIOUS
<1>2. ASSUME NEW r \in Run, NEW k \in Keys(platform), watch[r] = "live", r \in Watching,
             k \in heard[r], k \notin due[r], ticks[r] = <<>>
      PROVE  Known(r, k)
  <2>1. Informed(r, k)
    BY <1>1, <1>2 DEF PlatformInv, Reported, Watching
  <2>2. CASE platform # "wifi"
    BY <1>2, <2>1, <2>2 DEF Informed
  <2>3. CASE platform = "wifi"
    <3>1. Len(ticks[r]) = 0
      BY <1>2, EmptySeq
    <3>2. <<k, reading[k]>> \in told[r]
      BY <2>1, <2>3, <3>1 DEF Informed, Coming, ComesTo
    <3>3. QED
      BY <2>3, <3>2 DEF Known
  <2>4. QED
    BY <2>2, <2>3
<1>3. QED
  BY <1>1, <1>2 DEF SourcesReport, ReportsWhatIsSo, PlatformInv, Reached

\* For every set of platform sources and any number of restarts: once a run was
\* called back and its relay is empty, whoever listens knows what the system
\* answers now, while the framework still calls the run back; the brightness
\* callback reaches the run that is live, and only the teardown of a run that
\* it registered beside takes its registration.
THEOREM SourcesAreRight == PlatformSpec => []SourcesReport
BY ReportedSuffices, PlatformStart, PlatformStep, PTL DEF PlatformSpec

-----------------------------------------------------------------------------
(* Volume. *)

\* A thread adds listeners only to a device it found; and until the
\* teardown begins at most one thread is in `relisten`: the pool's while the
\* source is being installed, CoreAudio's while it is live.
FoundOne == \A t \in Threads : at[t] = "add" => found[t] \in OutputDevices

OneRelistens ==
  /\ following => owner \in {"live", "stopping"}
  /\ owner \in {"none", "live"} => at["pool"] = "out"
  /\ owner \in {"none", "listening"} => at["audio"] = "out"

\* What that thread has made of the listeners, by where it is.
Listened(t) ==
  /\ at[t] \in {"out", "swap"} => heardFrom \subseteq {device}
  /\ at[t] = "remove" => heardFrom \subseteq {previous[t]}
  /\ at[t] \in {"read", "add"} => heardFrom = {}
  /\ at[t] = "store" => heardFrom \subseteq {found[t]}

ListenedByOne ==
  /\ owner \in {"none", "listening"} => Listened("pool")
  /\ owner = "live" => Listened("audio")

VolumeInv == VolumeTypeOK /\ FoundOne /\ OneRelistens /\ ListenedByOne

\* The listeners' state keeps its types.
LEMMA VolumeTyped ==
  ASSUME VolumeTypeOK, FoundOne, [VolumeNext]_volumeVars
  PROVE  VolumeTypeOK' /\ FoundOne'
<1> USE VolumeAssumption DEF VolumeTypeOK, FoundOne, Possible
<1>1. ASSUME NEW t \in Threads,
             Swap(t) \/ RemoveListeners(t) \/ ReadDefault(t) \/ AddListeners(t) \/ StoreDevice(t)
      PROVE  VolumeTypeOK' /\ FoundOne'
  <2>1. CASE Swap(t)
    BY <2>1 DEF Swap, Go
  <2>2. CASE RemoveListeners(t)
    BY <2>2 DEF RemoveListeners, Removes, Go
  <2>3. CASE ReadDefault(t)
    BY <2>3 DEF ReadDefault, Go
  <2>4. CASE AddListeners(t)
    <3>1. /\ at[t] = "add" /\ at' = [at EXCEPT ![t] = "store"]
          /\ heardFrom' = heardFrom \/ heardFrom' = heardFrom \cup {found[t]}
          /\ UNCHANGED <<default, owner, device, following, announce, previous, found>>
      BY <2>4 DEF AddListeners, Go
    <3>2. heardFrom' \subseteq OutputDevices
      BY <3>1
    <3>3. QED
      BY <3>1, <3>2
  <2>5. CASE StoreDevice(t)
    BY <2>5 DEF StoreDevice, Go
  <2>6. QED
    BY <1>1, <2>1, <2>2, <2>3, <2>4, <2>5
<1>2. CASE InstallVolume \/ Follow \/ StopVolume \/ StopFollowing \/ Reclaim
  BY <1>2 DEF InstallVolume, Follow, StopVolume, StopFollowing, Reclaim, Go
<1>3. CASE DefaultMoves \/ DeviceChanged
  BY <1>3 DEF DefaultMoves, DeviceChanged, Go
<1>4. CASE UNCHANGED volumeVars
  BY <1>4 DEF volumeVars
<1>5. QED
  BY <1>1, <1>2, <1>3, <1>4 DEF VolumeNext

\* A step of `relisten` leaves the listeners as it should, if it is the only
\* one that is in it.
LEMMA RelistenStep ==
  ASSUME VolumeInv, NEW t \in Threads,
         Swap(t) \/ RemoveListeners(t) \/ ReadDefault(t) \/ AddListeners(t) \/ StoreDevice(t),
         Relistens(t), Listened(t)
  PROVE  Listened(t)'
<1> USE DEF VolumeInv, VolumeTypeOK, Listened
<1>1. CASE Swap(t)
  <2>1. /\ at[t] = "swap" /\ previous'[t] = device /\ device' = NO_DEVICE
        /\ heardFrom' = heardFrom
        /\ at'[t] = IF device # NO_DEVICE THEN "remove" ELSE "read"
    BY <1>1 DEF Swap, Go
  <2>2. device = NO_DEVICE => heardFrom = {}
    BY <2>1, VolumeAssumption
  <2>3. QED
    BY <2>1, <2>2
<1>2. CASE RemoveListeners(t)
  BY <1>2 DEF RemoveListeners, Removes, Go
<1>3. CASE ReadDefault(t)
  BY <1>3 DEF ReadDefault, Go
<1>4. CASE AddListeners(t)
  BY <1>4 DEF AddListeners, Go
<1>5. CASE StoreDevice(t)
  BY <1>5 DEF StoreDevice, Go
<1>6. QED
  BY <1>1, <1>2, <1>3, <1>4, <1>5

\* Every step of either thread, of the registration and of CoreAudio.
LEMMA VolumeStep == VolumeInv /\ [VolumeNext]_volumeVars => VolumeInv'
<1> SUFFICES ASSUME VolumeInv, [VolumeNext]_volumeVars PROVE VolumeInv'
  OBVIOUS
<1>1. VolumeTypeOK' /\ FoundOne'
  BY VolumeTyped DEF VolumeInv
<1>2. OneRelistens' /\ ListenedByOne'
  <2>1. ASSUME NEW t \in Threads,
               \/ Swap(t) \/ RemoveListeners(t) \/ ReadDefault(t) \/ AddListeners(t)
               \/ StoreDevice(t)
        PROVE  OneRelistens' /\ ListenedByOne'
    <3>1. /\ owner' = owner /\ following' = following /\ at[t] # "out"
          /\ \A u \in Threads : u # t => at'[u] = at[u]
      BY <2>1 DEF VolumeInv, VolumeTypeOK, Swap, RemoveListeners, ReadDefault, AddListeners,
                  StoreDevice, Go
    <3>2. /\ owner # "none"
          /\ owner = "listening" => t = "pool"
          /\ owner = "live" => t = "audio"
      BY <3>1 DEF VolumeInv, OneRelistens, Threads
    <3>3. OneRelistens'
      BY <3>1, <3>2 DEF VolumeInv, OneRelistens, Threads
    <3>4. ASSUME owner \in {"listening", "live"} PROVE Listened(t)'
      BY <2>1, <3>2, <3>4, RelistenStep DEF VolumeInv, ListenedByOne, Relistens
    <3>5. QED
      BY <3>1, <3>2, <3>3, <3>4 DEF ListenedByOne
  <2>2. CASE InstallVolume
    BY <2>2 DEF InstallVolume, VolumeInv, VolumeTypeOK, OneRelistens, ListenedByOne, Listened, Go,
                Threads
  <2>3. CASE Follow
    BY <2>3 DEF Follow, VolumeInv, VolumeTypeOK, OneRelistens, ListenedByOne, Listened, Go, Threads
  <2>4. CASE StopVolume \/ StopFollowing \/ Reclaim
    BY <2>4 DEF StopVolume, StopFollowing, Reclaim, VolumeInv, OneRelistens, ListenedByOne
  <2>5. CASE DefaultMoves
    BY <2>5 DEF DefaultMoves, VolumeInv, OneRelistens, ListenedByOne, Listened
  <2>6. CASE DeviceChanged
    BY <2>6 DEF DeviceChanged, VolumeInv, VolumeTypeOK, OneRelistens, ListenedByOne, Listened, Go,
                Threads
  <2>7. CASE UNCHANGED volumeVars
    BY <2>7 DEF volumeVars, VolumeInv, OneRelistens, ListenedByOne, Listened
  <2>8. QED
    BY <2>1, <2>2, <2>3, <2>4, <2>5, <2>6, <2>7 DEF VolumeNext
<1>3. QED
  BY <1>1, <1>2 DEF VolumeInv

\* Nobody listens yet.
LEMMA VolumeStart == VolumeInit => VolumeInv
BY VolumeAssumption
   DEF VolumeInit, VolumeInv, VolumeTypeOK, FoundOne, OneRelistens, ListenedByOne, Listened,
       Possible, Threads

\* What is listened to is the device of the source, when it is live.
LEMMA ListenedSuffices == VolumeInv => ListensToOne
BY DEF VolumeInv, ListenedByOne, Listened, ListensToOne, Threads

\* Whatever the default device does and whenever CoreAudio calls back, a source
\* that is live is heard by the listeners of one device.
THEOREM VolumeListens == VolumeSpec => []ListensToOne
BY ListenedSuffices, VolumeStart, VolumeStep, PTL DEF VolumeSpec

-----------------------------------------------------------------------------
(* Scripts. *)

\* What an item is and stands on, and the permits, as types.
Rows == {Unborn, Gone} \cup {Live(f, u) : f \in Frequencies, u \in BOOLEAN}

Deadline == [armed : {TRUE}, at : Nat, every : Frequencies \ {0}, fired : BOOLEAN]

ScriptTypes ==
  /\ row \in [ScriptItems -> Rows]
  /\ standing \in [ScriptItems -> {NotArmed} \cup Deadline]
  /\ now \in Nat /\ passWanted \in BOOLEAN
  /\ permits \in Nat /\ starting \in Nat /\ running \in Nat /\ waiting \in Nat

\* A deadline fires when it is reached and not before.
FiredWhenDue == \A i \in ScriptItems : standing[i].armed /\ standing[i].fired => Due(i)

ScriptsInv == ScriptTypes /\ FiredWhenDue /\ RoutinesStand

\* The boundary after a moment is a multiple of the frequency, later than the
\* moment by no more than one of it.
LEMMA BoundaryIsNext ==
  ASSUME now \in Nat, NEW every \in Nat \ {0}
  PROVE  /\ NextBoundary(every) \in Nat
         /\ now < NextBoundary(every) /\ NextBoundary(every) <= now + every
         /\ NextBoundary(every) % every = 0
<1>1. PICK q \in Nat, r \in Nat : now = every * q + r /\ r < every /\ now % every = r
  OBVIOUS
<1>2. NextBoundary(every) = every * (q + 1)
  BY <1>1 DEF NextBoundary
<1>3. (every * (q + 1)) % every = 0
  OBVIOUS
<1>4. QED
  BY <1>1, <1>2, <1>3 DEF NextBoundary

\* A pass leaves every item on the deadline it should be on, and none that has
\* fired without being due.
LEMMA SchedulePassStands ==
  ASSUME ScriptsInv, NEW r \in [ScriptItems -> Rows], NEW jobs, SchedulePass(r, jobs)
  PROVE  ScriptsInv'
<1>1. /\ passWanted' = FALSE /\ row' = r /\ now' = now
      /\ standing' = [i \in ScriptItems |-> Rearmed(r, i)]
      /\ UNCHANGED <<permits, starting, running, waiting>>
  BY DEF SchedulePass, runnerVars
<1>2. ASSUME NEW i \in ScriptItems
      PROVE  /\ Rearmed(r, i) \in {NotArmed} \cup Deadline
             /\ Rearmed(r, i).armed <=> Wanting(r, i)
             /\ Rearmed(r, i).armed =>
                  /\ Rearmed(r, i).every = r[i].every
                  /\ Rearmed(r, i).at % r[i].every = 0
                  /\ Rearmed(r, i).at <= now + r[i].every
                  /\ ~Rearmed(r, i).fired
  <2>1. CASE ~Wanting(r, i)
    BY <2>1 DEF Rearmed, NotArmed
  <2>2. CASE Wanting(r, i) /\ (Due(i) \/ Retuned(r, i))
    <3>1. Rearmed(r, i) = Armed(NextBoundary(r[i].every), r[i].every)
      BY <2>2 DEF Rearmed
    <3>2. r[i].every \in Frequencies /\ r[i].every \in Nat \ {0}
      <4>1. r[i] \in Rows /\ r[i].is = "live" /\ r[i].every > 0
        BY <2>2 DEF Wanting, IsLive
      <4>2. PICK f \in Frequencies, u \in BOOLEAN : r[i] = Live(f, u)
        BY <4>1 DEF Rows, Unborn, Gone
      <4>3. r[i].every = f
        BY <4>2 DEF Live
      <4>4. QED
        BY <4>1, <4>3, ScriptsAssumption
    <3>3. /\ NextBoundary(r[i].every) \in Nat
          /\ NextBoundary(r[i].every) <= now + r[i].every
          /\ NextBoundary(r[i].every) % r[i].every = 0
      BY <3>2, BoundaryIsNext DEF ScriptsInv, ScriptTypes
    <3>4. QED
      BY <2>2, <3>1, <3>2, <3>3 DEF Armed, Deadline
  <2>3. CASE Wanting(r, i) /\ ~(Due(i) \/ Retuned(r, i))
    <3>1. Rearmed(r, i) = standing[i]
      BY <2>3 DEF Rearmed
    <3>2. /\ standing[i].armed /\ ~(now >= standing[i].at)
          /\ standing[i].every = r[i].every
      BY <2>3 DEF Due, Retuned
    <3>3. /\ standing[i] \in {NotArmed} \cup Deadline
          /\ standing[i].every = row[i].every
          /\ standing[i].at % row[i].every = 0
          /\ standing[i].at <= now + row[i].every
          /\ standing[i].armed /\ standing[i].fired => Due(i)
      BY <3>2 DEF ScriptsInv, ScriptTypes, FiredWhenDue, RoutinesStand
    <3>4. QED
      BY <2>3, <3>1, <3>2, <3>3 DEF Due
  <2>4. QED
    BY <2>1, <2>2, <2>3
<1>3. \A i \in ScriptItems : standing'[i] = Rearmed(r, i) /\ (Wanting(row, i)' <=> Wanting(r, i))
  BY <1>1 DEF Wanting, IsLive
<1>4. ScriptTypes'
  BY <1>1, <1>2 DEF ScriptsInv, ScriptTypes
<1>5. FiredWhenDue'
  BY <1>2, <1>3 DEF FiredWhenDue
<1>6. RoutinesStand'
  BY <1>1, <1>2, <1>3 DEF ScriptsInv, RoutinesStand
<1>7. QED
  BY <1>4, <1>5, <1>6 DEF ScriptsInv

\* What the workers do leaves the items alone, and hands every permit on.
LEMMA RunnerStands ==
  ASSUME ScriptsInv, Take \/ Acquire \/ StartFails \/ Starts \/ ErrorClosed \/ Reaped
  PROVE  ScriptsInv'
<1>1. UNCHANGED itemVars
  BY DEF Take, Acquire, StartFails, Starts, ErrorClosed, Reaped
<1>2. /\ permits' \in Nat /\ starting' \in Nat /\ running' \in Nat /\ waiting' \in Nat
      /\ permits' + starting' + running' + waiting' = permits + starting + running + waiting
  <2>1. permits \in Nat /\ starting \in Nat /\ running \in Nat /\ waiting \in Nat
    BY DEF ScriptsInv, ScriptTypes
  <2>2. CASE Take
    BY <2>1, <2>2 DEF Take
  <2>3. CASE Acquire
    BY <2>1, <2>3 DEF Acquire
  <2>4. CASE StartFails
    BY <2>1, <2>4 DEF StartFails
  <2>5. CASE Starts
    BY <2>1, <2>5 DEF Starts
  <2>6. CASE ErrorClosed \/ Reaped
    BY <2>1, <2>6 DEF ErrorClosed, Reaped
  <2>7. QED
    BY <2>2, <2>3, <2>4, <2>5, <2>6
<1>3. ScriptTypes'
  BY <1>1, <1>2 DEF ScriptsInv, ScriptTypes, itemVars
<1>4. FiredWhenDue'
  BY <1>1 DEF ScriptsInv, FiredWhenDue, Due, itemVars
<1>5. RoutinesStand'
  BY <1>1, <1>2 DEF ScriptsInv, RoutinesStand, Wanting, IsLive, itemVars
<1>6. QED
  BY <1>3, <1>4, <1>5 DEF ScriptsInv

\* Every step: a second, a deadline reached, a pass, a worker's step.
LEMMA ScriptsStep == ScriptsInv /\ [ScriptsNext]_scriptsVars => ScriptsInv'
<1> SUFFICES ASSUME ScriptsInv, [ScriptsNext]_scriptsVars PROVE ScriptsInv'
  OBVIOUS
<1>1. CASE Second
  <2>1. /\ now' = now + 1 /\ now \in Nat
        /\ UNCHANGED <<row, standing, passWanted, permits, starting, running, waiting>>
    BY <1>1 DEF Second, runnerVars, ScriptsInv, ScriptTypes
  <2>2. ScriptTypes'
    BY <2>1 DEF ScriptsInv, ScriptTypes
  <2>3. ASSUME NEW i \in ScriptItems, standing[i].armed
        PROVE  standing[i] \in Deadline /\ standing[i].at \in Nat /\ standing[i].every \in Nat
    <3>1. standing[i] \in {NotArmed} \cup Deadline
      BY DEF ScriptsInv, ScriptTypes
    <3>2. standing[i] # NotArmed
      BY <2>3 DEF NotArmed
    <3>3. QED
      BY <3>1, <3>2, ScriptsAssumption DEF Deadline
  <2>4. FiredWhenDue'
    BY <2>1, <2>3 DEF ScriptsInv, FiredWhenDue, Due
  <2>5. \A i \in ScriptItems : standing[i].armed => row[i].every \in Nat
    BY <2>3 DEF ScriptsInv, RoutinesStand
  <2>6. RoutinesStand'
    BY <2>1, <2>3, <2>5 DEF ScriptsInv, RoutinesStand, Wanting, IsLive
  <2>7. QED
    BY <2>2, <2>4, <2>6 DEF ScriptsInv
<1>2. ASSUME NEW i \in ScriptItems, Expire(i) PROVE ScriptsInv'
  <2>1. /\ standing[i].armed /\ now >= standing[i].at /\ passWanted' = TRUE
        /\ standing' = [standing EXCEPT ![i].fired = TRUE]
        /\ UNCHANGED <<row, now, permits, starting, running, waiting>>
    BY <1>2 DEF Expire, runnerVars
  <2>2. standing[i] \in Deadline
    BY <2>1 DEF ScriptsInv, ScriptTypes, NotArmed
  <2>3. /\ standing'[i] \in Deadline /\ standing'[i].at = standing[i].at
        /\ standing'[i].every = standing[i].every /\ standing'[i].armed
        /\ \A j \in ScriptItems : j # i => standing'[j] = standing[j]
    BY <2>1, <2>2 DEF ScriptsInv, ScriptTypes, Deadline
  <2>4. standing' \in [ScriptItems -> {NotArmed} \cup Deadline]
    BY <2>1, <2>3 DEF ScriptsInv, ScriptTypes
  <2>5. ScriptTypes'
    BY <2>1, <2>4 DEF ScriptsInv, ScriptTypes
  <2>6. FiredWhenDue'
    BY <2>1, <2>3 DEF ScriptsInv, FiredWhenDue, Due
  <2>7. RoutinesStand'
    BY <2>1, <2>3 DEF ScriptsInv, RoutinesStand, Wanting, IsLive
  <2>8. QED
    BY <2>5, <2>6, <2>7 DEF ScriptsInv
<1>3. ASSUME NEW r \in [ScriptItems -> Rows], NEW jobs, Input(r, jobs) PROVE ScriptsInv'
  BY <1>3, SchedulePassStands DEF Input
<1>4. row \in [ScriptItems -> Rows]
  BY DEF ScriptsInv, ScriptTypes
<1>5. CASE Woken
  BY <1>4, <1>5, SchedulePassStands DEF Woken
<1>6. ASSUME NEW i \in ScriptItems, RemoveRow(i) PROVE ScriptsInv'
  <2>1. [row EXCEPT ![i] = Gone] \in [ScriptItems -> Rows]
    BY <1>4 DEF Rows
  <2>2. QED
    BY <1>3, <1>6, <2>1 DEF RemoveRow
<1>7. ASSUME NEW i \in ScriptItems, NEW every \in Frequencies, AddRow(i, every) PROVE ScriptsInv'
  <2>1. [row EXCEPT ![i] = Live(every, TRUE)] \in [ScriptItems -> Rows]
    <3>1. PICK u \in BOOLEAN : u = TRUE
      OBVIOUS
    <3>2. Live(every, u) \in Rows
      BY DEF Rows
    <3>3. QED
      BY <1>4, <3>1, <3>2
  <2>2. QED
    BY <1>3, <1>7, <2>1 DEF AddRow
<1>8. ASSUME NEW i \in ScriptItems, NEW every \in Frequencies, NEW u \in BOOLEAN,
             SetRow(i, every, u)
      PROVE  ScriptsInv'
  <2>1. [row EXCEPT ![i] = Live(every, u)] \in [ScriptItems -> Rows]
    BY <1>4 DEF Rows
  <2>2. QED
    BY <1>3, <1>8, <2>1 DEF SetRow
<1>9. ASSUME NEW i \in ScriptItems, NEW subscribed \in BOOLEAN, ClickRow(i, subscribed)
      PROVE  ScriptsInv'
  BY <1>3, <1>4, <1>9 DEF ClickRow
<1>10. ASSUME NEW dependents \in SUBSET ScriptItems, Dispatch(dependents) PROVE ScriptsInv'
  BY <1>3, <1>4, <1>10 DEF Dispatch
<1>11. CASE UpdateAll
  BY <1>3, <1>4, <1>11 DEF UpdateAll
<1>12. CASE Take \/ Acquire \/ StartFails \/ Starts \/ ErrorClosed \/ Reaped
  BY <1>12, RunnerStands
<1>13. CASE UNCHANGED scriptsVars
  BY <1>13 DEF scriptsVars, itemVars, runnerVars, ScriptsInv, ScriptTypes, FiredWhenDue, Due,
               RoutinesStand, Wanting, IsLive
<1>14. QED
  BY <1>1, <1>2, <1>5, <1>6, <1>7, <1>8, <1>9, <1>10, <1>11, <1>12, <1>13 DEF ScriptsNext

\* No item was added.
LEMMA ScriptsStart == ScriptsInit => ScriptsInv
<1>1. SUFFICES ASSUME ScriptsInit PROVE ScriptsInv
  OBVIOUS
<1>2. ScriptTypes
  <2>1. Unborn \in Rows
    BY DEF Rows
  <2>2. row \in [ScriptItems -> Rows] /\ standing \in [ScriptItems -> {NotArmed} \cup Deadline]
    BY <1>1, <2>1 DEF ScriptsInit
  <2>3. /\ now \in Nat /\ passWanted \in BOOLEAN
        /\ permits \in Nat /\ starting \in Nat /\ running \in Nat /\ waiting \in Nat
    BY <1>1, ScriptsAssumption DEF ScriptsInit
  <2>4. QED
    BY <2>2, <2>3 DEF ScriptTypes
<1>3. FiredWhenDue
  BY <1>1 DEF ScriptsInit, FiredWhenDue, NotArmed
<1>4. RoutinesStand
  BY <1>1, ScriptsAssumption
     DEF ScriptsInit, RoutinesStand, NotArmed, Wanting, IsLive, Unborn
<1>5. QED
  BY <1>2, <1>3, <1>4 DEF ScriptsInv

\* No item that wants updating is ever without its deadline, nor does one that
\* does not have one, and no script takes its permit away with it.
THEOREM RoutinesAreArmed == ScriptsSpec => []RoutinesStand
<1>1. ScriptsInv => RoutinesStand
  BY DEF ScriptsInv
<1>2. QED
  BY <1>1, ScriptsStart, ScriptsStep, PTL DEF ScriptsSpec

-----------------------------------------------------------------------------
(* What is least, and induction. *)

LEMMA LeastNat == ASSUME NEW T \in SUBSET Nat, T # {} PROVE Min(T) \in T /\ \A y \in T : Min(T) <= y
<1> DEFINE R == {ss \in Nat \X Nat : ss[1] < ss[2]}
<1>1. IsWellFoundedOn(R, Nat)
  BY NatLessThanWellFounded DEF OpToRel
<1>2. \E x \in T : \A y \in T : ~ (<<y, x>> \in R)
  <2> HIDE DEF R
  <2> QED
    BY <1>1, WFMin
<1>3. PICK x \in T : \A y \in T : ~ (<<y, x>> \in R)
  BY <1>2
<1>4. ASSUME NEW y \in T PROVE x <= y
  <2>1. x \in Nat /\ y \in Nat /\ ~ (<<y, x>> \in R)
    BY <1>3
  <2>2. ~(y < x)
    BY <2>1
  <2>3. QED
    BY <2>1, <2>2
<1>5. QED
  BY <1>4 DEF Min

\* Induction: a set that has 0 and with a number the next has them all.
LEMMA AllNat == ASSUME NEW T \in SUBSET Nat, 0 \in T, \A n \in T : n + 1 \in T PROVE T = Nat
<1>1. SUFFICES ASSUME Nat \ T # {} PROVE FALSE
  OBVIOUS
<1>2. PICK x \in Nat \ T : \A y \in Nat \ T : x <= y
  <2>1. Nat \ T \in SUBSET Nat
    OBVIOUS
  <2>2. QED
    BY <1>1, <2>1, LeastNat
<1>3. x # 0 /\ x - 1 \in Nat
  BY <1>2
<1>4. x - 1 \in T
  BY <1>2, <1>3
<1>5. QED
  BY <1>2, <1>3, <1>4

-----------------------------------------------------------------------------
(* Patches. *)

\* What a key is, and what the pairs of a command say of a field.
Pair == [key : WrittenKeys, value : WrittenValues]

LEMMA FieldsAre ==
  /\ \A f \in PatchFields : \/ Len(f) = 1 /\ f = <<f[1]>> /\ f[1] \notin Tables
                            \/ Len(f) = 2 /\ f[1] \in Tables
  /\ Text \in PatchFields /\ Len(Text) = 2 /\ Text[1] = "label"
  /\ DOMAIN ScalarOf = {"label"} /\ ScalarOf["label"] = Text
<1>1. \A f \in PatchFields : \/ Len(f) = 1 /\ f = <<f[1]>> /\ f[1] \notin Tables
                             \/ Len(f) = 2 /\ f[1] \in Tables
  <2>1. \A f \in {Text, Tint, Shown, Back} : Len(f) = 2 /\ f[1] \in Tables
    BY DEF Text, Tint, Shown, Back, Tables
  <2>2. \A f \in {Script, AliasField, Width, Position, Members} : Len(f) = 1 /\ f = <<f[1]>> /\ f[1] \notin Tables
    BY DEF Script, AliasField, Width, Position, Members, Tables
  <2>3. QED
    BY <2>1, <2>2 DEF PatchFields
<1>2. QED
  BY <1>1 DEF PatchFields, Text, ScalarOf

LEMMA KeysAre ==
  ASSUME NEW k \in WrittenKeys
  PROVE  \/ Len(k) = 1 /\ k = <<Head(k)>> /\ Head(k) = k[1] /\ FieldOf(k) = k
         \/ /\ Len(k) = 2 /\ k # <<Head(k)>> /\ Head(k) = k[1]
            /\ FieldOf(k) \in PatchFields => Len(FieldOf(k)) = 2 /\ FieldOf(k)[1] = Head(k)
<1> DEFINE P(x) == \/ Len(x) = 1 /\ x = <<Head(x)>> /\ Head(x) = x[1] /\ FieldOf(x) = x
                   \/ /\ Len(x) = 2 /\ x # <<Head(x)>> /\ Head(x) = x[1]
                      /\ FieldOf(x) \in PatchFields => Len(FieldOf(x)) = 2 /\ FieldOf(x)[1] = Head(x)
<1>1. \A h : P(<<h>>)
  <2> SUFFICES ASSUME NEW h PROVE P(<<h>>)
    OBVIOUS
  <2>1. Len(<<h>>) = 1 /\ Head(<<h>>) = h /\ <<h>>[1] = h /\ <<h>> # <<"label", "string">>
    OBVIOUS
  <2>2. FieldOf(<<h>>) = <<h>>
    BY <2>1 DEF FieldOf
  <2>3. QED
    BY <2>1, <2>2
<1>2. \A h, g : h \in Tables => P(<<h, g>>)
  <2> SUFFICES ASSUME NEW h \in Tables, NEW g PROVE P(<<h, g>>)
    OBVIOUS
  <2>1. Len(<<h, g>>) = 2 /\ Head(<<h, g>>) = h /\ <<h, g>>[1] = h /\ <<h, g>>[2] = g /\ <<h, g>> # <<h>>
    OBVIOUS
  <2>2. \/ FieldOf(<<h, g>>) = Text /\ h = "label"
        \/ FieldOf(<<h, g>>) = <<h, "color">>
        \/ FieldOf(<<h, g>>) = <<h, g>>
    <3>1. CASE <<h, g>> = <<"label", "string">>
      <4>1. h = "label"
        BY <2>1, <3>1
      <4>2. QED
        BY <3>1, <4>1 DEF FieldOf
    <3>2. CASE <<h, g>> # <<"label", "string">> /\ g = "colour"
      BY <2>1, <3>2 DEF FieldOf
    <3>3. CASE <<h, g>> # <<"label", "string">> /\ g # "colour"
      BY <2>1, <3>3 DEF FieldOf
    <3>4. QED
      BY <3>1, <3>2, <3>3
  <2>3. Len(FieldOf(<<h, g>>)) = 2 /\ FieldOf(<<h, g>>)[1] = h
    BY <2>1, <2>2, FieldsAre
  <2>4. QED
    BY <2>1, <2>3
<1>3. P(<<"script", "x">>) /\ P(<<"alias", "color">>)
  <2>1. /\ FieldOf(<<"script", "x">>) = <<"script", "x">> /\ FieldOf(<<"alias", "color">>) = <<"alias", "color">>
        /\ Len(<<"script", "x">>) = 2 /\ Len(<<"alias", "color">>) = 2
    BY DEF FieldOf
  <2>2. QED
    BY <2>1
<1> HIDE DEF P
<1>4. P(k)
  BY <1>1, <1>2, <1>3 DEF WrittenKeys, Tables
<1>5. QED
  BY <1>4 DEF P

SaidOf(f, said) ==
  LET mine == {i \in DOMAIN said : f \in About(said[i])}
      own == {i \in mine : Len(said[i].key) = Len(f)}
  IN {said[i].value : i \in IF own # {} THEN own ELSE mine}
Tabled(f, said) == {i \in DOMAIN said : Len(said[i].key) = 2 /\ FieldOf(said[i].key) = f}

LEMMA PairAt ==
  ASSUME NEW said \in Seq(Pair), NEW i \in DOMAIN said
  PROVE  said[i] \in Pair /\ said[i].key \in WrittenKeys /\ said[i].value \in WrittenValues
<1>1. said[i] \in Pair
  OBVIOUS
<1>2. QED
  BY <1>1 DEF Pair

LEMMA AboutIs ==
  ASSUME NEW p \in Pair, NEW f \in PatchFields
  PROVE  f \in About(p) <=> (IF p.key = <<"label">> THEN f = Text ELSE FieldOf(p.key) = f)
<1>1. {<<h>> : h \in DOMAIN ScalarOf} = {<<"label">>}
  BY FieldsAre
<1>2. p.key = <<"label">> => Head(p.key) = "label"
  OBVIOUS
<1>3. QED
  BY <1>1, <1>2, FieldsAre DEF About

LEMMA LeafSaid ==
  ASSUME NEW said \in Seq(Pair), NEW f \in PatchFields, Len(f) = 1
  PROVE  SaidOf(f, said) = {said[i].value : i \in BareOf(said, f[1])}
<1> DEFINE mine == {i \in DOMAIN said : f \in About(said[i])}
           own == {i \in mine : Len(said[i].key) = Len(f)}
<1>1. f = <<f[1]>> /\ f # <<"label">> /\ f # Text
  BY FieldsAre DEF Tables
<1>2. ASSUME NEW i \in DOMAIN said PROVE f \in About(said[i]) <=> said[i].key = f
  <2>1. said[i] \in Pair /\ said[i].key \in WrittenKeys
    BY PairAt
  <2> DEFINE k == said[i].key
  <2>2. k \in WrittenKeys
    BY <2>1
  <2> HIDE DEF k
  <2>3. \/ Len(k) = 1 /\ FieldOf(k) = k
        \/ Len(k) = 2 /\ (FieldOf(k) \in PatchFields => Len(FieldOf(k)) = 2)
    BY <2>2, KeysAre
  <2>4. FieldOf(k) = f => k = f
    BY <2>3
  <2>5. k = f => FieldOf(k) = f
    BY <2>3
  <2>6. QED
    BY <1>1, <2>1, <2>4, <2>5, AboutIs DEF k
<1>3. mine = BareOf(said, f[1]) /\ own = mine
  BY <1>1, <1>2 DEF BareOf
<1>4. QED
  BY <1>3 DEF SaidOf

LEMMA TableSaid ==
  ASSUME NEW said \in Seq(Pair), NEW f \in PatchFields, Len(f) = 2
  PROVE  SaidOf(f, said) = {said[i].value : i \in IF Tabled(f, said) # {} THEN Tabled(f, said)
                                                  ELSE IF f = Text THEN BareOf(said, "label") ELSE {}}
<1> DEFINE mine == {i \in DOMAIN said : f \in About(said[i])}
           own == {i \in mine : Len(said[i].key) = Len(f)}
<1>1. ASSUME NEW i \in DOMAIN said
      PROVE  /\ f \in About(said[i]) <=> i \in Tabled(f, said) \/ (f = Text /\ i \in BareOf(said, "label"))
             /\ i \in Tabled(f, said) => Len(said[i].key) = 2
             /\ i \in BareOf(said, "label") => Len(said[i].key) = 1
  <2>1. said[i] \in Pair /\ said[i].key \in WrittenKeys
    BY PairAt
  <2>2. i \in BareOf(said, "label") <=> said[i].key = <<"label">>
    BY DEF BareOf
  <2>3. said[i].key = <<"label">> => Len(said[i].key) = 1
    OBVIOUS
  <2>4. FieldOf(said[i].key) = f => Len(said[i].key) = 2
    BY <2>1, KeysAre
  <2>5. QED
    BY <2>1, <2>2, <2>3, <2>4, AboutIs DEF Tabled
<1>2. own = Tabled(f, said)
  BY <1>1 DEF Tabled
<1>3. Tabled(f, said) = {} => mine = IF f = Text THEN BareOf(said, "label") ELSE {}
  BY <1>1 DEF BareOf
<1> HIDE DEF mine
<1>4. SaidOf(f, said) = {said[i].value : i \in IF own # {} THEN own ELSE mine}
  BY DEF SaidOf, mine
<1> HIDE DEF own
<1>5. QED
  BY <1>2, <1>3, <1>4

-----------------------------------------------------------------------------
\* What reading makes of a table, of a group, and of all the groups.
IsTable(table, head, said, m) ==
  table = [n \in 0..m |-> IF n = 0 THEN NoPatch ELSE AbsorbedAt(table[n - 1], n, head, said)]

LEMMA TablesExist == ASSUME NEW head, NEW said, NEW m \in Nat PROVE \E t : IsTable(t, head, said, m)
<1> DEFINE T == {k \in Nat : \E t : IsTable(t, head, said, k)}
<1>1. 0 \in T
  <2> DEFINE t == [n \in 0..0 |-> NoPatch]
  <2>1. t = [n \in 0..0 |-> IF n = 0 THEN NoPatch ELSE AbsorbedAt(t[n - 1], n, head, said)]
    OBVIOUS
  <2>2. QED
    BY <2>1 DEF IsTable
<1>2. ASSUME NEW k \in T PROVE k + 1 \in T
  <2>1. PICK f : IsTable(f, head, said, k)
    OBVIOUS
  <2> DEFINE t == [n \in 0..(k + 1) |-> IF n = k + 1 THEN AbsorbedAt(f[k], k + 1, head, said) ELSE f[n]]
  <2>2. \A n \in 0..k : f[n] = IF n = 0 THEN NoPatch ELSE AbsorbedAt(f[n - 1], n, head, said)
    BY <2>1 DEF IsTable
  <2>3. \A n \in 0..(k + 1) : t[n] = IF n = 0 THEN NoPatch ELSE AbsorbedAt(t[n - 1], n, head, said)
    BY <2>2
  <2>4. t = [n \in 0..(k + 1) |-> IF n = 0 THEN NoPatch ELSE AbsorbedAt(t[n - 1], n, head, said)]
    BY <2>3
  <2> HIDE DEF t
  <2>5. IsTable(t, head, said, k + 1) /\ k + 1 \in Nat
    BY <2>4 DEF IsTable
  <2>6. QED
    BY <2>5
<1>3. T = Nat
  <2> HIDE DEF T
  <2>1. T \in SUBSET Nat
    BY DEF T
  <2>2. QED
    BY <1>1, <1>2, <2>1, AllNat
<1>4. QED
  BY <1>3

LEMMA TableIs ==
  ASSUME NEW said \in Seq(Pair), NEW head \in Tables
  PROVE  /\ DOMAIN TablePatch(head, said) = {f \in PatchFields : f[1] = head /\ Tabled(f, said) # {}}
         /\ \A f \in DOMAIN TablePatch(head, said) :
              TablePatch(head, said)[f] \in {said[i].value : i \in Tabled(f, said)}
<1> DEFINE m == Len(said)
           table[n \in 0..Len(said)] == IF n = 0 THEN NoPatch ELSE AbsorbedAt(table[n - 1], n, head, said)
<1>1. m \in Nat /\ DOMAIN said = 1..m
  OBVIOUS
<1>2. TablePatch(head, said) = table[m]
  BY DEF TablePatch
<1>3. table = [n \in 0..Len(said) |-> IF n = 0 THEN NoPatch ELSE AbsorbedAt(table[n - 1], n, head, said)]
  <2>1. PICK k \in Nat : k = Len(said)
    BY <1>1
  <2>2. PICK t : IsTable(t, head, said, k)
    BY TablesExist
  <2>3. t = [n \in 0..Len(said) |-> IF n = 0 THEN NoPatch ELSE AbsorbedAt(t[n - 1], n, head, said)]
    BY <2>1, <2>2 DEF IsTable
  <2>4. QED
    BY <2>3
<1> HIDE DEF table
<1>4. /\ table[0] = NoPatch
      /\ \A n \in 1..m : table[n] = AbsorbedAt(table[n - 1], n, head, said)
  BY <1>1, <1>3
<1> HIDE DEF m
<1> DEFINE Fine(n) ==
             /\ DOMAIN table[n] = {f \in PatchFields : f[1] = head /\ \E i \in 1..n : i \in Tabled(f, said)}
             /\ \A f \in DOMAIN table[n] : table[n][f] \in {said[i].value : i \in Tabled(f, said)}
           T == {n \in Nat : n <= m => Fine(n)}
<1>5. 0 \in T
  BY <1>4 DEF NoPatch
<1>6. ASSUME NEW n \in T PROVE n + 1 \in T
  <2>1. n \in Nat /\ (n <= m => Fine(n))
    OBVIOUS
  <2>2. ASSUME n + 1 <= m PROVE Fine(n + 1)
    <3> DEFINE k == said[n + 1].key
               f0 == FieldOf(k)
               was == table[n]
               is == table[n + 1]
               first == n + 1 \in Under(said, head) /\ InTable(said[n + 1])
                        /\ ~\E i \in 1..n : said[i].key = k
    <3> HIDE DEF Fine
    <3>1. n + 1 \in 1..m /\ (n + 1) - 1 = n /\ Fine(n) /\ n + 1 \in DOMAIN said
      BY <1>1, <2>1, <2>2
    <3>2. k \in WrittenKeys
      BY <3>1, PairAt
    <3>3. is = IF first THEN Folded(was, Only(f0, said[n + 1].value)) ELSE was
      BY <1>4, <3>1 DEF AbsorbedAt
    <3>4. /\ DOMAIN was = {f \in PatchFields : f[1] = head /\ \E i \in 1..n : i \in Tabled(f, said)}
          /\ \A f \in DOMAIN was : was[f] \in {said[i].value : i \in Tabled(f, said)}
      BY <3>1 DEF Fine
    <3>5. \A i : i \in 1..(n + 1) <=> (i \in 1..n \/ i = n + 1)
      BY <2>1
    <3> HIDE DEF was, is, k
    <3>6. \/ Len(k) = 1
          \/ /\ Len(k) = 2 /\ Head(k) = k[1]
             /\ f0 \in PatchFields => (Len(f0) = 2 /\ f0[1] = Head(k))
      BY <3>2, KeysAre
    <3>7. (n + 1 \in Under(said, head)) <=> (Len(k) = 2 /\ Head(k) = head)
      <4>1. (n + 1 \in Under(said, head)) <=> (Len(k) > 1 /\ Head(k) = head)
        BY <3>1 DEF Under, k
      <4>2. PICK c \in {1, 2} : c = Len(k)
        BY <3>6
      <4>3. (c > 1) <=> (c = 2)
        OBVIOUS
      <4>4. QED
        BY <4>1, <4>2, <4>3, Zenon
    <3>8. \A f : (n + 1 \in Tabled(f, said)) <=> (Len(k) = 2 /\ f0 = f)
      BY <3>1 DEF Tabled, k
    <3>9. InTable(said[n + 1]) <=> f0 \in PatchFields
      BY DEF InTable, k
    <3> HIDE DEF f0
    <3>10. CASE first
      <4>1. Len(k) = 2 /\ f0 \in PatchFields /\ f0[1] = head /\ n + 1 \in Tabled(f0, said)
        <5>1. n + 1 \in Under(said, head) /\ InTable(said[n + 1])
          BY <3>10
        <5>2. Len(k) = 2 /\ Head(k) = head /\ f0 \in PatchFields
          BY <3>7, <3>9, <5>1, Zenon
        <5>3. f0[1] = Head(k)
          BY <3>6, <5>2
        <5>4. QED
          BY <3>8, <5>2, <5>3, Zenon
      <4>2. /\ DOMAIN is = DOMAIN was \cup {f0} /\ is[f0] = said[n + 1].value
            /\ \A f \in DOMAIN was : f # f0 => is[f] = was[f]
        BY <3>3, <3>10 DEF Folded, Only
      <4>3. \A f : n + 1 \in Tabled(f, said) <=> f = f0
        BY <3>8, <4>1
      <4>4. DOMAIN is = {f \in PatchFields : f[1] = head /\ \E i \in 1..(n + 1) : i \in Tabled(f, said)}
        BY <3>4, <3>5, <4>1, <4>2, <4>3
      <4>5. \A f \in DOMAIN is : is[f] \in {said[i].value : i \in Tabled(f, said)}
        BY <3>4, <4>1, <4>2
      <4>6. QED
        BY <4>4, <4>5 DEF Fine, is
    <3>11. CASE ~first
      <4>1. ASSUME NEW f \in PatchFields, f[1] = head, n + 1 \in Tabled(f, said)
            PROVE  \E i \in 1..n : i \in Tabled(f, said)
        <5>1. Len(k) = 2 /\ f0 = f /\ Head(k) = head
          <6>1. Len(k) = 2 /\ f0 = f
            BY <3>8, <4>1, Zenon
          <6>2. f0[1] = Head(k)
            BY <3>6, <6>1, <4>1
          <6>3. QED
            BY <4>1, <6>1, <6>2
        <5>2. PICK i \in 1..n : said[i].key = k
          BY <3>7, <3>9, <3>11, <5>1
        <5>3. i \in DOMAIN said
          BY <1>1, <2>1, <2>2, <5>2
        <5>4. QED
          BY <5>1, <5>2, <5>3 DEF Tabled, f0
      <4>2. DOMAIN is = {f \in PatchFields : f[1] = head /\ \E i \in 1..(n + 1) : i \in Tabled(f, said)}
        BY <3>3, <3>4, <3>5, <3>11, <4>1
      <4>3. \A f \in DOMAIN is : is[f] \in {said[i].value : i \in Tabled(f, said)}
        BY <3>3, <3>4, <3>11
      <4>4. QED
        BY <4>2, <4>3 DEF Fine, is
    <3>12. QED
      BY <3>10, <3>11
  <2> HIDE DEF Fine
  <2>3. QED
    BY <2>1, <2>2
<1> HIDE DEF Fine
<1>7. T = Nat
  <2> HIDE DEF T
  <2>1. T \in SUBSET Nat
    BY DEF T
  <2>2. QED
    BY <1>5, <1>6, <2>1, AllNat
<1>8. Fine(m)
  BY <1>1, <1>7
<1>9. \A f : (\E i \in 1..m : i \in Tabled(f, said)) <=> Tabled(f, said) # {}
  BY <1>1 DEF Tabled
<1>10. QED
  BY <1>2, <1>8, <1>9 DEF Fine

\* A group gives the fields of its head what is said of them.
Gives(after, before, head, said) ==
  /\ DOMAIN after = DOMAIN before \cup {f \in PatchFields : f[1] = head /\ SaidOf(f, said) # {}}
  /\ \A f \in DOMAIN before : after[f] = before[f]
  /\ \A f \in PatchFields : f[1] = head /\ SaidOf(f, said) # {} => after[f] \in SaidOf(f, said)

LEMMA LeastBare ==
  ASSUME NEW said \in Seq(Pair), NEW head, BareOf(said, head) # {}
  PROVE  Min(BareOf(said, head)) \in BareOf(said, head)
<1>1. BareOf(said, head) \in SUBSET Nat
  BY DEF BareOf
<1>2. QED
  BY <1>1, LeastNat

LEMMA GroupGives ==
  ASSUME NEW said \in Seq(Pair), Reads(said), NEW head, NEW sofar,
         \A f \in DOMAIN sofar : f[1] # head
  PROVE  Gives(Grouped(sofar, head, said), sofar, head, said)
<1> DEFINE bare == BareOf(said, head)
           value == said[Min(bare)].value
           named == IF bare = {} THEN sofar ELSE Folded(sofar, BarePatch(head, value))
           table == TablePatch(head, said)
           after == Grouped(sofar, head, said)
<1>1. after = IF ~Claimed(head) THEN sofar ELSE Folded(named, table)
  BY DEF Grouped
<1>2. bare # {} => value \in {said[i].value : i \in bare}
  BY LeastBare
<1> HIDE DEF value, after
<1>3. CASE ~Claimed(head)
  <2>1. \A f \in PatchFields : f[1] # head
    BY <1>3, FieldsAre DEF Claimed
  <2>2. QED
    BY <1>1, <1>3, <2>1 DEF Gives, after
<1>4. CASE Claimed(head) /\ head \notin Tables
  <2> DEFINE f0 == <<head>>
  <2>1. f0 \in PatchFields /\ Len(f0) = 1 /\ f0[1] = head
    BY <1>4 DEF Claimed
  <2>2. \A f \in PatchFields : f[1] = head => f = f0
    BY <1>4, FieldsAre
  <2>3. SaidOf(f0, said) = {said[i].value : i \in bare}
    BY <2>1, LeafSaid
  <2>4. DOMAIN table = {}
    BY <1>4 DEF TablePatch, NoPatch
  <2>5. BarePatch(head, value) = Only(f0, value)
    BY <1>4 DEF BarePatch
  <2> HIDE DEF f0, table, bare
  <2>6. DOMAIN after = DOMAIN named /\ \A f \in DOMAIN named : after[f] = named[f]
    BY <1>1, <1>4, <2>4 DEF Folded
  <2>7. f0 \notin DOMAIN sofar
    BY <2>1
  <2>8. CASE bare = {}
    <3>1. SaidOf(f0, said) = {} /\ named = sofar
      BY <2>3, <2>8
    <3>2. \A f \in PatchFields : f[1] = head => SaidOf(f, said) = {}
      BY <2>2, <3>1
    <3>3. QED
      BY <2>6, <3>1, <3>2 DEF Gives, after
  <2>9. CASE bare # {}
    <3>1. DOMAIN named = DOMAIN sofar \cup {f0} /\ named[f0] = value /\ \A f \in DOMAIN sofar : named[f] = sofar[f]
      BY <2>5, <2>7, <2>9 DEF Folded, Only
    <3>2. SaidOf(f0, said) # {} /\ value \in SaidOf(f0, said)
      BY <1>2, <2>3, <2>9
    <3> HIDE DEF named
    <3>3. {f \in PatchFields : f[1] = head /\ SaidOf(f, said) # {}} = {f0}
      BY <2>1, <2>2, <3>2
    <3>4. QED
      BY <2>2, <2>6, <3>1, <3>2, <3>3 DEF Gives, after
  <2>10. QED
    BY <2>8, <2>9
<1>5. CASE head \in Tables
  <2>1. Claimed(head)
    BY <1>5 DEF Claimed
  <2>2. /\ DOMAIN table = {f \in PatchFields : f[1] = head /\ Tabled(f, said) # {}}
        /\ \A f \in DOMAIN table : table[f] \in {said[i].value : i \in Tabled(f, said)}
    BY <1>5, TableIs
  <2>3. ASSUME NEW f \in PatchFields, f[1] = head
        PROVE  SaidOf(f, said) = {said[i].value : i \in IF Tabled(f, said) # {} THEN Tabled(f, said)
                                                        ELSE IF f = Text THEN BareOf(said, "label") ELSE {}}
    <3>1. Len(f) = 2
      BY <1>5, <2>3, FieldsAre
    <3>2. QED
      BY <3>1, TableSaid
  <2>4. bare # {} => head = "label"
    <3> SUFFICES ASSUME NEW i \in bare PROVE head = "label"
      OBVIOUS
    <3>1. i \in DOMAIN said /\ said[i].key = <<head>>
      BY DEF BareOf
    <3>2. Head(said[i].key) = head /\ Len(said[i].key) = 1
      BY <3>1
    <3>3. BareFits(head, said[i].value)
      BY <2>1, <3>1, <3>2 DEF Reads
    <3>4. QED
      BY <1>5, <3>3, FieldsAre DEF BareFits
  <2>5. bare # {} => BarePatch(head, value) = Only(Text, value)
    BY <1>5, <2>4, FieldsAre DEF BarePatch
  <2>6. Text \in PatchFields /\ Text[1] = "label"
    BY FieldsAre
  <2>7. bare # {} => bare = BareOf(said, "label")
    BY <2>4
  <2>8. head = "label" => bare = BareOf(said, "label")
    OBVIOUS
  <2> HIDE DEF table, bare
  <2>9. /\ DOMAIN named = DOMAIN sofar \cup (IF bare = {} THEN {} ELSE {Text})
        /\ \A f \in DOMAIN sofar : named[f] = sofar[f]
        /\ bare # {} => named[Text] = value
    <3>1. bare # {} => Text \notin DOMAIN sofar
      BY <2>4, <2>6
    <3>2. QED
      BY <2>5, <3>1 DEF Folded, Only
  <2> HIDE DEF named
  <2>10. /\ DOMAIN after = DOMAIN named \cup DOMAIN table
         /\ \A f \in DOMAIN table : after[f] = table[f]
         /\ \A f \in DOMAIN named \ DOMAIN table : after[f] = named[f]
    BY <1>1, <2>1 DEF Folded
  <2>11. ASSUME NEW f \in PatchFields, f[1] = head
         PROVE  /\ (f \in DOMAIN after) <=> (SaidOf(f, said) # {})
                /\ SaidOf(f, said) # {} => after[f] \in SaidOf(f, said)
    <3>1. f \notin DOMAIN sofar
      BY <2>11
    <3>2. CASE Tabled(f, said) # {}
      <4>1. f \in DOMAIN table
        BY <2>2, <2>11, <3>2
      <4>2. SaidOf(f, said) = {said[i].value : i \in Tabled(f, said)}
        BY <2>3, <2>11, <3>2
      <4>3. QED
        BY <2>2, <2>10, <3>2, <4>1, <4>2
    <3>3. CASE Tabled(f, said) = {}
      <4>1. f \notin DOMAIN table
        BY <2>2, <3>3
      <4>2. CASE f = Text
        <5>1. bare = BareOf(said, "label")
          BY <2>6, <2>8, <2>11, <4>2
        <5>2. SaidOf(f, said) = {said[i].value : i \in bare}
          BY <2>3, <2>11, <3>3, <4>2, <5>1
        <5>3. QED
          BY <1>2, <2>9, <2>10, <3>1, <4>1, <4>2, <5>2
      <4>3. CASE f # Text
        <5>1. SaidOf(f, said) = {}
          BY <2>3, <2>11, <3>3, <4>3
        <5>2. QED
          BY <2>9, <2>10, <3>1, <4>1, <4>3, <5>1
      <4>4. QED
        BY <4>2, <4>3
    <3>4. QED
      BY <3>2, <3>3
  <2>12. DOMAIN after = DOMAIN sofar \cup {f \in PatchFields : f[1] = head /\ SaidOf(f, said) # {}}
    <3>1. DOMAIN sofar \subseteq DOMAIN after
      BY <2>9, <2>10
    <3>2. \A f \in DOMAIN after : f \in DOMAIN sofar \/ (f \in PatchFields /\ f[1] = head)
      BY <2>2, <2>4, <2>6, <2>9, <2>10
    <3>3. QED
      BY <2>11, <3>1, <3>2
  <2>13. \A f \in DOMAIN sofar : after[f] = sofar[f]
    <3>1. \A f \in DOMAIN sofar : f \notin DOMAIN table
      BY <2>2
    <3>2. QED
      BY <2>9, <2>10, <3>1
  <2>14. QED
    BY <2>11, <2>12, <2>13 DEF Gives, after
<1>6. QED
  BY <1>3, <1>4, <1>5

IsReading(read, said, m) ==
  read = [n \in 0..m |-> IF n = 0 THEN NoPatch ELSE GroupedAt(read[n - 1], n, said)]

LEMMA ReadingsExist == ASSUME NEW said, NEW m \in Nat PROVE \E r : IsReading(r, said, m)
<1> DEFINE T == {k \in Nat : \E r : IsReading(r, said, k)}
<1>1. 0 \in T
  <2> DEFINE r == [n \in 0..0 |-> NoPatch]
  <2>1. r = [n \in 0..0 |-> IF n = 0 THEN NoPatch ELSE GroupedAt(r[n - 1], n, said)]
    OBVIOUS
  <2>2. QED
    BY <2>1 DEF IsReading
<1>2. ASSUME NEW k \in T PROVE k + 1 \in T
  <2>1. PICK f : IsReading(f, said, k)
    OBVIOUS
  <2> DEFINE r == [n \in 0..(k + 1) |-> IF n = k + 1 THEN GroupedAt(f[k], k + 1, said) ELSE f[n]]
  <2>2. \A n \in 0..k : f[n] = IF n = 0 THEN NoPatch ELSE GroupedAt(f[n - 1], n, said)
    BY <2>1 DEF IsReading
  <2>3. \A n \in 0..(k + 1) : r[n] = IF n = 0 THEN NoPatch ELSE GroupedAt(r[n - 1], n, said)
    BY <2>2
  <2>4. r = [n \in 0..(k + 1) |-> IF n = 0 THEN NoPatch ELSE GroupedAt(r[n - 1], n, said)]
    BY <2>3
  <2> HIDE DEF r
  <2>5. IsReading(r, said, k + 1) /\ k + 1 \in Nat
    BY <2>4 DEF IsReading
  <2>6. QED
    BY <2>5
<1>3. T = Nat
  <2> HIDE DEF T
  <2>1. T \in SUBSET Nat
    BY DEF T
  <2>2. QED
    BY <1>1, <1>2, <2>1, AllNat
<1>4. QED
  BY <1>3

\* Something is said of a field only by pairs with its head.
LEMMA SaidByHead ==
  ASSUME NEW said \in Seq(Pair), NEW f \in PatchFields, SaidOf(f, said) # {}
  PROVE  \E i \in DOMAIN said : Head(said[i].key) = f[1]
<1>1. CASE Len(f) = 1
  <2>1. PICK i \in BareOf(said, f[1]) : TRUE
    BY <1>1, LeafSaid
  <2>2. i \in DOMAIN said /\ said[i].key = <<f[1]>>
    BY <2>1 DEF BareOf
  <2>3. Head(said[i].key) = f[1]
    BY <2>2
  <2>4. QED
    BY <2>2, <2>3
<1>2. CASE Len(f) = 2
  <2>1. Tabled(f, said) # {} \/ (f = Text /\ BareOf(said, "label") # {})
    BY <1>2, TableSaid
  <2>2. CASE Tabled(f, said) # {}
    <3>1. PICK i \in DOMAIN said : Len(said[i].key) = 2 /\ FieldOf(said[i].key) = f
      BY <2>2 DEF Tabled
    <3>2. PICK k \in WrittenKeys : k = said[i].key
      BY <3>1, PairAt
    <3>3. FieldOf(k)[1] = Head(k) /\ FieldOf(k) = f
      BY <3>1, <3>2, KeysAre
    <3>4. QED
      BY <3>1, <3>2, <3>3
  <2>3. CASE f = Text /\ BareOf(said, "label") # {}
    <3>1. PICK i \in DOMAIN said : said[i].key = <<"label">>
      BY <2>3 DEF BareOf
    <3>2. Head(said[i].key) = "label" /\ f[1] = "label"
      BY <2>3, <3>1, FieldsAre
    <3>3. QED
      BY <3>1, <3>2
  <2>4. QED
    BY <2>1, <2>2, <2>3
<1>3. QED
  BY <1>1, <1>2, FieldsAre

\* The patch that is read names what something is said of, and says that.
LEMMA ReadIs ==
  ASSUME NEW said \in Seq(Pair), Reads(said)
  PROVE  /\ DOMAIN Read(said) = {f \in PatchFields : SaidOf(f, said) # {}}
         /\ \A f \in DOMAIN Read(said) : Read(said)[f] \in SaidOf(f, said)
<1> DEFINE m == Len(said)
           read[n \in 0..Len(said)] == IF n = 0 THEN NoPatch ELSE GroupedAt(read[n - 1], n, said)
<1>1. m \in Nat /\ DOMAIN said = 1..m
  OBVIOUS
<1>2. Read(said) = read[m]
  BY DEF Read
<1>3. read = [n \in 0..Len(said) |-> IF n = 0 THEN NoPatch ELSE GroupedAt(read[n - 1], n, said)]
  <2>1. PICK k \in Nat : k = Len(said)
    BY <1>1
  <2>2. PICK r : IsReading(r, said, k)
    BY ReadingsExist
  <2>3. r = [n \in 0..Len(said) |-> IF n = 0 THEN NoPatch ELSE GroupedAt(r[n - 1], n, said)]
    BY <2>1, <2>2 DEF IsReading
  <2>4. QED
    BY <2>3
<1> HIDE DEF read
<1>4. /\ read[0] = NoPatch
      /\ \A n \in 1..m : read[n] = GroupedAt(read[n - 1], n, said)
  BY <1>1, <1>3
<1> HIDE DEF m
<1> DEFINE Fine(n) ==
             /\ DOMAIN read[n] = {f \in PatchFields : /\ SaidOf(f, said) # {}
                                                      /\ \E i \in 1..n : Head(said[i].key) = f[1]}
             /\ \A f \in DOMAIN read[n] : read[n][f] \in SaidOf(f, said)
           T == {n \in Nat : n <= m => Fine(n)}
<1>5. 0 \in T
  BY <1>4 DEF NoPatch
<1>6. ASSUME NEW n \in T PROVE n + 1 \in T
  <2>1. n \in Nat /\ (n <= m => Fine(n))
    OBVIOUS
  <2>2. ASSUME n + 1 <= m PROVE Fine(n + 1)
    <3> DEFINE was == read[n]
               is == read[n + 1]
               head == Head(said[n + 1].key)
    <3> HIDE DEF Fine
    <3>1. n + 1 \in 1..m /\ (n + 1) - 1 = n /\ Fine(n)
      BY <1>1, <2>1, <2>2
    <3>2. is = IF \E i \in 1..n : Head(said[i].key) = head THEN was ELSE Grouped(was, head, said)
      BY <1>4, <3>1 DEF GroupedAt
    <3>3. /\ DOMAIN was = {f \in PatchFields : /\ SaidOf(f, said) # {}
                                               /\ \E i \in 1..n : Head(said[i].key) = f[1]}
          /\ \A f \in DOMAIN was : was[f] \in SaidOf(f, said)
      BY <3>1 DEF Fine
    <3>4. \A f : (\E i \in 1..(n + 1) : Head(said[i].key) = f[1])
                 <=> ((\E i \in 1..n : Head(said[i].key) = f[1]) \/ head = f[1])
      <4>1. 1..(n + 1) = 1..n \cup {n + 1}
        BY <2>1
      <4>2. QED
        BY <4>1
    <3> HIDE DEF was, is, head
    <3>5. CASE \E i \in 1..n : Head(said[i].key) = head
      <4>1. \A f : head = f[1] => \E i \in 1..n : Head(said[i].key) = f[1]
        BY <3>5
      <4>2. is = was
        BY <3>2, <3>5
      <4>3. DOMAIN is = {f \in PatchFields : /\ SaidOf(f, said) # {}
                                             /\ \E i \in 1..(n + 1) : Head(said[i].key) = f[1]}
        BY <3>3, <3>4, <4>1, <4>2
      <4>4. QED
        BY <3>3, <4>2, <4>3 DEF Fine, is
    <3>6. CASE ~\E i \in 1..n : Head(said[i].key) = head
      <4>1. \A f \in DOMAIN was : f[1] # head
        BY <3>3, <3>6
      <4>2. Gives(is, was, head, said)
        BY <3>2, <3>6, <4>1, GroupGives
      <4>3. /\ DOMAIN is = DOMAIN was \cup {f \in PatchFields : f[1] = head /\ SaidOf(f, said) # {}}
            /\ \A f \in DOMAIN was : is[f] = was[f]
            /\ \A f \in PatchFields : f[1] = head /\ SaidOf(f, said) # {} => is[f] \in SaidOf(f, said)
        BY <4>2 DEF Gives
      <4>4. DOMAIN is = {f \in PatchFields : /\ SaidOf(f, said) # {}
                                             /\ \E i \in 1..(n + 1) : Head(said[i].key) = f[1]}
        BY <3>3, <3>4, <4>3
      <4>5. \A f \in DOMAIN is : is[f] \in SaidOf(f, said)
        BY <3>3, <4>3
      <4>6. QED
        BY <4>4, <4>5 DEF Fine, is
    <3>7. QED
      BY <3>5, <3>6
  <2> HIDE DEF Fine
  <2>3. QED
    BY <2>1, <2>2
<1> HIDE DEF Fine
<1>7. T = Nat
  <2> HIDE DEF T
  <2>1. T \in SUBSET Nat
    BY DEF T
  <2>2. QED
    BY <1>5, <1>6, <2>1, AllNat
<1>8. Fine(m)
  BY <1>1, <1>7
<1>9. \A f \in PatchFields : SaidOf(f, said) # {} => \E i \in 1..m : Head(said[i].key) = f[1]
  BY <1>1, SaidByHead
<1>10. QED
  BY <1>2, <1>8, <1>9 DEF Fine

-----------------------------------------------------------------------------
\* A command means what its pairs say.
Means ==
  outcome' = "applied" /\ outcome # "applied" =>
    \A f \in PatchFields :
      IF SaidOf(f, pairs) = {} THEN values'[f] = values[f]
      ELSE \E change \in SaidOf(f, pairs) : values'[f] = Becomes(f, change, values[f])

LEMMA MeansStep == ASSUME pairs \in Seq(Pair), [PatchesNext]_patchesVars PROVE Means
<1>1. CASE ApplyWritten
  <2>1. Reads(pairs) /\ values' = Patched(Read(pairs), values)
    BY <1>1 DEF ApplyWritten
  <2>2. PICK patch : patch = Read(pairs)
    OBVIOUS
  <2>3. /\ DOMAIN patch = {f \in PatchFields : SaidOf(f, pairs) # {}}
        /\ \A f \in DOMAIN patch : patch[f] \in SaidOf(f, pairs)
    BY <2>1, <2>2, ReadIs
  <2>4. ASSUME NEW f \in PatchFields
        PROVE  values'[f] = IF f \in DOMAIN patch THEN Becomes(f, patch[f], values[f]) ELSE values[f]
    BY <2>1, <2>2 DEF Patched, Moved
  <2>5. QED
    BY <2>3, <2>4 DEF Means
<1>2. CASE outcome' # "applied" \/ outcome = "applied"
  BY <1>2 DEF Means
<1>3. QED
  BY <1>1, <1>2 DEF PatchesNext, Write, RefuseWritten, patchesVars

LEMMA MeansIt == Means => (outcome' = "applied" /\ outcome # "applied" =>
       \A f \in PatchFields :
         LET mine == {i \in DOMAIN pairs : f \in About(pairs[i])}
             own == {i \in mine : Len(pairs[i].key) = Len(f)}
             said == {pairs[i].value : i \in IF own # {} THEN own ELSE mine}
         IN IF said = {} THEN values'[f] = values[f]
            ELSE \E change \in said : values'[f] = Becomes(f, change, values[f]))
BY DEF Means, SaidOf

LEMMA PairsStay == pairs \in Seq(Pair) /\ [PatchesNext]_patchesVars => (pairs \in Seq(Pair))'
<1> SUFFICES ASSUME pairs \in Seq(Pair), [PatchesNext]_patchesVars PROVE pairs' \in Seq(Pair)
  OBVIOUS
<1>1. ASSUME NEW k \in WrittenKeys, NEW v \in WrittenValues, Write([key |-> k, value |-> v])
      PROVE  pairs' \in Seq(Pair)
  BY <1>1, AppendProperties DEF Write, Pair
<1>2. CASE ApplyWritten
  BY <1>2 DEF ApplyWritten
<1>3. CASE RefuseWritten
  BY <1>3 DEF RefuseWritten
<1>4. CASE UNCHANGED patchesVars
  BY <1>4 DEF patchesVars
<1>5. QED
  BY <1>1, <1>2, <1>3, <1>4 DEF PatchesNext

\* However a command's pairs are ordered and spelled, what it says of an item is
\* what the item becomes.
THEOREM PairsMean == PatchesSpec => SaysWhatItMeans
<1>1. PatchesInit => pairs \in Seq(Pair)
  BY DEF PatchesInit
<1>2. pairs \in Seq(Pair) /\ [PatchesNext]_patchesVars => Means
  BY MeansStep
<1>3. QED
  BY <1>1, <1>2, PairsStay, MeansIt, PTL DEF PatchesSpec, SaysWhatItMeans

-----------------------------------------------------------------------------
(* CommandLine. *)

\* What a list of sequences is one after the other.
IsFlat(g, seqs, m) == g = [i \in 1..m |-> IF i = 1 THEN seqs[i] ELSE g[i - 1] \o seqs[i]]

LEMMA FlatsExist == ASSUME NEW seqs, NEW m \in Nat PROVE \E g : IsFlat(g, seqs, m)
<1> DEFINE T == {k \in Nat : \E g : IsFlat(g, seqs, k)}
<1>1. 0 \in T
  <2> DEFINE g == [i \in 1..0 |-> seqs[i]]
  <2>1. g = [i \in 1..0 |-> IF i = 1 THEN seqs[i] ELSE g[i - 1] \o seqs[i]]
    OBVIOUS
  <2>2. QED
    BY <2>1 DEF IsFlat
<1>2. ASSUME NEW k \in T PROVE k + 1 \in T
  <2>1. PICK f : IsFlat(f, seqs, k)
    OBVIOUS
  <2> DEFINE g == [i \in 1..(k + 1) |-> IF i # k + 1 THEN f[i]
                                        ELSE IF k = 0 THEN seqs[1] ELSE f[k] \o seqs[k + 1]]
  <2>2. \A i \in 1..k : f[i] = IF i = 1 THEN seqs[i] ELSE f[i - 1] \o seqs[i]
    BY <2>1 DEF IsFlat
  <2>3. \A i \in 1..(k + 1) : g[i] = IF i = 1 THEN seqs[i] ELSE g[i - 1] \o seqs[i]
    BY <2>2
  <2>4. g = [i \in 1..(k + 1) |-> IF i = 1 THEN seqs[i] ELSE g[i - 1] \o seqs[i]]
    BY <2>3
  <2> HIDE DEF g
  <2>5. IsFlat(g, seqs, k + 1)
    BY <2>4, Zenon DEF IsFlat
  <2>6. k + 1 \in Nat
    OBVIOUS
  <2>7. QED
    BY <2>5, <2>6
<1>3. T = Nat
  <2> HIDE DEF T
  <2>1. T \in SUBSET Nat
    BY DEF T
  <2>2. QED
    BY <1>1, <1>2, <2>1, AllNat
<1>4. QED
  BY <1>3

LEMMA FlatIs ==
  ASSUME NEW seqs, NEW m \in Nat, m = Len(seqs)
  PROVE  IF m = 0 THEN FlattenSeq(seqs) = seqs
         ELSE \E g : IsFlat(g, seqs, m) /\ FlattenSeq(seqs) = g[m]
<1> DEFINE flatten[i \in 1..Len(seqs)] == IF i = 1 THEN seqs[i] ELSE flatten[i - 1] \o seqs[i]
<1>1. FlattenSeq(seqs) = IF m = 0 THEN seqs ELSE flatten[m]
  BY DEF FlattenSeq
<1>2. flatten = [i \in 1..Len(seqs) |-> IF i = 1 THEN seqs[i] ELSE flatten[i - 1] \o seqs[i]]
  <2>1. PICK g : IsFlat(g, seqs, m)
    BY FlatsExist
  <2>2. g = [i \in 1..Len(seqs) |-> IF i = 1 THEN seqs[i] ELSE g[i - 1] \o seqs[i]]
    BY <2>1 DEF IsFlat
  <2>3. QED
    BY <2>2
<1> HIDE DEF flatten
<1>3. IsFlat(flatten, seqs, m)
  BY <1>2 DEF IsFlat
<1>4. QED
  BY <1>1, <1>3

OneMore(longer, seqs, m, x) ==
  /\ Len(seqs) = m /\ Len(longer) = m + 1 /\ longer[m + 1] = x
  /\ \A i \in 1..m : longer[i] = seqs[i]
  /\ m = 0 => seqs = <<>>

LEMMA FlatAppend ==
  ASSUME NEW S, NEW seqs, NEW longer, NEW m \in Nat, NEW x \in Seq(S), OneMore(longer, seqs, m, x)
  PROVE  FlattenSeq(longer) = FlattenSeq(seqs) \o x
<1> USE DEF OneMore
<1>1. PICK h : IsFlat(h, longer, m + 1) /\ FlattenSeq(longer) = h[m + 1]
  BY FlatIs
<1>2. \A i \in 1..(m + 1) : h[i] = IF i = 1 THEN longer[i] ELSE h[i - 1] \o longer[i]
  BY <1>1 DEF IsFlat
<1>3. CASE m = 0
  <2>1. FlattenSeq(seqs) = <<>>
    BY <1>3, FlatIs
  <2>2. h[m + 1] = longer[m + 1]
    BY <1>2, <1>3
  <2>3. QED
    BY <1>1, <2>1, <2>2
<1>4. CASE m # 0
  <2>1. PICK g : IsFlat(g, seqs, m) /\ FlattenSeq(seqs) = g[m]
    BY <1>4, FlatIs
  <2>2. \A i \in 1..m : g[i] = IF i = 1 THEN seqs[i] ELSE g[i - 1] \o seqs[i]
    BY <2>1 DEF IsFlat
  <2> DEFINE T == {k \in Nat : k \in 1..m => g[k] = h[k]}
  <2>3. 0 \in T
    OBVIOUS
  <2>4. ASSUME NEW k \in T PROVE k + 1 \in T
    <3>1. k \in Nat /\ (k \in 1..m => g[k] = h[k])
      OBVIOUS
    <3>2. ASSUME k + 1 \in 1..m PROVE g[k + 1] = h[k + 1]
      <4>1. k + 1 \in 1..(m + 1) /\ (k + 1) - 1 = k /\ longer[k + 1] = seqs[k + 1]
        BY <3>1, <3>2
      <4>2. CASE k = 0
        BY <1>2, <2>2, <3>2, <4>1, <4>2
      <4>3. CASE k # 0
        <5>1. k \in 1..m /\ k + 1 # 1
          BY <3>1, <3>2, <4>3
        <5>2. QED
          BY <1>2, <2>2, <3>1, <3>2, <4>1, <5>1
      <4>4. QED
        BY <4>2, <4>3
    <3>3. QED
      BY <3>1, <3>2
  <2>5. T = Nat
    <3> HIDE DEF T
    <3>1. T \in SUBSET Nat
      BY DEF T
    <3>2. QED
      BY <2>3, <2>4, <3>1, AllNat
  <2>6. g[m] = h[m]
    BY <1>4, <2>5
  <2>7. h[m + 1] = h[m] \o longer[m + 1]
    <3>1. m + 1 \in 1..(m + 1) /\ m + 1 # 1 /\ (m + 1) - 1 = m
      BY <1>4
    <3>2. QED
      BY <1>2, <3>1
  <2>8. QED
    BY <1>1, <2>1, <2>6, <2>7
<1>5. QED
  BY <1>3, <1>4

-----------------------------------------------------------------------------
\* What has been read is in the requests and in the command being read.
Request == [command : Commands, args : Seq(Arguments), tail : Seq(Arguments)]
AllTokens(list) == FlattenSeq([i \in DOMAIN list |-> TokensOf(list[i])])
Half == IF current = NoCommand THEN <<>> ELSE TokensOf(current)

CommandInv ==
  /\ argv \in Seq(Arguments) /\ requests \in Seq(Request) /\ AllTokens(requests) \in Seq(Arguments)
  /\ current = NoCommand \/ current \in Request
  /\ current.tail # <<>> => Complete
  /\ IsFiniteSet(Flags(argv))
  /\ stage = "reading" => /\ argv = AllTokens(requests) \o Half
                          /\ Cardinality(Flags(argv)) = Len(requests) + IF current = NoCommand THEN 0 ELSE 1
  /\ stage \in {"sending", "failed", "succeeded"} =>
       argv = AllTokens(requests) /\ Cardinality(Flags(argv)) = Len(requests)
  /\ stage \in {"reading", "refused"} => asked = 0 /\ ~failed
  /\ (stage = "succeeded" \/ (failed /\ stage = "failed")) => asked = Len(requests)
  /\ CommandTypeOK

LEMMA ArgumentsAre ==
  ASSUME NEW t \in Arguments
  PROVE  /\ t.form = "flag" /\ LooksLikeADomain(t) => t.text \in Commands /\ t = FlagArg(t.text)
         /\ t.form # "flag" => ~LooksLikeADomain(t)
<1>1. CASE t \in {Word(w) : w \in {"a", "/a/", "\n", "7", "left", "before", "item", "bracket", "event", "wake"}}
  BY <1>1 DEF Word, LooksLikeADomain, Domains
<1>2. CASE t \in {FlagArg(f) : f \in Commands \cup {"--hover"}}
  <2>1. PICK f \in Commands \cup {"--hover"} : t = FlagArg(f)
    BY <1>2
  <2>2. "--hover" \notin Domains
    BY DEF Domains
  <2>3. QED
    BY <2>1, <2>2 DEF FlagArg, LooksLikeADomain
<1>3. CASE t \in {PairOf(<<"label">>, "x"), PairOf(<<"label">>, "y"), PairOf(<<"background">>, "x")}
  BY <1>3 DEF PairOf, LooksLikeADomain, Domains
<1>4. QED
  BY <1>1, <1>2, <1>3 DEF Arguments

LEMMA TokensAre ==
  ASSUME NEW c \in Request
  PROVE  /\ TokensOf(c) \in Seq(Arguments) /\ FlagArg(c.command) \in Arguments
         /\ c # NoCommand /\ c.command \in Commands /\ c.args \in Seq(Arguments) /\ c.tail \in Seq(Arguments)
<1>1. c.command \in Commands /\ c.args \in Seq(Arguments) /\ c.tail \in Seq(Arguments)
  BY DEF Request
<1>2. FlagArg(c.command) \in Arguments
  BY <1>1 DEF Arguments
<1>3. "" \notin Commands
  BY CommandAssumption DEF Domains
<1>4. TokensOf(c) \in Seq(Arguments)
  BY <1>1, <1>2, ConcatProperties DEF TokensOf
<1>5. c # NoCommand
  <2>1. NoCommand.command = ""
    BY DEF NoCommand
  <2>2. QED
    BY <1>1, <1>3, <2>1
<1>6. QED
  BY <1>1, <1>2, <1>4, <1>5

LEMMA TokensAppend ==
  ASSUME NEW list \in Seq(Request), NEW c \in Request
  PROVE  AllTokens(Append(list, c)) = AllTokens(list) \o TokensOf(c)
<1> DEFINE seqs == [i \in DOMAIN list |-> TokensOf(list[i])]
           longer == [i \in DOMAIN Append(list, c) |-> TokensOf(Append(list, c)[i])]
<1>1. PICK m \in Nat : m = Len(list)
  OBVIOUS
<1>2. DOMAIN list = 1..m /\ DOMAIN Append(list, c) = 1..(m + 1)
  BY <1>1
<1>3. Append(list, c)[m + 1] = c /\ \A i \in 1..m : Append(list, c)[i] = list[i]
  BY <1>1
<1>4. longer[m + 1] = TokensOf(c) /\ \A i \in 1..m : longer[i] = seqs[i]
  BY <1>2, <1>3
<1>5. seqs \in Seq(Seq(Arguments)) /\ longer \in Seq(Seq(Arguments)) /\ Len(seqs) = m /\ Len(longer) = m + 1
  <2>1. \A i \in 1..m : list[i] \in Request
    BY <1>1
  <2>2. \A i \in 1..m : seqs[i] \in Seq(Arguments)
    BY <1>2, <2>1, TokensAre
  <2>3. \A i \in 1..(m + 1) : longer[i] \in Seq(Arguments)
    <3>1. \A i \in 1..(m + 1) : i \in 1..m \/ i = m + 1
      OBVIOUS
    <3>2. longer[m + 1] \in Seq(Arguments)
      BY <1>4, TokensAre
    <3>3. QED
      BY <1>4, <2>2, <3>1, <3>2
  <2>4. seqs \in [1..m -> Seq(Arguments)] /\ longer \in [1..(m + 1) -> Seq(Arguments)]
    BY <1>2, <2>2, <2>3
  <2> HIDE DEF seqs, longer
  <2>5. QED
    BY <2>4, SeqDef
<1>6. m = 0 => seqs = <<>>
  <2> HIDE DEF seqs
  <2>1. QED
    BY <1>5
<1>7. longer[m + 1] \in Seq(Arguments)
  BY <1>4, TokensAre
<1>8. AllTokens(list) = FlattenSeq(seqs) /\ AllTokens(Append(list, c)) = FlattenSeq(longer)
  BY DEF AllTokens
<1> HIDE DEF seqs, longer
<1>9. FlattenSeq(longer) = FlattenSeq(seqs) \o longer[m + 1]
  <2>1. Len(seqs) = m /\ Len(longer) = m + 1
    BY <1>5
  <2>2. \A i \in 1..m : longer[i] = seqs[i]
    BY <1>4
  <2>3. OneMore(longer, seqs, m, TokensOf(c)) /\ TokensOf(c) \in Seq(Arguments)
    BY <1>4, <1>6, <1>7, <2>1, <2>2 DEF OneMore
  <2>4. QED
    BY <1>4, <2>3, FlatAppend
<1>10. QED
  BY <1>4, <1>8, <1>9

\* One argument more is one flag more, or none.
LEMMA FlagsAppend ==
  ASSUME NEW list \in Seq(Arguments), NEW t \in Arguments, IsFiniteSet(Flags(list))
  PROVE  /\ IsFiniteSet(Flags(Append(list, t)))
         /\ Cardinality(Flags(Append(list, t))) = Cardinality(Flags(list)) + IF LooksLikeADomain(t) THEN 1 ELSE 0
         /\ Cardinality(Flags(list)) \in Nat
<1>1. PICK m \in Nat : m = Len(list)
  OBVIOUS
<1>2. DOMAIN list = 1..m /\ DOMAIN Append(list, t) = 1..(m + 1)
  BY <1>1
<1>3. Append(list, t)[m + 1] = t /\ \A i \in 1..m : Append(list, t)[i] = list[i]
  BY <1>1
<1>4. Flags(Append(list, t)) = Flags(list) \cup (IF LooksLikeADomain(t) THEN {m + 1} ELSE {})
  BY <1>2, <1>3 DEF Flags
<1>5. m + 1 \notin Flags(list)
  BY <1>2 DEF Flags
<1>6. Cardinality(Flags(list)) \in Nat
  BY FS_CardinalityType
<1>7. CASE LooksLikeADomain(t)
  <2>1. Flags(Append(list, t)) = Flags(list) \cup {m + 1}
    BY <1>4, <1>7
  <2>2. IsFiniteSet(Flags(list) \cup {m + 1}) /\ Cardinality(Flags(list) \cup {m + 1}) = Cardinality(Flags(list)) + 1
    BY <1>5, FS_AddElement
  <2>3. QED
    BY <1>6, <1>7, <2>1, <2>2
<1>8. CASE ~LooksLikeADomain(t)
  <2>1. Flags(Append(list, t)) = Flags(list)
    BY <1>4, <1>8
  <2>2. QED
    BY <1>6, <1>8, <2>1
<1>9. QED
  BY <1>7, <1>8

LEMMA NoTokens == AllTokens(<<>>) = <<>> /\ Flags(<<>>) = {} /\ IsFiniteSet(Flags(<<>>)) /\ Cardinality(Flags(<<>>)) = 0
<1>1. [i \in DOMAIN <<>> |-> TokensOf(<<>>[i])] = <<>>
  OBVIOUS
<1>2. FlattenSeq(<<>>) = <<>>
  BY FlatIs
<1>3. AllTokens(<<>>) = <<>>
  BY <1>1, <1>2 DEF AllTokens
<1>4. Flags(<<>>) = {}
  BY DEF Flags
<1>5. QED
  BY <1>3, <1>4, FS_EmptySet

LEMMA CommandsBegin == CommandInit => CommandInv
<1> SUFFICES ASSUME CommandInit PROVE CommandInv
  OBVIOUS
<1>1. /\ argv = <<>> /\ current = NoCommand /\ requests = <<>> /\ stage = "reading"
      /\ asked = 0 /\ failed = FALSE
  BY DEF CommandInit
<1>2. argv \in Seq(Arguments) /\ requests \in Seq(Request) /\ Len(argv) = 0 /\ Len(requests) = 0
  BY <1>1
<1>3. CommandTypeOK
  <2>1. 0 <= MaxTokens /\ 0 \in 0..0
    BY CommandAssumption
  <2>2. asked \in 0..Len(requests)
    BY <1>1, <1>2, <2>1
  <2>3. QED
    BY <1>1, <1>2, <2>1, <2>2 DEF CommandTypeOK
<1>4. AllTokens(requests) = <<>> /\ IsFiniteSet(Flags(argv)) /\ Cardinality(Flags(argv)) = 0
  BY <1>1, NoTokens
<1>5. Half = <<>> /\ current.tail = <<>>
  BY <1>1 DEF Half, NoCommand
<1>6. argv = AllTokens(requests) \o Half
  BY <1>1, <1>4, <1>5
<1>7. AllTokens(requests) \in Seq(Arguments) /\ Cardinality(Flags(argv)) = Len(requests) + 0
  BY <1>2, <1>4
<1>8. QED
  BY <1>1, <1>2, <1>3, <1>4, <1>5, <1>6, <1>7 DEF CommandInv

\* The requests with the command that was being read.
LEMMA ParsedIs ==
  ASSUME requests \in Seq(Request), current = NoCommand \/ current \in Request,
         AllTokens(requests) \in Seq(Arguments)
  PROVE  /\ Parsed \in Seq(Request) /\ AllTokens(Parsed) = AllTokens(requests) \o Half
         /\ AllTokens(Parsed) \in Seq(Arguments)
         /\ Len(Parsed) = Len(requests) + IF current = NoCommand THEN 0 ELSE 1
<1>1. CASE current = NoCommand
  <2>1. Parsed = requests /\ Half = <<>>
    BY <1>1 DEF Parsed, Half
  <2>2. AllTokens(requests) \o <<>> = AllTokens(requests)
    BY ConcatEmptySeq
  <2>3. Len(requests) \in Nat
    OBVIOUS
  <2>4. QED
    BY <1>1, <2>1, <2>2, <2>3
<1>2. CASE current # NoCommand
  <2>1. Parsed = Append(requests, current) /\ Half = TokensOf(current) /\ current \in Request
    BY <1>2 DEF Parsed, Half
  <2>2. AllTokens(Parsed) = AllTokens(requests) \o Half
    BY <2>1, TokensAppend
  <2>3. TokensOf(current) \in Seq(Arguments)
    BY <2>1, TokensAre
  <2>4. AllTokens(Parsed) \in Seq(Arguments)
    BY <2>1, <2>2, <2>3, ConcatProperties
  <2>5. Parsed \in Seq(Request) /\ Len(Parsed) = Len(requests) + 1
    BY <2>1, AppendProperties
  <2>6. QED
    BY <1>2, <2>2, <2>4, <2>5
<1>3. QED
  BY <1>1, <1>2

\* A refused line leaves nothing.
LEMMA RefusedIsWhole ==
  ASSUME CommandInv, stage = "reading", Refuse, UNCHANGED sendVars
  PROVE  CommandInv'
<1>1. argv' = <<>> /\ current' = NoCommand /\ requests' = <<>> /\ stage' = "refused"
  BY DEF Refuse
<1>2. asked' = 0 /\ ~failed' /\ failed' \in BOOLEAN
  BY DEF CommandInv, CommandTypeOK, sendVars
<1>3. argv' \in Seq(Arguments) /\ requests' \in Seq(Request) /\ Len(argv') = 0 /\ Len(requests') = 0
  BY <1>1
<1>4. CommandTypeOK'
  BY <1>1, <1>2, <1>3, CommandAssumption DEF CommandTypeOK
<1>5. AllTokens(requests') = <<>> /\ IsFiniteSet(Flags(argv'))
  BY <1>1, NoTokens
<1>6. current'.tail = <<>>
  BY <1>1 DEF NoCommand
<1>7. QED
  BY <1>1, <1>2, <1>3, <1>4, <1>5, <1>6 DEF CommandInv

\* One argument more for the command being read.
LEMMA OneToken ==
  ASSUME CommandInv, Reading, current \in Request, NEW t \in Arguments, NEW c \in Request,
         ~LooksLikeADomain(t), TokensOf(c) = Append(TokensOf(current), t), c.tail # <<>> => Complete',
         TakeArgument(t), current' = c, UNCHANGED <<requests, stage>>
  PROVE  CommandInv'
<1>1. /\ argv \in Seq(Arguments) /\ requests \in Seq(Request) /\ AllTokens(requests) \in Seq(Arguments)
      /\ IsFiniteSet(Flags(argv)) /\ argv = AllTokens(requests) \o Half
      /\ Cardinality(Flags(argv)) = Len(requests) + IF current = NoCommand THEN 0 ELSE 1
      /\ stage = "reading" /\ asked = 0 /\ ~failed /\ failed \in BOOLEAN
  BY DEF CommandInv, Reading, CommandTypeOK
<1>2. /\ argv' = Append(argv, t) /\ requests' = requests /\ stage' = "reading" /\ asked' = 0 /\ ~failed'
      /\ failed' \in BOOLEAN
  BY <1>1 DEF Reading, TakeArgument, sendVars
<1>3. argv' \in Seq(Arguments) /\ Len(argv') = Len(argv) + 1
  BY <1>1, <1>2, AppendProperties
<1>4. Len(argv') <= MaxTokens
  BY <1>1, <1>3, CommandAssumption DEF Reading
<1>5. CommandTypeOK'
  BY <1>1, <1>2, <1>3, <1>4 DEF CommandTypeOK
<1>6. current # NoCommand /\ current' # NoCommand
  BY TokensAre
<1>7. Half = TokensOf(current) /\ Half' = TokensOf(c) /\ TokensOf(current) \in Seq(Arguments)
  BY <1>6, TokensAre DEF Half
<1>8. argv' = AllTokens(requests) \o Half'
  <2>1. ASSUME NEW a \in Seq(Arguments), NEW b \in Seq(Arguments) PROVE Append(a \o b, t) = a \o Append(b, t)
    OBVIOUS
  <2>2. QED
    BY <1>1, <1>2, <1>7, <2>1
<1>9. IsFiniteSet(Flags(argv')) /\ Cardinality(Flags(argv')) = Cardinality(Flags(argv))
  <2>1. /\ IsFiniteSet(Flags(Append(argv, t))) /\ Cardinality(Flags(argv)) \in Nat
        /\ Cardinality(Flags(Append(argv, t))) = Cardinality(Flags(argv)) + 0
    BY <1>1, FlagsAppend
  <2>2. QED
    BY <1>2, <2>1
<1>10. current'.tail # <<>> => Complete'
  OBVIOUS
<1>11. QED
  BY <1>1, <1>2, <1>3, <1>5, <1>6, <1>8, <1>9, <1>10 DEF CommandInv

LEMMA RequiredIsWhole == ASSUME CommandInv, NEW t \in Arguments, Required(t) PROVE CommandInv'
<1>1. Reading /\ ~Complete /\ stage = "reading" /\ UNCHANGED sendVars
  BY DEF Required, Reading
<1>2. CASE Refuse
  BY <1>1, <1>2, RefusedIsWhole
<1>3. CASE /\ TakesRequired(t) /\ TakeArgument(t)
           /\ current' = [current EXCEPT !.args = Append(@, t)] /\ UNCHANGED <<requests, stage>>
  <2>1. current \in Request /\ current.tail = <<>>
    BY <1>1 DEF CommandInv, Complete
  <2>2. current.args \in Seq(Arguments) /\ FlagArg(current.command) \in Arguments
    BY <2>1, TokensAre
  <2>3. PICK c : c = [current EXCEPT !.args = Append(@, t)]
    OBVIOUS
  <2>4. c \in Request /\ c.args = Append(current.args, t) /\ c.command = current.command /\ c.tail = <<>>
    BY <2>1, <2>2, <2>3, AppendProperties DEF Request
  <2>5. TokensOf(c) = Append(TokensOf(current), t)
    <3>1. ASSUME NEW f \in Arguments, NEW a \in Seq(Arguments)
          PROVE  <<f>> \o Append(a, t) \o <<>> = Append(<<f>> \o a \o <<>>, t)
      OBVIOUS
    <3>2. QED
      BY <2>1, <2>2, <2>4, <3>1 DEF TokensOf
  <2>6. ~LooksLikeADomain(t) /\ current' = c
    BY <1>3, <2>3 DEF TakesRequired
  <2>7. QED
    BY <1>1, <1>3, <2>1, <2>4, <2>5, <2>6, OneToken
<1>4. QED
  BY <1>2, <1>3 DEF Required

LEMMA GreedyIsWhole == ASSUME CommandInv, NEW t \in Arguments, Greedy(t) PROVE CommandInv'
<1>1. Reading /\ Complete /\ t.form # "flag" /\ stage = "reading" /\ UNCHANGED sendVars
  BY DEF Greedy, Reading
<1>2. CASE Refuse
  BY <1>1, <1>2, RefusedIsWhole
<1>3. CASE /\ TakesGreedily(current, t) /\ TakeArgument(t)
           /\ current' = [current EXCEPT !.tail = Append(@, t)] /\ UNCHANGED <<requests, stage>>
  <2>1. current # NoCommand
    <3>1. NoCommand.command = ""
      BY DEF NoCommand
    <3>2. ~TakesGreedily(NoCommand, t)
      BY <3>1 DEF TakesGreedily
    <3>3. QED
      BY <1>3, <3>2
  <2>2. current \in Request
    BY <2>1 DEF CommandInv
  <2>3. current.args \in Seq(Arguments) /\ current.tail \in Seq(Arguments) /\ FlagArg(current.command) \in Arguments
    BY <2>2, TokensAre
  <2>4. PICK c : c = [current EXCEPT !.tail = Append(@, t)]
    OBVIOUS
  <2>5. c \in Request /\ c.args = current.args /\ c.command = current.command /\ c.tail = Append(current.tail, t)
    BY <2>2, <2>4 DEF Request
  <2>6. TokensOf(c) = Append(TokensOf(current), t)
    <3>1. ASSUME NEW f \in Arguments, NEW a \in Seq(Arguments), NEW b \in Seq(Arguments)
          PROVE  <<f>> \o a \o Append(b, t) = Append(<<f>> \o a \o b, t)
      OBVIOUS
    <3>2. QED
      BY <2>3, <2>5, <3>1 DEF TokensOf
  <2>7. ~LooksLikeADomain(t) /\ current' = c
    BY <1>1, <1>3, <2>4, ArgumentsAre
  <2>8. Complete'
    <3>1. Len(c.args) = Len(SlotsOf(c.command, c.args))
      BY <1>1, <2>1, <2>5 DEF Complete
    <3>2. QED
      BY <2>7, <3>1 DEF Complete
  <2>9. QED
    BY <1>1, <1>3, <2>2, <2>5, <2>6, <2>7, <2>8, OneToken
<1>4. QED
  BY <1>2, <1>3 DEF Greedy

LEMMA NextIsWhole == ASSUME CommandInv, NEW t \in Arguments, NextCommand(t) PROVE CommandInv'
<1>1. Reading /\ t.form = "flag" /\ stage = "reading" /\ UNCHANGED sendVars
  BY DEF NextCommand, Reading
<1>2. CASE Refuse
  BY <1>1, <1>2, RefusedIsWhole
<1>3. CASE /\ LooksLikeADomain(t) /\ TakeArgument(t) /\ requests' = Parsed
           /\ current' = [command |-> t.text, args |-> <<>>, tail |-> <<>>] /\ UNCHANGED stage
  <2>1. /\ argv \in Seq(Arguments) /\ requests \in Seq(Request) /\ AllTokens(requests) \in Seq(Arguments)
        /\ IsFiniteSet(Flags(argv)) /\ argv = AllTokens(requests) \o Half
        /\ Cardinality(Flags(argv)) = Len(requests) + IF current = NoCommand THEN 0 ELSE 1
        /\ current = NoCommand \/ current \in Request
        /\ stage = "reading" /\ asked = 0 /\ ~failed /\ failed \in BOOLEAN
    BY <1>1 DEF CommandInv, CommandTypeOK
  <2>2. argv' = Append(argv, t) /\ stage' = "reading" /\ asked' = 0 /\ ~failed' /\ failed' \in BOOLEAN
    BY <1>1, <1>3, <2>1 DEF TakeArgument, sendVars
  <2>3. /\ requests' \in Seq(Request) /\ AllTokens(requests') = argv /\ AllTokens(requests') \in Seq(Arguments)
        /\ Cardinality(Flags(argv)) = Len(requests')
    BY <1>3, <2>1, ParsedIs
  <2>4. argv' \in Seq(Arguments) /\ Len(argv') = Len(argv) + 1
    BY <2>1, <2>2, AppendProperties
  <2>5. Len(argv') <= MaxTokens
    BY <1>1, <2>1, <2>4, CommandAssumption DEF Reading
  <2>6. CommandTypeOK'
    BY <2>2, <2>3, <2>4, <2>5 DEF CommandTypeOK
  <2>7. t.text \in Commands /\ t = FlagArg(t.text)
    BY <1>1, <1>3, ArgumentsAre
  <2>8. current' \in Request /\ current'.command = t.text /\ current'.args = <<>> /\ current'.tail = <<>>
    BY <1>3, <2>7 DEF Request
  <2>9. current' # NoCommand
    BY <2>8, TokensAre
  <2>10. Half' = <<t>>
    <3>1. TokensOf(current') = <<t>> \o <<>> \o <<>>
      BY <2>7, <2>8 DEF TokensOf
    <3>2. <<t>> \o <<>> \o <<>> = <<t>>
      OBVIOUS
    <3>3. QED
      BY <2>9, <3>1, <3>2 DEF Half
  <2>11. argv' = AllTokens(requests') \o Half'
    <3>1. Append(argv, t) = argv \o <<t>>
      BY <2>1
    <3>2. QED
      BY <2>2, <2>3, <2>10, <3>1
  <2>12. IsFiniteSet(Flags(argv')) /\ Cardinality(Flags(argv')) = Len(requests') + 1
    BY <1>3, <2>1, <2>2, <2>3, FlagsAppend
  <2>13. QED
    BY <2>2, <2>3, <2>4, <2>6, <2>8, <2>9, <2>11, <2>12 DEF CommandInv
<1>4. QED
  BY <1>2, <1>3 DEF NextCommand

LEMMA EndIsWhole == ASSUME CommandInv, NEW connected \in BOOLEAN, EndOfArguments(connected) PROVE CommandInv'
<1>1. stage = "reading" /\ UNCHANGED sendVars
  BY DEF EndOfArguments
<1>2. CASE Refuse
  BY <1>1, <1>2, RefusedIsWhole
<1>3. CASE /\ requests' = Parsed /\ current' = NoCommand /\ UNCHANGED argv
           /\ stage' = IF connected THEN "sending" ELSE "failed"
  <2>1. /\ argv \in Seq(Arguments) /\ requests \in Seq(Request) /\ AllTokens(requests) \in Seq(Arguments)
        /\ IsFiniteSet(Flags(argv)) /\ argv = AllTokens(requests) \o Half /\ Len(argv) <= MaxTokens
        /\ Cardinality(Flags(argv)) = Len(requests) + IF current = NoCommand THEN 0 ELSE 1
        /\ current = NoCommand \/ current \in Request
        /\ asked = 0 /\ ~failed /\ failed \in BOOLEAN
    BY <1>1 DEF CommandInv, CommandTypeOK
  <2>2. argv' = argv /\ asked' = 0 /\ ~failed' /\ failed' \in BOOLEAN /\ stage' \in {"sending", "failed"}
    BY <1>1, <1>3, <2>1 DEF sendVars
  <2>3. /\ requests' \in Seq(Request) /\ AllTokens(requests') = argv /\ AllTokens(requests') \in Seq(Arguments)
        /\ Cardinality(Flags(argv)) = Len(requests')
    BY <1>3, <2>1, ParsedIs
  <2>4. CommandTypeOK'
    <3>1. Len(requests') \in Nat
      BY <2>3
    <3>2. QED
      BY <2>1, <2>2, <3>1 DEF CommandTypeOK
  <2>5. current'.tail = <<>>
    BY <1>3 DEF NoCommand
  <2>6. QED
    BY <1>3, <2>1, <2>2, <2>3, <2>4, <2>5 DEF CommandInv
<1>4. QED
  BY <1>2, <1>3 DEF EndOfArguments

LEMMA SendingIsWhole ==
  ASSUME CommandInv, stage = "sending", UNCHANGED <<argv, current, requests>>,
         \/ asked < Len(requests) /\ asked' = asked + 1 /\ failed' \in BOOLEAN /\ UNCHANGED stage
         \/ asked = Len(requests) /\ stage' \in {"failed", "succeeded"} /\ UNCHANGED sendVars
  PROVE  CommandInv'
<1>1. PICK n \in Nat : n = Len(requests)
  BY DEF CommandInv
<1>2. asked' \in 0..n /\ failed' \in BOOLEAN /\ stage' \in {"sending", "failed", "succeeded"}
  BY <1>1 DEF CommandInv, CommandTypeOK, sendVars
<1>3. stage' \in {"failed", "succeeded"} => asked' = n
  BY <1>1 DEF sendVars
<1>4. CommandTypeOK'
  BY <1>1, <1>2 DEF CommandInv, CommandTypeOK
<1>5. argv = AllTokens(requests) /\ Cardinality(Flags(argv)) = Len(requests)
  BY DEF CommandInv
<1>6. current'.tail # <<>> => Complete'
  BY DEF CommandInv, Complete
<1>7. QED
  BY <1>1, <1>2, <1>3, <1>4, <1>5, <1>6 DEF CommandInv

LEMMA CommandsStayWhole == CommandInv /\ [CommandNext]_commandVars => CommandInv'
<1> SUFFICES ASSUME CommandInv, [CommandNext]_commandVars PROVE CommandInv'
  OBVIOUS
<1>1. ASSUME NEW t \in Arguments, Required(t) \/ Greedy(t) \/ NextCommand(t) PROVE CommandInv'
  BY <1>1, RequiredIsWhole, GreedyIsWhole, NextIsWhole
<1>2. ASSUME NEW connected \in BOOLEAN, EndOfArguments(connected) PROVE CommandInv'
  BY <1>2, EndIsWhole
<1>3. ASSUME NEW ok \in BOOLEAN, CallBlocking(ok) PROVE CommandInv'
  <2>1. failed' \in BOOLEAN
    BY <1>3 DEF CallBlocking, CommandInv, CommandTypeOK
  <2>2. QED
    BY <1>3, <2>1, SendingIsWhole DEF CallBlocking
<1>4. CASE ExitWith
  BY <1>4, SendingIsWhole DEF ExitWith
<1>5. CASE UNCHANGED commandVars
  BY <1>5 DEF CommandInv, CommandTypeOK, commandVars, sendVars, Half, Complete
<1>6. QED
  BY <1>1, <1>2, <1>3, <1>4, <1>5 DEF CommandNext

LEMMA InvIsWhole == CommandInv => CommandsAreWhole
BY DEF CommandInv, CommandsAreWhole, AllTokens

\* A command line is refused and leaves nothing, or every argument of it is in a
\* request, and every request is sent.
THEOREM CommandLinesAreWhole == CommandSpec => []CommandsAreWhole
BY CommandsBegin, CommandsStayWhole, InvIsWhole, PTL DEF CommandSpec

-----------------------------------------------------------------------------
(* Types. *)

\* What the executor's proof leaves open of its types.
ExecutorRest ==
  /\ turning \in BOOLEAN /\ built \in BOOLEAN /\ listening \in BOOLEAN
  /\ pending \subseteq Sources /\ ringing \subseteq Sent /\ errands \in Seq(Sent)

LEMMA ExecutorRestStep == ExecutorRest /\ [ExecutorNext]_executorVars => ExecutorRest'
<1> SUFFICES ASSUME ExecutorRest, [ExecutorNext]_executorVars PROVE ExecutorRest'
  OBVIOUS
<1> USE DEF ExecutorRest
<1>1. ASSUME NEW t \in Errands, SendErrand(t) PROVE ExecutorRest'
  <2>1. t \in Sent
    BY DEF Sent
  <2>2. Append(errands, t) \in Seq(Sent)
    BY <2>1, AppendProperties
  <2>3. QED
    BY <1>1, <2>1, <2>2 DEF SendErrand
<1>2. ASSUME NEW t \in Calls, SendCall(t) PROVE ExecutorRest'
  <2>1. t \in Sent
    BY DEF Sent
  <2>2. Append(errands, t) \in Seq(Sent)
    BY <2>1, AppendProperties
  <2>3. QED
    BY <1>2, <2>1, <2>2 DEF SendCall
<1>3. ASSUME NEW t \in Errands, DropErrand(t) \/ Land(t) PROVE ExecutorRest'
  BY <1>3 DEF DropErrand, Land, Arrive, Abort, Sources
<1>4. ASSUME NEW t \in Sent, Ring(t) PROVE ExecutorRest'
  BY <1>4 DEF Ring, Sources
<1>5. ASSUME NEW t \in Local, WakeTask(t) \/ PollTask(t) PROVE ExecutorRest'
  BY <1>5 DEF WakeTask, PollTask, Sources
<1>6. ASSUME NEW t \in Deadlines, ScheduleSpawns(t) \/ ScheduleDrops(t) PROVE ExecutorRest'
  BY <1>6 DEF ScheduleSpawns, ScheduleDrops, Spawn, Abort, Sources
<1>7. CASE AskForPass \/ Turn \/ PerformRing \/ RingEnds \/ PerformDrive \/ DriveEnds
  BY <1>7 DEF AskForPass, Turn, PerformRing, Perform, RingEnds, PerformDrive, DriveEnds, Sources
<1>8. CASE RunErrand \/ RunCall
  <2>1. Tail(errands) \in Seq(Sent)
    BY <1>8, HeadTailProperties DEF RunErrand, RunCall
  <2>2. QED
    BY <1>8, <2>1 DEF RunErrand, RunCall, Spawn, Sources
<1>9. CASE PerformPass \/ Drain \/ DrainEnds \/ PassEnds \/ UNCHANGED executorVars
  BY <1>9 DEF PerformPass, Perform, Drain, DrainEnds, PassEnds, executorVars
<1>10. QED
  BY <1>1, <1>2, <1>3, <1>4, <1>5, <1>6, <1>7, <1>8, <1>9 DEF ExecutorNext

LEMMA ExecutorRestStart == ExecutorInit => ExecutorRest
BY EmptySeq DEF ExecutorInit, ExecutorRest, Sources

LEMMA ExecutorIsTyped == ExecutorInv /\ ExecutorRest => ExecutorTypeOK
BY DEF ExecutorInv, ExecutorTypes, ExecutorRest, ExecutorTypeOK, Frame, TaskStages

-----------------------------------------------------------------------------
\* What the scripts' proof leaves open of their types.
ScriptsRest ==
  /\ now <= MaxTime /\ inputs \in 0..MaxScriptInputs
  /\ channel \in Seq(ScriptItems) /\ atHand \in {<<>>} \cup {<<i>> : i \in ScriptItems}

LEMMA ListedItems == ASSUME NEW S \in SUBSET ScriptItems PROVE SetToSeq(S) \in Seq(ScriptItems)
<1>1. IsFiniteSet(S)
  BY ScriptsAssumption, FS_Subset
<1>2. PICK n \in Nat : SetToSeq(S) \in [1 .. n -> S]
  BY <1>1, Listing
<1>3. SetToSeq(S) \in [1 .. n -> ScriptItems]
  BY <1>2
<1>4. QED
  BY <1>3, SeqDef

LEMMA InputRest ==
  ASSUME ScriptsRest, NEW r, NEW jobs \in Seq(ScriptItems), SchedulePass(r, jobs),
         inputs' \in 0..MaxScriptInputs
  PROVE  ScriptsRest'
<1>1. PICK S \in SUBSET ScriptItems : channel' = channel \o jobs \o SetToSeq(S)
  BY DEF SchedulePass
<1>2. SetToSeq(S) \in Seq(ScriptItems)
  BY ListedItems
<1>3. channel' \in Seq(ScriptItems)
  BY <1>1, <1>2, ConcatProperties DEF ScriptsRest
<1>4. now' = now /\ atHand' = atHand
  BY DEF SchedulePass, runnerVars
<1>5. QED
  BY <1>3, <1>4 DEF ScriptsRest

LEMMA ScriptsRestStep == ScriptsInv /\ ScriptsRest /\ [ScriptsNext]_scriptsVars => ScriptsRest'
<1> SUFFICES ASSUME ScriptsInv, ScriptsRest, [ScriptsNext]_scriptsVars PROVE ScriptsRest'
  OBVIOUS
<1>1. now \in Nat /\ MaxTime \in Nat /\ MaxScriptInputs \in Nat
  BY ScriptsAssumption DEF ScriptsInv, ScriptTypes
<1>2. CASE Second
  BY <1>1, <1>2 DEF Second, ScriptsRest, runnerVars
<1>3. CASE Woken
  BY <1>3, EmptySeq, InputRest DEF Woken, ScriptsRest
<1>4. ASSUME NEW r, NEW jobs \in Seq(ScriptItems), Input(r, jobs) PROVE ScriptsRest'
  <2>1. inputs' \in 0..MaxScriptInputs
    BY <1>1, <1>4 DEF Input, ScriptsRest
  <2>2. QED
    BY <1>4, <2>1, InputRest DEF Input
<1>5. ASSUME NEW i \in ScriptItems, Expire(i) PROVE ScriptsRest'
  BY <1>5 DEF Expire, ScriptsRest, runnerVars
<1>6. ASSUME NEW i \in ScriptItems, RemoveRow(i) PROVE ScriptsRest'
  BY <1>4, <1>6, EmptySeq DEF RemoveRow
<1>7. ASSUME NEW i \in ScriptItems, NEW every, AddRow(i, every) PROVE ScriptsRest'
  BY <1>4, <1>7, EmptySeq DEF AddRow
<1>8. ASSUME NEW i \in ScriptItems, NEW every, NEW u, SetRow(i, every, u) PROVE ScriptsRest'
  BY <1>4, <1>8, EmptySeq DEF SetRow
<1>9. ASSUME NEW i \in ScriptItems, NEW subscribed, ClickRow(i, subscribed) PROVE ScriptsRest'
  <2>1. <<i>> \in Seq(ScriptItems) /\ <<i>> \o <<i>> \in Seq(ScriptItems) /\ <<i>> \o <<>> \in Seq(ScriptItems)
    OBVIOUS
  <2>2. QED
    BY <1>4, <1>9, <2>1 DEF ClickRow
<1>10. ASSUME NEW dependents, Dispatch(dependents), dependents \in SUBSET ScriptItems PROVE ScriptsRest'
  BY <1>4, <1>10, ListedItems DEF Dispatch
<1>11. CASE UpdateAll
  BY <1>4, <1>11, ListedItems DEF UpdateAll
<1>12. CASE Take
  <2>1. Head(channel) \in ScriptItems /\ Tail(channel) \in Seq(ScriptItems)
    BY <1>12, HeadTailProperties DEF Take, ScriptsRest
  <2>2. QED
    BY <1>12, <2>1 DEF Take, ScriptsRest, itemVars
<1>13. CASE Acquire \/ StartFails \/ Starts \/ ErrorClosed \/ Reaped \/ UNCHANGED scriptsVars
  BY <1>13 DEF Acquire, StartFails, Starts, ErrorClosed, Reaped, ScriptsRest, scriptsVars, itemVars, runnerVars
<1>14. QED
  BY <1>2, <1>3, <1>5, <1>6, <1>7, <1>8, <1>9, <1>10, <1>11, <1>12, <1>13 DEF ScriptsNext

LEMMA ScriptsRestStart == ScriptsInit => ScriptsRest
<1> SUFFICES ASSUME ScriptsInit PROVE ScriptsRest
  OBVIOUS
<1>1. 0 <= MaxTime /\ 0 \in 0..MaxScriptInputs
  BY ScriptsAssumption
<1>2. QED
  BY <1>1, EmptySeq DEF ScriptsInit, ScriptsRest

LEMMA ScriptsAreTyped == ScriptsInv /\ ScriptsRest => ScriptsTypeOK
<1> SUFFICES ASSUME ScriptsInv, ScriptsRest PROVE ScriptsTypeOK
  OBVIOUS
<1>1. /\ permits \in Nat /\ starting \in Nat /\ running \in Nat /\ waiting \in Nat
      /\ permits + starting + running + waiting = ScriptWorkers /\ now \in Nat
  BY DEF ScriptsInv, ScriptTypes, RoutinesStand
<1>2. {permits, starting, running, waiting} \subseteq 0..ScriptWorkers
  BY <1>1, ScriptsAssumption
<1>3. now \in 0..MaxTime
  BY <1>1, ScriptsAssumption DEF ScriptsRest
<1>4. QED
  BY <1>2, <1>3 DEF ScriptsInv, ScriptTypes, Rows, ScriptsRest, ScriptsTypeOK

-----------------------------------------------------------------------------
\* A command's pairs and what they make of an item.
LEMMA PatchesTypedStep == PatchesTypeOK /\ [PatchesNext]_patchesVars => PatchesTypeOK'
<1> SUFFICES ASSUME PatchesTypeOK, [PatchesNext]_patchesVars PROVE PatchesTypeOK'
  OBVIOUS
<1>1. pairs \in Seq(Pair)
  BY DEF PatchesTypeOK, Pair
<1>2. ASSUME NEW k \in WrittenKeys, NEW v \in WrittenValues, Write([key |-> k, value |-> v])
      PROVE  PatchesTypeOK'
  <2>1. pairs' \in Seq(Pair) /\ Len(pairs') = Len(pairs) + 1
    BY <1>1, <1>2, AppendProperties DEF Write, Pair
  <2>2. Len(pairs') <= MaxPairs
    BY <1>1, <1>2, <2>1, PatchesAssumption DEF Write
  <2>3. QED
    BY <1>2, <2>1, <2>2 DEF Write, PatchesTypeOK, Pair
<1>3. CASE ApplyWritten
  <2>1. Reads(pairs) /\ values' = Patched(Read(pairs), values) /\ UNCHANGED pairs /\ outcome' = "applied"
    BY <1>3 DEF ApplyWritten
  <2>2. PICK patch : patch = Read(pairs)
    OBVIOUS
  <2>3. \A f \in DOMAIN patch : patch[f] \in SaidOf(f, pairs)
    BY <1>1, <2>1, <2>2, ReadIs
  <2>4. ASSUME NEW f PROVE SaidOf(f, pairs) \subseteq WrittenValues
    <3>1. ASSUME NEW i \in DOMAIN pairs PROVE pairs[i].value \in WrittenValues
      <4>1. pairs[i] \in Pair
        BY <1>1, PairAt
      <4>2. QED
        BY <4>1 DEF Pair
    <3>2. QED
      BY <3>1 DEF SaidOf
  <2>5. ASSUME NEW f \in PatchFields
        PROVE  values'[f] \in WrittenValues \cup {"on", "off", "x", "none"}
    <3>1. values[f] \in WrittenValues \cup {"on", "off", "x", "none"}
      BY DEF PatchesTypeOK
    <3>2. values'[f] = IF f \in Moved(patch, values) THEN Becomes(f, patch[f], values[f]) ELSE values[f]
      BY <2>1, <2>2 DEF Patched
    <3>3. ASSUME f \in Moved(patch, values) PROVE patch[f] \in WrittenValues
      BY <2>3, <2>4, <3>3 DEF Moved
    <3>4. QED
      BY <3>1, <3>2, <3>3 DEF Becomes
  <2>6. values' \in [PatchFields -> WrittenValues \cup {"on", "off", "x", "none"}]
    BY <2>1, <2>5 DEF Patched
  <2>7. QED
    BY <2>1, <2>6 DEF PatchesTypeOK
<1>4. CASE RefuseWritten
  BY <1>4 DEF RefuseWritten, PatchesTypeOK
<1>5. CASE UNCHANGED patchesVars
  BY <1>5 DEF patchesVars, PatchesTypeOK
<1>6. QED
  BY <1>2, <1>3, <1>4, <1>5 DEF PatchesNext

LEMMA PatchesTypedStart == PatchesInit => PatchesTypeOK
<1> SUFFICES ASSUME PatchesInit PROVE PatchesTypeOK
  OBVIOUS
<1>1. Len(pairs) = 0 /\ pairs \in Seq([key : WrittenKeys, value : WrittenValues]) /\ 0 <= MaxPairs
  BY PatchesAssumption, EmptySeq DEF PatchesInit
<1>2. ASSUME NEW on \in {"on", "off"}
      PROVE  Held(on) \in [PatchFields -> WrittenValues \cup {"on", "off", "x", "none"}]
  BY DEF Held
<1>3. QED
  BY <1>1, <1>2 DEF PatchesInit, PatchesTypeOK

-----------------------------------------------------------------------------
\* What the platforms' proof leaves open of their types. A source tells one
\* thing, wifi's one of each interface.
Few(facts) == IF platform = "wifi" THEN \E a, b : facts \subseteq {<<"en0", a>>, <<"en1", b>>}
              ELSE \E x : facts \subseteq {x}

PlatformRest ==
  /\ \A r \in Run : Len(ticks[r]) <= MaxTicks /\ Few(told[r])
  /\ platform = "wifi" => \A r \in Run : ticks[r] \in Seq(Interfaces \X {{}, {"home"}})
  /\ replaced \in 0 .. 1

LEMMA FewAreCounted ==
  ASSUME platform \in Platforms, NEW facts, Few(facts)
  PROVE  Cardinality(facts) <= Cardinality(Keys(platform))
<1>1. CASE platform = "wifi"
  <2>1. PICK a, b : facts \subseteq {<<"en0", a>>, <<"en1", b>>}
    BY <1>1 DEF Few
  <2>2. ASSUME NEW x, NEW y, x # y PROVE IsFiniteSet({x, y}) /\ Cardinality({x, y}) = 2
    <3>1. IsFiniteSet({x}) /\ Cardinality({x}) = 1
      BY FS_Singleton
    <3>2. IsFiniteSet({x} \cup {y}) /\ Cardinality({x} \cup {y}) = 1 + 1
      BY <2>2, <3>1, FS_AddElement
    <3>3. {x, y} = {x} \cup {y}
      OBVIOUS
    <3>4. QED
      BY <3>2, <3>3
  <2>3. IsFiniteSet({<<"en0", a>>, <<"en1", b>>}) /\ Cardinality({<<"en0", a>>, <<"en1", b>>}) = 2
    BY <2>2
  <2>4. Cardinality(Keys(platform)) = 2
    BY <1>1, <2>2 DEF Keys, Interfaces
  <2>5. QED
    BY <2>1, <2>3, <2>4, FS_Subset
<1>2. CASE platform # "wifi"
  <2>1. PICK x : facts \subseteq {x}
    BY <1>2 DEF Few
  <2>2. IsFiniteSet({x}) /\ Cardinality({x}) = 1 /\ Cardinality(Keys(platform)) = 1
    BY <1>2, FS_Singleton DEF Keys
  <2>3. QED
    BY <2>1, <2>2, FS_Subset
<1>3. QED
  BY <1>1, <1>2

\* A post to a relay that has room for it.
LEMMA PostsFit ==
  ASSUME PlatformInv, PlatformRest, NEW r \in Run, NEW to, NEW T, NEW posts \in Seq(T), Posts(r, to, posts),
         to \in Run => ticks[to] \in Seq(T), platform = "wifi" => T = Interfaces \X {{}, {"home"}},
         to # 0 => to \in Run
  PROVE  PlatformRest'
<1>1. UNCHANGED <<platform, told, replaced>>
  BY DEF Posts
<1>2. CASE UNCHANGED ticks
  BY <1>1, <1>2 DEF PlatformRest, Few
<1>3. CASE to # 0 /\ Len(ticks[to]) + Len(posts) <= MaxTicks /\ ticks' = [ticks EXCEPT ![to] = @ \o posts]
  <2>1. ticks[to] \o posts \in Seq(T) /\ Len(ticks[to] \o posts) = Len(ticks[to]) + Len(posts)
    BY <1>3, ConcatProperties
  <2>2. ticks'[to] = ticks[to] \o posts /\ \A s \in Run : s # to => ticks'[s] = ticks[s]
    BY <1>3 DEF PlatformInv, PlatformTypes
  <2>3. ASSUME NEW s \in Run PROVE Len(ticks'[s]) <= MaxTicks
    BY <1>3, <2>1, <2>2 DEF PlatformRest
  <2>4. ASSUME platform = "wifi", NEW s \in Run PROVE ticks'[s] \in Seq(Interfaces \X {{}, {"home"}})
    BY <2>1, <2>2, <2>4 DEF PlatformRest
  <2>5. QED
    BY <1>1, <2>3, <2>4 DEF PlatformRest, Few
<1>4. QED
  BY <1>2, <1>3 DEF Posts

LEMMA CallsFit == ASSUME PlatformInv, PlatformRest, NEW r \in Run, CallBack(r) PROVE PlatformRest'
<1>1. CASE UNCHANGED platformVars
  BY <1>1 DEF platformVars, PlatformRest, Few
<1>2. ticks[r] \in Seq(Posted) /\ \A s \in Run : ticks[s] \in Seq(Posted)
  BY DEF PlatformInv, PlatformTypes
<1>3. Tick \in Seq(Posted) /\ Tick \o Tick \in Seq(Posted)
  BY DEF Tick, Posted
<1>4. ASSUME platform # "wifi", NEW to, to # 0 => to \in Run, Posts(r, to, Tick) \/ Posts(r, to, Tick \o Tick)
      PROVE  PlatformRest'
  BY <1>2, <1>3, <1>4, PostsFit
<1>5. CASE ChangedKeys(r)
  <2>1. platform = "wifi"
    BY <1>5 DEF ChangedKeys, Call
  <2> DEFINE posts == [i \in 1 .. Cardinality(due[r]) |->
                         LET key == SetToSeq(due[r])[i] IN <<key, reading[key]>>]
             n == Cardinality(due[r])
             list == SetToSeq(due[r])
             T == Interfaces \X {{}, {"home"}}
  <2>2. due[r] \subseteq Interfaces /\ reading \in Joins
    BY <2>1 DEF PlatformInv, PlatformTypes, Keys, Readings
  <2>3. IsFiniteSet(due[r])
    <3>1. IsFiniteSet({"en0"}) /\ IsFiniteSet({"en0"} \cup {"en1"})
      BY FS_Singleton, FS_AddElement
    <3>2. Interfaces = {"en0"} \cup {"en1"}
      BY DEF Interfaces
    <3>3. QED
      BY <2>2, <3>1, <3>2, FS_Subset
  <2>4. n \in Nat /\ list \in [1 .. n -> due[r]]
    BY <2>3, Listing
  <2>5. posts = [i \in 1 .. n |-> <<list[i], reading[list[i]]>>]
    OBVIOUS
  <2>6. Posts(r, r, posts)
    BY <1>5 DEF ChangedKeys
  <2> HIDE DEF posts, n, list
  <2>7. \A i \in 1 .. n : <<list[i], reading[list[i]]>> \in T
    BY <2>2, <2>4 DEF Joins
  <2>8. posts \in [1 .. n -> T]
    BY <2>5, <2>7
  <2>9. posts \in Seq(T)
    BY <2>4, <2>8, SeqDef
  <2>10. r \in Run => ticks[r] \in Seq(T)
    BY <2>1 DEF PlatformRest
  <2> HIDE DEF T
  <2>11. platform = "wifi" => T = Interfaces \X {{}, {"home"}}
    BY DEF T
  <2>12. QED
    BY <2>6, <2>9, <2>10, <2>11, PostsFit
<1>6. CASE BrightnessChanged(r)
  <2>1. platform = "brightness" /\ Posts(r, context, Tick) /\ context \in 0 .. Runs
    BY <1>6 DEF BrightnessChanged, Call, PlatformInv, PlatformTypes
  <2>2. context # 0 => context \in Run
    BY <2>1, PlatformAssumption DEF Run
  <2>3. QED
    BY <1>4, <2>1, <2>2
<1>7. CASE Reconfigured(r) \/ VolumeMoved(r) \/ PowerMoved(r) \/ PokeGrants(r) \/ SpaceChanged(r)
  BY <1>1, <1>4, <1>7 DEF Reconfigured, VolumeMoved, PowerMoved, PokeGrants, SpaceChanged, Call
<1>8. QED
  BY <1>5, <1>6, <1>7 DEF CallBack

\* What a report tells is one thing.
LEMMA TellsFew ==
  ASSUME PlatformInv, PlatformRest, NEW r \in Run, Report(r)
  PROVE  Few(told'[r])
<1>1. Few(told[r]) /\ platform \in Platforms /\ reading \in Readings(platform) /\ ticks[r] # <<>>
  BY DEF PlatformInv, PlatformTypes, PlatformRest, Report
<1>2. CASE told' = told
  BY <1>1, <1>2
<1>3. ASSUME NEW fact, Emits(r, fact) PROVE told'[r] = fact
  BY <1>3 DEF Emits, PlatformInv, PlatformTypes
<1>4. CASE platform = "wifi" /\ told' # told
  <2>1. Head(ticks[r]) \in Interfaces \X {{}, {"home"}}
    BY <1>1, <1>4, HeadTailProperties DEF PlatformRest
  <2>2. PICK key \in Interfaces, ssid \in {{}, {"home"}} : Head(ticks[r]) = <<key, ssid>>
    BY <2>1
  <2>3. DecideJoined(r, key, ssid)
    BY <1>4, <2>2 DEF Report, Decide
  <2>4. told'[r] = Joined(told[r], key, ssid)
    BY <1>3, <1>4, <2>3 DEF DecideJoined, Quiet
  <2>5. PICK a, b : told[r] \subseteq {<<"en0", a>>, <<"en1", b>>}
    BY <1>1, <1>4 DEF Few
  <2>6. CASE key = "en0"
    <3>1. told'[r] \subseteq {<<"en0", ssid>>, <<"en1", b>>}
      BY <2>4, <2>5, <2>6 DEF Joined
    <3>2. QED
      BY <1>4, <3>1 DEF Few
  <2>7. CASE key = "en1"
    <3>1. told'[r] \subseteq {<<"en0", a>>, <<"en1", ssid>>}
      BY <2>4, <2>5, <2>7 DEF Joined
    <3>2. QED
      BY <1>4, <3>1 DEF Few
  <2>8. QED
    BY <2>2, <2>6, <2>7 DEF Interfaces
<1>5. CASE platform # "wifi" /\ told' # told
  <2>1. Decide(r, Head(ticks[r]))
    BY DEF Report
  <2>2. ASSUME NEW x, Emits(r, {x}) PROVE Few(told'[r])
    BY <1>3, <1>5, <2>2 DEF Few
  <2>3. ASSUME NEW fact, Emits(r, fact), \E x : fact \subseteq {x} PROVE Few(told'[r])
    BY <1>3, <1>5, <2>3 DEF Few
  <2>4. CASE platform = "displays"
    BY <1>5, <2>1, <2>2, <2>4 DEF Decide, ReportLayout, Quiet
  <2>5. CASE platform = "brightness"
    <3>1. \E x : Brightness(reading) \subseteq {x}
      <4>1. reading \in Scalars
        BY <1>1, <2>5 DEF Readings
      <4>2. PICK y : reading \subseteq {y}
        BY <4>1 DEF Scalars
      <4>3. Brightness(reading) \subseteq {Percent(y)}
        BY <4>2 DEF Brightness
      <4>4. QED
        BY <4>3
    <3>2. QED
      BY <1>5, <2>1, <2>3, <2>5, <3>1 DEF Decide, ReportBrightness, Quiet
  <2>6. CASE platform = "volume"
    <3>1. \E x : Scalar(reading) \subseteq {x}
      <4>1. reading \in Devices
        BY <1>1, <2>6 DEF Readings
      <4>2. PICK y : reading \subseteq {y}
        <5>1. \/ reading \in {{}} \/ reading \in {{Level(n, 900, FALSE, FALSE)} : n \in {500, 506, 512}}
              \/ reading \in {{Level(0, 300, TRUE, FALSE)}, {Level(506, 300, FALSE, TRUE)}}
          BY <4>1, Zenon DEF Devices
        <5>2. CASE reading \in {{Level(n, 900, FALSE, FALSE)} : n \in {500, 506, 512}}
          <6>1. PICK n \in {500, 506, 512} : reading = {Level(n, 900, FALSE, FALSE)}
            BY <5>2, Zenon
          <6>2. PICK level : level = Level(n, 900, FALSE, FALSE)
            OBVIOUS
          <6>3. reading \subseteq {level}
            BY <6>1, <6>2
          <6>4. QED
            BY <6>3
        <5>3. CASE reading \in {{}}
          BY <5>3
        <5>4. CASE reading \in {{Level(0, 300, TRUE, FALSE)}, {Level(506, 300, FALSE, TRUE)}}
          BY <5>4
        <5>5. QED
          BY <5>1, <5>2, <5>3, <5>4
      <4>3. Scalar(reading) \subseteq {IF y.muteMain \/ (y.left > 0 /\ y.muteLeft) THEN 0
                                       ELSE IF y.left > 0 THEN y.left ELSE y.main}
        BY <4>2 DEF Scalar
      <4>4. QED
        BY <4>3
    <3>2. QED
      BY <1>5, <2>1, <2>3, <2>6, <3>1 DEF Decide, ReportVolume, Quiet
  <2>7. CASE platform = "power"
    BY <1>5, <2>1, <2>2, <2>7 DEF Decide, DecidePower
  <2>8. CASE platform = "accessibility"
    BY <1>5, <2>1, <2>2, <2>8 DEF Decide, CheckGrant, Quiet
  <2>9. CASE platform = "spaces"
    <3>1. reading \in Spaces
      BY <1>1, <2>9 DEF Readings
    <3>2. \E x : reading \subseteq {x}
      BY <3>1 DEF Spaces
    <3>3. QED
      BY <1>5, <2>1, <2>3, <2>9, <3>2 DEF Decide, ReportSpace
  <2>10. CASE platform = "media"
    <3>1. watch[r] = "live"
      BY DEF Report
    <3>2. QED
      BY <2>10, <3>1 DEF PlatformInv, Unheard
  <2>11. QED
    BY <1>1, <1>5, <2>4, <2>5, <2>6, <2>7, <2>8, <2>9, <2>10, PlatformAssumption
<1>6. QED
  BY <1>2, <1>4, <1>5

LEMMA ReportsFit == ASSUME PlatformInv, PlatformRest, NEW r \in Run, Report(r) PROVE PlatformRest'
<1>1. UNCHANGED <<platform, replaced>> /\ watch[r] = "live" /\ ticks[r] # <<>>
      /\ ticks' = [ticks EXCEPT ![r] = IF platform \in Batched THEN <<>> ELSE Tail(@)]
  BY DEF Report
<1>2. \A s \in Run : s # r => told'[s] = told[s]
  <2>1. told' = told \/ \E fact : told' = [told EXCEPT ![r] = fact]
    <3>1. Decide(r, Head(ticks[r])) /\ platform \in Platforms /\ platform # "media"
      BY <1>1 DEF Report, PlatformInv, PlatformTypes, Unheard
    <3>2. QED
      BY <3>1, PlatformAssumption
         DEF Decide, ReportLayout, DecideJoined, ReportBrightness, ReportVolume, DecidePower,
             CheckGrant, ReportSpace, Emits, Quiet
  <2>2. QED
    BY <2>1 DEF PlatformInv, PlatformTypes
<1>3. \A s \in Run : Few(told'[s])
  BY <1>2, TellsFew DEF PlatformRest
<1>4. ASSUME NEW T, ticks[r] \in Seq(T)
      PROVE  ticks'[r] \in Seq(T) /\ Len(ticks'[r]) <= MaxTicks
  <2>1. ticks'[r] = IF platform \in Batched THEN <<>> ELSE Tail(ticks[r])
    BY <1>1 DEF PlatformInv, PlatformTypes
  <2>2. <<>> \in Seq(T) /\ Len(<<>>) = 0 /\ 0 <= MaxTicks
    BY PlatformAssumption, EmptySeq
  <2>3. Tail(ticks[r]) \in Seq(T) /\ Len(Tail(ticks[r])) <= MaxTicks
    <3>1. Tail(ticks[r]) \in Seq(T) /\ Len(Tail(ticks[r])) = Len(ticks[r]) - 1 /\ Len(ticks[r]) \in Nat
      BY <1>1, <1>4, HeadTailProperties
    <3>2. Len(ticks[r]) <= MaxTicks /\ MaxTicks \in Nat
      BY PlatformAssumption DEF PlatformRest
    <3>3. QED
      BY <3>1, <3>2
  <2>4. QED
    BY <2>1, <2>2, <2>3
<1>5. \A s \in Run : s # r => ticks'[s] = ticks[s]
  BY <1>1 DEF PlatformInv, PlatformTypes
<1>6. \A s \in Run : Len(ticks'[s]) <= MaxTicks
  <2>1. ticks[r] \in Seq(Posted)
    BY DEF PlatformInv, PlatformTypes
  <2>2. QED
    BY <1>4, <1>5, <2>1 DEF PlatformRest
<1>7. platform = "wifi" => \A s \in Run : ticks'[s] \in Seq(Interfaces \X {{}, {"home"}})
  BY <1>4, <1>5 DEF PlatformRest
<1>8. QED
  BY <1>1, <1>3, <1>6, <1>7 DEF PlatformRest, Few

LEMMA PlatformRestStep == PlatformInv /\ PlatformRest /\ [PlatformNext]_platformVars => PlatformRest'
<1> SUFFICES ASSUME PlatformInv, PlatformRest, [PlatformNext]_platformVars PROVE PlatformRest'
  OBVIOUS
<1>1. CASE UNCHANGED <<platform, ticks, told, replaced>>
  BY <1>1 DEF PlatformRest, Few
<1>2. ASSUME NEW r \in Run,
             \/ StartRun(r) \/ SeedLayout(r) \/ SeedGrant(r)
             \/ RegisterDisplays(r) \/ RegisterWifi(r) \/ RegisterBrightness(r)
             \/ RegisterVolume(r) \/ RegisterPower(r) \/ WatchGrants(r) \/ WatchSpaces(r) \/ TearDown(r)
      PROVE  PlatformRest'
  BY <1>1, <1>2 DEF StartRun, SeedLayout, SeedGrant, RegisterDisplays, RegisterWifi, RegisterBrightness,
       RegisterVolume, RegisterPower, WatchGrants, WatchSpaces, TearDown, IsRegistered
<1>3. <<>> \in Seq(Interfaces \X {{}, {"home"}}) /\ Len(<<>>) <= MaxTicks
  <2>1. Len(<<>>) = 0 /\ 0 <= MaxTicks
    BY PlatformAssumption
  <2>2. QED
    BY <2>1, EmptySeq
<1>4. \E x : {} \subseteq {x}
  OBVIOUS
<1>5. Few({})
  BY DEF Few
<1>6. ASSUME NEW r \in Run, StopRun(r) PROVE PlatformRest'
  <2>1. \A s \in Run : /\ ticks'[s] = IF s = r THEN <<>> ELSE ticks[s]
                       /\ told'[s] = IF s = r THEN {} ELSE told[s]
    BY <1>6 DEF StopRun, PlatformInv, PlatformTypes
  <2>2. UNCHANGED <<platform, replaced>>
    BY <1>6 DEF StopRun
  <2>3. \A s \in Run : Len(ticks'[s]) <= MaxTicks /\ Few(told'[s])
    BY <1>3, <1>5, <2>1 DEF PlatformRest
  <2>4. QED
    BY <1>3, <2>1, <2>2, <2>3 DEF PlatformRest, Few
<1>7. ASSUME NEW r \in Run, Replace(r) PROVE PlatformRest'
  <2>1. \A s \in Run : ticks'[s] = <<>> /\ told'[s] = {}
    BY <1>7 DEF Replace
  <2>2. platform' = platform /\ replaced' \in 0 .. 1
    BY <1>7 DEF Replace, MayReplace
  <2>3. \A s \in Run : Len(ticks'[s]) <= MaxTicks /\ Few(told'[s])
    BY <1>3, <1>5, <2>1
  <2>4. QED
    BY <1>3, <2>1, <2>2, <2>3 DEF PlatformRest, Few
<1>8. ASSUME NEW answered, Move(answered) PROVE PlatformRest'
  BY <1>1, <1>8 DEF Move
<1>9. ASSUME NEW r \in Run, CallBack(r) \/ Report(r) PROVE PlatformRest'
  BY <1>9, CallsFit, ReportsFit
<1>10. CASE UNCHANGED platformVars
  BY <1>1, <1>10 DEF platformVars
<1>11. QED
  BY <1>2, <1>6, <1>7, <1>8, <1>9, <1>10 DEF PlatformNext

LEMMA PlatformRestStart == PlatformInit => PlatformRest
<1> SUFFICES ASSUME PlatformInit PROVE PlatformRest
  OBVIOUS
<1>1. <<>> \in Seq(Interfaces \X {{}, {"home"}}) /\ Len(<<>>) <= MaxTicks
  <2>1. Len(<<>>) = 0 /\ 0 <= MaxTicks
    BY PlatformAssumption
  <2>2. QED
    BY <2>1, EmptySeq
<1>2. Few({})
  BY DEF Few
<1>3. \A s \in Run : ticks[s] = <<>> /\ told[s] = {}
  BY DEF PlatformInit
<1>4. \A s \in Run : Len(ticks[s]) <= MaxTicks /\ Few(told[s])
  BY <1>1, <1>2, <1>3
<1>5. QED
  BY <1>1, <1>3, <1>4 DEF PlatformInit, PlatformRest

LEMMA PlatformIsTyped == PlatformInv /\ PlatformRest => PlatformTypeOK
<1> SUFFICES ASSUME PlatformInv, PlatformRest PROVE PlatformTypeOK
  OBVIOUS
<1>1. PlatformTypes
  BY DEF PlatformInv
<1>2. \A r \in Run : due[r] \subseteq Keys(platform) /\ Len(ticks[r]) <= MaxTicks
  BY <1>1 DEF PlatformTypes, PlatformRest
<1>3. \A r \in Run : Cardinality(told[r]) <= Cardinality(Keys(platform))
  BY <1>1, FewAreCounted DEF PlatformTypes, PlatformRest
<1>4. QED
  BY <1>1, <1>2, <1>3 DEF PlatformTypes, PlatformRest, PlatformTypeOK

-----------------------------------------------------------------------------
(* The composition. *)

\* Whatever the composition does is a step of each machine, or none of it.
LEMMA SeamsAct ==
  [SeamsNext]_seamVars => /\ [Next]_vars /\ [CallbackNext]_callbackVars
                          /\ [ExecutorNext]_executorVars /\ [PlatformNext]_platformVars
                          /\ [VolumeNext]_volumeVars /\ [ScriptsNext]_scriptsVars
                          /\ [PatchesNext]_patchesVars /\ [CommandNext]_commandVars
<1> SUFFICES ASSUME [SeamsNext]_seamVars
             PROVE  /\ [Next]_vars /\ [CallbackNext]_callbackVars
                    /\ [ExecutorNext]_executorVars /\ [PlatformNext]_platformVars
                    /\ [VolumeNext]_volumeVars /\ [ScriptsNext]_scriptsVars
                    /\ [PatchesNext]_patchesVars /\ [CommandNext]_commandVars
  OBVIOUS
<1>1. CASE UNCHANGED seamVars
  BY <1>1 DEF seamVars
<1>2. CASE OfExecutor /\ ExecutorNext
  BY <1>2 DEF OfExecutor
<1>3. CASE OfPlatform /\ PlatformNext
  BY <1>3 DEF OfPlatform
<1>4. CASE OfVolume /\ VolumeNext
  BY <1>4 DEF OfVolume
<1>5. CASE OfScripts /\ ScriptsNext
  BY <1>5 DEF OfScripts
<1>6. CASE OfPatches /\ PatchesNext
  BY <1>6 DEF OfPatches
<1>7. CASE OfCommand /\ CommandNext
  BY <1>7 DEF OfCommand
<1>8. CASE OfHandoff /\ Next
  BY <1>8 DEF OfHandoff
<1>9. CASE OfCallback /\ CallbackNext
  BY <1>9 DEF OfCallback
<1>10. QED
  BY <1>1, <1>2, <1>3, <1>4, <1>5, <1>6, <1>7, <1>8, <1>9 DEF SeamsNext

\* Nothing that has to run on a loop's thread, and nothing an item has to be
\* updated for, is left without the wake that brings it about.
THEOREM NoWorkIsStranded == SeamsSpec => []NoWorkStranded
<1>1. SeamsInit => ExecutorInv /\ ScriptsInv
  BY ExecutorStart, ScriptsStart DEF SeamsInit
<1>2. ExecutorInv /\ ScriptsInv /\ [SeamsNext]_seamVars => ExecutorInv' /\ ScriptsInv'
  BY SeamsAct, ExecutorStep, ScriptsStep
<1>3. ExecutorInv /\ ScriptsInv => NoWorkStranded
  BY DEF ExecutorInv, ScriptsInv, NoWorkStranded
<1>4. QED
  BY <1>1, <1>2, <1>3, PTL DEF SeamsSpec

\* Whatever the system does, and in whatever order the frameworks tell of it:
\* who listens to a platform's source knows what is so, and the volume's hears
\* of the default device and of no other.
THEOREM SourcesAreListening == SeamsSpec => []SourcesListen
<1>1. SeamsInit => PlatformInv /\ VolumeInv
  BY PlatformStart, VolumeStart DEF SeamsInit
<1>2. PlatformInv /\ VolumeInv /\ [SeamsNext]_seamVars => PlatformInv' /\ VolumeInv'
  BY SeamsAct, PlatformStep, VolumeStep
<1>3. PlatformInv /\ VolumeInv => SourcesListen
  BY ReportedSuffices, ListenedSuffices DEF SourcesListen
<1>4. QED
  BY <1>1, <1>2, <1>3, PTL DEF SeamsSpec

\* A command line is taken as a whole or not at all, every argument of it in a
\* request that is sent, and what the pairs of a command say of an item is what
\* the item becomes.
THEOREM CommandsAreMeant == SeamsSpec => CommandsMeanWhatTheySay
<1>1. SeamsInit => CommandInv /\ pairs \in Seq(Pair)
  BY CommandsBegin DEF SeamsInit, PatchesInit
<1>2. CommandInv /\ pairs \in Seq(Pair) /\ [SeamsNext]_seamVars => CommandInv' /\ (pairs \in Seq(Pair))'
  BY SeamsAct, CommandsStayWhole, PairsStay
<1>3. pairs \in Seq(Pair) /\ [SeamsNext]_seamVars => Means
  BY SeamsAct, MeansStep
<1>4. QED
  BY <1>1, <1>2, <1>3, InvIsWhole, MeansIt, PTL DEF SeamsSpec, CommandsMeanWhatTheySay, SaysWhatItMeans

\* What holds of all of the machines together.
SeamsInv ==
  /\ HandoffInv /\ CallbackInv /\ VolumeInv /\ CommandInv
  /\ ExecutorInv /\ ExecutorRest /\ PlatformInv /\ PlatformRest
  /\ ScriptsInv /\ ScriptsRest /\ PatchesTypeOK

LEMMA SeamsStart == SeamsInit => SeamsInv
<1> SUFFICES ASSUME SeamsInit PROVE SeamsInv
  OBVIOUS
<1>1. /\ Init /\ ExecutorInit /\ CallbackInit /\ VolumeInit
      /\ PlatformInit /\ PatchesInit /\ CommandInit /\ ScriptsInit
  BY DEF SeamsInit
<1>2. QED
  BY <1>1, HandoffStart, CallbackStart, VolumeStart, CommandsBegin, ExecutorStart, ExecutorRestStart,
     PlatformStart, PlatformRestStart, ScriptsStart, ScriptsRestStart, PatchesTypedStart DEF SeamsInv

LEMMA SeamsStep == SeamsInv /\ [SeamsNext]_seamVars => SeamsInv'
<1> SUFFICES ASSUME SeamsInv, [SeamsNext]_seamVars PROVE SeamsInv'
  OBVIOUS
<1>1. HandoffInv' /\ CallbackInv'
  <2>1. [Next]_vars /\ [CallbackNext]_callbackVars
    BY SeamsAct
  <2>2. QED
    BY <2>1, HandoffTypeStep, WakeStep, OrderStep, CallbackStep DEF SeamsInv, HandoffInv
<1>2. /\ [ExecutorNext]_executorVars /\ [PlatformNext]_platformVars
      /\ [VolumeNext]_volumeVars /\ [ScriptsNext]_scriptsVars
      /\ [PatchesNext]_patchesVars /\ [CommandNext]_commandVars
  BY SeamsAct
<1>3. ExecutorInv' /\ ExecutorRest' /\ PlatformInv' /\ PlatformRest'
  BY <1>2, ExecutorStep, ExecutorRestStep, PlatformStep, PlatformRestStep DEF SeamsInv
<1>4. VolumeInv' /\ CommandInv' /\ ScriptsInv' /\ ScriptsRest' /\ PatchesTypeOK'
  BY <1>2, VolumeStep, CommandsStayWhole, ScriptsStep, ScriptsRestStep, PatchesTypedStep DEF SeamsInv
<1>5. QED
  BY <1>1, <1>3, <1>4 DEF SeamsInv

\* Every variable of every machine keeps to its type, whatever the bounds.
THEOREM SeamsTyped == SeamsSpec => []SeamsTypeOK
<1>1. SeamsInv => SeamsTypeOK
  BY ExecutorIsTyped, PlatformIsTyped, ScriptsAreTyped
     DEF SeamsInv, HandoffInv, CallbackInv, VolumeInv, CommandInv, SeamsTypeOK
<1>2. QED
  BY <1>1, SeamsStart, SeamsStep, PTL DEF SeamsSpec

\* Of the composition: nothing a worker handed over is left without a flag, it
\* arrives once and in order, as through a Mailbox, and no callback is called
\* with a pointer to what is gone.
THEOREM SeamsStayRight ==
  SeamsSpec => [](NothingStranded /\ InOrderOnce /\ NeverDangling) /\ ImplementsMailboxSafety
<1>1. SeamsInv => NothingStranded /\ InOrderOnce /\ NeverDangling
  BY SoundSuffices DEF SeamsInv, HandoffInv
<1>2. SeamsInit => Abstract!Init
  BY MailboxStart DEF SeamsInit
<1>3. SeamsInv /\ [SeamsNext]_seamVars => [Abstract!Next]_(Abstract!vars)
  BY SeamsAct, MailboxStep DEF SeamsInv
<1>4. QED
  BY <1>1, <1>2, <1>3, SeamsStart, SeamsStep, PTL DEF SeamsSpec, ImplementsMailboxSafety, Abstract!Safety
=============================================================================
