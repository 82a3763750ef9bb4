------------------------------- MODULE Volume -------------------------------
(***************************************************************************)
(* The volume source's listeners (sources/volume.rs): one on the default    *)
(* output device changing, and a set of them on whichever device that is.   *)
(* CoreAudio calls back on a thread of its own, and the callback moves the   *)
(* listeners itself, so `unlisten` and `relisten` run on two threads.       *)
(***************************************************************************)
EXTENDS Naturals

CONSTANTS OutputDevices, NO_DEVICE

ASSUME VolumeAssumption == NO_DEVICE \notin OutputDevices

VARIABLES
  default,    \* the default output device
  owner,      \* the registration: it is made and torn down by the pool's thread
  device,     \* `Listening::device`, the atomic
  heardFrom,  \* devices CoreAudio holds this context's listeners for
  following,  \* CoreAudio holds the listener on the default device
  announce,   \* a change of the default device is yet to be called back
  at,         \* where each thread is in `relisten` or `unlisten`
  previous,   \* the device it swapped out, to remove the listeners from
  found       \* the device it then read

volumeVars == <<default, owner, device, heardFrom, following, announce, at,
                previous, found>>

Threads == {"pool", "audio"}
Possible == OutputDevices \cup {NO_DEVICE}

VolumeTypeOK ==
  /\ default \in Possible /\ device \in Possible
  /\ owner \in {"none", "listening", "refusing", "live", "stopping", "removing", "gone"}
  /\ heardFrom \subseteq OutputDevices
  /\ following \in BOOLEAN /\ announce \in BOOLEAN
  /\ at \in [Threads -> {"out", "swap", "remove", "read", "add", "store"}]
  /\ previous \in [Threads -> Possible] /\ found \in [Threads -> Possible]

VolumeInit ==
  /\ default \in OutputDevices
  /\ owner = "none" /\ device = NO_DEVICE
  /\ heardFrom = {} /\ following = FALSE /\ announce = FALSE
  /\ at = [t \in Threads |-> "out"]
  /\ previous = [t \in Threads |-> NO_DEVICE]
  /\ found = [t \in Threads |-> NO_DEVICE]

Go(t, to) == at' = [at EXCEPT ![t] = to]

(***************************************************************************)
(* `relisten` is `unlisten` and then the new device; both threads run it.   *)
(***************************************************************************)
\* Whether the `unlisten` a thread is in is one of a `relisten`.
Relistens(t) == t = "audio" \/ owner = "listening"

\* The atomic is swapped; nothing to remove when nothing was listened to.
Swap(t) ==
  /\ at[t] = "swap"
  /\ previous' = [previous EXCEPT ![t] = device]
  /\ device' = NO_DEVICE
  /\ Go(t, IF device # NO_DEVICE THEN "remove"
           ELSE IF Relistens(t) THEN "read" ELSE "out")
  /\ UNCHANGED <<default, owner, heardFrom, following, announce, found>>

Removes(t) == heardFrom \ {previous[t]}

RemoveListeners(t) ==
  /\ at[t] = "remove"
  /\ heardFrom' = Removes(t)
  /\ Go(t, IF Relistens(t) THEN "read" ELSE "out")
  /\ UNCHANGED <<default, owner, device, following, announce, previous, found>>

ReadDefault(t) ==
  /\ at[t] = "read"
  /\ found' = [found EXCEPT ![t] = default]
  /\ Go(t, IF default = NO_DEVICE THEN "out" ELSE "add")
  /\ UNCHANGED <<default, owner, device, heardFrom, following, announce, previous>>

\* A device may refuse all four, which is only logged.
AddListeners(t) ==
  /\ at[t] = "add"
  /\ heardFrom' \in {heardFrom, heardFrom \cup {found[t]}}
  /\ Go(t, "store")
  /\ UNCHANGED <<default, owner, device, following, announce, previous, found>>

StoreDevice(t) ==
  /\ at[t] = "store"
  /\ device' = found[t]
  /\ Go(t, "out")
  /\ UNCHANGED <<default, owner, heardFrom, following, announce, previous, found>>

(***************************************************************************)
(* The pool's thread.                                                      *)
(***************************************************************************)
InstallVolume ==
  /\ owner = "none" /\ default # NO_DEVICE
  /\ owner' = "listening" /\ Go("pool", "swap")
  /\ UNCHANGED <<default, device, heardFrom, following, announce, previous, found>>

\* The listener on the default device comes last; refused, the rest is undone.
Follow ==
  /\ owner = "listening" /\ at["pool"] = "out"
  /\ \/ owner' = "live" /\ following' = TRUE /\ UNCHANGED at
     \/ owner' = "refusing" /\ UNCHANGED following /\ Go("pool", "swap")
  /\ UNCHANGED <<default, device, heardFrom, announce, previous, found>>

\* The teardown of the `Callback`: `unlisten`, the listener on the default
\* device, and then the context itself.
StopVolume ==
  /\ owner = "live"
  /\ owner' = "stopping" /\ Go("pool", "swap")
  /\ UNCHANGED <<default, device, heardFrom, following, announce, previous, found>>

StopFollowing ==
  /\ owner = "stopping" /\ at["pool"] = "out"
  /\ following' = FALSE /\ owner' = "removing"
  /\ UNCHANGED <<default, device, heardFrom, announce, at, previous, found>>

Reclaim ==
  /\ owner \in {"removing", "refusing"} /\ at["pool"] = "out"
  /\ owner' = "gone"
  /\ UNCHANGED <<default, device, heardFrom, following, announce, at, previous, found>>

(***************************************************************************)
(* CoreAudio.                                                              *)
(***************************************************************************)
DefaultMoves ==
  /\ \E d \in Possible \ {default} : default' = d
  /\ announce' = (announce \/ following)
  /\ UNCHANGED <<owner, device, heardFrom, following, at, previous, found>>

\* `device_changed`, on CoreAudio's own thread.
DeviceChanged ==
  /\ announce /\ following /\ at["audio"] = "out"
  /\ announce' = FALSE
  /\ Go("audio", "swap")
  /\ UNCHANGED <<default, owner, device, heardFrom, following, previous, found>>

VolumeNext ==
  \/ \E t \in Threads : Swap(t) \/ RemoveListeners(t) \/ ReadDefault(t) \/ AddListeners(t) \/ StoreDevice(t)
  \/ InstallVolume \/ Follow \/ StopVolume \/ StopFollowing \/ Reclaim
  \/ DefaultMoves \/ DeviceChanged

VolumeSpec == VolumeInit /\ [][VolumeNext]_volumeVars

(***************************************************************************)
(* Properties.                                                             *)
(***************************************************************************)
\* While the source is live, and neither thread is moving the listeners, it is
\* heard by the listeners of the device it remembers and of no other: a device
\* that stopped being the default is let go of.
ListensToOne ==
  owner = "live" /\ (\A t \in Threads : at[t] = "out") => heardFrom \subseteq {device}
=============================================================================
