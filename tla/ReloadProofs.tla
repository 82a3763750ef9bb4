----------------------------- MODULE ReloadProofs -----------------------------
(***************************************************************************)
(* Theorems about Reload, for any names, clients and number of runs: what a *)
(* settled reload takes off the bar is what the awaited run left out, and   *)
(* when that run was alone all of it.                                       *)
(***************************************************************************)
EXTENDS Reload, FiniteSetTheorems, TLAPS

Message == [from : Sender, op : Op, name : Name]

\* What the proofs need of the variables' types.
Typed ==
  /\ items \in [Entity -> Name \cup {Nobody}] /\ spawning \in [Entity -> Name \cup {Nobody}]
  /\ marking \in [Entity -> {"keep", "mark", "lift"}]
  /\ marked \subseteq Entity /\ kept \subseteq Entity /\ despawning \subseteq Entity
  /\ index \in [Name -> Entity \cup {None}]
  /\ run \in [Run -> [phase : Phase, ok : BOOLEAN]]
  /\ inbox \in Seq(Message)

\* Which entities have their mark once the commands are applied.
ToBeMarked(e) == marking[e] = "mark" \/ (e \in marked /\ marking[e] = "keep")

\* Outside the batch no command is waiting to be applied, and no request.
Applied == /\ main \in {"parked", "updating", "settling"} =>
                spawning = NoSpawns /\ marking = NoMarks /\ despawning = {}
           /\ main \in {"updating", "settling"} => inbox = <<>>

\* What was touched for the awaited run is not marked.
KeptUnmarked == \A e \in kept : ~ToBeMarked(e)

\* Only what there is carries a mark.
MarkedLive == \A e \in Entity : ToBeMarked(e) => items[e] # Nobody

\* While the awaited run is alone, whoever asks for something is it or no config,
Alone == watch # None /\ ~shared
OnlyItsRequests ==
  Alone => /\ \A k \in 1 .. Len(inbox) : inbox[k].from \in Outsider \cup {watch}
           /\ \A r \in Run : run[r].phase = "running" => r = watch

\* and whatever is there, or will be once the commands are applied, is marked
\* still or was touched.
MarkedOrKept ==
  Alone => \A e \in Entity : items[e] # Nobody \/ spawning[e] # Nobody
                               => e \in kept \/ ToBeMarked(e)

IInv == Typed /\ Applied /\ KeptUnmarked /\ MarkedLive /\ OnlyItsRequests /\ MarkedOrKept

-----------------------------------------------------------------------------
\* A request that arrives is its sender's: a config's while it runs.
LEMMA DeliverKeeps ==
  ASSUME IInv, NEW s \in Sender, NEW op \in Op, NEW n \in Name, Deliver(s, op, n),
         s \in Outsider \/ (s \in Run /\ run[s].phase = "running")
  PROVE  IInv'
<1> DEFINE q == [from |-> s, op |-> op, name |-> n]
<1>1. /\ UNCHANGED <<main, items, marked, index, spawning, marking, despawning, watch, run, shared, kept>>
      /\ main \in {"parked", "nested"} /\ inbox' = Append(inbox, q)
  BY DEF Deliver, world, commands
<1>2. inbox \in Seq(Message) /\ q \in Message
  BY DEF IInv, Typed, Message
<1>3. /\ inbox' \in Seq(Message)
      /\ \A k \in 1 .. Len(inbox') : inbox'[k] = q \/ (k \in 1 .. Len(inbox) /\ inbox'[k] = inbox[k])
  BY <1>1, <1>2
<1>4. Typed'
  BY <1>1, <1>3 DEF IInv, Typed
<1>5. OnlyItsRequests'
  <2>1. Alone => s \in Outsider \cup {watch}
    BY DEF IInv, OnlyItsRequests
  <2>2. q.from = s
    OBVIOUS
  <2> HIDE DEF q
  <2>3. QED
    BY <1>1, <1>3, <2>1, <2>2 DEF IInv, OnlyItsRequests, Alone
<1>6. (Applied /\ KeptUnmarked /\ MarkedLive /\ MarkedOrKept)'
  BY <1>1 DEF IInv, Applied, KeptUnmarked, MarkedLive, MarkedOrKept, ToBeMarked, Alone
<1>7. QED
  BY <1>4, <1>5, <1>6 DEF IInv

\* A run that goes on without asking for anything, and what else passes the items
\* by.
LEMMA BesideKeeps ==
  ASSUME IInv,
         \/ \E r \in Run : SendOutcome(r) \/ Signal(r) \/ \E ok \in BOOLEAN : ConfigExits(r, ok)
         \/ Save \/ WindowCloses \/ BeginPass \/ Reenter \/ Return \/ UNCHANGED vars
  PROVE  IInv'
<1>1. CASE UNCHANGED vars
  BY <1>1 DEF vars, world, commands, reloadVars, IInv, Typed, Applied, KeptUnmarked, MarkedLive,
              OnlyItsRequests, MarkedOrKept, ToBeMarked, Alone
<1>2. ASSUME NEW r \in Run, SendOutcome(r) \/ Signal(r) \/ \E ok \in BOOLEAN : ConfigExits(r, ok)
      PROVE  IInv'
  <2>1. UNCHANGED <<main, inbox, items, marked, index, spawning, marking, despawning, watch, shared, kept>>
    BY <1>2 DEF SendOutcome, Signal, ConfigExits, world, commands
  <2>2. /\ run' \in [Run -> [phase : Phase, ok : BOOLEAN]]
        /\ \A t \in Run : run'[t].phase = "running" => run[t].phase = "running"
    <3>1. \A t \in Run : run[t].phase \in Phase /\ run[t].ok \in BOOLEAN
      BY DEF IInv, Typed
    <3>2. CASE SendOutcome(r)
      BY <3>1, <3>2 DEF SendOutcome, IInv, Typed, Phase
    <3>3. CASE Signal(r)
      BY <3>1, <3>3 DEF Signal, IInv, Typed, Phase
    <3>4. CASE \E ok \in BOOLEAN : ConfigExits(r, ok)
      BY <3>4 DEF ConfigExits, IInv, Typed, Phase
    <3>5. QED
      BY <1>2, <3>2, <3>3, <3>4
  <2>3. QED
    BY <2>1, <2>2 DEF IInv, Typed, Applied, KeptUnmarked, MarkedLive,
                      OnlyItsRequests, MarkedOrKept, ToBeMarked, Alone
<1>3. CASE Save \/ WindowCloses \/ BeginPass
  <2>1. /\ UNCHANGED <<inbox, items, marked, index, spawning, marking, despawning, watch, run, shared, kept>>
        /\ main' = main \/ main' = "applying"
    BY <1>3 DEF Save, WindowCloses, BeginPass, world, commands
  <2>2. QED
    BY <2>1 DEF IInv, Typed, Applied, KeptUnmarked, MarkedLive,
                OnlyItsRequests, MarkedOrKept, ToBeMarked, Alone
<1>4. CASE Reenter \/ Return
  <2>1. /\ UNCHANGED <<items, marked, index, spawning, marking, despawning, watch, run, shared, kept>>
        /\ main' \in {"nested", "applying"}
        /\ inbox' = inbox \/ (inbox # <<>> /\ inbox' = Tail(inbox))
    BY <1>4 DEF Reenter, Return, world, commands, reloadVars
  <2>2. /\ inbox' \in Seq(Message)
        /\ \A k \in 1 .. Len(inbox') : \E j \in 1 .. Len(inbox) : inbox'[k] = inbox[j]
    <3>1. inbox \in Seq(Message)
      BY DEF IInv, Typed
    <3>2. CASE inbox' = inbox
      BY <3>1, <3>2
    <3>3. CASE inbox # <<>> /\ inbox' = Tail(inbox)
      <4>1. \A k \in 1 .. Len(Tail(inbox)) : k + 1 \in 1 .. Len(inbox) /\ Tail(inbox)[k] = inbox[k + 1]
        BY <3>1, <3>3
      <4>2. QED
        BY <3>1, <3>3, <4>1
    <3>4. QED
      BY <2>1, <3>2, <3>3
  <2>3. Typed' /\ OnlyItsRequests'
    BY <2>1, <2>2 DEF IInv, Typed, OnlyItsRequests, Alone
  <2>4. QED
    BY <2>1, <2>3 DEF IInv, Applied, KeptUnmarked, MarkedLive, MarkedOrKept, ToBeMarked, Alone
<1>5. QED
  BY <1>1, <1>2, <1>3, <1>4

\* Touching items lifts their marks, and keeps them for the awaited run if it is
\* the awaited run's doing or no config's.
LEMMA TouchKeeps ==
  ASSUME IInv, NEW s, NEW set \in SUBSET Entity, Touch(s, set),
         Alone => s \in Outsider \cup {watch},
         UNCHANGED <<items, marked, spawning, watch, shared>>
  PROVE  /\ marking' \in [Entity -> {"keep", "mark", "lift"}] /\ kept' \subseteq Entity
         /\ (KeptUnmarked /\ MarkedLive /\ MarkedOrKept)'
<1>1. /\ marking' = [e \in Entity |-> IF e \in set THEN "lift" ELSE marking[e]]
      /\ kept \subseteq kept' /\ kept' \subseteq kept \cup set
      /\ Alone => kept' = kept \cup set
  BY DEF Touch, Lift
<1>2. /\ marking' \in [Entity -> {"keep", "mark", "lift"}] /\ kept' \subseteq Entity
  BY <1>1 DEF IInv, Typed
<1>3. \A e \in Entity : ToBeMarked(e)' <=> ToBeMarked(e) /\ e \notin set
  BY <1>1 DEF ToBeMarked, IInv, Typed
<1>4. KeptUnmarked'
  BY <1>1, <1>2, <1>3 DEF KeptUnmarked, IInv
<1>5. MarkedLive' /\ MarkedOrKept'
  BY <1>1, <1>3 DEF MarkedLive, MarkedOrKept, IInv, Alone
<1>6. QED
  BY <1>2, <1>4, <1>5

LEMMA ApplyKeeps ==
  ASSUME IInv, Apply
  PROVE  IInv'
<1> DEFINE q == Head(inbox)
<1>1. /\ UNCHANGED <<main, items, marked, watch, run, shared>>
      /\ main = "applying" /\ inbox # <<>> /\ inbox' = Tail(inbox)
      /\ \/ q.op = "add" /\ Add(q.from, q.name)
         \/ q.op = "set" /\ Set(q.from, q.name)
         \/ q.op = "setAll" /\ SetAll(q.from)
         \/ q.op = "remove" /\ Remove(q.name)
         \/ q.op = "removeAll" /\ RemoveAll
         \/ q.op = "begin" /\ BeginConfig
         \/ q.op = "end" /\ EndConfig
         \/ q.op = "reload" /\ UNCHANGED <<index, commands, kept>>
  BY DEF Apply
<1>2. inbox \in Seq(Message)
  BY DEF IInv, Typed
<1>3. /\ q \in Message /\ q = inbox[1] /\ 1 \in 1 .. Len(inbox)
      /\ Tail(inbox) \in Seq(Message)
      /\ \A k \in 1 .. Len(Tail(inbox)) : k + 1 \in 1 .. Len(inbox) /\ Tail(inbox)[k] = inbox[k + 1]
  BY <1>1, <1>2
<1>4. Alone => q.from \in Outsider \cup {watch}
  BY <1>3 DEF IInv, OnlyItsRequests
<1>5. q.name \in Name
  BY <1>3 DEF Message
<1> HIDE DEF q
<1>6. Applied' /\ OnlyItsRequests'
  BY <1>1, <1>3 DEF IInv, Applied, OnlyItsRequests, Alone
<1>7. index[q.name] \in Entity \cup {None} /\ Live \subseteq Entity
  BY <1>5 DEF IInv, Typed, Live
<1> DEFINE Rest == /\ spawning' \in [Entity -> Name \cup {Nobody}]
                   /\ marking' \in [Entity -> {"keep", "mark", "lift"}]
                   /\ kept' \subseteq Entity /\ despawning' \subseteq Entity
                   /\ index' \in [Name -> Entity \cup {None}]
                   /\ (KeptUnmarked /\ MarkedLive /\ MarkedOrKept)'
<1>8. ASSUME NEW set \in SUBSET Entity, Touch(q.from, set), UNCHANGED <<index, spawning, despawning>>
      PROVE  Rest
  <2>1. /\ marking' \in [Entity -> {"keep", "mark", "lift"}] /\ kept' \subseteq Entity
        /\ (KeptUnmarked /\ MarkedLive /\ MarkedOrKept)'
    BY <1>1, <1>4, <1>8, TouchKeeps
  <2>2. QED
    BY <1>8, <2>1 DEF IInv, Typed
<1>9. ASSUME UNCHANGED <<spawning, marking, kept>>, despawning' \subseteq Entity,
             index' \in [Name -> Entity \cup {None}]
      PROVE  Rest
  BY <1>1, <1>9 DEF IInv, Typed, KeptUnmarked, MarkedLive, MarkedOrKept, ToBeMarked, Alone
<1>10. ASSUME Add(q.from, q.name) PROVE Rest
  <2>1. CASE /\ index[q.name] # None
             /\ Touch(q.from, {index[q.name]})
             /\ UNCHANGED <<index, spawning, despawning>>
    BY <1>7, <1>8, <2>1
  <2>2. CASE /\ index[q.name] = None
             /\ \E e \in Entity \ InUse :
                  /\ \A f \in Entity \ InUse : e <= f
                  /\ spawning' = [spawning EXCEPT ![e] = q.name]
                  /\ index' = [index EXCEPT ![q.name] = e]
                  /\ kept' = IF q.from \in Outsider \/ q.from = watch THEN kept \cup {e} ELSE kept
             /\ UNCHANGED <<marking, despawning>>
    <3>1. PICK e \in Entity \ InUse :
            /\ spawning' = [spawning EXCEPT ![e] = q.name]
            /\ index' = [index EXCEPT ![q.name] = e]
            /\ kept' = IF q.from \in Outsider \/ q.from = watch THEN kept \cup {e} ELSE kept
      BY <2>2
    <3>2. items[e] = Nobody
      BY <3>1 DEF InUse, Live
    <3>3. ~ToBeMarked(e)
      BY <3>1, <3>2 DEF IInv, MarkedLive
    <3>4. \A f \in Entity : ToBeMarked(f)' = ToBeMarked(f)
      BY <1>1, <2>2 DEF ToBeMarked
    <3>5. \A f \in Entity : f # e => spawning'[f] = spawning[f]
      BY <3>1 DEF IInv, Typed
    <3>6. MarkedOrKept'
      BY <1>1, <1>4, <3>1, <3>4, <3>5 DEF IInv, MarkedOrKept, Alone
    <3>7. MarkedLive' /\ KeptUnmarked'
      BY <1>1, <3>1, <3>3, <3>4 DEF IInv, MarkedLive, KeptUnmarked, Typed
    <3>8. QED
      BY <1>5, <2>2, <3>1, <3>6, <3>7 DEF IInv, Typed
  <2>3. QED
    BY <1>10, <2>1, <2>2 DEF Add
<1>11. ASSUME BeginConfig PROVE Rest
  <2>1. /\ marking' = [e \in Entity |-> IF e \in Live THEN "mark" ELSE marking[e]]
        /\ kept' = kept \ Live /\ UNCHANGED <<index, spawning, despawning>>
    BY <1>11 DEF BeginConfig, Mark
  <2>2. \A e \in Entity : ToBeMarked(e)' <=> ToBeMarked(e) \/ e \in Live
    BY <1>1, <2>1 DEF ToBeMarked
  <2>3. KeptUnmarked' /\ MarkedLive' /\ MarkedOrKept'
    BY <1>1, <2>1, <2>2 DEF IInv, Typed, KeptUnmarked, MarkedLive, MarkedOrKept, Alone, Live
  <2>4. QED
    BY <2>1, <2>3 DEF IInv, Typed
<1>12. \A set \in SUBSET Entity :
         Forget(set) => index' \in [Name -> Entity \cup {None}] /\ despawning' \subseteq Entity
  BY DEF Forget, IInv, Typed
<1>13. marked \in SUBSET Entity
  BY DEF IInv, Typed
<1>14. Rest
  <2>1. CASE q.op = "add" /\ Add(q.from, q.name)
    BY <1>10, <2>1
  <2>2. CASE Set(q.from, q.name)
    BY <1>7, <1>8, <2>2 DEF Set
  <2>3. CASE SetAll(q.from)
    BY <1>7, <1>8, <2>3 DEF SetAll
  <2>4. CASE Remove(q.name)
    <3>1. despawning' \subseteq Entity /\ index' \in [Name -> Entity \cup {None}]
      BY <1>5, <1>7, <2>4 DEF Remove, IInv, Typed
    <3>2. QED
      BY <1>9, <2>4, <3>1 DEF Remove
  <2>5. CASE RemoveAll
    BY <1>7, <1>9, <1>12, <2>5 DEF RemoveAll
  <2>6. CASE BeginConfig
    BY <1>11, <2>6
  <2>7. CASE EndConfig
    BY <1>9, <1>12, <1>13, <2>7 DEF EndConfig
  <2>8. CASE UNCHANGED <<index, commands, kept>>
    <3>1. despawning' \subseteq Entity /\ index' \in [Name -> Entity \cup {None}]
      BY <2>8 DEF commands, IInv, Typed
    <3>2. QED
      BY <1>9, <2>8, <3>1 DEF commands
  <2>9. QED
    BY <1>1, <2>1, <2>2, <2>3, <2>4, <2>5, <2>6, <2>7, <2>8
<1>15. Typed'
  BY <1>1, <1>3, <1>14 DEF IInv, Typed
<1>16. QED
  BY <1>6, <1>14, <1>15 DEF IInv

\* Applying the commands leaves whoever is still there with the mark it was to
\* have.
LEMMA FlushKeeps ==
  ASSUME IInv, Flush
  PROVE  IInv'
<1> DEFINE after == [e \in Entity |-> IF e \in despawning THEN Nobody
                                      ELSE IF spawning[e] # Nobody THEN spawning[e] ELSE items[e]]
           present == {e \in Entity : after[e] # Nobody}
<1>1. /\ UNCHANGED <<inbox, index, watch, run, shared>> /\ inbox = <<>> /\ main' = "updating"
      /\ items' = after /\ marked' = Marks(present) /\ kept' = kept \cap present
      /\ spawning' = NoSpawns /\ marking' = NoMarks /\ despawning' = {}
  BY DEF Flush, reloadVars
<1>2. after \in [Entity -> Name \cup {Nobody}]
  BY DEF IInv, Typed
<1>3. Typed'
  BY <1>1, <1>2 DEF IInv, Typed, NoSpawns, NoMarks, Marks
<1>4. \A e \in Entity : ToBeMarked(e)' <=> ToBeMarked(e) /\ e \in present
  BY <1>1 DEF ToBeMarked, Marks, NoMarks
<1>5. Applied' /\ OnlyItsRequests'
  BY <1>1 DEF IInv, Applied, OnlyItsRequests, Alone
<1>6. KeptUnmarked' /\ MarkedLive'
  BY <1>1, <1>2, <1>4 DEF IInv, Typed, KeptUnmarked, MarkedLive
<1>7. MarkedOrKept'
  <2> SUFFICES ASSUME Alone, NEW e \in Entity, items'[e] # Nobody \/ spawning'[e] # Nobody
               PROVE  e \in kept' \/ ToBeMarked(e)'
    BY <1>1 DEF MarkedOrKept, Alone
  <2>1. e \in present
    BY <1>1 DEF NoSpawns
  <2>2. items[e] # Nobody \/ spawning[e] # Nobody
    BY <2>1
  <2>3. QED
    BY <1>1, <1>4, <2>1, <2>2 DEF IInv, MarkedOrKept
<1>8. QED
  BY <1>3, <1>5, <1>6, <1>7 DEF IInv

\* A run begins with everything marked, and with nothing on its way to be there.
LEMMA ReloadConfigKeeps ==
  ASSUME IInv, ReloadConfig
  PROVE  IInv'
<1>1. /\ UNCHANGED <<inbox, items, index, spawning, marking, despawning>>
      /\ main = "updating" /\ main' = "settling"
  BY DEF ReloadConfig, commands
<1>2. spawning = NoSpawns /\ marking = NoMarks /\ despawning = {} /\ inbox = <<>>
  BY <1>1 DEF IInv, Applied
<1>3. CASE UNCHANGED <<marked, kept, watch, shared, run>>
  BY <1>1, <1>2, <1>3 DEF IInv, Typed, Applied, KeptUnmarked, MarkedLive, OnlyItsRequests,
                          MarkedOrKept, ToBeMarked, Alone
<1>4. CASE /\ marked' = AllStale /\ kept' = {}
           /\ watch' = Started + 1
           /\ shared' = (\E r \in Run : run[r].phase = "running")
           /\ run' = [run EXCEPT ![Started + 1].phase = "running"]
  <2> DEFINE k == Started + 1
  <2>1. /\ watch' = k /\ shared' = (\E r \in Run : run[r].phase = "running")
        /\ run' = [run EXCEPT ![k].phase = "running"]
    BY <1>4
  <2> HIDE DEF k
  <2>2. /\ run' \in [Run -> [phase : Phase, ok : BOOLEAN]]
        /\ \A r \in Run : r # k => run'[r] = run[r]
    BY <2>1 DEF IInv, Typed, Phase
  <2>3. OnlyItsRequests'
    BY <1>1, <1>2, <2>1, <2>2 DEF OnlyItsRequests, Alone
  <2>4. \A e \in Entity : ToBeMarked(e)' <=> items[e] # Nobody
    BY <1>1, <1>2, <1>4 DEF ToBeMarked, NoMarks, AllStale, Live
  <2>5. KeptUnmarked' /\ MarkedLive' /\ MarkedOrKept'
    BY <1>1, <1>2, <1>4, <2>4 DEF KeptUnmarked, MarkedLive, MarkedOrKept, NoSpawns
  <2>6. Typed' /\ Applied'
    BY <1>1, <1>2, <1>4, <2>2 DEF IInv, Typed, Applied, AllStale, Live
  <2>7. QED
    BY <2>3, <2>5, <2>6 DEF IInv
<1>5. QED
  BY <1>3, <1>4 DEF ReloadConfig, Start, RunBegins, NoRunBegins

LEMMA SettleReloadKeeps ==
  ASSUME IInv, SettleReload
  PROVE  IInv'
<1>1. /\ UNCHANGED <<inbox, spawning, marking, despawning, run, shared, kept>>
      /\ main = "settling" /\ main' = "parked"
  BY DEF SettleReload, commands
<1>2. spawning = NoSpawns /\ marking = NoMarks /\ despawning = {}
  BY <1>1 DEF IInv, Applied
<1>3. CASE UNCHANGED <<items, marked, index, watch>>
  BY <1>1, <1>2, <1>3 DEF IInv, Typed, Applied, KeptUnmarked, MarkedLive, OnlyItsRequests,
                          MarkedOrKept, ToBeMarked, Alone
<1>4. CASE /\ watch' = None /\ marked' = {}
           /\ \/ /\ items' = [e \in Entity |-> IF e \in marked THEN Nobody ELSE items[e]]
                 /\ index' = [n \in Name |-> IF \E e \in marked : items[e] = n
                                             THEN None ELSE index[n]]
              \/ UNCHANGED <<items, index>>
  <2>1. items' \in [Entity -> Name \cup {Nobody}] /\ index' \in [Name -> Entity \cup {None}]
    BY <1>4 DEF IInv, Typed
  <2>2. \A e \in Entity : ~ToBeMarked(e)'
    BY <1>1, <1>2, <1>4 DEF ToBeMarked, NoMarks
  <2>3. Typed'
    BY <1>1, <1>4, <2>1 DEF IInv, Typed
  <2>4. QED
    BY <1>1, <1>2, <1>4, <2>2, <2>3 DEF IInv, Typed, Applied, KeptUnmarked, MarkedLive, OnlyItsRequests,
                                    MarkedOrKept, Alone
<1>5. QED
  BY <1>3, <1>4 DEF SettleReload, world

LEMMA IInvAlways == Spec => []IInv
<1>1. Init => IInv
  BY DEF Init, IInv, Typed, Applied, KeptUnmarked, MarkedLive, OnlyItsRequests, MarkedOrKept,
         ToBeMarked, Alone, NoSpawns, NoMarks, Phase
<1>2. IInv /\ [Next]_vars => IInv'
  <2> SUFFICES ASSUME IInv, [Next]_vars PROVE IInv'
    OBVIOUS
  <2>0. Unnamed \in Name
    BY ReloadAssumption DEF Unnamed
  <2>1. ASSUME NEW o \in Outsider, OutsiderCalls(o) PROVE IInv'
    <3>1. o \in Sender
      BY DEF Sender
    <3>2. PICK op \in Op, n \in Name : Deliver(o, op, n)
      BY <2>0, <2>1 DEF OutsiderCalls, Op
    <3>3. QED
      BY <3>1, <3>2, DeliverKeeps
  <2>2. ASSUME NEW r \in Run, ConfigCalls(r) PROVE IInv'
    <3>1. r \in Sender /\ run[r].phase = "running"
      BY <2>2 DEF Sender, ConfigCalls
    <3>2. PICK op \in Op, n \in Name : Deliver(r, op, n)
      BY <2>0, <2>2 DEF ConfigCalls, Op
    <3>3. QED
      BY <3>1, <3>2, DeliverKeeps
  <2>3. CASE Save \/ WindowCloses \/ BeginPass \/ Reenter \/ Return \/ UNCHANGED vars
    BY <2>3, BesideKeeps
  <2>4. ASSUME NEW r \in Run, SendOutcome(r) \/ Signal(r) \/ \E ok \in BOOLEAN : ConfigExits(r, ok)
        PROVE  IInv'
    BY <2>4, BesideKeeps
  <2>5. CASE Apply \/ Flush \/ ReloadConfig \/ SettleReload
    BY <2>5, ApplyKeeps, FlushKeeps, ReloadConfigKeeps, SettleReloadKeeps
  <2>6. QED
    BY <2>1, <2>2, <2>3, <2>4, <2>5 DEF Next, ConfigRuns
<1>3. QED
  BY <1>1, <1>2, PTL DEF Spec

-----------------------------------------------------------------------------
LEMMA StartedCounts == Started \in Nat
<1>1. IsFiniteSet(Run)
  BY ReloadAssumption, FS_Interval DEF Run
<1>2. IsFiniteSet({r \in Run : run[r].phase # "none"})
  BY <1>1, FS_Subset
<1>3. QED
  BY <1>2, FS_CardinalityType DEF Started

\* A settled reload sweeps off no item that was touched since it began, by its
\* own run or by whoever is no config; and no item goes but by a request or by
\* the awaited run's success.
THEOREM SweptRightly == Spec => SweepsNoMore
<1>1. IInv /\ [Next]_vars => [Settles => Swept \cap kept = {}]_vars
  <2> SUFFICES ASSUME IInv, Next, Settles PROVE Swept \cap kept = {}
    OBVIOUS
  <2>1. CASE SettleReload
    <3>1. \A e \in Entity : items[e] # Nobody /\ items'[e] = Nobody => e \in marked
      BY <2>1 DEF SettleReload, world, IInv, Typed
    <3>2. marking = NoMarks
      BY <2>1 DEF SettleReload, IInv, Applied
    <3>3. \A e \in Entity : e \in kept => e \notin marked
      BY <3>2 DEF IInv, KeptUnmarked, ToBeMarked, NoMarks
    <3>4. QED
      BY <3>1, <3>3 DEF Swept, Live
  <2>2. CASE ~SettleReload
    <3>1. watch' = watch \/ items' = items
      BY <2>2 DEF Next, OutsiderCalls, ConfigRuns, ConfigCalls, Deliver, SendOutcome, Signal,
                  ConfigExits, Save, WindowCloses, BeginPass, Apply, Reenter, Return, Flush, ReloadConfig,
                  world, reloadVars
    <3>2. QED
      BY <3>1 DEF Settles, Swept, Live
  <2>3. QED
    BY <2>1, <2>2
<1>2. IInv /\ [Next]_vars
        => [Swept # {} => (despawning # {} \/ (watch # None /\ run[watch].ok))]_vars
  <2> SUFFICES ASSUME IInv, Next, Swept # {}
               PROVE  despawning # {} \/ (watch # None /\ run[watch].ok)
    OBVIOUS
  <2>1. PICK e \in Entity : items[e] # Nobody /\ items'[e] = Nobody
    BY DEF Swept, Live
  <2>2. CASE SettleReload
    BY <2>1, <2>2 DEF SettleReload, world, Answered, Sweeps
  <2>3. CASE Flush
    <3>1. items'[e] = IF e \in despawning THEN Nobody
                      ELSE IF spawning[e] # Nobody THEN spawning[e] ELSE items[e]
      BY <2>3 DEF Flush
    <3>2. QED
      BY <2>1, <3>1
  <2>4. CASE ~SettleReload /\ ~Flush
    <3>1. items' = items
      BY <2>4 DEF Next, OutsiderCalls, ConfigRuns, ConfigCalls, Deliver, SendOutcome, Signal,
                  ConfigExits, Save, WindowCloses, BeginPass, Apply, Reenter, Return, ReloadConfig, world
    <3>2. QED
      BY <2>1, <3>1
  <2>5. QED
    BY <2>2, <2>3, <2>4
<1>3. QED
  BY IInvAlways, <1>1, <1>2, PTL DEF Spec, SweepsNoMore

\* When a config that ran alone has succeeded, what is left on the bar is what was
\* touched since it began.
THEOREM LeftOutIsDropped == Spec => DropsWhatWasLeftOut
<1>1. IInv /\ [Next]_vars
        => [(Settles /\ run[watch].ok /\ ~shared) => Live \ Swept \subseteq kept]_vars
  <2> SUFFICES ASSUME IInv, Next, Settles, run[watch].ok, ~shared,
                      NEW e \in Live \ Swept
               PROVE  e \in kept
    OBVIOUS
  <2>1. Alone
    BY DEF Settles, Alone
  <2>2. SettleReload
    <3>1. SettleReload \/ watch' = watch \/ watch' = Started + 1
      BY DEF Next, OutsiderCalls, ConfigRuns, ConfigCalls, Deliver, SendOutcome, Signal,
             ConfigExits, Save, WindowCloses, BeginPass, Apply, Reenter, Return, Flush, ReloadConfig, Start,
             RunBegins, NoRunBegins, reloadVars
    <3>2. Started \in Nat
      BY StartedCounts
    <3>3. QED
      BY <3>1, <3>2 DEF Settles, None
  <2>3. items' = [f \in Entity |-> IF f \in marked THEN Nobody ELSE items[f]]
    BY <2>1, <2>2 DEF SettleReload, Answered, Sweeps, Settles
  <2>4. e \in Entity /\ items[e] # Nobody /\ e \notin marked
    BY <2>3 DEF Live, Swept
  <2>5. marking = NoMarks
    BY <2>2 DEF SettleReload, IInv, Applied
  <2>6. ~ToBeMarked(e)
    BY <2>4, <2>5 DEF ToBeMarked, NoMarks
  <2>7. QED
    BY <2>1, <2>4, <2>6 DEF IInv, MarkedOrKept
<1>2. QED
  BY IInvAlways, <1>1, PTL DEF Spec, DropsWhatWasLeftOut
=============================================================================
