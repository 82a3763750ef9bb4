--------------------------- MODULE ConfigProofs ----------------------------
(***************************************************************************)
(* Theorems about configs and the items they make, for any number of       *)
(* configs, items and kinds and any bounds.  LuaHost: whoever calls the    *)
(* daemon is answered or on the way to be, and an item that a config       *)
(* handles is not given to its script.  LuaModules: what a host watches is *)
(* what its config is made of.  LuaApi: a handle that `add` returns is of  *)
(* an item that is as the call said.  Items: no two items have the same    *)
(* order, a client's value stays, and a move moves one item.  And the      *)
(* composition of all this with what is shown (ScreenProofs).              *)
(***************************************************************************)
EXTENDS MCScreen, ScreenProofs, SequenceTheorems, TLAPS

-----------------------------------------------------------------------------
(* LuaHost. *)

\* The entries of a queue of requests.
Entries(q) == {q[k] : k \in 1 .. Len(q)}

Answers == {NoAsk, "ok", "error", "lost"}

LuaHostTypes ==
  /\ transport \in {"direct", "ipc"} /\ daemonUp \in BOOLEAN
  /\ whereabouts \in [LuaRun -> RunStages]
  /\ callbacks \in [LuaRun -> [LuaItems -> SUBSET LuaKinds]]
  /\ toOpen \in [LuaRun -> [LuaItems -> SUBSET LuaKinds]]
  /\ ask \in [LuaRun -> Asks] /\ answer \in [LuaRun -> Answers]
  /\ queued \in Seq(Request) /\ passBatch \in Seq(Request) /\ notified \in BOOLEAN
  /\ feed \in [LuaItems -> LuaRun \cup {NoRun}]
  /\ ends \in [LuaRun -> SUBSET LuaItems]
  /\ opener \in [LuaItems -> LuaRun \cup {NoRun}]
  /\ takenOf \in [LuaItems -> LuaRun \cup {NoRun}]

\* Runs are started in order, and only one that was asks for anything.
InTurn ==
  /\ \A r, q \in LuaRun : q < r /\ whereabouts[r] # "unstarted" => whereabouts[q] # "unstarted"
  /\ \A i \in LuaItems : opener[i] \in LuaRun => whereabouts[opener[i]] # "unstarted"

\* A run opens an item it has no receiving end for, each once, and awaits the
\* answer before it does anything else.
OpensOnce(r) ==
  /\ whereabouts[r] \in {"unstarted", "config"} => ends[r] = {}
  /\ whereabouts[r] = "opening" =>
       \A i \in LuaItems : toOpen[r][i] # {} => i \notin ends[r]
  /\ \A i \in LuaItems : ask[r] = i =>
       /\ whereabouts[r] = "opening" /\ toOpen[r][i] = {}
       /\ transport = "direct" <=> i \in ends[r]

\* Every request the daemon has not taken has a pass asked for, or about to be
\* by the run that queued it, and every call a hosted config awaits is among
\* them or in the pass.
Attended ==
  /\ daemonUp => \A e \in Entries(queued) :
                    notified \/ (transport = "direct" /\ e.run \in telling)
  /\ transport = "direct" /\ daemonUp =>
       \A r \in LuaRun : ask[r] # NoAsk /\ answer[r] = NoAsk =>
         \E e \in Entries(queued) \cup Entries(passBatch) : e.run = r /\ e.what = ask[r]
  /\ transport = "ipc" /\ ~daemonUp => queued = <<>>

\* Over a port, a Subscribe on its way whose port is read has a reader, unless
\* its config has ended.
Asked(r, i) == \E e \in Entries(queued) \cup Entries(passBatch) :
                 e.run = r /\ e.what = i /\ e.open
Read(r, i) == Receives(r, i) \/ whereabouts[r] \in {"ended", "failed"}
ReaderStays(r, i) == transport = "ipc" /\ Asked(r, i) => Read(r, i)

\* ... so what the daemon has taken since a run last asked is what it asked for.
TakenAnew(r, i) ==
  transport = "ipc" /\ ask[r] = i /\ answer[r] = NoAsk => takenOf[i] # r

Latest(r) == \A q \in LuaRun : q > r => whereabouts[q] = "unstarted"

\* The config that handles an item is where the daemon sends its events.
SentThere(r, i) ==
  daemonUp /\ Receives(r, i) =>
    /\ transport = "ipc" /\ takenOf[i] = r => feed[i] = r
    /\ transport = "direct" /\ opener[i] = r /\ Latest(r) => feed[i] = r

\* The inductive invariant.
LuaHostInv ==
  /\ LuaHostTypes /\ InTurn /\ Attended
  /\ \A r \in LuaRun : OpensOnce(r)
  /\ \A r \in LuaRun, i \in LuaItems : ReaderStays(r, i) /\ TakenAnew(r, i) /\ SentThere(r, i)

-----------------------------------------------------------------------------
\* An empty queue has no entries.
LEMMA EntriesOfNone == Entries(<<>>) = {}
BY DEF Entries

\* A queue one is added to has the entries it had, and that one.
LEMMA EntriesAppend ==
  ASSUME NEW S, NEW q \in Seq(S), NEW e \in S
  PROVE  Entries(Append(q, e)) = Entries(q) \cup {e}
<1>1. Len(Append(q, e)) = Len(q) + 1 /\ Append(q, e)[Len(q) + 1] = e
  OBVIOUS
<1>2. \A k \in 1 .. Len(q) : Append(q, e)[k] = q[k]
  OBVIOUS
<1>3. QED
  BY <1>1, <1>2 DEF Entries

\* The entries of a queue are its head and the entries of the rest.
LEMMA EntriesTail ==
  ASSUME NEW S, NEW q \in Seq(S), q # <<>>
  PROVE  Entries(q) = {Head(q)} \cup Entries(Tail(q))
<1>1. Len(q) \in Nat \ {0} /\ Head(q) = q[1] /\ Len(Tail(q)) = Len(q) - 1
  OBVIOUS
<1>2. \A k \in 1 .. Len(Tail(q)) : Tail(q)[k] = q[k + 1]
  BY HeadTailProperties
<1>3. ASSUME NEW e \in Entries(q) PROVE e \in {Head(q)} \cup Entries(Tail(q))
  <2>1. PICK k \in 1 .. Len(q) : e = q[k]
    BY DEF Entries
  <2>2. CASE k = 1
    BY <1>1, <2>1, <2>2
  <2>3. CASE k # 1
    <3>1. k - 1 \in 1 .. Len(Tail(q)) /\ Tail(q)[k - 1] = e
      BY <1>1, <1>2, <2>1, <2>3
    <3>2. QED
      BY <3>1 DEF Entries
  <2>4. QED
    BY <2>2, <2>3
<1>4. ASSUME NEW e \in {Head(q)} \cup Entries(Tail(q)) PROVE e \in Entries(q)
  <2>1. CASE e = Head(q)
    BY <1>1, <2>1 DEF Entries
  <2>2. ASSUME NEW k \in 1 .. Len(Tail(q)), e = Tail(q)[k] PROVE e \in Entries(q)
    BY <1>1, <1>2, <2>2 DEF Entries
  <2>3. QED
    BY <2>1, <2>2 DEF Entries
<1>5. QED
  BY <1>3, <1>4

\* The entries of two queues end to end are those of either.
LEMMA EntriesConcat ==
  ASSUME NEW S, NEW q \in Seq(S), NEW b \in Seq(S)
  PROVE  Entries(q \o b) = Entries(q) \cup Entries(b)
<1>1. /\ Len(q \o b) = Len(q) + Len(b)
      /\ \A k \in 1 .. Len(q) + Len(b) :
           (q \o b)[k] = IF k <= Len(q) THEN q[k] ELSE b[k - Len(q)]
  BY ConcatProperties
<1>2. Len(q) \in Nat /\ Len(b) \in Nat
  OBVIOUS
<1>3. ASSUME NEW e \in Entries(q \o b) PROVE e \in Entries(q) \cup Entries(b)
  <2>1. PICK k \in 1 .. Len(q) + Len(b) : e = (q \o b)[k]
    BY <1>1 DEF Entries
  <2>2. CASE k <= Len(q)
    <3>1. k \in 1 .. Len(q) /\ e = q[k]
      BY <1>1, <1>2, <2>1, <2>2
    <3>2. QED
      BY <3>1 DEF Entries
  <2>3. CASE k > Len(q)
    <3>1. k - Len(q) \in 1 .. Len(b) /\ e = b[k - Len(q)]
      BY <1>1, <1>2, <2>1, <2>3
    <3>2. QED
      BY <3>1 DEF Entries
  <2>4. QED
    BY <1>2, <2>2, <2>3
<1>4. ASSUME NEW e \in Entries(q) PROVE e \in Entries(q \o b)
  <2>1. PICK k \in 1 .. Len(q) : e = q[k]
    BY DEF Entries
  <2>2. k \in 1 .. Len(q) + Len(b) /\ (q \o b)[k] = e
    BY <1>1, <1>2, <2>1
  <2>3. QED
    BY <1>1, <2>2 DEF Entries
<1>5. ASSUME NEW e \in Entries(b) PROVE e \in Entries(q \o b)
  <2>1. PICK k \in 1 .. Len(b) : e = b[k]
    BY DEF Entries
  <2>2. k + Len(q) \in 1 .. Len(q) + Len(b) /\ (q \o b)[k + Len(q)] = e
    BY <1>1, <1>2, <2>1
  <2>3. QED
    BY <1>1, <2>2 DEF Entries
<1>6. QED
  BY <1>3, <1>4, <1>5

\* What is in a queue of requests is a request.
LEMMA EntriesTyped ==
  ASSUME NEW q \in Seq(Request), NEW e \in Entries(q)
  PROVE  e \in Request /\ e.run \in LuaRun /\ e.what \in {"set"} \cup LuaItems
<1>1. PICK k \in 1 .. Len(q) : e = q[k]
  BY DEF Entries
<1>2. e \in Request
  BY <1>1
<1>3. QED
  BY <1>2 DEF Request, Asks

\* Putting a call where its dispatcher finds it keeps the types.
LEMMA PutToTyped ==
  ASSUME LuaHostTypes, NEW r \in LuaRun, NEW what \in {"set"} \cup LuaItems,
         NEW kinds \in SUBSET LuaKinds, PutTo(r, what, kinds)
  PROVE  /\ ask' \in [LuaRun -> Asks] /\ answer' \in [LuaRun -> Answers]
         /\ queued' \in Seq(Request) /\ passBatch' \in Seq(Request) /\ notified' \in BOOLEAN
<1>1. ask' \in [LuaRun -> Asks] /\ answer' \in [LuaRun -> Answers]
  BY DEF PutTo, LuaHostTypes, Asks, Answers
<1>2. [run |-> r, what |-> what, kinds |-> kinds, open |-> TRUE] \in Request
  BY LuaHostAssumption DEF Request, Asks, NoAsk
<1>3. queued' \in Seq(Request)
  <2>1. CASE transport = "direct"
    <3>1. queued' = Append(queued, [run |-> r, what |-> what, kinds |-> kinds, open |-> TRUE])
      BY <2>1 DEF PutTo
    <3>2. QED
      BY <1>2, <3>1, AppendProperties DEF LuaHostTypes
  <2>2. CASE transport # "direct"
    BY <2>2 DEF PutTo, LuaHostTypes
  <2>3. QED
    BY <2>1, <2>2
<1>4. QED
  BY <1>1, <1>3 DEF PutTo, LuaHostTypes

\* Every variable the argument is about keeps its type.
LEMMA TypedStep ==
  ASSUME LuaHostInv, [LuaHostNext]_luaHostVars
  PROVE  LuaHostTypes'
<1>1. ASSUME NEW r \in LuaRun, Start(r) PROVE LuaHostTypes'
  BY <1>1 DEF Start, GoesTo, ForgetAll, fixed, asking, requests, flow, history, LuaHostInv, LuaHostTypes,
              NoRun, RunStages
<1>2. ASSUME NEW r \in LuaRun, AskSet(r) PROVE LuaHostTypes'
  <2>1. /\ ask' \in [LuaRun -> Asks] /\ answer' \in [LuaRun -> Answers]
        /\ queued' \in Seq(Request) /\ passBatch' \in Seq(Request) /\ notified' \in BOOLEAN
    BY <1>2, PutToTyped DEF AskSet, LuaHostInv
  <2>2. QED
    BY <1>2, <2>1 DEF AskSet, fixed, daemon, history, LuaHostInv, LuaHostTypes
<1>3. ASSUME NEW r \in LuaRun, Notify(r) PROVE LuaHostTypes'
  BY <1>3 DEF Notify, fixed, coroutine, flow, daemon, history, LuaHostInv, LuaHostTypes, NoRun, RunStages
<1>4. ASSUME NEW r \in LuaRun, ChunkEnds(r) PROVE LuaHostTypes'
  BY <1>4 DEF ChunkEnds, Depart, GoesTo, At, fixed, asking, requests, daemon, history, LuaHostInv,
              LuaHostTypes, NoRun, RunStages
<1>5. ASSUME NEW r \in LuaRun, EnterLoop(r) PROVE LuaHostTypes'
  BY <1>5 DEF EnterLoop, GoesTo, At, fixed, asking, requests, flow, daemon, history, LuaHostInv,
              LuaHostTypes, NoRun, RunStages
<1>6. ASSUME NEW r \in LuaRun, Listen(r) PROVE LuaHostTypes'
  BY <1>6 DEF Listen, GoesTo, At, fixed, asking, requests, flow, daemon, history, LuaHostInv,
              LuaHostTypes, NoRun, RunStages
<1>7. ASSUME NEW r \in LuaRun, Resume(r) PROVE LuaHostTypes'
  <2>1. ask' \in [LuaRun -> Asks] /\ answer' \in [LuaRun -> Answers]
    BY <1>7 DEF Resume, LuaHostInv, LuaHostTypes, Asks, Answers
  <2>2. ends' \in [LuaRun -> SUBSET LuaItems]
    <3>1. CASE ask[r] \in LuaItems
               /\ ends' = [ends EXCEPT ![r] = IF answer[r] = "ok" THEN @ \cup {ask[r]} ELSE @ \ {ask[r]}]
      BY <3>1 DEF LuaHostInv, LuaHostTypes
    <3>2. CASE ends' = [ends EXCEPT ![r] = {}] \/ UNCHANGED ends
      BY <3>2 DEF LuaHostInv, LuaHostTypes
    <3>3. QED
      BY <1>7, <3>1, <3>2 DEF Resume, Depart
  <2>3. whereabouts' \in [LuaRun -> RunStages]
    BY <1>7 DEF Resume, Depart, GoesTo, LuaHostInv, LuaHostTypes, RunStages
  <2>4. QED
    BY <1>7, <2>1, <2>2, <2>3 DEF Resume, fixed, requests, daemon, history, LuaHostInv, LuaHostTypes
<1>8. ASSUME NEW r \in LuaRun, Return(r) PROVE LuaHostTypes'
  BY <1>8 DEF Return, GoesTo, At, fixed, asking, requests, flow, daemon, history, LuaHostInv,
              LuaHostTypes, NoRun, RunStages
<1>9. ASSUME NEW r \in LuaRun, LoopEnds(r) PROVE LuaHostTypes'
  BY <1>9 DEF LoopEnds, GoesTo, At, fixed, asking, requests, flow, daemon, history, LuaHostInv,
              LuaHostTypes, NoRun, RunStages
<1>10. ASSUME NEW r \in LuaRun, Serve(r) PROVE LuaHostTypes'
  <2>1. answer' \in [LuaRun -> Answers]
    BY <1>10 DEF Serve, Answered, LuaHostInv, LuaHostTypes, Answers
  <2>2. queued' \in Seq(Request) /\ notified' \in BOOLEAN
    <3>1. CASE UNCHANGED <<queued, notified>>
      BY <3>1 DEF LuaHostInv, LuaHostTypes
    <3>2. CASE daemonUp
      <4>1. PICK e \in Request : queued' = Append(queued, e)
        <5>1. PICK how \in {"ok", "lost"} :
                queued' = Append(queued, [run |-> r, what |-> ask[r], open |-> how = "ok",
                   kinds |-> IF ask[r] = "set" THEN {} ELSE callbacks[r][ask[r]]])
          BY <1>10, <3>2 DEF Serve
        <5>2. ask[r] \in Asks \ {NoAsk} /\ (ask[r] # "set" => ask[r] \in LuaItems)
          BY <1>10 DEF Serve, LuaHostInv, LuaHostTypes, Asks
        <5>3. (IF ask[r] = "set" THEN {} ELSE callbacks[r][ask[r]]) \in SUBSET LuaKinds
          BY <5>2 DEF LuaHostInv, LuaHostTypes
        <5>4. [run |-> r, what |-> ask[r], open |-> how = "ok",
               kinds |-> IF ask[r] = "set" THEN {} ELSE callbacks[r][ask[r]]] \in Request
          BY <5>2, <5>3 DEF Request
        <5>5. QED
          BY <5>1, <5>4
      <4>2. QED
        BY <1>10, <3>2, <4>1 DEF Serve, LuaHostInv, LuaHostTypes
    <3>3. QED
      BY <1>10, <3>1, <3>2 DEF Serve
  <2>3. QED
    BY <1>10, <2>1, <2>2 DEF Serve, fixed, coroutine, daemon, history, LuaHostInv, LuaHostTypes
<1>11. ASSUME NEW r \in LuaRun, NEW i \in LuaItems, Open(r, i) PROVE LuaHostTypes'
  <2>1. /\ ask' \in [LuaRun -> Asks] /\ answer' \in [LuaRun -> Answers]
        /\ queued' \in Seq(Request) /\ passBatch' \in Seq(Request) /\ notified' \in BOOLEAN
    <3>1. toOpen[r][i] \in SUBSET LuaKinds
      BY DEF LuaHostInv, LuaHostTypes
    <3>2. QED
      BY <1>11, <3>1, PutToTyped DEF Open, LuaHostInv
  <2>2. toOpen' \in [LuaRun -> [LuaItems -> SUBSET LuaKinds]]
    BY <1>11 DEF Open, LuaHostInv, LuaHostTypes
  <2>3. feed' \in [LuaItems -> LuaRun \cup {NoRun}] /\ ends' \in [LuaRun -> SUBSET LuaItems]
    <3>1. CASE transport = "direct"
      <4>1. feed' = [feed EXCEPT ![i] = r] /\ ends' = [ends EXCEPT ![r] = @ \cup {i}]
        BY <1>11, <3>1 DEF Open, OpenFeed
      <4>2. feed' \in [LuaItems -> LuaRun \cup {NoRun}]
        BY <4>1 DEF LuaHostInv, LuaHostTypes
      <4>3. ends' \in [LuaRun -> SUBSET LuaItems]
        BY <4>1 DEF LuaHostInv, LuaHostTypes
      <4>4. QED
        BY <4>2, <4>3
    <3>2. CASE transport # "direct"
      BY <1>11, <3>2 DEF Open, OpenFeed, LuaHostInv, LuaHostTypes
    <3>3. QED
      BY <3>1, <3>2
  <2>4. /\ opener' \in [LuaItems -> LuaRun \cup {NoRun}]
        /\ takenOf' \in [LuaItems -> LuaRun \cup {NoRun}]
    BY <1>11 DEF Open, LuaHostInv, LuaHostTypes
  <2>5. QED
    BY <1>11, <2>1, <2>2, <2>3, <2>4 DEF Open, fixed, LuaHostInv, LuaHostTypes
<1>12. ASSUME NEW r \in LuaRun, NEW i \in LuaItems, Dispatch(r, i) PROVE LuaHostTypes'
  BY <1>12 DEF Dispatch, GoesTo, At, fixed, asking, requests, daemon, history, LuaHostInv, LuaHostTypes,
               NoRun, RunStages
<1>13. ASSUME NEW r \in LuaRun, NEW i \in LuaItems, StreamEnds(r, i) PROVE LuaHostTypes'
  BY <1>13 DEF StreamEnds, At, fixed, coroutine, asking, requests, flow, daemon, history,
               LuaHostInv, LuaHostTypes, NoRun, RunStages
<1>14. ASSUME NEW r \in LuaRun, NEW i \in LuaItems, Forward(r, i) PROVE LuaHostTypes'
  BY <1>14 DEF Forward, fixed, coroutine, asking, requests, daemon, history, LuaHostInv, LuaHostTypes,
               NoRun, RunStages
<1>15. ASSUME NEW r \in LuaRun, NEW i \in LuaItems, NEW k \in LuaKinds, AddCallback(r, i, k)
       PROVE  LuaHostTypes'
  BY <1>15 DEF AddCallback, At, fixed, asking, requests, flow, daemon, history, LuaHostInv, LuaHostTypes,
               NoRun, RunStages
<1>16. ASSUME DrainChannel PROVE LuaHostTypes'
  BY <1>16 DEF DrainChannel, fixed, coroutine, asking, flow, daemon, history, LuaHostInv, LuaHostTypes,
               NoRun, RunStages
<1>17. ASSUME Apply PROVE LuaHostTypes'
  <2>1. PICK it \in Request : it = Head(passBatch)
    BY <1>17 DEF Apply, LuaHostInv, LuaHostTypes
  <2>2. it.run \in LuaRun /\ (it.what \in LuaItems \/ it.what = "set")
    BY DEF Request, Asks
  <2>3. answer' \in [LuaRun -> Answers]
    BY <1>17, <2>1, <2>2 DEF Apply, Answered, LuaHostInv, LuaHostTypes, Answers
  <2>4. /\ feed' \in [LuaItems -> LuaRun \cup {NoRun}]
        /\ takenOf' \in [LuaItems -> LuaRun \cup {NoRun}]
    <3> DEFINE by == IF it.open THEN it.run ELSE NoRun
    <3>1. by \in LuaRun \cup {NoRun}
      BY <2>2
    <3> HIDE DEF by
    <3>2. CASE /\ it.what \in LuaItems
               /\ takenOf' = [takenOf EXCEPT ![it.what] = by]
               /\ feed' = IF transport = "ipc" THEN [feed EXCEPT ![it.what] = by] ELSE feed
      BY <3>1, <3>2 DEF LuaHostInv, LuaHostTypes
    <3>3. CASE UNCHANGED <<takenOf, feed>>
      BY <3>3 DEF LuaHostInv, LuaHostTypes
    <3>4. QED
      BY <1>17, <2>1, <3>2, <3>3 DEF Apply, daemon, by
  <2>5. passBatch' \in Seq(Request)
    BY <1>17 DEF Apply, LuaHostInv, LuaHostTypes
  <2>6. QED
    BY <1>17, <2>3, <2>4, <2>5 DEF Apply, fixed, coroutine, LuaHostInv, LuaHostTypes
<1>18. ASSUME Exit PROVE LuaHostTypes'
  <2>1. answer' \in [LuaRun -> Answers]
    BY <1>18 DEF Exit, Lost, LuaHostInv, LuaHostTypes, Answers
  <2>2. /\ queued' \in Seq(Request) /\ passBatch' \in Seq(Request)
        /\ notified' \in BOOLEAN /\ daemonUp' \in BOOLEAN
    <3>1. <<>> \in Seq(Request)
      OBVIOUS
    <3>2. queued' \in Seq(Request)
      BY <1>18, <3>1 DEF Exit, LuaHostInv, LuaHostTypes
    <3>3. QED
      BY <1>18, <3>1, <3>2 DEF Exit, LuaHostInv, LuaHostTypes
  <2>3. feed' \in [LuaItems -> LuaRun \cup {NoRun}]
    BY <1>18 DEF Exit, LuaHostInv, LuaHostTypes
  <2>4. QED
    BY <1>18, <2>1, <2>2, <2>3 DEF Exit, coroutine, history, LuaHostInv, LuaHostTypes
<1>19. ASSUME NEW i \in LuaItems, NEW k \in LuaKinds, EmitEvent(i, k) PROVE LuaHostTypes'
  BY <1>19 DEF EmitEvent, fixed, coroutine, asking, requests, LuaHostInv, LuaHostTypes, NoRun, RunStages
<1>20. CASE UNCHANGED luaHostVars
  BY <1>20 DEF luaHostVars, LuaHostInv, LuaHostTypes, NoRun, RunStages
<1>21. QED
  BY <1>1, <1>2, <1>3, <1>4, <1>5, <1>6, <1>7, <1>8, <1>9, <1>10,
     <1>11, <1>12, <1>13, <1>14, <1>15, <1>16, <1>17, <1>18, <1>19, <1>20 DEF LuaHostNext

\* Runs begin one after the other, and never go back to where they had not begun.
LEMMA InTurnStep ==
  ASSUME LuaHostInv, [LuaHostNext]_luaHostVars
  PROVE  InTurn'
<1>1. ASSUME NEW r \in LuaRun, Start(r) PROVE InTurn'
  BY <1>1 DEF Start, GoesTo, ForgetAll, fixed, asking, requests, flow, history, LuaHostInv, LuaHostTypes,
              InTurn, LuaRun, NoRun
<1>2. ASSUME NEW r \in LuaRun, AskSet(r) PROVE InTurn'
  BY <1>2 DEF AskSet, PutTo, At, fixed, flow, daemon, history, LuaHostInv, LuaHostTypes, InTurn, LuaRun,
              NoRun
<1>3. ASSUME NEW r \in LuaRun, Notify(r) PROVE InTurn'
  BY <1>3 DEF Notify, fixed, coroutine, flow, daemon, history, LuaHostInv, LuaHostTypes, InTurn, LuaRun,
              NoRun
<1>4. ASSUME NEW r \in LuaRun, ChunkEnds(r) PROVE InTurn'
  BY <1>4 DEF ChunkEnds, Depart, GoesTo, At, fixed, asking, requests, daemon, history, LuaHostInv,
              LuaHostTypes, InTurn, LuaRun, NoRun
<1>5. ASSUME NEW r \in LuaRun, EnterLoop(r) PROVE InTurn'
  BY <1>5 DEF EnterLoop, GoesTo, At, fixed, asking, requests, flow, daemon, history, LuaHostInv,
              LuaHostTypes, InTurn, LuaRun, NoRun
<1>6. ASSUME NEW r \in LuaRun, Listen(r) PROVE InTurn'
  BY <1>6 DEF Listen, GoesTo, At, fixed, asking, requests, flow, daemon, history, LuaHostInv,
              LuaHostTypes, InTurn, LuaRun, NoRun
<1>7. ASSUME NEW r \in LuaRun, Resume(r) PROVE InTurn'
  BY <1>7 DEF Resume, Depart, GoesTo, fixed, requests, flow, daemon, history, LuaHostInv, LuaHostTypes,
              InTurn, LuaRun, NoRun
<1>8. ASSUME NEW r \in LuaRun, Return(r) PROVE InTurn'
  BY <1>8 DEF Return, GoesTo, At, fixed, asking, requests, flow, daemon, history, LuaHostInv,
              LuaHostTypes, InTurn, LuaRun, NoRun
<1>9. ASSUME NEW r \in LuaRun, LoopEnds(r) PROVE InTurn'
  BY <1>9 DEF LoopEnds, GoesTo, At, fixed, asking, requests, flow, daemon, history, LuaHostInv,
              LuaHostTypes, InTurn, LuaRun, NoRun
<1>10. ASSUME NEW r \in LuaRun, Serve(r) PROVE InTurn'
  BY <1>10 DEF Serve, Answered, fixed, coroutine, flow, daemon, history, LuaHostInv, LuaHostTypes, InTurn,
               LuaRun, NoRun
<1>11. ASSUME NEW r \in LuaRun, NEW i \in LuaItems, Open(r, i) PROVE InTurn'
  BY <1>11 DEF Open, OpenFeed, PutTo, At, fixed, flow, LuaHostInv, LuaHostTypes, InTurn, LuaRun, NoRun
<1>12. ASSUME NEW r \in LuaRun, NEW i \in LuaItems, Dispatch(r, i) PROVE InTurn'
  BY <1>12 DEF Dispatch, GoesTo, At, fixed, asking, requests, daemon, history, LuaHostInv, LuaHostTypes,
               InTurn, LuaRun, NoRun
<1>13. ASSUME NEW r \in LuaRun, NEW i \in LuaItems, StreamEnds(r, i) PROVE InTurn'
  BY <1>13 DEF StreamEnds, At, fixed, coroutine, asking, requests, flow, daemon, history,
               LuaHostInv, LuaHostTypes, InTurn, LuaRun, NoRun
<1>14. ASSUME NEW r \in LuaRun, NEW i \in LuaItems, Forward(r, i) PROVE InTurn'
  BY <1>14 DEF Forward, fixed, coroutine, asking, requests, daemon, history, LuaHostInv, LuaHostTypes,
               InTurn, LuaRun, NoRun
<1>15. ASSUME NEW r \in LuaRun, NEW i \in LuaItems, NEW k \in LuaKinds, AddCallback(r, i, k)
       PROVE  InTurn'
  BY <1>15 DEF AddCallback, At, fixed, asking, requests, flow, daemon, history, LuaHostInv, LuaHostTypes,
               InTurn, LuaRun, NoRun
<1>16. ASSUME DrainChannel PROVE InTurn'
  BY <1>16 DEF DrainChannel, fixed, coroutine, asking, flow, daemon, history, LuaHostInv, LuaHostTypes,
               InTurn, LuaRun, NoRun
<1>17. ASSUME Apply PROVE InTurn'
  BY <1>17 DEF Apply, Answered, fixed, coroutine, flow, daemon, LuaHostInv, LuaHostTypes, InTurn, LuaRun,
               NoRun
<1>18. ASSUME Exit PROVE InTurn'
  BY <1>18 DEF Exit, coroutine, flow, history, LuaHostInv, LuaHostTypes, InTurn, LuaRun, NoRun
<1>19. ASSUME NEW i \in LuaItems, NEW k \in LuaKinds, EmitEvent(i, k) PROVE InTurn'
  BY <1>19 DEF EmitEvent, fixed, coroutine, asking, requests, LuaHostInv, LuaHostTypes, InTurn, LuaRun, NoRun
<1>20. CASE UNCHANGED luaHostVars
  BY <1>20 DEF luaHostVars, LuaHostInv, LuaHostTypes, InTurn, LuaRun, NoRun
<1>21. QED
  BY <1>1, <1>2, <1>3, <1>4, <1>5, <1>6, <1>7, <1>8, <1>9, <1>10,
     <1>11, <1>12, <1>13, <1>14, <1>15, <1>16, <1>17, <1>18, <1>19, <1>20 DEF LuaHostNext

\* A run opens each item once.
LEMMA OpensOnceStep ==
  ASSUME LuaHostInv, NEW s \in LuaRun, [LuaHostNext]_luaHostVars
  PROVE  OpensOnce(s)'
<1>1. ASSUME NEW r \in LuaRun, Start(r) PROVE OpensOnce(s)'
  BY <1>1, LuaHostAssumption DEF Start, GoesTo, ForgetAll, fixed, asking, requests, flow,
        history, LuaHostInv, LuaHostTypes, OpensOnce, NoAsk
<1>2. ASSUME NEW r \in LuaRun, AskSet(r) PROVE OpensOnce(s)'
  BY <1>2, LuaHostAssumption DEF AskSet, PutTo, At, fixed, flow, daemon, history, LuaHostInv,
        LuaHostTypes, OpensOnce, NoAsk
<1>3. ASSUME NEW r \in LuaRun, Notify(r) PROVE OpensOnce(s)'
  BY <1>3, LuaHostAssumption DEF Notify, fixed, coroutine, flow, daemon, history, LuaHostInv,
        LuaHostTypes, OpensOnce, NoAsk
<1>4. ASSUME NEW r \in LuaRun, ChunkEnds(r) PROVE OpensOnce(s)'
  BY <1>4, LuaHostAssumption DEF ChunkEnds, Depart, GoesTo, At, fixed, asking, requests,
        daemon, history, LuaHostInv, LuaHostTypes, OpensOnce, NoAsk
<1>5. ASSUME NEW r \in LuaRun, EnterLoop(r) PROVE OpensOnce(s)'
  BY <1>5, LuaHostAssumption DEF EnterLoop, GoesTo, At, fixed, asking, requests, flow,
        daemon, history, LuaHostInv, LuaHostTypes, OpensOnce, NoAsk
<1>6. ASSUME NEW r \in LuaRun, Listen(r) PROVE OpensOnce(s)'
  BY <1>6, LuaHostAssumption DEF Listen, GoesTo, At, fixed, asking, requests, flow, daemon,
        history, LuaHostInv, LuaHostTypes, OpensOnce, NoAsk
<1>7. ASSUME NEW r \in LuaRun, Resume(r) PROVE OpensOnce(s)'
  <2>1. /\ ask' = [ask EXCEPT ![r] = NoAsk] /\ UNCHANGED <<toOpen, transport>>
        /\ ends'[s] = ends[s] \/ (s = r /\ (ask[r] \in LuaItems \/ whereabouts'[s] = "failed"))
        /\ whereabouts'[s] = whereabouts[s]
           \/ (s = r /\ ask[r] = "set" /\ whereabouts'[s] \in {"failed", "listening"})
    BY <1>7 DEF Resume, Depart, GoesTo, fixed, LuaHostInv, LuaHostTypes
  <2>2. CASE s # r
    BY <2>1, <2>2 DEF LuaHostInv, LuaHostTypes, OpensOnce
  <2>3. CASE s = r
    <3>1. ask'[s] = NoAsk /\ \A i \in LuaItems : ask'[s] # i
      BY <2>1, <2>3, LuaHostAssumption DEF LuaHostInv, LuaHostTypes, NoAsk
    <3>2. CASE ask[r] \in LuaItems
      <4>1. whereabouts[s] = "opening" /\ toOpen[s][ask[r]] = {} /\ whereabouts'[s] = "opening"
        BY <1>7, <2>1, <2>3, <3>2, LuaHostAssumption DEF LuaHostInv, LuaHostTypes, OpensOnce, NoAsk
      <4>2. ends'[s] \subseteq ends[s] \cup {ask[r]}
        BY <1>7, <2>3, <3>2, LuaHostAssumption DEF Resume, LuaHostInv, LuaHostTypes, NoAsk
      <4>3. QED
        BY <2>1, <2>3, <3>1, <4>1, <4>2 DEF LuaHostInv, OpensOnce
    <3>3. CASE ask[r] \notin LuaItems
      BY <1>7, <2>1, <2>3, <3>1, <3>3 DEF LuaHostInv, LuaHostTypes, OpensOnce
    <3>4. QED
      BY <3>2, <3>3
  <2>4. QED
    BY <2>2, <2>3
<1>8. ASSUME NEW r \in LuaRun, Return(r) PROVE OpensOnce(s)'
  BY <1>8, LuaHostAssumption DEF Return, GoesTo, At, fixed, asking, requests, flow, daemon,
        history, LuaHostInv, LuaHostTypes, OpensOnce, NoAsk
<1>9. ASSUME NEW r \in LuaRun, LoopEnds(r) PROVE OpensOnce(s)'
  BY <1>9, LuaHostAssumption DEF LoopEnds, GoesTo, At, fixed, asking, requests, flow, daemon,
        history, LuaHostInv, LuaHostTypes, OpensOnce, NoAsk
<1>10. ASSUME NEW r \in LuaRun, Serve(r) PROVE OpensOnce(s)'
  BY <1>10, LuaHostAssumption DEF Serve, Answered, fixed, coroutine, flow, daemon, history,
        LuaHostInv, LuaHostTypes, OpensOnce, NoAsk
<1>11. ASSUME NEW r \in LuaRun, NEW i \in LuaItems, Open(r, i) PROVE OpensOnce(s)'
  BY <1>11, LuaHostAssumption DEF Open, OpenFeed, PutTo, At, fixed, flow, LuaHostInv, LuaHostTypes,
        OpensOnce, NoAsk
<1>12. ASSUME NEW r \in LuaRun, NEW i \in LuaItems, Dispatch(r, i) PROVE OpensOnce(s)'
  BY <1>12, LuaHostAssumption DEF Dispatch, GoesTo, At, fixed, asking, requests, daemon,
        history, LuaHostInv, LuaHostTypes, OpensOnce, NoAsk
<1>13. ASSUME NEW r \in LuaRun, NEW i \in LuaItems, StreamEnds(r, i) PROVE OpensOnce(s)'
  BY <1>13, LuaHostAssumption DEF StreamEnds, At, fixed, coroutine, asking, requests, flow,
        daemon, history, LuaHostInv, LuaHostTypes, OpensOnce, NoAsk
<1>14. ASSUME NEW r \in LuaRun, NEW i \in LuaItems, Forward(r, i) PROVE OpensOnce(s)'
  BY <1>14, LuaHostAssumption DEF Forward, fixed, coroutine, asking, requests, daemon,
        history, LuaHostInv, LuaHostTypes, OpensOnce, NoAsk
<1>15. ASSUME NEW r \in LuaRun, NEW i \in LuaItems, NEW k \in LuaKinds, AddCallback(r, i, k)
       PROVE  OpensOnce(s)'
  BY <1>15, LuaHostAssumption DEF AddCallback, At, fixed, asking, requests, flow, daemon,
        history, LuaHostInv, LuaHostTypes, OpensOnce, NoAsk
<1>16. ASSUME DrainChannel PROVE OpensOnce(s)'
  BY <1>16, LuaHostAssumption DEF DrainChannel, fixed, coroutine, asking, flow, daemon,
        history, LuaHostInv, LuaHostTypes, OpensOnce, NoAsk
<1>17. ASSUME Apply PROVE OpensOnce(s)'
  BY <1>17, LuaHostAssumption DEF Apply, Answered, fixed, coroutine, flow, daemon, LuaHostInv,
        LuaHostTypes, OpensOnce, NoAsk
<1>18. ASSUME Exit PROVE OpensOnce(s)'
  BY <1>18, LuaHostAssumption DEF Exit, coroutine, flow, history, LuaHostInv, LuaHostTypes, OpensOnce, NoAsk
<1>19. ASSUME NEW i \in LuaItems, NEW k \in LuaKinds, EmitEvent(i, k) PROVE OpensOnce(s)'
  BY <1>19, LuaHostAssumption DEF EmitEvent, fixed, coroutine, asking, requests, LuaHostInv, LuaHostTypes,
        OpensOnce, NoAsk
<1>20. CASE UNCHANGED luaHostVars
  BY <1>20, LuaHostAssumption DEF luaHostVars, LuaHostInv, LuaHostTypes, OpensOnce, NoAsk
<1>21. QED
  BY <1>1, <1>2, <1>3, <1>4, <1>5, <1>6, <1>7, <1>8, <1>9, <1>10,
     <1>11, <1>12, <1>13, <1>14, <1>15, <1>16, <1>17, <1>18, <1>19, <1>20 DEF LuaHostNext

-----------------------------------------------------------------------------
\* What a call puts in the queue, if its dispatcher is the queue.
LEMMA PutToEntries ==
  ASSUME LuaHostTypes, NEW r \in LuaRun, NEW what \in {"set"} \cup LuaItems,
         NEW kinds \in SUBSET LuaKinds, PutTo(r, what, kinds)
  PROVE  /\ ask' = [ask EXCEPT ![r] = what] /\ answer' = [answer EXCEPT ![r] = NoAsk]
         /\ UNCHANGED <<notified, passBatch>>
         /\ transport = "direct" =>
              /\ telling' = telling \cup {r}
              /\ \E e \in Request : /\ Entries(queued') = Entries(queued) \cup {e}
                                    /\ e.run = r /\ e.what = what
         /\ transport # "direct" => UNCHANGED <<queued, telling>>
<1> DEFINE e == [run |-> r, what |-> what, kinds |-> kinds, open |-> TRUE]
<1>1. e \in Request /\ e.run = r /\ e.what = what
  BY LuaHostAssumption DEF Request, Asks, NoAsk
<1> HIDE DEF e
<1>2. CASE transport = "direct"
  <2>1. queued' = Append(queued, e) /\ telling' = telling \cup {r}
    BY <1>2 DEF PutTo, e
  <2>2. Entries(Append(queued, e)) = Entries(queued) \cup {e}
    BY <1>1, EntriesAppend DEF LuaHostTypes
  <2>3. QED
    BY <1>1, <1>2, <2>1, <2>2 DEF PutTo
<1>3. CASE transport # "direct"
  BY <1>3 DEF PutTo
<1>4. QED
  BY <1>2, <1>3

\* What Serve puts in the queue.
LEMMA ServeEntries ==
  ASSUME LuaHostTypes, NEW r \in LuaRun, Serve(r), daemonUp
  PROVE  \E e \in Request, how \in {"ok", "lost"} :
           /\ Entries(queued') = Entries(queued) \cup {e}
           /\ e.run = r /\ e.what = ask[r] /\ e.open = (how = "ok") /\ notified'
           /\ IF ask[r] = "set" THEN UNCHANGED answer
                                ELSE answer' = [answer EXCEPT ![r] = how]
<1>1. PICK how \in {"ok", "lost"} :
        /\ queued' = Append(queued, [run |-> r, what |-> ask[r], open |-> how = "ok",
              kinds |-> IF ask[r] = "set" THEN {} ELSE callbacks[r][ask[r]]])
        /\ IF ask[r] = "set" THEN UNCHANGED answer
                             ELSE answer' = [answer EXCEPT ![r] = how]
  BY DEF Serve, Answered
<1> DEFINE e == [run |-> r, what |-> ask[r], open |-> how = "ok",
                 kinds |-> IF ask[r] = "set" THEN {} ELSE callbacks[r][ask[r]]]
<1>2. ask[r] \in Asks \ {NoAsk} /\ (ask[r] # "set" => ask[r] \in LuaItems)
  BY DEF Serve, LuaHostTypes, Asks
<1>3. (IF ask[r] = "set" THEN {} ELSE callbacks[r][ask[r]]) \in SUBSET LuaKinds
  BY <1>2 DEF LuaHostTypes
<1>4. e \in Request /\ e.run = r /\ e.what = ask[r] /\ e.open = (how = "ok")
  BY <1>2, <1>3 DEF Request
<1>5. queued' = Append(queued, e)
  BY <1>1
<1> HIDE DEF e
<1>6. Entries(Append(queued, e)) = Entries(queued) \cup {e}
  BY <1>4, EntriesAppend DEF LuaHostTypes
<1>7. notified'
  BY DEF Serve
<1>8. QED
  BY <1>1, <1>4, <1>5, <1>6, <1>7

\* What a pass has still to apply, and what it takes.
LEMMA ApplyEntries ==
  ASSUME LuaHostTypes, Apply
  PROVE  \E it \in Request : /\ it = Head(passBatch)
                             /\ Entries(passBatch) = {it} \cup Entries(passBatch')
<1>1. passBatch \in Seq(Request) /\ passBatch # <<>> /\ passBatch' = Tail(passBatch)
  BY DEF Apply, LuaHostTypes
<1>2. Head(passBatch) \in Request
  BY <1>1
<1>3. Entries(passBatch) = {Head(passBatch)} \cup Entries(Tail(passBatch))
  BY <1>1, EntriesTail
<1>4. QED
  BY <1>1, <1>2, <1>3

\* A pass takes every entry of the queue.
LEMMA DrainEntries ==
  ASSUME DrainChannel
  PROVE  /\ Entries(queued') = {} /\ Entries(passBatch) = {}
         /\ Entries(passBatch') = Entries(queued)
BY EntriesOfNone DEF DrainChannel

\* Every request has a pass coming that will take it.
LEMMA AttendedStep ==
  ASSUME LuaHostInv, [LuaHostNext]_luaHostVars
  PROVE  Attended'
<1>1. ASSUME NEW r \in LuaRun, Start(r) PROVE Attended'
  BY <1>1 DEF Start, GoesTo, ForgetAll, fixed, asking, requests, flow, history, LuaHostInv, LuaHostTypes,
              Attended
<1>2. ASSUME NEW r \in LuaRun, AskSet(r) PROVE Attended'
  <2>1. /\ ask' = [ask EXCEPT ![r] = "set"] /\ answer' = [answer EXCEPT ![r] = NoAsk]
        /\ UNCHANGED <<notified, passBatch>>
        /\ transport = "direct" =>
             /\ telling' = telling \cup {r}
             /\ \E e \in Request : /\ Entries(queued') = Entries(queued) \cup {e}
                                   /\ e.run = r /\ e.what = "set"
        /\ transport # "direct" => UNCHANGED <<queued, telling>>
    BY <1>2, PutToEntries DEF AskSet, LuaHostInv
  <2>2. UNCHANGED <<transport, daemonUp>>
    BY <1>2 DEF AskSet, fixed
  <2>3. QED
    BY <2>1, <2>2 DEF LuaHostInv, LuaHostTypes, Attended
<1>3. ASSUME NEW r \in LuaRun, Notify(r) PROVE Attended'
  BY <1>3 DEF Notify, fixed, coroutine, flow, daemon, history, LuaHostInv, LuaHostTypes, Attended
<1>4. ASSUME NEW r \in LuaRun, ChunkEnds(r) PROVE Attended'
  BY <1>4 DEF ChunkEnds, Depart, GoesTo, At, fixed, asking, requests, daemon, history, LuaHostInv,
              LuaHostTypes, Attended
<1>5. ASSUME NEW r \in LuaRun, EnterLoop(r) PROVE Attended'
  BY <1>5 DEF EnterLoop, GoesTo, At, fixed, asking, requests, flow, daemon, history, LuaHostInv,
              LuaHostTypes, Attended
<1>6. ASSUME NEW r \in LuaRun, Listen(r) PROVE Attended'
  BY <1>6 DEF Listen, GoesTo, At, fixed, asking, requests, flow, daemon, history, LuaHostInv,
              LuaHostTypes, Attended
<1>7. ASSUME NEW r \in LuaRun, Resume(r) PROVE Attended'
  BY <1>7 DEF Resume, Depart, GoesTo, fixed, requests, flow, daemon, history, LuaHostInv, LuaHostTypes,
              Attended
<1>8. ASSUME NEW r \in LuaRun, Return(r) PROVE Attended'
  BY <1>8 DEF Return, GoesTo, At, fixed, asking, requests, flow, daemon, history, LuaHostInv,
              LuaHostTypes, Attended
<1>9. ASSUME NEW r \in LuaRun, LoopEnds(r) PROVE Attended'
  BY <1>9 DEF LoopEnds, GoesTo, At, fixed, asking, requests, flow, daemon, history, LuaHostInv,
              LuaHostTypes, Attended
<1>10. ASSUME NEW r \in LuaRun, Serve(r) PROVE Attended'
  <2>1. UNCHANGED <<transport, daemonUp, ask, telling, passBatch>> /\ transport = "ipc"
    BY <1>10 DEF Serve, fixed
  <2>2. CASE daemonUp
    BY <1>10, <2>1, <2>2, ServeEntries DEF LuaHostInv, Attended
  <2>3. CASE ~daemonUp
    BY <1>10, <2>1, <2>3 DEF Serve, LuaHostInv, Attended
  <2>4. QED
    BY <2>2, <2>3
<1>11. ASSUME NEW r \in LuaRun, NEW i \in LuaItems, Open(r, i) PROVE Attended'
  <2>1. /\ ask' = [ask EXCEPT ![r] = i] /\ answer' = [answer EXCEPT ![r] = NoAsk]
        /\ UNCHANGED <<notified, passBatch>>
        /\ transport = "direct" =>
             /\ telling' = telling \cup {r}
             /\ \E e \in Request : /\ Entries(queued') = Entries(queued) \cup {e}
                                   /\ e.run = r /\ e.what = i
        /\ transport # "direct" => UNCHANGED <<queued, telling>>
    <3>1. toOpen[r][i] \in SUBSET LuaKinds
      BY DEF LuaHostInv, LuaHostTypes
    <3>2. QED
      BY <1>11, <3>1, PutToEntries DEF Open, LuaHostInv
  <2>2. UNCHANGED <<transport, daemonUp>>
    BY <1>11 DEF Open, fixed
  <2>3. QED
    BY <2>1, <2>2 DEF LuaHostInv, LuaHostTypes, Attended
<1>12. ASSUME NEW r \in LuaRun, NEW i \in LuaItems, Dispatch(r, i) PROVE Attended'
  BY <1>12 DEF Dispatch, GoesTo, At, fixed, asking, requests, daemon, history, LuaHostInv, LuaHostTypes,
               Attended
<1>13. ASSUME NEW r \in LuaRun, NEW i \in LuaItems, StreamEnds(r, i) PROVE Attended'
  BY <1>13 DEF StreamEnds, At, fixed, coroutine, asking, requests, flow, daemon, history,
               LuaHostInv, LuaHostTypes, Attended
<1>14. ASSUME NEW r \in LuaRun, NEW i \in LuaItems, Forward(r, i) PROVE Attended'
  BY <1>14 DEF Forward, fixed, coroutine, asking, requests, daemon, history, LuaHostInv, LuaHostTypes,
               Attended
<1>15. ASSUME NEW r \in LuaRun, NEW i \in LuaItems, NEW k \in LuaKinds, AddCallback(r, i, k)
       PROVE  Attended'
  BY <1>15 DEF AddCallback, At, fixed, asking, requests, flow, daemon, history, LuaHostInv, LuaHostTypes,
               Attended
<1>16. ASSUME DrainChannel PROVE Attended'
  <2>1. UNCHANGED <<transport, daemonUp, ask, answer, telling>> /\ daemonUp
    BY <1>16 DEF DrainChannel, fixed, asking
  <2>2. QED
    BY <1>16, <2>1, DrainEntries DEF LuaHostInv, Attended
<1>17. ASSUME Apply PROVE Attended'
  <2>1. PICK it \in Request : /\ it = Head(passBatch)
                              /\ Entries(passBatch) = {it} \cup Entries(passBatch')
    BY <1>17, ApplyEntries DEF LuaHostInv
  <2>2. it.run \in LuaRun
    BY DEF Request
  <2>3. UNCHANGED <<transport, daemonUp, ask, telling, queued, notified>> /\ daemonUp
    BY <1>17 DEF Apply, fixed
  <2>4. ASSUME NEW q \in LuaRun, transport = "direct", ask[q] # NoAsk, answer'[q] = NoAsk
        PROVE  answer[q] = NoAsk /\ ~(it.run = q /\ it.what = ask[q])
    <3>1. \E taken \in BOOLEAN :
            answer' = IF ask[it.run] = it.what
                        THEN [answer EXCEPT ![it.run] = IF taken THEN "ok" ELSE "error"]
                        ELSE answer
      BY <1>17, <2>1, <2>4 DEF Apply, Answered
    <3>2. QED
      BY <2>2, <2>4, <3>1 DEF LuaHostInv, LuaHostTypes, NoAsk
  <2>5. QED
    BY <2>1, <2>3, <2>4 DEF LuaHostInv, Attended
<1>18. ASSUME Exit PROVE Attended'
  <2>1. ~daemonUp' /\ (transport' = "ipc" => queued' = <<>>)
    BY <1>18 DEF Exit, LuaHostInv, LuaHostTypes
  <2>2. QED
    BY <2>1 DEF Attended
<1>19. ASSUME NEW i \in LuaItems, NEW k \in LuaKinds, EmitEvent(i, k) PROVE Attended'
  BY <1>19 DEF EmitEvent, fixed, coroutine, asking, requests, LuaHostInv, LuaHostTypes, Attended
<1>20. CASE UNCHANGED luaHostVars
  BY <1>20 DEF luaHostVars, LuaHostInv, LuaHostTypes, Attended
<1>21. QED
  BY <1>1, <1>2, <1>3, <1>4, <1>5, <1>6, <1>7, <1>8, <1>9, <1>10,
     <1>11, <1>12, <1>13, <1>14, <1>15, <1>16, <1>17, <1>18, <1>19, <1>20 DEF LuaHostNext

\* No receiving end is dropped while its Subscribe is on its way.
LEMMA ReaderStaysStep ==
  ASSUME LuaHostInv, NEW q \in LuaRun, NEW j \in LuaItems, [LuaHostNext]_luaHostVars
  PROVE  ReaderStays(q, j)'
<1>1. ASSUME NEW r \in LuaRun, Start(r) PROVE ReaderStays(q, j)'
  BY <1>1, LuaHostAssumption DEF Start, GoesTo, ForgetAll, fixed, asking, requests, flow,
        history, LuaHostInv, LuaHostTypes, OpensOnce, ReaderStays, Asked, Read, Receives, NoAsk
<1>2. ASSUME NEW r \in LuaRun, AskSet(r) PROVE ReaderStays(q, j)'
  <2>1. /\ ask' = [ask EXCEPT ![r] = "set"] /\ answer' = [answer EXCEPT ![r] = NoAsk]
        /\ UNCHANGED <<notified, passBatch>>
        /\ transport = "direct" =>
             /\ telling' = telling \cup {r}
             /\ \E e \in Request : /\ Entries(queued') = Entries(queued) \cup {e}
                                   /\ e.run = r /\ e.what = "set"
        /\ transport # "direct" => UNCHANGED <<queued, telling>>
    BY <1>2, PutToEntries DEF AskSet, LuaHostInv
  <2>2. UNCHANGED <<transport, whereabouts>> /\ ask[r] = NoAsk /\ (transport # "direct" => UNCHANGED ends)
    BY <1>2 DEF AskSet, At, fixed
  <2>3. transport = "ipc" /\ Asked(q, j)' => Asked(q, j) /\ UNCHANGED ends
    BY <2>1, <2>2 DEF Asked
  <2>4. ReaderStays(q, j)
    BY DEF LuaHostInv
  <2>5. j # NoAsk
    BY LuaHostAssumption DEF NoAsk
  <2>6. transport = "ipc" => (Receives(q, j) => Receives(q, j)' \/ ~UNCHANGED ends)
    BY <2>1, <2>2, <2>5 DEF Receives, LuaHostInv, LuaHostTypes
  <2>7. QED
    BY <2>2, <2>3, <2>4, <2>6 DEF ReaderStays, Read
<1>3. ASSUME NEW r \in LuaRun, Notify(r) PROVE ReaderStays(q, j)'
  BY <1>3, LuaHostAssumption DEF Notify, fixed, coroutine, flow, daemon, history, LuaHostInv,
        LuaHostTypes, OpensOnce, ReaderStays, Asked, Read, Receives, NoAsk
<1>4. ASSUME NEW r \in LuaRun, ChunkEnds(r) PROVE ReaderStays(q, j)'
  BY <1>4, LuaHostAssumption DEF ChunkEnds, Depart, GoesTo, At, fixed, asking, requests,
        daemon, history, LuaHostInv, LuaHostTypes, OpensOnce, ReaderStays, Asked, Read, Receives, NoAsk
<1>5. ASSUME NEW r \in LuaRun, EnterLoop(r) PROVE ReaderStays(q, j)'
  BY <1>5, LuaHostAssumption DEF EnterLoop, GoesTo, At, fixed, asking, requests, flow,
        daemon, history, LuaHostInv, LuaHostTypes, OpensOnce, ReaderStays, Asked, Read, Receives, NoAsk
<1>6. ASSUME NEW r \in LuaRun, Listen(r) PROVE ReaderStays(q, j)'
  BY <1>6, LuaHostAssumption DEF Listen, GoesTo, At, fixed, asking, requests, flow, daemon,
        history, LuaHostInv, LuaHostTypes, OpensOnce, ReaderStays, Asked, Read, Receives, NoAsk
<1>7. ASSUME NEW r \in LuaRun, Resume(r) PROVE ReaderStays(q, j)'
  BY <1>7, LuaHostAssumption DEF Resume, Depart, GoesTo, fixed, requests, flow, daemon,
        history, LuaHostInv, LuaHostTypes, OpensOnce, ReaderStays, Asked, Read, Receives, NoAsk
<1>8. ASSUME NEW r \in LuaRun, Return(r) PROVE ReaderStays(q, j)'
  BY <1>8, LuaHostAssumption DEF Return, GoesTo, At, fixed, asking, requests, flow, daemon,
        history, LuaHostInv, LuaHostTypes, OpensOnce, ReaderStays, Asked, Read, Receives, NoAsk
<1>9. ASSUME NEW r \in LuaRun, LoopEnds(r) PROVE ReaderStays(q, j)'
  BY <1>9, LuaHostAssumption DEF LoopEnds, GoesTo, At, fixed, asking, requests, flow, daemon,
        history, LuaHostInv, LuaHostTypes, OpensOnce, ReaderStays, Asked, Read, Receives, NoAsk
<1>10. ASSUME NEW r \in LuaRun, Serve(r) PROVE ReaderStays(q, j)'
  <2>1. UNCHANGED <<transport, whereabouts, ask, ends, passBatch>> /\ answer[r] = NoAsk
    BY <1>10 DEF Serve, fixed, coroutine
  <2>2. ReaderStays(q, j) /\ answer \in [LuaRun -> Answers]
    BY DEF LuaHostInv, LuaHostTypes
  <2>3. CASE daemonUp
    <3>1. PICK e \in Request, how \in {"ok", "lost"} :
            /\ Entries(queued') = Entries(queued) \cup {e}
            /\ e.run = r /\ e.what = ask[r] /\ e.open = (how = "ok")
            /\ IF ask[r] = "set" THEN UNCHANGED answer
                                 ELSE answer' = [answer EXCEPT ![r] = how]
      BY <1>10, <2>3, ServeEntries DEF LuaHostInv
    <3>2. Receives(q, j) => Receives(q, j)'
      <4>1. q # r => answer'[q] = answer[q]
        BY <2>2, <3>1
      <4>2. q = r => answer[q] # "ok"
        BY <2>1 DEF NoAsk
      <4>3. QED
        BY <2>1, <4>1, <4>2 DEF Receives
    <3>3. CASE e.run = q /\ e.what = j /\ e.open
      <4>1. ask[q] = j /\ j # "set" /\ how = "ok" /\ r = q
        BY <3>1, <3>3, LuaHostAssumption
      <4>2. answer'[q] = "ok"
        BY <2>2, <3>1, <4>1
      <4>3. Receives(q, j)'
        BY <2>1, <4>1, <4>2 DEF Receives
      <4>4. QED
        BY <4>3 DEF ReaderStays, Read
    <3>4. CASE ~(e.run = q /\ e.what = j /\ e.open)
      <4>1. Asked(q, j)' => Asked(q, j)
        BY <2>1, <3>1, <3>4 DEF Asked
      <4>2. QED
        BY <2>1, <2>2, <3>2, <4>1 DEF ReaderStays, Read
    <3>5. QED
      BY <3>3, <3>4
  <2>4. CASE ~daemonUp
    <3>1. UNCHANGED queued /\ answer' = [answer EXCEPT ![r] = "lost"]
      BY <1>10, <2>4 DEF Serve, Answered
    <3>2. Receives(q, j) => Receives(q, j)'
      <4>1. q # r => answer'[q] = answer[q]
        BY <2>2, <3>1
      <4>2. q = r => answer[q] # "ok"
        BY <2>1 DEF NoAsk
      <4>3. QED
        BY <2>1, <4>1, <4>2 DEF Receives
    <3>3. QED
      BY <2>1, <2>2, <3>1, <3>2 DEF ReaderStays, Read, Asked
  <2>5. QED
    BY <2>3, <2>4
<1>11. ASSUME NEW r \in LuaRun, NEW i \in LuaItems, Open(r, i) PROVE ReaderStays(q, j)'
  <2>1. /\ ask' = [ask EXCEPT ![r] = i] /\ answer' = [answer EXCEPT ![r] = NoAsk]
        /\ UNCHANGED <<notified, passBatch>>
        /\ transport = "direct" =>
             /\ telling' = telling \cup {r}
             /\ \E e \in Request : /\ Entries(queued') = Entries(queued) \cup {e}
                                   /\ e.run = r /\ e.what = i
        /\ transport # "direct" => UNCHANGED <<queued, telling>>
    <3>1. toOpen[r][i] \in SUBSET LuaKinds
      BY DEF LuaHostInv, LuaHostTypes
    <3>2. QED
      BY <1>11, <3>1, PutToEntries DEF Open, LuaHostInv
  <2>2. UNCHANGED <<transport, whereabouts>> /\ ask[r] = NoAsk /\ (transport # "direct" => UNCHANGED ends)
    BY <1>11 DEF Open, OpenFeed, At, fixed
  <2>3. transport = "ipc" /\ Asked(q, j)' => Asked(q, j) /\ UNCHANGED ends
    BY <2>1, <2>2 DEF Asked
  <2>4. ReaderStays(q, j)
    BY DEF LuaHostInv
  <2>5. j # NoAsk
    BY LuaHostAssumption DEF NoAsk
  <2>6. transport = "ipc" => (Receives(q, j) => Receives(q, j)' \/ ~UNCHANGED ends)
    BY <2>1, <2>2, <2>5 DEF Receives, LuaHostInv, LuaHostTypes
  <2>7. QED
    BY <2>2, <2>3, <2>4, <2>6 DEF ReaderStays, Read
<1>12. ASSUME NEW r \in LuaRun, NEW i \in LuaItems, Dispatch(r, i)
       PROVE  ReaderStays(q, j)'
  <2>1. UNCHANGED <<transport, ask, answer, ends, queued, passBatch>>
    BY <1>12 DEF Dispatch, fixed, asking, requests
  <2>2. whereabouts[q] \in {"ended", "failed"} => whereabouts'[q] = whereabouts[q]
    BY <1>12 DEF Dispatch, At, GoesTo, LuaHostInv, LuaHostTypes
  <2>3. ReaderStays(q, j)
    BY DEF LuaHostInv
  <2>4. QED
    BY <2>1, <2>2, <2>3 DEF ReaderStays, Asked, Read, Receives
<1>13. ASSUME NEW r \in LuaRun, NEW i \in LuaItems, StreamEnds(r, i)
       PROVE  ReaderStays(q, j)'
  <2>1. UNCHANGED <<transport, whereabouts, ask, answer, queued, passBatch>>
        /\ ends' = [ends EXCEPT ![r] = @ \ {i}]
    BY <1>13 DEF StreamEnds, fixed, coroutine, asking, requests
  <2>2. ~Asked(r, i)
    <3>1. Entries(queued \o passBatch) = Entries(queued) \cup Entries(passBatch)
      BY EntriesConcat DEF LuaHostInv, LuaHostTypes
    <3>2. \A e \in Entries(queued \o passBatch) : ~(e.run = r /\ e.what = i)
      BY <1>13 DEF StreamEnds, Entries
    <3>3. QED
      BY <3>1, <3>2 DEF Asked
  <2>3. ReaderStays(q, j) /\ ends \in [LuaRun -> SUBSET LuaItems]
    BY DEF LuaHostInv, LuaHostTypes
  <2>4. CASE q = r /\ j = i
    BY <2>1, <2>2, <2>4 DEF ReaderStays, Asked
  <2>5. CASE ~(q = r /\ j = i)
    BY <2>1, <2>3, <2>5 DEF ReaderStays, Asked, Read, Receives
  <2>6. QED
    BY <2>4, <2>5
<1>14. ASSUME NEW r \in LuaRun, NEW i \in LuaItems, Forward(r, i) PROVE ReaderStays(q, j)'
  BY <1>14, LuaHostAssumption DEF Forward, fixed, coroutine, asking, requests, daemon,
        history, LuaHostInv, LuaHostTypes, OpensOnce, ReaderStays, Asked, Read, Receives, NoAsk
<1>15. ASSUME NEW r \in LuaRun, NEW i \in LuaItems, NEW k \in LuaKinds, AddCallback(r, i, k)
       PROVE  ReaderStays(q, j)'
  BY <1>15, LuaHostAssumption DEF AddCallback, At, fixed, asking, requests, flow, daemon,
        history, LuaHostInv, LuaHostTypes, OpensOnce, ReaderStays, Asked, Read, Receives, NoAsk
<1>16. ASSUME DrainChannel PROVE ReaderStays(q, j)'
  <2>1. UNCHANGED <<transport, whereabouts, ask, answer, ends>>
    BY <1>16 DEF DrainChannel, fixed, coroutine, asking
  <2>2. Asked(q, j)' => Asked(q, j)
    BY <1>16, DrainEntries DEF Asked
  <2>3. QED
    BY <2>1, <2>2 DEF LuaHostInv, ReaderStays, Read, Receives
<1>17. ASSUME Apply PROVE ReaderStays(q, j)'
  <2>1. UNCHANGED <<transport, whereabouts, ask, ends, queued>>
    BY <1>17 DEF Apply, fixed, coroutine
  <2>2. Asked(q, j)' => Asked(q, j)
    BY <1>17, <2>1, ApplyEntries DEF Asked, LuaHostInv
  <2>3. Receives(q, j) /\ transport = "ipc" => Receives(q, j)'
    <3>1. PICK it \in Request : it = Head(passBatch)
      BY <1>17, ApplyEntries DEF LuaHostInv
    <3>2. transport = "ipc" =>
            \/ UNCHANGED answer
            \/ /\ it.what = "set" /\ ask[it.run] = it.what
               /\ \E with \in Answers : answer' = [answer EXCEPT ![it.run] = with]
      BY <1>17, <3>1 DEF Apply, Answered, Answers
    <3>3. j # "set"
      BY LuaHostAssumption
    <3>4. QED
      BY <2>1, <3>2, <3>3 DEF Receives, LuaHostInv, LuaHostTypes
  <2>4. QED
    BY <2>1, <2>2, <2>3 DEF LuaHostInv, ReaderStays, Read
<1>18. ASSUME Exit PROVE ReaderStays(q, j)'
  <2>1. transport' = transport /\ (transport = "ipc" => queued' = <<>> /\ passBatch' = <<>>)
    BY <1>18 DEF Exit, LuaHostInv, LuaHostTypes
  <2>2. transport = "ipc" => ~Asked(q, j)'
    BY <2>1, EntriesOfNone DEF Asked
  <2>3. QED
    BY <2>1, <2>2 DEF ReaderStays
<1>19. ASSUME NEW i \in LuaItems, NEW k \in LuaKinds, EmitEvent(i, k)
       PROVE  ReaderStays(q, j)'
  BY <1>19, LuaHostAssumption DEF EmitEvent, fixed, coroutine, asking, requests, LuaHostInv, LuaHostTypes,
        OpensOnce, ReaderStays, Asked, Read, Receives, NoAsk
<1>20. CASE UNCHANGED luaHostVars
  BY <1>20, LuaHostAssumption DEF luaHostVars, LuaHostInv, LuaHostTypes, OpensOnce, ReaderStays, Asked,
        Read, Receives, NoAsk
<1>21. QED
  BY <1>1, <1>2, <1>3, <1>4, <1>5, <1>6, <1>7, <1>8, <1>9, <1>10,
     <1>11, <1>12, <1>13, <1>14, <1>15, <1>16, <1>17, <1>18, <1>19, <1>20 DEF LuaHostNext

\* Nothing is taken of a run between its asking and the worker's answer.
LEMMA TakenAnewStep ==
  ASSUME LuaHostInv, NEW q \in LuaRun, NEW j \in LuaItems, [LuaHostNext]_luaHostVars
  PROVE  TakenAnew(q, j)'
<1>1. ASSUME NEW r \in LuaRun, Start(r) PROVE TakenAnew(q, j)'
  BY <1>1 DEF Start, GoesTo, ForgetAll, fixed, asking, requests, flow, history, LuaHostInv, TakenAnew
<1>2. ASSUME NEW r \in LuaRun, AskSet(r) PROVE TakenAnew(q, j)'
  <2>0. j # NoAsk /\ j # "set"
    BY LuaHostAssumption DEF NoAsk
  <2>1. ask' = [ask EXCEPT ![r] = "set"] /\ answer' = [answer EXCEPT ![r] = NoAsk]
    BY <1>2 DEF AskSet, PutTo
  <2>2. UNCHANGED <<transport, takenOf>> /\ TakenAnew(q, j)
    BY <1>2 DEF AskSet, fixed, history, LuaHostInv
  <2>3. QED
    BY <2>0, <2>1, <2>2 DEF TakenAnew, LuaHostInv, LuaHostTypes
<1>3. ASSUME NEW r \in LuaRun, Notify(r) PROVE TakenAnew(q, j)'
  BY <1>3 DEF Notify, fixed, coroutine, flow, daemon, history, LuaHostInv, TakenAnew
<1>4. ASSUME NEW r \in LuaRun, ChunkEnds(r) PROVE TakenAnew(q, j)'
  BY <1>4 DEF ChunkEnds, Depart, GoesTo, At, fixed, asking, requests, daemon, history, LuaHostInv,
              TakenAnew
<1>5. ASSUME NEW r \in LuaRun, EnterLoop(r) PROVE TakenAnew(q, j)'
  BY <1>5 DEF EnterLoop, GoesTo, At, fixed, asking, requests, flow, daemon, history, LuaHostInv,
              TakenAnew
<1>6. ASSUME NEW r \in LuaRun, Listen(r) PROVE TakenAnew(q, j)'
  BY <1>6 DEF Listen, GoesTo, At, fixed, asking, requests, flow, daemon, history, LuaHostInv,
              TakenAnew
<1>7. ASSUME NEW r \in LuaRun, Resume(r) PROVE TakenAnew(q, j)'
  <2>0. j # NoAsk /\ j # "set"
    BY LuaHostAssumption DEF NoAsk
  <2>1. ask' = [ask EXCEPT ![r] = NoAsk] /\ answer' = [answer EXCEPT ![r] = NoAsk]
    BY <1>7 DEF Resume
  <2>2. UNCHANGED <<transport, takenOf>> /\ TakenAnew(q, j)
    BY <1>7 DEF Resume, fixed, history, LuaHostInv
  <2>3. QED
    BY <2>0, <2>1, <2>2 DEF TakenAnew, LuaHostInv, LuaHostTypes
<1>8. ASSUME NEW r \in LuaRun, Return(r) PROVE TakenAnew(q, j)'
  BY <1>8 DEF Return, GoesTo, At, fixed, asking, requests, flow, daemon, history, LuaHostInv,
              TakenAnew
<1>9. ASSUME NEW r \in LuaRun, LoopEnds(r) PROVE TakenAnew(q, j)'
  BY <1>9 DEF LoopEnds, GoesTo, At, fixed, asking, requests, flow, daemon, history, LuaHostInv,
              TakenAnew
<1>10. ASSUME NEW r \in LuaRun, Serve(r) PROVE TakenAnew(q, j)'
  <2>0. j # NoAsk /\ j # "set"
    BY LuaHostAssumption DEF NoAsk
  <2>1. UNCHANGED <<transport, ask, takenOf>> /\ TakenAnew(q, j) /\ answer[r] = NoAsk
    BY <1>10 DEF Serve, fixed, history, LuaHostInv
  <2>2. \/ UNCHANGED answer
        \/ \E how \in {"ok", "lost"} : answer' = [answer EXCEPT ![r] = how]
    BY <1>10 DEF Serve, Answered
  <2>3. answer'[q] = NoAsk => answer[q] = NoAsk
    BY <2>2 DEF NoAsk, LuaHostInv, LuaHostTypes
  <2>4. QED
    BY <2>1, <2>3 DEF TakenAnew
<1>11. ASSUME NEW r \in LuaRun, NEW i \in LuaItems, Open(r, i) PROVE TakenAnew(q, j)'
  <2>1. ask' = [ask EXCEPT ![r] = i] /\ answer' = [answer EXCEPT ![r] = NoAsk]
    BY <1>11 DEF Open, PutTo
  <2>2. takenOf' = [takenOf EXCEPT ![i] = NoRun] /\ UNCHANGED transport /\ TakenAnew(q, j)
    BY <1>11 DEF Open, fixed, LuaHostInv
  <2>3. q # NoRun
    BY LuaHostAssumption DEF LuaRun, NoRun
  <2>4. CASE j = i
    BY <2>2, <2>3, <2>4 DEF TakenAnew, LuaHostInv, LuaHostTypes
  <2>5. CASE j # i
    BY <2>1, <2>2, <2>5 DEF TakenAnew, LuaHostInv, LuaHostTypes
  <2>6. QED
    BY <2>4, <2>5
<1>12. ASSUME NEW r \in LuaRun, NEW i \in LuaItems, Dispatch(r, i) PROVE TakenAnew(q, j)'
  BY <1>12 DEF Dispatch, GoesTo, At, fixed, asking, requests, daemon, history, LuaHostInv, TakenAnew
<1>13. ASSUME NEW r \in LuaRun, NEW i \in LuaItems, StreamEnds(r, i)
       PROVE  TakenAnew(q, j)'
  BY <1>13 DEF StreamEnds, At, fixed, coroutine, asking, requests, flow, daemon, history,
               LuaHostInv, TakenAnew
<1>14. ASSUME NEW r \in LuaRun, NEW i \in LuaItems, Forward(r, i) PROVE TakenAnew(q, j)'
  BY <1>14 DEF Forward, fixed, coroutine, asking, requests, daemon, history, LuaHostInv, TakenAnew
<1>15. ASSUME NEW r \in LuaRun, NEW i \in LuaItems, NEW k \in LuaKinds, AddCallback(r, i, k)
       PROVE  TakenAnew(q, j)'
  BY <1>15 DEF AddCallback, At, fixed, asking, requests, flow, daemon, history, LuaHostInv, TakenAnew
<1>16. ASSUME DrainChannel PROVE TakenAnew(q, j)'
  BY <1>16 DEF DrainChannel, fixed, coroutine, asking, flow, daemon, history, LuaHostInv, TakenAnew
<1>17. ASSUME Apply PROVE TakenAnew(q, j)'
  <2>0. j # NoAsk /\ j # "set"
    BY LuaHostAssumption DEF NoAsk
  <2>1. UNCHANGED <<transport, ask>> /\ TakenAnew(q, j)
    BY <1>17 DEF Apply, fixed, LuaHostInv
  <2>2. PICK it \in Request : /\ it = Head(passBatch)
                              /\ Entries(passBatch) = {it} \cup Entries(passBatch')
    BY <1>17, ApplyEntries DEF LuaHostInv
  <2>3. it.run \in LuaRun /\ it.what \in Asks
    BY DEF Request
  <2>4. \/ UNCHANGED answer
        \/ \E with \in {"ok", "error"} : answer' = [answer EXCEPT ![it.run] = with]
    BY <1>17, <2>2 DEF Apply, Answered
  <2>5. answer'[q] = NoAsk => answer[q] = NoAsk
    BY <2>3, <2>4 DEF NoAsk, LuaHostInv, LuaHostTypes
  <2>6. \/ UNCHANGED takenOf
        \/ takenOf' = [takenOf EXCEPT ![it.what] = IF it.open THEN it.run ELSE NoRun]
    BY <1>17, <2>2 DEF Apply
  <2>7. CASE it.run = q /\ it.what = j /\ it.open
    <3>1. Asked(q, j)
      BY <2>2, <2>7 DEF Asked
    <3>2. transport = "ipc" => Read(q, j)
      BY <3>1 DEF LuaHostInv, ReaderStays
    <3>3. transport = "ipc" /\ ask[q] = j => answer[q] # NoAsk
      BY <3>2 DEF LuaHostInv, OpensOnce, Read, Receives, NoAsk
    <3>4. QED
      BY <2>1, <2>5, <3>3 DEF TakenAnew
  <2>8. CASE ~(it.run = q /\ it.what = j /\ it.open)
    <3>1. q # NoRun
      BY LuaHostAssumption DEF LuaRun, NoRun
    <3>2. takenOf'[j] = q => takenOf[j] = q
      BY <2>6, <2>8, <3>1 DEF LuaHostInv, LuaHostTypes
    <3>3. QED
      BY <2>1, <2>5, <3>2 DEF TakenAnew
  <2>9. QED
    BY <2>7, <2>8
<1>18. ASSUME Exit PROVE TakenAnew(q, j)'
  <2>1. UNCHANGED <<transport, ask, takenOf>> /\ TakenAnew(q, j)
    BY <1>18 DEF Exit, history, LuaHostInv
  <2>2. answer'[q] = NoAsk => answer[q] = NoAsk
    BY <1>18 DEF Exit, Lost, NoAsk
  <2>3. QED
    BY <2>1, <2>2 DEF TakenAnew
<1>19. ASSUME NEW i \in LuaItems, NEW k \in LuaKinds, EmitEvent(i, k)
       PROVE  TakenAnew(q, j)'
  BY <1>19 DEF EmitEvent, fixed, coroutine, asking, requests, LuaHostInv, TakenAnew
<1>20. CASE UNCHANGED luaHostVars
  BY <1>20 DEF luaHostVars, LuaHostInv, TakenAnew
<1>21. QED
  BY <1>1, <1>2, <1>3, <1>4, <1>5, <1>6, <1>7, <1>8, <1>9, <1>10,
     <1>11, <1>12, <1>13, <1>14, <1>15, <1>16, <1>17, <1>18, <1>19, <1>20 DEF LuaHostNext

\* The daemon sends an item's events to the config that handles it.
LEMMA SentThereStep ==
  ASSUME LuaHostInv, NEW q \in LuaRun, NEW j \in LuaItems, [LuaHostNext]_luaHostVars
  PROVE  SentThere(q, j)'
<1>1. ASSUME NEW r \in LuaRun, Start(r) PROVE SentThere(q, j)'
  <2>1. /\ UNCHANGED <<transport, daemonUp, ask, answer, ends, takenOf, opener>>
        /\ transport = "ipc" => UNCHANGED feed
        /\ whereabouts[r] = "unstarted" /\ whereabouts'[r] = "config"
    BY <1>1 DEF Start, GoesTo, ForgetAll, fixed, asking, history, LuaHostInv, LuaHostTypes
  <2>2. SentThere(q, j)
    BY DEF LuaHostInv
  <2>3. CASE transport = "ipc"
    BY <2>1, <2>2, <2>3 DEF SentThere, Receives
  <2>4. CASE transport = "direct"
    <3>1. SUFFICES ASSUME opener[j] = q, Latest(q)' PROVE FALSE
      BY <2>1, <2>4 DEF SentThere
    <3>2. whereabouts[q] # "unstarted"
      BY <3>1 DEF LuaHostInv, InTurn
    <3>3. ~(r > q)
      BY <2>1, <3>1 DEF Latest
    <3>4. r < q
      BY <2>1, <3>2, <3>3 DEF LuaRun
    <3>5. QED
      BY <2>1, <3>2, <3>4 DEF LuaHostInv, InTurn
  <2>5. QED
    BY <2>3, <2>4 DEF LuaHostInv, LuaHostTypes
<1>2. ASSUME NEW r \in LuaRun, AskSet(r) PROVE SentThere(q, j)'
  <2>0. j # NoAsk /\ j # "set"
    BY LuaHostAssumption DEF NoAsk
  <2>1. ask' = [ask EXCEPT ![r] = "set"] /\ answer' = [answer EXCEPT ![r] = NoAsk]
    BY <1>2 DEF AskSet, PutTo
  <2>2. Receives(q, j)' => Receives(q, j) \/ ~UNCHANGED ends
    BY <2>0, <2>1 DEF Receives, NoAsk, LuaHostInv, LuaHostTypes
  <2>3. UNCHANGED <<transport, daemonUp, whereabouts, feed, opener, takenOf, ends>>
        /\ SentThere(q, j)
    BY <1>2 DEF AskSet, fixed, daemon, history, LuaHostInv
  <2>4. QED
    BY <2>2, <2>3 DEF SentThere, Latest
<1>3. ASSUME NEW r \in LuaRun, Notify(r) PROVE SentThere(q, j)'
  BY <1>3 DEF Notify, fixed, coroutine, flow, daemon, history, LuaHostInv, SentThere, Receives, Latest
<1>4. ASSUME NEW r \in LuaRun, ChunkEnds(r) PROVE SentThere(q, j)'
  <2>1. UNCHANGED <<transport, daemonUp, feed, opener, takenOf>> /\ SentThere(q, j)
    BY <1>4 DEF ChunkEnds, fixed, daemon, history, LuaHostInv
  <2>2. Latest(q)' => Latest(q)
    BY <1>4 DEF ChunkEnds, Latest, GoesTo, Depart, At, LuaHostInv, LuaHostTypes
  <2>3. Receives(q, j)' => Receives(q, j)
    BY <1>4 DEF ChunkEnds, asking, coroutine, Receives, Depart, LuaHostInv, LuaHostTypes
  <2>4. QED
    BY <2>1, <2>2, <2>3 DEF SentThere
<1>5. ASSUME NEW r \in LuaRun, EnterLoop(r) PROVE SentThere(q, j)'
  <2>1. UNCHANGED <<transport, daemonUp, feed, opener, takenOf>> /\ SentThere(q, j)
    BY <1>5 DEF EnterLoop, fixed, daemon, history, LuaHostInv
  <2>2. Latest(q)' => Latest(q)
    BY <1>5 DEF EnterLoop, Latest, GoesTo, At, LuaHostInv, LuaHostTypes
  <2>3. Receives(q, j)' => Receives(q, j)
    BY <1>5 DEF EnterLoop, asking, coroutine, Receives, LuaHostInv, LuaHostTypes
  <2>4. QED
    BY <2>1, <2>2, <2>3 DEF SentThere
<1>6. ASSUME NEW r \in LuaRun, Listen(r) PROVE SentThere(q, j)'
  <2>1. UNCHANGED <<transport, daemonUp, feed, opener, takenOf>> /\ SentThere(q, j)
    BY <1>6 DEF Listen, fixed, daemon, history, LuaHostInv
  <2>2. Latest(q)' => Latest(q)
    BY <1>6 DEF Listen, Latest, GoesTo, At, LuaHostInv, LuaHostTypes
  <2>3. Receives(q, j)' => Receives(q, j)
    BY <1>6 DEF Listen, asking, coroutine, Receives, LuaHostInv, LuaHostTypes
  <2>4. QED
    BY <2>1, <2>2, <2>3 DEF SentThere
<1>7. ASSUME NEW r \in LuaRun, Resume(r) PROVE SentThere(q, j)'
  <2>0. j # NoAsk /\ j # "set"
    BY LuaHostAssumption DEF NoAsk
  <2>1. UNCHANGED <<transport, daemonUp, feed, opener, takenOf>> /\ SentThere(q, j)
    BY <1>7 DEF Resume, fixed, daemon, history, LuaHostInv
  <2>2. Latest(q)' => Latest(q)
    <3>1. \A x \in LuaRun : whereabouts'[x] = "unstarted" => whereabouts[x] = "unstarted"
      BY <1>7 DEF Resume, Depart, GoesTo, LuaHostInv, LuaHostTypes
    <3>2. QED
      BY <3>1 DEF Latest
  <2>3. ask'[q] = j /\ answer'[q] = "ok" => ask[q] = j /\ answer[q] = "ok"
    BY <1>7, <2>0 DEF Resume, LuaHostInv, LuaHostTypes
  <2>4. j \in ends'[q] => Receives(q, j)
    <3>1. CASE ask[r] \in LuaItems
               /\ ends' = [ends EXCEPT ![r] = IF answer[r] = "ok" THEN @ \cup {ask[r]} ELSE @ \ {ask[r]}]
      BY <3>1 DEF Receives, LuaHostInv, LuaHostTypes
    <3>2. CASE ends' = [ends EXCEPT ![r] = {}] \/ UNCHANGED ends
      BY <3>2 DEF Receives, LuaHostInv, LuaHostTypes
    <3>3. QED
      BY <1>7, <3>1, <3>2 DEF Resume, Depart
  <2>5. QED
    BY <2>1, <2>2, <2>3, <2>4 DEF SentThere, Receives
<1>8. ASSUME NEW r \in LuaRun, Return(r) PROVE SentThere(q, j)'
  <2>1. UNCHANGED <<transport, daemonUp, feed, opener, takenOf>> /\ SentThere(q, j)
    BY <1>8 DEF Return, fixed, daemon, history, LuaHostInv
  <2>2. Latest(q)' => Latest(q)
    BY <1>8 DEF Return, Latest, GoesTo, At, LuaHostInv, LuaHostTypes
  <2>3. Receives(q, j)' => Receives(q, j)
    BY <1>8 DEF Return, asking, coroutine, Receives, LuaHostInv, LuaHostTypes
  <2>4. QED
    BY <2>1, <2>2, <2>3 DEF SentThere
<1>9. ASSUME NEW r \in LuaRun, LoopEnds(r) PROVE SentThere(q, j)'
  <2>1. UNCHANGED <<transport, daemonUp, feed, opener, takenOf>> /\ SentThere(q, j)
    BY <1>9 DEF LoopEnds, fixed, daemon, history, LuaHostInv
  <2>2. Latest(q)' => Latest(q)
    BY <1>9 DEF LoopEnds, Latest, GoesTo, At, LuaHostInv, LuaHostTypes
  <2>3. Receives(q, j)' => Receives(q, j)
    BY <1>9 DEF LoopEnds, asking, coroutine, Receives, LuaHostInv, LuaHostTypes
  <2>4. QED
    BY <2>1, <2>2, <2>3 DEF SentThere
<1>10. ASSUME NEW r \in LuaRun, Serve(r) PROVE SentThere(q, j)'
  <2>1. /\ UNCHANGED <<transport, daemonUp, whereabouts, ask, feed, opener, takenOf, ends>>
        /\ SentThere(q, j) /\ TakenAnew(q, j) /\ transport = "ipc" /\ answer[r] = NoAsk
    BY <1>10 DEF Serve, fixed, coroutine, daemon, history, LuaHostInv
  <2>2. \/ UNCHANGED answer
        \/ \E how \in {"ok", "lost"} : answer' = [answer EXCEPT ![r] = how]
    BY <1>10 DEF Serve, Answered
  <2>3. ask[q] = j /\ answer'[q] = "ok" => answer[q] = "ok" \/ takenOf[j] # q
    BY <2>1, <2>2 DEF TakenAnew, LuaHostInv, LuaHostTypes
  <2>4. QED
    BY <2>1, <2>3 DEF SentThere, Receives
<1>11. ASSUME NEW r \in LuaRun, NEW i \in LuaItems, Open(r, i) PROVE SentThere(q, j)'
  <2>1. ask' = [ask EXCEPT ![r] = i] /\ answer' = [answer EXCEPT ![r] = NoAsk]
    BY <1>11 DEF Open, PutTo
  <2>2. /\ takenOf' = [takenOf EXCEPT ![i] = NoRun] /\ opener' = [opener EXCEPT ![i] = r]
        /\ UNCHANGED <<transport, daemonUp, whereabouts>> /\ SentThere(q, j)
    BY <1>11 DEF Open, fixed, LuaHostInv
  <2>3. \/ /\ transport = "direct" /\ feed' = [feed EXCEPT ![i] = r]
           /\ ends' = [ends EXCEPT ![r] = @ \cup {i}]
        \/ transport = "ipc" /\ UNCHANGED <<feed, ends>>
    BY <1>11 DEF Open, OpenFeed, LuaHostInv, LuaHostTypes
  <2>4. q # NoRun
    BY LuaHostAssumption DEF LuaRun, NoRun
  <2>5. CASE j = i
    <3>1. takenOf'[j] # q /\ opener'[j] = r
      BY <2>2, <2>4, <2>5 DEF LuaHostInv, LuaHostTypes
    <3>2. transport = "direct" => feed'[j] = r
      BY <2>3, <2>5 DEF LuaHostInv, LuaHostTypes
    <3>3. QED
      BY <2>2, <3>1, <3>2 DEF SentThere
  <2>6. CASE j # i
    <3>1. takenOf'[j] = takenOf[j] /\ opener'[j] = opener[j] /\ feed'[j] = feed[j]
      BY <2>2, <2>3, <2>6 DEF LuaHostInv, LuaHostTypes
    <3>2. j \in ends'[q] => j \in ends[q]
      <4>1. ends \in [LuaRun -> SUBSET LuaItems]
        BY DEF LuaHostInv, LuaHostTypes
      <4>2. CASE ends' = [ends EXCEPT ![r] = @ \cup {i}]
        BY <2>6, <4>1, <4>2
      <4>3. QED
        BY <2>3, <4>2
    <3>3. ask'[q] = j /\ answer'[q] = "ok" => ask[q] = j /\ answer[q] = "ok"
      BY <2>1, <2>6 DEF LuaHostInv, LuaHostTypes
    <3>4. QED
      BY <2>2, <3>1, <3>2, <3>3 DEF SentThere, Receives, Latest
  <2>7. QED
    BY <2>5, <2>6
<1>12. ASSUME NEW r \in LuaRun, NEW i \in LuaItems, Dispatch(r, i) PROVE SentThere(q, j)'
  <2>1. UNCHANGED <<transport, daemonUp, feed, opener, takenOf>> /\ SentThere(q, j)
    BY <1>12 DEF Dispatch, fixed, daemon, history, LuaHostInv
  <2>2. Latest(q)' => Latest(q)
    BY <1>12 DEF Dispatch, Latest, GoesTo, At, LuaHostInv, LuaHostTypes
  <2>3. Receives(q, j)' => Receives(q, j)
    BY <1>12 DEF Dispatch, asking, coroutine, Receives, LuaHostInv, LuaHostTypes
  <2>4. QED
    BY <2>1, <2>2, <2>3 DEF SentThere
<1>13. ASSUME NEW r \in LuaRun, NEW i \in LuaItems, StreamEnds(r, i)
       PROVE  SentThere(q, j)'
  <2>1. UNCHANGED <<transport, daemonUp, whereabouts, ask, answer, feed, opener, takenOf>>
        /\ SentThere(q, j)
    BY <1>13 DEF StreamEnds, fixed, coroutine, asking, daemon, history, LuaHostInv
  <2>2. j \in ends'[q] => j \in ends[q]
    BY <1>13 DEF StreamEnds, LuaHostInv, LuaHostTypes
  <2>3. QED
    BY <2>1, <2>2 DEF SentThere, Receives, Latest
<1>14. ASSUME NEW r \in LuaRun, NEW i \in LuaItems, Forward(r, i) PROVE SentThere(q, j)'
  BY <1>14 DEF Forward, fixed, coroutine, asking, requests, daemon, history, LuaHostInv, SentThere,
               Receives, Latest
<1>15. ASSUME NEW r \in LuaRun, NEW i \in LuaItems, NEW k \in LuaKinds, AddCallback(r, i, k)
       PROVE  SentThere(q, j)'
  BY <1>15 DEF AddCallback, At, fixed, asking, requests, flow, daemon, history, LuaHostInv,
               SentThere, Receives, Latest
<1>16. ASSUME DrainChannel PROVE SentThere(q, j)'
  BY <1>16 DEF DrainChannel, fixed, coroutine, asking, flow, daemon, history, LuaHostInv,
               SentThere, Receives, Latest
<1>17. ASSUME Apply PROVE SentThere(q, j)'
  <2>1. /\ UNCHANGED <<transport, daemonUp, whereabouts, ask, ends, opener>>
        /\ SentThere(q, j)
    BY <1>17 DEF Apply, fixed, coroutine, LuaHostInv
  <2>2. PICK it \in Request : it = Head(passBatch)
    BY <1>17, ApplyEntries DEF LuaHostInv
  <2>3. it.run \in LuaRun /\ it.what \in Asks
    BY DEF Request
  <2>4. \/ UNCHANGED answer
        \/ /\ transport = "direct" \/ it.what = "set"
           /\ ask[it.run] = it.what
           /\ \E with \in {"ok", "error"} : answer' = [answer EXCEPT ![it.run] = with]
    BY <1>17, <2>2 DEF Apply, Answered
  <2>5. j # "set"
    BY LuaHostAssumption
  <2>6. ask[q] = j /\ answer'[q] = "ok" => Receives(q, j)
    <3>1. transport = "direct" /\ ask[q] = j => j \in ends[q]
      BY DEF LuaHostInv, OpensOnce
    <3>2. transport = "ipc" /\ ask[q] = j => answer'[q] = answer[q]
      BY <2>3, <2>4, <2>5 DEF LuaHostInv, LuaHostTypes
    <3>3. QED
      BY <3>1, <3>2 DEF Receives, LuaHostInv, LuaHostTypes
  <2>7. Receives(q, j)' => Receives(q, j)
    BY <2>1, <2>6 DEF Receives
  <2>8. \/ UNCHANGED <<takenOf, feed>>
        \/ \E by \in {it.run, NoRun} :
             /\ takenOf' = [takenOf EXCEPT ![it.what] = by]
             /\ feed' = IF transport = "ipc" THEN [feed EXCEPT ![it.what] = by] ELSE feed
    BY <1>17, <2>2 DEF Apply, daemon
  <2>9. \/ takenOf'[j] = takenOf[j] /\ feed'[j] = feed[j]
        \/ transport = "ipc" /\ takenOf'[j] = feed'[j]
        \/ transport = "direct" /\ feed'[j] = feed[j]
    BY <2>8 DEF LuaHostInv, LuaHostTypes
  <2>10. QED
    BY <2>1, <2>7, <2>9 DEF SentThere, Latest
<1>18. ASSUME Exit PROVE SentThere(q, j)'
  BY <1>18 DEF Exit, SentThere
<1>19. ASSUME NEW i \in LuaItems, NEW k \in LuaKinds, EmitEvent(i, k)
       PROVE  SentThere(q, j)'
  <2>1. /\ UNCHANGED <<transport, daemonUp, whereabouts, ask, answer, ends, opener, takenOf>>
        /\ SentThere(q, j) /\ daemonUp
    BY <1>19 DEF EmitEvent, fixed, coroutine, asking, LuaHostInv
  <2>2. UNCHANGED feed \/ (~FeedTakes(i) /\ feed' = [feed EXCEPT ![i] = NoRun])
    BY <1>19 DEF EmitEvent
  <2>3. q # NoRun
    BY LuaHostAssumption DEF LuaRun, NoRun
  <2>4. Receives(q, j) /\ feed[j] = q => feed'[j] = q
    BY <2>2, <2>3 DEF FeedTakes, LuaHostInv, LuaHostTypes
  <2>5. QED
    BY <2>1, <2>4 DEF SentThere, Receives, Latest
<1>20. CASE UNCHANGED luaHostVars
  BY <1>20 DEF luaHostVars, LuaHostInv, SentThere, Receives, Latest
<1>21. QED
  BY <1>1, <1>2, <1>3, <1>4, <1>5, <1>6, <1>7, <1>8, <1>9, <1>10,
     <1>11, <1>12, <1>13, <1>14, <1>15, <1>16, <1>17, <1>18, <1>19, <1>20 DEF LuaHostNext

-----------------------------------------------------------------------------
\* The invariant holds of the start and of every step.
LEMMA LuaHostStart == LuaHostInit => LuaHostInv
<1> SUFFICES ASSUME LuaHostInit PROVE LuaHostInv
  OBVIOUS
<1>1. queued = <<>> /\ passBatch = <<>> /\ <<>> \in Seq(Request)
  BY DEF LuaHostInit
<1>2. LuaHostTypes
  BY <1>1 DEF LuaHostInit, LuaHostTypes, NoKinds, RunStages, Asks, Answers
<1>3. \A r \in LuaRun : ask[r] = NoAsk /\ ends[r] = {} /\ whereabouts[r] = "unstarted"
  BY DEF LuaHostInit
<1>4. \A i \in LuaItems : i # NoAsk /\ opener[i] = NoRun
  BY LuaHostAssumption DEF LuaHostInit, NoAsk
<1>5. InTurn
  BY <1>3, <1>4 DEF InTurn, LuaRun, NoRun
<1>6. Attended
  BY <1>1, <1>3, EntriesOfNone DEF Attended
<1>7. ASSUME NEW r \in LuaRun PROVE OpensOnce(r)
  BY <1>3, <1>4 DEF OpensOnce
<1>8. ASSUME NEW r \in LuaRun, NEW i \in LuaItems
      PROVE  ReaderStays(r, i) /\ TakenAnew(r, i) /\ SentThere(r, i)
  <2>1. ~Asked(r, i)
    BY <1>1, EntriesOfNone DEF Asked
  <2>2. ~Receives(r, i) /\ ask[r] # i
    BY <1>3, <1>4 DEF Receives
  <2>3. QED
    BY <2>1, <2>2 DEF ReaderStays, TakenAnew, SentThere
<1>9. QED
  BY <1>2, <1>5, <1>6, <1>7, <1>8 DEF LuaHostInv

LEMMA LuaHostStep == LuaHostInv /\ [LuaHostNext]_luaHostVars => LuaHostInv'
<1> SUFFICES ASSUME LuaHostInv, [LuaHostNext]_luaHostVars PROVE LuaHostInv'
  OBVIOUS
<1>1. LuaHostTypes' /\ InTurn' /\ Attended'
  BY TypedStep, InTurnStep, AttendedStep
<1>2. \A r \in LuaRun : OpensOnce(r)'
  BY OpensOnceStep
<1>3. \A r \in LuaRun, i \in LuaItems : ReaderStays(r, i)' /\ TakenAnew(r, i)' /\ SentThere(r, i)'
  BY ReaderStaysStep, TakenAnewStep, SentThereStep
<1>4. QED
  BY <1>1, <1>2, <1>3 DEF LuaHostInv

LEMMA LuaHostHolds == LuaHostSpec => []LuaHostInv
BY LuaHostStart, LuaHostStep, PTL DEF LuaHostSpec

\* A call is among the requests of a queue, or it is not.
LEMMA AmongEntries ==
  ASSUME NEW w, NEW r \in LuaRun
  PROVE  Among(w, r) <=> \E e \in Entries(w) : e.run = r /\ e.what = ask[r]
BY DEF Among, Entries

\* The invariant has every unanswered call on its way.
LEMMA AttendedSuffices == LuaHostInv => NoCallStranded
<1> SUFFICES ASSUME LuaHostInv, NEW r \in LuaRun, ask[r] # NoAsk, answer[r] = NoAsk,
                    daemonUp \/ transport = "ipc"
             PROVE  \/ transport = "ipc" /\ ~Among(queued \o passBatch, r)
                    \/ Among(passBatch, r)
                    \/ Among(queued, r) /\ (notified \/ r \in telling)
  BY DEF NoCallStranded, LuaHostInv, LuaHostTypes
<1>1. Entries(queued \o passBatch) = Entries(queued) \cup Entries(passBatch)
  BY EntriesConcat DEF LuaHostInv, LuaHostTypes
<1>2. Among(queued \o passBatch, r) => Among(queued, r) \/ Among(passBatch, r)
  BY <1>1, AmongEntries
<1>3. Among(queued, r) => notified \/ r \in telling
  <2>1. CASE daemonUp
    BY <2>1, AmongEntries DEF LuaHostInv, Attended
  <2>2. CASE ~daemonUp
    <3>1. queued = <<>>
      BY <2>2 DEF LuaHostInv, Attended
    <3>2. QED
      BY <3>1, EntriesOfNone, AmongEntries
  <2>3. QED
    BY <2>1, <2>2
<1>4. transport = "direct" => Among(queued, r) \/ Among(passBatch, r)
  BY AmongEntries DEF LuaHostInv, Attended, LuaHostTypes
<1>5. transport \in {"direct", "ipc"}
  BY DEF LuaHostInv, LuaHostTypes
<1>6. QED
  BY <1>2, <1>3, <1>4, <1>5

\* What an item's script is given, no config was there to handle.
LEMMA ForkedForNobody ==
  ASSUME LuaHostInv, [LuaHostNext]_luaHostVars, fired' # fired, forked' # NoAsk,
         NEW r \in LuaRun
  PROVE  ~Handles(r, forked')
<1>1. PICK i \in LuaItems, k \in LuaKinds : EmitEvent(i, k)
  <2>1. LuaHostNext
    BY DEF luaHostVars
  <2>2. Apply => UNCHANGED fired
    BY DEF Apply
  <2>3. DrainChannel \/ Exit => UNCHANGED fired
    BY DEF DrainChannel, Exit, history
  <2>4. \A q \in LuaRun :
          Start(q) \/ AskSet(q) \/ Notify(q) \/ ChunkEnds(q) \/ EnterLoop(q) \/ Listen(q)
            \/ Resume(q) \/ Return(q) \/ LoopEnds(q) \/ Serve(q) => UNCHANGED fired
    BY DEF Start, AskSet, Notify, ChunkEnds, EnterLoop, Listen, Resume, Return, LoopEnds,
           Serve, history
  <2>5. \A q \in LuaRun, i \in LuaItems :
          Open(q, i) \/ Dispatch(q, i) \/ StreamEnds(q, i) \/ Forward(q, i) => UNCHANGED fired
    BY DEF Open, Dispatch, StreamEnds, Forward, history
  <2>6. \A q \in LuaRun, i \in LuaItems, k \in LuaKinds : AddCallback(q, i, k) => UNCHANGED fired
    BY DEF AddCallback, history
  <2>7. QED
    BY <2>1, <2>2, <2>3, <2>4, <2>5, <2>6 DEF LuaHostNext
<1>2. daemonUp /\ ~FeedTakes(i) /\ forked' = i
  BY <1>1 DEF EmitEvent
<1>3. SUFFICES ASSUME Handles(r, i) PROVE FALSE
  BY <1>2
<1>4. takenOf[i] = r /\ opener[i] = r /\ Receives(r, i) /\ Latest(r)
  BY <1>3 DEF Handles, Latest
<1>5. feed[i] = r
  BY <1>2, <1>4 DEF LuaHostInv, LuaHostTypes, SentThere
<1>6. r # NoRun
  BY LuaHostAssumption DEF LuaRun, NoRun
<1>7. QED
  BY <1>2, <1>4, <1>5, <1>6 DEF FeedTakes

\* Whoever calls the daemon is answered or on the way to be, over either
\* transport and whenever the daemon goes, and the script of an item that a config
\* handles is never given its event.
THEOREM ConfigsAreServed == LuaHostSpec => LuaIsServed
<1>1. LuaHostInv => NoCallStranded
  BY AttendedSuffices
<1>2. LuaHostInv /\ [LuaHostNext]_luaHostVars =>
        [fired' # fired /\ forked' # NoAsk => ~\E r \in LuaRun : Handles(r, forked')]_luaHostVars
  BY ForkedForNobody
<1>3. QED
  BY <1>1, <1>2, LuaHostHolds, PTL DEF LuaHostSpec, LuaIsServed, NotForked

\* What the Lua host's invariant leaves open of its types.
Events == [LuaRun -> [LuaItems -> Seq(LuaKinds)]]
LuaHostRest ==
  /\ telling \in SUBSET LuaRun /\ calls \in 0..MaxCalls
  /\ callbacks \in [LuaRun -> [LuaItems -> SUBSET LuaKinds]]
  /\ subscribed \in [LuaItems -> SUBSET LuaKinds]
  /\ wired \in Events /\ inbox \in Events
  /\ fired \in 0..MaxFired /\ forked \in LuaItems \cup {NoAsk}

\* An event put in a queue leaves the queues queues of events.
LEMMA EventsPut ==
  ASSUME NEW e \in Events, NEW r \in LuaRun, NEW i \in LuaItems
  PROVE  /\ \A k \in LuaKinds : [e EXCEPT ![r][i] = Append(@, k)] \in Events
         /\ e[r][i] # <<>> => [e EXCEPT ![r][i] = Tail(@)] \in Events /\ Head(e[r][i]) \in LuaKinds
         /\ [e EXCEPT ![r][i] = <<>>] \in Events
         /\ [e EXCEPT ![r] = [j \in LuaItems |-> <<>>]] \in Events
<1>1. e[r][i] \in Seq(LuaKinds)
  BY DEF Events
<1>2. ASSUME NEW q \in Seq(LuaKinds) PROVE [e EXCEPT ![r][i] = q] \in Events
  BY DEF Events
<1>3. ASSUME NEW k \in LuaKinds PROVE [e EXCEPT ![r][i] = Append(@, k)] \in Events
  <2>1. Append(e[r][i], k) \in Seq(LuaKinds)
    BY <1>1, AppendProperties
  <2>2. [e EXCEPT ![r][i] = Append(@, k)] = [e EXCEPT ![r][i] = Append(e[r][i], k)]
    OBVIOUS
  <2>3. QED
    BY <1>2, <2>1, <2>2
<1>4. ASSUME e[r][i] # <<>>
      PROVE  [e EXCEPT ![r][i] = Tail(@)] \in Events /\ Head(e[r][i]) \in LuaKinds
  <2>1. Tail(e[r][i]) \in Seq(LuaKinds) /\ Head(e[r][i]) \in LuaKinds
    BY <1>1, <1>4, HeadTailProperties
  <2>2. [e EXCEPT ![r][i] = Tail(@)] = [e EXCEPT ![r][i] = Tail(e[r][i])]
    OBVIOUS
  <2>3. QED
    BY <1>2, <2>1, <2>2
<1>5. <<>> \in Seq(LuaKinds)
  BY EmptySeq
<1>6. [j \in LuaItems |-> <<>>] \in [LuaItems -> Seq(LuaKinds)]
  BY <1>5
<1>7. [e EXCEPT ![r] = [j \in LuaItems |-> <<>>]] \in Events
  BY <1>6 DEF Events
<1>8. QED
  BY <1>2, <1>3, <1>4, <1>5, <1>7

LEMMA LuaHostRestStart == LuaHostInit => LuaHostRest
<1> SUFFICES ASSUME LuaHostInit PROVE LuaHostRest
  OBVIOUS
<1>1. <<>> \in Seq(LuaKinds)
  BY EmptySeq
<1>2. NoEvents \in Events
  BY <1>1 DEF NoEvents, Events
<1>3. QED
  BY <1>2, LuaHostAssumption DEF LuaHostInit, LuaHostRest, NoKinds

\* Whatever is called, answered, fired or lost, that is so.
LEMMA LuaHostRestStep == LuaHostInv /\ LuaHostRest /\ [LuaHostNext]_luaHostVars => LuaHostRest'
<1> SUFFICES ASSUME LuaHostInv, LuaHostRest, [LuaHostNext]_luaHostVars PROVE LuaHostRest'
  OBVIOUS
<1> USE DEF LuaHostRest
<1>0. MaxCalls \in Nat /\ MaxFired \in Nat
  BY LuaHostAssumption
<1>1. ASSUME NEW r \in LuaRun, Start(r) PROVE LuaHostRest'
  BY <1>1 DEF Start, fixed, asking, requests, flow, history
<1>2. ASSUME NEW r \in LuaRun, AskSet(r) PROVE LuaHostRest'
  BY <1>0, <1>2 DEF AskSet, PutTo, fixed, daemon, history, flow
<1>3. ASSUME NEW r \in LuaRun, Notify(r) PROVE LuaHostRest'
  BY <1>3 DEF Notify, fixed, coroutine, flow, daemon, history
<1>4. ASSUME NEW r \in LuaRun, NEW how, Depart(r, how),
             UNCHANGED <<callbacks, calls, telling, subscribed, fired, forked>> PROVE LuaHostRest'
  <2>1. inbox' = [inbox EXCEPT ![r] = [i \in LuaItems |-> <<>>]]
        /\ wired' = [wired EXCEPT ![r] = [i \in LuaItems |-> <<>>]]
    BY <1>4 DEF Depart
  <2>2. <<>> \in Seq(LuaKinds)
    BY EmptySeq
  <2>3. [i \in LuaItems |-> <<>>] \in [LuaItems -> Seq(LuaKinds)]
    BY <2>2
  <2>4. inbox' \in Events /\ wired' \in Events
    BY <2>1, <2>3 DEF Events
  <2>5. QED
    BY <1>4, <2>4
<1>5. ASSUME NEW r \in LuaRun, ChunkEnds(r) PROVE LuaHostRest'
  BY <1>4, <1>5 DEF ChunkEnds, fixed, asking, requests, daemon, history
<1>6. ASSUME NEW r \in LuaRun, EnterLoop(r) \/ Listen(r) \/ Return(r) \/ LoopEnds(r) PROVE LuaHostRest'
  BY <1>6 DEF EnterLoop, Listen, Return, LoopEnds, fixed, asking, requests, flow, daemon, history
<1>7. ASSUME NEW r \in LuaRun, Resume(r) PROVE LuaHostRest'
  <2>1. UNCHANGED <<callbacks, calls, telling, subscribed, fired, forked>>
    BY <1>7 DEF Resume, daemon, history
  <2>2. CASE \E how : Depart(r, how)
    BY <1>4, <2>1, <2>2
  <2>3. CASE UNCHANGED flow
    BY <2>1, <2>3 DEF flow
  <2>4. CASE ask[r] \in LuaItems /\ inbox' = [inbox EXCEPT ![r][ask[r]] = <<>>] /\ UNCHANGED wired
    BY <2>1, <2>4, EventsPut
  <2>5. QED
    BY <1>7, <2>2, <2>3, <2>4 DEF Resume, flow
<1>8. ASSUME NEW r \in LuaRun, Serve(r) PROVE LuaHostRest'
  BY <1>8 DEF Serve, fixed, coroutine, flow, daemon, history
<1>9. ASSUME NEW r \in LuaRun, NEW i \in LuaItems, Open(r, i) PROVE LuaHostRest'
  BY <1>9 DEF Open, PutTo, fixed, flow
<1>10. ASSUME NEW r \in LuaRun, NEW i \in LuaItems, Dispatch(r, i) PROVE LuaHostRest'
  <2>1. inbox' \in Events
    BY <1>10, EventsPut DEF Dispatch
  <2>2. QED
    BY <1>10, <2>1 DEF Dispatch, fixed, asking, requests, daemon, history
<1>11. ASSUME NEW r \in LuaRun, NEW i \in LuaItems, StreamEnds(r, i) PROVE LuaHostRest'
  BY <1>11 DEF StreamEnds, fixed, coroutine, asking, requests, flow, daemon, history
<1>12. ASSUME NEW r \in LuaRun, NEW i \in LuaItems, Forward(r, i) PROVE LuaHostRest'
  <2>1. Head(wired[r][i]) \in LuaKinds /\ wired' \in Events
    BY <1>12, EventsPut DEF Forward
  <2>2. inbox' \in Events
    BY <1>12, <2>1, EventsPut DEF Forward
  <2>3. QED
    BY <1>12, <2>1, <2>2 DEF Forward, fixed, coroutine, asking, requests, daemon, history
<1>13. ASSUME NEW r \in LuaRun, NEW i \in LuaItems, NEW k \in LuaKinds, AddCallback(r, i, k)
       PROVE  LuaHostRest'
  BY <1>13 DEF AddCallback, fixed, asking, requests, flow, daemon, history
<1>14. ASSUME DrainChannel PROVE LuaHostRest'
  BY <1>14 DEF DrainChannel, fixed, coroutine, asking, flow, daemon, history
<1>15. ASSUME Apply PROVE LuaHostRest'
  <2>1. PICK it \in Request : it = Head(passBatch)
    BY <1>15, HeadTailProperties DEF Apply, LuaHostInv, LuaHostTypes
  <2>2. subscribed' \in [LuaItems -> SUBSET LuaKinds]
    <3>1. it.kinds \in SUBSET LuaKinds
      BY DEF Request
    <3>2. CASE it.what \in LuaItems /\ subscribed' = [subscribed EXCEPT ![it.what] = it.kinds]
      BY <3>1, <3>2
    <3>3. CASE UNCHANGED subscribed
      BY <3>3
    <3>4. QED
      BY <1>15, <2>1, <3>2, <3>3 DEF Apply, daemon
  <2>3. QED
    BY <1>15, <2>2 DEF Apply, fixed, coroutine, flow
<1>16. ASSUME Exit PROVE LuaHostRest'
  BY <1>16 DEF Exit, coroutine, flow, history
<1>17. ASSUME NEW i \in LuaItems, NEW k \in LuaKinds, EmitEvent(i, k) PROVE LuaHostRest'
  <2>1. fired' \in 0..MaxFired
    BY <1>0, <1>17 DEF EmitEvent
  <2>2. forked' \in LuaItems \cup {NoAsk}
    BY <1>17 DEF EmitEvent
  <2>3. wired' \in Events /\ inbox' \in Events
    <3>1. CASE UNCHANGED flow
      BY <3>1 DEF flow
    <3>2. CASE feed[i] \in LuaRun
      <4>1. PICK r \in LuaRun : r = feed[i]
        BY <3>2
      <4>2. [inbox EXCEPT ![r][i] = Append(@, k)] \in Events /\ [wired EXCEPT ![r][i] = Append(@, k)] \in Events
        BY EventsPut
      <4>3. QED
        BY <1>17, <4>1, <4>2 DEF EmitEvent, flow
    <3>3. feed[i] \in LuaRun \/ feed[i] = NoRun
      BY DEF LuaHostInv, LuaHostTypes
    <3>4. QED
      BY <1>17, <3>1, <3>2, <3>3 DEF EmitEvent, FeedTakes
  <2>4. QED
    BY <1>17, <2>1, <2>2, <2>3 DEF EmitEvent, fixed, coroutine, asking
<1>18. CASE UNCHANGED luaHostVars
  BY <1>18 DEF luaHostVars
<1>19. QED
  BY <1>1, <1>2, <1>3, <1>5, <1>6, <1>7, <1>8, <1>9, <1>10, <1>11, <1>12, <1>13, <1>14, <1>15, <1>16,
     <1>17, <1>18 DEF LuaHostNext

\* With the invariant of the host, it is all of the host's type.
LEMMA LuaHostIsTyped == LuaHostInv /\ LuaHostRest => LuaHostTypeOK
BY DEF LuaHostInv, LuaHostTypes, LuaHostRest, LuaHostTypeOK, Answers, Events

-----------------------------------------------------------------------------
(* LuaModules. *)

LatestConfig(r) == \A q \in Config : q > r => runPhase[q] = "unstarted"

ModulesTypes ==
  /\ DOMAIN known \subseteq ModuleNames
  /\ known \in [DOMAIN known -> [path : File, fresh : BOOLEAN]]
  /\ runPhase \in [Config -> {"unstarted", "running", "done", "failed"}]
  /\ got \in [Config -> [ModuleNames -> File \cup {NoFile}]]
  /\ before \in [Config -> SUBSET ModuleNames] /\ alone \in [Config -> BOOLEAN]

\* Runs begin in order, each with nothing resolved.
BegunInTurn ==
  /\ \A r, q \in Config : q < r /\ runPhase[r] # "unstarted" => runPhase[q] # "unstarted"
  /\ \A r \in Config : runPhase[r] = "unstarted" => got[r] = Nothings /\ ~alone[r]

\* Whoever had the set to itself has it until another begins.
HasItself(r) == alone[r] /\ LatestConfig(r) => Going \subseteq {r}

\* While a run that has the set to itself goes on, what carries no mark is what
\* it has resolved, and what it began with is still there.
Lifted(r) ==
  alone[r] /\ runPhase[r] = "running" =>
    /\ LatestConfig(r)
    /\ before[r] \subseteq DOMAIN known
    /\ \A m \in ModuleNames : got[r][m] # NoFile =>
         m \in DOMAIN known /\ known[m].path = got[r][m] /\ known[m].fresh
    /\ \A m \in DOMAIN known : known[m].fresh => got[r][m] # NoFile

\* The inductive invariant.
ModulesInv ==
  /\ ModulesTypes /\ BegunInTurn
  /\ \A r \in Config : HasItself(r) /\ Lifted(r)
  /\ WatchesWhatIsLoaded

-----------------------------------------------------------------------------
\* A file's number is no number for none.
LEMMA FilesAreFiles == NoFile \notin File
BY LuaModulesAssumption DEF File, NoFile

\* Edits, the ends of loaders and steps elsewhere leave the set alone.
LEMMA QuietStep ==
  ASSUME ModulesInv, UNCHANGED <<known, runPhase, got, before, alone>>
  PROVE  ModulesInv'
BY DEF ModulesInv, ModulesTypes, BegunInTurn, HasItself, Lifted, LatestConfig, Going, WatchesWhatIsLoaded, LastRun,
       Swept

\* A run begins: it is the only one, or nobody has the set to itself.
LEMMA BeginStep ==
  ASSUME ModulesInv, NEW r \in Config, Begin(r)
  PROVE  ModulesInv'
<1>1. /\ runPhase[r] = "unstarted" /\ runPhase' = [runPhase EXCEPT ![r] = "running"]
      /\ \A q \in Config : q < r => runPhase[q] # "unstarted"
      /\ known' = MarkedAll(known) /\ before' = [before EXCEPT ![r] = DOMAIN known]
      /\ alone' = [q \in Config |-> IF q = r THEN Going = {} ELSE alone[q] /\ q \notin Going]
      /\ got' = got
  BY DEF Begin
<1>2. /\ DOMAIN known' = DOMAIN known
      /\ \A m \in DOMAIN known : known'[m].path = known[m].path /\ known'[m].fresh = FALSE
      /\ known' \in [DOMAIN known -> [path : File, fresh : BOOLEAN]]
  BY <1>1 DEF MarkedAll, ModulesInv, ModulesTypes
<1>3. ModulesTypes'
  BY <1>1, <1>2 DEF ModulesInv, ModulesTypes
<1>4. LatestConfig(r)
  BY <1>1 DEF ModulesInv, BegunInTurn, LatestConfig
<1>5. Going' = Going \cup {r}
  BY <1>1 DEF Going, ModulesInv, ModulesTypes
<1>6. BegunInTurn'
  BY <1>1 DEF ModulesInv, BegunInTurn, ModulesTypes, Config
<1>7. ASSUME NEW q \in Config PROVE HasItself(q)' /\ Lifted(q)' /\ ~LastRun(q)'
  <2>1. CASE q = r
    <3>1. HasItself(q)'
      BY <1>1, <1>5, <2>1 DEF HasItself
    <3>2. LatestConfig(q)'
      BY <1>1, <1>4, <2>1 DEF LatestConfig, ModulesInv, ModulesTypes, Config
    <3>3. got'[q] = Nothings
      BY <1>1, <2>1 DEF ModulesInv, BegunInTurn
    <3>4. before'[q] = DOMAIN known'
      BY <1>1, <1>2, <2>1 DEF ModulesInv, ModulesTypes
    <3>5. Lifted(q)'
      BY <1>2, <1>3, <3>2, <3>3, <3>4 DEF Lifted, Nothings, ModulesTypes
    <3>6. runPhase'[q] = "running"
      BY <1>1, <2>1 DEF ModulesInv, ModulesTypes
    <3>7. QED
      BY <3>1, <3>5, <3>6 DEF LastRun
  <2>2. CASE q # r
    <3>1. runPhase'[q] = "running" => ~alone'[q]
      BY <1>1, <2>2 DEF Going, ModulesInv, ModulesTypes
    <3>2. alone'[q] => q < r
      <4>1. alone'[q] => runPhase[q] # "unstarted"
        BY <1>1, <2>2 DEF ModulesInv, BegunInTurn
      <4>2. runPhase[q] # "unstarted" => ~(q > r)
        BY <1>4 DEF LatestConfig
      <4>3. QED
        BY <2>2, <4>1, <4>2 DEF Config
    <3>3. alone'[q] => ~LatestConfig(q)' /\ ~LastRun(q)'
      BY <1>1, <3>2 DEF LatestConfig, LastRun, ModulesInv, ModulesTypes, Config
    <3>4. QED
      BY <3>1, <3>3 DEF HasItself, Lifted, LastRun
  <2>3. QED
    BY <2>1, <2>2
<1>8. WatchesWhatIsLoaded'
  BY <1>5, <1>7 DEF WatchesWhatIsLoaded
<1>9. QED
  BY <1>3, <1>6, <1>7, <1>8 DEF ModulesInv

\* A run resolves a name: the mark is lifted, and the name is watched.
LEMMA RequireStep ==
  ASSUME ModulesInv, NEW r \in Config, NEW n \in ModuleNames, Require(r, n)
  PROVE  ModulesInv'
<1> DEFINE f == Resolved(n)
<1>1. /\ f \in File /\ runPhase[r] = "running"
      /\ known' = Record(known, n, f) /\ got' = [got EXCEPT ![r][n] = f]
      /\ UNCHANGED <<runPhase, before, alone>>
  BY DEF Require
<1> HIDE DEF f
<1>2. f # NoFile
  BY <1>1, FilesAreFiles
<1>3. /\ DOMAIN known' = DOMAIN known \cup {n}
      /\ known'[n] = [path |-> f, fresh |-> TRUE]
      /\ \A m \in DOMAIN known \ {n} : known'[m] = known[m]
      /\ known' \in [DOMAIN known \cup {n} -> [path : File, fresh : BOOLEAN]]
  BY <1>1 DEF Record, ModulesInv, ModulesTypes
<1>4. \A q \in Config, m \in ModuleNames :
        got'[q][m] = IF q = r /\ m = n THEN f ELSE got[q][m]
  BY <1>1 DEF ModulesInv, ModulesTypes
<1>5. got' \in [Config -> [ModuleNames -> File \cup {NoFile}]]
  BY <1>1 DEF ModulesInv, ModulesTypes
<1>6. ModulesTypes'
  BY <1>1, <1>3, <1>5 DEF ModulesInv, ModulesTypes
<1>7. BegunInTurn'
  <2>1. \A q \in Config : q # r => got'[q] = got[q]
    BY <1>1 DEF ModulesInv, ModulesTypes
  <2>2. QED
    BY <1>1, <2>1 DEF ModulesInv, BegunInTurn
<1>8. UNCHANGED Going /\ r \in Going /\ \A q \in Config : LatestConfig(q)' <=> LatestConfig(q)
  BY <1>1 DEF Going, LatestConfig
<1>9. ASSUME NEW q \in Config PROVE HasItself(q)' /\ Lifted(q)' /\ ~LastRun(q)'
  <2>1. HasItself(q)'
    BY <1>1, <1>8 DEF ModulesInv, HasItself
  <2>2. ~LastRun(q)'
    <3>1. SUFFICES ASSUME LastRun(q)' PROVE FALSE
      OBVIOUS
    <3>2. alone[q] /\ LatestConfig(q) /\ runPhase[q] # "running"
      BY <1>1, <3>1 DEF LastRun, LatestConfig
    <3>3. QED
      BY <1>1, <1>8, <3>2 DEF ModulesInv, HasItself
  <2>3. ASSUME alone[q], runPhase[q] = "running" PROVE Lifted(q)'
    <3>1. LatestConfig(q)' /\ q = r
      BY <1>8, <2>3 DEF ModulesInv, Lifted, HasItself
    <3>2. before'[q] \subseteq DOMAIN known'
      BY <1>1, <1>3, <2>3 DEF ModulesInv, Lifted
    <3>3. ASSUME NEW m \in ModuleNames, got'[q][m] # NoFile
          PROVE  m \in DOMAIN known' /\ known'[m].path = got'[q][m] /\ known'[m].fresh
      <4>1. CASE m = n
        BY <1>3, <1>4, <3>1, <4>1
      <4>2. CASE m # n
        BY <1>3, <1>4, <2>3, <3>3, <4>2 DEF ModulesInv, Lifted
      <4>3. QED
        BY <4>1, <4>2
    <3>4. ASSUME NEW m \in DOMAIN known', known'[m].fresh PROVE got'[q][m] # NoFile
      <4>1. CASE m = n
        BY <1>2, <1>4, <3>1, <4>1
      <4>2. CASE m # n
        <5>1. m \in DOMAIN known /\ m \in ModuleNames /\ known[m].fresh
          BY <1>3, <3>4, <4>2 DEF ModulesInv, ModulesTypes
        <5>2. QED
          BY <1>4, <2>3, <4>2, <5>1 DEF ModulesInv, Lifted
      <4>3. QED
        BY <4>1, <4>2
    <3>5. QED
      BY <3>1, <3>2, <3>3, <3>4 DEF Lifted
  <2>4. QED
    BY <1>1, <2>1, <2>2, <2>3 DEF Lifted
<1>10. WatchesWhatIsLoaded'
  BY <1>8, <1>9 DEF WatchesWhatIsLoaded
<1>11. QED
  BY <1>6, <1>7, <1>9, <1>10 DEF ModulesInv

\* Where the runs are once one of them has ended.
LEMMA EndedRuns ==
  ASSUME ModulesInv, NEW r \in Config, runPhase[r] = "running", NEW how \in {"done", "failed"},
         runPhase' = [runPhase EXCEPT ![r] = how], UNCHANGED <<got, before, alone>>
  PROVE  /\ BegunInTurn' /\ Going' = Going \ {r}
         /\ \A q \in Config : /\ LatestConfig(q)' <=> LatestConfig(q)
                              /\ HasItself(q)'
                              /\ alone'[q] => runPhase'[q] # "running"
                              /\ LastRun(q)' => q = r
<1>1. \A q \in Config : runPhase'[q] = IF q = r THEN how ELSE runPhase[q]
  BY DEF ModulesInv, ModulesTypes
<1>2. BegunInTurn' /\ Going' = Going \ {r}
  BY <1>1 DEF ModulesInv, BegunInTurn, Going
<1>3. ASSUME NEW q \in Config PROVE LatestConfig(q)' <=> LatestConfig(q)
  BY <1>1 DEF LatestConfig
<1>4. ASSUME NEW q \in Config, alone[q], q # r PROVE runPhase[q] # "running" /\ ~LatestConfig(q)
  <2>1. ~(Going \subseteq {q})
    BY <1>4 DEF Going
  <2>2. QED
    BY <1>4, <2>1 DEF ModulesInv, HasItself, Lifted
<1>5. QED
  BY <1>1, <1>2, <1>3, <1>4 DEF ModulesInv, HasItself, LastRun, LatestConfig

\* A run fails, and nothing it began with is let go of.
LEMMA FailStep ==
  ASSUME ModulesInv, NEW r \in Config, Fail(r)
  PROVE  ModulesInv'
<1>1. /\ runPhase[r] = "running" /\ runPhase' = [runPhase EXCEPT ![r] = "failed"]
      /\ known' = KeptAll /\ UNCHANGED <<got, before, alone>>
  BY DEF Fail
<1>2. /\ DOMAIN known' = DOMAIN known
      /\ \A m \in DOMAIN known : known'[m].path = known[m].path /\ known'[m].fresh = TRUE
      /\ known' \in [DOMAIN known -> [path : File, fresh : BOOLEAN]]
  BY <1>1 DEF KeptAll, ModulesInv, ModulesTypes
<1>3. ModulesTypes'
  BY <1>1, <1>2 DEF ModulesInv, ModulesTypes
<1>4. /\ BegunInTurn'
      /\ \A q \in Config : /\ HasItself(q)' /\ (LastRun(q)' => q = r)
                           /\ alone'[q] => runPhase'[q] # "running"
  BY <1>1, EndedRuns
<1>5. runPhase'[r] = "failed"
  BY <1>1 DEF ModulesInv, ModulesTypes
<1>6. alone[r] => /\ before[r] \subseteq DOMAIN known
                  /\ \A m \in ModuleNames : got[r][m] # NoFile =>
                       m \in DOMAIN known /\ known[m].path = got[r][m]
  BY <1>1 DEF ModulesInv, Lifted
<1>7. Swept' = {}
  BY <1>2 DEF Swept
<1>8. \A q \in Config : LastRun(q)' => q = r /\ alone[r]
  BY <1>1, <1>4 DEF LastRun
<1>9. WatchesWhatIsLoaded'
  BY <1>1, <1>2, <1>5, <1>6, <1>7, <1>8 DEF WatchesWhatIsLoaded
<1>10. QED
  BY <1>3, <1>4, <1>9 DEF ModulesInv, Lifted

\* A run succeeds, and what still carries its mark is dropped.
LEMMA SucceedStep ==
  ASSUME ModulesInv, NEW r \in Config, Succeed(r)
  PROVE  ModulesInv'
<1>1. /\ runPhase[r] = "running" /\ runPhase' = [runPhase EXCEPT ![r] = "done"]
      /\ known' = [m \in DOMAIN known \ Swept |-> known[m]] /\ UNCHANGED <<got, before, alone>>
  BY DEF Succeed
<1>2. /\ \A m : m \in DOMAIN known' <=> m \in DOMAIN known /\ known[m].fresh
      /\ \A m \in DOMAIN known' : known'[m] = known[m]
  BY <1>1 DEF Swept
<1>3. ModulesTypes'
  BY <1>1, <1>2 DEF ModulesInv, ModulesTypes
<1>4. /\ BegunInTurn'
      /\ \A q \in Config : /\ HasItself(q)' /\ (LastRun(q)' => q = r)
                           /\ alone'[q] => runPhase'[q] # "running"
  BY <1>1, EndedRuns
<1>5. runPhase'[r] = "done"
  BY <1>1 DEF ModulesInv, ModulesTypes
<1>6. alone[r] => /\ \A m \in ModuleNames : got[r][m] # NoFile =>
                       m \in DOMAIN known' /\ known'[m].path = got[r][m]
                  /\ \A m \in DOMAIN known' : got[r][m] # NoFile
  BY <1>1, <1>2 DEF ModulesInv, Lifted
<1>7. Swept' = {}
  BY <1>2 DEF Swept
<1>8. \A q \in Config : LastRun(q)' => q = r /\ alone[r]
  BY <1>1, <1>4 DEF LastRun
<1>9. WatchesWhatIsLoaded'
  BY <1>1, <1>5, <1>6, <1>7, <1>8 DEF WatchesWhatIsLoaded
<1>10. QED
  BY <1>3, <1>4, <1>9 DEF ModulesInv, Lifted

LEMMA ModulesStart == ModulesInit => ModulesInv
BY DEF ModulesInit, ModulesInv, ModulesTypes, BegunInTurn, HasItself, Lifted, LatestConfig, Going, Nothings,
       WatchesWhatIsLoaded, LastRun, Swept, File, NoFile

LEMMA ModulesStep == ModulesInv /\ [ModulesNext]_modulesVars => ModulesInv'
<1> SUFFICES ASSUME ModulesInv, [ModulesNext]_modulesVars PROVE ModulesInv'
  OBVIOUS
<1>1. ASSUME NEW m \in ModuleNames, NEW f \in File, Edit(m, f) PROVE ModulesInv'
  BY <1>1, QuietStep DEF Edit
<1>2. ASSUME NEW r \in Config, Loaded(r) \/ Unwind(r) PROVE ModulesInv'
  BY <1>2, QuietStep DEF Loaded, Unwind
<1>3. CASE UNCHANGED modulesVars
  BY <1>3, QuietStep DEF modulesVars
<1>4. QED
  BY <1>1, <1>2, <1>3, BeginStep, RequireStep, FailStep, SucceedStep DEF ModulesNext

\* After a run that succeeded what is watched is what it loaded, and one that
\* failed leaves every file of the run before it watched, whatever is edited,
\* moved or deleted while a config runs.
THEOREM WatchedIsLoaded == ModulesSpec => []WatchesWhatIsLoaded
<1>1. ModulesInv => WatchesWhatIsLoaded
  BY DEF ModulesInv
<1>2. QED
  BY <1>1, ModulesStart, ModulesStep, PTL DEF ModulesSpec

\* What the invariant of the modules leaves open of its types.
Loader == [name : ModuleNames, content : Contents]
ModulesRest ==
  /\ disk \in [ModuleNames -> [File -> Contents]]
  /\ loading \in [Config -> Seq(Loader)] /\ \A r \in Config : Len(loading[r]) <= MaxDepth
  /\ cached \in [Config -> SUBSET ModuleNames] /\ edits \in 0..MaxEdits

LEMMA ModulesRestStart == ModulesInit => ModulesRest
<1> SUFFICES ASSUME ModulesInit PROVE ModulesRest
  OBVIOUS
<1>1. <<>> \in Seq(Loader) /\ Len(<<>>) = 0
  BY EmptySeq
<1>2. QED
  BY <1>1, LuaModulesAssumption DEF ModulesInit, ModulesRest, Contents

\* A loader that returns leaves a stack of loaders.
LEMMA Popped ==
  ASSUME ModulesRest, NEW r \in Config, loading[r] # <<>>, PopLoader(r)
  PROVE  loading' \in [Config -> Seq(Loader)] /\ \A q \in Config : Len(loading'[q]) <= MaxDepth
<1>1. PICK n \in Nat : n = Len(loading[r]) /\ n # 0
  BY EmptySeq DEF ModulesRest
<1>2. loading[r] \in Seq(Loader) /\ n - 1 \in Nat /\ n <= MaxDepth
  BY <1>1 DEF ModulesRest
<1>3. SubSeq(loading[r], 1, n - 1) \in Seq(Loader) /\ Len(SubSeq(loading[r], 1, n - 1)) = n - 1
  BY <1>1, <1>2, SubSeqProperties
<1>4. loading' = [loading EXCEPT ![r] = SubSeq(loading[r], 1, n - 1)]
  BY <1>1 DEF PopLoader
<1>5. QED
  BY <1>2, <1>3, <1>4, LuaModulesAssumption DEF ModulesRest

\* Whatever is edited, loaded or swept, that is so.
LEMMA ModulesRestStep == ModulesRest /\ [ModulesNext]_modulesVars => ModulesRest'
<1> SUFFICES ASSUME ModulesRest, [ModulesNext]_modulesVars PROVE ModulesRest'
  OBVIOUS
<1>1. ASSUME NEW m \in ModuleNames, NEW f \in File, Edit(m, f) PROVE ModulesRest'
  <2>1. PICK c \in Contents : disk' = [disk EXCEPT ![m][f] = c]
    BY <1>1 DEF Edit
  <2>2. disk' \in [ModuleNames -> [File -> Contents]]
    BY <2>1 DEF ModulesRest
  <2>3. QED
    BY <1>1, <2>2, LuaModulesAssumption DEF Edit, ModulesRest
<1>2. ASSUME NEW r \in Config, Begin(r) PROVE ModulesRest'
  BY <1>2 DEF Begin, ModulesRest
<1>3. ASSUME NEW r \in Config, Loaded(r) PROVE ModulesRest'
  <2>1. PICK n \in Nat : n = Len(loading[r]) /\ n # 0
    BY <1>3, EmptySeq DEF ModulesRest, Loaded
  <2>2. loading[r][n] \in Loader
    BY <2>1, ElementOfSeq DEF ModulesRest
  <2>3. Top(r).name \in ModuleNames
    BY <2>1, <2>2 DEF Top, Loader
  <2>4. QED
    BY <1>3, <2>3, Popped DEF Loaded, ModulesRest
<1>4. ASSUME NEW r \in Config, Unwind(r) PROVE ModulesRest'
  BY <1>4, Popped DEF Unwind, ModulesRest
<1>5. ASSUME NEW r \in Config, Fail(r) PROVE ModulesRest'
  <2>1. <<>> \in Seq(Loader) /\ Len(<<>>) = 0
    BY EmptySeq
  <2>2. QED
    BY <1>5, <2>1, LuaModulesAssumption DEF Fail, ModulesRest
<1>6. ASSUME NEW r \in Config, Succeed(r) PROVE ModulesRest'
  BY <1>6 DEF Succeed, ModulesRest
<1>7. ASSUME NEW r \in Config, NEW m \in ModuleNames, Require(r, m) PROVE ModulesRest'
  <2> DEFINE l == [name |-> m, content |-> disk[m][Resolved(m)]]
  <2>1. l \in Loader
    BY <1>7 DEF Require, ModulesRest, Loader
  <2>2. PICK n \in Nat : n = Len(loading[r])
    BY DEF ModulesRest
  <2> HIDE DEF l
  <2>3. Append(loading[r], l) \in Seq(Loader) /\ Len(Append(loading[r], l)) = n + 1
    BY <2>1, <2>2, AppendProperties DEF ModulesRest
  <2>4. loading' = [loading EXCEPT ![r] = Append(loading[r], l)]
    BY <1>7 DEF Require, l
  <2>5. n + 1 <= MaxDepth
    BY <1>7, <2>2, LuaModulesAssumption DEF Require
  <2>6. QED
    BY <1>7, <2>2, <2>3, <2>4, <2>5, LuaModulesAssumption DEF Require, ModulesRest
<1>8. CASE UNCHANGED modulesVars
  BY <1>8 DEF modulesVars, ModulesRest
<1>9. QED
  BY <1>1, <1>2, <1>3, <1>4, <1>5, <1>6, <1>7, <1>8 DEF ModulesNext

\* With the invariant of the modules, it is all of the modules' type.
LEMMA ModulesIsTyped == ModulesInv /\ ModulesRest => ModulesTypeOK
BY DEF ModulesInv, ModulesTypes, ModulesRest, ModulesTypeOK, Loader

-----------------------------------------------------------------------------
(* LuaApi. *)

\* A table of options holds values where its keys take no table.
Flat == {"width", "position", "alias", "members"}
IsOptions(t) == \A k \in DOMAIN t \cap Flat : ~IsTable(t[k])

LEMMA AreOptions == ASSUME NEW t \in OptionTables \cup {NoOptions} PROVE IsOptions(t)
<1>1. \A v : ~IsTable(Leaf(v))
  BY DEF IsTable, Leaf
<1>2. CASE t = NoOptions
  BY <1>2 DEF NoOptions, IsOptions
<1>3. CASE \E f : t = Label(f)
  BY <1>3 DEF Label, IsOptions, Flat
<1>4. CASE t = [label |-> Leaf("text"), width |-> Leaf("wide"), alias |-> Leaf("another"),
                members |-> Leaf("others")]
  BY <1>1, <1>4 DEF IsOptions, Flat
<1>5. CASE t = [label |-> Leaf("unreadable")]
  BY <1>5 DEF IsOptions, Flat
<1>6. CASE t = [position |-> Leaf("unreadable")]
  BY <1>1, <1>6 DEF IsOptions, Flat
<1>7. QED
  BY <1>2, <1>3, <1>4, <1>5, <1>6 DEF OptionTables

LEMMA Overlaid ==
  ASSUME NEW base, NEW overlay
  PROVE  /\ DOMAIN ShallowMerge(base, overlay) = DOMAIN base \cup DOMAIN overlay
         /\ \A k \in DOMAIN overlay : ShallowMerge(base, overlay)[k] = overlay[k]
         /\ \A k \in DOMAIN base \ DOMAIN overlay : ShallowMerge(base, overlay)[k] = base[k]
BY DEF ShallowMerge

LEMMA TreesAre == ASSUME NEW f PROVE IsTable(Tree(f)) /\ Tree(f).table = f
BY DEF IsTable, Tree

\* What a merge says of a key.
Merges(m, base, overlay) ==
  /\ DOMAIN m = DOMAIN base \cup DOMAIN overlay
  /\ \A k \in DOMAIN overlay : ~IsTable(overlay[k]) => m[k] = overlay[k]
  /\ \A k \in DOMAIN overlay : k \in DOMAIN base => m[k] = Merged(base[k], overlay[k])
  /\ \A k \in DOMAIN overlay \ DOMAIN base : m[k] = overlay[k]
  /\ \A k \in DOMAIN base \ DOMAIN overlay : m[k] = base[k]

LEMMA MergeMerges == ASSUME NEW base, NEW overlay PROVE Merges(DeepMerge(base, overlay), base, overlay)
BY DEF DeepMerge, Merged, Merges

\* What the options say of a property, and then what the defaults say, holds of
\* the merge.
Says(m, t, p) == Mentions(m, p) /\ Written(m, p) = Written(t, p)

LEMMA LabelMerged ==
  ASSUME NEW base, NEW overlay, NEW m, Merges(m, base, overlay), "label" \in DOMAIN overlay
  PROVE  /\ "label" \in DOMAIN m
         /\ m["label"] = IF "label" \in DOMAIN base /\ IsTable(base["label"]) /\ IsTable(overlay["label"])
                         THEN Tree(ShallowMerge(base["label"].table, overlay["label"].table))
                         ELSE overlay["label"]
BY DEF Merges, Merged

LEMMA LabelKept ==
  ASSUME NEW base, NEW overlay, NEW m, Merges(m, base, overlay),
         NEW p \in {"text", "color"}, Mentions(overlay, p)
  PROVE  Says(m, overlay, p)
<1>1. "label" \in DOMAIN overlay /\ "label" \in DOMAIN m
  BY DEF Mentions, Merges
<1>2. CASE "label" \in DOMAIN base /\ IsTable(base["label"]) /\ IsTable(overlay["label"])
  <2> DEFINE f == ShallowMerge(base["label"].table, overlay["label"].table)
  <2>1. m["label"] = Tree(f)
    BY <1>1, <1>2, LabelMerged
  <2>2. IsTable(m["label"]) /\ m["label"].table = f
    BY <2>1, TreesAre
  <2>3. p \in DOMAIN overlay["label"].table
    BY <1>2 DEF Mentions
  <2>4. p \in DOMAIN f /\ f[p] = overlay["label"].table[p]
    BY <2>3 DEF ShallowMerge
  <2> HIDE DEF f
  <2>5. QED
    BY <1>1, <1>2, <2>2, <2>3, <2>4 DEF Says, Mentions, Written
<1>3. CASE ~("label" \in DOMAIN base /\ IsTable(base["label"]) /\ IsTable(overlay["label"]))
  <2>1. m["label"] = overlay["label"]
    BY <1>1, <1>3, LabelMerged
  <2>2. QED
    BY <1>1, <2>1 DEF Says, Mentions, Written
<1>4. QED
  BY <1>2, <1>3

LEMMA LabelInherited ==
  ASSUME NEW base, NEW overlay, NEW m, Merges(m, base, overlay),
         NEW p \in {"text", "color"}, Mentions(base, p), ~Mentions(overlay, p),
         "label" \in DOMAIN overlay => IsTable(base["label"]) /\ IsTable(overlay["label"])
  PROVE  Says(m, base, p)
<1>1. "label" \in DOMAIN base /\ "label" \in DOMAIN m
  BY DEF Mentions, Merges
<1>2. CASE "label" \in DOMAIN overlay
  <2> DEFINE f == ShallowMerge(base["label"].table, overlay["label"].table)
  <2>1. m["label"] = Tree(f)
    BY <1>1, <1>2, LabelMerged
  <2>2. IsTable(m["label"]) /\ m["label"].table = f
    BY <2>1, TreesAre
  <2>3. p \in DOMAIN base["label"].table /\ p \notin DOMAIN overlay["label"].table
    BY <1>2 DEF Mentions
  <2>4. p \in DOMAIN f /\ f[p] = base["label"].table[p]
    BY <2>3 DEF ShallowMerge
  <2> HIDE DEF f
  <2>5. QED
    BY <1>1, <1>2, <2>2, <2>3, <2>4 DEF Says, Mentions, Written
<1>3. CASE "label" \notin DOMAIN overlay
  <2>1. m["label"] = base["label"]
    BY <1>1, <1>3 DEF Merges
  <2>2. QED
    BY <1>1, <2>1 DEF Says, Mentions, Written
<1>4. QED
  BY <1>2, <1>3

\* What an `add` has to put in the item: the merge of defaults and options,
\* with what its kind implies underneath.
LEMMA PatchKeepsPromises ==
  ASSUME NEW v, IsOptions(v.opts), IsOptions(defaultOptions),
         v.merged = DeepMerge(defaultOptions, v.opts),
         NEW p \in Properties, Promised(v, p) # {}
  PROVE  p \in DOMAIN PatchSent(v) /\ PatchSent(v)[p] \in Promised(v, p)
<1> DEFINE m == v.merged
           d == defaultOptions
           o == v.opts
<1>1. Merges(m, d, o)
  BY MergeMerges
<1> DEFINE settled == p = "members" /\ ExtraOf(v.kind) = "members"
<1>2. ASSUME NEW t, Says(m, t, p), ~settled
      PROVE  p \in DOMAIN PatchSent(v) /\ PatchSent(v)[p] = Written(t, p)
  BY <1>2 DEF PatchSent, ShallowMerge, PatchOf, Says, Insisted, NoOptions
<1>3. CASE Mentions(o, p) /\ ~settled
  <2>1. Says(m, o, p)
    <3>1. CASE p \in {"text", "color"}
      BY <1>1, <1>3, <3>1, LabelKept
    <3>2. CASE p \in Flat
      <4>1. p \in DOMAIN o /\ ~IsTable(o[p])
        BY <1>3, <3>2 DEF Mentions, IsOptions, Flat
      <4>2. p \in DOMAIN m /\ m[p] = o[p]
        BY <1>1, <4>1 DEF Merges
      <4>3. QED
        BY <3>2, <4>2 DEF Says, Mentions, Written, Flat
    <3>3. QED
      BY <3>1, <3>2 DEF Properties, Flat
  <2>2. Promised(v, p) = {Written(o, p)}
    BY <1>3 DEF Promised
  <2>3. QED
    BY <1>2, <1>3, <2>1, <2>2
<1>4. CASE ~Mentions(o, p) /\ Inherits(v, p) /\ ~settled
  <2>1. Says(m, d, p)
    <3>1. CASE p \in {"text", "color"}
      <4>1. Mentions(d, p) /\ ("label" \in DOMAIN o => IsTable(d["label"]) /\ IsTable(o["label"]))
        BY <1>4, <3>1 DEF Inherits, KeyOf
      <4>2. QED
        BY <1>1, <1>4, <3>1, <4>1, LabelInherited
    <3>2. CASE p \in Flat
      <4>1. p \in DOMAIN d /\ p \notin DOMAIN o
        BY <1>4, <3>2 DEF Inherits, Mentions, Flat
      <4>2. p \in DOMAIN m /\ m[p] = d[p]
        BY <1>1, <4>1 DEF Merges
      <4>3. QED
        BY <3>2, <4>2 DEF Says, Mentions, Written, Flat
    <3>3. QED
      BY <3>1, <3>2 DEF Properties, Flat
  <2>2. Promised(v, p) = {Written(d, p)}
    BY <1>4 DEF Promised
  <2>3. QED
    BY <1>2, <1>4, <2>1, <2>2
<1>5. CASE ~Mentions(o, p) /\ ~Inherits(v, p) /\ ~settled
  <2>1. \/ p = "alias" /\ v.kind = "alias" /\ Promised(v, p) = {"itself"}
        \/ p = "width" /\ ExtraOf(v.kind) = "width" /\ Promised(v, p) = {"given"}
    BY <1>5 DEF Promised
  <2>2. ~Mentions(m, p)
    <3>1. p \notin DOMAIN o
      BY <1>5, <2>1 DEF Mentions
    <3>2. p \notin DOMAIN d
      BY <1>5, <2>1, <3>1 DEF Inherits, Mentions, KeyOf
    <3>3. QED
      BY <1>1, <2>1, <3>1, <3>2 DEF Merges, Mentions
  <2>3. p \in DOMAIN Implied(v) /\ Implied(v)[p] \in Promised(v, p)
    BY <2>1 DEF Implied, ExtraOf
  <2>4. QED
    BY <1>5, <2>2, <2>3 DEF PatchSent, ShallowMerge, PatchOf, Insisted, NoOptions
<1>6. CASE settled
  <2>1. Promised(v, p) = {"given"}
    BY <1>6 DEF Promised
  <2>2. QED
    BY <1>6, <2>1 DEF PatchSent, ShallowMerge, Insisted
<1>7. QED
  BY <1>3, <1>4, <1>5, <1>6

\* The verb being carried out is an `add` with the defaults of now, under a name
\* of its own if it made one up; and what has such a name has one of those that
\* were made.
MintedOf(kind, n) == <<kind, n>>
Made(v) ==
  v.minted => \E k \in AddKinds, n \in Nat : v.name = MintedOf(k, n) /\ n <= anonymous[k]
Adding == verb.of \in {"add", "set"}

ApiInv ==
  /\ anonymous \in [AddKinds -> Nat]
  /\ IsOptions(defaultOptions)
  /\ \A v \in handles : Made(v)
  /\ Adding => /\ IsOptions(verb.opts) /\ verb.merged = DeepMerge(defaultOptions, verb.opts)
               /\ Made(verb)
               /\ verb.minted => \A w \in handles : w.minted => w.name # verb.name
  /\ \A v, w \in handles : v.minted /\ w.minted /\ v.name = w.name => v = w

LEMMA ApiStart == ApiInit => ApiInv
<1> SUFFICES ASSUME ApiInit PROVE ApiInv
  OBVIOUS
<1>1. IsOptions(defaultOptions)
  BY AreOptions DEF ApiInit
<1>2. ~Adding
  BY DEF ApiInit, Adding, NoVerb
<1>3. QED
  BY <1>1, <1>2 DEF ApiInit, ApiInv

\* A step that begins no `add`, keeps the defaults while one is under way, and
\* returns no handle.
LEMMA ApiKept ==
  ASSUME ApiInv, UNCHANGED <<anonymous, handles>>, IsOptions(defaultOptions)',
         Adding' => /\ Adding /\ UNCHANGED defaultOptions
                    /\ verb'.opts = verb.opts /\ verb'.merged = verb.merged
                    /\ verb'.minted = verb.minted /\ verb'.name = verb.name
  PROVE  ApiInv'
BY DEF ApiInv, Made

LEMMA AddBeginsStep ==
  ASSUME ApiInv, NEW kind \in AddKinds, NEW a2 \in FirstArgs, NEW a3 \in LaterArgs, NEW a4 \in LaterArgs,
         AddBegins(kind, a2, a3, a4)
  PROVE  ApiInv'
<1> DEFINE opts == TableOf(OptionsValue(kind, a2, a3, a4))
<1>1. ~Adding /\ UNCHANGED <<defaultOptions, handles>>
  BY DEF AddBegins, Begins, Adding, NoVerb
<1>2. CASE verb' = verb
  <2>1. anonymous' = anonymous \/ anonymous' = [anonymous EXCEPT ![kind] = @ + 1]
    BY DEF AddBegins, Spent
  <2>2. QED
    BY <1>1, <1>2, <2>1 DEF ApiInv, Made, Adding
<1>3. CASE verb' # verb
  <2>1. /\ verb' = [of |-> "add", kind |-> kind, component |-> ComponentOf(kind),
                    name |-> IF StartsWithName(a2) THEN a2.name ELSE Minted(kind),
                    minted |-> ~StartsWithName(a2), opts |-> opts,
                    merged |-> DeepMerge(defaultOptions, opts),
                    number |-> ExtraValue(a2, a3).type = "number"]
        /\ anonymous' = Spent(kind, a2)
    BY <1>3 DEF AddBegins
  <2>2. IsOptions(opts)
    <3>1. ASSUME NEW a \in FirstArgs \cup LaterArgs PROVE IsOptions(TableOf(a))
      <4>1. CASE a.type = "table"
        <5>1. PICK t \in OptionTables : a = Options(t)
          BY <4>1 DEF FirstArgs, LaterArgs, Nil, Name, Members, Number, FlagArg
        <5>2. TableOf(a) = t
          BY <4>1, <5>1 DEF TableOf, Options
        <5>3. QED
          BY <5>2, AreOptions
      <4>2. CASE a.type # "table"
        BY <4>2, AreOptions DEF TableOf
      <4>3. QED
        BY <4>1, <4>2
    <3>2. OptionsValue(kind, a2, a3, a4) \in FirstArgs \cup LaterArgs
      BY DEF OptionsValue, Trailing, ExtraValue, LaterArgs
    <3>3. QED
      BY <3>1, <3>2
  <2>3. QED
    <3> HIDE DEF opts
    <3>1. /\ verb'.opts = opts /\ verb'.merged = DeepMerge(defaultOptions, opts)
          /\ verb'.minted = ~StartsWithName(a2)
          /\ verb'.name = IF StartsWithName(a2) THEN a2.name ELSE Minted(kind)
      BY <2>1
    <3>2. /\ anonymous' \in [AddKinds -> Nat]
          /\ \A k \in AddKinds : anonymous[k] <= anonymous'[k]
          /\ ~StartsWithName(a2) => anonymous'[kind] = anonymous[kind] + 1
      BY <2>1 DEF Spent, ApiInv
    <3>3. \A v \in handles : Made(v) => Made(v)'
      <4> SUFFICES ASSUME NEW v \in handles, v.minted, NEW k \in AddKinds, NEW n \in Nat,
                          v.name = MintedOf(k, n), n <= anonymous[k]
                   PROVE  n <= anonymous'[k]
        BY DEF Made
      <4>1. QED
        BY <3>2 DEF ApiInv
    <3>4. /\ Made(verb)'
          /\ verb'.minted => \A w \in handles : w.minted => w.name # verb'.name
      <4>1. CASE StartsWithName(a2)
        BY <3>1, <4>1 DEF Made
      <4>2. CASE ~StartsWithName(a2)
        <5>1. PICK n \in Nat : n = anonymous[kind] /\ anonymous'[kind] = n + 1
          BY <3>2, <4>2 DEF ApiInv
        <5>2. verb'.name = MintedOf(kind, n + 1)
          BY <3>1, <4>2, <5>1 DEF Minted, MintedOf
        <5>3. ASSUME NEW w \in handles, w.minted PROVE w.name # verb'.name
          <6>1. PICK k \in AddKinds, j \in Nat : w.name = MintedOf(k, j) /\ j <= anonymous[k]
            BY <5>3 DEF ApiInv, Made
          <6>2. QED
            BY <5>1, <5>2, <6>1 DEF MintedOf
        <5>4. Made(verb)'
          BY <5>1, <5>2 DEF Made
        <5>5. QED
          BY <5>3, <5>4
      <4>3. QED
        BY <4>1, <4>2
    <3>5. QED
      BY <1>1, <2>2, <3>1, <3>2, <3>3, <3>4 DEF ApiInv
<1>4. QED
  BY <1>2, <1>3

LEMMA ApiStep == ApiInv /\ [ApiNext]_apiVars => ApiInv'
<1> SUFFICES ASSUME ApiInv, [ApiNext]_apiVars PROVE ApiInv'
  OBVIOUS
<1>1. ASSUME NEW t \in OptionTables, Default(t) PROVE ApiInv'
  <2>1. IsOptions(t)
    BY AreOptions
  <2>2. QED
    BY <1>1, <2>1, ApiKept DEF Default, Begins, Adding, NoVerb
<1>2. ASSUME NEW kind \in AddKinds, NEW a2 \in FirstArgs, NEW a3 \in LaterArgs, NEW a4 \in LaterArgs,
             AddBegins(kind, a2, a3, a4)
      PROVE  ApiInv'
  BY <1>2, AddBeginsStep
<1>3. CASE AddAnswered
  <2>1. IsOptions(defaultOptions)' /\ UNCHANGED <<defaultOptions, anonymous, handles>> /\ verb.of = "add"
    BY <1>3 DEF AddAnswered, ApiInv
  <2>2. CASE verb' = NoVerb
    BY <2>1, <2>2, ApiKept DEF Adding, NoVerb
  <2>3. ASSUME NEW of, verb' = [verb EXCEPT !.of = of] PROVE ApiInv'
    <3>1. verb'.opts = verb.opts /\ verb'.merged = verb.merged /\ verb'.minted = verb.minted /\ verb'.name = verb.name
      BY <2>3
    <3>2. QED
      BY <2>1, <3>1, ApiKept DEF Adding
  <2>4. CASE verb' = [verb EXCEPT !.component = "item"]
    <3>1. verb'.opts = verb.opts /\ verb'.merged = verb.merged /\ verb'.minted = verb.minted /\ verb'.name = verb.name
      BY <2>4
    <3>2. QED
      BY <2>1, <3>1, ApiKept DEF Adding
  <2>5. QED
    BY <1>3, <2>2, <2>3, <2>4 DEF AddAnswered, Raise
<1>4. CASE SetAnswered
  <2>1. CASE UNCHANGED handles
    BY <1>4, <2>1, ApiKept DEF SetAnswered, Raise, Adding, NoVerb, ApiInv
  <2>2. CASE handles' = handles \cup {verb} /\ verb' = NoVerb
    BY <1>4, <2>2 DEF SetAnswered, Adding, NoVerb, ApiInv, Made
  <2>3. QED
    BY <1>4, <2>1, <2>2 DEF SetAnswered
<1>5. CASE NextSent
  BY <1>5, ApiKept DEF NextSent, Raise, Adding, NoVerb, ApiInv
<1>6. CASE DaemonGoes
  BY <1>6, ApiKept DEF DaemonGoes, Adding, ApiInv
<1>7. ASSUME NEW n, Elsewhere(n) PROVE ApiInv'
  BY <1>7, ApiKept DEF Elsewhere, Adding, ApiInv
<1>8. ASSUME NEW n, NEW patch, Write(n, patch) PROVE ApiInv'
  BY <1>8, ApiKept DEF Write, Adding, ApiInv
<1>9. ASSUME NEW gone, RemoveNames(gone) PROVE ApiInv'
  BY <1>9, ApiKept DEF RemoveNames, Adding, ApiInv
<1>10. CASE UNCHANGED apiVars
  BY <1>10, ApiKept DEF apiVars, Adding, ApiInv
<1>11. QED
  BY <1>1, <1>2, <1>3, <1>4, <1>5, <1>6, <1>7, <1>8, <1>9, <1>10 DEF ApiNext, SetTable, Assign

\* A handle that `add` returns is of an item the daemon has, with what it promises.
NewHandlesHold ==
  \A v \in handles' \ handles :
    /\ v.name \in DOMAIN onBar'
    /\ \A p \in Properties : Promised(v, p) # {} =>
         p \in DOMAIN onBar'[v.name] /\ onBar'[v.name][p] \in Promised(v, p)

LEMMA HandlesStep == ASSUME ApiInv, [ApiNext]_apiVars PROVE NewHandlesHold
<1>1. CASE UNCHANGED handles
  BY <1>1 DEF NewHandlesHold
<1>2. CASE handles' # handles
  <2>1. SetAnswered
    BY <1>2 DEF ApiNext, apiVars, Default, AddBegins, AddAnswered, NextSent, DaemonGoes, Elsewhere, SetTable,
       Assign, Write, RemoveNames
  <2>2. /\ verb.of = "set" /\ verb.name \in DOMAIN onBar /\ handles' = handles \cup {verb}
        /\ onBar' = PatchedItem(verb.name, PatchSent(verb))
    BY <1>2, <2>1 DEF SetAnswered
  <2>3. /\ DOMAIN onBar' = DOMAIN onBar
        /\ onBar'[verb.name] = ShallowMerge(onBar[verb.name], PatchSent(verb))
    BY <2>2 DEF PatchedItem
  <2>4. IsOptions(verb.opts) /\ IsOptions(defaultOptions) /\ verb.merged = DeepMerge(defaultOptions, verb.opts)
    BY <2>2 DEF ApiInv, Adding
  <2>5. ASSUME NEW p \in Properties, Promised(verb, p) # {}
        PROVE  p \in DOMAIN onBar'[verb.name] /\ onBar'[verb.name][p] \in Promised(verb, p)
    <3>1. p \in DOMAIN PatchSent(verb) /\ PatchSent(verb)[p] \in Promised(verb, p)
      BY <2>4, <2>5, PatchKeepsPromises
    <3>2. p \in DOMAIN ShallowMerge(onBar[verb.name], PatchSent(verb))
          /\ ShallowMerge(onBar[verb.name], PatchSent(verb))[p] = PatchSent(verb)[p]
      BY <3>1 DEF ShallowMerge
    <3>3. QED
      BY <2>3, <3>1, <3>2
  <2>6. QED
    BY <2>2, <2>3, <2>5 DEF NewHandlesHold
<1>3. QED
  BY <1>1, <1>2

\* A handle that `add` returned names an item with every option the call wrote,
\* every default nothing replaced and what its kind implies, and no two unnamed
\* items of a kind share a name.
THEOREM HandlesAreKept == ApiSpec => HandlesKeepPromises
<1>1. ApiInv => \A v, w \in handles : v.minted /\ w.minted /\ v.name = w.name => v = w
  BY DEF ApiInv
<1>2. NewHandlesHold => \A v \in handles' \ handles :
        /\ v.name \in DOMAIN onBar'
        /\ \A p \in Properties : Promised(v, p) # {} =>
             p \in DOMAIN onBar'[v.name] /\ onBar'[v.name][p] \in Promised(v, p)
  BY DEF NewHandlesHold
<1>3. QED
  BY <1>1, <1>2, ApiStart, ApiStep, HandlesStep, PTL DEF ApiSpec, HandlesKeepPromises

-----------------------------------------------------------------------------
(* Items. *)

\* A name that is in the index is of an item that is there and is not going.
Indexed ==
  \A n \in ItemNames : nameIndex[n] # 0 =>
    /\ nameIndex[n] \in There
    /\ item[nameIndex[n]].name = n /\ item[nameIndex[n]].stage # "going"

\* The items that a query does not find yet come after all those it finds.
OrdersStand ==
  ~doubled =>
    /\ \A a, b \in There : a # b => item[a].order # item[b].order
    /\ \A a \in There : item[a].order < nextOrder
    /\ \A a \in Queried, b \in There \ Queried : item[a].order < item[b].order

\* Only an item no client could have set is still to be given the defaults.
ValuesStand ==
  \A id \in There :
    /\ item[id].said # Unset => item[id].value = item[id].said
    /\ item[id].needsDefaults => item[id].stage = "fresh"
    /\ item[id].stage = "fresh" => item[id].said = Unset

ItemsHeld == ItemsTypeOK /\ Indexed /\ OrdersStand /\ ValuesStand

\* What is in a sequence of items is an item or is gone.
LEMMA Entities ==
  ASSUME NEW q \in Seq({Gone} \cup Entity), NEW id \in DOMAIN q
  PROVE  /\ DOMAIN q = 1..Len(q) /\ Len(q) \in Nat
         /\ q[id].stage # "gone" <=> q[id] \in Entity
         /\ q[id].stage = "gone" <=> q[id] = Gone
<1>1. q[id] \in {Gone} \cup Entity /\ DOMAIN q = 1..Len(q) /\ Len(q) \in Nat
  OBVIOUS
<1>2. Gone.stage = "gone" /\ \A e \in Entity : e.stage # "gone"
  BY DEF Gone, Entity
<1>3. QED
  BY <1>1, <1>2

LEMMA SequenceOf ==
  ASSUME NEW n \in Nat, NEW S, NEW f \in [1..n -> S]
  PROVE  f \in Seq(S) /\ Len(f) = n /\ DOMAIN f = 1..n
OBVIOUS

\* A request that changes neither which items there are nor their order.
LEMMA EditKeeps ==
  ASSUME ItemsHeld, nameIndex' = nameIndex, nextOrder' = nextOrder, doubled' = doubled,
         applied' \in 0..MaxItemRequests, defaults' \in {Unset} \cup Values,
         DOMAIN item' = DOMAIN item, item' \in Seq({Gone} \cup Entity),
         \A id \in Ids : item[id] = Gone => item'[id] = Gone,
         \A id \in There :
           /\ item'[id] \in Entity
           /\ item'[id].stage = item[id].stage /\ item'[id].order = item[id].order
           /\ item'[id].name = item[id].name
           /\ item'[id].needsDefaults => item[id].needsDefaults
           /\ item'[id].popupOf \in 0..Len(item)
           /\ item'[id].said # Unset => item'[id].value = item'[id].said
           /\ item'[id].stage = "fresh" => item'[id].said = Unset
  PROVE  ItemsHeld'
<1>1. item \in Seq({Gone} \cup Entity) /\ Len(item') = Len(item)
  BY DEF ItemsHeld, ItemsTypeOK
<1>2. There' = There
  BY <1>1, Entities DEF There, Ids
<1>3. Queried' = Queried
  BY <1>2 DEF Queried
<1>4. ItemsTypeOK'
  BY <1>1, <1>2 DEF ItemsHeld, ItemsTypeOK
<1>5. Indexed'
  BY <1>2 DEF ItemsHeld, Indexed
<1>6. OrdersStand'
  BY <1>2, <1>3 DEF ItemsHeld, OrdersStand, Queried
<1>7. ValuesStand'
  BY <1>2 DEF ItemsHeld, ValuesStand
<1>8. QED
  BY <1>4, <1>5, <1>6, <1>7 DEF ItemsHeld

LEMMA AskedOnce == ASSUME ItemsHeld, Ask PROVE applied' \in 0..MaxItemRequests
BY ItemsAssumption DEF Ask, ItemsHeld, ItemsTypeOK

\* An item h that is e, but for where it is and hangs; n items there are.
IsMoved(e, h, n) ==
  /\ h \in Entity /\ h.popupOf \in 0..n
  /\ h.stage = e.stage /\ h.order = e.order /\ h.name = e.name
  /\ h.needsDefaults = e.needsDefaults /\ h.said = e.said /\ h.value = e.value

LEMMA Hangs ==
  ASSUME NEW e \in Entity, NEW position \in ItemNames \cup {OnBar}, NEW n \in Nat,
         nameIndex' \in [ItemNames -> 0..n], e.popupOf \in 0..n
  PROVE  IsMoved(e, Hang(e, position), n)
<1>1. ASSUME NEW k \in 0..n PROVE IsMoved(e, [e EXCEPT !.popupOf = k], n)
  <2> DEFINE h == [e EXCEPT !.popupOf = k]
  <2>1. k \in Nat
    OBVIOUS
  <2>2. h \in Entity /\ h.popupOf = k
    BY <2>1 DEF Entity
  <2>3. /\ h.stage = e.stage /\ h.order = e.order /\ h.name = e.name
        /\ h.needsDefaults = e.needsDefaults /\ h.said = e.said /\ h.value = e.value
    BY DEF Entity
  <2>4. QED
    BY <2>2, <2>3 DEF IsMoved
<1>2. \/ Hang(e, position) = e
      \/ \E k \in 0..n : Hang(e, position) = [e EXCEPT !.popupOf = k]
  BY DEF Hang
<1>3. IsMoved(e, e, n)
  BY DEF IsMoved
<1>4. QED
  BY <1>1, <1>2, <1>3

\* An `Add` of a name there is moves an item.
LEMMA AddAgainKeeps ==
  ASSUME ItemsHeld, NEW n \in ItemNames, NEW position \in ItemNames \cup {OnBar},
         AddAgain(n, position)
  PROVE  ItemsHeld'
<1> DEFINE id == nameIndex[n]
           moved == IF id \in Queried THEN [item[id] EXCEPT !.position = position] ELSE item[id]
           after == IF n \in Graphs THEN moved ELSE Hang(moved, position)
<1>1. /\ nameIndex' = nameIndex /\ nextOrder' = nextOrder /\ doubled' = doubled /\ defaults' = defaults
      /\ id # 0 /\ item' = [item EXCEPT ![id] = after]
  BY DEF AddAgain
<1>2. id \in There /\ item[id] \in Entity /\ item[id].popupOf \in 0..Len(item) /\ Len(item) \in Nat
  BY <1>1, Entities DEF ItemsHeld, ItemsTypeOK, Indexed, There, Ids
<1>3. moved \in Entity /\ IsMoved(item[id], moved, Len(item))
  BY <1>2 DEF Entity, IsMoved
<1>4. nameIndex' \in [ItemNames -> 0..Len(item)]
  BY <1>1 DEF ItemsHeld, ItemsTypeOK
<1>5. IsMoved(item[id], after, Len(item))
  <2>1. CASE n \in Graphs
    BY <2>1, <1>3
  <2>2. CASE n \notin Graphs
    <3>1. IsMoved(moved, Hang(moved, position), Len(item))
      <4> HIDE DEF moved
      <4> QED
        BY <1>2, <1>3, <1>4, Hangs DEF IsMoved
    <3>2. QED
      BY <2>2, <3>1, <1>3 DEF IsMoved
  <2>3. QED
    BY <2>1, <2>2
<1> HIDE DEF after, moved, id
<1>6. applied' \in 0..MaxItemRequests
  BY AskedOnce DEF AddAgain
<1>7. /\ DOMAIN item' = DOMAIN item /\ item' \in Seq({Gone} \cup Entity)
      /\ \A j \in Ids : item[j] = Gone => item'[j] = Gone
  <2>1. id \in DOMAIN item /\ item[id] # Gone
    BY <1>2, Entities DEF There, Ids, ItemsHeld, ItemsTypeOK
  <2>2. after \in Entity
    BY <1>5 DEF IsMoved
  <2>3. QED
    BY <1>1, <2>1, <2>2 DEF ItemsHeld, ItemsTypeOK, Ids
<1>8. \A j \in There : /\ item[j] \in Entity /\ item[j].popupOf \in 0..Len(item)
                       /\ item[j].said # Unset => item[j].value = item[j].said
                       /\ item[j].stage = "fresh" => item[j].said = Unset
  BY Entities DEF ItemsHeld, ItemsTypeOK, ValuesStand, There, Ids
<1>9. \A j \in There :
           /\ item'[j] \in Entity
           /\ item'[j].stage = item[j].stage /\ item'[j].order = item[j].order
           /\ item'[j].name = item[j].name
           /\ item'[j].needsDefaults => item[j].needsDefaults
           /\ item'[j].popupOf \in 0..Len(item)
           /\ item'[j].said # Unset => item'[j].value = item'[j].said
           /\ item'[j].stage = "fresh" => item'[j].said = Unset
  BY <1>1, <1>5, <1>8 DEF IsMoved, There, Ids
<1>10. defaults' \in {Unset} \cup Values
  BY <1>1 DEF ItemsHeld, ItemsTypeOK
<1>11. QED
  BY <1>1, <1>6, <1>7, <1>9, <1>10, EditKeeps

\* A `Set` gives an item what a client said, and a sample goes to a graph.
LEMMA SetKeeps ==
  ASSUME ItemsHeld, NEW v \in Values,
         \/ \E n \in ItemNames : SetNamed(n, v) \/ PushSample(n, v)
         \/ \E ns \in SUBSET ItemNames : SetMatching(ns, v)
  PROVE  ItemsHeld'
<1>1. /\ nameIndex' = nameIndex /\ nextOrder' = nextOrder /\ doubled' = doubled /\ defaults' = defaults
      /\ Ask
  BY DEF SetNamed, PushSample, SetMatching
<1>2. applied' \in 0..MaxItemRequests /\ defaults' \in {Unset} \cup Values
  BY <1>1, AskedOnce DEF ItemsHeld, ItemsTypeOK
<1>3. \A j \in There : /\ item[j] \in Entity /\ item[j].popupOf \in 0..Len(item)
                       /\ item[j].said # Unset => item[j].value = item[j].said
                       /\ item[j].stage = "fresh" => item[j].said = Unset
  BY Entities DEF ItemsHeld, ItemsTypeOK, ValuesStand, There, Ids
<1>4. \A j \in Ids : j \notin There <=> item[j] = Gone
  BY Entities DEF ItemsHeld, ItemsTypeOK, There, Ids
<1> DEFINE Said(e) == [Patched(e, v) EXCEPT !.said = v]
<1>5. ASSUME NEW e \in Entity, e.stage # "fresh", e.popupOf \in 0..Len(item)
      PROVE  /\ Said(e) \in Entity
             /\ Said(e).stage = e.stage /\ Said(e).order = e.order /\ Said(e).name = e.name
             /\ Said(e).needsDefaults = e.needsDefaults /\ Said(e).popupOf = e.popupOf
             /\ Said(e).said = v /\ Said(e).value = v
  BY <1>5 DEF Patched, Entity
<1>6. CASE \/ \E n \in ItemNames : SetNamed(n, v)
           \/ \E ns \in SUBSET ItemNames : SetMatching(ns, v)
  <2> HIDE DEF Said
  <2>1. PICK some \in SUBSET Queried :
          item' = [id \in Ids |-> IF id \in some THEN Said(item[id]) ELSE item[id]]
    <3>1. CASE \E n \in ItemNames : SetNamed(n, v)
      <4>1. PICK n \in ItemNames : SetNamed(n, v)
        BY <3>1
      <4>2. item' = [item EXCEPT ![nameIndex[n]] = Said(item[nameIndex[n]])] /\ nameIndex[n] \in Queried
        BY <4>1 DEF SetNamed, SetItem, Said
      <4>3. item = [id \in Ids |-> item[id]]
        BY DEF ItemsHeld, ItemsTypeOK, Ids
      <4>4. item' = [id \in Ids |-> IF id \in {nameIndex[n]} THEN Said(item[id]) ELSE item[id]]
        BY <4>2, <4>3 DEF Queried, There
      <4>5. QED
        BY <4>2, <4>4
    <3>2. CASE \E ns \in SUBSET ItemNames : SetMatching(ns, v)
      <4>1. PICK ns \in SUBSET ItemNames : SetMatching(ns, v)
        BY <3>2
      <4>2. Matching(ns) \subseteq Queried
        BY DEF Matching
      <4>3. item' = [id \in Ids |-> IF id \in Matching(ns) THEN Said(item[id]) ELSE item[id]]
        BY <4>1 DEF SetMatching, Said
      <4>4. QED
        BY <4>2, <4>3
    <3>3. QED
      BY <1>6, <3>1, <3>2
  <2>2. \A j \in some : j \in There /\ item[j].stage # "fresh"
    BY DEF Queried
  <2>3. DOMAIN item' = DOMAIN item /\ Ids = 1..Len(item) /\ Len(item) \in Nat
    BY <2>1 DEF Ids, ItemsHeld, ItemsTypeOK
  <2>4. \A j \in Ids : item'[j] \in {Gone} \cup Entity
    BY <2>1, <2>2, <1>3, <1>4, <1>5
  <2>5. item' \in [1..Len(item) -> {Gone} \cup Entity]
    BY <2>1, <2>3, <2>4
  <2>6. item' \in Seq({Gone} \cup Entity)
    BY <2>3, <2>5, SequenceOf
  <2>7. \A id \in Ids : item[id] = Gone => item'[id] = Gone
    BY <2>1, <2>2, <1>4
  <2>8. \A id \in There :
           /\ item'[id] \in Entity
           /\ item'[id].stage = item[id].stage /\ item'[id].order = item[id].order
           /\ item'[id].name = item[id].name
           /\ item'[id].needsDefaults => item[id].needsDefaults
           /\ item'[id].popupOf \in 0..Len(item)
           /\ item'[id].said # Unset => item'[id].value = item'[id].said
           /\ item'[id].stage = "fresh" => item'[id].said = Unset
    BY <2>1, <2>2, <1>3, <1>5 DEF There
  <2>9. QED
    BY <1>1, <1>2, <2>3, <2>6, <2>7, <2>8, EditKeeps
<1>7. CASE \E n \in ItemNames : PushSample(n, v)
  <2>1. PICK n \in ItemNames : PushSample(n, v)
    BY <1>7
  <2> DEFINE id == nameIndex[n]
             s == item[id].samples
             more == Sampled(s, v)
             e == [item[id] EXCEPT !.samples = more]
  <2>2. id \in There /\ id \in Ids /\ item' = [item EXCEPT ![id] = e] /\ Capacity > 0
    BY <2>1 DEF PushSample, Queried, There
  <2>3. PICK k \in 0..Capacity : s \in [1..k -> Values]
    BY <1>3, <2>2 DEF Entity
  <2>4. \E j \in 0..Capacity : more \in [1..j -> Values]
    <3>1. s \in Seq(Values) /\ Len(s) = k /\ k \in Nat /\ Capacity \in Nat
      BY <2>3, ItemsAssumption, SequenceOf
    <3>2. CASE more = s
      BY <3>2, <2>3
    <3>3. CASE Len(s) = Capacity /\ more = Append(Tail(s), v)
      <4>1. Tail(s) \in Seq(Values) /\ Len(Tail(s)) = k - 1
        BY <2>2, <3>1, <3>3
      <4>2. more \in Seq(Values) /\ Len(more) = k
        BY <3>1, <3>3, <4>1
      <4>3. QED
        BY <4>2
    <3>4. CASE Len(s) # Capacity /\ more = Append(s, v)
      <4>1. more \in Seq(Values) /\ Len(more) = k + 1
        BY <3>1, <3>4
      <4>2. k + 1 \in 0..Capacity
        BY <3>1, <3>4
      <4>3. QED
        BY <4>1, <4>2
    <3>5. QED
      BY <3>2, <3>3, <3>4 DEF Sampled
  <2> HIDE DEF more
  <2>5. /\ e \in Entity /\ e.stage = item[id].stage /\ e.order = item[id].order
        /\ e.name = item[id].name /\ e.needsDefaults = item[id].needsDefaults
        /\ e.popupOf = item[id].popupOf /\ e.said = item[id].said /\ e.value = item[id].value
    <3>1. item[id] \in Entity
      BY <1>3, <2>2
    <3>2. more \in UNION {[1..j -> Values] : j \in 0..Capacity}
      BY <2>4
    <3>3. QED
      BY <3>1, <3>2 DEF Entity
  <2> HIDE DEF e, id
  <2>6. DOMAIN item' = DOMAIN item /\ item' \in Seq({Gone} \cup Entity)
        /\ \A j \in Ids : item[j] = Gone => item'[j] = Gone
    BY <1>4, <2>2, <2>5 DEF ItemsHeld, ItemsTypeOK, Ids
  <2>7. \A j \in There :
           /\ item'[j] \in Entity
           /\ item'[j].stage = item[j].stage /\ item'[j].order = item[j].order
           /\ item'[j].name = item[j].name
           /\ item'[j].needsDefaults => item[j].needsDefaults
           /\ item'[j].popupOf \in 0..Len(item)
           /\ item'[j].said # Unset => item'[j].value = item'[j].said
           /\ item'[j].stage = "fresh" => item'[j].said = Unset
    BY <1>3, <2>2, <2>5 DEF There, Ids
  <2>8. QED
    BY <1>1, <1>2, <2>6, <2>7, EditKeeps
<1>8. QED
  BY <1>6, <1>7

\* An `Add` of a new name: it comes after all there are.
LEMMA AddNewKeeps ==
  ASSUME ItemsHeld, NEW n \in ItemNames, NEW position \in ItemNames \cup {OnBar},
         AddNew(n, position)
  PROVE  ItemsHeld'
<1> DEFINE last == Len(item) + 1
           e == Hang(Bundle(n, position, nextOrder), position)
<1>1. /\ nameIndex' = [nameIndex EXCEPT ![n] = last] /\ nextOrder' = nextOrder + 1
      /\ doubled' = doubled /\ defaults' = defaults /\ item' = Append(item, e) /\ Ask
  BY DEF AddNew, NextOrder
<1>2. /\ item \in Seq({Gone} \cup Entity) /\ Len(item) \in Nat /\ nextOrder \in Nat
      /\ nameIndex \in [ItemNames -> 0..Len(item)] /\ last \in Nat /\ Ids = 1..Len(item)
  BY DEF ItemsHeld, ItemsTypeOK, Ids
<1>3. nameIndex' \in [ItemNames -> 0..last]
  BY <1>1, <1>2
<1>4. /\ Bundle(n, position, nextOrder) \in Entity /\ Bundle(n, position, nextOrder).popupOf = 0
  <2>1. <<>> \in UNION {[1..j -> Values] : j \in 0..Capacity}
    <3>1. <<>> \in [1..0 -> Values] /\ 0 \in 0..Capacity
      BY ItemsAssumption
    <3>2. QED
      BY <3>1
  <2>2. QED
    BY <1>2, <2>1 DEF Bundle, Entity, Unset, Values
<1>5. IsMoved(Bundle(n, position, nextOrder), e, last)
  BY <1>2, <1>3, <1>4, Hangs
<1>6. /\ e \in Entity /\ e.popupOf \in 0..last /\ e.stage = "fresh" /\ e.order = nextOrder
      /\ e.name = n /\ e.said = Unset
  BY <1>5 DEF IsMoved, Bundle
<1> HIDE DEF e
<1>7. /\ item' \in Seq({Gone} \cup Entity) /\ Len(item') = last /\ item'[last] = e
      /\ Ids' = 1..last /\ \A j \in Ids : j \in 1..last /\ j # last /\ item'[j] = item[j]
  BY <1>1, <1>2, <1>6 DEF Ids
<1> HIDE DEF last
<1>8. There' = There \cup {last} /\ last \notin There
  <2>1. e.stage # "gone" /\ Ids' = Ids \cup {last} /\ last \notin Ids
    BY <1>2, <1>6, <1>7 DEF last
  <2>2. QED
    BY <1>7, <2>1 DEF There
<1>9. Queried' = Queried
  BY <1>6, <1>7, <1>8 DEF Queried, There
<1>10. \A j \in There : j \in Ids /\ item'[j] = item[j]
  BY <1>7 DEF There
<1>11. ItemsTypeOK'
  <2>1. \A j \in There : item[j].popupOf \in 0..last
    BY <1>2 DEF ItemsHeld, ItemsTypeOK, last
  <2>2. \A j \in There' : item'[j].popupOf \in 0..Len(item')
    BY <2>1, <1>6, <1>7, <1>8, <1>10
  <2>3. applied' \in 0..MaxItemRequests
    BY <1>1, AskedOnce
  <2>4. nameIndex' \in [ItemNames -> 0..Len(item')] /\ nextOrder' \in Nat
    BY <1>1, <1>2, <1>3, <1>7
  <2>5. QED
    BY <1>1, <1>7, <2>2, <2>3, <2>4 DEF ItemsHeld, ItemsTypeOK
<1>12. Indexed'
  BY <1>1, <1>2, <1>6, <1>7, <1>8, <1>10 DEF ItemsHeld, Indexed
<1>13. OrdersStand'
  <2> SUFFICES ASSUME ~doubled PROVE OrdersStand'
    BY <1>1 DEF OrdersStand
  <2>1. /\ \A a, b \in There : a # b => item[a].order # item[b].order
        /\ \A a \in There : item[a].order < nextOrder
        /\ \A a \in Queried, b \in There \ Queried : item[a].order < item[b].order
    BY DEF ItemsHeld, OrdersStand
  <2>2. \A a \in There : item[a].order \in Nat
    BY <1>2, Entities DEF There, Ids, Entity
  <2>3. \A a, b \in There' : a # b => item'[a].order # item'[b].order
    <3>1. \A a \in There : item'[a].order \in Nat /\ item'[a].order < nextOrder
      BY <2>1, <2>2, <1>10
    <3>2. item'[last].order = nextOrder /\ nextOrder \in Nat
      BY <1>2, <1>6, <1>7
    <3>3. \A a, b \in There : a # b => item'[a].order # item'[b].order
      BY <2>1, <1>10
    <3>4. \A a \in There : item'[a].order # item'[last].order
      BY <3>1, <3>2
    <3>5. QED
      BY <3>3, <3>4, <1>8
  <2>4. \A a \in There' : item'[a].order < nextOrder'
    BY <2>1, <2>2, <1>1, <1>2, <1>6, <1>7, <1>8, <1>10
  <2>5. \A a \in Queried', b \in There' \ Queried' : item'[a].order < item'[b].order
    BY <2>1, <2>2, <1>2, <1>6, <1>7, <1>8, <1>9, <1>10 DEF Queried
  <2>6. QED
    BY <2>3, <2>4, <2>5 DEF OrdersStand
<1>14. ValuesStand'
  BY <1>6, <1>7, <1>8, <1>10 DEF ItemsHeld, ValuesStand
<1>15. QED
  BY <1>11, <1>12, <1>13, <1>14 DEF ItemsHeld

\* Items that stay keep their places.
LEMMA StayInOrder ==
  ASSUME OrdersStand, doubled' = doubled, nextOrder' = nextOrder, There' \subseteq There,
         There' \cap Queried \subseteq Queried', \A j \in There' : item'[j].order = item[j].order,
         Queried' \subseteq Queried \/ Queried' = There'
  PROVE  OrdersStand'
<1> SUFFICES ASSUME ~doubled PROVE OrdersStand'
  BY DEF OrdersStand
<1>1. /\ \A a, b \in There : a # b => item[a].order # item[b].order
      /\ \A a \in There : item[a].order < nextOrder
      /\ \A a \in Queried, b \in There \ Queried : item[a].order < item[b].order
  BY DEF OrdersStand
<1>2. Queried' \subseteq There'
  BY DEF Queried
<1>3. \A a, b \in There' : a # b => item'[a].order # item'[b].order
  BY <1>1
<1>4. \A a \in There' : item'[a].order < nextOrder'
  BY <1>1
<1>5. \A a \in Queried', b \in There' \ Queried' : item'[a].order < item'[b].order
  BY <1>1, <1>2
<1>6. QED
  BY <1>3, <1>4, <1>5 DEF OrdersStand

\* What is removed leaves the index; it is going if a query had found it.
LEMMA RemovalKeeps ==
  ASSUME ItemsHeld, NEW some \in SUBSET There, applied' \in 0..MaxItemRequests,
         nextOrder' = nextOrder, doubled' = doubled, defaults' = defaults,
         item' = [id \in Ids |-> IF id \notin some THEN item[id]
                                 ELSE IF item[id].stage = "fresh" THEN Gone
                                 ELSE [item[id] EXCEPT !.stage = "going"]],
         nameIndex' \in [ItemNames -> 0..Len(item)],
         \A n \in ItemNames : nameIndex'[n] # 0 =>
           nameIndex'[n] = nameIndex[n] /\ nameIndex[n] \notin some
  PROVE  ItemsHeld'
<1>1. Ids = 1..Len(item) /\ Len(item) \in Nat /\ Ids' = Ids
  BY DEF ItemsHeld, ItemsTypeOK, Ids
<1>2. \A j \in There : j \in Ids /\ item[j] \in Entity
  BY Entities DEF ItemsHeld, ItemsTypeOK, There, Ids
<1>3. \A j \in Ids : item[j] \in {Gone} \cup Entity
  BY DEF ItemsHeld, ItemsTypeOK, Ids
<1>4. ASSUME NEW e \in Entity
      PROVE  LET g == [e EXCEPT !.stage = "going"]
             IN /\ g \in Entity /\ g.stage = "going" /\ g.order = e.order /\ g.name = e.name
                /\ g.popupOf = e.popupOf /\ g.said = e.said /\ g.value = e.value
                /\ g.needsDefaults = e.needsDefaults
  BY DEF Entity
<1>5. \A j \in Ids : item'[j] \in {Gone} \cup Entity
  BY <1>2, <1>3, <1>4
<1>6. item' \in [1..Len(item) -> {Gone} \cup Entity]
  BY <1>1, <1>5
<1>7. item' \in Seq({Gone} \cup Entity) /\ Len(item') = Len(item)
  BY <1>1, <1>6, SequenceOf
<1>8. There' = {j \in There : j \notin some \/ item[j].stage # "fresh"}
  BY <1>1, <1>2, <1>4 DEF There, Gone
<1>9. \A j \in There' :
        /\ j \in There /\ item'[j].order = item[j].order /\ item'[j].name = item[j].name
        /\ item'[j].popupOf = item[j].popupOf /\ item'[j].said = item[j].said
        /\ item'[j].value = item[j].value /\ item'[j].needsDefaults = item[j].needsDefaults
        /\ item'[j].stage = IF j \in some THEN "going" ELSE item[j].stage
  BY <1>2, <1>4, <1>8
<1>10. ItemsTypeOK'
  <2>1. \A j \in There' : item'[j].popupOf \in 0..Len(item')
    BY <1>7, <1>9 DEF ItemsHeld, ItemsTypeOK
  <2>2. QED
    BY <1>7, <2>1 DEF ItemsHeld, ItemsTypeOK
<1>11. Indexed'
  <2>1. \A n \in ItemNames : nameIndex'[n] # 0 => nameIndex[n] \in There'
    BY <1>8 DEF ItemsHeld, Indexed
  <2>2. QED
    BY <1>9, <2>1 DEF ItemsHeld, Indexed
<1>12. OrdersStand'
  <2>1. Queried' \subseteq Queried /\ There' \cap Queried \subseteq Queried' /\ There' \subseteq There
    BY <1>2, <1>8, <1>9 DEF Queried, Entity
  <2>2. QED
    BY <1>9, <2>1, StayInOrder DEF ItemsHeld
<1>13. ValuesStand'
  <2>1. \A j \in There' : j \in some => item[j].stage # "fresh"
    BY <1>8
  <2>2. QED
    BY <1>8, <1>9, <2>1 DEF ItemsHeld, ValuesStand
<1>14. QED
  BY <1>10, <1>11, <1>12, <1>13 DEF ItemsHeld

LEMMA RemoveKeeps ==
  ASSUME ItemsHeld,
         \/ \E n \in ItemNames : RemoveNamed(n)
         \/ \E ns \in SUBSET ItemNames : RemoveMatching(ns)
  PROVE  ItemsHeld'
<1> DEFINE LeftOut(some) ==
             [id \in Ids |-> IF id \notin some THEN item[id]
                             ELSE IF item[id].stage = "fresh" THEN Gone
                             ELSE [item[id] EXCEPT !.stage = "going"]]
<1>1. /\ nameIndex \in [ItemNames -> 0..Len(item)] /\ Len(item) \in Nat
      /\ item = [id \in Ids |-> item[id]]
  BY DEF ItemsHeld, ItemsTypeOK, Ids
<1>2. CASE \E n \in ItemNames : RemoveNamed(n)
  <2>1. PICK n \in ItemNames : RemoveNamed(n)
    BY <1>2
  <2> DEFINE id == nameIndex[n]
  <2>2. id # 0 /\ id \in There /\ id \in Ids /\ item[id].name = n
    BY <2>1 DEF RemoveNamed, ItemsHeld, Indexed, There
  <2>3. item' = LeftOut({id})
    <3>1. CASE item[id].stage = "fresh"
      <4>1. item' = [item EXCEPT ![id] = Gone]
        BY <2>1, <3>1 DEF RemoveNamed
      <4>2. QED
        BY <4>1, <3>1, <1>1, <2>2
    <3>2. CASE item[id].stage # "fresh"
      <4>1. item' = Despawned({id})
        BY <2>1, <3>2 DEF RemoveNamed
      <4>2. QED
        BY <4>1, <3>2 DEF Despawned
    <3>3. QED
      BY <3>1, <3>2
  <2>4. nameIndex' = [nameIndex EXCEPT ![n] = 0]
    BY <2>1 DEF RemoveNamed
  <2>5. nameIndex' \in [ItemNames -> 0..Len(item)]
    BY <2>4, <1>1
  <2>6. \A m \in ItemNames : nameIndex'[m] # 0 =>
          nameIndex'[m] = nameIndex[m] /\ nameIndex[m] \notin {id}
    BY <2>2, <2>4, <1>1 DEF ItemsHeld, Indexed
  <2>7. nextOrder' = nextOrder /\ doubled' = doubled /\ defaults' = defaults /\ Ask
    BY <2>1 DEF RemoveNamed
  <2>8. applied' \in 0..MaxItemRequests
    BY <2>7, AskedOnce
  <2>9. {id} \in SUBSET There
    BY <2>2
  <2> HIDE DEF id
  <2>10. QED
    BY <2>3, <2>5, <2>6, <2>7, <2>8, <2>9, RemovalKeeps
<1>3. CASE \E ns \in SUBSET ItemNames : RemoveMatching(ns)
  <2>1. PICK ns \in SUBSET ItemNames : RemoveMatching(ns)
    BY <1>3
  <2> DEFINE some == Matching(ns)
  <2>2. some \in SUBSET There /\ \A id \in some : item[id].stage # "fresh"
    BY DEF Matching, Queried
  <2>3. item' = LeftOut(some)
    BY <2>1, <2>2 DEF RemoveMatching, Despawned
  <2>4. nameIndex' = [n \in ItemNames |-> IF \E id \in some : item[id].name = n THEN 0
                                          ELSE nameIndex[n]]
    BY <2>1 DEF RemoveMatching
  <2>5. nameIndex' \in [ItemNames -> 0..Len(item)]
    BY <2>4, <1>1
  <2>6. \A m \in ItemNames : nameIndex'[m] # 0 =>
          nameIndex'[m] = nameIndex[m] /\ nameIndex[m] \notin some
    BY <2>4 DEF ItemsHeld, Indexed
  <2>7. nextOrder' = nextOrder /\ doubled' = doubled /\ defaults' = defaults /\ Ask
    BY <2>1 DEF RemoveMatching
  <2>8. applied' \in 0..MaxItemRequests
    BY <2>7, AskedOnce
  <2> HIDE DEF some
  <2>9. QED
    BY <2>2, <2>3, <2>5, <2>6, <2>7, <2>8, RemovalKeeps
<1>4. QED
  BY <1>2, <1>3

LEMMA SetDefaultKeeps ==
  ASSUME ItemsHeld, NEW v \in {Unset} \cup Values, SetDefault(v) PROVE ItemsHeld'
<1>1. /\ item' = item /\ nameIndex' = nameIndex /\ nextOrder' = nextOrder /\ doubled' = doubled
      /\ defaults' \in {Unset} \cup Values /\ Ask
  BY DEF SetDefault
<1>2. applied' \in 0..MaxItemRequests
  BY <1>1, AskedOnce
<1>3. There' = There /\ Queried' = Queried
  BY <1>1 DEF There, Queried, Ids
<1>4. ItemsTypeOK' /\ Indexed'
  BY <1>1, <1>2, <1>3 DEF ItemsHeld, ItemsTypeOK, Indexed
<1>5. OrdersStand' /\ ValuesStand'
  BY <1>1, <1>3 DEF ItemsHeld, OrdersStand, ValuesStand
<1>6. QED
  BY <1>4, <1>5 DEF ItemsHeld

\* The pass is applied: what was going is gone and the rest can be found.
LEMMA PassKeeps ==
  ASSUME ItemsHeld, PassApplied PROVE ItemsHeld'
<1> DEFINE Lives(e) == Unmarked([e EXCEPT !.stage = "live"])
<1>1. /\ nameIndex' = nameIndex /\ nextOrder' = nextOrder /\ doubled' = doubled
      /\ defaults' = defaults /\ applied' = applied
      /\ item' = [id \in Ids |-> IF item[id].stage \in {"gone", "going"} THEN Gone ELSE Lives(item[id])]
  BY DEF PassApplied
<1>2. Ids = 1..Len(item) /\ Len(item) \in Nat /\ Ids' = Ids
  BY <1>1 DEF ItemsHeld, ItemsTypeOK, Ids
<1>3. \A j \in There : j \in Ids /\ item[j] \in Entity
  BY Entities DEF ItemsHeld, ItemsTypeOK, There, Ids
<1>4. ASSUME NEW e \in Entity
      PROVE  /\ Lives(e) \in Entity /\ Lives(e).stage = "live" /\ Lives(e).order = e.order
             /\ Lives(e).name = e.name /\ Lives(e).popupOf = e.popupOf /\ Lives(e).said = e.said
             /\ Lives(e).needsDefaults = FALSE
             /\ ~e.needsDefaults => Lives(e).value = e.value
  <2> DEFINE l == [e EXCEPT !.stage = "live"]
  <2>1. /\ l \in Entity /\ l.stage = "live" /\ l.order = e.order /\ l.name = e.name
        /\ l.popupOf = e.popupOf /\ l.said = e.said /\ l.needsDefaults = e.needsDefaults
        /\ l.value = e.value
    BY DEF Entity
  <2> HIDE DEF l
  <2> DEFINE d == Defaulted(l)
  <2>2. /\ d \in Entity /\ d.stage = "live" /\ d.order = e.order /\ d.name = e.name
        /\ d.popupOf = e.popupOf /\ d.said = e.said
        /\ ~e.needsDefaults => d.value = e.value
    <3>1. CASE d = l
      BY <2>1, <3>1
    <3>2. CASE e.needsDefaults /\ d = [l EXCEPT !.value = defaults]
      BY <2>1, <3>2 DEF ItemsHeld, ItemsTypeOK, Entity
    <3>3. QED
      BY <2>1, <3>1, <3>2 DEF Defaulted, Patched
  <2> HIDE DEF d
  <2>3. Lives(e) = [d EXCEPT !.needsDefaults = FALSE]
    BY DEF Unmarked, d, l
  <2> HIDE DEF Lives
  <2>4. QED
    BY <2>2, <2>3 DEF Entity
<1> HIDE DEF Lives
<1>5. \A j \in Ids : item'[j] \in {Gone} \cup Entity
  BY <1>1, <1>3, <1>4 DEF There
<1>6. item' \in [1..Len(item) -> {Gone} \cup Entity]
  BY <1>1, <1>2, <1>5
<1>7. item' \in Seq({Gone} \cup Entity) /\ Len(item') = Len(item)
  BY <1>2, <1>6, SequenceOf
<1>8. There' = {j \in There : item[j].stage # "going"}
  BY <1>1, <1>2, <1>3, <1>4 DEF There, Gone
<1>9. \A j \in There' :
        /\ j \in There /\ j \in Ids /\ item'[j] = Lives(item[j]) /\ item[j] \in Entity
  BY <1>1, <1>3, <1>8 DEF There
<1>10. Queried' = There'
  BY <1>4, <1>9 DEF Queried
<1>11. ItemsTypeOK'
  <2>1. \A j \in There' : item'[j].popupOf \in 0..Len(item')
    BY <1>4, <1>7, <1>9 DEF ItemsHeld, ItemsTypeOK
  <2>2. QED
    BY <1>1, <1>7, <2>1 DEF ItemsHeld, ItemsTypeOK
<1>12. Indexed'
  <2>1. \A n \in ItemNames : nameIndex[n] # 0 => nameIndex[n] \in There'
    BY <1>8 DEF ItemsHeld, Indexed
  <2>2. \A j \in There' : item'[j].name = item[j].name /\ item'[j].stage = "live"
    <3> SUFFICES ASSUME NEW j \in There'
                 PROVE  item'[j].name = item[j].name /\ item'[j].stage = "live"
      OBVIOUS
    <3>1. item'[j] = Lives(item[j]) /\ item[j] \in Entity
      BY <1>9
    <3>2. Lives(item[j]).name = item[j].name /\ Lives(item[j]).stage = "live"
      BY <3>1, <1>4
    <3>3. QED
      BY <3>1, <3>2
  <2>3. QED
    BY <1>1, <2>1, <2>2 DEF ItemsHeld, Indexed
<1>13. OrdersStand'
  <2>1. \A j \in There' : item'[j].order = item[j].order
    BY <1>4, <1>9
  <2>2. QED
    BY <1>1, <1>8, <1>10, <2>1, StayInOrder DEF ItemsHeld
<1>14. ValuesStand'
  <2>1. \A j \in There' : item'[j].said # Unset => item'[j].value = item'[j].said
    <3> SUFFICES ASSUME NEW j \in There', item'[j].said # Unset PROVE item'[j].value = item'[j].said
      OBVIOUS
    <3>1. item'[j].said = item[j].said /\ (~item[j].needsDefaults => item'[j].value = item[j].value)
      BY <1>4, <1>9
    <3>2. j \in There /\ ~item[j].needsDefaults
      BY <1>9, <3>1 DEF ItemsHeld, ValuesStand
    <3>3. QED
      BY <3>1, <3>2 DEF ItemsHeld, ValuesStand
  <2>2. QED
    BY <2>1, <1>4, <1>9 DEF ValuesStand
<1>15. QED
  BY <1>11, <1>12, <1>13, <1>14 DEF ItemsHeld

\* A sequence with each of a set once.
AllOnce(s, S) ==
  /\ Len(s) \in Nat /\ s \in [1..Len(s) -> S]
  /\ \A i, j \in 1..Len(s) : i # j => s[i] # s[j]
  /\ \A x \in S : \E k \in 1..Len(s) : s[k] = x

\* There are as many numbers below m as there are orders below it.
LEMMA PlacesSuffice ==
  ASSUME NEW s, NEW S, AllOnce(s, S), NEW m \in Nat, NEW f \in [S -> 0..(m - 1)],
         \A x, y \in S : x # y => f[x] # f[y]
  PROVE  Len(s) <= m
<1> DEFINE n == Len(s)
           g == [k \in 1..n |-> f[s[k]]]
<1>1. n \in Nat /\ g \in Injection(1..n, 0..(m - 1))
  <2>1. g \in [1..n -> 0..(m - 1)]
    BY DEF AllOnce
  <2>2. \A i, j \in 1..n : i # j => g[i] # g[j]
    BY DEF AllOnce
  <2>3. QED
    BY <2>1, <2>2 DEF AllOnce, Injection, IsInjective
<1> HIDE DEF g, n
<1>2. IsFiniteSet(0..(m - 1)) /\ Cardinality(0..(m - 1)) = m
  BY FS_Interval
<1>3. IsFiniteSet(1..n) /\ Cardinality(1..n) = n
  BY <1>1, FS_Interval
<1>4. Cardinality(1..n) <= Cardinality(0..(m - 1))
  BY <1>1, <1>2, FS_Injection
<1>5. QED
  BY <1>2, <1>3, <1>4 DEF n

\* An item that is renumbered has its place, the others what they had.
LEMMA Renumbers ==
  ASSUME ItemsHeld, NEW order, Len(order) \in Nat, order \in [1..Len(order) -> Queried],
         NEW id \in Ids
  PROVE  LET e == Renumbered(order)[id]
         IN \/ e = item[id] /\ PlacesOf(id, order) = {}
            \/ /\ e \in Entity /\ id \in Queried /\ e.stage = item[id].stage
               /\ e.name = item[id].name /\ e.popupOf = item[id].popupOf
               /\ e.said = item[id].said /\ e.value = item[id].value
               /\ e.needsDefaults = item[id].needsDefaults
               /\ \E k \in PlacesOf(id, order) : e.order = k - 1
<1> DEFINE places == PlacesOf(id, order)
           e == Renumbered(order)[id]
<1>1. e = IF places = {} THEN item[id] ELSE [item[id] EXCEPT !.order = Max(places) - 1]
  BY DEF Renumbered
<1>2. CASE places = {}
  BY <1>1, <1>2
<1>3. CASE places # {}
  <2>1. places \in SUBSET (1..Len(order)) /\ id \in Queried
    BY <1>3 DEF PlacesOf
  <2>2. item[id] \in Entity
    BY <2>1, Entities DEF ItemsHeld, ItemsTypeOK, Queried, There, Ids
  <2> HIDE DEF places, e
  <2>3. Max(places) \in places
    <3>1. PICK n \in Nat : n = Len(order)
      OBVIOUS
    <3>2. places \in SUBSET (0..n)
      BY <2>1, <3>1
    <3>3. QED
      BY <1>3, <3>2, GreatestNat
  <2>4. Max(places) - 1 \in Nat
    <3>1. PICK k \in 1..Len(order) : k = Max(places)
      BY <2>1, <2>3
    <3>2. k - 1 \in Nat
      OBVIOUS
    <3>3. QED
      BY <3>1, <3>2
  <2>5. e = [item[id] EXCEPT !.order = Max(places) - 1]
    BY <1>1, <1>3
  <2>6. /\ e \in Entity /\ e.stage = item[id].stage
        /\ e.name = item[id].name /\ e.popupOf = item[id].popupOf
        /\ e.said = item[id].said /\ e.value = item[id].value
        /\ e.needsDefaults = item[id].needsDefaults
        /\ e.order = Max(places) - 1
    BY <2>2, <2>4, <2>5 DEF Entity
  <2>7. QED
    BY <2>1, <2>3, <2>6 DEF places, e
<1>4. QED
  BY <1>2, <1>3

LEMMA RenumberKeeps ==
  ASSUME ItemsHeld, NEW order, Len(order) \in Nat, order \in [1..Len(order) -> Queried],
         item' = Renumbered(order), nameIndex' = nameIndex, nextOrder' = nextOrder,
         defaults' = defaults, applied' \in 0..MaxItemRequests, doubled' \in BOOLEAN,
         ~doubled' => ~doubled /\ AllOnce(order, Queried)
  PROVE  ItemsHeld'
<1>1. Ids = 1..Len(item) /\ Len(item) \in Nat /\ DOMAIN item' = Ids /\ Ids' = Ids
  BY DEF ItemsHeld, ItemsTypeOK, Ids, Renumbered
<1>2. \A j \in There : j \in Ids /\ item[j] \in Entity
  BY Entities DEF ItemsHeld, ItemsTypeOK, There, Ids
<1>3. \A j \in Ids : item[j] \in {Gone} \cup Entity /\ (item[j].stage = "gone" <=> item[j] = Gone)
  BY Entities DEF ItemsHeld, ItemsTypeOK, Ids
<1>4. \A j \in Ids :
        /\ item'[j] \in {Gone} \cup Entity /\ item'[j].stage = item[j].stage
        /\ j \in There => /\ item'[j].name = item[j].name /\ item'[j].popupOf = item[j].popupOf
                          /\ item'[j].said = item[j].said /\ item'[j].value = item[j].value
                          /\ item'[j].needsDefaults = item[j].needsDefaults
        /\ \/ item'[j] = item[j] /\ PlacesOf(j, order) = {}
           \/ \E k \in PlacesOf(j, order) : item'[j].order = k - 1
  BY <1>3, Renumbers
<1>5. There' = There
  BY <1>1, <1>4 DEF There
<1>6. Queried' = Queried
  BY <1>2, <1>4, <1>5 DEF Queried
<1>7. item' \in Seq({Gone} \cup Entity) /\ Len(item') = Len(item)
  <2>1. item' = [j \in 1..Len(item) |-> item'[j]]
    BY <1>1 DEF Renumbered
  <2>2. item' \in [1..Len(item) -> {Gone} \cup Entity]
    BY <1>1, <1>4, <2>1
  <2>3. QED
    BY <1>1, <2>2, SequenceOf
<1>8. ItemsTypeOK'
  <2>1. \A j \in There' : item'[j].popupOf \in 0..Len(item')
    BY <1>2, <1>4, <1>5, <1>7 DEF ItemsHeld, ItemsTypeOK
  <2>2. QED
    BY <1>7, <2>1 DEF ItemsHeld, ItemsTypeOK
<1>9. \A j \in There : /\ item'[j].name = item[j].name /\ item'[j].stage = item[j].stage
                       /\ item'[j].said = item[j].said /\ item'[j].value = item[j].value
                       /\ item'[j].needsDefaults = item[j].needsDefaults
  BY <1>2, <1>4
<1>10. Indexed' /\ ValuesStand'
  BY <1>5, <1>9 DEF ItemsHeld, Indexed, ValuesStand
<1>11. OrdersStand'
  <2> SUFFICES ASSUME ~doubled' PROVE OrdersStand'
    BY DEF OrdersStand
  <2>1. /\ \A a, b \in There : a # b => item[a].order # item[b].order
        /\ \A a \in There : item[a].order < nextOrder
        /\ \A a \in Queried, b \in There \ Queried : item[a].order < item[b].order
        /\ AllOnce(order, Queried)
    BY DEF ItemsHeld, OrdersStand
  <2>2. nextOrder \in Nat /\ Queried \subseteq There
        /\ \A a \in There : item[a].order \in Nat /\ item[a].order < nextOrder
    BY <1>2, <2>1 DEF ItemsHeld, ItemsTypeOK, Entity, Queried
  <2>3. \A a \in Queried : \E k \in 1..Len(order) : order[k] = a /\ item'[a].order = k - 1
    <3> SUFFICES ASSUME NEW a \in Queried
                 PROVE  \E k \in 1..Len(order) : order[k] = a /\ item'[a].order = k - 1
      OBVIOUS
    <3>1. PlacesOf(a, order) # {}
      BY <2>1 DEF AllOnce, PlacesOf
    <3>2. PICK k \in PlacesOf(a, order) : item'[a].order = k - 1
      BY <1>2, <1>4, <2>2, <3>1
    <3>3. QED
      BY <3>2 DEF PlacesOf
  <2>4. \A a \in There \ Queried : item'[a].order = item[a].order
    <3>1. \A a \in There \ Queried : PlacesOf(a, order) = {}
      BY DEF PlacesOf
    <3>2. QED
      BY <1>2, <1>4, <3>1
  <2>5. ASSUME NEW m \in Nat, \A a \in Queried : item[a].order < m PROVE Len(order) <= m
    <3> DEFINE f == [a \in Queried |-> item[a].order]
    <3>1. f \in [Queried -> 0..(m - 1)]
      BY <2>2, <2>5
    <3>2. \A x, y \in Queried : x # y => f[x] # f[y]
      BY <2>1, <2>2
    <3> HIDE DEF f
    <3>3. QED
      BY <2>1, <3>1, <3>2, PlacesSuffice
  <2>6. Len(order) <= nextOrder /\ \A b \in There \ Queried : Len(order) <= item[b].order
    BY <2>1, <2>2, <2>5
  <2>7. \A a \in Queried : item'[a].order \in Nat /\ item'[a].order < Len(order)
    BY <2>3
  <2>8. \A a \in There' : item'[a].order < nextOrder'
    <3>1. \A a \in Queried : item'[a].order < nextOrder
      BY <2>2, <2>6, <2>7
    <3>2. \A a \in There \ Queried : item'[a].order < nextOrder
      BY <2>2, <2>4
    <3>3. QED
      BY <1>5, <3>1, <3>2
  <2>9. \A a \in Queried', b \in There' \ Queried' : item'[a].order < item'[b].order
    BY <1>5, <1>6, <2>2, <2>4, <2>6, <2>7
  <2>10. \A a, b \in There' : a # b => item'[a].order # item'[b].order
    <3> SUFFICES ASSUME NEW a \in There, NEW b \in There, a # b
                 PROVE  item'[a].order # item'[b].order
      BY <1>5
    <3>1. CASE a \in Queried /\ b \in Queried
      BY <2>3, <3>1
    <3>2. CASE a \notin Queried /\ b \notin Queried
      BY <2>1, <2>4, <3>2
    <3>3. CASE a \in Queried /\ b \notin Queried
      BY <2>2, <2>4, <2>6, <2>7, <3>3
    <3>4. CASE a \notin Queried /\ b \in Queried
      BY <2>2, <2>4, <2>6, <2>7, <3>4
    <3>5. QED
      BY <3>1, <3>2, <3>3, <3>4
  <2>11. QED
    BY <2>8, <2>9, <2>10 DEF OrdersStand
<1>12. QED
  BY <1>8, <1>10, <1>11 DEF ItemsHeld

\* What `current_order` finds: each item a query finds, once.
LEMMA SortedOnce ==
  ASSUME ItemsHeld, NEW ids \in SUBSET Queried, NEW s \in Sorted(ids)
  PROVE  /\ AllOnce(s, ids)
         /\ \A i, j \in 1..Len(s) : i < j => item[s[i]].order <= item[s[j]].order
<1>1. IsFiniteSet(ids)
  <2>1. ids \in SUBSET (1..Len(item)) /\ Len(item) \in Nat
    BY DEF Queried, There, Ids, ItemsHeld, ItemsTypeOK
  <2>2. IsFiniteSet(1..Len(item))
    BY <2>1, FS_Interval
  <2>3. QED
    BY <2>1, <2>2, FS_Subset
<1> DEFINE n == Cardinality(ids)
<1>2. n \in Nat
  BY <1>1, FS_CardinalityType
<1>3. s \in [1..n -> ids] /\ \A i, j \in 1..n : i # j => s[i] # s[j]
  BY DEF Sorted, SetToSeqs
<1> HIDE DEF n
<1>4. Len(s) = n
  BY <1>2, <1>3, SequenceOf
<1>5. \A x \in ids : \E k \in 1..n : s[k] = x
  <2>1. s \in Injection(1..n, ids)
    BY <1>3 DEF Injection, IsInjective
  <2>2. IsFiniteSet(1..n) /\ Cardinality(1..n) = n
    BY <1>2, FS_Interval
  <2>3. s \in Surjection(1..n, ids)
    BY <1>1, <2>1, <2>2, FS_Injection DEF n
  <2>4. QED
    BY <2>3 DEF Surjection
<1>6. QED
  BY <1>2, <1>3, <1>4, <1>5 DEF AllOnce, Sorted

\* An element of a sequence is out of it and in again at another place.
Reinserted(s, from, to) == InsertAt(RemoveAt(s, from), to, s[from])

LEMMA RemovedAt ==
  ASSUME NEW S, NEW s \in Seq(S), NEW from \in 1..Len(s)
  PROVE  /\ RemoveAt(s, from) \in Seq(S) /\ Len(RemoveAt(s, from)) = Len(s) - 1
         /\ \A k \in 1..(Len(s) - 1) : RemoveAt(s, from)[k] = IF k < from THEN s[k] ELSE s[k + 1]
<1>1. Len(s) \in Nat /\ from \in Nat /\ from - 1 \in Nat
  OBVIOUS
<1>2. SubSeq(s, 1, from - 1) \in Seq(S) /\ Len(SubSeq(s, 1, from - 1)) = from - 1
      /\ \A k \in 1..(from - 1) : SubSeq(s, 1, from - 1)[k] = s[k]
  OBVIOUS
<1>3. SubSeq(s, from + 1, Len(s)) \in Seq(S) /\ Len(SubSeq(s, from + 1, Len(s))) = Len(s) - from
      /\ \A k \in 1..(Len(s) - from) : SubSeq(s, from + 1, Len(s))[k] = s[from + k]
  OBVIOUS
<1> DEFINE front == SubSeq(s, 1, from - 1)
           back == SubSeq(s, from + 1, Len(s))
<1> HIDE DEF front, back
<1>4. RemoveAt(s, from) = front \o back
  BY DEF RemoveAt, front, back
<1>5. /\ front \in Seq(S) /\ Len(front) = from - 1 /\ \A k \in 1..(from - 1) : front[k] = s[k]
      /\ back \in Seq(S) /\ Len(back) = Len(s) - from /\ \A k \in 1..(Len(s) - from) : back[k] = s[from + k]
  BY <1>2, <1>3 DEF front, back
<1>6. front \o back \in Seq(S) /\ Len(front \o back) = Len(s) - 1
  BY <1>1, <1>5
<1>7. \A k \in 1..(Len(s) - 1) : (front \o back)[k] = IF k < from THEN s[k] ELSE s[k + 1]
  <2> SUFFICES ASSUME NEW k \in 1..(Len(s) - 1)
               PROVE  (front \o back)[k] = IF k < from THEN s[k] ELSE s[k + 1]
    OBVIOUS
  <2>1. (front \o back)[k] = IF k <= Len(front) THEN front[k] ELSE back[k - Len(front)]
    BY <1>1, <1>5
  <2>2. CASE k < from
    BY <1>1, <1>5, <2>1, <2>2
  <2>3. CASE ~(k < from)
    <3>1. k - Len(front) = k - from + 1 /\ k - from + 1 \in 1..(Len(s) - from) /\ ~(k <= Len(front))
      BY <1>1, <1>5, <2>3
    <3>2. from + (k - from + 1) = k + 1
      BY <1>1
    <3>3. QED
      BY <1>5, <2>1, <2>3, <3>1, <3>2
  <2>4. QED
    BY <2>2, <2>3
<1>8. QED
  BY <1>4, <1>6, <1>7

LEMMA InsertedAt ==
  ASSUME NEW S, NEW s \in Seq(S), NEW e \in S, NEW to \in 1..(Len(s) + 1)
  PROVE  /\ InsertAt(s, to, e) \in Seq(S) /\ Len(InsertAt(s, to, e)) = Len(s) + 1
         /\ \A k \in 1..(Len(s) + 1) :
              InsertAt(s, to, e)[k] = IF k < to THEN s[k] ELSE IF k = to THEN e ELSE s[k - 1]
<1>1. Len(s) \in Nat /\ to \in Nat /\ to - 1 \in Nat
  OBVIOUS
<1>2. SubSeq(s, 1, to - 1) \in Seq(S) /\ Len(SubSeq(s, 1, to - 1)) = to - 1
      /\ \A k \in 1..(to - 1) : SubSeq(s, 1, to - 1)[k] = s[k]
  OBVIOUS
<1>3. SubSeq(s, to, Len(s)) \in Seq(S) /\ Len(SubSeq(s, to, Len(s))) = Len(s) - to + 1
      /\ \A k \in 1..(Len(s) - to + 1) : SubSeq(s, to, Len(s))[k] = s[to + k - 1]
  OBVIOUS
<1> DEFINE front == SubSeq(s, 1, to - 1)
           back == SubSeq(s, to, Len(s))
           most == front \o <<e>>
<1> HIDE DEF front, back
<1>4. InsertAt(s, to, e) = most \o back
  BY DEF InsertAt, front, back
<1>5. /\ front \in Seq(S) /\ Len(front) = to - 1 /\ \A k \in 1..(to - 1) : front[k] = s[k]
      /\ back \in Seq(S) /\ Len(back) = Len(s) - to + 1
      /\ \A k \in 1..(Len(s) - to + 1) : back[k] = s[to + k - 1]
  BY <1>2, <1>3 DEF front, back
<1>6. /\ most \in Seq(S) /\ Len(most) = to /\ most[to] = e
      /\ \A k \in 1..(to - 1) : most[k] = s[k]
  BY <1>1, <1>5
<1> HIDE DEF most
<1>7. most \o back \in Seq(S) /\ Len(most \o back) = Len(s) + 1
  <2>1. most \o back \in Seq(S) /\ Len(most \o back) = Len(most) + Len(back)
    <3>1. most \in Seq(S) /\ back \in Seq(S)
      BY <1>5, <1>6
    <3>2. QED
      BY <3>1
  <2>2. to + (Len(s) - to + 1) = Len(s) + 1
    BY <1>1
  <2>3. QED
    BY <1>5, <1>6, <2>1, <2>2
<1>8. ASSUME NEW k \in 1..(Len(s) + 1)
      PROVE  (most \o back)[k] = IF k < to THEN s[k] ELSE IF k = to THEN e ELSE s[k - 1]
  <2>1. (most \o back)[k] = IF k <= Len(most) THEN most[k] ELSE back[k - Len(most)]
    BY <1>1, <1>5, <1>6
  <2>2. CASE k < to
    BY <1>1, <1>6, <2>1, <2>2
  <2>3. CASE k = to
    BY <1>1, <1>6, <2>1, <2>3
  <2>4. CASE k > to
    <3>1. k - Len(most) = k - to /\ k - to \in 1..(Len(s) - to + 1) /\ ~(k <= Len(most))
      BY <1>1, <1>6, <2>4
    <3>2. to + (k - to) - 1 = k - 1 /\ ~(k < to) /\ k # to
      BY <1>1, <2>4
    <3>3. QED
      BY <1>5, <2>1, <3>1, <3>2
  <2>5. k < to \/ k = to \/ k > to
    BY <1>1
  <2>6. QED
    BY <2>2, <2>3, <2>4, <2>5
<1>9. QED
  BY <1>4, <1>7, <1>8

\* Where what is at k was before, and where what was at k is after.
OldPlace(k, from, to) ==
  IF k = to THEN from
  ELSE IF k < to THEN IF k < from THEN k ELSE k + 1
  ELSE IF k - 1 < from THEN k - 1 ELSE k
NewPlace(k, from, to) == OldPlace(k, to, from)

LEMMA PlacesBack ==
  ASSUME NEW n \in Nat, NEW from \in 1..n, NEW to \in 1..n, NEW k \in 1..n
  PROVE  /\ OldPlace(k, from, to) \in 1..n /\ NewPlace(k, from, to) \in 1..n
         /\ OldPlace(NewPlace(k, from, to), from, to) = k
         /\ NewPlace(OldPlace(k, from, to), from, to) = k
BY DEF OldPlace, NewPlace

LEMMA ReinsertedOnce ==
  ASSUME NEW S, NEW s, AllOnce(s, S), NEW from \in 1..Len(s), NEW to \in 1..Len(s)
  PROVE  /\ AllOnce(Reinserted(s, from, to), S) /\ Len(Reinserted(s, from, to)) = Len(s)
         /\ \A k \in 1..Len(s) : Reinserted(s, from, to)[NewPlace(k, from, to)] = s[k]
<1> DEFINE n == Len(s)
           remainder == RemoveAt(s, from)
           t == Reinserted(s, from, to)
<1>1. n \in Nat /\ s \in Seq(S) /\ s[from] \in S
  <2>1. s \in [1..n -> S] /\ n \in Nat
    BY DEF AllOnce
  <2>2. QED
    BY <2>1, SequenceOf
<1>2. /\ remainder \in Seq(S) /\ Len(remainder) = n - 1
      /\ \A k \in 1..(n - 1) : remainder[k] = IF k < from THEN s[k] ELSE s[k + 1]
  BY <1>1, RemovedAt
<1> HIDE DEF remainder
<1>3. to \in 1..(Len(remainder) + 1) /\ Len(remainder) + 1 = n
  BY <1>1, <1>2
<1>4. /\ t \in Seq(S) /\ Len(t) = n
      /\ \A k \in 1..n : t[k] = IF k < to THEN remainder[k] ELSE IF k = to THEN s[from] ELSE remainder[k - 1]
  <2>1. t = InsertAt(remainder, to, s[from])
    BY DEF Reinserted, remainder
  <2> HIDE DEF t, n
  <2>2. QED
    BY <1>1, <1>2, <1>3, <2>1, InsertedAt
<1> HIDE DEF t
<1>5. ASSUME NEW k \in 1..n PROVE t[k] = s[OldPlace(k, from, to)]
  <2>1. CASE k < to
    <3>1. k \in 1..(n - 1) /\ t[k] = remainder[k] /\ k # to
      BY <1>1, <1>4, <2>1
    <3>2. QED
      BY <1>2, <2>1, <3>1 DEF OldPlace
  <2>2. CASE k = to
    BY <1>1, <1>4, <2>2 DEF OldPlace
  <2>3. CASE k > to
    <3>1. k - 1 \in 1..(n - 1) /\ t[k] = remainder[k - 1] /\ k # to /\ ~(k < to)
      BY <1>1, <1>4, <2>3
    <3>2. remainder[k - 1] = IF k - 1 < from THEN s[k - 1] ELSE s[k]
      BY <1>1, <1>2, <3>1
    <3>3. QED
      BY <3>1, <3>2 DEF OldPlace
  <2>4. QED
    BY <1>1, <2>1, <2>2, <2>3
<1>6. /\ \A k \in 1..n : OldPlace(k, from, to) \in 1..n /\ NewPlace(k, from, to) \in 1..n
      /\ \A k \in 1..n : OldPlace(NewPlace(k, from, to), from, to) = k
      /\ \A k \in 1..n : NewPlace(OldPlace(k, from, to), from, to) = k
  BY <1>1, PlacesBack
<1>7. \A k \in 1..n : t[NewPlace(k, from, to)] = s[k]
  BY <1>5, <1>6
<1>8. \A i, j \in 1..n : i # j => t[i] # t[j]
  <2>1. \A i, j \in 1..n : i # j => OldPlace(i, from, to) # OldPlace(j, from, to)
    BY <1>6
  <2>2. QED
    BY <1>5, <1>6, <2>1 DEF AllOnce
<1>9. \A x \in S : \E k \in 1..n : t[k] = x
  BY <1>6, <1>7 DEF AllOnce
<1>10. t \in [1..Len(t) -> S] /\ Len(t) \in Nat
  BY <1>1, <1>4
<1>11. QED
  BY <1>4, <1>7, <1>8, <1>9, <1>10 DEF AllOnce, t

\* A name that is found is found first at one place.
LEMMA FirstPlace ==
  ASSUME NEW S, NEW s \in Seq(S), NEW n, n \in NamedIn(s)
  PROVE  First(s, n) \in 1..Len(s) /\ item[s[First(s, n)]].name = n
<1> DEFINE T == {k \in 1..Len(s) : item[s[k]].name = n}
<1>1. T \in SUBSET Nat /\ T # {}
  BY DEF NamedIn
<1> HIDE DEF T
<1>2. Min(T) \in T
  BY <1>1, LeastNat
<1>3. First(s, n) = Min(T)
  BY DEF First, T
<1>4. QED
  BY <1>2, <1>3 DEF T

\* A move takes one item out of the order and puts it in again.
LEMMA TakenAndPut ==
  ASSUME ItemsHeld, NEW n \in ItemNames, NEW reference \in ItemNames, NEW after \in BOOLEAN,
         MoveItem(n, reference, after)
  PROVE  \E order \in CurrentOrders, from, to \in Nat, old \in Nat :
           /\ from \in 1..Len(order) /\ to \in 1..Len(order) /\ AllOnce(order, Queried)
           /\ from = First(order, n) /\ item[order[from]].name = n
           /\ old \in 1..(Len(order) - 1) /\ to = old + IF after THEN 1 ELSE 0
           /\ item[RemoveAt(order, from)[old]].name = reference
           /\ item' = Renumbered(Reinserted(order, from, to))
<1>1. PICK order \in CurrentOrders :
        /\ n \in NamedIn(order)
        /\ reference \in NamedIn(RemoveAt(order, First(order, n)))
        /\ item' = Renumbered(MovedNext(order, First(order, n), reference, after))
  BY DEF MoveItem
<1>2. AllOnce(order, Queried)
  BY <1>1, SortedOnce DEF CurrentOrders
<1>3. order \in Seq(Queried) /\ Len(order) \in Nat
  BY <1>2, SequenceOf DEF AllOnce
<1> DEFINE from == First(order, n)
           remainder == RemoveAt(order, from)
           old == First(remainder, reference)
           to == old + IF after THEN 1 ELSE 0
<1>4. from \in 1..Len(order) /\ item[order[from]].name = n
  BY <1>1, <1>3, FirstPlace
<1> HIDE DEF from
<1>5. remainder \in Seq(Queried) /\ Len(remainder) = Len(order) - 1
  BY <1>3, <1>4, RemovedAt
<1>6. reference \in NamedIn(remainder)
  BY <1>1 DEF from
<1> HIDE DEF remainder
<1>7. old \in 1..Len(remainder) /\ item[remainder[old]].name = reference
  BY <1>5, <1>6, FirstPlace
<1>8. item' = Renumbered(Reinserted(order, from, to))
  BY <1>1 DEF MovedNext, Reinserted, from, remainder
<1> HIDE DEF old
<1>9. old \in 1..(Len(order) - 1) /\ old \in Nat
  BY <1>3, <1>5, <1>7
<1>10. to \in 1..Len(order) /\ to \in Nat
  BY <1>3, <1>9
<1>11. from \in Nat
  BY <1>3, <1>4
<1>12. item[RemoveAt(order, from)[old]].name = reference
  BY <1>7 DEF remainder
<1>13. to = old + IF after THEN 1 ELSE 0
  OBVIOUS
<1> HIDE DEF to
<1>14. QED
  BY <1>1, <1>2, <1>4, <1>8, <1>9, <1>10, <1>11, <1>12, <1>13 DEF from

LEMMA MoveKeeps ==
  ASSUME ItemsHeld, NEW n \in ItemNames, NEW reference \in ItemNames, NEW after \in BOOLEAN,
         MoveItem(n, reference, after)
  PROVE  ItemsHeld'
<1>1. PICK order \in CurrentOrders, from, to \in Nat :
           /\ from \in 1..Len(order) /\ to \in 1..Len(order) /\ AllOnce(order, Queried)
           /\ item' = Renumbered(Reinserted(order, from, to))
  BY TakenAndPut
<1> DEFINE t == Reinserted(order, from, to)
<1>2. AllOnce(t, Queried)
  BY <1>1, ReinsertedOnce
<1>3. /\ nameIndex' = nameIndex /\ nextOrder' = nextOrder /\ defaults' = defaults
      /\ doubled' = doubled /\ Ask
  BY DEF MoveItem
<1>4. applied' \in 0..MaxItemRequests /\ doubled' \in BOOLEAN
  BY <1>3, AskedOnce DEF ItemsHeld, ItemsTypeOK
<1>5. item' = Renumbered(t)
  BY <1>1
<1> HIDE DEF t
<1>6. Len(t) \in Nat /\ t \in [1..Len(t) -> Queried]
  BY <1>2 DEF AllOnce
<1>7. QED
  BY <1>2, <1>3, <1>4, <1>5, <1>6, RenumberKeeps

\* What is named and then the others are all there are, each once.
LEMMA NumberedOnce ==
  ASSUME NEW ns, Len(ns) \in Nat, ns \in [1..Len(ns) -> ItemNames],
         NEW order, AllOnce(order, Queried), NEW others,
         AllOnce(others, {id \in Queried : item[id].name \notin ToSet(ns)}),
         ToSet(ns) \subseteq NamedIn(order)
  PROVE  LET t == Numbered(order, ns) \o others
         IN /\ t \in Seq(Queried)
            /\ IsInjective(ns) /\ ~HaveTwins(ns) => AllOnce(t, Queried)
<1> DEFINE lead == Numbered(order, ns)
           remainder == {id \in Queried : item[id].name \notin ToSet(ns)}
           l == Len(ns)
           o == Len(others)
           t == lead \o others
<1>1. order \in Seq(Queried)
  BY SequenceOf DEF AllOnce
<1>2. \A k \in 1..l : ns[k] \in ToSet(ns)
  BY DEF ToSet
<1>3. ASSUME NEW k \in 1..l
      PROVE  lead[k] \in Queried /\ item[lead[k]].name = ns[k]
  <2>1. ns[k] \in NamedIn(order)
    BY <1>2
  <2>2. First(order, ns[k]) \in 1..Len(order) /\ item[order[First(order, ns[k])]].name = ns[k]
    BY <1>1, <2>1, FirstPlace
  <2>3. lead[k] = order[First(order, ns[k])]
    BY DEF Numbered
  <2>4. QED
    BY <2>2, <2>3 DEF AllOnce
<1>4. lead \in Seq(Queried) /\ Len(lead) = l
  <2>1. lead = [k \in 1..l |-> lead[k]]
    BY DEF Numbered
  <2> HIDE DEF lead
  <2>2. lead \in [1..l -> Queried]
    BY <1>3, <2>1
  <2>3. QED
    BY <2>2, SequenceOf
<1>5. /\ o \in Nat /\ others \in [1..o -> remainder] /\ others \in Seq(Queried)
      /\ \A i, j \in 1..o : i # j => others[i] # others[j]
      /\ \A x \in remainder : \E k \in 1..o : others[k] = x
  <2>1. others \in [1..o -> Queried] /\ o \in Nat
    BY DEF AllOnce
  <2>2. QED
    BY <2>1, SequenceOf DEF AllOnce
<1> HIDE DEF lead
<1>6. t \in Seq(Queried) /\ Len(t) = l + o
  <2>1. Len(t) = Len(lead) + Len(others) /\ t \in Seq(Queried)
    BY <1>4, <1>5
  <2>2. QED
    BY <1>4, <2>1
<1>7. /\ \A k \in 1..l : k \in 1..Len(t) /\ t[k] = lead[k]
      /\ \A k \in 1..o : l + k \in 1..Len(t) /\ t[l + k] = others[k]
  <2>1. \A k \in 1..(l + o) : t[k] = IF k <= l THEN lead[k] ELSE others[k - l]
    BY <1>4, <1>5
  <2>2. \A k \in 1..l : k \in 1..(l + o) /\ k <= l
    BY <1>5
  <2>3. \A k \in 1..o : l + k \in 1..(l + o) /\ ~(l + k <= l) /\ (l + k) - l = k
    BY <1>5
  <2>4. \A k \in 1..l : k \in 1..Len(t) /\ t[k] = lead[k]
    BY <1>6, <2>1, <2>2
  <2>5. \A k \in 1..o : l + k \in 1..Len(t) /\ t[l + k] = others[k]
    BY <1>6, <2>1, <2>3
  <2>6. QED
    BY <2>4, <2>5
<1>8. \A k \in 1..Len(t) : k \in 1..l \/ \E j \in 1..o : k = l + j
  <2> SUFFICES ASSUME NEW k \in 1..(l + o), k \notin 1..l PROVE \E j \in 1..o : k = l + j
    BY <1>6
  <2>1. k - l \in 1..o /\ k = l + (k - l)
    BY <1>5
  <2>2. QED
    BY <2>1
<1> HIDE DEF t
<1>9. ASSUME IsInjective(ns), ~HaveTwins(ns) PROVE AllOnce(t, Queried)
  <2>1. \A i, j \in 1..l : i # j => ns[i] # ns[j]
    BY <1>9 DEF IsInjective
  <2>2. \A i, j \in 1..Len(t) : i # j => t[i] # t[j]
    <3> SUFFICES ASSUME NEW i \in 1..Len(t), NEW j \in 1..Len(t), i # j PROVE t[i] # t[j]
      OBVIOUS
    <3>1. CASE i \in 1..l /\ j \in 1..l
      BY <1>3, <1>7, <2>1, <3>1
    <3>2. ASSUME NEW a \in 1..l, NEW b \in 1..o PROVE t[a] # t[l + b]
      <4>1. item[t[a]].name = ns[a] /\ ns[a] \in ToSet(ns)
        BY <1>2, <1>3, <1>7
      <4>2. item[t[l + b]].name \notin ToSet(ns)
        BY <1>5, <1>7
      <4>3. QED
        BY <4>1, <4>2
    <3>3. ASSUME NEW a \in 1..o, NEW b \in 1..o, i = l + a, j = l + b PROVE t[i] # t[j]
      <4>1. a # b
        BY <3>3
      <4>2. QED
        BY <1>5, <1>7, <3>3, <4>1
    <3>4. QED
      BY <1>8, <3>1, <3>2, <3>3
  <2>3. \A x \in Queried : \E k \in 1..Len(t) : t[k] = x
    <3> SUFFICES ASSUME NEW x \in Queried PROVE \E k \in 1..Len(t) : t[k] = x
      OBVIOUS
    <3>1. CASE item[x].name \in ToSet(ns)
      <4>1. PICK k \in 1..l : ns[k] = item[x].name
        BY <3>1 DEF ToSet
      <4>2. lead[k] \in Queried /\ item[lead[k]].name = item[x].name
        BY <1>3, <4>1
      <4>3. lead[k] = x
        BY <1>9, <3>1, <4>2 DEF HaveTwins
      <4>4. QED
        BY <1>7, <4>3
    <3>2. CASE item[x].name \notin ToSet(ns)
      BY <1>5, <1>7, <3>2
    <3>3. QED
      BY <3>1, <3>2
  <2>4. Len(t) \in Nat /\ t \in [1..Len(t) -> Queried]
    BY <1>6
  <2>5. QED
    BY <2>2, <2>3, <2>4 DEF AllOnce
<1>10. QED
  BY <1>6, <1>9 DEF t, lead

LEMMA ReorderKeeps ==
  ASSUME ItemsHeld, NEW n \in ItemNames, NEW m \in ItemNames, Reorder(<<n, m>>) PROVE ItemsHeld'
<1> DEFINE ns == <<n, m>>
           remainder == {id \in Queried : item[id].name \notin ToSet(ns)}
<1>1. Len(ns) \in Nat /\ ns \in [1..Len(ns) -> ItemNames]
  OBVIOUS
<1> HIDE DEF ns
<1>2. /\ nameIndex' = nameIndex /\ nextOrder' = nextOrder /\ defaults' = defaults /\ Ask
      /\ doubled' = (doubled \/ ~IsInjective(ns) \/ HaveTwins(ns))
  BY DEF Reorder, ns
<1>3. PICK order \in CurrentOrders, others \in Sorted(remainder) :
        /\ ToSet(ns) \subseteq NamedIn(order)
        /\ item' = Renumbered(Numbered(order, ns) \o others)
  BY DEF Reorder, ns
<1>4. AllOnce(order, Queried) /\ AllOnce(others, remainder)
  BY <1>3, SortedOnce DEF CurrentOrders
<1> DEFINE t == Numbered(order, ns) \o others
<1>5. /\ t \in Seq(Queried)
      /\ IsInjective(ns) /\ ~HaveTwins(ns) => AllOnce(t, Queried)
  BY <1>1, <1>3, <1>4, NumberedOnce
<1>6. item' = Renumbered(t)
  BY <1>3
<1> HIDE DEF t
<1>7. Len(t) \in Nat /\ t \in [1..Len(t) -> Queried]
  BY <1>5
<1>8. applied' \in 0..MaxItemRequests /\ doubled' \in BOOLEAN
  BY <1>2, AskedOnce
<1>9. ~doubled' => ~doubled /\ AllOnce(t, Queried)
  BY <1>2, <1>5
<1>10. QED
  BY <1>2, <1>6, <1>7, <1>8, <1>9, RenumberKeeps

\* A bar some items were added to.
LEMMA ItemsStart == ItemsInit => ItemsHeld
<1> SUFFICES ASSUME ItemsInit PROVE ItemsHeld
  OBVIOUS
<1>1. PICK count \in 0..Cardinality(ItemNames), title \in SetToSeqs(ItemNames) :
       /\ item = [id \in 1..count |-> [Bundle(title[id], OnBar, id - 1) EXCEPT !.stage = "live"]]
       /\ nameIndex = [n \in ItemNames |-> IF \E id \in 1..count : title[id] = n
                                           THEN CHOOSE id \in 1..count : title[id] = n ELSE 0]
       /\ nextOrder = count
  BY DEF ItemsInit
<1>2. applied = 0 /\ defaults = Unset /\ doubled = FALSE
  BY DEF ItemsInit
<1>3. Cardinality(ItemNames) \in Nat /\ count \in Nat
  <2>1. Cardinality(ItemNames) \in Nat
    BY ItemsAssumption, FS_CardinalityType
  <2>2. QED
    BY <2>1
<1>4. \A id \in 1..count : title[id] \in ItemNames
  <2>1. title \in [1..Cardinality(ItemNames) -> ItemNames]
    BY DEF SetToSeqs
  <2>2. 1..count \subseteq 1..Cardinality(ItemNames)
    BY <1>3
  <2>3. QED
    BY <2>1, <2>2
<1>5. ASSUME NEW id \in 1..count
      PROVE  /\ item[id] \in Entity /\ item[id].stage = "live" /\ item[id].order = id - 1
             /\ item[id].name = title[id] /\ item[id].popupOf = 0 /\ item[id].said = Unset
             /\ ~item[id].needsDefaults
  <2> DEFINE b == Bundle(title[id], OnBar, id - 1)
  <2>1. <<>> \in UNION {[1..j -> Values] : j \in 0..Capacity}
    <3>1. <<>> \in [1..0 -> Values] /\ 0 \in 0..Capacity
      BY ItemsAssumption
    <3>2. QED
      BY <3>1
  <2>2. title[id] \in ItemNames /\ id - 1 \in Nat
    BY <1>3, <1>4
  <2>3. /\ b \in Entity /\ b.order = id - 1 /\ b.name = title[id] /\ b.popupOf = 0
        /\ b.said = Unset /\ b.needsDefaults = FALSE
    BY <1>2, <2>1, <2>2 DEF Bundle, Entity, Unset, Values
  <2> HIDE DEF b
  <2>4. item[id] = [b EXCEPT !.stage = "live"]
    BY <1>1 DEF b
  <2>5. QED
    BY <2>3, <2>4 DEF Entity
<1>6. item \in Seq({Gone} \cup Entity) /\ Len(item) = count /\ Ids = 1..count
  <2>1. item = [id \in 1..count |-> item[id]]
    BY <1>1
  <2>2. item \in [1..count -> {Gone} \cup Entity]
    BY <1>5, <2>1
  <2>3. QED
    BY <1>3, <2>2, SequenceOf DEF Ids
<1>7. There = 1..count /\ Queried = There
  BY <1>5, <1>6 DEF There, Queried
<1>8. \A n \in ItemNames : nameIndex[n] # 0 => nameIndex[n] \in 1..count /\ title[nameIndex[n]] = n
  <2> TAKE n \in ItemNames
  <2> SUFFICES ASSUME nameIndex[n] # 0
               PROVE  nameIndex[n] \in 1..count /\ title[nameIndex[n]] = n
    OBVIOUS
  <2>1. nameIndex[n] = IF \E id \in 1..count : title[id] = n
                       THEN CHOOSE id \in 1..count : title[id] = n ELSE 0
    BY <1>1
  <2>2. PICK id \in 1..count : title[id] = n
    BY <2>1
  <2>3. nameIndex[n] = CHOOSE k \in 1..count : title[k] = n
    BY <2>1, <2>2
  <2>4. QED
    BY <2>2, <2>3
<1>9. ItemsTypeOK
  <2>1. nameIndex \in [ItemNames -> 0..Len(item)]
    <3>1. nameIndex = [n \in ItemNames |-> nameIndex[n]]
      BY <1>1
    <3>2. \A n \in ItemNames : nameIndex[n] \in 0..Len(item)
      BY <1>3, <1>6, <1>8
    <3>3. QED
      BY <3>1, <3>2
  <2>2. \A id \in There : item[id].popupOf \in 0..Len(item)
    BY <1>3, <1>5, <1>6, <1>7
  <2>3. applied \in 0..MaxItemRequests
    BY <1>2, ItemsAssumption
  <2>4. QED
    BY <1>1, <1>2, <1>3, <1>6, <2>1, <2>2, <2>3 DEF ItemsTypeOK
<1>10. Indexed
  <2>1. \A id \in There : item[id].name = title[id] /\ item[id].stage # "going"
    BY <1>5, <1>7
  <2>2. QED
    BY <1>7, <1>8, <2>1 DEF Indexed
<1>11. OrdersStand
  <2>1. \A a \in There : item[a].order = a - 1 /\ a \in 1..count
    BY <1>5, <1>7
  <2>2. \A a, b \in There : a # b => item[a].order # item[b].order
    BY <2>1
  <2>3. \A a \in There : item[a].order < nextOrder
    <3>1. nextOrder = count
      BY <1>1
    <3>2. QED
      BY <1>3, <2>1, <3>1
  <2>4. QED
    BY <1>7, <2>2, <2>3 DEF OrdersStand
<1>12. ValuesStand
  BY <1>5, <1>7 DEF ValuesStand
<1>13. QED
  BY <1>9, <1>10, <1>11, <1>12 DEF ItemsHeld

LEMMA ItemsStep == ItemsHeld /\ [ItemsNext]_itemsVars => ItemsHeld'
<1> SUFFICES ASSUME ItemsHeld, [ItemsNext]_itemsVars PROVE ItemsHeld'
  OBVIOUS
<1>1. CASE \E n \in ItemNames : RemoveNamed(n)
  BY <1>1, RemoveKeeps
<1>2. CASE \E n \in ItemNames, position \in ItemNames \cup {OnBar} :
             AddAgain(n, position) \/ AddNew(n, position)
  BY <1>2, AddAgainKeeps, AddNewKeeps
<1>3. CASE \E n \in ItemNames, v \in Values : SetNamed(n, v) \/ PushSample(n, v)
  BY <1>3, SetKeeps
<1>4. CASE \E n \in ItemNames, reference \in ItemNames, after \in BOOLEAN :
             MoveItem(n, reference, after)
  BY <1>4, MoveKeeps
<1>5. CASE \E ns \in SUBSET ItemNames : RemoveMatching(ns)
  BY <1>5, RemoveKeeps
<1>6. CASE \E ns \in SUBSET ItemNames, v \in Values : SetMatching(ns, v)
  BY <1>6, SetKeeps
<1>7. CASE \E v \in {Unset} \cup Values : SetDefault(v)
  BY <1>7, SetDefaultKeeps
<1>8. CASE \E n, m \in ItemNames : Reorder(<<n, m>>)
  BY <1>8, ReorderKeeps
<1>9. CASE PassApplied
  BY <1>9, PassKeeps
<1>10. CASE UNCHANGED itemsVars
  <2>1. item' = item /\ nameIndex' = nameIndex /\ nextOrder' = nextOrder /\ doubled' = doubled
        /\ defaults' = defaults /\ applied' = applied
    BY <1>10 DEF itemsVars
  <2>2. There' = There /\ Queried' = Queried
    BY <2>1 DEF There, Queried, Ids
  <2>3. ItemsTypeOK' /\ Indexed'
    BY <2>1, <2>2 DEF ItemsHeld, ItemsTypeOK, Indexed
  <2>4. OrdersStand' /\ ValuesStand'
    BY <2>1, <2>2 DEF ItemsHeld, OrdersStand, ValuesStand
  <2>5. QED
    BY <2>3, <2>4 DEF ItemsHeld
<1>11. QED
  BY <1>1, <1>2, <1>3, <1>4, <1>5, <1>6, <1>7, <1>8, <1>9, <1>10 DEF ItemsNext

\* However items are added, removed, moved and reordered (requests.rs `apply`),
\* no two have the same order and the next comes after all, but for what a
\* `Reorder` names twice or has a twin, and a client's value outlives the defaults.
THEOREM OrderIsKept == ItemsSpec => []OrderAndValuesKept
<1>1. ItemsHeld => OrderAndValuesKept
  BY DEF ItemsHeld, OrdersStand, ValuesStand, OrderAndValuesKept
<1>2. QED
  BY <1>1, ItemsStart, ItemsStep, PTL DEF ItemsSpec

\* Each item of an order has its place there.
LEMMA HasItsPlace ==
  ASSUME ItemsHeld, NEW t, AllOnce(t, Queried), NEW p \in 1..Len(t)
  PROVE  Renumbered(t)[t[p]].order = p - 1
<1>1. Len(t) \in Nat /\ t \in [1..Len(t) -> Queried] /\ t[p] \in Queried /\ t[p] \in Ids
  BY DEF AllOnce, Queried, There
<1>2. PlacesOf(t[p], t) = {p}
  BY DEF AllOnce, PlacesOf
<1>3. \E k \in PlacesOf(t[p], t) : Renumbered(t)[t[p]].order = k - 1
  BY <1>1, <1>2, Renumbers
<1>4. QED
  BY <1>2, <1>3

LEMMA MovesOneNow == ItemsHeld => MovesOne
<1> SUFFICES ASSUME ItemsHeld, AllApplied, ~doubled,
                    NEW m \in There, NEW r \in There, NEW after \in BOOLEAN,
                    Called(item[m].name) = {m}, Called(item[r].name) = {r},
                    MoveItem(item[m].name, item[r].name, after)
             PROVE  /\ \A a, b \in There \ {m} : Before(item, a, b) <=> Before(item', a, b)
                    /\ IF after THEN item'[m].order = item'[r].order + 1
                       ELSE item'[m].order + 1 = item'[r].order
  BY DEF MovesOne
<1>1. Queried = There
  BY DEF AllApplied, Queried
<1>2. \A j \in There : item[j] \in Entity
  BY Entities DEF ItemsHeld, ItemsTypeOK, There, Ids
<1>3. item[m].name \in ItemNames /\ item[r].name \in ItemNames
  BY <1>2 DEF Entity
<1>4. PICK order \in CurrentOrders, from, to \in Nat, old \in Nat :
           /\ from \in 1..Len(order) /\ to \in 1..Len(order) /\ AllOnce(order, Queried)
           /\ from = First(order, item[m].name) /\ item[order[from]].name = item[m].name
           /\ old \in 1..(Len(order) - 1) /\ to = old + IF after THEN 1 ELSE 0
           /\ item[RemoveAt(order, from)[old]].name = item[r].name
           /\ item' = Renumbered(Reinserted(order, from, to))
  BY <1>3, TakenAndPut
<1> DEFINE n == Len(order)
           t == Reinserted(order, from, to)
           New(k) == NewPlace(k, from, to)
<1>5. /\ n \in Nat /\ order \in [1..n -> There] /\ order \in Seq(There)
      /\ \A x \in There : \E k \in 1..n : order[k] = x
  <2>1. order \in [1..n -> There] /\ n \in Nat /\ \A x \in There : \E k \in 1..n : order[k] = x
    BY <1>1, <1>4 DEF AllOnce
  <2>2. QED
    BY <2>1, SequenceOf
<1>6. \A i, j \in 1..n : i < j => item[order[i]].order <= item[order[j]].order
  BY SortedOnce DEF CurrentOrders
<1>7. AllOnce(t, Queried) /\ Len(t) = n /\ \A k \in 1..n : t[New(k)] = order[k]
  BY <1>4, ReinsertedOnce
<1>8. \A k \in 1..n : New(k) \in 1..n /\ item'[order[k]].order = New(k) - 1
  <2> SUFFICES ASSUME NEW k \in 1..n PROVE New(k) \in 1..n /\ item'[order[k]].order = New(k) - 1
    OBVIOUS
  <2>1. New(k) \in 1..n
    BY <1>4, <1>5, PlacesBack
  <2>2. item' = Renumbered(t)
    BY <1>4
  <2> HIDE DEF New, t, n
  <2>3. Renumbered(t)[t[New(k)]].order = New(k) - 1
    BY <1>7, <2>1, HasItsPlace
  <2>4. QED
    BY <1>7, <2>1, <2>2, <2>3
<1>9. order[from] = m
  <2>1. order[from] \in Called(item[m].name)
    BY <1>4, <1>5 DEF Called
  <2>2. QED
    BY <2>1
<1>10. PICK kr \in 1..n : /\ order[kr] = r /\ kr # from
                          /\ kr = IF old < from THEN old ELSE old + 1
  <2> DEFINE kr == IF old < from THEN old ELSE old + 1
  <2>1. kr \in 1..n /\ kr # from
    BY <1>4, <1>5
  <2>2. RemoveAt(order, from)[old] = order[kr]
    BY <1>4, <1>5, RemovedAt
  <2> HIDE DEF kr
  <2>3. order[kr] \in Called(item[r].name)
    BY <1>4, <1>5, <2>1, <2>2 DEF Called
  <2>4. order[kr] = r
    BY <2>3
  <2>5. QED
    BY <2>1, <2>4 DEF kr
<1>11. /\ New(from) = to
       /\ New(kr) = IF after THEN old ELSE old + 1
  BY <1>4, <1>5, <1>10 DEF NewPlace, OldPlace
<1>12. IF after THEN item'[m].order = item'[r].order + 1
       ELSE item'[m].order + 1 = item'[r].order
  <2>1. item'[m].order = to - 1 /\ item'[r].order = New(kr) - 1
    <3>1. item'[order[from]].order = New(from) - 1 /\ item'[order[kr]].order = New(kr) - 1
      BY <1>4, <1>8
    <3>2. QED
      BY <1>9, <1>10, <1>11, <3>1
  <2> HIDE DEF New
  <2>2. QED
    BY <1>4, <1>11, <2>1
<1>13. ASSUME NEW a \in There \ {m}, NEW b \in There \ {m}
       PROVE  Before(item, a, b) <=> Before(item', a, b)
  <2>1. PICK i \in 1..n : order[i] = a
    BY <1>5
  <2>2. PICK j \in 1..n : order[j] = b
    BY <1>5
  <2>3. i # from /\ j # from
    BY <1>9, <2>1, <2>2
  <2>4. i < j <=> New(i) < New(j)
    BY <1>4, <1>5, <2>3 DEF NewPlace, OldPlace
  <2> HIDE DEF New
  <2>5. item'[a].order = New(i) - 1 /\ item'[b].order = New(j) - 1 /\ New(i) \in Nat /\ New(j) \in Nat
    <3>1. \A k \in 1..n : New(k) \in Nat
      <4>1. \A k \in 1..n : New(k) \in 1..n
        BY <1>8
      <4>2. 1..n \subseteq Nat
        BY <1>5
      <4>3. QED
        BY <4>1, <4>2
    <3>2. item'[order[i]].order = New(i) - 1 /\ item'[order[j]].order = New(j) - 1
      BY <1>8
    <3>3. QED
      BY <2>1, <2>2, <3>1, <3>2
  <2>6. Before(item', a, b) <=> i < j
    BY <2>4, <2>5 DEF Before
  <2>7. /\ item[a].order \in Nat /\ item[b].order \in Nat
        /\ a # b => item[a].order # item[b].order
    BY <1>2 DEF Entity, ItemsHeld, OrdersStand
  <2>8. i < j => Before(item, a, b)
    <3> SUFFICES ASSUME i < j PROVE Before(item, a, b)
      OBVIOUS
    <3>1. a # b
      BY <1>4, <2>1, <2>2 DEF AllOnce
    <3>2. item[a].order <= item[b].order
      BY <1>6, <2>1, <2>2
    <3>3. QED
      BY <2>7, <3>1, <3>2 DEF Before
  <2>9. ~(i < j) => ~Before(item, a, b)
    <3> SUFFICES ASSUME ~(i < j) PROVE ~Before(item, a, b)
      OBVIOUS
    <3>1. i = j \/ j < i
      BY <1>5
    <3>2. item[b].order <= item[a].order
      BY <1>6, <2>1, <2>2, <2>7, <3>1
    <3>3. QED
      BY <2>7, <3>2 DEF Before
  <2>10. QED
    BY <2>6, <2>8, <2>9
<1>14. QED
  BY <1>12, <1>13

\* A move that is made when all is applied puts an item next to the one it names
\* and changes the order of no two others (requests.rs `MoveItem`).
THEOREM MovesRightly == ItemsSpec => MovesOnlyWhatIsMoved
BY MovesOneNow, ItemsStart, ItemsStep, PTL DEF ItemsSpec, MovesOnlyWhatIsMoved

-----------------------------------------------------------------------------
(* The composition. *)

\* Whatever the composition does is a step of each machine, or none of it.
LEMMA ScreenActs ==
  [ScreenNext]_screenVars => /\ [AliasNext]_aliasVars /\ [AliasWatchNext]_watchVars
                             /\ [PanelsNext]_panelsVars /\ [PointerNext]_pointerVars
                             /\ [GeometryNext]_sheet /\ [LayoutNext]_layoutVars
                             /\ [ItemsNext]_itemsVars /\ [ModulesNext]_modulesVars
                             /\ [ApiNext]_apiVars /\ [LuaHostNext]_luaHostVars
<1> SUFFICES ASSUME [ScreenNext]_screenVars
             PROVE  /\ [AliasNext]_aliasVars /\ [AliasWatchNext]_watchVars
                    /\ [PanelsNext]_panelsVars /\ [PointerNext]_pointerVars
                    /\ [GeometryNext]_sheet /\ [LayoutNext]_layoutVars
                    /\ [ItemsNext]_itemsVars /\ [ModulesNext]_modulesVars
                    /\ [ApiNext]_apiVars /\ [LuaHostNext]_luaHostVars
  OBVIOUS
<1>1. CASE UNCHANGED screenVars
  BY <1>1 DEF screenVars
<1>2. CASE OfAlias /\ AliasNext
  BY <1>2 DEF OfAlias
<1>3. CASE OfWatch /\ AliasWatchNext
  BY <1>3 DEF OfWatch
<1>4. CASE OfPanels /\ PanelsNext
  BY <1>4 DEF OfPanels
<1>5. CASE OfPointer /\ PointerNext
  BY <1>5 DEF OfPointer
<1>6. CASE OfGeometry /\ GeometryNext
  BY <1>6 DEF OfGeometry
<1>7. CASE OfLayout /\ LayoutNext
  BY <1>7 DEF OfLayout
<1>8. CASE OfItems /\ ItemsNext
  BY <1>8 DEF OfItems
<1>9. CASE OfModules /\ ModulesNext
  BY <1>9 DEF OfModules
<1>10. CASE OfApi /\ ApiNext
  BY <1>10 DEF OfApi
<1>11. CASE OfLuaHost /\ LuaHostNext
  BY <1>11 DEF OfLuaHost
<1>12. QED
  BY <1>1, <1>2, <1>3, <1>4, <1>5, <1>6, <1>7, <1>8, <1>9, <1>10, <1>11 DEF ScreenNext

\* What each machine keeps to, whichever of them runs.
AliasKept == AliasHeld /\ AliasRest
WatchKept == AliasInv /\ posted \subseteq Mirrored
PanelsKept == PanelsInv /\ PanelsRemain
PointerKept == MouseInv /\ ClickInv /\ PointerRest
LayKept == LayInv /\ LayRest
ModulesKept == ModulesInv /\ ModulesRest
HostKept == LuaHostInv /\ LuaHostRest
ScreenKept ==
  /\ AliasKept /\ WatchKept /\ PanelsKept /\ PointerKept /\ Sheeted /\ LayKept
  /\ ItemsHeld /\ ModulesKept /\ ApiInv /\ HostKept

LEMMA ScreenStarts == ScreenInit => ScreenKept
<1> SUFFICES ASSUME ScreenInit PROVE ScreenKept
  OBVIOUS
<1>1. AliasInit /\ AliasWatchInit /\ PanelsInit /\ PointerInit /\ GeometryInit /\ LayoutInit
      /\ ItemsInit /\ ModulesInit /\ ApiInit /\ LuaHostInit
  BY DEF ScreenInit
<1>2. AliasKept /\ WatchKept
  BY <1>1, PicturesStart, AliasRestStart, AliasStart, PostedStart DEF AliasKept, WatchKept
<1>3. PanelsKept /\ PointerKept
  BY <1>1, PanelsStart, PanelsRemainStart, MouseStart, ClickStart, PointerRestStart
     DEF PanelsKept, PointerKept
<1>4. Sheeted /\ LayKept
  BY <1>1, SheetStart, LayStarts, LayRestStart DEF LayKept
<1>5. ItemsHeld /\ ModulesKept
  BY <1>1, ItemsStart, ModulesStart, ModulesRestStart DEF ModulesKept
<1>6. ApiInv /\ HostKept
  BY <1>1, ApiStart, LuaHostStart, LuaHostRestStart DEF HostKept
<1>7. QED
  BY <1>2, <1>3, <1>4, <1>5, <1>6 DEF ScreenKept

LEMMA ScreenStays == ScreenKept /\ [ScreenNext]_screenVars => ScreenKept'
<1> SUFFICES ASSUME ScreenKept, [ScreenNext]_screenVars PROVE ScreenKept'
  OBVIOUS
<1>1. /\ [AliasNext]_aliasVars /\ [AliasWatchNext]_watchVars
      /\ [PanelsNext]_panelsVars /\ [PointerNext]_pointerVars
      /\ [GeometryNext]_sheet /\ [LayoutNext]_layoutVars
      /\ [ItemsNext]_itemsVars /\ [ModulesNext]_modulesVars
      /\ [ApiNext]_apiVars /\ [LuaHostNext]_luaHostVars
  BY ScreenActs
<1>2. AliasKept' /\ WatchKept'
  BY <1>1, PicturesStep, AliasRestStep, AliasStep, PostedStep DEF ScreenKept, AliasKept, WatchKept
<1>3. PanelsKept' /\ PointerKept'
  BY <1>1, PanelsStep, PanelsRemainStep, MouseStep, ClickStep, PointerRestStep
     DEF ScreenKept, PanelsKept, PointerKept
<1>4. Sheeted' /\ LayKept'
  BY <1>1, SheetStep, LayStays, LayRestStep DEF ScreenKept, LayKept
<1>5. ItemsHeld' /\ ModulesKept'
  BY <1>1, ItemsStep, ModulesStep, ModulesRestStep DEF ScreenKept, ModulesKept
<1>6. ApiInv' /\ HostKept'
  BY <1>1, ApiStep, LuaHostStep, LuaHostRestStep DEF ScreenKept, HostKept
<1>7. QED
  BY <1>2, <1>3, <1>4, <1>5, <1>6 DEF ScreenKept

\* Every machine of the screen keeps to its type, whichever of them runs: a
\* mirror has one window and one picture at most, a click is routed to an item that
\* there is, an item holds one area at most and a window a number among those of
\* the displays, for any items, windows, displays, places, modules and runs.
THEOREM ScreenTyped == ScreenSpec => []ScreenTypeOK
<1>1. ScreenKept => ScreenTypeOK
  BY AliasIsTyped, WatchIsTyped, PanelsIsTyped, PointerIsTyped, LayIsTyped, ModulesIsTyped, LuaHostIsTyped
     DEF ScreenKept, AliasKept, WatchKept, PanelsKept, PointerKept, LayKept, ModulesKept, HostKept,
         ItemsHeld, ScreenTypeOK
<1>2. QED
  BY <1>1, ScreenStarts, ScreenStays, PTL DEF ScreenSpec

\* The safety of each machine holds of the composition: a picture is of its
\* item's spec, an observer of what is watched, a window of its display, a click
\* of what was drawn, what is drawn in its place, the order and values of the
\* items are as they were set, and what is watched is what was loaded.
THEOREM ScreenStaysRight ==
  ScreenSpec => [](/\ PicturesBelong /\ ObservesWhatIsWatched /\ PanelsFollow
                   /\ ClickHitsWhatWasDrawn /\ MouseServesDemand /\ DrawsWhatItMeasured
                   /\ ShowsWhatIsThere /\ OrderAndValuesKept /\ WatchesWhatIsLoaded)
<1>1. ScreenKept => PicturesBelong /\ ObservesWhatIsWatched
  BY RestBelongs, QuietMatches DEF ScreenKept, AliasKept, WatchKept
<1>2. ScreenKept => PanelsFollow /\ ClickHitsWhatWasDrawn /\ MouseServesDemand
  BY RestFollows, MouseIsServed DEF ScreenKept, PanelsKept, PointerKept, ClickInv
<1>3. ScreenKept => DrawsWhatItMeasured /\ ShowsWhatIsThere
  BY SheetHolds DEF ScreenKept, LayKept, LayInv, ShowsWhatIsThere, BarRests, PopupRests, HungNow
<1>4. ScreenKept => OrderAndValuesKept /\ WatchesWhatIsLoaded
  BY DEF ScreenKept, ItemsHeld, OrdersStand, ValuesStand, OrderAndValuesKept, ModulesKept, ModulesInv
<1>5. QED
  BY <1>1, <1>2, <1>3, <1>4, ScreenStarts, ScreenStays, PTL DEF ScreenSpec

\* And no step of the composition moves what is not moved, hands out a handle of
\* an item that is not as the call said, or leaves a call of a config unanswered
\* and gives a script an event that a config handles.
THEOREM ScreenActsRight ==
  ScreenSpec => MovesOnlyWhatIsMoved /\ HandlesKeepPromises /\ LuaIsServed
<1>1. ScreenKept => MovesOne /\ NoCallStranded
  BY MovesOneNow, AttendedSuffices DEF ScreenKept, HostKept
<1>2. ScreenKept => \A v, w \in handles : v.minted /\ w.minted /\ v.name = w.name => v = w
  BY DEF ScreenKept, ApiInv
<1>3. ScreenKept /\ [ScreenNext]_screenVars =>
        [\A v \in handles' \ handles :
           /\ v.name \in DOMAIN onBar'
           /\ \A p \in Properties : Promised(v, p) # {} =>
                p \in DOMAIN onBar'[v.name] /\ onBar'[v.name][p] \in Promised(v, p)]_apiVars
  BY ScreenActs, HandlesStep DEF ScreenKept, NewHandlesHold
<1>4. ScreenKept /\ [ScreenNext]_screenVars =>
        [fired' # fired /\ forked' # NoAsk => ~\E r \in LuaRun : Handles(r, forked')]_luaHostVars
  <2> SUFFICES ASSUME ScreenKept, [ScreenNext]_screenVars, fired' # fired, forked' # NoAsk,
                      NEW r \in LuaRun
               PROVE  ~Handles(r, forked')
    OBVIOUS
  <2>1. [LuaHostNext]_luaHostVars /\ LuaHostInv
    BY ScreenActs DEF ScreenKept, HostKept
  <2>2. QED
    BY <2>1, ForkedForNobody
<1>5. QED
  BY <1>1, <1>2, <1>3, <1>4, ScreenStarts, ScreenStays, PTL
     DEF ScreenSpec, MovesOnlyWhatIsMoved, HandlesKeepPromises, LuaIsServed, NotForked
=============================================================================
