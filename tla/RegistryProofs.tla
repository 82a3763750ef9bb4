--------------------------- MODULE RegistryProofs ---------------------------
(***************************************************************************)
(* Theorems about Registry, for any items, events and sources, whatever    *)
(* provides what: nobody is delivered to without holding a handle, and the *)
(* count `settle` goes by is the number of marked sources.                 *)
(***************************************************************************)
EXTENDS Registry, FiniteSetTheorems, TLAPS

\* Claims: what lets an item stay on a list is a handle held or one still to
\* be dropped, and none is left to be dropped once the commands are applied.
ClaimTypes ==
  /\ main \in {"starting", "parked", "applying", "updating"}
  /\ handles \in [Item -> SUBSET Kind] /\ leaving \in [Item -> SUBSET Kind]
  /\ removed \subseteq Item
  /\ dependents \in [Kind -> SUBSET Item]
  /\ moved \in BOOLEAN

DroppedByTheEnd == main # "applying" => \A i \in Item : leaving[i] = {}

ListedByHandle ==
  \A k \in Kind : \A i \in dependents[k] : k \in handles[i] \cup leaving[i]

ClaimInv == ClaimTypes /\ DroppedByTheEnd /\ ListedByHandle

-----------------------------------------------------------------------------
\* Replacing what an item holds keeps the claims' invariant while requests are
\* being applied.
LEMMA ReplaceKeepsClaims ==
  ASSUME ClaimInv, main = "applying", main' = main,
         NEW i \in Item, NEW kinds \in SUBSET Kind, Replace(i, kinds),
         removed' \subseteq Item
  PROVE  ClaimInv'
<1>1. ClaimTypes'
  BY DEF ClaimInv, ClaimTypes, Replace
<1>2. DroppedByTheEnd'
  BY DEF DroppedByTheEnd
<1>3. ListedByHandle'
  <2>1. SUFFICES ASSUME NEW k \in Kind, NEW j \in dependents'[k]
                 PROVE  k \in handles'[j] \cup leaving'[j]
    BY DEF ListedByHandle
  <2>2. j \in Item
    BY <1>1, <2>1 DEF ClaimTypes
  <2>3. CASE j = i
    <3>1. handles'[i] = kinds /\ leaving'[i] = leaving[i] \cup handles[i]
      BY DEF ClaimInv, ClaimTypes, Replace
    <3>2. k \in kinds \/ j \in dependents[k]
      BY <2>1 DEF ClaimInv, ClaimTypes, Replace
    <3>3. QED
      BY <2>3, <3>1, <3>2 DEF ClaimInv, ListedByHandle
  <2>4. CASE j # i
    <3>1. handles'[j] = handles[j] /\ leaving'[j] = leaving[j]
      BY <2>2, <2>4 DEF ClaimInv, ClaimTypes, Replace
    <3>2. j \in dependents[k]
      BY <2>1, <2>4 DEF ClaimInv, ClaimTypes, Replace
    <3>3. QED
      BY <3>1, <3>2 DEF ClaimInv, ListedByHandle
  <2>5. QED
    BY <2>3, <2>4
<1>4. QED
  BY <1>1, <1>2, <1>3 DEF ClaimInv

\* Every step keeps the claims' invariant: most leave the claims alone.
LEMMA ClaimStep == ASSUME ClaimInv, [Next]_vars PROVE ClaimInv'
<1>1. ASSUME NEW i \in Item, NEW kinds \in SUBSET Kind, Subscribe(i, kinds)
      PROVE  ClaimInv'
  BY <1>1, ReplaceKeepsClaims DEF Subscribe, ClaimInv, ClaimTypes
<1>2. ASSUME NEW i \in Item, Remove(i) PROVE ClaimInv'
  BY <1>2, ReplaceKeepsClaims DEF Remove, ClaimInv, ClaimTypes
<1>3. CASE Flush
  <2>1. ClaimTypes'
    BY <1>3 DEF Flush, ClaimInv, ClaimTypes, Died, DropForgets
  <2>2. DroppedByTheEnd'
    BY <1>3 DEF Flush, DroppedByTheEnd
  <2>3. ListedByHandle'
    <3>1. SUFFICES ASSUME NEW k \in Kind, NEW j \in dependents'[k]
                   PROVE  k \in handles'[j]
      BY DEF ListedByHandle
    <3>2. j \in dependents[k] /\ ~(j \in Item /\ k \in leaving[j])
      BY <1>3, <3>1 DEF Flush, DropForgets
    <3>3. j \in Item
      BY <3>2 DEF ClaimInv, ClaimTypes
    <3>4. QED
      BY <1>3, <3>2, <3>3 DEF Flush, ClaimInv, ListedByHandle
  <2>4. QED
    BY <2>1, <2>2, <2>3 DEF ClaimInv
<1>4. ASSUME NEW i \in Item, SweepItem(i) PROVE ClaimInv'
  <2>1. ClaimTypes'
    BY <1>4 DEF SweepItem, ClaimInv, ClaimTypes, Died
  <2>2. DroppedByTheEnd'
    BY <1>4 DEF SweepItem, ClaimInv, DroppedByTheEnd
  <2>3. ListedByHandle'
    BY <1>4 DEF SweepItem, ClaimInv, ClaimTypes, ListedByHandle
  <2>4. QED
    BY <2>1, <2>2, <2>3 DEF ClaimInv
<1>5. ASSUME UNCHANGED <<handles, leaving, removed, dependents>>,
             moved' \in BOOLEAN, main' \in {"parked", "applying", "updating"},
             main' # "applying" => main # "applying"
      PROVE  ClaimInv'
  BY <1>5 DEF ClaimInv, ClaimTypes, DroppedByTheEnd, ListedByHandle
<1>6. CASE StartEager
  BY <1>5, <1>6 DEF StartEager, claimVars, ClaimInv, ClaimTypes
<1>7. CASE BeginPass
  BY <1>5, <1>7 DEF BeginPass, claimVars, ClaimInv, ClaimTypes
<1>8. CASE SettleSources
  BY <1>5, <1>8 DEF SettleSources, ClaimInv, ClaimTypes
<1>9. ASSUME UNCHANGED <<main, claimVars>> PROVE ClaimInv'
  BY <1>9 DEF claimVars, ClaimInv, ClaimTypes, DroppedByTheEnd, ListedByHandle
<1>10. ASSUME NEW c \in Custom, NEW notification \in Bridge,
              DeclareEvent(c, notification)
       PROVE  ClaimInv'
  BY <1>9, <1>10 DEF DeclareEvent
<1>11. CASE BeginConfig
  BY <1>9, <1>11 DEF BeginConfig
<1>12. CASE EndConfig
  BY <1>9, <1>12 DEF EndConfig
<1>13. CASE AdjustRows
  BY <1>9, <1>13 DEF AdjustRows
<1>14. CASE UNCHANGED vars
  BY <1>9, <1>14 DEF vars
<1>15. QED
  BY <1>1, <1>2, <1>3, <1>4, <1>6, <1>7, <1>8, <1>10, <1>11, <1>12, <1>13, <1>14
     DEF Next, Request

\* At the start only the bar holds anything, and is listed for it.
LEMMA ClaimStart == Init => ClaimInv
BY RegistryAssumption DEF Init, ClaimInv, ClaimTypes, DroppedByTheEnd, ListedByHandle

\* Letting go stops delivery (`Drop for Watch`): whoever is on the list of a
\* claim once the commands are applied holds a handle on it.
THEOREM OnlyHolders == Spec => []OnlyHoldersReceive
<1>1. Init => ClaimInv
  BY ClaimStart
<1>2. ClaimInv => OnlyHoldersReceive
  BY DEF ClaimInv, ClaimTypes, DroppedByTheEnd, ListedByHandle, OnlyHoldersReceive
<1>3. ClaimInv /\ [Next]_vars => ClaimInv'
  BY ClaimStep
<1>4. QED
  BY <1>1, <1>2, <1>3, PTL DEF Spec

-----------------------------------------------------------------------------
\* Sources: their types, and that the count and the marks agree.  The count's
\* own type, the finitely many sources, follows from StaleCounts.
SourceTypes ==
  /\ events \in [Custom -> {"none", "Wanted", "Stale"}]
  /\ named \in [Custom -> Bridge] /\ rows \in [Custom -> Bridge]
  /\ adjusting \in BOOLEAN
  /\ provides \in [Source -> SUBSET Kind]
  /\ src \in [Source -> Registered]

SourceInv == SourceTypes /\ StaleCounts

Marked == {s \in Source : src[s].liveness = "Stale"}

\* Reconciling one source keeps its record one, and marks only what is up.
LEMMA ReconciledSound ==
  ASSUME NEW r \in Registered, r.liveness = "Stale" => r.up,
         NEW demand \in SUBSET Kind, NEW ok \in BOOLEAN
  PROVE  /\ Reconciled(r, demand, ok) \in Registered
         /\ Reconciled(r, demand, ok).liveness = "Stale" => Reconciled(r, demand, ok).up
<1>1. CASE demand = {}
  BY <1>1 DEF Reconciled, Evicted, Registered
<1>2. CASE demand # {}
  <2> DEFINE revived == [r EXCEPT !.liveness = "Wanted"]
  <2>1. revived \in Registered /\ revived.liveness = "Wanted"
    BY DEF Registered
  <2>2. /\ Register(revived, demand, ok) \in Registered
        /\ Register(revived, demand, ok).liveness = "Wanted"
    BY <2>1 DEF Register, Registered
  <2>3. Reconciled(r, demand, ok) \in {revived, Register(revived, demand, ok)}
    BY <1>2 DEF Reconciled
  <2>4. QED
    BY <2>1, <2>2, <2>3
<1>3. QED
  BY <1>1, <1>2

\* A number of marked sources, some more and some fewer: the sets and the count
\* that goes with them.
LEMMA CountMoves ==
  ASSUME NEW S, IsFiniteSet(S),
         NEW M \in SUBSET S, NEW A \in SUBSET S, NEW U \in SUBSET S,
         A \cap M = {}, U \subseteq M
  PROVE  Cardinality((M \ U) \cup A) = Cardinality(M) + Cardinality(A) - Cardinality(U)
<1>1. IsFiniteSet(M) /\ IsFiniteSet(A) /\ IsFiniteSet(U)
  BY FS_Subset
<1>2. M \cap U = U /\ (M \ U) \cap A = {}
  OBVIOUS
<1>3. IsFiniteSet(M \ U) /\ Cardinality(M \ U) = Cardinality(M) - Cardinality(U)
  BY <1>1, <1>2, FS_Difference
<1>4. Cardinality((M \ U) \cup A) = Cardinality(M \ U) + Cardinality(A) - Cardinality({})
  BY <1>1, <1>2, <1>3, FS_Union
<1>5. Cardinality({}) = 0
  BY FS_EmptySet
<1>6. Cardinality(M) \in Nat /\ Cardinality(A) \in Nat /\ Cardinality(U) \in Nat
  BY <1>1, FS_CardinalityType
<1>7. QED
  BY <1>3, <1>4, <1>5, <1>6

\* What becomes of the rows is rows.
LEMMA RowsType ==
  ASSUME SourceTypes, NEW before, NEW after, NEW bridges \in [Custom -> Bridge],
         Rows(before, after, bridges)
  PROVE  rows' \in [Custom -> Bridge] /\ adjusting' \in BOOLEAN
BY DEF SourceTypes, Rows, NoRows, InstalledOver, Bridge

\* Reconciling any set of sources keeps the count and the marks in step.
LEMMA ReconcileCounts ==
  ASSUME SourceInv, NEW set \in SUBSET Source,
         NEW provided \in [Source -> SUBSET Kind],
         NEW bridges \in [Custom -> Bridge],
         Reconcile(set, provided, bridges)
  PROVE  /\ src' \in [Source -> Registered] /\ StaleCounts'
         /\ rows' \in [Custom -> Bridge] /\ adjusting' \in BOOLEAN
<1> DEFINE A == {s \in set : Marks(src[s], src'[s])}
           U == {s \in set : Unmarks(src[s], src'[s])}
<1>1. PICK ok \in SUBSET (set \ {Notifications}) :
        /\ src' = [s \in Source |->
                     IF s \in set
                     THEN Reconciled(src[s], Demand(s, provided), s \in ok \cup {Notifications})
                     ELSE src[s]]
        /\ stale' = stale + Cardinality({s \in set : Marks(src[s], src'[s])})
                          - Cardinality({s \in set : Unmarks(src[s], src'[s])})
        /\ Rows(src[Notifications], src'[Notifications], bridges)
  BY DEF Reconcile
<1>2. \A s \in Source : /\ src'[s] \in Registered
                        /\ src'[s].liveness = "Stale" => src'[s].up
                        /\ s \notin set => src'[s] = src[s]
  <2>1. TAKE s \in Source
  <2>2. src[s] \in Registered /\ (src[s].liveness = "Stale" => src[s].up)
    BY DEF SourceInv, SourceTypes, StaleCounts
  <2>3. Demand(s, provided) \in SUBSET Kind
    BY DEF Demand
  <2>4. CASE s \in set
    <3>1. (s \in ok \cup {Notifications}) \in BOOLEAN
      OBVIOUS
    <3>2. src'[s] = Reconciled(src[s], Demand(s, provided), s \in ok \cup {Notifications})
      BY <1>1, <2>4
    <3>3. QED
      BY <2>2, <2>3, <2>4, <3>1, <3>2, ReconciledSound
  <2>5. CASE s \notin set
    BY <1>1, <2>2, <2>5
  <2>6. QED
    BY <2>4, <2>5
<1>3. src' \in [Source -> Registered]
  <2>1. src' = [s \in Source |-> src'[s]]
    BY <1>1
  <2>2. QED
    BY <1>2, <2>1
<1>4. Marked' = (Marked \ U) \cup A /\ A \cap Marked = {} /\ U \subseteq Marked
  <2>1. \A s \in Source : /\ src[s].liveness \in {"Wanted", "Stale"}
                          /\ src'[s].liveness \in {"Wanted", "Stale"}
    BY <1>2 DEF SourceInv, SourceTypes, Registered
  <2>2. QED
    BY <1>2, <2>1 DEF Marked, Marks, Unmarks
<1>5. stale' = Cardinality(Marked')
  <2>1. Cardinality(Marked') = Cardinality(Marked) + Cardinality(A) - Cardinality(U)
    <3>1. Marked \in SUBSET Source /\ A \in SUBSET Source /\ U \in SUBSET Source
      BY DEF Marked
    <3>2. QED
      BY <1>4, <3>1, CountMoves, RegistryAssumption
  <2>2. stale = Cardinality(Marked)
    BY DEF SourceInv, StaleCounts, Marked
  <2>3. QED
    BY <1>1, <2>1, <2>2
<1>6. StaleCounts'
  BY <1>2, <1>5 DEF StaleCounts, Marked
<1>7. rows' \in [Custom -> Bridge] /\ adjusting' \in BOOLEAN
  BY <1>1, RowsType DEF SourceInv
<1>8. QED
  BY <1>3, <1>6, <1>7

\* Publishing anew what is declared keeps it too.
LEMMA RepublishCounts ==
  ASSUME SourceInv, NEW bridges \in [Custom -> Bridge], Republish(bridges)
  PROVE  /\ provides' \in [Source -> SUBSET Kind]
         /\ src' \in [Source -> Registered] /\ StaleCounts'
         /\ rows' \in [Custom -> Bridge] /\ adjusting' \in BOOLEAN
<1>1. provides' \in [Source -> SUBSET Kind]
  <2>1. Fixed[Notifications] \cup Bridged(bridges) \in SUBSET Kind
    BY RegistryAssumption DEF Bridged
  <2>2. QED
    BY <2>1 DEF Republish, SourceInv, SourceTypes
<1>2. {Notifications} \in SUBSET Source
  BY RegistryAssumption
<1>3. Reconcile({Notifications}, provides', bridges)
  BY DEF Republish
<1>4. QED
  BY <1>1, <1>2, <1>3, ReconcileCounts

\* Every step keeps the sources' invariant.
LEMMA SourceStep == ASSUME SourceInv, [Next]_vars PROVE SourceInv'
<1>1. CASE StartEager
  <2>1. Pinned \in SUBSET Source
    BY RegistryAssumption
  <2>2. QED
    BY <1>1, <2>1, ReconcileCounts DEF StartEager, declVars, SourceInv, SourceTypes
<1>2. CASE SettleSources
  <2>1. CASE Settled
    BY <1>2, <2>1 DEF SettleSources, declVars, sourceVars, SourceInv, SourceTypes, StaleCounts
  <2>2. CASE ~Settled
    BY <1>2, <2>2, ReconcileCounts DEF SettleSources, declVars, SourceInv, SourceTypes
  <2>3. QED
    BY <2>1, <2>2
<1>3. ASSUME NEW c \in Custom, NEW notification \in Bridge,
             DeclareEvent(c, notification)
      PROVE  SourceInv'
  <2>1. /\ events' \in [Custom -> {"none", "Wanted", "Stale"}]
        /\ named' \in [Custom -> Bridge]
    BY <1>3 DEF DeclareEvent, SourceInv, SourceTypes
  <2>2. QED
    BY <1>3, <2>1, RepublishCounts DEF DeclareEvent, SourceInv, SourceTypes
<1>4. CASE EndConfig
  <2>1. /\ events' \in [Custom -> {"none", "Wanted", "Stale"}]
        /\ named' \in [Custom -> Bridge]
    BY <1>4 DEF EndConfig, SourceInv, SourceTypes, Bridge
  <2>2. QED
    BY <1>4, <2>1, RepublishCounts DEF EndConfig, SourceInv, SourceTypes
<1>5. CASE BeginConfig
  BY <1>5 DEF BeginConfig, sourceVars, SourceInv, SourceTypes, StaleCounts
<1>6. CASE AdjustRows
  BY <1>6 DEF AdjustRows, declVars, SourceInv, SourceTypes, StaleCounts,
              InstalledOver, Retained, Bridge
<1>7. ASSUME UNCHANGED <<declVars, sourceVars>> PROVE SourceInv'
  BY <1>7 DEF declVars, sourceVars, SourceInv, SourceTypes, StaleCounts
<1>8. CASE BeginPass
  BY <1>7, <1>8 DEF BeginPass
<1>9. CASE Flush
  BY <1>7, <1>9 DEF Flush
<1>10. ASSUME NEW i \in Item, NEW kinds \in SUBSET Kind, Subscribe(i, kinds)
       PROVE  SourceInv'
  BY <1>7, <1>10 DEF Subscribe
<1>11. ASSUME NEW i \in Item, Remove(i) \/ SweepItem(i) PROVE SourceInv'
  BY <1>7, <1>11 DEF Remove, SweepItem
<1>12. CASE UNCHANGED vars
  BY <1>7, <1>12 DEF vars
<1>13. QED
  BY <1>1, <1>2, <1>3, <1>4, <1>5, <1>6, <1>8, <1>9, <1>10, <1>11, <1>12
     DEF Next, Request

\* Nothing is registered and nothing marked when the daemon starts.
LEMMA SourceStart == Init => SourceInv
<1>1. SUFFICES ASSUME Init PROVE SourceInv
  OBVIOUS
<1>2. SourceTypes
  BY <1>1, RegistryAssumption DEF Init, SourceTypes, Registered, NoRows, Bridge
<1>3. \A s \in Source : src[s].liveness = "Wanted"
  BY <1>1 DEF Init
<1>4. {s \in Source : src[s].liveness = "Stale"} = {}
  BY <1>3
<1>5. stale = 0
  BY <1>1 DEF Init
<1>6. QED
  BY <1>2, <1>3, <1>4, <1>5, FS_EmptySet DEF SourceInv, StaleCounts

\* The count by which `settle` decides that there is nothing to do is right: a
\* saturating subtraction never hides a mark, and a mark is never left on a
\* source that is down.
THEOREM StaleCounted == Spec => []StaleCounts
<1>1. SourceInv => StaleCounts
  BY DEF SourceInv
<1>2. SourceInv /\ [Next]_vars => SourceInv'
  BY SourceStep
<1>3. QED
  BY <1>1, <1>2, SourceStart, PTL DEF Spec

\* Every variable of the registry keeps its type; the count's, no more marks
\* than sources, is StaleCounts over a finite set.
THEOREM TypeCorrect == Spec => []TypeOK
<1>1. ClaimInv /\ SourceInv => TypeOK
  <2>1. SUFFICES ASSUME ClaimInv, SourceInv PROVE TypeOK
    OBVIOUS
  <2>2. /\ {s \in Source : src[s].liveness = "Stale"} \in SUBSET Source
        /\ IsFiniteSet(Source)
    BY RegistryAssumption
  <2>3. stale \in 0 .. Cardinality(Source)
    BY <2>1, <2>2, FS_Subset, FS_CardinalityType DEF SourceInv, StaleCounts
  <2>4. QED
    BY <2>1, <2>3 DEF ClaimInv, ClaimTypes, SourceInv, SourceTypes, TypeOK
<1>2. Init => ClaimInv /\ SourceInv
  BY ClaimStart, SourceStart
<1>3. (ClaimInv /\ SourceInv) /\ [Next]_vars => (ClaimInv /\ SourceInv)'
  BY ClaimStep, SourceStep
<1>4. QED
  BY <1>1, <1>2, <1>3, PTL DEF Spec

-----------------------------------------------------------------------------
\* What is wanted is served.  The cache of what a source provides is right; a
\* source that is down serves nothing; once the sources were first reconciled,
\* a demand that is not met shows in `moved`; a source that is not marked, and
\* any source between passes, serves nothing it does not provide; and the rows
\* are what is served, unless their task is still to be polled.
ProvidesRight == \A s \in Source : provides[s] = Provided(s)

NothingWhenDown ==
  \A s \in Source : /\ ~src[s].up => src[s].serving = {}
                    /\ src[s].failed => ~src[s].up

UnclaimedAtStart == (main = "starting" /\ ~moved) => Claimed = {}

Serves(s) ==
  (WantedOf(s) # {} /\ ~src[s].failed) => src[s].up /\ src[s].serving = WantedOf(s)

DemandMet == (main # "starting" /\ ~moved) => \A s \in Source : Serves(s)

NamedServed ==
  (src[Notifications].liveness = "Wanted" \/ main \in {"starting", "parked"}) =>
    src[Notifications].serving \subseteq Provided(Notifications)

RowsServed == ~adjusting => Bridged(rows) = src[Notifications].serving \cap Custom

ServingInv == /\ ProvidesRight /\ NothingWhenDown /\ UnclaimedAtStart
              /\ DemandMet /\ NamedServed /\ RowsServed

\* Reconciling one source: down it serves nothing, a demand is met or refused,
\* and what it goes on serving is the demand or, when nothing demands it, what
\* it served, with a fresh mark.
LEMMA ReconciledServes ==
  ASSUME NEW r \in Registered, r.liveness = "Stale" => r.up,
         ~r.up => r.serving = {}, r.failed => ~r.up,
         NEW demand \in SUBSET Kind, NEW ok \in BOOLEAN
  PROVE  LET after == Reconciled(r, demand, ok) IN
         /\ ~after.up => after.serving = {}
         /\ after.failed => ~after.up
         /\ (demand # {} /\ ~after.failed) => after.up /\ after.serving = demand
         /\ (after.up /\ ~r.up) => after.serving = demand
         /\ \/ after.serving \subseteq demand
            \/ r.liveness = "Wanted" /\ after.liveness = "Stale" /\ after.serving = r.serving
<1> DEFINE after == Reconciled(r, demand, ok)
<1>1. CASE demand = {}
  BY <1>1 DEF Reconciled, Evicted, Registered
<1>2. CASE demand # {}
  <2> DEFINE revived == [r EXCEPT !.liveness = "Wanted"]
  <2>1. /\ revived \in Registered
        /\ revived.up = r.up /\ revived.serving = r.serving /\ revived.failed = r.failed
    BY DEF Registered
  <2>2. CASE (r.up /\ r.serving = demand) \/ r.failed
    <3>1. after = revived
      BY <1>2, <2>2 DEF Reconciled
    <3>2. QED
      BY <1>2, <2>1, <2>2, <3>1
  <2>3. CASE ~((r.up /\ r.serving = demand) \/ r.failed)
    <3>1. after = Register(revived, demand, ok)
      BY <1>2, <2>3 DEF Reconciled
    <3>2. /\ ok => after.up /\ after.serving = demand /\ ~after.failed
          /\ ~ok => ~after.up /\ after.failed /\ after.serving = {}
      BY <2>1, <2>3, <3>1 DEF Register, Registered
    <3>3. QED
      BY <1>2, <3>2
  <2>4. QED
    BY <2>2, <2>3
<1>3. QED
  BY <1>1, <1>2

\* Reconciling a set of sources meets their demand, leaves the others, and
\* keeps what is down serving nothing.
LEMMA ReconcileServes ==
  ASSUME SourceInv, NothingWhenDown, NEW set \in SUBSET Source,
         NEW provided \in [Source -> SUBSET Kind],
         NEW bridges \in [Custom -> Bridge],
         Reconcile(set, provided, bridges)
  PROVE  /\ NothingWhenDown'
         /\ \A s \in Source \ set : src'[s] = src[s]
         /\ \A s \in set :
              /\ (Demand(s, provided) # {} /\ ~src'[s].failed) =>
                    src'[s].up /\ src'[s].serving = Demand(s, provided)
              /\ (src'[s].up /\ ~src[s].up) => src'[s].serving = Demand(s, provided)
              /\ \/ src'[s].serving \subseteq Demand(s, provided)
                 \/ /\ src[s].liveness = "Wanted" /\ src'[s].liveness = "Stale"
                    /\ src'[s].serving = src[s].serving
<1>1. PICK ok \in SUBSET (set \ {Notifications}) :
        src' = [s \in Source |->
                  IF s \in set
                  THEN Reconciled(src[s], Demand(s, provided), s \in ok \cup {Notifications})
                  ELSE src[s]]
  BY DEF Reconcile
<1>2. \A s \in Source \ set : src'[s] = src[s]
  BY <1>1
<1>3. ASSUME NEW s \in set
      PROVE  /\ ~src'[s].up => src'[s].serving = {}
             /\ src'[s].failed => ~src'[s].up
             /\ (Demand(s, provided) # {} /\ ~src'[s].failed) =>
                    src'[s].up /\ src'[s].serving = Demand(s, provided)
             /\ (src'[s].up /\ ~src[s].up) => src'[s].serving = Demand(s, provided)
             /\ \/ src'[s].serving \subseteq Demand(s, provided)
                \/ /\ src[s].liveness = "Wanted" /\ src'[s].liveness = "Stale"
                   /\ src'[s].serving = src[s].serving
  <2>1. /\ src[s] \in Registered /\ (src[s].liveness = "Stale" => src[s].up)
        /\ (~src[s].up => src[s].serving = {}) /\ (src[s].failed => ~src[s].up)
    BY DEF SourceInv, SourceTypes, StaleCounts, NothingWhenDown
  <2>2. Demand(s, provided) \in SUBSET Kind
    BY DEF Demand
  <2>3. PICK taken \in BOOLEAN : src'[s] = Reconciled(src[s], Demand(s, provided), taken)
    <3>1. (s \in ok \cup {Notifications}) \in BOOLEAN
      OBVIOUS
    <3>2. src'[s] = Reconciled(src[s], Demand(s, provided), s \in ok \cup {Notifications})
      BY <1>1
    <3>3. QED
      BY <3>1, <3>2
  <2>4. QED
    BY <2>1, <2>2, <2>3, ReconciledServes
<1>4. NothingWhenDown'
  BY <1>2, <1>3 DEF NothingWhenDown
<1>5. QED
  BY <1>2, <1>3, <1>4

\* The rows stay what is served through a registration that, if it is a fresh
\* one, serves nothing that is not bridged.
LEMMA RowsKeep ==
  ASSUME SourceInv, RowsServed, NEW bridges \in [Custom -> Bridge],
         src'[Notifications].up => src'[Notifications].serving \in SUBSET Kind,
         ~src'[Notifications].up => src'[Notifications].serving = {},
         (src'[Notifications].up /\ ~src[Notifications].up) =>
            src'[Notifications].serving \subseteq Fixed[Notifications] \cup Bridged(bridges),
         Rows(src[Notifications], src'[Notifications], bridges)
  PROVE  RowsServed'
<1>1. CASE ~src'[Notifications].up
  <2>1. rows' = NoRows
    BY <1>1 DEF Rows
  <2>2. Bridged(rows') = {}
    BY <2>1 DEF Bridged, NoRows
  <2>3. QED
    BY <1>1, <2>2 DEF RowsServed
<1>2. CASE src'[Notifications].up /\ ~src[Notifications].up
  <2> DEFINE after == src'[Notifications].serving
  <2>1. rows' = [c \in Custom |-> IF c \in after /\ NoRows[c] = Unbridged
                                  THEN bridges[c] ELSE NoRows[c]]
    BY <1>2 DEF Rows, InstalledOver
  <2>2. \A c \in Custom : rows'[c] # Unbridged <=> (c \in after /\ bridges[c] # Unbridged)
    BY <2>1 DEF NoRows
  <2>3. \A c \in Custom : c \in after => bridges[c] # Unbridged
    BY <1>2, RegistryAssumption DEF Bridged
  <2>4. Bridged(rows') = after \cap Custom
    BY <2>2, <2>3 DEF Bridged
  <2>5. QED
    BY <2>4 DEF RowsServed
<1>3. CASE src'[Notifications].up /\ src[Notifications].up
  BY <1>3 DEF Rows, RowsServed, Bridged
<1>4. QED
  BY <1>1, <1>2, <1>3

\* Publishing anew what is declared meets the demand of the notifications
\* source there and then, and leaves every other source and every claim.
LEMMA RepublishServes ==
  ASSUME ClaimInv, SourceInv, ServingInv, named' \in [Custom -> Bridge], Republish(named'),
         UNCHANGED <<main, claimVars>>, main = "applying"
  PROVE  ServingInv'
<1> DEFINE N == Notifications
           now == Fixed[N] \cup Bridged(named')
<1>1. /\ provides' = [provides EXCEPT ![N] = now]
      /\ Reconcile({N}, provides', named')
  BY DEF Republish
<1>2. N \in Source /\ {N} \in SUBSET Source
  BY RegistryAssumption
<1>3. provides' \in [Source -> SUBSET Kind] /\ src' \in [Source -> Registered]
  BY RepublishCounts
<1>4. ProvidesRight'
  BY <1>1, <1>2 DEF ServingInv, ProvidesRight, Provided, SourceInv, SourceTypes
<1>5. provides'[N] = now /\ now = Provided(N)'
  BY <1>1, <1>2 DEF SourceInv, SourceTypes, Provided
<1>6. Claimed' = Claimed
  BY DEF Claimed, Alive, claimVars
<1>7. Demand(N, provides') = WantedOf(N)' /\ Demand(N, provides') \subseteq now
  BY <1>5, <1>6 DEF Demand, WantedOf
<1>8. /\ NothingWhenDown'
      /\ \A s \in Source \ {N} : src'[s] = src[s]
      /\ (Demand(N, provides') # {} /\ ~src'[N].failed) =>
            src'[N].up /\ src'[N].serving = Demand(N, provides')
      /\ (src'[N].up /\ ~src[N].up) => src'[N].serving = Demand(N, provides')
      /\ \/ src'[N].serving \subseteq Demand(N, provides')
         \/ /\ src[N].liveness = "Wanted" /\ src'[N].liveness = "Stale"
            /\ src'[N].serving = src[N].serving
  <2>1. NothingWhenDown
    BY DEF ServingInv
  <2>2. Reconcile({N}, provides', named')
    BY <1>1
  <2>3. QED
    BY <1>2, <1>3, <2>1, <2>2, ReconcileServes
<1>9. UnclaimedAtStart'
  BY DEF UnclaimedAtStart
<1>10. DemandMet'
  <2>1. ASSUME ~moved', NEW s \in Source PROVE Serves(s)'
    <3>1. CASE s = N
      BY <1>7, <1>8, <3>1 DEF Serves
    <3>2. CASE s # N
      <4>1. WantedOf(s)' = WantedOf(s)
        BY <1>6, <3>2 DEF WantedOf, Provided
      <4>2. Serves(s)
        BY <2>1 DEF ServingInv, DemandMet, claimVars
      <4>3. QED
        BY <1>8, <3>2, <4>1, <4>2 DEF Serves
    <3>3. QED
      BY <3>1, <3>2
  <2>2. QED
    BY <2>1 DEF DemandMet
<1>11. NamedServed'
  BY <1>5, <1>7, <1>8 DEF NamedServed
<1>12. RowsServed'
  <2>1. Rows(src[N], src'[N], named')
    BY <1>1 DEF Reconcile
  <2>2. src'[N].serving \in SUBSET Kind
    BY <1>2, <1>3 DEF Registered
  <2>3. ~src'[N].up => src'[N].serving = {}
    BY <1>2, <1>8 DEF NothingWhenDown
  <2>4. (src'[N].up /\ ~src[N].up) => src'[N].serving \subseteq now
    BY <1>7, <1>8
  <2>5. QED
    BY <2>1, <2>2, <2>3, <2>4, RowsKeep DEF ServingInv
<1>13. QED
  BY <1>4, <1>8, <1>9, <1>10, <1>11, <1>12 DEF ServingInv

\* What leaves the sources and the declarations alone keeps it, if a change in
\* what is claimed shows.
LEMMA ClaimsServe ==
  ASSUME ServingInv, UNCHANGED <<declVars, sourceVars>>,
         main # "starting", main' # "starting", main' = "parked" => main = "parked",
         ~moved' => ~moved /\ Claimed' = Claimed
  PROVE  ServingInv'
<1>1. \A s \in Source : Provided(s)' = Provided(s)
  BY DEF Provided, Bridged, declVars
<1>2. DemandMet'
  <2>1. ASSUME ~moved', NEW s \in Source PROVE Serves(s)'
    <3>1. Serves(s)
      BY <2>1 DEF ServingInv, DemandMet
    <3>2. WantedOf(s)' = WantedOf(s)
      BY <1>1, <2>1 DEF WantedOf
    <3>3. QED
      BY <3>1, <3>2 DEF Serves, sourceVars
  <2>2. QED
    BY <2>1 DEF DemandMet
<1>3. ProvidesRight'
  BY <1>1 DEF ServingInv, ProvidesRight, declVars
<1>4. NamedServed'
  BY <1>1, RegistryAssumption DEF ServingInv, NamedServed, sourceVars
<1>5. NothingWhenDown' /\ RowsServed' /\ UnclaimedAtStart'
  BY DEF ServingInv, NothingWhenDown, RowsServed, UnclaimedAtStart, sourceVars, Bridged
<1>6. QED
  BY <1>2, <1>3, <1>4, <1>5 DEF ServingInv

\* Replacing what an item wants claims nothing new unseen, and lets nothing go
\* before the commands are applied.
LEMMA ReplaceClaims ==
  ASSUME ClaimInv, NEW i \in Item, NEW kinds \in SUBSET Kind, Replace(i, kinds), ~moved'
  PROVE  ~moved /\ Claimed' = Claimed
<1>1. ~moved /\ \A k \in kinds : Alive(k)
  BY DEF Replace, ClaimInv, ClaimTypes
<1>2. ASSUME NEW k \in Kind PROVE Alive(k)' <=> Alive(k)
  <2>1. \A j \in Item : j # i => /\ handles'[j] = handles[j] /\ leaving'[j] = leaving[j]
    BY DEF Replace, ClaimInv, ClaimTypes
  <2>2. handles'[i] = kinds /\ leaving'[i] = leaving[i] \cup handles[i]
    BY DEF Replace, ClaimInv, ClaimTypes
  <2>3. Alive(k)' => Alive(k)
    <3>1. SUFFICES ASSUME NEW j \in Item, k \in handles'[j] \cup leaving'[j] PROVE Alive(k)
      BY DEF Alive
    <3>2. CASE j = i
      BY <1>1, <2>2, <3>1, <3>2 DEF Alive
    <3>3. CASE j # i
      BY <2>1, <3>1, <3>3 DEF Alive
    <3>4. QED
      BY <3>2, <3>3
  <2>4. Alive(k) => Alive(k)'
    <3>1. SUFFICES ASSUME NEW j \in Item, k \in handles[j] \cup leaving[j] PROVE Alive(k)'
      BY DEF Alive
    <3>2. k \in handles'[j] \cup leaving'[j]
      BY <2>1, <2>2, <3>1
    <3>3. QED
      BY <3>2 DEF Alive
  <2>5. QED
    BY <2>3, <2>4
<1>3. QED
  BY <1>1, <1>2 DEF Claimed

\* A claim that dies shows, as the commands are applied and as an item is swept.
LEMMA DroppingClaims ==
  ASSUME ClaimInv, Flush \/ \E i \in Item : SweepItem(i), ~moved'
  PROVE  ~moved /\ Claimed' = Claimed
<1>1. CASE Flush
  <2>1. ~moved /\ {k \in Kind : Alive(k) /\ \A i \in Item : k \notin handles[i]} = {}
    BY <1>1 DEF Flush, Died, ClaimInv, ClaimTypes
  <2>2. /\ handles' = handles /\ leaving' = [i \in Item |-> {}]
    BY <1>1 DEF Flush
  <2>3. \A k \in Kind : Alive(k)' <=> \E i \in Item : k \in handles[i]
    BY <2>2 DEF Alive
  <2>4. \A k \in Kind : Alive(k) <=> \E i \in Item : k \in handles[i]
    BY <2>1 DEF Alive
  <2>5. QED
    BY <2>1, <2>3, <2>4 DEF Claimed
<1>2. ASSUME NEW i \in Item, SweepItem(i) PROVE ~moved /\ Claimed' = Claimed
  <2>1. ~moved /\ {k \in handles[i] : \A j \in Item \ {i} : k \notin handles[j]} = {}
    BY <1>2 DEF SweepItem, Died, ClaimInv, ClaimTypes
  <2>2. /\ \A j \in Item : handles'[j] = IF j = i THEN {} ELSE handles[j]
        /\ \A j \in Item : leaving[j] = {} /\ leaving'[j] = {}
    BY <1>2 DEF SweepItem, ClaimInv, ClaimTypes, DroppedByTheEnd
  <2>3. \A k \in Kind : Alive(k) <=> \E j \in Item : k \in handles[j]
    BY <2>2 DEF Alive
  <2>4. \A k \in Kind : Alive(k)' <=> \E j \in Item \ {i} : k \in handles[j]
    BY <2>2 DEF Alive
  <2>5. \A k \in Kind : (\E j \in Item : k \in handles[j])
                         <=> \E j \in Item \ {i} : k \in handles[j]
    BY <2>1
  <2>6. QED
    BY <2>1, <2>3, <2>4, <2>5 DEF Claimed
<1>3. QED
  BY <1>1, <1>2

\* Reconciling at the end of a pass, or before the first, meets every demand.
LEMMA SettlingServes ==
  ASSUME SourceInv, ServingInv, NEW set \in SUBSET Source,
         Reconcile(set, provides, named), UNCHANGED <<declVars, handles, leaving>>,
         main' = "parked",
         \/ main = "updating" /\ set = Source
         \/ main = "starting" /\ set = Pinned /\ moved' = moved
  PROVE  ServingInv'
<1> DEFINE N == Notifications
<1>1. N \in Source /\ provides \in [Source -> SUBSET Kind] /\ named \in [Custom -> Bridge]
  BY RegistryAssumption DEF SourceInv, SourceTypes
<1>2. src' \in [Source -> Registered]
  BY <1>1, ReconcileCounts
<1>3. \A s \in Source : provides[s] = Provided(s) /\ Provided(s)' = Provided(s)
  BY DEF ServingInv, ProvidesRight, Provided, Bridged, declVars
<1>4. Claimed' = Claimed
  BY DEF Claimed, Alive
<1>5. \A s \in Source : Demand(s, provides) = WantedOf(s)' /\ WantedOf(s) = WantedOf(s)'
  BY <1>3, <1>4 DEF Demand, WantedOf
<1>6. /\ NothingWhenDown'
      /\ \A s \in Source \ set : src'[s] = src[s]
      /\ \A s \in set :
           /\ (Demand(s, provides) # {} /\ ~src'[s].failed) =>
                 src'[s].up /\ src'[s].serving = Demand(s, provides)
           /\ (src'[s].up /\ ~src[s].up) => src'[s].serving = Demand(s, provides)
           /\ \/ src'[s].serving \subseteq Demand(s, provides)
              \/ /\ src[s].liveness = "Wanted" /\ src'[s].liveness = "Stale"
                 /\ src'[s].serving = src[s].serving
  <2>1. NothingWhenDown
    BY DEF ServingInv
  <2>2. QED
    BY <1>1, <2>1, ReconcileServes
<1>7. \A s \in Source : Demand(s, provides) \subseteq Provided(s)
  BY <1>3 DEF Demand
<1>8. DemandMet'
  <2>1. ASSUME ~moved', NEW s \in Source PROVE Serves(s)'
    <3>1. CASE s \in set
      BY <1>5, <1>6, <3>1 DEF Serves
    <3>2. CASE s \notin set
      <4>1. s \notin Pinned /\ Claimed = {}
        BY <2>1, <3>2 DEF ServingInv, UnclaimedAtStart
      <4>2. WantedOf(s)' = {}
        BY <1>4, <4>1 DEF WantedOf
      <4>3. QED
        BY <4>2 DEF Serves
    <3>3. QED
      BY <3>1, <3>2
  <2>2. QED
    BY <2>1 DEF DemandMet
<1>9. src'[N].serving \subseteq Provided(N)'
  <2>1. CASE N \in set
    <3>1. CASE src'[N].serving \subseteq Demand(N, provides)
      BY <1>1, <1>3, <1>7, <3>1
    <3>2. CASE src[N].liveness = "Wanted" /\ src'[N].serving = src[N].serving
      <4>1. src[N].serving \subseteq Provided(N)
        BY <3>2 DEF ServingInv, NamedServed
      <4>2. QED
        BY <1>1, <1>3, <3>2, <4>1
    <3>3. QED
      BY <1>6, <2>1, <3>1, <3>2
  <2>2. CASE N \notin set
    <3>1. main = "starting"
      BY <1>1, <2>2
    <3>2. src[N].serving \subseteq Provided(N)
      BY <3>1 DEF ServingInv, NamedServed
    <3>3. QED
      BY <1>1, <1>3, <1>6, <2>2, <3>2
  <2>3. QED
    BY <2>1, <2>2
<1>10. NamedServed'
  BY <1>9 DEF NamedServed
<1>11. RowsServed'
  <2>1. Rows(src[N], src'[N], named)
    BY DEF Reconcile
  <2>2. src'[N].serving \in SUBSET Kind
    BY <1>1, <1>2 DEF Registered
  <2>3. ~src'[N].up => src'[N].serving = {}
    BY <1>1, <1>6 DEF NothingWhenDown
  <2>4. src'[N].serving \subseteq Fixed[N] \cup Bridged(named)
    BY <1>1, <1>3, <1>9 DEF Provided
  <2>5. QED
    BY <1>1, <2>1, <2>2, <2>3, <2>4, RowsKeep DEF ServingInv
<1>12. ProvidesRight' /\ UnclaimedAtStart'
  BY <1>3 DEF ProvidesRight, UnclaimedAtStart, declVars
<1>13. QED
  BY <1>6, <1>8, <1>10, <1>11, <1>12 DEF ServingInv

\* When no mark is out, no source is marked.
LEMMA NoMarks == ASSUME SourceInv, stale = 0, NEW s \in Source PROVE src[s].liveness = "Wanted"
<1>1. Marked \in SUBSET Source /\ IsFiniteSet(Source)
  BY RegistryAssumption DEF Marked
<1>2. IsFiniteSet(Marked) /\ Cardinality(Marked) = 0
  BY <1>1, FS_Subset DEF SourceInv, StaleCounts, Marked
<1>3. Marked = {}
  BY <1>2, FS_EmptySet
<1>4. QED
  BY <1>3 DEF Marked, SourceInv, SourceTypes, Registered

\* The rows' task, polled between passes, brings the rows to what is served.
LEMMA AdjustingServes == ASSUME SourceInv, ServingInv, AdjustRows PROVE ServingInv'
<1> DEFINE wanted == src[Notifications].serving
<1>1. /\ \A c \in Custom : rows'[c] = IF c \in wanted /\ Retained(wanted)[c] = Unbridged
                                      THEN named[c] ELSE Retained(wanted)[c]
      /\ \A c \in Custom : Retained(wanted)[c] = IF c \in wanted THEN rows[c] ELSE Unbridged
  BY DEF AdjustRows, InstalledOver, Retained
<1>2. \A c \in Custom : c \in wanted => named[c] # Unbridged
  <2>1. wanted \subseteq Fixed[Notifications] \cup Bridged(named)
    BY RegistryAssumption DEF AdjustRows, ServingInv, NamedServed, Provided
  <2>2. QED
    BY <2>1, RegistryAssumption DEF Bridged
<1>3. \A c \in Custom : rows'[c] # Unbridged <=> c \in wanted
  BY <1>1, <1>2
<1>4. RowsServed'
  BY <1>3 DEF RowsServed, Bridged, AdjustRows
<1>5. Claimed' = Claimed /\ \A s \in Source : Provided(s)' = Provided(s)
  BY DEF AdjustRows, claimVars, declVars, Claimed, Alive, Provided, Bridged
<1>6. \A s \in Source : WantedOf(s)' = WantedOf(s)
  BY <1>5 DEF WantedOf
<1>7. DemandMet'
  BY <1>6 DEF AdjustRows, claimVars, ServingInv, DemandMet, Serves
<1>8. ProvidesRight' /\ NothingWhenDown' /\ UnclaimedAtStart'
  BY <1>5 DEF AdjustRows, claimVars, declVars, ServingInv, ProvidesRight, NothingWhenDown,
              UnclaimedAtStart
<1>9. NamedServed'
  BY <1>5, RegistryAssumption DEF AdjustRows, ServingInv, NamedServed
<1>10. QED
  BY <1>4, <1>7, <1>8, <1>9 DEF ServingInv

\* Every step keeps what is wanted served.
LEMMA ServingStep == ASSUME ClaimInv, SourceInv, ServingInv, [Next]_vars PROVE ServingInv'
<1>1. CASE StartEager
  <2>1. Pinned \in SUBSET Source
    BY RegistryAssumption
  <2>2. QED
    BY <1>1, <2>1, SettlingServes DEF StartEager, claimVars
<1>2. CASE SettleSources
  <2>1. CASE Settled
    <3>1. src[Notifications].liveness = "Wanted"
      BY <2>1, NoMarks, RegistryAssumption DEF Settled
    <3>2. Claimed' = Claimed /\ \A s \in Source : Provided(s)' = Provided(s)
      BY <1>2 DEF SettleSources, declVars, Claimed, Alive, Provided, Bridged
    <3>3. \A s \in Source : WantedOf(s)' = WantedOf(s)
      BY <3>2 DEF WantedOf
    <3>4. DemandMet'
      BY <1>2, <2>1, <3>3 DEF SettleSources, Settled, sourceVars, ServingInv, DemandMet, Serves
    <3>5. NamedServed'
      BY <1>2, <2>1, <3>1, <3>2, RegistryAssumption
         DEF SettleSources, sourceVars, ServingInv, NamedServed
    <3>6. ProvidesRight' /\ NothingWhenDown' /\ RowsServed'
      BY <1>2, <2>1, <3>2 DEF SettleSources, declVars, sourceVars, ServingInv, ProvidesRight,
                              NothingWhenDown, RowsServed, Bridged
    <3>7. UnclaimedAtStart'
      BY <1>2 DEF SettleSources, UnclaimedAtStart
    <3>8. QED
      BY <3>4, <3>5, <3>6, <3>7 DEF ServingInv
  <2>2. CASE ~Settled
    BY <1>2, <2>2, SettlingServes DEF SettleSources
  <2>3. QED
    BY <2>1, <2>2
<1>3. ASSUME NEW c \in Custom, NEW notification \in Bridge,
             DeclareEvent(c, notification)
      PROVE  ServingInv'
  <2>1. named' \in [Custom -> Bridge]
    BY <1>3 DEF DeclareEvent, SourceInv, SourceTypes
  <2>2. QED
    BY <1>3, <2>1, RepublishServes DEF DeclareEvent
<1>4. CASE EndConfig
  <2>1. named' \in [Custom -> Bridge]
    BY <1>4 DEF EndConfig, SourceInv, SourceTypes, Bridge
  <2>2. QED
    BY <1>4, <2>1, RepublishServes DEF EndConfig
<1>5. CASE AdjustRows
  BY <1>5, AdjustingServes
<1>6. ASSUME NEW i \in Item, NEW kinds \in SUBSET Kind, Subscribe(i, kinds)
      PROVE  ServingInv'
  BY <1>6, ReplaceClaims, ClaimsServe DEF Subscribe
<1>7. ASSUME NEW i \in Item, Remove(i) PROVE ServingInv'
  BY <1>7, ReplaceClaims, ClaimsServe DEF Remove
<1>8. CASE Flush
  BY <1>8, DroppingClaims, ClaimsServe DEF Flush
<1>9. ASSUME NEW i \in Item, SweepItem(i) PROVE ServingInv'
  BY <1>9, DroppingClaims, ClaimsServe DEF SweepItem
<1>10. CASE BeginPass
  <2>1. Claimed' = Claimed /\ moved' = moved
    BY <1>10 DEF BeginPass, claimVars, Claimed, Alive
  <2>2. QED
    BY <1>10, <2>1, ClaimsServe DEF BeginPass
<1>11. CASE BeginConfig
  <2>1. /\ Claimed' = Claimed /\ \A s \in Source : Provided(s)' = Provided(s)
        /\ \A s \in Source : WantedOf(s)' = WantedOf(s)
    BY <1>11 DEF BeginConfig, claimVars, Claimed, Alive, Provided, Bridged, WantedOf
  <2>2. DemandMet'
    BY <1>11, <2>1 DEF BeginConfig, claimVars, sourceVars, ServingInv, DemandMet, Serves
  <2>3. NamedServed'
    BY <1>11, <2>1, RegistryAssumption DEF BeginConfig, sourceVars, ServingInv, NamedServed
  <2>4. QED
    BY <1>11, <2>1, <2>2, <2>3
       DEF BeginConfig, claimVars, sourceVars, ServingInv, ProvidesRight, NothingWhenDown,
           RowsServed, UnclaimedAtStart, Bridged
<1>12. CASE UNCHANGED vars
  BY <1>12 DEF vars, claimVars, declVars, sourceVars, ServingInv, ProvidesRight, Provided,
               NothingWhenDown, UnclaimedAtStart, Claimed, Alive, DemandMet, Serves, WantedOf,
               NamedServed, RowsServed, Bridged
<1>13. QED
  BY <1>1, <1>2, <1>3, <1>4, <1>5, <1>6, <1>7, <1>8, <1>9, <1>10, <1>11, <1>12
     DEF Next, Request

\* Nothing is served at the start, and what may be claimed by then shows.
LEMMA ServingStart == Init => ServingInv
<1>1. SUFFICES ASSUME Init PROVE ServingInv
  OBVIOUS
<1>2. Bridged(NoRows) = {}
  BY DEF Bridged, NoRows
<1>3. ProvidesRight
  BY <1>1, <1>2 DEF Init, ProvidesRight, Provided
<1>4. UnclaimedAtStart
  BY <1>1 DEF Init, UnclaimedAtStart, Claimed, Alive
<1>5. NothingWhenDown /\ DemandMet /\ NamedServed /\ RowsServed
  BY <1>1, <1>2, RegistryAssumption
     DEF Init, NothingWhenDown, DemandMet, NamedServed, RowsServed
<1>6. QED
  BY <1>3, <1>4, <1>5 DEF ServingInv

\* Between passes every source that anything wants serves exactly what is
\* wanted of it, however claims and declarations came and went (`settle`,
\* `republish`), and what the notifications source serves is what it observes.
THEOREM DemandServed == Spec => []ServesDemand
<1>1. ServingInv => ServesDemand
  BY DEF ServingInv, DemandMet, Serves, RowsServed, ServesDemand, AtRest
<1>2. Init => ClaimInv /\ SourceInv /\ ServingInv
  BY ClaimStart, SourceStart, ServingStart
<1>3. (ClaimInv /\ SourceInv /\ ServingInv) /\ [Next]_vars
        => (ClaimInv /\ SourceInv /\ ServingInv)'
  BY ClaimStep, SourceStep, ServingStep
<1>4. QED
  BY <1>1, <1>2, <1>3, PTL DEF Spec
=============================================================================
