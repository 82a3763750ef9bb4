-------------------------------- MODULE Items --------------------------------
(***************************************************************************)
(* The requests that change items, apart from a config's bracket of them     *)
(* (Reload) and from what they claim (Registry): adding, removing, setting,  *)
(* moving and reordering, the defaults new items start from, hanging them in  *)
(* a popup, and the samples of a graph (requests.rs `apply`).                 *)
(*                                                                         *)
(* A pass takes all the requests there are, then applies the commands they   *)
(* queued: until then an item that was added is in the index and in no query, *)
(* and one that was removed the other way round; then the defaults are given  *)
(* to the new ones.  Of what a `Set` patches one field stands for all.  A     *)
(* request that is refused (`no_such`) changes nothing and is no step.        *)
(***************************************************************************)
EXTENDS Naturals, Sequences, FiniteSets, SequencesExt, FiniteSetsExt

CONSTANTS
  ItemNames,
  Graphs,          \* those that are added as graphs
  OnBar,           \* the position of what is in no popup
  Capacity,        \* samples a graph keeps
  MaxItemRequests  \* bound: requests in a behaviour

ASSUME ItemsAssumption ==
  /\ IsFiniteSet(ItemNames) /\ Graphs \subseteq ItemNames /\ OnBar \notin ItemNames
  /\ Capacity \in Nat /\ MaxItemRequests \in Nat

VARIABLES
  applied,     \* requests so far
  item,      \* the entities there ever were
  nameIndex, \* `Index::names`, 0 where there is none
  nextOrder, \* `Index::next_order`
  defaults,  \* `Defaults`, Unset when the patch is empty
  doubled    \* ghost: a `Reorder` named an item twice, or one of two of a name

itemsVars == <<applied, item, nameIndex, nextOrder, defaults, doubled>>

Unset == 0
Values == 1..2

\* A new item: `bundle`, with Unset for the value it comes with. `said` is a
\* ghost, the value a client set.
Bundle(n, position, order) ==
  [name |-> n, stage |-> "fresh", order |-> order, position |-> position, popupOf |-> 0,
   value |-> Unset, needsDefaults |-> defaults # Unset, said |-> Unset, samples |-> <<>>]
Gone == [stage |-> "gone"]

Ids == DOMAIN item
There == {id \in Ids : item[id].stage # "gone"}
\* What a query finds: the spawns of this batch are not applied, nor the despawns.
Queried == {id \in There : item[id].stage \in {"live", "going"}}
Entity == [name: ItemNames, stage: {"fresh", "live", "going"}, order: Nat,
           position: ItemNames \cup {OnBar}, popupOf: Nat, value: {Unset} \cup Values,
           needsDefaults: BOOLEAN, said: {Unset} \cup Values,
           samples: UNION {[1..n -> Values] : n \in 0..Capacity}]

ItemsTypeOK ==
  /\ applied \in 0..MaxItemRequests
  /\ item \in Seq({Gone} \cup Entity)
  /\ \A id \in There : item[id].popupOf \in 0..Len(item)
  /\ nameIndex \in [ItemNames -> 0..Len(item)] /\ nextOrder \in Nat
  /\ defaults \in {Unset} \cup Values /\ doubled \in BOOLEAN

\* A bar some items were added to, by one client after another.
ItemsInit ==
  /\ applied = 0 /\ defaults = Unset /\ doubled = FALSE
  /\ \E count \in 0..Cardinality(ItemNames), names \in SetToSeqs(ItemNames) :
       /\ item = [id \in 1..count |-> [Bundle(names[id], OnBar, id - 1) EXCEPT !.stage = "live"]]
       /\ nameIndex = [n \in ItemNames |-> IF \E id \in 1..count : names[id] = n
                                           THEN CHOOSE id \in 1..count : names[id] = n ELSE 0]
       /\ nextOrder = count

Ask == applied < MaxItemRequests /\ applied' = applied + 1

\* `host_of`: an item that names a host that is not there stays where it hung.
Hang(e, position) ==
  IF position = OnBar THEN [e EXCEPT !.popupOf = 0]
  ELSE IF nameIndex'[position] # 0 THEN [e EXCEPT !.popupOf = nameIndex'[position]]
  ELSE e

\* `Index::next_order`, and what it hands out next.
NextByCount == Cardinality({n \in ItemNames : nameIndex'[n] # 0})
NextOrder == nextOrder + 1

\* `Add` of a name there is: it moves if it is a plain item, whose host is
\* found again; the others keep theirs. What a query does not find only hangs.
AddAgain(n, position) ==
  /\ Ask /\ nameIndex[n] # 0
  /\ UNCHANGED <<nameIndex, nextOrder, defaults, doubled>>
  /\ LET id == nameIndex[n]
         moved == IF id \in Queried THEN [item[id] EXCEPT !.position = position] ELSE item[id]
     IN item' = [item EXCEPT ![id] = IF n \in Graphs THEN moved ELSE Hang(moved, position)]

\* `Add` of a new one, to be given the defaults if there are any.
AddNew(n, position) ==
  /\ Ask /\ nameIndex[n] = 0
  /\ nameIndex' = [nameIndex EXCEPT ![n] = Len(item) + 1]
  /\ nextOrder' = NextOrder
  /\ item' = Append(item, Hang(Bundle(n, position, nextOrder), position))
  /\ UNCHANGED <<defaults, doubled>>

\* `set_item`, for a change that is one.
Patched(e, v) == [e EXCEPT !.value = v]
SetItem(id, v) ==
  item' = [item EXCEPT ![id] = IF id \in Queried THEN [Patched(@, v) EXCEPT !.said = v] ELSE @]

\* `Set` by name finds an item in the index and then in the query.
SetNamed(n, v) ==
  /\ Ask /\ nameIndex[n] \in Queried
  /\ SetItem(nameIndex[n], v)
  /\ UNCHANGED <<nameIndex, nextOrder, defaults, doubled>>

\* `Set` by a pattern asks the query alone.
Matching(ns) == {id \in Queried : item[id].name \in ns}
SetMatching(ns, v) ==
  /\ Ask
  /\ item' = [id \in Ids |-> IF id \in Matching(ns) THEN [Patched(item[id], v) EXCEPT !.said = v]
                             ELSE item[id]]
  /\ UNCHANGED <<nameIndex, nextOrder, defaults, doubled>>

\* `Remove`, by name from the index, by a pattern from the query.
Despawned(ids) == [id \in Ids |-> IF id \in ids THEN [item[id] EXCEPT !.stage = "going"] ELSE item[id]]
RemoveNamed(n) ==
  /\ Ask /\ nameIndex[n] # 0
  /\ nameIndex' = [nameIndex EXCEPT ![n] = 0]
  /\ item' = IF item[nameIndex[n]].stage = "fresh" THEN [item EXCEPT ![nameIndex[n]] = Gone]
             ELSE Despawned({nameIndex[n]})
  /\ UNCHANGED <<nextOrder, defaults, doubled>>
RemoveMatching(ns) ==
  /\ Ask
  /\ nameIndex' = [n \in ItemNames |-> IF \E id \in Matching(ns) : item[id].name = n THEN 0
                                       ELSE nameIndex[n]]
  /\ item' = Despawned(Matching(ns))
  /\ UNCHANGED <<nextOrder, defaults, doubled>>

SetDefault(v) ==
  /\ Ask /\ defaults' = v
  /\ UNCHANGED <<item, nameIndex, nextOrder, doubled>>

(***************************************************************************)
(* The order.                                                              *)
(***************************************************************************)
\* `current_order`, an unstable sort of what the query finds, and `renumber`.
Sorted(ids) == {s \in SetToSeqs(ids) :
                  \A i, j \in 1..Len(s) : i < j => item[s[i]].order <= item[s[j]].order}
CurrentOrders == Sorted(Queried)
PlacesOf(id, order) == {k \in 1..Len(order) : order[k] = id}
Renumbered(order) ==
  [id \in Ids |-> IF PlacesOf(id, order) = {} THEN item[id]
                  ELSE [item[id] EXCEPT !.order = Max(PlacesOf(id, order)) - 1]]

First(order, n) == Min({k \in 1..Len(order) : item[order[k]].name = n})
NamedIn(order) == {item[order[k]].name : k \in 1..Len(order)}

\* Where an item goes once it is out of the order it was in.
MovedWithinOld(order, from, reference, after) ==
  InsertAt(RemoveAt(order, from), First(order, reference) + IF after THEN 1 ELSE 0, order[from])
MovedNext(order, from, reference, after) ==
  InsertAt(RemoveAt(order, from),
           First(RemoveAt(order, from), reference) + IF after THEN 1 ELSE 0, order[from])

MoveItem(n, reference, after) ==
  /\ Ask
  /\ \E order \in CurrentOrders :
       /\ n \in NamedIn(order)
       /\ reference \in NamedIn(RemoveAt(order, First(order, n)))
       /\ item' = Renumbered(MovedNext(order, First(order, n), reference, after))
  /\ UNCHANGED <<nameIndex, nextOrder, defaults, doubled>>

HaveTwins(ns) == \E a, b \in Queried : /\ a # b /\ item[a].name = item[b].name
                                       /\ item[a].name \in ToSet(ns)

\* What is named first, then the others in the order they are in. Of two items
\* of a name one is found, and the other is neither.
Numbered(order, ns) == [k \in 1..Len(ns) |-> order[First(order, ns[k])]]
Reorder(ns) ==
  /\ Ask
  /\ \E order \in CurrentOrders,
        others \in Sorted({id \in Queried : item[id].name \notin ToSet(ns)}) :
       /\ ToSet(ns) \subseteq NamedIn(order)
       /\ item' = Renumbered(Numbered(order, ns) \o others)
  /\ doubled' = (doubled \/ ~IsInjective(ns) \/ HaveTwins(ns))
  /\ UNCHANGED <<nameIndex, nextOrder, defaults>>

\* Mutant: the oldest sample stays too.
SampledUntrimmed(s, v) == IF s # <<>> /\ Last(s) = v THEN s ELSE Append(s, v)
\* `push`, which a graph takes that is in the query.
Sampled(s, v) == IF s # <<>> /\ Last(s) = v THEN s
                 ELSE IF Len(s) = Capacity THEN Append(Tail(s), v) ELSE Append(s, v)
PushSample(n, v) ==
  /\ Ask /\ n \in Graphs /\ nameIndex[n] \in Queried /\ Capacity > 0
  /\ item' = [item EXCEPT ![nameIndex[n]].samples = Sampled(@, v)]
  /\ UNCHANGED <<nameIndex, nextOrder, defaults, doubled>>

\* The commands of the pass are applied, then `apply_defaults` runs.
Defaulted(e) == IF e.needsDefaults /\ defaults # Unset THEN Patched(e, defaults) ELSE e
Marked(e) == Defaulted(e)
Unmarked(e) == [Defaulted(e) EXCEPT !.needsDefaults = FALSE]
PassApplied ==
  /\ \E id \in There : item[id].stage # "live" \/ item[id].needsDefaults
  /\ item' = [id \in Ids |-> IF item[id].stage \in {"gone", "going"} THEN Gone
                             ELSE Unmarked([item[id] EXCEPT !.stage = "live"])]
  /\ UNCHANGED <<applied, nameIndex, nextOrder, defaults, doubled>>

ItemsNext ==
  \/ \E n \in ItemNames :
       \/ RemoveNamed(n)
       \/ \E position \in ItemNames \cup {OnBar} : AddAgain(n, position) \/ AddNew(n, position)
       \/ \E v \in Values : SetNamed(n, v) \/ PushSample(n, v)
       \/ \E reference \in ItemNames, after \in BOOLEAN : MoveItem(n, reference, after)
  \/ \E ns \in SUBSET ItemNames : RemoveMatching(ns) \/ \E v \in Values : SetMatching(ns, v)
  \/ \E v \in {Unset} \cup Values : SetDefault(v)
  \/ \E n, m \in ItemNames : Reorder(<<n, m>>)
  \/ PassApplied

ItemsSpec == ItemsInit /\ [][ItemsNext]_itemsVars

-----------------------------------------------------------------------------
AllApplied == \A id \in There : item[id].stage = "live"

\* However items are added, removed, moved and reordered, no two share a place
\* in the order and the next one added sorts after all of them, unless a
\* `Reorder` named one twice or named one of two items of a name (a pattern that
\* is removed unnames an item that was added since the pass began); and a value a
\* client set is not undone by the defaults the item was to start from.
OrderAndValuesKept ==
  /\ ~doubled => \A a, b \in There :
       (a # b => item[a].order # item[b].order) /\ item[a].order < nextOrder
  /\ \A id \in There : item[id].said # Unset => item[id].value = item[id].said

\* A move puts an item next to the one it names and changes the order of no
\* two others.
Before(e, a, b) == e[a].order < e[b].order
Reordered == \E id \in There \cap DOMAIN item' :
               item'[id].stage = "live" /\ item'[id].order # item[id].order
Called(n) == {id \in There : item[id].name = n}
MovesOne ==
  AllApplied /\ ~doubled /\ Reordered =>
    \A m, r \in There, after \in BOOLEAN :
      /\ Called(item[m].name) = {m} /\ Called(item[r].name) = {r}
      /\ MoveItem(item[m].name, item[r].name, after)
      => /\ \A a, b \in There \ {m} : Before(item, a, b) <=> Before(item', a, b)
         /\ IF after THEN item'[m].order = item'[r].order + 1
            ELSE item'[m].order + 1 = item'[r].order
MovesOnlyWhatIsMoved == [][MovesOne]_itemsVars
=============================================================================
