------------------------------- MODULE LuaApi -------------------------------
(* The verbs a Lua config calls (src/crates/coolabah-lua: api.rs and what it  *)
(* takes from convert.rs): how their arguments are read, which requests they  *)
(* become, in which order those are sent, and what is left when one of them   *)
(* is refused or cannot be read.  The config is one coroutine: a verb is over *)
(* before the next one begins.                                                *)
(*                                                                            *)
(* An option table is a function from keys to entries, each a value or a      *)
(* table of its own; of the many options there are here a label's text and    *)
(* colour, a width, a position, an alias and a bracket's members, a value like *)
(* the others.  A name is the text of it and, where `add` made it up, a        *)
(* number.                                                                    *)
EXTENDS Integers, Sequences, FiniteSets

CONSTANTS
  AddKinds,     \* the kinds given to `add`, which may be no kind at all
  ExplicitNames,\* the names a config writes itself
  MaxVerbs      \* bound on the verbs called
ASSUME LuaApiAssumption == MaxVerbs \in Nat

Leaf(v) == [value |-> v]
Tree(f) == [table |-> f]
IsTable(e) == DOMAIN e = {"table"}
NoOptions == [k \in {} |-> Leaf("")]

\* Values: one that can be read, and one that cannot.
Label(f) == [label |-> Tree(f)]
OptionTables ==
  {Label([color |-> Leaf("red")]),
   Label([text |-> Leaf("other"), color |-> Leaf("blue")]),
   [label |-> Leaf("text"), width |-> Leaf("wide"), alias |-> Leaf("another"),
    members |-> Leaf("others")],
   [label |-> Leaf("unreadable")], [position |-> Leaf("unreadable")]}

\* What one of the arguments after the kind may be.
Nil == [type |-> "nil"]
Name(n) == [type |-> "name", name |-> n]
Options(t) == [type |-> "table", table |-> t]
Members == [type |-> "members"]
Number == [type |-> "number"]
FlagArg == [type |-> "boolean"]
IsTableArg(a) == a.type \in {"table", "members"}

VARIABLES
  there,        \* the daemon answers
  verb,         \* the verb being carried out
  rest,         \* the requests of it that are still to be sent
  defaultOptions,     \* what `default` stored
  anonymous,    \* per kind, how many unnamed ones there were
  onBar,         \* the daemon's items
  handles,      \* what `add` returned, with what it promises
  called        \* verbs called so far, of MaxVerbs

apiVars == <<there, verb, rest, defaultOptions, anonymous, onBar, handles, called>>

NoVerb == [of |-> "none"]
NoItems == [n \in {} |-> Nil]

ApiInit ==
  /\ there = TRUE /\ verb = NoVerb /\ rest = <<>> /\ defaultOptions = NoOptions
  /\ anonymous = [k \in AddKinds |-> 0] /\ onBar = NoItems /\ handles = {} /\ called = 0

-----------------------------------------------------------------------------
\* `deep_merge`: by key, the overlay's entry, and where both sides have a table
\* the two merged. A table of an option table has values only, so that the merge
\* goes no deeper than one level.
ShallowMerge(base, overlay) ==
  [k \in DOMAIN base \cup DOMAIN overlay |->
     IF k \in DOMAIN overlay THEN overlay[k] ELSE base[k]]
Merged(mine, other) ==
  IF IsTable(mine) /\ IsTable(other) THEN Tree(ShallowMerge(mine.table, other.table)) ELSE other
DeepMerge(base, overlay) ==
  [k \in DOMAIN base \cup DOMAIN overlay |->
     IF k \in DOMAIN base \cap DOMAIN overlay THEN Merged(base[k], overlay[k])
     ELSE IF k \in DOMAIN overlay THEN overlay[k] ELSE base[k]]

Readable(t) ==
  \A k \in DOMAIN t : IF IsTable(t[k]) THEN \A j \in DOMAIN t[k].table : t[k].table[j].value # "unreadable"
                                       ELSE t[k].value # "unreadable"

\* `patch_from_table`: the properties a table writes. A label that is a string
\* is its text, and a width is the geometry's.
Mentions(t, property) ==
  CASE property = "text" -> "label" \in DOMAIN t
                              /\ (IsTable(t.label) => "text" \in DOMAIN t.label.table)
    [] property = "color" -> "label" \in DOMAIN t /\ IsTable(t.label)
                               /\ "color" \in DOMAIN t.label.table
    [] OTHER -> property \in DOMAIN t
Written(t, property) ==
  CASE property = "text" -> IF IsTable(t.label) THEN t.label.table.text.value ELSE t.label.value
    [] property = "color" -> t.label.table.color.value
    [] OTHER -> t[property].value
Properties == {"text", "color", "width", "position", "alias", "members"}
PatchOf(t) == [p \in {q \in Properties : Mentions(t, q)} |-> Written(t, p)]

\* `item_patch_at`: the table a path of keys and a value are sugar for.
PatchAt(path, value) ==
  PatchOf([k \in {path[1]} |->
             IF Len(path) = 1 THEN Leaf(value) ELSE Tree([j \in {path[2]} |-> Leaf(value)])])

-----------------------------------------------------------------------------
\* The rows of KINDS: what a kind takes between the name and the options. One
\* that is not there is read as a plain item.
ExtraOf(kind) == CASE kind = "bracket" -> "members"
                   [] kind \in {"graph", "slider"} -> "width"
                   [] OTHER -> "none"
KindRows == {"item", "alias", "bracket", "space", "graph", "slider"}
ComponentOf(kind) == IF kind \in KindRows THEN kind ELSE "item"

\* `Extra::claims`: whether an argument could be the extra one, so that the name
\* was left out.
Claims(extra, a) == CASE extra = "none" -> a.type = "nil" \/ IsTableArg(a)
                      [] extra = "members" -> IsTableArg(a)
                      [] extra = "width" -> a.type = "number"

\* `trailing_opts`: whichever of the two is a table.
Trailing(first, second) == IF IsTableArg(first) THEN first
                           ELSE IF IsTableArg(second) THEN second ELSE Nil

\* `add`'s own reading of its arguments, once it is known whether they start
\* with a name.
StartsWithName(a2) == a2.type = "name"
ExtraValue(a2, a3) == IF StartsWithName(a2) THEN a3 ELSE a2
OptionsValue(kind, a2, a3, a4) ==
  LET raw == IF StartsWithName(a2) THEN a4 ELSE a3
  IN IF ExtraOf(kind) = "none" THEN Trailing(ExtraValue(a2, a3), raw) ELSE raw
TableOf(a) == IF a.type = "table" THEN a.table ELSE NoOptions
Minted(kind) == <<kind, anonymous[kind] + 1>>

\* What is read before anything is sent.
ReadFirst(kind, a2, a3, a4) ==
  LET opts == OptionsValue(kind, a2, a3, a4)
      merged == DeepMerge(defaultOptions, TableOf(opts))
  IN /\ opts.type = "nil" \/ IsTableArg(opts)
     /\ "position" \in DOMAIN merged => merged.position.value # "unreadable"
     /\ ExtraOf(kind) = "members" => IsTableArg(ExtraValue(a2, a3))

Begins == called < MaxVerbs /\ verb = NoVerb /\ called' = called + 1

Default(t) ==
  /\ Begins /\ defaultOptions' = t
  /\ UNCHANGED <<there, verb, rest, anonymous, onBar, handles>>

\* The number is spent though the rest of the arguments cannot be read.
Spent(kind, a2) == IF StartsWithName(a2) THEN anonymous ELSE [anonymous EXCEPT ![kind] = @ + 1]

\* A list where the options belong is left out.
AddBegins(kind, a2, a3, a4) ==
  /\ Begins /\ OptionsValue(kind, a2, a3, a4).type # "members"
  /\ IF ~StartsWithName(a2) /\ ~Claims(ExtraOf(kind), a2)
       THEN UNCHANGED <<verb, anonymous>>
       ELSE /\ anonymous' = Spent(kind, a2)
            /\ IF ReadFirst(kind, a2, a3, a4)
                 THEN LET opts == TableOf(OptionsValue(kind, a2, a3, a4))
                      IN verb' = [of |-> "add", kind |-> kind, component |-> ComponentOf(kind),
                                  name |-> IF StartsWithName(a2) THEN a2.name ELSE Minted(kind),
                                  minted |-> ~StartsWithName(a2), opts |-> opts,
                                  merged |-> DeepMerge(defaultOptions, opts),
                                  number |-> ExtraValue(a2, a3).type = "number"]
                 ELSE UNCHANGED verb
  /\ UNCHANGED <<there, rest, defaultOptions, onBar, handles>>

Raise == verb' = NoVerb /\ rest' = <<>>

\* The daemon has it, whatever it had under that name kept.
Added(n) == ShallowMerge([m \in {n} |-> NoOptions], onBar)
PatchedItem(n, patch) == [onBar EXCEPT ![n] = ShallowMerge(@, patch)]

\* What is read once the item is there: its options, and the width where they
\* have none.
ReadAfter == /\ Readable(verb.merged)
             /\ ExtraOf(verb.kind) = "width" /\ "width" \notin DOMAIN verb.merged => verb.number

\* The Add is answered: with Ok, after which the rest is read; with a refusal,
\* after which a plain item is asked for instead; or not at all.
AddAnswered ==
  /\ verb.of = "add" /\ UNCHANGED <<defaultOptions, anonymous, handles, called, there>>
  /\ \/ /\ there /\ onBar' = Added(verb.name)
        /\ IF ReadAfter THEN verb' = [verb EXCEPT !.of = "set"] /\ UNCHANGED rest ELSE Raise
     \/ /\ there /\ verb.component # "item"
        /\ verb' = [verb EXCEPT !.component = "item"] /\ UNCHANGED <<onBar, rest>>
     \/ /\ Raise /\ UNCHANGED onBar

\* The options go in a Set of their own: an alias mirrors its name and a slider
\* has its width, unless the options say otherwise; a bracket's members are sent
\* again, whatever they say.
Implied(v) == CASE v.kind = "alias" -> [alias |-> "itself"]
                [] ExtraOf(v.kind) = "width" -> [width |-> "given"]
                [] OTHER -> NoOptions
Insisted(v) == IF ExtraOf(v.kind) = "members" THEN [members |-> "given"] ELSE NoOptions
PatchSent(v) == ShallowMerge(ShallowMerge(Implied(v), PatchOf(v.merged)), Insisted(v))

SetAnswered ==
  /\ verb.of = "set" /\ UNCHANGED <<defaultOptions, anonymous, called, there>>
  /\ \/ /\ there /\ verb.name \in DOMAIN onBar
        /\ onBar' = PatchedItem(verb.name, PatchSent(verb))
        /\ handles' = handles \cup {verb} /\ verb' = NoVerb /\ UNCHANGED rest
     \/ Raise /\ UNCHANGED <<onBar, handles>>

\* The other verbs build their requests first, and send none if one of them
\* cannot be read. `item:set`, and assigning to a path below an item.
Write(n, patch) ==
  /\ Begins /\ verb' = [of |-> "send"]
  /\ rest' = <<[do |-> "set", name |-> n, patch |-> patch]>>
  /\ UNCHANGED <<there, defaultOptions, anonymous, onBar, handles>>
SetTable(n, t) == Readable(t) /\ Write(n, PatchOf(t))
Assign(n, path) == Write(n, PatchAt(path, "assigned"))

RemoveNames(names) ==
  /\ Begins /\ verb' = [of |-> "send"]
  /\ rest' = [k \in 1..Len(names) |-> [do |-> "remove", name |-> names[k], patch |-> <<>>]]
  /\ UNCHANGED <<there, defaultOptions, anonymous, onBar, handles>>

\* One request after another; the first that is refused ends the verb.
Done(r) == IF r.do = "set" THEN PatchedItem(r.name, r.patch)
           ELSE [n \in DOMAIN onBar \ {r.name} |-> onBar[n]]
NextSent ==
  /\ verb.of = "send" /\ UNCHANGED <<there, defaultOptions, anonymous, handles, called>>
  /\ \/ /\ rest = <<>> /\ verb' = NoVerb /\ UNCHANGED <<onBar, rest>>
     \/ /\ rest # <<>> /\ there /\ Head(rest).name \in DOMAIN onBar
        /\ onBar' = Done(Head(rest)) /\ rest' = Tail(rest) /\ UNCHANGED verb
     \/ rest # <<>> /\ Raise /\ UNCHANGED onBar

\* Another client removes an item; the daemon goes.
Elsewhere(n) ==
  /\ n \in DOMAIN onBar /\ onBar' = [m \in DOMAIN onBar \ {n} |-> onBar[m]]
  /\ UNCHANGED <<there, verb, rest, defaultOptions, anonymous, handles, called>>
DaemonGoes ==
  /\ there /\ there' = FALSE
  /\ UNCHANGED <<verb, rest, defaultOptions, anonymous, onBar, handles, called>>

FirstArgs == {Nil, Members, Number, FlagArg} \cup {Name(<<n, 0>>) : n \in ExplicitNames}
               \cup {Options(t) : t \in OptionTables}
LaterArgs == {Nil, Members, Number} \cup {Options(t) : t \in OptionTables}

ApiNext ==
  \/ \E t \in OptionTables : Readable(t) /\ Default(t)
  \/ \E kind \in AddKinds, a2 \in FirstArgs, a3, a4 \in LaterArgs : AddBegins(kind, a2, a3, a4)
  \/ AddAnswered \/ SetAnswered \/ NextSent \/ DaemonGoes
  \/ \E n \in DOMAIN onBar : \/ Elsewhere(n) \/ \E t \in OptionTables : SetTable(n, t)
                            \/ \E path \in {<<"width">>, <<"label", "color">>} : Assign(n, path)
                            \/ \E m \in DOMAIN onBar : RemoveNames(<<n, m>>)

ApiSpec == ApiInit /\ [][ApiNext]_apiVars

-----------------------------------------------------------------------------
KeyOf(property) == IF property \in {"text", "color"} THEN "label" ELSE property

\* A default that holds: the options have nothing in its place, which a string
\* where the other side has a table would be.
Inherits(v, p) ==
  /\ Mentions(defaultOptions, p) /\ ~Mentions(v.opts, p)
  /\ KeyOf(p) \in DOMAIN v.opts => IsTable(defaultOptions[KeyOf(p)]) /\ IsTable(v.opts[KeyOf(p)])

\* What the item of a new handle has to be.
Promised(v, p) ==
  IF p = "members" /\ ExtraOf(v.kind) = "members" THEN {"given"}
  ELSE IF Mentions(v.opts, p) THEN {Written(v.opts, p)}
  ELSE IF Inherits(v, p) THEN {Written(defaultOptions, p)}
  ELSE CASE p = "alias" /\ v.kind = "alias" -> {"itself"}
         [] p = "width" /\ ExtraOf(v.kind) = "width" -> {"given"}
         [] OTHER -> {}

\* An `add` that returns a handle has made the item and given it every option
\* the call wrote, every default nothing replaced and what its kind implies, and
\* a bracket the members the call names, which no option replaces,
\* in spite of the two requests that takes and the names and arguments that may
\* be left out; and no two unnamed items of a kind share a name.
HandlesKeepPromises ==
  /\ [][\A v \in handles' \ handles :
          /\ v.name \in DOMAIN onBar'
          /\ \A p \in Properties : Promised(v, p) # {} =>
               p \in DOMAIN onBar'[v.name] /\ onBar'[v.name][p] \in Promised(v, p)]_apiVars
  /\ [](\A v, w \in handles : v.minted /\ w.minted /\ v.name = w.name => v = w)
=============================================================================
