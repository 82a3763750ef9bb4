------------------------------ MODULE Patches -------------------------------
(* What a config writes of an item, from key=value pairs to the values the   *)
(* item ends up with (protocol/src/patch.rs and lib.rs, the reader, the fold *)
(* and the comparison that protocol-macros/src/changes.rs generates, and     *)
(* cli/args.rs, which hands them the pairs of a command).                    *)
(* A key is a path; a patch is a function from the fields it names, each a   *)
(* path too, to what it says of them. One field stands for all of its kind.  *)
EXTENDS Naturals, Sequences, FiniteSetsExt

CONSTANTS WrittenValues, \* what a config gives a key
          MaxPairs       \* pairs in one command

ASSUME PatchesAssumption == MaxPairs \in Nat

VARIABLES pairs,   \* what the command says, in its order
          values,  \* what the item holds
          outcome  \* of the command: writing, refused or applied
patchesVars == <<pairs, values, outcome>>

Text == <<"label", "text">>
Tint == <<"label", "color">>
Shown == <<"label", "drawing">>
Back == <<"background", "color">>
Script == <<"script">>
AliasField == <<"alias">>
Width == <<"width">>
Position == <<"position">>
Members == <<"members">>

PatchFields == {Text, Tint, Shown, Back, Script, AliasField, Width, Position, Members}

\* By how a field's change is compared with what it holds.
Switches == {Shown}
Clearable == {Script, AliasField}
Colours == {Tint, Back}

\* The field a key names: a colour's also by its British spelling, a run's text
\* also as its string.
FieldOf(key) ==
  CASE key = <<"label", "string">> -> Text
    [] Len(key) = 2 /\ key[2] = "colour" -> <<key[1], "color">>
    [] OTHER -> key

\* The tables, and the field a bare value of one of them fills.
Tables == {"label", "background"}
ScalarOf == [table \in {"label"} |-> Text]

Readable(field, value) ==
  CASE field \in Switches -> value \in {"on", "off", "toggle"}
    [] field \in Colours \cup {Width, Position} -> value \in {"x", "y"}
    [] OTHER -> TRUE

NoPatch == [f \in {} |-> ""]
Only(field, value) == [f \in {field} |-> value]

\* Two spellings of one thing: what the later names, it names, and under a
\* table field by field.
FoldedWhole(mine, other) ==
  LET heads == {f[1] : f \in DOMAIN other}
      kept == {f \in DOMAIN mine : f[1] \notin heads}
  IN [f \in kept \cup DOMAIN other |-> IF f \in DOMAIN other THEN other[f] ELSE mine[f]]

Folded(mine, other) ==
  [f \in DOMAIN mine \cup DOMAIN other |-> IF f \in DOMAIN other THEN other[f] ELSE mine[f]]

\* The pairs of one group, those with its head: the bare form, and the table's.
BareOf(said, head) == {i \in DOMAIN said : said[i].key = <<head>>}
Under(said, head) == {i \in DOMAIN said : Len(said[i].key) > 1 /\ Head(said[i].key) = head}

\* One key given two values in one command.
Contradicts(said) ==
  \E i, j \in DOMAIN said : said[i].key = said[j].key /\ said[i].value # said[j].value

\* A bare value: its field's own, or that of the table it stands for. A table
\* under a field that is none is refused, but for an alias's, which is named
\* and dropped; a key nothing claims is reported and dropped.
Claimed(head) == head \in Tables \/ <<head>> \in PatchFields
BareFits(head, value) ==
  IF head \in Tables THEN head \in DOMAIN ScalarOf ELSE Readable(<<head>>, value)
BarePatch(head, value) ==
  Only(IF head \in Tables THEN ScalarOf[head] ELSE <<head>>, value)

InTable(p) == FieldOf(p.key) \in PatchFields
TableFits(head, said) ==
  \/ head = "alias"
  \/ head \in Tables /\ \A i \in Under(said, head) :
       InTable(said[i]) => Readable(FieldOf(said[i].key), said[i].value)

\* Its keys in the order they are first named.
AbsorbedAt(sofar, n, head, said) ==
  IF n \in Under(said, head) /\ InTable(said[n]) /\ ~\E i \in 1..(n - 1) : said[i].key = said[n].key
  THEN Folded(sofar, Only(FieldOf(said[n].key), said[n].value)) ELSE sofar
TablePatch(head, said) ==
  LET table[n \in 0..Len(said)] ==
        IF n = 0 THEN NoPatch ELSE AbsorbedAt(table[n - 1], n, head, said)
  IN IF head \in Tables THEN table[Len(said)] ELSE NoPatch

\* A command's pairs can be read at all.
Reads(said) ==
  /\ ~Contradicts(said)
  /\ \A i \in DOMAIN said : LET head == Head(said[i].key) IN
       Claimed(head) => IF Len(said[i].key) = 1 THEN BareFits(head, said[i].value)
                        ELSE TableFits(head, said)

\* The patch they come to: group by group, in the order their heads are first
\* named, the bare form before the table.
Grouped(sofar, head, said) ==
  LET bare == BareOf(said, head)
      named == IF bare = {} THEN sofar ELSE Folded(sofar, BarePatch(head, said[Min(bare)].value))
  IN IF ~Claimed(head) THEN sofar ELSE Folded(named, TablePatch(head, said))
GroupedAt(sofar, n, said) ==
  IF \E i \in 1..(n - 1) : Head(said[i].key) = Head(said[n].key) THEN sofar
  ELSE Grouped(sofar, Head(said[n].key), said)
Read(said) ==
  LET read[n \in 0..Len(said)] == IF n = 0 THEN NoPatch ELSE GroupedAt(read[n - 1], n, said)
  IN read[Len(said)]

\* What a change makes of what is there. A switch can be flipped, an empty text
\* clears what can be absent, and a pattern is not a name until the daemon has
\* looked it up.
Becomes(field, change, current) ==
  CASE field \in Switches /\ change = "toggle" -> IF current = "on" THEN "off" ELSE "on"
    [] field \in Clearable /\ change = "" -> "none"
    [] field = Members /\ change = "/x/" -> current
    [] OTHER -> change

Moved(patch, held) == {f \in DOMAIN patch : Becomes(f, patch[f], held[f]) # held[f]}
Patched(patch, held) ==
  [f \in PatchFields |-> IF f \in Moved(patch, held) THEN Becomes(f, patch[f], held[f]) ELSE held[f]]

\* What building an item needs and a patch does not say.
Absent(tag, patch) ==
  IF tag = "bracket" THEN IF Members \in DOMAIN patch THEN {} ELSE {Members}
  ELSE {Position} \ DOMAIN patch
------------------------------------------------------------------------------
Held(on) == [f \in PatchFields |->
  CASE f \in Switches -> on
    [] f \in Clearable \cup {Width} -> "none"
    [] OTHER -> "x"]

PatchesInit == pairs = <<>> /\ values \in {Held("on"), Held("off")} /\ outcome = "writing"

Write(p) == /\ outcome = "writing" /\ Len(pairs) < MaxPairs
            /\ pairs' = Append(pairs, p) /\ UNCHANGED <<values, outcome>>

\* A command that reads: only what moves is written, and only that is told of.
ApplyWritten == /\ outcome = "writing" /\ Reads(pairs)
           /\ values' = Patched(Read(pairs), values)
           /\ outcome' = "applied" /\ UNCHANGED pairs

RefuseWritten == /\ outcome = "writing" /\ ~Reads(pairs)
            /\ outcome' = "refused" /\ UNCHANGED <<pairs, values>>

\* A key of each kind: a bare table, a table's own keys and their second
\* spellings, a table that is none, a key nobody claims.
WrittenKeys ==
  {<<"label">>, <<"label", "string">>, <<"label", "color">>, <<"label", "colour">>,
   <<"label", "drawing">>, <<"label", "wat">>, <<"background">>, <<"background", "color">>,
   <<"script">>, <<"script", "x">>, <<"alias">>, <<"alias", "color">>, <<"width">>,
   <<"position">>, <<"members">>, <<"wat">>}

PatchesNext ==
  \/ \E k \in WrittenKeys, v \in WrittenValues : Write([key |-> k, value |-> v])
  \/ ApplyWritten
  \/ RefuseWritten

PatchesSpec == PatchesInit /\ [][PatchesNext]_patchesVars

------------------------------------------------------------------------------
PatchesTypeOK ==
  /\ pairs \in Seq([key : WrittenKeys, value : WrittenValues]) /\ Len(pairs) <= MaxPairs
  /\ values \in [PatchFields -> WrittenValues \cup {"on", "off", "x", "none"}]
  /\ outcome \in {"writing", "refused", "applied"}

\* The field a pair is about, if any.
About(p) ==
  IF p.key \in {<<h>> : h \in DOMAIN ScalarOf} THEN {ScalarOf[Head(p.key)]}
  ELSE {FieldOf(p.key)} \cap PatchFields

\* A command means what its pairs say, whatever their order and however they
\* are spelled: a field no pair is about stays, one they agree on becomes what
\* that change makes of it, once, and of two spellings that differ the table's
\* own is taken before the bare form (args.rs, `group_members`; patch.rs).
SaysWhatItMeans ==
  [][outcome' = "applied" /\ outcome # "applied" =>
       \A f \in PatchFields :
         LET mine == {i \in DOMAIN pairs : f \in About(pairs[i])}
             own == {i \in mine : Len(pairs[i].key) = Len(f)}
             said == {pairs[i].value : i \in IF own # {} THEN own ELSE mine}
         IN IF said = {} THEN values'[f] = values[f]
            ELSE \E change \in said : values'[f] = Becomes(f, change, values[f])]_patchesVars
==============================================================================
