---------------------------- MODULE CommandLine -----------------------------
(* The command line client (cli/grammar.rs, cli/client.rs, cli/mod.rs): what *)
(* it makes of its arguments, and what it then asks of the daemon. The       *)
(* arguments are read one by one; each is chosen when it is read.            *)
EXTENDS Patches, SequencesExt

CONSTANTS Commands,  \* the commands that are given
          MaxTokens  \* arguments on the command line

VARIABLES argv,     \* the arguments read so far, until they are refused
          current,  \* the command being read, or none
          requests, \* the commands read before it
          stage,    \* reading, refused, sending, failed or succeeded
          asked,     \* how many of the requests were sent and answered
          failed    \* one of them with a failure
sendVars == <<asked, failed>>
commandVars == <<argv, current, requests, stage, sendVars>>

Domains == {"--bar", "--set", "--add", "--remove", "--subscribe", "--trigger", "--query",
            "--default", "--move", "--reorder", "--push", "--press", "--reload", "--update",
            "--exit"}

\* Nothing is a command that is not one of these.
ASSUME CommandAssumption == Commands \subseteq Domains /\ MaxTokens \in Nat

Word(text) == [form |-> "word", text |-> text]
FlagArg(text) == [form |-> "flag", text |-> text]
PairOf(k, v) == [form |-> "pair", text |-> "=", key |-> k, value |-> v]

\* One argument of each kind the grammar tells apart: a name, a pattern, what no
\* name can be, a number, a place, a direction, the kinds of component, a
\* built-in event, a flag that is no command's, two pairs that contradict each
\* other and one no patch can read.
Arguments ==
  {Word(w) : w \in {"a", "/a/", "\n", "7", "left", "before", "item", "bracket", "event",
                    "wake"}}
  \cup {FlagArg(f) : f \in Commands \cup {"--hover"}}
  \cup {PairOf(<<"label">>, "x"), PairOf(<<"label">>, "y"), PairOf(<<"background">>, "x")}

LooksLikeADomain(t) == t.text \in Domains
IsName(t) == t.text # "\n"
IsPlace(t) == t.text = "left"
BuiltIn(t) == t.text = "wake"
IsEvent(t) == t.text \in {"a", "7", "left", "before", "item", "bracket", "event", "wake"}

\* What a command takes whatever it looks like, and what it then takes up to
\* the next flag.
SlotsOf(command, args) ==
  CASE command \in {"--set", "--remove"} -> <<"selector">>
    [] command = "--add" -> IF args # <<>> /\ args[1].text = "event" THEN <<"kind", "event">>
                            ELSE <<"kind", "name">>
    [] command = "--subscribe" -> <<"name">>
    [] command = "--trigger" -> <<"event">>
    [] command = "--query" -> <<"query">>
    [] command = "--move" -> <<"name", "relative", "name">>
    [] command = "--push" -> <<"graph", "number">>
    [] command = "--press" -> <<"target">>
    [] OTHER -> <<>>

Fits(slot, t) ==
  CASE slot = "kind" -> t.text \in {"item", "bracket", "event"}
    [] slot = "relative" -> t.text = "before"
    [] slot = "number" -> t.text = "7"
    [] slot = "event" -> IsEvent(t)
    [] slot = "graph" -> IsName(t) /\ t.text # "/a/"
    [] OTHER -> IsName(t)

IsPair(t) == t.form = "pair"
AsPairs(tokens) == [i \in DOMAIN tokens |-> [key |-> tokens[i].key, value |-> tokens[i].value]]

\* Whether a command can take one more argument before the next flag. Every
\* error refuses the whole line, so it is raised here as soon as it is certain.
\* Words after a position are taken, and dropped.
TakesGreedily(c, t) ==
  CASE c.command \in {"--bar", "--set", "--default"} ->
         IsPair(t) /\ Reads(AsPairs(Append(c.tail, t)))
    [] c.command = "--add" ->
         CASE c.args[1].text = "event" -> c.tail = <<>> /\ IsName(t)
           [] c.args[1].text = "bracket" -> IsName(t)
           [] OTHER -> c.tail = <<>> => IsPlace(t)
    [] c.command = "--subscribe" -> IsEvent(t)
    [] c.command = "--trigger" -> ~BuiltIn(c.args[1]) /\ IsPair(t)
    [] c.command = "--reorder" -> IsName(t)
    [] OTHER -> FALSE

\* `--add`: its arguments as a patch, which has to name what the component
\* cannot be built without; the other commands' own minimum.
AddPatch(c) ==
  IF c.tail = <<>> THEN NoPatch
  ELSE Only(IF c.args[1].text = "bracket" THEN Members ELSE Position, c.tail[1].text)

Builds(c) ==
  CASE c.command = "--add" -> IF c.args[1].text = "event" THEN ~BuiltIn(c.args[2])
                              ELSE Absent(c.args[1].text, AddPatch(c)) = {}
    [] c.command \in {"--subscribe", "--reorder"} -> c.tail # <<>>
    [] OTHER -> TRUE

NoCommand == [command |-> "", args |-> <<>>, tail |-> <<>>]
TakeArgument(t) == argv' = Append(argv, t)
Complete == current = NoCommand \/ Len(current.args) = Len(SlotsOf(current.command, current.args))
Sound == current = NoCommand \/ (Complete /\ Builds(current))
Parsed == IF current = NoCommand THEN requests ELSE Append(requests, current)
------------------------------------------------------------------------------
CommandInit == argv = <<>> /\ current = NoCommand /\ requests = <<>> /\ stage = "reading"
               /\ asked = 0 /\ failed = FALSE

Reading == stage = "reading" /\ Len(argv) < MaxTokens /\ UNCHANGED sendVars
Refuse == stage' = "refused" /\ argv' = <<>> /\ current' = NoCommand /\ requests' = <<>>

\* `parser.value()`: the next argument, whatever it looks like.
TakesRequired(t) == ~LooksLikeADomain(t)

Required(t) ==
  /\ Reading /\ ~Complete
  /\ LET slot == SlotsOf(current.command, current.args)[Len(current.args) + 1] IN
     IF TakesRequired(t) /\ Fits(slot, t)
     THEN TakeArgument(t) /\ current' = [current EXCEPT !.args = Append(@, t)] /\ UNCHANGED <<requests, stage>>
     ELSE Refuse

\* `parser.values()`: one more of what comes before the next flag.
Greedy(t) ==
  /\ Reading /\ Complete /\ t.form # "flag"
  /\ IF TakesGreedily(current, t)
     THEN TakeArgument(t) /\ current' = [current EXCEPT !.tail = Append(@, t)] /\ UNCHANGED <<requests, stage>>
     ELSE Refuse

\* The next command; the one before it is built first.
NextCommand(t) ==
  /\ Reading /\ Complete /\ t.form = "flag"
  /\ IF Sound /\ LooksLikeADomain(t)
     THEN /\ TakeArgument(t)
          /\ requests' = Parsed
          /\ current' = [command |-> t.text, args |-> <<>>, tail |-> <<>>]
          /\ UNCHANGED stage
     ELSE Refuse

\* The end of the arguments: with a command short of what it needs, or with no
\* command at all, nothing is sent, nor when no daemon is there to connect to.
EndOfArguments(connected) ==
  /\ stage = "reading"
  /\ IF Sound /\ Parsed # <<>>
     THEN /\ requests' = Parsed /\ current' = NoCommand /\ UNCHANGED argv
          /\ stage' = IF connected THEN "sending" ELSE "failed"
     ELSE Refuse
  /\ UNCHANGED sendVars

\* One call after the other; one that fails does not keep the rest back.
CallBlocking(ok) == /\ stage = "sending" /\ asked < Len(requests)
                    /\ asked' = asked + 1 /\ failed' = (failed \/ ~ok)
                    /\ UNCHANGED <<argv, current, requests, stage>>

ExitWith == /\ stage = "sending" /\ asked = Len(requests)
            /\ stage' = IF failed THEN "failed" ELSE "succeeded"
            /\ UNCHANGED <<argv, current, requests, sendVars>>

CommandNext ==
  \/ \E t \in Arguments : Required(t) \/ Greedy(t) \/ NextCommand(t)
  \/ \E connected \in BOOLEAN : EndOfArguments(connected)
  \/ \E ok \in BOOLEAN : CallBlocking(ok)
  \/ ExitWith

CommandSpec == CommandInit /\ [][CommandNext]_commandVars

------------------------------------------------------------------------------
CommandTypeOK ==
  /\ argv \in Seq(Arguments) /\ Len(argv) <= MaxTokens
  /\ stage \in {"reading", "refused", "sending", "failed", "succeeded"}
  /\ asked \in 0..Len(requests) /\ failed \in BOOLEAN

\* A command line is taken as a whole: nothing is sent of one that is refused,
\* of another every argument is in the request of the command it follows, and
\* every command's flag, wherever it stands, starts a request of its own; all
\* of them are sent, a failure or not, once the daemon is there (grammar.rs,
\* `parse` and `required_string`; client.rs, `send_all`).
TokensOf(c) == <<FlagArg(c.command)>> \o c.args \o c.tail
Flags(tokens) == {n \in DOMAIN tokens : LooksLikeADomain(tokens[n])}
CommandsAreWhole ==
  /\ stage \in {"reading", "refused"} => asked = 0
  /\ stage \in {"sending", "failed", "succeeded"} =>
       /\ argv = FlattenSeq([i \in DOMAIN requests |-> TokensOf(requests[i])])
       /\ Cardinality(Flags(argv)) = Len(requests)
  /\ (stage = "succeeded" \/ (failed /\ stage = "failed")) => asked = Len(requests)
==============================================================================
