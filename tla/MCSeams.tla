------------------------------- MODULE MCSeams -------------------------------
(* Instance for TLC of what is handed between threads or called from outside: *)
(* each behaviour is of one of these machines, which share no state; the rest *)
(* keep their initial state.                                                  *)
EXTENDS Handoff, Executor, Callback, PlatformSources, Volume, CommandLine, Scripts

VARIABLE part  \* the machine this behaviour is of

seamVars == <<part, vars, executorVars, callbackVars, platformVars,
              volumeVars, patchesVars, commandVars, scriptsVars>>

\* What the machine that runs leaves alone: all the others.
OfHandoff == /\ part = "handoff"
             /\ UNCHANGED <<part, executorVars, callbackVars, platformVars,
                           volumeVars, patchesVars, commandVars, scriptsVars>>
OfExecutor == /\ part = "executor"
              /\ UNCHANGED <<part, vars, callbackVars, platformVars, volumeVars,
                            patchesVars, commandVars, scriptsVars>>
OfCallback == /\ part = "callback"
              /\ UNCHANGED <<part, vars, executorVars, platformVars, volumeVars,
                            patchesVars, commandVars, scriptsVars>>
OfPlatform == /\ part = "platform"
              /\ UNCHANGED <<part, vars, executorVars, callbackVars, volumeVars,
                            patchesVars, commandVars, scriptsVars>>
OfVolume == /\ part = "volume"
            /\ UNCHANGED <<part, vars, executorVars, callbackVars, platformVars,
                          patchesVars, commandVars, scriptsVars>>
OfPatches == /\ part = "patches"
             /\ UNCHANGED <<part, vars, executorVars, callbackVars, platformVars, volumeVars,
                           commandVars, scriptsVars>>
OfCommand == /\ part = "command"
             /\ UNCHANGED <<part, vars, executorVars, callbackVars, platformVars, volumeVars,
                           patchesVars, scriptsVars>>
OfScripts == /\ part = "scripts"
             /\ UNCHANGED <<part, vars, executorVars, callbackVars, platformVars, volumeVars,
                           patchesVars, commandVars>>

Whatever(S) == CHOOSE x \in S : TRUE

SeamsInit ==
  /\ part \in {"handoff", "executor", "callback", "platform", "volume", "patches",
               "command", "scripts"}
  /\ Init /\ ExecutorInit /\ CallbackInit /\ VolumeInit
  /\ PlatformInit /\ PatchesInit /\ CommandInit /\ ScriptsInit
  /\ part # "platform" => platform = "displays" /\ reading = Whatever(Readings("displays"))
  /\ part # "volume" => default = Whatever(OutputDevices)
  /\ part # "patches" => values = Held("on")

SeamsNext ==
  \/ OfHandoff /\ Next
  \/ OfExecutor /\ ExecutorNext
  \/ OfCallback /\ CallbackNext
  \/ OfPlatform /\ PlatformNext
  \/ OfVolume /\ VolumeNext
  \/ OfPatches /\ PatchesNext
  \/ OfCommand /\ CommandNext
  \/ OfScripts /\ ScriptsNext

\* Of the machine that runs, the fairness its own module states.
SeamsFairness ==
  /\ WF_vars(part = "handoff" /\ Pass)
  /\ \A w \in Worker : WF_vars(part = "handoff" /\ (Flag(w) \/ WakeMain(w)))
  /\ WF_executorVars(part = "executor" /\ Turn)
  /\ \A t \in Sent : WF_executorVars(part = "executor" /\ Ring(t))
  /\ WF_executorVars(part = "executor" /\ (RunErrand \/ RunCall \/ RingEnds
                                  \/ \E t \in Errands : Land(t)))
  /\ WF_executorVars(part = "executor" /\ DriveEnds)
  /\ WF_executorVars(part = "executor" /\ (Drain \/ DrainEnds \/ PassEnds))
  /\ SF_executorVars(part = "executor" /\ PerformRing)
  /\ SF_executorVars(part = "executor" /\ PerformDrive)
  /\ \A t \in Local : SF_executorVars(part = "executor" /\ PollTask(t))
  /\ WF_scriptsVars(part = "scripts" /\ (Woken \/ \E i \in ScriptItems : Expire(i)))

SeamsSpec == SeamsInit /\ [][SeamsNext]_seamVars /\ SeamsFairness

\* Every variable of these machines keeps to its type.
SeamsTypeOK ==
  /\ TypeOK /\ ExecutorTypeOK /\ CallbackTypeOK
  /\ PlatformTypeOK /\ VolumeTypeOK
  /\ part = "patches" => PatchesTypeOK
  /\ part = "command" => CommandTypeOK
  /\ ScriptsTypeOK

\* A platform's source reports what is so, and the volume's, while it is live,
\* listens to the device that is the default one and to no other.
SourcesListen == SourcesReport /\ ListensToOne

\* Nothing that has to run on a loop's thread, and nothing an item has to be
\* updated for, is left without the wake that brings it about.
NoWorkStranded == NoTaskStranded /\ RoutinesStand

\* What was handed over is done: errands end, calls are answered, and routines
\* that have come due are run.
HandedOverIsDone == ErrandsSettle /\ RoutinesComeDue

\* A command line is taken as a whole, and what it says of an item is what the
\* item becomes, in whatever order and spelling.
CommandsMeanWhatTheySay == []CommandsAreWhole /\ SaysWhatItMeans
==============================================================================
