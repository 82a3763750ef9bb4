----------------------------- MODULE LuaModules -----------------------------
(* The files a Lua config is made of (src/crates/coolabah-lua: require.rs and *)
(* `host::spawn`): the `require` every config runs with, and the set of files *)
(* it has loaded, which is what a host watches.  The set outlives the Lua     *)
(* states: each run marks everything, lifts the mark of what it asks for, and *)
(* if it succeeds drops what is still marked.  A run may be started while the *)
(* one before it is going on.                                                 *)
EXTENDS Integers, Sequences, FiniteSets

CONSTANTS
  ModuleNames,  \* the names a config requires
  Candidates,   \* how many files `package.path` offers for a name, in order
  ModuleRuns,   \* bound on runs
  MaxDepth,     \* bound on loaders inside each other
  MaxEdits      \* bound on edits
ASSUME LuaModulesAssumption ==
  /\ Candidates \in Nat \ {0} /\ ModuleRuns \in Nat /\ MaxDepth \in Nat /\ MaxEdits \in Nat

Config == 1..ModuleRuns
NoFile == 0

VARIABLES
  disk,     \* what each candidate is: no file, or one that fails or works
  known,    \* `Modules`: by name, the file and whether the run asked for it
  runPhase,    \* of each run
  loading,  \* per run: the loaders it is inside of
  cached,   \* per run: `package.loaded`
  got,      \* history: per run, the file each name resolved to
  before,   \* history: per run, the names known when it began
  alone,    \* history: per run, no other went on at the same time
  edits     \* edits so far, of MaxEdits

modulesVars == <<disk, known, runPhase, loading, cached, got, before, alone, edits>>

File == 1..Candidates
Contents == {"none", "broken", "raises", "works"}
Nothings == [m \in ModuleNames |-> NoFile]

ModulesTypeOK ==
  /\ disk \in [ModuleNames -> [File -> Contents]]
  /\ \A m \in DOMAIN known : m \in ModuleNames /\ known[m].path \in File /\ known[m].fresh \in BOOLEAN
  /\ runPhase \in [Config -> {"unstarted", "running", "done", "failed"}]
  /\ loading \in [Config -> Seq([name : ModuleNames, content : Contents])]
  /\ \A r \in Config : Len(loading[r]) <= MaxDepth
  /\ cached \in [Config -> SUBSET ModuleNames]
  /\ got \in [Config -> [ModuleNames -> File \cup {NoFile}]]
  /\ before \in [Config -> SUBSET ModuleNames] /\ alone \in [Config -> BOOLEAN]
  /\ edits \in 0..MaxEdits

ModulesInit ==
  /\ disk = [m \in ModuleNames |-> [f \in File |-> IF f = Candidates THEN "works" ELSE "none"]]
  /\ known = [m \in {} |-> NoFile]
  /\ runPhase = [r \in Config |-> "unstarted"] /\ loading = [r \in Config |-> <<>>]
  /\ cached = [r \in Config |-> {}] /\ got = [r \in Config |-> Nothings]
  /\ before = [r \in Config |-> {}] /\ alone = [r \in Config |-> FALSE] /\ edits = 0

\* A file is written, broken or deleted.
Edit(m, f) ==
  /\ edits < MaxEdits /\ edits' = edits + 1
  /\ \E c \in Contents \ {disk[m][f]} : disk' = [disk EXCEPT ![m][f] = c]
  /\ UNCHANGED <<known, runPhase, loading, cached, got, before, alone>>

Going == {r \in Config : runPhase[r] = "running"}

\* `begin`: everything is marked, nothing dropped.
MarkedAll(set) == [m \in DOMAIN set |-> [set[m] EXCEPT !.fresh = FALSE]]

Begin(r) ==
  /\ runPhase[r] = "unstarted" /\ \A q \in Config : q < r => runPhase[q] # "unstarted"
  /\ runPhase' = [runPhase EXCEPT ![r] = "running"]
  /\ known' = MarkedAll(known) /\ before' = [before EXCEPT ![r] = DOMAIN known]
  /\ alone' = [q \in Config |-> IF q = r THEN Going = {} ELSE alone[q] /\ q \notin Going]
  /\ UNCHANGED <<disk, loading, cached, got, edits>>

\* `resolve`: the first candidate that is a file.
Resolved(m) ==
  IF \A f \in File : disk[m][f] = "none" THEN NoFile
  ELSE CHOOSE f \in File : /\ disk[m][f] # "none"
                           /\ \A g \in File : g < f => disk[m][g] = "none"

\* `record`, after the file has compiled.
Record(set, m, f) ==
  [n \in DOMAIN set \cup {m} |-> IF n = m THEN [path |-> f, fresh |-> TRUE] ELSE set[n]]

\* The shim's `require`, of what is not in `package.loaded`: a module on the
\* stack is not in it yet, so one that requires itself is loaded again.
Require(r, m) ==
  /\ runPhase[r] = "running" /\ m \notin cached[r] /\ Len(loading[r]) < MaxDepth
  /\ Resolved(m) \in File /\ disk[m][Resolved(m)] # "broken"
  /\ known' = Record(known, m, Resolved(m))
  /\ got' = [got EXCEPT ![r][m] = Resolved(m)]
  /\ loading' = [loading EXCEPT ![r] = Append(@, [name |-> m, content |-> disk[m][Resolved(m)]])]
  /\ UNCHANGED <<disk, runPhase, cached, before, alone, edits>>

Top(r) == loading[r][Len(loading[r])]
PopLoader(r) == loading' = [loading EXCEPT ![r] = SubSeq(@, 1, Len(@) - 1)]

\* The loader returns, and `finish` caches its result.
Loaded(r) ==
  /\ loading[r] # <<>> /\ Top(r).content = "works"
  /\ cached' = [cached EXCEPT ![r] = @ \cup {Top(r).name}] /\ PopLoader(r)
  /\ UNCHANGED <<disk, known, runPhase, got, before, alone, edits>>

\* A chunk may raise whenever it runs: its own error, a name no file is found
\* for, a file that does not compile. The error leaves the loader it was raised
\* in uncached; one that nobody catches fails the run, and `keep` lifts the marks.
Unwind(r) ==
  /\ runPhase[r] = "running" /\ loading[r] # <<>> /\ PopLoader(r)
  /\ UNCHANGED <<disk, known, runPhase, cached, got, before, alone, edits>>

KeptUnlifted == known
KeptAll == [m \in DOMAIN known |-> [known[m] EXCEPT !.fresh = TRUE]]

Fail(r) ==
  /\ runPhase[r] = "running" /\ runPhase' = [runPhase EXCEPT ![r] = "failed"]
  /\ loading' = [loading EXCEPT ![r] = <<>>] /\ known' = KeptAll
  /\ UNCHANGED <<disk, cached, got, before, alone, edits>>

\* `end`: the marked are forgotten.
Swept == {m \in DOMAIN known : ~known[m].fresh}

Succeed(r) ==
  /\ runPhase[r] = "running" /\ loading[r] = <<>> /\ runPhase' = [runPhase EXCEPT ![r] = "done"]
  /\ known' = [m \in DOMAIN known \ Swept |-> known[m]]
  /\ UNCHANGED <<disk, loading, cached, got, before, alone, edits>>

ModulesNext ==
  \/ \E m \in ModuleNames, f \in File : Edit(m, f)
  \/ \E r \in Config : Begin(r) \/ Loaded(r) \/ Unwind(r) \/ Fail(r) \/ Succeed(r)
                       \/ \E m \in ModuleNames : Require(r, m)

ModulesSpec == ModulesInit /\ [][ModulesNext]_modulesVars

-----------------------------------------------------------------------------
\* A run that had the set to itself and nothing has followed.
LastRun(r) == alone[r] /\ runPhase[r] \in {"done", "failed"}
           /\ \A q \in Config : q > r => runPhase[q] = "unstarted"

\* host.rs: after a run that succeeded what is watched is what it loaded, under
\* the file each name resolved to, whatever was moved meanwhile; and a run that
\* failed changes nothing about what the previous one watched, "a broken edit
\* should leave the watches that were working in place". Between runs nothing is
\* left marked, which the next success would drop although it was asked for.
WatchesWhatIsLoaded ==
  /\ \A r \in Config : LastRun(r) =>
       /\ \A m \in ModuleNames : got[r][m] # NoFile =>
            m \in DOMAIN known /\ known[m].path = got[r][m]
       /\ runPhase[r] = "done" => \A m \in DOMAIN known : got[r][m] # NoFile
       /\ runPhase[r] = "failed" => before[r] \subseteq DOMAIN known
  /\ Going = {} => Swept = {}
=============================================================================
