------------------------------ MODULE BuildSteps ------------------------------
(***************************************************************************)
(* The step graph that build() in build.zig hands to zig's build runner,   *)
(* and what its steps do to the source and output trees.                   *)
(*                                                                         *)
(* Every `zig build <goals>` is a process.  The runner (external) runs     *)
(* each step the goals reach once, in any order and in parallel, except    *)
(* that a step waits for those it depends on and is given up when one of   *)
(* them fails.  build.zig makes the step "v8" depend on four steps that do *)
(* not depend on each other: create v8/zig, copy BUILD.gn there, run gn,   *)
(* run ninja.  A step that looks at the disk and acts on what it saw is    *)
(* several actions here, so that other steps and processes come between    *)
(* and a fault finds it half done.  GetV8 has what get_v8_source does with *)
(* each repository; here there are v8 and, in one piece, all the others.   *)
(***************************************************************************)
EXTENDS Naturals, FiniteSets

CONSTANTS Procs,      \* the zig build processes that may run at the same time
          Goals,      \* the sets of goals a user asks for
          MaxEdits,   \* bound: how often the user edits BUILD.gn
          MaxFaults,  \* bound: interrupted processes and failing commands
          MaxExposed  \* bound: edits and faults come while at most so many run

ASSUME BoundsAssumption ==
    MaxEdits \in Nat /\ MaxFaults \in Nat /\ MaxExposed \in Nat

\* The four steps of createV8_Build and what must have happened in full before
\* the next can succeed: directory, copy, build.ninja, library.
Pipeline == {"mkpath", "cp", "run_gn", "run_ninja"}

Steps == Pipeline \cup
         {"install", "v8", "tests", "run_tests", "test", "build_exe", "run_exe",
          "run", "exe", "get_v8_source", "get-v8", "clone_tools", "get-tools"}

\* Steps that only wait for others, or run a program already linked: they leave
\* the tree alone.
Quiet == {"install", "v8", "run_tests", "test", "run_exe", "run", "exe",
          "get-v8", "get-tools"}

ASSUME GoalsAssumption == \A goals \in Goals : goals \subseteq Steps

\* Steps that look at the tree when they start and act on it when they end.
Looking == {"mkpath", "run_gn", "run_ninja", "get_v8_source"}

\* A plausible bug in DependsOn, not part of the specification: the tests no
\* longer wait for the library.
DependsOnForgetful ==
    [s \in Steps |->
       CASE s = "install" -> {"v8"}
         [] s = "v8" -> Pipeline
         [] s = "run_tests" -> {"tests"}
         [] s = "test" -> {"run_tests"}
         [] s = "run_exe" -> {"build_exe"}
         [] s = "run" -> {"run_exe"}
         [] s = "get-v8" -> {"get_v8_source"}
         [] s = "get-tools" -> {"clone_tools"}
         [] OTHER -> {}]

\* dependOn, as build() and the functions it calls set it up.  "install" is
\* the default step; "exe" is declared and depends on nothing.
DependsOn ==
    [s \in Steps |->
       CASE s = "install" -> {"v8"}
         [] s = "v8" -> Pipeline
         [] s = "tests" -> {"v8"}
         [] s = "run_tests" -> {"tests"}
         [] s = "test" -> {"run_tests"}
         [] s = "run_exe" -> {"build_exe"}
         [] s = "run" -> {"run_exe"}
         [] s = "get-v8" -> {"get_v8_source"}
         [] s = "get-tools" -> {"clone_tools"}
         [] OTHER -> {}]

\* The steps a set of goals reaches; no chain has more than four edges.
Reached ==
    LET Grow(S) == S \cup UNION {DependsOn[s] : s \in S}
    IN  [goals \in Goals |-> Grow(Grow(Grow(Grow(goals))))]

VARIABLES
    status,     \* status[p][s]: step s in process p; "out" when not reached
    seen,       \* seen[p][s]: what step s found on the disk when it started
    v8,         \* ./v8: "absent"; "bare", without DEPS; "torn", with DEPS but not all
                \* its files or not its patch; "whole"
    deps,       \* the repositories nested in it: "missing", "broken" (one of them for
                \* good) or "there"
    tools,      \* ./tools, with gn and ninja: "absent", "torn" or "there"
    cloning,    \* the process whose git is cloning v8, if any
    cut,        \* history: a step that fetches was cut short and left what it had
    zigDir,     \* ./v8/zig exists
    source,     \* the version of BUILD.gn in the repository
    buildGn,    \* the version in ./v8/zig/BUILD.gn, 0 if there is none
    touched,    \* ./v8/zig/BUILD.gn is newer than build.ninja
    manifest,   \* the version build.ninja was generated from, or 0
    lib,        \* the version libc_v8.a was built from, or 0
    edits, faults,
    undisturbed, \* history: p started with everything fetched, and since then
                 \* nobody edited BUILD.gn and nothing failed by itself
    progress,    \* history: undisturbed builds that p completed and that left
                 \* no library, up to 4
    settled      \* history: those that succeeded since the last edit, if there
                 \* was one, up to 3

checkouts == <<v8, deps, tools, cloning, cut>>
tree == <<checkouts, zigDir, source, buildGn, touched, manifest, lib>>
bounds == <<edits, faults>>
history == <<undisturbed, progress, settled>>
vars == <<status, seen, tree, bounds, history>>

Versions == 1 .. (MaxEdits + 1)
Finished == {"done", "failed", "blocked"}
StepStates == Finished \cup {"out", "waiting", "running"}

TypeOK == /\ status \in [Procs -> [Steps -> StepStates]]
          /\ seen \in [Procs -> [Steps -> {0} \cup Versions]]
          /\ v8 \in {"absent", "bare", "torn", "whole"}
          /\ deps \in {"missing", "broken", "there"}
          /\ tools \in {"absent", "torn", "there"}
          /\ cloning \subseteq Procs /\ cut \in BOOLEAN
          /\ zigDir \in BOOLEAN /\ touched \in BOOLEAN
          /\ source \in Versions
          /\ {buildGn, manifest, lib} \subseteq {0} \cup Versions
          /\ edits \in 0 .. MaxEdits /\ faults \in 0 .. MaxFaults
          /\ undisturbed \in [Procs -> BOOLEAN]
          /\ progress \in [Procs -> 0 .. 4]
          /\ settled \in [Procs -> 0 .. 3]

NothingRuns == [s \in Steps |-> "out"]
NothingSeen == [s \in Steps |-> 0]

\* A fresh clone of the repository.
Init == /\ status = [p \in Procs |-> NothingRuns]
        /\ seen = [p \in Procs |-> NothingSeen]
        /\ v8 = "absent" /\ deps = "missing" /\ tools = "absent"
        /\ cloning = {} /\ cut = FALSE /\ zigDir = FALSE
        /\ source = 1 /\ buildGn = 0 /\ touched = FALSE
        /\ manifest = 0 /\ lib = 0
        /\ edits = 0 /\ faults = 0
        /\ undisturbed = [p \in Procs |-> FALSE]
        /\ progress = [p \in Procs |-> 0]
        /\ settled = [p \in Procs |-> 0]

Idle(p) == status[p] = NothingRuns
Exposed == Cardinality({p \in Procs : ~Idle(p)}) <= MaxExposed
Fetched == v8 = "whole" /\ deps = "there" /\ tools = "there"
------------------------------------------------------------------------------
(***************************************************************************)
(* The build runner and its user.                                          *)
(***************************************************************************)
\* A command line, for instance `zig build get-v8` or plain `zig build`.
Invoke(p, goals) ==
    /\ Idle(p)
    /\ status' = [status EXCEPT ![p] =
                    [s \in Steps |-> IF s \in Reached[goals] THEN "waiting"
                                     ELSE "out"]]
    /\ undisturbed' = [undisturbed EXCEPT ![p] = Fetched]
    /\ UNCHANGED <<seen, tree, bounds, progress, settled>>

\* A plausible bug in Found: ninja refuses a build.ninja older than BUILD.gn.
FoundRefusing(s) ==
    CASE s = "mkpath" -> IF zigDir THEN 1 ELSE 0
      [] s = "run_gn" -> IF Fetched THEN buildGn ELSE 0
      [] s = "get_v8_source" -> IF v8 = "absent" THEN 0 ELSE 1
      [] OTHER -> IF tools # "there" \/ touched THEN 0 ELSE manifest

\* What a step finds when it starts: MakePathStep stats ./v8/zig, GetV8SourceStep
\* stats ./v8; gn reads BUILD.gn; ninja reads build.ninja, regenerated first if
\* BUILD.gn is newer.
Found(s) ==
    CASE s = "mkpath" -> IF zigDir THEN 1 ELSE 0
      [] s = "run_gn" -> IF Fetched THEN buildGn ELSE 0
      [] s = "get_v8_source" -> IF v8 = "absent" THEN 0 ELSE 1
      [] OTHER -> IF tools # "there" \/ manifest = 0 THEN 0
                  ELSE IF touched THEN buildGn ELSE manifest

Ready(p, s) == /\ status[p][s] = "waiting"
               /\ \A d \in DependsOn[s] : status[p][d] = "done"

Start(p, s) ==
    /\ s \in Looking
    /\ Ready(p, s)
    /\ status' = [status EXCEPT ![p][s] = "running"]
    /\ seen' = [seen EXCEPT ![p][s] = Found(s)]
    /\ IF s = "run_ninja" /\ Found(s) # 0
       THEN manifest' = Found(s) /\ touched' = FALSE
       ELSE UNCHANGED <<manifest, touched>>
    /\ UNCHANGED <<checkouts, zigDir, source, buildGn, lib, bounds, history>>

\* A quiet step is done as soon as it may run.
Pass(p, s) ==
    /\ s \in Quiet
    /\ Ready(p, s)
    /\ status' = [status EXCEPT ![p][s] = "done"]
    /\ UNCHANGED <<seen, tree, bounds, history>>

\* When the work of a step is done: after its start if it is a looking one, in
\* one piece otherwise.
AtWork(p, s) == /\ s \notin Quiet
                /\ IF s \in Looking THEN status[p][s] = "running" ELSE Ready(p, s)

\* A step is given up once one it depends on did not succeed.
Block(p, s) ==
    /\ status[p][s] = "waiting"
    /\ \E d \in DependsOn[s] : status[p][d] \in {"failed", "blocked"}
    /\ status' = [status EXCEPT ![p][s] = "blocked"]
    /\ UNCHANGED <<seen, tree, bounds, history>>

\* The process ends when every step it reached has finished.
Complete(p) ==
    LET reached == {s \in Steps : status[p][s] # "out"}
        counts == "v8" \in reached /\ undisturbed[p]
        succeeds == \A s \in reached : status[p][s] = "done"
    IN  /\ ~Idle(p)
        /\ \A s \in reached : status[p][s] \in Finished
        /\ status' = [status EXCEPT ![p] = NothingRuns]
        /\ progress' = [progress EXCEPT ![p] =
                          IF lib # 0 THEN 0
                          ELSE IF counts /\ @ < 4 THEN @ + 1 ELSE @]
        /\ settled' = [settled EXCEPT ![p] =
                         IF counts /\ succeeds /\ edits # 0 /\ @ < 3
                         THEN @ + 1 ELSE @]
        /\ undisturbed' = [undisturbed EXCEPT ![p] = FALSE]
        /\ UNCHANGED <<seen, tree, bounds>>

\* The user edits BUILD.gn.
Edit ==
    /\ edits < MaxEdits /\ Exposed
    /\ edits' = edits + 1
    /\ source' = source + 1
    /\ settled' = [p \in Procs |-> 0]
    /\ undisturbed' = [p \in Procs |-> FALSE]
    /\ UNCHANGED <<status, seen, checkouts, zigDir, buildGn, touched, manifest,
                   lib, faults, progress>>

\* A git clone of v8 that is cut short before it has come to DEPS may remove the
\* directory again, with all that others have put there by then.
CutClone(p) ==
    \/ UNCHANGED <<v8, zigDir, buildGn, touched>>
    \/ /\ p \in cloning /\ v8 = "bare"
       /\ v8' = "absent"
       /\ zigDir' = FALSE /\ buildGn' = 0 /\ touched' = FALSE

\* What the steps S of p leave when they are cut short.  Those that build leave the
\* tree as it was; those that fetch leave what git has written by then, unless git
\* removes it.
CutShort(p, S) ==
    LET clones == "get_v8_source" \in S /\ p \in cloning
        fetches == /\ "get_v8_source" \in S /\ seen[p]["get_v8_source"] = 1
                   /\ v8 \in {"torn", "whole"} /\ deps = "missing"
        getsTools == /\ "clone_tools" \in S /\ Ready(p, "clone_tools")
                     /\ tools = "absent"
    IN  /\ IF clones THEN CutClone(p) ELSE UNCHANGED <<v8, zigDir, buildGn, touched>>
        /\ cloning' = IF clones THEN {} ELSE cloning
        /\ deps' \in {deps} \cup (IF fetches THEN {"broken"} ELSE {})
        /\ tools' \in {tools} \cup (IF getsTools THEN {"torn", "there"} ELSE {})
        /\ cut' = (\/ cut \/ (clones /\ v8' # "absent")
                   \/ deps' = "broken" \/ tools' = "torn")
        /\ UNCHANGED <<source, manifest, lib>>

\* A command fails for a reason of its own (network, compiler, the same command
\* of another process), and so does its step.
FailByItself(p, s) ==
    /\ faults < MaxFaults /\ Exposed
    /\ s # "get_v8_source" /\ AtWork(p, s)
    /\ faults' = faults + 1
    /\ status' = [status EXCEPT ![p][s] = "failed"]
    /\ seen' = [seen EXCEPT ![p][s] = 0]
    /\ undisturbed' = [undisturbed EXCEPT ![p] = FALSE]
    /\ CutShort(p, {s})
    /\ UNCHANGED <<edits, progress, settled>>

\* A plausible bug in Interrupt: the steps are left in a state of their own.
InterruptMarking(p) ==
    /\ faults < MaxFaults /\ Exposed
    /\ ~Idle(p)
    /\ faults' = faults + 1
    /\ status' = [status EXCEPT ![p] =
                    [s \in Steps |-> IF @[s] = "out" THEN "out" ELSE "interrupted"]]
    /\ seen' = [seen EXCEPT ![p] = NothingSeen]
    /\ undisturbed' = [undisturbed EXCEPT ![p] = FALSE]
    /\ CutShort(p, Steps)
    /\ UNCHANGED <<edits, progress, settled>>

\* A process ends with its steps unfinished.
Exits(p) ==
    /\ status' = [status EXCEPT ![p] = NothingRuns]
    /\ seen' = [seen EXCEPT ![p] = NothingSeen]
    /\ undisturbed' = [undisturbed EXCEPT ![p] = FALSE]
    /\ CutShort(p, Steps)
    /\ UNCHANGED <<edits, progress, settled>>

\* The user interrupts a process, whatever its steps are doing; or a command of
\* get_v8_source fails for a reason of its own, which ends the process.
Interrupt(p) ==
    /\ faults < MaxFaults /\ Exposed
    /\ ~Idle(p)
    /\ faults' = faults + 1
    /\ Exits(p)
------------------------------------------------------------------------------
(***************************************************************************)
(* The steps' own work, ending in success or failure.                      *)
(***************************************************************************)
End(p, s, ok) ==
    /\ AtWork(p, s)
    /\ status' = [status EXCEPT ![p][s] = IF ok THEN "done" ELSE "failed"]
    /\ seen' = [seen EXCEPT ![p][s] = 0]
    /\ UNCHANGED <<source, bounds, history>>

\* A plausible bug in MakePath: it creates the parents too.
MakePathRecursive(p) ==
    /\ End(p, "mkpath", TRUE)
    /\ zigDir' = TRUE
    /\ v8' = IF v8 = "absent" THEN "bare" ELSE v8
    /\ UNCHANGED <<deps, tools, cloning, cut, buildGn, touched, manifest, lib>>

\* MakePathStep.make: makeDir creates one directory and fails when its parent
\* is missing or when it exists by now.
MakePath(p) ==
    LET creates == seen[p]["mkpath"] = 0 /\ v8 # "absent" /\ ~zigDir
    IN  /\ End(p, "mkpath", seen[p]["mkpath"] = 1 \/ creates)
        /\ zigDir' = (zigDir \/ creates)
        /\ UNCHANGED <<checkouts, buildGn, touched, manifest, lib>>

\* A plausible bug in CopyFile: a copy that is there is left alone.
CopyFileOnce(p) ==
    /\ End(p, "cp", zigDir)
    /\ buildGn' = IF zigDir /\ buildGn = 0 THEN source ELSE buildGn
    /\ touched' = (touched \/ (zigDir /\ buildGn = 0))
    /\ UNCHANGED <<checkouts, zigDir, manifest, lib>>

\* CopyFileStep.make: an atomic replacement, given the directory.
CopyFile(p) ==
    /\ End(p, "cp", zigDir)
    /\ buildGn' = IF zigDir THEN source ELSE buildGn
    /\ touched' = (touched \/ zigDir)
    /\ UNCHANGED <<checkouts, zigDir, manifest, lib>>

\* gn gen writes build.ninja for the BUILD.gn it read.
RunGn(p) ==
    LET found == seen[p]["run_gn"]
    IN  /\ End(p, "run_gn", found # 0)
        /\ manifest' = IF found # 0 THEN found ELSE manifest
        /\ touched' = (touched /\ found = 0)
        /\ UNCHANGED <<checkouts, zigDir, buildGn, lib>>

\* ninja builds c_v8 as build.ninja said when it was loaded.
RunNinja(p) ==
    LET found == seen[p]["run_ninja"]
    IN  /\ End(p, "run_ninja", found # 0)
        /\ lib' = IF found # 0 THEN found ELSE lib
        /\ UNCHANGED <<checkouts, zigDir, buildGn, touched, manifest>>

\* GetV8SourceStep.make, when its stat found no ./v8: git clone creates it, comes to
\* DEPS among the first files and in the end, with git apply, has it whole.
CloneV8(p) ==
    /\ status[p]["get_v8_source"] = "running" /\ seen[p]["get_v8_source"] = 0
    /\ \/ /\ v8 = "absent" /\ v8' = "bare"
          /\ cloning' = {p} /\ UNCHANGED seen
       \/ /\ p \in cloning /\ v8 = "bare" /\ v8' = "torn"
          /\ UNCHANGED <<cloning, seen>>
       \/ /\ p \in cloning /\ v8 = "torn" /\ v8' = "whole"
          /\ cloning' = {}
          /\ seen' = [seen EXCEPT ![p]["get_v8_source"] = 1]
    /\ UNCHANGED <<status, deps, tools, cut, zigDir, source, buildGn, touched, manifest,
                   lib, bounds, history>>

\* It goes on with any ./v8 there is, if that has DEPS to parse and every nested
\* repository can be cloned or checked out.
CanGoOn(p) == /\ seen[p]["get_v8_source"] = 1
              /\ v8 \in {"torn", "whole"} /\ deps # "broken"

GetV8Source(p) ==
    /\ CanGoOn(p)
    /\ End(p, "get_v8_source", TRUE)
    /\ deps' = "there"
    /\ UNCHANGED <<v8, tools, cloning, cut, zigDir, buildGn, touched, manifest, lib>>

\* Otherwise a command fails, git clone if ./v8 has come to be since the stat, and
\* b.run ends the process.
GetV8Fails(p) ==
    /\ AtWork(p, "get_v8_source") /\ p \notin cloning
    /\ seen[p]["get_v8_source"] = 1 \/ v8 # "absent"
    /\ ~CanGoOn(p)
    /\ Exits(p)
    /\ UNCHANGED faults

\* git clone into ./tools, which must not exist.
CloneTools(p) ==
    /\ End(p, "clone_tools", tools = "absent")
    /\ tools' = IF tools = "absent" THEN "there" ELSE tools
    /\ UNCHANGED <<v8, deps, cloning, cut, zigDir, buildGn, touched, manifest, lib>>

\* linkV8: compiling the tests or the demo links the library that is there.
Compile(p, s) ==
    /\ s \in {"tests", "build_exe"}
    /\ End(p, s, lib # 0)
    /\ UNCHANGED <<checkouts, zigDir, buildGn, touched, manifest, lib>>

Next ==
    \/ Edit
    \/ \E p \in Procs :
         \/ \E goals \in Goals : Invoke(p, goals)
         \/ \E s \in Steps : \/ Start(p, s) \/ Block(p, s)
                             \/ Compile(p, s) \/ Pass(p, s)
                             \/ FailByItself(p, s)
         \/ MakePath(p) \/ CopyFile(p) \/ RunGn(p) \/ RunNinja(p)
         \/ CloneV8(p) \/ GetV8Source(p) \/ GetV8Fails(p) \/ CloneTools(p)
         \/ Complete(p) \/ Interrupt(p)

Spec == Init /\ [][Next]_vars
------------------------------------------------------------------------------
(***************************************************************************)
(* Properties                                                              *)
(***************************************************************************)
\* Although the four steps of "v8" are not ordered, every build that nothing
\* disturbs gets at least one of them further: whoever has fetched tools and
\* sources and runs `zig build` four times has the library, whatever order the
\* runner chose, whatever other processes do and whatever was interrupted.
BuiltWithinFour == \A p \in Procs : progress[p] # 4

\* A successful build leaves the library and the files it was made from: the
\* tests, which wait for "v8", always find something to link.
SuccessHasLibrary ==
    \A p \in Procs : /\ status[p]["v8"] = "done" => lib # 0 /\ zigDir /\ buildGn # 0
                     /\ status[p]["tests"] # "failed" \/ faults # 0

\* One successful build after an edit of BUILD.gn need not pick the edit up,
\* and neither need two (gn may overwrite build.ninja from the old copy, newer
\* than the fresh copy, and the next ninja may load it first); three do, unless
\* another process is at work at the same time.
SettledWithinThree ==
    \A p \in Procs : settled[p] = 3 => lib = source /\ manifest = source

\* get-v8 takes any ./v8 for a clone.  Only fetching that was itself cut short can
\* leave one that it will never make whole, or a ./tools that get-tools cannot
\* replace; building or testing before it, at the same time or in the middle of it
\* never does, and neither do two get-v8 at once.  When get-v8 succeeds, everything
\* is there, or will be once the clone that another process is making is.
FetchStaysPossible ==
    \/ cut \/ cloning # {}
    \/ /\ v8 \in {"absent", "whole"} /\ deps # "broken" /\ tools # "torn"
       /\ \A p \in Procs : status[p]["get_v8_source"] = "done" =>
                            v8 = "whole" /\ deps = "there"

\* build.zig, above the gn command: "we copy over BUILD.gn to
\* gclient/v8/zig/BUILD.gn before we run gn".
CopyBeforeGn ==
    \A p \in Procs : status[p]["run_gn"] = "running" => status[p]["cp"] = "done"
==============================================================================
