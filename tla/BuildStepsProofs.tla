-------------------------- MODULE BuildStepsProofs --------------------------
(***************************************************************************)
(* Proofs about BuildSteps, for any number of processes, any goals and any *)
(* number of edits and faults.                                             *)
(***************************************************************************)
EXTENDS BuildSteps, TLAPS

USE BoundsAssumption

\* Once v8 is whole, what is in it stays there, and so does what was built from it.
Grows == /\ v8 = "whole" => /\ v8' = "whole"
                            /\ zigDir => zigDir'
                            /\ buildGn # 0 => buildGn' # 0
         /\ v8 \in {"torn", "whole"} => v8' \in {"torn", "whole"}
         /\ deps = "there" => deps' = "there"
         /\ tools = "there" => tools' = "there"
         /\ manifest # 0 => manifest' # 0
         /\ lib # 0 => lib' # 0
         /\ faults # 0 => faults' # 0

TreeTyped == /\ v8 \in {"absent", "bare", "torn", "whole"}
             /\ deps \in {"missing", "broken", "there"}
             /\ tools \in {"absent", "torn", "there"}
             /\ cloning \subseteq Procs /\ cut \in BOOLEAN
             /\ zigDir \in BOOLEAN /\ touched \in BOOLEAN
             /\ source \in Versions
             /\ buildGn \in {0} \cup Versions /\ manifest \in {0} \cup Versions
             /\ lib \in {0} \cup Versions
             /\ edits \in 0 .. MaxEdits /\ faults \in 0 .. MaxFaults
             /\ source = edits + 1

\* What was built from what: a library with build.ninja, build.ninja in a whole v8 with
\* the copy of BUILD.gn, the copy in its directory.
Layered == /\ buildGn # 0 => zigDir
           /\ manifest # 0 => v8 = "whole" /\ buildGn # 0
           /\ lib # 0 => manifest # 0

\* A v8 that is neither whole nor absent is being cloned or was left by a clone; what
\* else is there in part was left, too.
FetchOK == /\ cloning # {} => v8 \in {"bare", "torn"}
           /\ v8 \in {"bare", "torn"} => cut \/ cloning # {}
           /\ deps = "broken" \/ tools = "torn" => cut

HistoryTyped == /\ undisturbed \in [Procs -> BOOLEAN]
                /\ progress \in [Procs -> 0 .. 4]
                /\ settled \in [Procs -> 0 .. 3]
StepsTyped == /\ status \in [Procs -> [Steps -> StepStates]]
              /\ seen \in [Procs -> [Steps -> {0} \cup Versions]]

\* What the steps that are done, and those that were seen to be, leave behind.
Leaves(p) ==
    /\ seen[p]["run_gn"] # 0 => v8 = "whole" /\ buildGn # 0
    /\ seen[p]["run_ninja"] # 0 => manifest # 0
    /\ status[p]["run_ninja"] = "done" => lib # 0
    /\ status[p]["v8"] = "done" => lib # 0
    /\ status[p]["tests"] # "failed" \/ faults # 0

\* At most one process clones v8, while its get_v8_source runs; when that succeeds it
\* has taken a v8 with DEPS and fetched the rest.
Clones(p) ==
    /\ p \in cloning => /\ cloning = {p}
                        /\ status[p]["get_v8_source"] = "running"
                        /\ seen[p]["get_v8_source"] = 0
    /\ status[p]["get_v8_source"] = "done" => v8 \in {"torn", "whole"} /\ deps = "there"

\* The stages of the pipeline that p's builds have reached, one by each of them.
Reaches(p) == /\ progress[p] \in 0 .. 3
              /\ progress[p] >= 1 => v8 = "whole" /\ zigDir
              /\ progress[p] >= 2 => buildGn # 0
              /\ progress[p] >= 3 => manifest # 0

\* The next stage is reached by the step for it, however the others end.
Advances(p) ==
    undisturbed[p] =>
        /\ Fetched
        /\ status[p]["mkpath"] = "running" /\ seen[p]["mkpath"] # 0 => zigDir
        /\ status[p]["mkpath"] \in Finished => zigDir
        /\ progress[p] >= 1 /\ status[p]["cp"] \in Finished => buildGn # 0
        /\ progress[p] >= 2 =>
              /\ status[p]["run_gn"] = "running" => seen[p]["run_gn"] # 0
              /\ status[p]["run_gn"] \in Finished => manifest # 0
        /\ progress[p] >= 3 =>
              /\ status[p]["run_ninja"] = "running" => seen[p]["run_ninja"] # 0
              /\ status[p]["run_ninja"] \in Finished => lib # 0

\* Whoever builds v8 runs the whole pipeline.
Whole(p) == status[p]["v8"] # "out" => \A s \in Pipeline : status[p][s] # "out"

IInv == /\ TreeTyped /\ HistoryTyped /\ StepsTyped
        /\ Layered /\ FetchOK
        /\ \A p \in Procs : Leaves(p) /\ Clones(p) /\ Reaches(p) /\ Advances(p) /\ Whole(p)

LEMMA TypedAsTypeOK == TreeTyped /\ HistoryTyped /\ StepsTyped => TypeOK
BY DEF TreeTyped, HistoryTyped, StepsTyped, TypeOK

LEMMA InitIInv == Init => IInv
<1> SUFFICES ASSUME Init PROVE IInv
  OBVIOUS
<1>1. TreeTyped /\ HistoryTyped
  <2>1. 1 \in Versions /\ 0 \in 0 .. MaxEdits /\ 0 \in 0 .. MaxFaults
    BY DEF BoundsAssumption, Versions
  <2>2. TreeTyped
    <3>1. /\ v8 = "absent" /\ deps = "missing" /\ tools = "absent" /\ cloning = {}
          /\ cut = FALSE /\ zigDir = FALSE /\ touched = FALSE
          /\ source = 1 /\ buildGn = 0 /\ manifest = 0 /\ lib = 0 /\ edits = 0 /\ faults = 0
      BY DEF Init
    <3>2. /\ v8 \in {"absent", "bare", "torn", "whole"}
          /\ deps \in {"missing", "broken", "there"} /\ tools \in {"absent", "torn", "there"}
          /\ cloning \subseteq Procs /\ cut \in BOOLEAN /\ zigDir \in BOOLEAN
          /\ touched \in BOOLEAN
      BY <3>1
    <3>3. /\ source \in Versions /\ source = edits + 1
          /\ buildGn \in {0} \cup Versions /\ manifest \in {0} \cup Versions
          /\ lib \in {0} \cup Versions
      BY <2>1, <3>1
    <3>4. edits \in 0 .. MaxEdits /\ faults \in 0 .. MaxFaults
      BY <2>1, <3>1
    <3>5. QED  BY <3>2, <3>3, <3>4 DEF TreeTyped
  <2>3. HistoryTyped
    BY DEF Init, HistoryTyped
  <2>4. QED  BY <2>2, <2>3
<1>2. NothingRuns \in [Steps -> StepStates] /\ NothingSeen \in [Steps -> {0} \cup Versions]
  BY DEF NothingRuns, NothingSeen, StepStates
<1>3. StepsTyped
  BY <1>2 DEF Init, StepsTyped
<1>4. ASSUME NEW p \in Procs
      PROVE  Leaves(p) /\ Clones(p) /\ Reaches(p) /\ Advances(p) /\ Whole(p)
  BY DEF Init, Leaves, Clones, Reaches, Advances, Whole, NothingRuns, NothingSeen, Steps,
     Pipeline
<1>5. Layered /\ FetchOK
  BY DEF Init, Layered, FetchOK
<1>6. QED  BY <1>1, <1>3, <1>4, <1>5 DEF IInv
------------------------------------------------------------------------------
(***************************************************************************)
(* One step of one process goes on, and nothing on the disk goes away.     *)
(***************************************************************************)
StepTaken(p, s, x, y) ==
    /\ p \in Procs /\ s \in Steps /\ status[p][s] # "out"
    /\ x \in StepStates \ {"out"} /\ y \in {0} \cup Versions
    /\ status' = [status EXCEPT ![p][s] = x]
    /\ seen' = [seen EXCEPT ![p][s] = y]
    /\ TreeTyped' /\ Layered' /\ FetchOK' /\ Grows
    /\ \A q \in Procs : q \in cloning' => \/ (q \in cloning /\ cloning' = cloning)
                                          \/ (q = p /\ s = "get_v8_source")
    /\ undisturbed' \in [Procs -> BOOLEAN]
    /\ \A q \in Procs : undisturbed'[q] => undisturbed[q]
    /\ UNCHANGED <<progress, settled>>

\* What the step that has been taken must live up to.
LivesUpTo(p, s, x, y) ==
    /\ s = "mkpath" /\ undisturbed'[p] =>
          (x = "running" /\ y # 0 => zigDir') /\ (x \in Finished => zigDir')
    /\ s = "cp" /\ undisturbed'[p] /\ progress[p] >= 1 => (x \in Finished => buildGn' # 0)
    /\ s = "run_gn" => /\ y # 0 => v8' = "whole" /\ buildGn' # 0
                       /\ undisturbed'[p] /\ progress[p] >= 2 =>
                             (x = "running" => y # 0) /\ (x \in Finished => manifest' # 0)
    /\ s = "run_ninja" => /\ y # 0 => manifest' # 0
                          /\ x = "done" => lib' # 0
                          /\ undisturbed'[p] /\ progress[p] >= 3 =>
                                (x = "running" => y # 0) /\ (x \in Finished => lib' # 0)
    /\ s = "v8" /\ x = "done" => lib' # 0
    /\ s = "get_v8_source" =>
          /\ p \in cloning' => cloning' = {p} /\ x = "running" /\ y = 0
          /\ x = "done" => v8' \in {"torn", "whole"} /\ deps' = "there"
    /\ s = "tests" => x # "failed" \/ faults' # 0

LEMMA StepPreserves ==
  ASSUME IInv, NEW p, NEW s, NEW x, NEW y, StepTaken(p, s, x, y), LivesUpTo(p, s, x, y)
  PROVE  IInv'
<1>1. /\ status' \in [Procs -> [Steps -> StepStates]]
      /\ seen' \in [Procs -> [Steps -> {0} \cup Versions]]
  BY DEF IInv, StepsTyped, StepTaken
<1>2. /\ \A q \in Procs, t \in Steps :
            /\ status'[q][t] = IF q = p /\ t = s THEN x ELSE status[q][t]
            /\ seen'[q][t] = IF q = p /\ t = s THEN y ELSE seen[q][t]
  BY DEF IInv, StepsTyped, StepTaken
<1>3. {"mkpath", "cp", "run_gn", "run_ninja", "v8", "tests", "get_v8_source"} \subseteq Steps
      /\ Pipeline \subseteq Steps
  BY DEF Steps, Pipeline
<1>4. ASSUME NEW q \in Procs PROVE Leaves(q)'
  <2>1. Leaves(q)
    BY DEF IInv
  <2>2. CASE q = p
    BY <2>1, <2>2, <1>2, <1>3 DEF Leaves, StepTaken, LivesUpTo, Grows
  <2>3. CASE q # p
    BY <2>1, <2>3, <1>2, <1>3 DEF Leaves, StepTaken, Grows
  <2>4. QED  BY <2>2, <2>3
<1>5. ASSUME NEW q \in Procs PROVE Reaches(q)'
  <2>1. Reaches(q)
    BY DEF IInv
  <2>2. QED  BY <2>1 DEF Reaches, StepTaken, Grows
<1>6. ASSUME NEW q \in Procs PROVE Advances(q)'
  <2>1. Advances(q)
    BY DEF IInv
  <2>2. CASE q = p
    BY <2>1, <2>2, <1>2, <1>3 DEF Advances, Fetched, StepTaken, LivesUpTo, Grows
  <2>3. CASE q # p
    BY <2>1, <2>3, <1>2, <1>3 DEF Advances, Fetched, StepTaken, Grows
  <2>4. QED  BY <2>2, <2>3
<1>7. ASSUME NEW q \in Procs PROVE Whole(q)'
  <2>1. Whole(q)
    BY DEF IInv
  <2>2. QED  BY <2>1, <1>2, <1>3 DEF Whole, StepTaken
<1>8. ASSUME NEW q \in Procs PROVE Clones(q)'
  <2>1. Clones(q)
    BY DEF IInv
  <2>2. CASE q = p
    BY <2>1, <2>2, <1>2, <1>3 DEF Clones, StepTaken, LivesUpTo, Grows
  <2>3. CASE q # p
    BY <2>1, <2>3, <1>2, <1>3 DEF Clones, StepTaken, Grows
  <2>4. QED  BY <2>2, <2>3
<1>9. TreeTyped' /\ HistoryTyped' /\ Layered' /\ FetchOK'
  BY DEF IInv, HistoryTyped, StepTaken
<1>10. QED  BY <1>1, <1>4, <1>5, <1>6, <1>7, <1>8, <1>9 DEF IInv, StepsTyped

\* dependOn, for the steps that the proofs tell apart.
LEMMA Dependencies ==
  /\ DependsOn["v8"] = Pipeline /\ DependsOn["tests"] = {"v8"}
  /\ DependsOn["run_tests"] = {"tests"} /\ DependsOn["test"] = {"run_tests"}
  /\ DependsOn["install"] = {"v8"} /\ DependsOn["get_v8_source"] = {}
  /\ \A s \in Pipeline : DependsOn[s] = {}
  /\ \A s \in Steps : /\ "v8" \in DependsOn[s] => s \in {"tests", "install"}
                      /\ "tests" \in DependsOn[s] => s = "run_tests"
                      /\ "run_tests" \in DependsOn[s] => s = "test"
                      /\ "test" \notin DependsOn[s] /\ "install" \notin DependsOn[s]
                      /\ DependsOn[s] \subseteq Steps
BY DEF DependsOn, Steps, Pipeline

\* A step found something only if the tree had it.
LEMMA FoundInTree ==
  ASSUME IInv, NEW s \in Looking
  PROVE  /\ Found(s) \in {0} \cup Versions
         /\ s = "mkpath" /\ Found(s) # 0 => zigDir
         /\ s = "run_gn" /\ Found(s) # 0 => v8 = "whole" /\ buildGn # 0 /\ Found(s) = buildGn
         /\ s = "run_gn" /\ Fetched /\ buildGn # 0 => Found(s) # 0
         /\ s = "run_ninja" /\ Found(s) # 0 =>
               Found(s) \in {buildGn, manifest} /\ manifest # 0
         /\ s = "run_ninja" /\ Fetched /\ buildGn # 0 /\ manifest # 0 => Found(s) # 0
<1>1. /\ 1 \in Versions /\ 0 \notin Versions
      /\ buildGn \in {0} \cup Versions /\ manifest \in {0} \cup Versions
  BY DEF IInv, TreeTyped, Versions, BoundsAssumption
<1>2. CASE s = "mkpath"
  BY <1>1, <1>2 DEF Found
<1>3. CASE s = "run_gn"
  BY <1>1, <1>3 DEF Found, Fetched
<1>4. CASE s = "run_ninja"
  BY <1>1, <1>4 DEF Found, Fetched
<1>5. CASE s = "get_v8_source"
  BY <1>1, <1>5 DEF Found
<1>6. QED  BY <1>2, <1>3, <1>4, <1>5 DEF Looking

\* What a step at work finds in the state of its process.
LEMMA WorkerIsIn ==
  ASSUME IInv, NEW p \in Procs, NEW s \in Steps, AtWork(p, s)
  PROVE  /\ status[p][s] \in {"waiting", "running"} /\ s \notin Quiet
         /\ s \in Looking => status[p][s] = "running"
         /\ s = "tests" => lib # 0
         /\ seen[p][s] \in {0} \cup Versions
<1>1. status[p][s] \in {"waiting", "running"} /\ s \notin Quiet
      /\ (s \in Looking => status[p][s] = "running")
  BY DEF AtWork, Ready
<1>2. s = "tests" => lib # 0
  <2> SUFFICES ASSUME s = "tests" PROVE lib # 0
    OBVIOUS
  <2>1. status[p]["v8"] = "done"
    BY Dependencies DEF AtWork, Ready, Looking
  <2>2. QED  BY <2>1 DEF IInv, Leaves
<1>3. seen[p][s] \in {0} \cup Versions
  BY DEF IInv, StepsTyped
<1>4. QED  BY <1>1, <1>2, <1>3

LEMMA StartPreserves ==
  ASSUME IInv, NEW p \in Procs, NEW s \in Steps, Start(p, s) PROVE IInv'
<1> DEFINE y == Found(s)
<1>1. /\ s \in Looking /\ status[p][s] = "waiting"
      /\ status' = [status EXCEPT ![p][s] = "running"]
      /\ seen' = [seen EXCEPT ![p][s] = y]
      /\ UNCHANGED <<v8, deps, tools, cloning, cut, zigDir, source, buildGn, lib, edits,
                     faults, undisturbed, progress, settled>>
  BY DEF Start, Ready, checkouts, bounds, history
<1>2. y \in {0} \cup Versions
  BY <1>1, FoundInTree
<1>3. \/ UNCHANGED <<manifest, touched>>
      \/ s = "run_ninja" /\ y # 0 /\ manifest # 0 /\ manifest' = y /\ touched' = FALSE
  BY <1>1, FoundInTree DEF Start
<1> HIDE DEF y
<1>4. TreeTyped' /\ Grows /\ Layered' /\ FetchOK'
  <2>1. TreeTyped' /\ FetchOK'
    BY <1>1, <1>2, <1>3 DEF IInv, TreeTyped, FetchOK
  <2>2. Grows /\ Layered'
    BY <1>1, <1>2, <1>3 DEF IInv, Grows, Layered
  <2>3. QED  BY <2>1, <2>2
<1>5. StepTaken(p, s, "running", y)
  BY <1>1, <1>2, <1>4 DEF StepTaken, StepStates, IInv, HistoryTyped
<1>6. LivesUpTo(p, s, "running", y)
  <2>1. Reaches(p) /\ Advances(p) /\ progress[p] \in 0 .. 3
    BY DEF IInv, Reaches
  <2>2. /\ s = "mkpath" /\ y # 0 => zigDir'
        /\ s = "run_gn" /\ y # 0 => v8' = "whole" /\ buildGn' # 0
        /\ s = "run_ninja" /\ y # 0 => manifest' # 0
    BY <1>1, <1>3, FoundInTree DEF y
  <2>3. s = "run_gn" /\ undisturbed'[p] /\ progress[p] >= 2 => y # 0
    BY <1>1, <2>1, FoundInTree DEF y, Reaches, Advances
  <2>4. s = "run_ninja" /\ undisturbed'[p] /\ progress[p] >= 3 => y # 0
    <3>1. progress[p] >= 3 => progress[p] >= 2
      BY <2>1
    <3>2. QED  BY <1>1, <2>1, <3>1, FoundInTree DEF y, Reaches, Advances
  <2>5. s = "get_v8_source" => p \notin cloning'
    BY <1>1 DEF IInv, Clones
  <2>6. QED  BY <1>1, <2>2, <2>3, <2>4, <2>5 DEF LivesUpTo, Looking, Finished
<1>7. QED  BY <1>5, <1>6, StepPreserves

\* What a step gives back when it ends, its tree being typed and grown.
LEMMA EndIsStep ==
  ASSUME IInv, NEW p \in Procs, NEW s \in Steps, NEW ok \in BOOLEAN, End(p, s, ok),
         TreeTyped', Layered', FetchOK', Grows, UNCHANGED cloning
  PROVE  StepTaken(p, s, IF ok THEN "done" ELSE "failed", 0)
BY WorkerIsIn DEF End, StepTaken, StepStates, Finished, bounds, history, IInv, HistoryTyped

\* A step that leaves the checkouts alone.
LEMMA CheckoutsKeep ==
  ASSUME IInv, UNCHANGED checkouts
  PROVE  /\ UNCHANGED <<v8, deps, tools, cloning, cut>> /\ FetchOK'
BY DEF IInv, FetchOK, checkouts

LEMMA MakePathPreserves == ASSUME IInv, NEW p \in Procs, MakePath(p) PROVE IInv'
<1> DEFINE creates == seen[p]["mkpath"] = 0 /\ v8 # "absent" /\ ~zigDir
           ok == seen[p]["mkpath"] = 1 \/ creates
           x == IF ok THEN "done" ELSE "failed"
<1>1. /\ End(p, "mkpath", ok) /\ zigDir' = (zigDir \/ creates)
      /\ UNCHANGED <<checkouts, buildGn, touched, manifest, lib, source, edits, faults,
                     undisturbed>>
  BY DEF MakePath, End, bounds, history
<1>2. "mkpath" \in Steps /\ UNCHANGED <<v8, deps, tools, cloning, cut>> /\ FetchOK'
  BY <1>1, CheckoutsKeep DEF Steps, Pipeline
<1>3. TreeTyped' /\ Grows /\ Layered'
  <2>1. zigDir' \in BOOLEAN /\ (zigDir => zigDir')
    BY <1>1 DEF IInv, TreeTyped
  <2>2. QED  BY <1>1, <1>2, <2>1 DEF IInv, TreeTyped, Layered, Grows
<1>4. StepTaken(p, "mkpath", x, 0)
  BY <1>1, <1>2, <1>3, EndIsStep
<1>5. status[p]["mkpath"] = "running"
  BY <1>1, <1>2, WorkerIsIn DEF End, Looking
<1>6. undisturbed'[p] => zigDir'
  BY <1>1, <1>5 DEF IInv, Advances, Fetched
<1>7. LivesUpTo(p, "mkpath", x, 0)
  BY <1>6 DEF LivesUpTo
<1>8. QED  BY <1>4, <1>7, StepPreserves

LEMMA CopyFilePreserves == ASSUME IInv, NEW p \in Procs, CopyFile(p) PROVE IInv'
<1> DEFINE x == IF zigDir THEN "done" ELSE "failed"
<1>1. /\ End(p, "cp", zigDir)
      /\ buildGn' = IF zigDir THEN source ELSE buildGn
      /\ touched' = (touched \/ zigDir)
      /\ UNCHANGED <<checkouts, zigDir, manifest, lib, source, edits, faults, undisturbed>>
  BY DEF CopyFile, End, bounds, history
<1>2. /\ "cp" \in Steps /\ zigDir \in BOOLEAN
      /\ UNCHANGED <<v8, deps, tools, cloning, cut>> /\ FetchOK'
  BY <1>1, CheckoutsKeep DEF Steps, Pipeline, IInv, TreeTyped
<1>3. source \in Versions /\ source # 0
  BY DEF IInv, TreeTyped, Versions
<1>4. TreeTyped' /\ Grows /\ Layered'
  <2>1. touched' \in BOOLEAN
    BY <1>1
  <2>2. buildGn' \in {0} \cup Versions /\ (buildGn # 0 => buildGn' # 0)
    BY <1>1, <1>3 DEF IInv, TreeTyped
  <2>3. TreeTyped'
    BY <1>1, <1>2, <2>1, <2>2 DEF IInv, TreeTyped
  <2>4. QED  BY <1>1, <1>2, <2>2, <2>3 DEF IInv, Layered, Grows
<1>5. StepTaken(p, "cp", x, 0)
  BY <1>1, <1>2, <1>4, EndIsStep
<1>6. progress[p] >= 1 => zigDir
  BY DEF IInv, Reaches
<1>7. LivesUpTo(p, "cp", x, 0)
  BY <1>1, <1>3, <1>6 DEF LivesUpTo
<1>8. QED  BY <1>5, <1>7, StepPreserves

LEMMA RunGnPreserves == ASSUME IInv, NEW p \in Procs, RunGn(p) PROVE IInv'
<1> DEFINE found == seen[p]["run_gn"]
           x == IF found # 0 THEN "done" ELSE "failed"
<1>1. /\ End(p, "run_gn", found # 0)
      /\ manifest' = IF found # 0 THEN found ELSE manifest
      /\ touched' = (touched /\ found = 0)
      /\ UNCHANGED <<checkouts, zigDir, buildGn, lib, source, edits, faults, undisturbed>>
  BY DEF RunGn, End, bounds, history
<1>2. /\ "run_gn" \in Steps /\ AtWork(p, "run_gn") /\ found \in {0} \cup Versions
      /\ status[p]["run_gn"] = "running"
      /\ UNCHANGED <<v8, deps, tools, cloning, cut>> /\ FetchOK'
  BY <1>1, WorkerIsIn, CheckoutsKeep DEF End, Steps, Pipeline, Looking
<1>3. TreeTyped' /\ Grows /\ Layered'
  <2>1. touched' \in BOOLEAN
    BY <1>1
  <2>2. manifest' \in {0} \cup Versions /\ (manifest # 0 => manifest' # 0)
    BY <1>1, <1>2 DEF IInv, TreeTyped
  <2>3. found # 0 => v8 = "whole" /\ buildGn # 0
    BY DEF IInv, Leaves
  <2>4. TreeTyped'
    BY <1>1, <1>2, <2>1, <2>2 DEF IInv, TreeTyped
  <2>5. QED  BY <1>1, <1>2, <2>2, <2>3, <2>4 DEF IInv, Layered, Grows
<1>4. StepTaken(p, "run_gn", x, 0)
  BY <1>1, <1>2, <1>3, EndIsStep
<1>5. undisturbed'[p] /\ progress[p] >= 2 => manifest' # 0
  BY <1>1, <1>2 DEF IInv, Advances
<1>6. LivesUpTo(p, "run_gn", x, 0)
  BY <1>5 DEF LivesUpTo
<1>7. QED  BY <1>4, <1>6, StepPreserves

LEMMA RunNinjaPreserves == ASSUME IInv, NEW p \in Procs, RunNinja(p) PROVE IInv'
<1> DEFINE found == seen[p]["run_ninja"]
           x == IF found # 0 THEN "done" ELSE "failed"
<1>1. /\ End(p, "run_ninja", found # 0)
      /\ lib' = IF found # 0 THEN found ELSE lib
      /\ UNCHANGED <<checkouts, zigDir, buildGn, touched, manifest, source, edits, faults,
                     undisturbed>>
  BY DEF RunNinja, End, bounds, history
<1>2. /\ "run_ninja" \in Steps /\ AtWork(p, "run_ninja") /\ found \in {0} \cup Versions
      /\ status[p]["run_ninja"] = "running"
      /\ UNCHANGED <<v8, deps, tools, cloning, cut>> /\ FetchOK'
  BY <1>1, WorkerIsIn, CheckoutsKeep DEF End, Steps, Pipeline, Looking
<1>3. TreeTyped' /\ Grows /\ Layered'
  <2>1. lib' \in {0} \cup Versions /\ (lib # 0 => lib' # 0)
    BY <1>1, <1>2 DEF IInv, TreeTyped
  <2>2. found # 0 => manifest # 0
    BY DEF IInv, Leaves
  <2>3. QED  BY <1>1, <1>2, <2>1, <2>2 DEF IInv, TreeTyped, Layered, Grows
<1>4. StepTaken(p, "run_ninja", x, 0)
  BY <1>1, <1>2, <1>3, EndIsStep
<1>5. x = "done" => lib' # 0
  BY <1>1
<1>6. undisturbed'[p] /\ progress[p] >= 3 => lib' # 0
  BY <1>1, <1>2 DEF IInv, Advances
<1>7. LivesUpTo(p, "run_ninja", x, 0)
  BY <1>5, <1>6 DEF LivesUpTo
<1>8. QED  BY <1>4, <1>7, StepPreserves

LEMMA CloneToolsPreserves == ASSUME IInv, NEW p \in Procs, CloneTools(p) PROVE IInv'
<1>1. /\ End(p, "clone_tools", tools = "absent")
      /\ tools' = IF tools = "absent" THEN "there" ELSE tools
      /\ UNCHANGED <<v8, deps, cloning, cut, zigDir, buildGn, touched, manifest, lib, source,
                     edits, faults>>
  BY DEF CloneTools, End, bounds
<1>2. TreeTyped' /\ Layered' /\ FetchOK' /\ Grows
  BY <1>1 DEF IInv, TreeTyped, Layered, FetchOK, Grows
<1>3. ASSUME NEW x \in {"done", "failed"} PROVE LivesUpTo(p, "clone_tools", x, 0)
  BY DEF LivesUpTo
<1>4. "clone_tools" \in Steps
  BY DEF Steps
<1>5. QED  BY <1>1, <1>2, <1>3, <1>4, EndIsStep, StepPreserves

LEMMA GetV8SourcePreserves == ASSUME IInv, NEW p \in Procs, GetV8Source(p) PROVE IInv'
<1>1. /\ CanGoOn(p) /\ End(p, "get_v8_source", TRUE) /\ deps' = "there"
      /\ UNCHANGED <<v8, tools, cloning, cut, zigDir, buildGn, touched, manifest, lib, source,
                     edits, faults>>
  BY DEF GetV8Source, End, bounds
<1>2. TreeTyped' /\ Layered' /\ FetchOK' /\ Grows
  BY <1>1 DEF IInv, TreeTyped, Layered, FetchOK, Grows
<1>3. "get_v8_source" \in Steps
  BY DEF Steps
<1>4. StepTaken(p, "get_v8_source", "done", 0)
  BY <1>1, <1>2, <1>3, EndIsStep
<1>5. p \notin cloning'
  BY <1>1 DEF IInv, Clones, CanGoOn
<1>6. LivesUpTo(p, "get_v8_source", "done", 0)
  BY <1>1, <1>5 DEF LivesUpTo, CanGoOn
<1>7. QED  BY <1>4, <1>6, StepPreserves

LEMMA CloneV8Preserves == ASSUME IInv, NEW p \in Procs, CloneV8(p) PROVE IInv'
<1> DEFINE y == seen'[p]["get_v8_source"]
<1>1. /\ status[p]["get_v8_source"] = "running" /\ seen[p]["get_v8_source"] = 0
      /\ UNCHANGED <<status, deps, tools, cut, zigDir, source, buildGn, touched, manifest, lib,
                     edits, faults, undisturbed, progress, settled>>
  BY DEF CloneV8, bounds, history
<1>2. "get_v8_source" \in Steps /\ 1 \in Versions
  BY DEF Steps, Versions, BoundsAssumption
<1>3. /\ \/ v8 = "absent" /\ v8' = "bare" /\ cloning' = {p} /\ y = 0
         \/ p \in cloning /\ v8 = "bare" /\ v8' = "torn" /\ cloning' = cloning /\ y = 0
         \/ p \in cloning /\ v8 = "torn" /\ v8' = "whole" /\ cloning' = {} /\ y = 1
      /\ seen' = [seen EXCEPT ![p]["get_v8_source"] = y]
      /\ status' = [status EXCEPT ![p]["get_v8_source"] = "running"]
  BY <1>1, <1>2 DEF CloneV8, IInv, StepsTyped
<1> HIDE DEF y
<1>4. p \in cloning => cloning = {p}
  BY DEF IInv, Clones
<1>5. TreeTyped' /\ Layered' /\ FetchOK' /\ Grows
  BY <1>1, <1>3, <1>4 DEF IInv, TreeTyped, Layered, FetchOK, Grows
<1>6. \A q \in Procs : q \in cloning' => (q \in cloning /\ cloning' = cloning) \/ q = p
  BY <1>3
<1>7. StepTaken(p, "get_v8_source", "running", y)
  BY <1>1, <1>2, <1>3, <1>5, <1>6 DEF StepTaken, StepStates, IInv, HistoryTyped
<1>8. LivesUpTo(p, "get_v8_source", "running", y)
  BY <1>3, <1>4 DEF LivesUpTo
<1>9. QED  BY <1>7, <1>8, StepPreserves

LEMMA CompilePreserves ==
  ASSUME IInv, NEW p \in Procs, NEW s \in Steps, Compile(p, s) PROVE IInv'
<1> DEFINE x == IF lib # 0 THEN "done" ELSE "failed"
<1>1. /\ s \in {"tests", "build_exe"} /\ End(p, s, lib # 0)
      /\ UNCHANGED <<checkouts, zigDir, buildGn, touched, manifest, lib, source, edits, faults>>
  BY DEF Compile, End, bounds
<1>2. TreeTyped' /\ Layered' /\ FetchOK' /\ Grows /\ UNCHANGED cloning
  BY <1>1, CheckoutsKeep DEF IInv, TreeTyped, Layered, Grows
<1>3. StepTaken(p, s, x, 0)
  BY <1>1, <1>2, EndIsStep
<1>4. s = "tests" => lib # 0
  BY <1>1, WorkerIsIn DEF End
<1>5. LivesUpTo(p, s, x, 0)
  BY <1>1, <1>4 DEF LivesUpTo
<1>6. QED  BY <1>3, <1>5, StepPreserves
------------------------------------------------------------------------------
(***************************************************************************)
(* The runner and its user.                                                *)
(***************************************************************************)
LEMMA PassPreserves ==
  ASSUME IInv, NEW p \in Procs, NEW s \in Steps, Pass(p, s) PROVE IInv'
<1>1. /\ s \in Quiet /\ Ready(p, s) /\ status' = [status EXCEPT ![p][s] = "done"]
      /\ UNCHANGED <<seen, checkouts, zigDir, source, buildGn, touched, manifest, lib,
                     edits, faults, undisturbed, progress, settled>>
  BY DEF Pass, tree, bounds, history
<1>2. seen' = [seen EXCEPT ![p][s] = seen[p][s]] /\ seen[p][s] \in {0} \cup Versions
  BY <1>1 DEF IInv, StepsTyped
<1>3. TreeTyped' /\ Layered' /\ FetchOK' /\ Grows /\ UNCHANGED cloning
  BY <1>1, CheckoutsKeep DEF IInv, TreeTyped, Layered, Grows
<1>4. StepTaken(p, s, "done", seen[p][s])
  BY <1>1, <1>2, <1>3 DEF StepTaken, StepStates, Finished, Ready, IInv, HistoryTyped
<1>5. s = "v8" => lib # 0
  <2> SUFFICES ASSUME s = "v8" PROVE lib # 0
    OBVIOUS
  <2>1. \A d \in Pipeline : status[p][d] = "done"
    BY <1>1, Dependencies DEF Ready
  <2>2. QED  BY <2>1 DEF Pipeline, IInv, Leaves
<1>6. LivesUpTo(p, s, "done", seen[p][s])
  BY <1>1, <1>5 DEF LivesUpTo, Quiet, Pipeline
<1>7. QED  BY <1>4, <1>6, StepPreserves

LEMMA BlockPreserves ==
  ASSUME IInv, NEW p \in Procs, NEW s \in Steps, Block(p, s) PROVE IInv'
<1>1. /\ status[p][s] = "waiting" /\ DependsOn[s] # {}
      /\ status' = [status EXCEPT ![p][s] = "blocked"]
      /\ UNCHANGED <<seen, checkouts, zigDir, source, buildGn, touched, manifest, lib,
                     edits, faults, undisturbed, progress, settled>>
  BY DEF Block, tree, bounds, history
<1>2. seen' = [seen EXCEPT ![p][s] = seen[p][s]] /\ seen[p][s] \in {0} \cup Versions
  BY <1>1 DEF IInv, StepsTyped
<1>3. TreeTyped' /\ Layered' /\ FetchOK' /\ Grows /\ UNCHANGED cloning
  BY <1>1, CheckoutsKeep DEF IInv, TreeTyped, Layered, Grows
<1>4. StepTaken(p, s, "blocked", seen[p][s])
  BY <1>1, <1>2, <1>3 DEF StepTaken, StepStates, Finished, IInv, HistoryTyped
<1>5. s \notin Pipeline /\ s # "get_v8_source"
  BY <1>1, Dependencies
<1>6. LivesUpTo(p, s, "blocked", seen[p][s])
  BY <1>5 DEF LivesUpTo, Pipeline
<1>7. QED  BY <1>4, <1>6, StepPreserves

\* Whatever is cut short, what it leaves is as the invariant says.
LEMMA CutShortKeeps ==
  ASSUME IInv, NEW p \in Procs, NEW S, CutShort(p, S),
         UNCHANGED edits, faults' \in 0 .. MaxFaults, faults # 0 => faults' # 0
  PROVE  /\ TreeTyped' /\ Layered' /\ FetchOK' /\ Grows
         /\ \A q \in Procs : q \in cloning' => q \in cloning /\ cloning' = cloning
         /\ "get_v8_source" \in S => p \notin cloning'
         /\ "get_v8_source" \notin S \/ v8 = "whole" => UNCHANGED <<v8, zigDir, buildGn>>
         /\ UNCHANGED <<manifest, lib, source>>
<1> DEFINE clones == "get_v8_source" \in S /\ p \in cloning
<1>1. /\ \/ UNCHANGED <<v8, zigDir, buildGn, touched>>
         \/ /\ clones /\ v8 = "bare" /\ v8' = "absent"
            /\ zigDir' = FALSE /\ buildGn' = 0 /\ touched' = FALSE
      /\ cloning' = IF clones THEN {} ELSE cloning
      /\ deps' = deps \/ (deps = "missing" /\ deps' = "broken")
      /\ tools' = tools \/ (tools = "absent" /\ tools' \in {"torn", "there"})
      /\ cut' = (\/ cut \/ (clones /\ v8' # "absent")
                 \/ deps' = "broken" \/ tools' = "torn")
      /\ UNCHANGED <<source, manifest, lib>>
  BY DEF CutShort, CutClone
<1>2. cut' \in BOOLEAN
  BY <1>1
<1> HIDE DEF clones
<1>3. TreeTyped'
  BY <1>1, <1>2 DEF IInv, TreeTyped
<1>4. Layered'
  BY <1>1 DEF IInv, Layered
<1>5. clones => v8 \in {"bare", "torn"}
  BY DEF clones, IInv, FetchOK
<1>6. FetchOK'
  BY <1>1, <1>5 DEF IInv, FetchOK
<1>7. Grows
  BY <1>1 DEF Grows
<1>8. QED  BY <1>1, <1>3, <1>4, <1>5, <1>6, <1>7 DEF clones

LEMMA FailByItselfPreserves ==
  ASSUME IInv, NEW p \in Procs, NEW s \in Steps, FailByItself(p, s) PROVE IInv'
<1>1. /\ faults < MaxFaults /\ faults' = faults + 1 /\ AtWork(p, s) /\ s # "get_v8_source"
      /\ status' = [status EXCEPT ![p][s] = "failed"]
      /\ seen' = [seen EXCEPT ![p][s] = 0]
      /\ undisturbed' = [undisturbed EXCEPT ![p] = FALSE]
      /\ CutShort(p, {s})
      /\ UNCHANGED <<edits, progress, settled>>
  BY DEF FailByItself
<1>2. faults' # 0 /\ faults' \in 0 .. MaxFaults
  BY <1>1 DEF IInv, TreeTyped, BoundsAssumption
<1>3. /\ TreeTyped' /\ Layered' /\ FetchOK' /\ Grows
      /\ \A q \in Procs : q \in cloning' => q \in cloning /\ cloning' = cloning
  BY <1>1, <1>2, CutShortKeeps
<1>4. /\ undisturbed' \in [Procs -> BOOLEAN] /\ ~undisturbed'[p]
      /\ \A q \in Procs : undisturbed'[q] => undisturbed[q]
  BY <1>1 DEF IInv, HistoryTyped
<1>5. StepTaken(p, s, "failed", 0)
  BY <1>1, <1>3, <1>4, WorkerIsIn DEF StepTaken, StepStates, Finished
<1>6. LivesUpTo(p, s, "failed", 0)
  BY <1>1, <1>2, <1>4 DEF LivesUpTo
<1>7. QED  BY <1>5, <1>6, StepPreserves

\* A process that starts or stops, and clones nothing then.
LEMMA ProcessPreserves ==
  ASSUME IInv, NEW p \in Procs, NEW row \in [Steps -> {"out", "waiting"}],
         row["v8"] # "out" => \A s \in Pipeline : row[s] # "out",
         status' = [status EXCEPT ![p] = row],
         seen' = seen \/ seen' = [seen EXCEPT ![p] = NothingSeen],
         TreeTyped', Layered', FetchOK', Grows, HistoryTyped',
         p \notin cloning',
         \A q \in Procs : q \in cloning' => q \in cloning /\ cloning' = cloning,
         undisturbed'[p] => Fetched', progress'[p] \in 0 .. 3, Reaches(p)',
         \A q \in Procs \ {p} : /\ undisturbed'[q] => undisturbed[q]
                                /\ progress'[q] = progress[q]
  PROVE  IInv'
<1>1. NothingSeen \in [Steps -> {0} \cup Versions] /\ \A s \in Steps : NothingSeen[s] = 0
  BY DEF NothingSeen
<1>2. row \in [Steps -> StepStates]
  BY DEF StepStates
<1>3. StepsTyped'
  BY <1>1, <1>2 DEF IInv, StepsTyped
<1>4. /\ status'[p] = row
      /\ \A q \in Procs \ {p} : status'[q] = status[q] /\ seen'[q] = seen[q]
      /\ \A s \in Steps : seen'[p][s] = seen[p][s] \/ seen'[p][s] = 0
  BY <1>1 DEF IInv, StepsTyped
<1>5. {"mkpath", "cp", "run_gn", "run_ninja", "v8", "tests", "get_v8_source"} \subseteq Steps
      /\ Pipeline \subseteq Steps
  BY DEF Steps, Pipeline
<1>6. Leaves(p)' /\ Clones(p)' /\ Advances(p)' /\ Whole(p)'
  <2>1. Leaves(p)'
    BY <1>4, <1>5 DEF IInv, Leaves, Grows
  <2>2. Advances(p)'
    BY <1>4, <1>5 DEF Advances, Fetched, Finished
  <2>3. Whole(p)'
    BY <1>4 DEF Whole
  <2>4. Clones(p)'
    BY <1>4, <1>5 DEF Clones
  <2>5. QED  BY <2>1, <2>2, <2>3, <2>4
<1>7. ASSUME NEW q \in Procs \ {p}
      PROVE  Leaves(q)' /\ Clones(q)' /\ Reaches(q)' /\ Advances(q)' /\ Whole(q)'
  <2>1. Leaves(q) /\ Clones(q) /\ Reaches(q) /\ Advances(q) /\ Whole(q)
    BY DEF IInv
  <2>2. Leaves(q)'
    BY <2>1, <1>4 DEF Leaves, Grows
  <2>3. Reaches(q)'
    BY <2>1 DEF Reaches, Grows
  <2>4. Advances(q)'
    BY <2>1, <1>4 DEF Advances, Fetched, Grows
  <2>5. Whole(q)'
    BY <2>1, <1>4 DEF Whole
  <2>6. Clones(q)'
    BY <2>1, <1>4 DEF Clones, Grows
  <2>7. QED  BY <2>2, <2>3, <2>4, <2>5, <2>6
<1>8. QED  BY <1>3, <1>6, <1>7 DEF IInv

\* No chain of dependencies is longer than Reached follows it.
OneMore(S) == S \cup UNION {DependsOn[s] : s \in S}

LEMMA OneMoreReaches ==
  ASSUME NEW S \in SUBSET Steps
  PROVE  /\ OneMore(S) \in SUBSET Steps /\ S \subseteq OneMore(S)
         /\ "v8" \in S => Pipeline \subseteq OneMore(S)
         /\ "install" \in S => "v8" \in OneMore(S)
         /\ "tests" \in S => "v8" \in OneMore(S)
         /\ "run_tests" \in S => "tests" \in OneMore(S)
         /\ "test" \in S => "run_tests" \in OneMore(S)
         /\ "v8" \in OneMore(S) => "v8" \in S \/ "tests" \in S \/ "install" \in S
         /\ "tests" \in OneMore(S) => "tests" \in S \/ "run_tests" \in S
         /\ "run_tests" \in OneMore(S) => "run_tests" \in S \/ "test" \in S
         /\ "test" \in OneMore(S) => "test" \in S
         /\ "install" \in OneMore(S) => "install" \in S
<1>1. \A d \in OneMore(S) : d \in S \/ \E s \in S : s \in Steps /\ d \in DependsOn[s]
  BY DEF OneMore
<1>2. \A s \in S : DependsOn[s] \subseteq OneMore(S)
  BY DEF OneMore
<1>3. S \subseteq OneMore(S)
  BY DEF OneMore
<1>4. OneMore(S) \in SUBSET Steps
  BY <1>1, Dependencies
<1>5. /\ "v8" \in S => Pipeline \subseteq OneMore(S)
      /\ "install" \in S => "v8" \in OneMore(S)
      /\ "tests" \in S => "v8" \in OneMore(S)
      /\ "run_tests" \in S => "tests" \in OneMore(S)
      /\ "test" \in S => "run_tests" \in OneMore(S)
  BY <1>2, Dependencies
<1>6. /\ "v8" \in OneMore(S) => "v8" \in S \/ "tests" \in S \/ "install" \in S
      /\ "tests" \in OneMore(S) => "tests" \in S \/ "run_tests" \in S
      /\ "run_tests" \in OneMore(S) => "run_tests" \in S \/ "test" \in S
      /\ "test" \in OneMore(S) => "test" \in S
      /\ "install" \in OneMore(S) => "install" \in S
  BY <1>1, Dependencies
<1>7. QED  BY <1>3, <1>4, <1>5, <1>6

LEMMA ReachedWhole ==
  ASSUME NEW goals \in Goals, "v8" \in Reached[goals]
  PROVE  Pipeline \subseteq Reached[goals]
<1> DEFINE g1 == OneMore(goals)  g2 == OneMore(g1)  g3 == OneMore(g2)  g4 == OneMore(g3)
<1>1. Reached[goals] = g4
  BY DEF Reached, OneMore
<1>2. goals \in SUBSET Steps
  BY GoalsAssumption
<1> HIDE DEF g1, g2, g3, g4
<1>3. /\ g1 \in SUBSET Steps /\ g2 \in SUBSET Steps /\ g3 \in SUBSET Steps
      /\ goals \subseteq g1 /\ g1 \subseteq g2 /\ g2 \subseteq g3
  BY <1>2, OneMoreReaches DEF g1, g2, g3
<1>4. "v8" \in g3 \/ "tests" \in g3 \/ "install" \in g3
  BY <1>1, <1>3, OneMoreReaches DEF g4
<1>5. "install" \in g3 => "v8" \in g3
  <2>1. "install" \in g3 => "install" \in g2
    BY <1>3, OneMoreReaches DEF g3
  <2>2. "install" \in g2 => "v8" \in g3
    BY <1>3, OneMoreReaches DEF g3
  <2>3. QED  BY <2>1, <2>2
<1>6. "tests" \in g3 => "v8" \in g3
  <2>1. "tests" \in g3 => "tests" \in g2 \/ "run_tests" \in g2
    BY <1>3, OneMoreReaches DEF g3
  <2>2. "tests" \in g2 => "v8" \in g3
    BY <1>3, OneMoreReaches DEF g3
  <2>3. "run_tests" \in g2 => "run_tests" \in g1 \/ "test" \in g1
    BY <1>3, OneMoreReaches DEF g2
  <2>4. "test" \in g1 => "run_tests" \in g1
    BY <1>2, OneMoreReaches DEF g1
  <2>5. "run_tests" \in g1 => "tests" \in g2
    BY <1>3, OneMoreReaches DEF g2
  <2>6. QED  BY <2>1, <2>2, <2>3, <2>4, <2>5
<1>7. "v8" \in g3
  BY <1>4, <1>5, <1>6
<1>8. QED  BY <1>1, <1>3, <1>7, OneMoreReaches DEF g4

LEMMA InvokePreserves ==
  ASSUME IInv, NEW p \in Procs, NEW goals \in Goals, Invoke(p, goals) PROVE IInv'
<1> DEFINE row == [s \in Steps |-> IF s \in Reached[goals] THEN "waiting" ELSE "out"]
<1>1. /\ status' = [status EXCEPT ![p] = row]
      /\ undisturbed' = [undisturbed EXCEPT ![p] = Fetched]
      /\ Idle(p)
      /\ UNCHANGED <<seen, checkouts, zigDir, source, buildGn, touched, manifest, lib,
                     edits, faults, progress, settled>>
  BY DEF Invoke, tree, bounds
<1>2. row \in [Steps -> {"out", "waiting"}]
  OBVIOUS
<1>3. row["v8"] # "out" => \A s \in Pipeline : row[s] # "out"
  <2>1. "v8" \in Steps /\ Pipeline \subseteq Steps
    BY DEF Steps
  <2>2. QED  BY <2>1, ReachedWhole
<1> HIDE DEF row
<1>4. /\ TreeTyped' /\ Layered' /\ FetchOK' /\ Grows
      /\ UNCHANGED <<v8, deps, tools, cloning, cut>> /\ p \notin cloning'
  <2>1. "get_v8_source" \in Steps
    BY DEF Steps
  <2>2. p \notin cloning
    BY <1>1, <2>1 DEF IInv, Clones, Idle, NothingRuns
  <2>3. QED  BY <1>1, <2>2, CheckoutsKeep DEF IInv, TreeTyped, Layered, Grows
<1>5. Fetched \in BOOLEAN
  BY DEF Fetched
<1>6. /\ undisturbed' \in [Procs -> BOOLEAN] /\ undisturbed'[p] = Fetched
      /\ \A q \in Procs \ {p} : undisturbed'[q] => undisturbed[q]
  BY <1>1, <1>5 DEF IInv, HistoryTyped
<1>7. HistoryTyped'
  BY <1>1, <1>6 DEF IInv, HistoryTyped
<1>8. Reaches(p)' /\ progress'[p] \in 0 .. 3 /\ (undisturbed'[p] => Fetched')
  BY <1>1, <1>4, <1>6 DEF IInv, Reaches, Fetched
<1>9. QED  BY <1>1, <1>2, <1>3, <1>4, <1>6, <1>7, <1>8, ProcessPreserves

\* A process that ends, or is ended.
LEMMA NothingRunsTyped ==
  /\ NothingRuns \in [Steps -> {"out", "waiting"}]
  /\ NothingRuns["v8"] = "out"
BY DEF NothingRuns, Steps

LEMMA CompletePreserves == ASSUME IInv, NEW p \in Procs, Complete(p) PROVE IInv'
<1> DEFINE reached == {s \in Steps : status[p][s] # "out"}
           counts == "v8" \in reached /\ undisturbed[p]
<1>1. /\ \A s \in reached : status[p][s] \in Finished
      /\ status' = [status EXCEPT ![p] = NothingRuns]
      /\ undisturbed' = [undisturbed EXCEPT ![p] = FALSE]
      /\ progress' = [progress EXCEPT ![p] =
                        IF lib # 0 THEN 0 ELSE IF counts /\ @ < 4 THEN @ + 1 ELSE @]
      /\ UNCHANGED <<seen, checkouts, zigDir, source, buildGn, touched, manifest, lib,
                     edits, faults>>
  BY DEF Complete, tree, bounds
<1>2. settled' \in [Procs -> 0 .. 3]
  <2>1. settled \in [Procs -> 0 .. 3]
    BY DEF IInv, HistoryTyped
  <2>2. /\ settled[p] \in 0 .. 3
        /\ \/ settled' = [settled EXCEPT ![p] = @]
           \/ settled[p] < 3 /\ settled' = [settled EXCEPT ![p] = @ + 1]
    BY <2>1 DEF Complete
  <2>3. QED  BY <2>1, <2>2
<1>3. /\ undisturbed' \in [Procs -> BOOLEAN] /\ ~undisturbed'[p]
      /\ \A q \in Procs \ {p} : undisturbed'[q] => undisturbed[q]
  BY <1>1 DEF IInv, HistoryTyped
<1>4. /\ progress \in [Procs -> 0 .. 4] /\ progress[p] \in 0 .. 3
      /\ Reaches(p) /\ Advances(p) /\ Whole(p)
  BY DEF IInv, HistoryTyped, Reaches
\* A build that counts has the next stage behind it, and the library after the last.
<1>5. ASSUME counts
      PROVE  /\ zigDir
             /\ v8 = "whole"
             /\ progress[p] >= 1 => buildGn # 0
             /\ progress[p] >= 2 => manifest # 0
             /\ progress[p] >= 3 => lib # 0
  <2>1. \A s \in Pipeline : s \in reached
    BY <1>4, <1>5 DEF Whole, Steps
  <2>2. \A s \in Pipeline : status[p][s] \in Finished
    BY <2>1, <1>1
  <2>3. QED  BY <2>2, <1>4, <1>5 DEF Pipeline, Advances, Fetched
<1>6. progress'[p] = IF lib # 0 THEN 0
                     ELSE IF counts THEN progress[p] + 1 ELSE progress[p]
  BY <1>1, <1>4
<1>7. progress'[p] \in 0 .. 3 /\ Reaches(p)'
  <2>0. v8' = v8
    BY <1>1, CheckoutsKeep
  <2>1. CASE lib # 0
    BY <2>1, <1>6 DEF Reaches
  <2>2. CASE lib = 0 /\ counts
    BY <2>0, <2>2, <1>1, <1>4, <1>5, <1>6 DEF Reaches
  <2>3. CASE lib = 0 /\ ~counts
    BY <2>0, <2>3, <1>1, <1>4, <1>6 DEF Reaches
  <2>4. QED  BY <2>1, <2>2, <2>3
<1>8. /\ progress' \in [Procs -> 0 .. 4]
      /\ \A q \in Procs \ {p} : progress'[q] = progress[q]
  BY <1>1, <1>4, <1>6, <1>7
<1>9. /\ TreeTyped' /\ Layered' /\ FetchOK' /\ Grows
      /\ UNCHANGED cloning /\ p \notin cloning'
  <2>1. status[p]["get_v8_source"] # "running"
    BY <1>1 DEF Steps, Finished
  <2>2. QED  BY <1>1, <2>1, CheckoutsKeep DEF IInv, TreeTyped, Layered, Grows, Clones
<1>10. HistoryTyped'
  BY <1>2, <1>3, <1>8 DEF HistoryTyped
<1> HIDE DEF reached, counts
<1>11. QED
  BY <1>1, <1>3, <1>7, <1>8, <1>9, <1>10, NothingRunsTyped, ProcessPreserves

LEMMA ExitsPreserves ==
  ASSUME IInv, NEW p \in Procs, Exits(p), faults' \in 0 .. MaxFaults, faults # 0 => faults' # 0
  PROVE  IInv'
<1>1. /\ status' = [status EXCEPT ![p] = NothingRuns]
      /\ seen' = [seen EXCEPT ![p] = NothingSeen]
      /\ undisturbed' = [undisturbed EXCEPT ![p] = FALSE]
      /\ CutShort(p, Steps)
      /\ UNCHANGED <<edits, progress, settled>>
  BY DEF Exits
<1>2. "get_v8_source" \in Steps
  BY DEF Steps
<1>3. /\ TreeTyped' /\ Layered' /\ FetchOK' /\ Grows /\ p \notin cloning'
      /\ \A q \in Procs : q \in cloning' => q \in cloning /\ cloning' = cloning
  BY <1>1, <1>2, CutShortKeeps
<1>4. /\ undisturbed' \in [Procs -> BOOLEAN] /\ ~undisturbed'[p]
      /\ \A q \in Procs \ {p} : undisturbed'[q] => undisturbed[q]
  BY <1>1 DEF IInv, HistoryTyped
<1>5. HistoryTyped' /\ progress'[p] \in 0 .. 3
  BY <1>1, <1>4 DEF IInv, HistoryTyped, Reaches
<1>6. Reaches(p)'
  BY <1>1, <1>3 DEF IInv, Reaches, Grows
<1>7. QED  BY <1>1, <1>3, <1>4, <1>5, <1>6, NothingRunsTyped, ProcessPreserves

LEMMA InterruptPreserves == ASSUME IInv, NEW p \in Procs, Interrupt(p) PROVE IInv'
<1>1. Exits(p) /\ faults < MaxFaults /\ faults' = faults + 1
  BY DEF Interrupt
<1>2. faults' # 0 /\ faults' \in 0 .. MaxFaults
  BY <1>1 DEF IInv, TreeTyped, BoundsAssumption
<1>3. QED  BY <1>1, <1>2, ExitsPreserves

LEMMA GetV8FailsPreserves == ASSUME IInv, NEW p \in Procs, GetV8Fails(p) PROVE IInv'
<1>1. Exits(p) /\ faults' = faults
  BY DEF GetV8Fails
<1>2. QED  BY <1>1, ExitsPreserves DEF IInv, TreeTyped

LEMMA EditPreserves == ASSUME IInv, Edit PROVE IInv'
<1>1. /\ edits < MaxEdits /\ edits' = edits + 1 /\ source' = source + 1
      /\ settled' = [p \in Procs |-> 0] /\ undisturbed' = [p \in Procs |-> FALSE]
      /\ UNCHANGED <<status, seen, v8, deps, tools, cloning, cut, zigDir, buildGn, touched,
                     manifest, lib, faults, progress>>
  BY DEF Edit, checkouts
<1>2. edits' \in 0 .. MaxEdits /\ source' \in Versions /\ source' = edits' + 1
  BY <1>1 DEF IInv, TreeTyped, Versions, BoundsAssumption
<1>3. TreeTyped'
  BY <1>1, <1>2 DEF IInv, TreeTyped
<1>4. undisturbed' \in [Procs -> BOOLEAN] /\ \A p \in Procs : ~undisturbed'[p]
  BY <1>1
<1>5. HistoryTyped' /\ StepsTyped'
  BY <1>1, <1>4 DEF IInv, HistoryTyped, StepsTyped
<1>6. ASSUME NEW p \in Procs
      PROVE  Leaves(p)' /\ Clones(p)' /\ Reaches(p)' /\ Advances(p)' /\ Whole(p)'
  <2>1. Leaves(p) /\ Clones(p) /\ Reaches(p) /\ Whole(p)
    BY DEF IInv
  <2>2. QED  BY <2>1, <1>1, <1>4 DEF Leaves, Clones, Reaches, Advances, Whole
<1>7. Layered' /\ FetchOK'
  BY <1>1 DEF IInv, Layered, FetchOK
<1>8. QED  BY <1>3, <1>5, <1>6, <1>7 DEF IInv
------------------------------------------------------------------------------
LEMMA NextPreserves == IInv /\ [Next]_vars => IInv'
<1> SUFFICES ASSUME IInv, [Next]_vars PROVE IInv'
  OBVIOUS
<1>1. CASE Edit
  BY <1>1, EditPreserves
<1>2. ASSUME NEW p \in Procs, NEW goals \in Goals, Invoke(p, goals) PROVE IInv'
  BY <1>2, InvokePreserves
<1>3. ASSUME NEW p \in Procs, NEW s \in Steps,
             \/ Start(p, s) \/ Block(p, s) \/ Compile(p, s) \/ Pass(p, s) \/ FailByItself(p, s)
      PROVE  IInv'
  BY <1>3, StartPreserves, BlockPreserves, CompilePreserves, PassPreserves,
     FailByItselfPreserves
<1>4. ASSUME NEW p \in Procs, \/ MakePath(p) \/ CopyFile(p) \/ RunGn(p) \/ RunNinja(p)
                              \/ CloneV8(p) \/ GetV8Source(p) \/ GetV8Fails(p)
                              \/ CloneTools(p)
      PROVE  IInv'
  BY <1>4, MakePathPreserves, CopyFilePreserves, RunGnPreserves, RunNinjaPreserves,
     CloneV8Preserves, GetV8SourcePreserves, GetV8FailsPreserves, CloneToolsPreserves
<1>5. ASSUME NEW p \in Procs, Complete(p) \/ Interrupt(p) PROVE IInv'
  BY <1>5, CompletePreserves, InterruptPreserves
<1>6. CASE UNCHANGED vars
  <2>1. UNCHANGED <<status, seen, v8, deps, tools, cloning, cut, zigDir, source, buildGn,
                    touched, manifest, lib, edits, faults, undisturbed, progress, settled>>
    BY <1>6 DEF vars, tree, checkouts, bounds, history
  <2>2. TreeTyped' /\ HistoryTyped' /\ StepsTyped' /\ Layered' /\ FetchOK'
    BY <2>1 DEF IInv, TreeTyped, HistoryTyped, StepsTyped, Layered, FetchOK
  <2>3. \A p \in Procs : Leaves(p)' /\ Clones(p)' /\ Reaches(p)' /\ Advances(p)' /\ Whole(p)'
    BY <2>1 DEF IInv, Leaves, Clones, Reaches, Advances, Whole, Fetched
  <2>4. QED  BY <2>2, <2>3 DEF IInv
<1>7. QED  BY <1>1, <1>2, <1>3, <1>4, <1>5, <1>6 DEF Next

LEMMA Invariance == Spec => []IInv
BY InitIInv, NextPreserves, PTL DEF Spec

\* The processes and the tree are always of their types.
THEOREM BuildTypes == Spec => []TypeOK
<1>1. IInv => TypeOK
  BY TypedAsTypeOK DEF IInv
<1>2. QED  BY <1>1, Invariance, PTL

\* Whatever order the runners of any number of processes choose, four undisturbed
\* builds have the library.
THEOREM FourBuildsSuffice == Spec => []BuiltWithinFour
<1>1. IInv => BuiltWithinFour
  BY DEF IInv, Reaches, BuiltWithinFour
<1>2. QED  BY <1>1, Invariance, PTL

\* A successful build leaves a library, and the tests never miss it.
THEOREM LibraryForSuccess == Spec => []SuccessHasLibrary
<1>1. IInv => SuccessHasLibrary
  BY DEF IInv, Leaves, Layered, SuccessHasLibrary
<1>2. QED  BY <1>1, Invariance, PTL

\* Whatever builds, tests, edits and other get-v8 go on while ./v8 is fetched, and
\* whichever of them are interrupted: only fetching that was cut short itself leaves a
\* ./v8 or a ./tools that fetching cannot complete.
THEOREM FetchNeverInvalidated == Spec => []FetchStaysPossible
<1>1. IInv => FetchStaysPossible
  BY DEF IInv, TreeTyped, FetchOK, Clones, FetchStaysPossible
<1>2. QED  BY <1>1, Invariance, PTL
------------------------------------------------------------------------------
(***************************************************************************)
(* Processes that build one after the other settle within three builds.  A *)
(* gn or a ninja that another process started before the edit may end      *)
(* after them, and leave what it read then.                                *)
(***************************************************************************)
OneAtATime == \A p, q \in Procs : p = q \/ Idle(p) \/ Idle(q)

\* What p's builds since the last edit have brought up to it: first the copy of
\* BUILD.gn, which everybody's gn then reads; next build.ninja, which everybody's
\* ninja then loads; then the library.
Settles(p) ==
    /\ \A q \in Procs, s \in Steps : seen[q][s] # 0 => status[q][s] = "running"
    /\ undisturbed[p] /\ status[p]["cp"] = "done" => buildGn = source
    /\ settled[p] >= 1 => /\ v8 = "whole" /\ buildGn = source
                          /\ \A q \in Procs : seen[q]["run_gn"] \in {0, source}
                          /\ status[p]["run_gn"] = "done" => manifest = source
    /\ settled[p] >= 2 => /\ manifest = source
                          /\ \A q \in Procs : seen[q]["run_ninja"] \in {0, source}
                          /\ status[p]["run_ninja"] = "done" => lib = source
    /\ settled[p] >= 3 => lib = source

\* Where what a step leaves comes from: BUILD.gn from the repository, build.ninja
\* from what gn read or from the copy, the library from what ninja loaded.
Derives(q, s, x, y) ==
    /\ y # 0 => x = "running"
    /\ v8 = "whole" => v8' = "whole"
    /\ buildGn' \in {buildGn, source} /\ UNCHANGED <<source, settled>>
    /\ \A p \in Procs : undisturbed'[p] => undisturbed[p]
    /\ s = "cp" /\ x = "done" => buildGn' = source
    /\ \/ manifest' \in {manifest, buildGn} /\ ~(s = "run_gn" /\ x = "done")
       \/ s = "run_gn" /\ manifest' = seen[q]["run_gn"] /\ seen[q]["run_gn"] # 0
    /\ s = "run_gn" => y \in {0, buildGn}
    /\ \/ lib' = lib /\ ~(s = "run_ninja" /\ x = "done")
       \/ s = "run_ninja" /\ lib' = seen[q]["run_ninja"] /\ seen[q]["run_ninja"] # 0
    /\ s = "run_ninja" => y \in {0, buildGn, manifest}

LEMMA StepSettles ==
  ASSUME IInv, NEW p \in Procs, Settles(p), NEW q \in Procs, NEW s \in Steps, NEW x, NEW y,
         status' = [status EXCEPT ![q][s] = x], seen' = [seen EXCEPT ![q][s] = y],
         Derives(q, s, x, y)
  PROVE  Settles(p)'
<1>1. \A r \in Procs, t \in Steps :
          /\ status'[r][t] = IF r = q /\ t = s THEN x ELSE status[r][t]
          /\ seen'[r][t] = IF r = q /\ t = s THEN y ELSE seen[r][t]
  BY DEF IInv, StepsTyped
<1>2. {"cp", "run_gn", "run_ninja"} \subseteq Steps
  BY DEF Steps, Pipeline
<1>3. settled' = settled /\ source' = source /\ settled[p] \in 0 .. 3
  BY DEF Derives, IInv, HistoryTyped
<1>4. \A r \in Procs, t \in Steps : seen'[r][t] # 0 => status'[r][t] = "running"
  BY <1>1 DEF Settles, Derives
<1>5. undisturbed'[p] /\ status'[p]["cp"] = "done" => buildGn' = source'
  BY <1>1, <1>2 DEF Settles, Derives
<1>6. settled'[p] >= 1 => /\ v8' = "whole" /\ buildGn' = source'
                          /\ \A r \in Procs : seen'[r]["run_gn"] \in {0, source'}
                          /\ status'[p]["run_gn"] = "done" => manifest' = source'
  <2> SUFFICES ASSUME settled[p] >= 1
               PROVE  /\ v8' = "whole" /\ buildGn' = source
                      /\ \A r \in Procs : seen'[r]["run_gn"] \in {0, source}
                      /\ status'[p]["run_gn"] = "done" => manifest' = source
    BY <1>3
  <2>1. /\ v8 = "whole" /\ buildGn = source
        /\ \A r \in Procs : seen[r]["run_gn"] \in {0, source}
        /\ status[p]["run_gn"] = "done" => manifest = source
    BY DEF Settles
  <2>2. QED  BY <1>1, <1>2, <2>1 DEF Derives
<1>7. settled'[p] >= 2 => /\ manifest' = source'
                          /\ \A r \in Procs : seen'[r]["run_ninja"] \in {0, source'}
                          /\ status'[p]["run_ninja"] = "done" => lib' = source'
  <2> SUFFICES ASSUME settled[p] >= 2
               PROVE  /\ manifest' = source
                      /\ \A r \in Procs : seen'[r]["run_ninja"] \in {0, source}
                      /\ status'[p]["run_ninja"] = "done" => lib' = source
    BY <1>3
  <2>1. settled[p] >= 1
    BY <1>3
  <2>2. /\ buildGn = source /\ manifest = source
        /\ \A r \in Procs : seen[r]["run_ninja"] \in {0, source}
        /\ status[p]["run_ninja"] = "done" => lib = source
    BY <2>1 DEF Settles
  <2>3. manifest' = source
    BY <2>1, <2>2 DEF Settles, Derives
  <2>4. \A r \in Procs : seen'[r]["run_ninja"] \in {0, source}
    BY <1>1, <1>2, <2>2 DEF Derives
  <2>5. status'[p]["run_ninja"] = "done" => lib' = source
    BY <1>1, <1>2, <2>2 DEF Derives
  <2>6. QED  BY <2>3, <2>4, <2>5
<1>8. settled'[p] >= 3 => lib' = source'
  <2> SUFFICES ASSUME settled[p] >= 3 PROVE lib' = source
    BY <1>3
  <2>1. settled[p] >= 2
    BY <1>3
  <2>2. lib = source /\ (\A r \in Procs : seen[r]["run_ninja"] \in {0, source})
    BY <2>1 DEF Settles
  <2>3. QED  BY <2>2 DEF Derives
<1>9. QED  BY <1>4, <1>5, <1>6, <1>7, <1>8 DEF Settles

\* What the steps find, and where it comes from.
LEMMA FoundDerives ==
  ASSUME NEW s \in Looking
  PROVE  /\ s = "run_gn" => Found(s) \in {0, buildGn}
         /\ s = "run_ninja" => Found(s) \in {0, buildGn, manifest}
         /\ s \in {"mkpath", "run_gn", "run_ninja", "get_v8_source"}
BY DEF Found, Looking

LEMMA WorkSettles ==
  ASSUME IInv, NEW p \in Procs, Settles(p), NEW q \in Procs, NEW s \in Steps,
         \/ Start(q, s) \/ Block(q, s) \/ Compile(q, s) \/ Pass(q, s)
         \/ FailByItself(q, s) \/ MakePath(q) \/ CopyFile(q) \/ RunGn(q) \/ RunNinja(q)
         \/ CloneV8(q) \/ GetV8Source(q) \/ CloneTools(q)
  PROVE  Settles(p)'
<1>1. {"mkpath", "cp", "run_gn", "run_ninja", "get_v8_source", "clone_tools"} \subseteq Steps
  BY DEF Steps, Pipeline
<1>2. CASE Start(q, s)
  <2> DEFINE y == Found(s)
  <2>1. /\ s \in Looking /\ status' = [status EXCEPT ![q][s] = "running"]
        /\ seen' = [seen EXCEPT ![q][s] = y]
        /\ UNCHANGED <<v8, buildGn, lib, source, settled, undisturbed>>
        /\ manifest' = manifest \/ (s = "run_ninja" /\ manifest' = y /\ y # 0)
    BY <1>2 DEF Start, checkouts, history
  <2>2. /\ s = "run_gn" => y \in {0, buildGn}
        /\ s = "run_ninja" => y \in {0, buildGn, manifest}
    BY <2>1, FoundDerives
  <2> HIDE DEF y
  <2>3. Derives(q, s, "running", y)
    BY <2>1, <2>2 DEF Derives
  <2>4. QED  BY <2>1, <2>3, StepSettles
<1>3. CASE Block(q, s)
  <2>1. /\ status[q][s] = "waiting" /\ status' = [status EXCEPT ![q][s] = "blocked"]
        /\ UNCHANGED <<seen, v8, buildGn, manifest, lib, source, settled, undisturbed>>
    BY <1>3 DEF Block, tree, checkouts, history
  <2>2. seen[q][s] = 0 /\ seen' = [seen EXCEPT ![q][s] = 0]
    BY <2>1 DEF Settles, IInv, StepsTyped
  <2>3. Derives(q, s, "blocked", 0)
    BY <2>1 DEF Derives
  <2>4. QED  BY <2>1, <2>2, <2>3, StepSettles
<1>4. CASE Pass(q, s)
  <2>1. /\ s \in Quiet /\ status[q][s] = "waiting"
        /\ status' = [status EXCEPT ![q][s] = "done"]
        /\ UNCHANGED <<seen, v8, buildGn, manifest, lib, source, settled, undisturbed>>
    BY <1>4 DEF Pass, Ready, tree, checkouts, history
  <2>2. seen[q][s] = 0 /\ seen' = [seen EXCEPT ![q][s] = 0]
    BY <2>1 DEF Settles, IInv, StepsTyped
  <2>3. Derives(q, s, "done", 0)
    BY <2>1 DEF Derives, Quiet
  <2>4. QED  BY <2>1, <2>2, <2>3, StepSettles
<1>5. CASE Compile(q, s)
  <2> DEFINE x == IF lib # 0 THEN "done" ELSE "failed"
  <2>1. /\ s \in {"tests", "build_exe"} /\ status' = [status EXCEPT ![q][s] = x]
        /\ seen' = [seen EXCEPT ![q][s] = 0]
        /\ UNCHANGED <<v8, buildGn, manifest, lib, source, settled, undisturbed>>
    BY <1>5 DEF Compile, End, checkouts, history
  <2>2. Derives(q, s, x, 0)
    BY <2>1 DEF Derives
  <2>3. QED  BY <2>1, <2>2, StepSettles
<1>6. CASE FailByItself(q, s)
  <2>1. /\ status' = [status EXCEPT ![q][s] = "failed"]
        /\ seen' = [seen EXCEPT ![q][s] = 0]
        /\ undisturbed' = [undisturbed EXCEPT ![q] = FALSE]
        /\ UNCHANGED <<v8, buildGn, manifest, lib, source, settled>>
    <3>1. /\ faults < MaxFaults /\ faults' = faults + 1 /\ s # "get_v8_source"
          /\ CutShort(q, {s}) /\ UNCHANGED edits
      BY <1>6 DEF FailByItself
    <3>2. faults' # 0 /\ faults' \in 0 .. MaxFaults
      BY <3>1 DEF IInv, TreeTyped, BoundsAssumption
    <3>3. QED  BY <1>6, <3>1, <3>2, CutShortKeeps DEF FailByItself
  <2>2. \A r \in Procs : undisturbed'[r] => undisturbed[r]
    BY <2>1 DEF IInv, HistoryTyped
  <2>3. Derives(q, s, "failed", 0)
    BY <2>1, <2>2 DEF Derives
  <2>4. QED  BY <2>1, <2>3, StepSettles
<1>7. CASE MakePath(q)
  <2>1. PICK x : /\ status' = [status EXCEPT ![q]["mkpath"] = x]
                 /\ seen' = [seen EXCEPT ![q]["mkpath"] = 0]
                 /\ UNCHANGED <<v8, buildGn, manifest, lib, source, settled, undisturbed>>
    BY <1>7 DEF MakePath, End, checkouts, history
  <2>2. Derives(q, "mkpath", x, 0)
    BY <2>1 DEF Derives
  <2>3. QED  BY <1>1, <2>1, <2>2, StepSettles
<1>8. CASE CopyFile(q)
  <2> DEFINE x == IF zigDir THEN "done" ELSE "failed"
  <2>1. /\ status' = [status EXCEPT ![q]["cp"] = x]
        /\ seen' = [seen EXCEPT ![q]["cp"] = 0]
        /\ buildGn' = IF zigDir THEN source ELSE buildGn
        /\ UNCHANGED <<v8, manifest, lib, source, settled, undisturbed>>
    BY <1>8 DEF CopyFile, End, checkouts, history
  <2>2. Derives(q, "cp", x, 0)
    BY <2>1 DEF Derives
  <2>3. QED  BY <1>1, <2>1, <2>2, StepSettles
<1>9. CASE RunGn(q)
  <2> DEFINE found == seen[q]["run_gn"]  x == IF found # 0 THEN "done" ELSE "failed"
  <2>1. /\ status' = [status EXCEPT ![q]["run_gn"] = x]
        /\ seen' = [seen EXCEPT ![q]["run_gn"] = 0]
        /\ manifest' = IF found # 0 THEN found ELSE manifest
        /\ UNCHANGED <<v8, buildGn, lib, source, settled, undisturbed>>
    BY <1>9 DEF RunGn, End, checkouts, history
  <2>2. Derives(q, "run_gn", x, 0)
    BY <2>1 DEF Derives
  <2>3. QED  BY <1>1, <2>1, <2>2, StepSettles
<1>10. CASE RunNinja(q)
  <2> DEFINE found == seen[q]["run_ninja"]  x == IF found # 0 THEN "done" ELSE "failed"
  <2>1. /\ status' = [status EXCEPT ![q]["run_ninja"] = x]
        /\ seen' = [seen EXCEPT ![q]["run_ninja"] = 0]
        /\ lib' = IF found # 0 THEN found ELSE lib
        /\ UNCHANGED <<v8, buildGn, manifest, source, settled, undisturbed>>
    BY <1>10 DEF RunNinja, End, checkouts, history
  <2>2. Derives(q, "run_ninja", x, 0)
    BY <2>1 DEF Derives
  <2>3. QED  BY <1>1, <2>1, <2>2, StepSettles
<1>11. CASE GetV8Source(q) \/ CloneTools(q)
  <2>1. PICK t \in {"get_v8_source", "clone_tools"}, x \in {"done", "failed"} :
               /\ status' = [status EXCEPT ![q][t] = x]
               /\ seen' = [seen EXCEPT ![q][t] = 0]
               /\ UNCHANGED <<v8, buildGn, manifest, lib, source, settled, undisturbed>>
    BY <1>11 DEF GetV8Source, CloneTools, End, history
  <2>2. Derives(q, t, x, 0)
    BY <2>1 DEF Derives
  <2>3. QED  BY <1>1, <2>1, <2>2, StepSettles
<1>12. CASE CloneV8(q)
  <2> DEFINE t == "get_v8_source"  y == seen'[q]["get_v8_source"]
  <2>1. /\ status[q][t] = "running" /\ v8 # "whole"
        /\ UNCHANGED <<status, buildGn, manifest, lib, source, settled, undisturbed>>
        /\ seen' = seen \/ seen' = [seen EXCEPT ![q][t] = 1]
    BY <1>12 DEF CloneV8, history
  <2>2. /\ status' = [status EXCEPT ![q][t] = "running"]
        /\ seen' = [seen EXCEPT ![q][t] = y]
    BY <1>1, <2>1 DEF IInv, StepsTyped
  <2> HIDE DEF y
  <2>3. Derives(q, t, "running", y)
    BY <2>1 DEF Derives
  <2>4. QED  BY <1>1, <2>2, <2>3, StepSettles
<1>13. QED
  BY <1>2, <1>3, <1>4, <1>5, <1>6, <1>7, <1>8, <1>9, <1>10, <1>11, <1>12

\* A process that starts, is interrupted or sees an edit has looked at nothing
\* that it will act upon.
LEMMA UserSettles ==
  ASSUME IInv, NEW p \in Procs, Settles(p), NEW q \in Procs,
         \/ \E goals \in Goals : Invoke(q, goals)
         \/ Interrupt(q) \/ GetV8Fails(q) \/ Edit
  PROVE  Settles(p)'
<1>1. {"cp", "run_gn", "run_ninja"} \subseteq Steps /\ settled[p] \in 0 .. 3
  BY DEF Steps, Pipeline, IInv, HistoryTyped
<1>2. ASSUME NEW goals \in Goals, Invoke(q, goals) PROVE Settles(p)'
  <2>1. /\ UNCHANGED <<seen, v8, buildGn, manifest, lib, source, settled>>
        /\ \A s \in Steps : status[q][s] = "out" /\ status'[q][s] \in {"out", "waiting"}
        /\ \A r \in Procs \ {q} : status'[r] = status[r] /\ undisturbed'[r] = undisturbed[r]
    BY <1>2 DEF Invoke, Idle, NothingRuns, tree, checkouts, IInv, StepsTyped, HistoryTyped
  <2>2. \A s \in Steps : seen[q][s] = 0
    BY <2>1 DEF Settles
  <2>3. \A r \in Procs, s \in Steps : seen'[r][s] # 0 => status'[r][s] = "running"
    BY <2>1, <2>2 DEF Settles
  <2>4. CASE p = q
    BY <1>1, <2>1, <2>3, <2>4 DEF Settles
  <2>5. CASE p # q
    BY <1>1, <2>1, <2>3, <2>5 DEF Settles
  <2>6. QED  BY <2>4, <2>5
<1>3. CASE Interrupt(q) \/ GetV8Fails(q)
  <2>0. /\ Exits(q) /\ CutShort(q, Steps)
        /\ faults' \in 0 .. MaxFaults /\ (faults # 0 => faults' # 0) /\ UNCHANGED edits
    BY <1>3 DEF Interrupt, GetV8Fails, Exits, IInv, TreeTyped, BoundsAssumption
  <2>1. /\ v8 = "whole" => UNCHANGED <<v8, buildGn>>
        /\ UNCHANGED <<manifest, lib, source, settled>>
        /\ \A s \in Steps : status'[q][s] = "out" /\ seen'[q][s] = 0
        /\ ~undisturbed'[q]
        /\ \A r \in Procs \ {q} : /\ status'[r] = status[r] /\ seen'[r] = seen[r]
                                  /\ undisturbed'[r] = undisturbed[r]
        /\ undisturbed[p] => v8 = "whole"
    <3>1. v8 = "whole" => UNCHANGED <<v8, buildGn>>
      BY <2>0, CutShortKeeps
    <3>2. UNCHANGED <<manifest, lib, source, settled>>
      BY <2>0 DEF CutShort, Exits
    <3>3. undisturbed[p] => v8 = "whole"
      BY DEF IInv, Advances, Fetched
    <3>4. QED  BY <2>0, <3>1, <3>2, <3>3
               DEF Exits, NothingRuns, NothingSeen, IInv, StepsTyped, HistoryTyped
  <2>2. \A r \in Procs, s \in Steps : /\ seen'[r][s] \in {0, seen[r][s]}
                                      /\ seen'[r][s] # 0 => status'[r][s] = "running"
    BY <2>1 DEF Settles
  <2>3. CASE p = q
    BY <1>1, <2>1, <2>2, <2>3 DEF Settles
  <2>4. CASE p # q
    BY <1>1, <2>1, <2>2, <2>4 DEF Settles
  <2>5. QED  BY <2>3, <2>4
<1>4. CASE Edit
  <2>1. /\ UNCHANGED <<status, seen>> /\ settled'[p] = 0 /\ ~undisturbed'[p]
    BY <1>4 DEF Edit
  <2>2. QED  BY <2>1 DEF Settles
<1>5. QED  BY <1>2, <1>3, <1>4

\* The end of somebody else's build is none of p's.
LEMMA OthersSettle ==
  ASSUME IInv, NEW p \in Procs, Settles(p), NEW q \in Procs, Complete(q), p # q
  PROVE  Settles(p)'
<1>1. {"cp", "run_gn", "run_ninja"} \subseteq Steps
  BY DEF Steps, Pipeline
<1>2. /\ \A s \in Steps : status[q][s] # "running"
      /\ UNCHANGED <<seen, v8, buildGn, manifest, lib, source>>
      /\ \A r \in Procs \ {q} : /\ status'[r] = status[r] /\ settled'[r] = settled[r]
                                /\ undisturbed'[r] = undisturbed[r]
  BY DEF Complete, Finished, tree, checkouts, IInv, StepsTyped, HistoryTyped
<1>3. \A s \in Steps : seen[q][s] = 0
  BY <1>2 DEF Settles
<1>4. \A r \in Procs, s \in Steps : seen'[r][s] # 0 => status'[r][s] = "running"
  BY <1>2, <1>3 DEF Settles
<1>5. QED  BY <1>1, <1>2, <1>4 DEF Settles

\* A build that counts ran cp, gn and ninja, and each of them succeeded; when it
\* ends nobody is at work.
LEMMA CompleteSettles ==
  ASSUME IInv, OneAtATime, NEW p \in Procs, Settles(p), Complete(p) PROVE Settles(p)'
<1> DEFINE reached == {s \in Steps : status[p][s] # "out"}
           counted == /\ "v8" \in reached /\ undisturbed[p]
                      /\ \A s \in reached : status[p][s] = "done"
<1>1. {"cp", "run_gn", "run_ninja", "v8"} \subseteq Steps /\ settled[p] \in 0 .. 3
      /\ Pipeline \subseteq Steps /\ {"cp", "run_gn", "run_ninja"} \subseteq Pipeline
  BY DEF Steps, Pipeline, IInv, HistoryTyped
<1>2. /\ ~Idle(p) /\ \A s \in reached : status[p][s] \in Finished
      /\ UNCHANGED <<seen, v8, buildGn, manifest, lib, source>>
      /\ status'[p] = NothingRuns /\ ~undisturbed'[p]
  BY DEF Complete, tree, checkouts, IInv, StepsTyped, HistoryTyped
<1>3. settled'[p] = settled[p] \/ (counted /\ settled'[p] = settled[p] + 1)
  BY DEF Complete, IInv, HistoryTyped
<1>4. /\ \A s \in Steps : status'[p][s] = "out"
      /\ \A q \in Procs, s \in Steps : seen[q][s] = 0 /\ seen'[q][s] = 0
  <2>1. \A s \in Steps : status[p][s] # "running"
    BY <1>2 DEF Finished
  <2>2. \A q \in Procs \ {p}, s \in Steps : status[q][s] = "out"
    BY <1>2 DEF OneAtATime, Idle, NothingRuns
  <2>3. \A q \in Procs, s \in Steps : seen[q][s] = 0
    BY <2>1, <2>2 DEF Settles
  <2>4. QED  BY <1>2, <2>3 DEF NothingRuns
<1>5. CASE settled'[p] = settled[p]
  BY <1>1, <1>2, <1>4, <1>5 DEF Settles
<1>6. CASE counted /\ settled'[p] = settled[p] + 1
  <2>1. \A s \in Pipeline : status[p][s] = "done"
    <3>1. \A s \in Pipeline : s \in reached
      BY <1>1, <1>6 DEF IInv, Whole
    <3>2. QED  BY <1>6, <3>1
  <2>2. /\ v8 = "whole" /\ buildGn = source
        /\ settled[p] >= 1 => manifest = source
        /\ settled[p] >= 2 => lib = source
    BY <1>1, <1>6, <2>1 DEF Settles, IInv, Advances, Fetched
  <2>3. /\ settled'[p] >= 2 => settled[p] >= 1
        /\ settled'[p] >= 3 => settled[p] >= 2
    BY <1>1, <1>6
  <2>4. QED  BY <1>1, <1>2, <1>4, <2>2, <2>3 DEF Settles
<1>7. QED  BY <1>3, <1>5, <1>6

\* Where processes build one after the other, an edit of BUILD.gn is in the library
\* after the third successful build of one of them, whatever order the runner chose
\* in each, whatever the others build, and whatever failed or was interrupted.
THEOREM OneAtATimeSettles == Spec /\ []OneAtATime => []SettledWithinThree
<1> DEFINE AllSettle == \A p \in Procs : Settles(p)
<1>1. Init => AllSettle
  <2>1. \A s \in Steps : NothingSeen[s] = 0 /\ NothingRuns[s] = "out"
    BY DEF NothingSeen, NothingRuns
  <2>2. {"cp", "run_gn", "run_ninja"} \subseteq Steps
    BY DEF Steps, Pipeline
  <2>3. QED  BY <2>1, <2>2 DEF Init, Settles
<1>2. IInv /\ OneAtATime /\ AllSettle /\ [Next]_vars => AllSettle'
  <2> SUFFICES ASSUME IInv, OneAtATime, [Next]_vars, NEW p \in Procs, Settles(p)
               PROVE  Settles(p)'
    OBVIOUS
  <2>1. CASE Next
    <3>1. CASE Edit
      BY <3>1, UserSettles
    <3>2. ASSUME NEW q \in Procs, NEW goals \in Goals, Invoke(q, goals) PROVE Settles(p)'
      BY <3>2, UserSettles
    <3>3. ASSUME NEW q \in Procs, NEW s \in Steps,
                 \/ Start(q, s) \/ Block(q, s) \/ Compile(q, s) \/ Pass(q, s)
                 \/ FailByItself(q, s)
          PROVE  Settles(p)'
      BY <3>3, WorkSettles
    <3>4. ASSUME NEW q \in Procs,
                 \/ MakePath(q) \/ CopyFile(q) \/ RunGn(q) \/ RunNinja(q)
                 \/ CloneV8(q) \/ GetV8Source(q) \/ CloneTools(q)
          PROVE  Settles(p)'
      <4>1. "cp" \in Steps
        BY DEF Steps, Pipeline
      <4>2. QED  BY <3>4, <4>1, WorkSettles
    <3>5. ASSUME NEW q \in Procs, Complete(q) PROVE Settles(p)'
      BY <3>5, CompleteSettles, OthersSettle
    <3>6. ASSUME NEW q \in Procs, Interrupt(q) \/ GetV8Fails(q) PROVE Settles(p)'
      BY <3>6, UserSettles
    <3>7. QED  BY <2>1, <3>1, <3>2, <3>3, <3>4, <3>5, <3>6 DEF Next
  <2>2. CASE UNCHANGED vars
    <3>1. UNCHANGED <<status, seen, v8, buildGn, manifest, lib, source, undisturbed, settled>>
      BY <2>2 DEF vars, tree, checkouts, history
    <3>2. QED  BY <3>1 DEF Settles
  <2>3. QED  BY <2>1, <2>2
<1>3. IInv /\ AllSettle => SettledWithinThree
  <2> SUFFICES ASSUME NEW p \in Procs, Settles(p), settled[p] = 3
               PROVE  lib = source /\ manifest = source
    BY DEF SettledWithinThree
  <2>1. QED  BY DEF Settles
<1> HIDE DEF AllSettle
<1>4. QED  BY <1>1, <1>2, <1>3, Invariance, PTL DEF Spec
=============================================================================
