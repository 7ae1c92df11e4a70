---------------------------- MODULE MCBuildSteps ----------------------------
(***************************************************************************)
(* Goals for BuildSteps: one goal at a time, as the README of the          *)
(* repository shows them, and several goals on one command line.           *)
(***************************************************************************)
EXTENDS BuildSteps, TLC

RacingGoals == {{"get-tools", "get-v8"}, {"v8"}}

EveryGoal == RacingGoals \cup {{"test"}, {"run", "exe"}, {"get-v8"}, {"install"}}

\* Bound: two processes take part only while nothing was edited, nothing failed
\* and no library was built; then they run only the racing goals, and only one
\* of them has builds that count.
Racing(p) == \A s \in {"tests", "build_exe", "exe", "install"} : status[p][s] = "out"
Takes(p) == progress[p] # 0 \/ settled[p] # 0 \/ ~Idle(p)
OneUserOrRace ==
    \/ /\ edits = 0 /\ faults = 0 /\ lib = 0
       /\ \A p \in Procs : Racing(p)
       /\ \E p \in Procs : progress[p] = 0
    \/ \A p, q \in Procs : p = q \/ ~Takes(p) \/ ~Takes(q)

\* Processes differ only in name.
Symmetry == Permutations(Procs)
=============================================================================
