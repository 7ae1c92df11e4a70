-------------------------------- MODULE GetV8 --------------------------------
(***************************************************************************)
(* GetV8SourceStep.make of build.zig: how `zig build get-v8` brings ./v8   *)
(* and the repositories nested in it to the revisions they are pinned to.  *)
(*                                                                         *)
(* The step is a fixed sequence of commands.  b.run ends the process when  *)
(* a command fails, and the user may end it at any time; either way the    *)
(* next run starts from the beginning and decides by looking at the disk   *)
(* what is still to do.  All it looks at is whether a directory exists,    *)
(* and git leaves one when its clone is cut short: always if it is killed, *)
(* and in its checkout phase also if it is interrupted or fails.           *)
(***************************************************************************)
EXTENDS Naturals, Sequences, SequencesExt

CONSTANTS Windows,      \* whether the host is Windows
          MaxBumps,     \* bound: changes of V8_REVISION
          MaxRemovals,  \* bound: times the user deletes a tree
          MaxDeaths     \* bound: runs that die

ASSUME BoundsAssumption == /\ {MaxBumps, MaxRemovals, MaxDeaths} \subseteq Nat
                           /\ Windows \in BOOLEAN

\* v8, and the keys of v8/DEPS in the order make() fetches them.
Order == << "v8", "build", "buildtools", "buildtools/third_party/libc++/trunk",
            "tools/clang", "third_party/zlib",
            "buildtools/third_party/libc++abi/trunk", "third_party/googletest/src",
            "base/trace_event/common", "third_party/jinja2", "third_party/markupsafe" >>

Trees == Range(Order)

PatchedTrees == {"v8", "build"}

\* The trees whose path lies below that of t.
Below(t) == CASE t = "v8" -> Trees \ {"v8"}
              [] t = "buildtools" -> {"buildtools/third_party/libc++/trunk",
                                      "buildtools/third_party/libc++abi/trunk"}
              [] OTHER -> {}

\* A plausible bug in Commands: every tree is patched.
CommandsPatchingAll(t) == << "stat", "clone", "checkout", "patch" >>

\* The commands of make() that fetch and prepare t.  Cloning and patching are
\* conditional on what the stat before them saw.
Commands(t) == CASE t = "v8" -> << "stat", "clone", "patch", "parse_deps" >>
                 [] t = "build" -> << "stat", "clone", "checkout", "patch", "write_gni" >>
                 [] t = "tools/clang" -> << "stat", "clone", "checkout", "run_hook" >>
                 [] OTHER -> << "stat", "clone", "checkout" >>

\* What a directory is, if there is one: "cloned" with all its files, "torn" fetched
\* but without all its files, where the next run can go on, or "partial", where it
\* cannot until the directory is deleted.
Conditions == {"absent", "partial", "torn", "cloned"}

\* The files written below t; the hook downloads into v8 itself.
FilesIn(t) == CASE t = "v8" -> {"gni", "clang", "lastchange"}
                [] t = "build" -> {"gni", "lastchange"}
                [] OTHER -> {}

VARIABLES
    revision,   \* the version of V8_REVISION
    tree,       \* tree[t]: one of Conditions
    rev,        \* rev[t]: the version checked out; 0 is the default branch
    patched,    \* the trees whose patch is applied, in full
    written,    \* the files make() writes: "gni", "clang", "lastchange"
    turn,       \* the tree whose turn it is, by its place in Order; 0 when no run is
                \* going on, and past the last when all are fetched
    at,         \* the next one of its commands
    absent,     \* local to a run: what the last stat saw
    wanted,     \* local to a run: V8_REVISION as read at its start
    deps,       \* local to a run: the version of v8/DEPS that was parsed
    outcome,    \* how the last run ended: "none", "success" or "failed"
    abandoned,  \* history: trees a run began to clone and died before patching
    bumps, removals, deaths

disk == <<tree, rev, patched, written>>
local == <<turn, at, absent, wanted, deps>>
bounds == <<bumps, removals, deaths>>
vars == <<revision, disk, local, outcome, abandoned, bounds>>

Revisions == 1 .. (MaxBumps + 1)

TypeOK == /\ revision \in Revisions
          /\ tree \in [Trees -> Conditions]
          /\ rev \in [Trees -> {0} \cup Revisions]
          /\ patched \subseteq PatchedTrees
          /\ written \subseteq {"gni", "clang", "lastchange"}
          /\ turn \in 0 .. Len(Order) + 1 /\ at \in 0 .. 5
          /\ absent \in BOOLEAN
          /\ {wanted, deps} \subseteq {0} \cup Revisions
          /\ outcome \in {"none", "success", "failed"}
          /\ abandoned \subseteq PatchedTrees

Init == /\ revision = 1
        /\ tree = [t \in Trees |-> "absent"]
        /\ rev = [t \in Trees |-> 0]
        /\ patched = {} /\ written = {} /\ abandoned = {}
        /\ turn = 0 /\ at = 0 /\ absent = FALSE /\ wanted = 0 /\ deps = 0
        /\ outcome = "none"
        /\ bumps = 0 /\ removals = 0 /\ deaths = 0

------------------------------------------------------------------------------
(***************************************************************************)
(* Between runs.                                                           *)
(***************************************************************************)
Running == turn # 0

NoRun == /\ turn' = 0 /\ at' = 0 /\ absent' = FALSE /\ wanted' = 0 /\ deps' = 0

\* getV8Rev reads V8_REVISION first of all.
Invoke ==
    /\ ~Running
    /\ turn' = 1 /\ at' = 1
    /\ wanted' = revision
    /\ outcome' = "none"
    /\ UNCHANGED <<revision, disk, absent, deps, abandoned, bounds>>

\* The user updates the repository to another V8_REVISION.
BumpRevision ==
    /\ ~Running
    /\ bumps < MaxBumps
    /\ bumps' = bumps + 1
    /\ revision' = revision + 1
    /\ outcome' = "none"
    /\ UNCHANGED <<disk, local, abandoned, removals, deaths>>

\* The user deletes the directory of a tree, and so all that lies below it.
RemoveTree(t) ==
    /\ ~Running
    /\ tree[t] # "absent"
    /\ removals < MaxRemovals
    /\ removals' = removals + 1
    /\ LET gone == {t} \cup Below(t)
       IN /\ tree' = [u \in Trees |-> IF u \in gone THEN "absent" ELSE tree[u]]
          /\ rev' = [u \in Trees |-> IF u \in gone THEN 0 ELSE rev[u]]
          /\ patched' = patched \ gone
          /\ abandoned' = abandoned \ gone
    /\ written' = written \ FilesIn(t)
    /\ outcome' = "none"
    /\ UNCHANGED <<revision, local, bumps, deaths>>
------------------------------------------------------------------------------
(***************************************************************************)
(* The commands of a run.                                                  *)
(***************************************************************************)
Fetching == turn \in DOMAIN Order
Target == Order[turn]
Op(op) == Fetching /\ Commands(Target)[at] = op

Continue == /\ IF Fetching /\ at = Len(Commands(Target))
               THEN turn' = turn + 1 /\ at' = 1
               ELSE turn' = turn /\ at' = at + 1
            /\ UNCHANGED <<wanted, outcome, abandoned>>

Fail == /\ NoRun
        /\ outcome' = "failed"
        /\ UNCHANGED <<disk, abandoned>>

Stat == /\ Op("stat")
        /\ absent' = (tree[Target] = "absent")
        /\ Continue
        /\ UNCHANGED <<revision, disk, deps, bounds>>

\* A plausible bug in Clone: a clone does not say that it cloned.
CloneForgetful ==
    /\ Op("clone")
    /\ IF absent
       THEN /\ tree' = [tree EXCEPT ![Target] = "cloned"]
            /\ rev' = [rev EXCEPT ![Target] = IF Target = "v8" THEN wanted ELSE 0]
       ELSE UNCHANGED <<tree, rev>>
    /\ absent' = FALSE
    /\ Continue
    /\ UNCHANGED <<revision, patched, written, deps, bounds>>

\* git clone, only into a directory that the stat did not find.  v8 is cloned
\* at the wanted revision, the others at their default branch.
Clone == /\ Op("clone")
         /\ IF absent
            THEN /\ tree' = [tree EXCEPT ![Target] = "cloned"]
                 /\ rev' = [rev EXCEPT ![Target] = IF Target = "v8" THEN wanted ELSE 0]
            ELSE UNCHANGED <<tree, rev>>
         /\ Continue
         /\ UNCHANGED <<revision, patched, written, absent, deps, bounds>>

\* A plausible bug in Checkout: only what was just cloned is brought to its pin.
CheckoutOnce == /\ Op("checkout")
                /\ rev' = IF absent THEN [rev EXCEPT ![Target] = deps] ELSE rev
                /\ Continue
                /\ UNCHANGED <<revision, tree, patched, written, absent, deps, bounds>>

\* Whether git or parse_deps.py can go on with what is there of t.
Usable(t) == tree[t] \in {"torn", "cloned"}

\* git checkout, always; it writes the files that a clone did not come to.
Checkout == /\ Op("checkout")
            /\ \/ /\ Usable(Target)
                  /\ tree' = [tree EXCEPT ![Target] = "cloned"]
                  /\ rev' = [rev EXCEPT ![Target] = deps]
                  /\ Continue
                  /\ UNCHANGED <<patched, written, absent, deps>>
               \/ ~Usable(Target) /\ Fail
            /\ UNCHANGED <<revision, bounds>>

\* A plausible bug in Patch: it is applied on every run.
PatchAlways == /\ Op("patch")
               /\ \/ /\ Target \notin patched
                     /\ patched' = patched \cup {Target}
                     /\ Continue
                     /\ UNCHANGED <<tree, rev, written, absent, deps>>
                  \/ Target \in patched /\ Fail
               /\ UNCHANGED <<revision, bounds>>

\* git apply, only after cloning; a patch does not apply a second time, nor on top
\* of a part of itself.
Patch == /\ Op("patch")
         /\ \/ /\ absent /\ Target \notin patched
               /\ patched' = patched \cup {Target}
               /\ Continue
               /\ UNCHANGED <<tree, rev, written, absent, deps>>
            \/ absent /\ Target \in patched /\ Fail
            \/ /\ ~absent
               /\ Continue
               /\ UNCHANGED <<disk, absent, deps>>
         /\ UNCHANGED <<revision, bounds>>

\* parse_deps.py reads v8/DEPS and nothing else of v8, which no command of a run
\* ever checks out again.
ParseDeps == /\ Op("parse_deps")
             /\ \/ /\ Usable("v8")
                   /\ deps' = rev["v8"]
                   /\ Continue
                   /\ UNCHANGED <<disk, absent>>
                \/ ~Usable("v8") /\ Fail
             /\ UNCHANGED <<revision, bounds>>

\* A file that goes into t, or is made by what is there.
Write(t, file) ==
    /\ \/ /\ tree[t] = "cloned"
          /\ written' = written \cup {file}
          /\ Continue
          /\ UNCHANGED <<tree, rev, patched, absent, deps>>
       \/ tree[t] # "cloned" /\ Fail
    /\ UNCHANGED <<revision, bounds>>

\* gclient_args.gni, what the clang hook downloads, and LASTCHANGE.committime.
WriteGni == Op("write_gni") /\ Write("build", "gni")
RunHook == Op("run_hook") /\ Write("tools/clang", "clang")
WriteLastchange == /\ Windows /\ turn = Len(Order) + 1 /\ at = 1
                   /\ Write("build", "lastchange")

Finish == /\ turn = Len(Order) + 1 /\ at = (IF Windows THEN 2 ELSE 1)
          /\ NoRun
          /\ outcome' = "success"
          /\ UNCHANGED <<revision, disk, abandoned, bounds>>

Step == \/ Stat \/ Clone \/ Checkout \/ Patch \/ ParseDeps
        \/ WriteGni \/ RunHook \/ WriteLastchange \/ Finish

\* The trees there without their patch.  A run that finds one leaves it so.
Unpatched == {t \in PatchedTrees \ patched : tree[t] # "absent"}

\* A run that dies leaves the trees that it has unpatched so, for good.
Died == /\ deaths < MaxDeaths
        /\ deaths' = deaths + 1
        /\ NoRun
        /\ outcome' = "failed"
        /\ UNCHANGED <<revision, patched, written, bumps, removals>>
        /\ abandoned' = abandoned \cup Unpatched'

\* A run dies between two commands, or because the next one fails and changes
\* nothing: the network, the disk, the user.
Die == /\ Running
       /\ UNCHANGED <<tree, rev>>
       /\ Died

\* A run dies while git is at work, and git does not clean up.  A clone leaves a
\* directory of which the next run can make something or not; so does a checkout
\* that had begun to replace files, which git will not overwrite then.  A torn v8 is
\* one that has its DEPS, which git writes among the first.
DieInGit == /\ \/ /\ Op("clone") /\ absent
                  /\ \E left \in {"partial", "torn"} : tree' = [tree EXCEPT ![Target] = left]
                  /\ rev' = [rev EXCEPT ![Target] = IF Target = "v8" THEN wanted ELSE 0]
               \/ /\ Op("checkout") /\ Usable(Target)
                  /\ tree' = [tree EXCEPT ![Target] = "partial"]
                  /\ UNCHANGED rev
            /\ Died

Next == \/ Invoke \/ BumpRevision \/ Step \/ Die \/ DieInGit
        \/ \E t \in Trees : RemoveTree(t)

\* A run goes on, and the user runs get-v8 until it succeeds.
Spec == Init /\ [][Next]_vars
FairSpec == Spec /\ WF_vars(Step) /\ WF_vars(Invoke /\ outcome # "success")
------------------------------------------------------------------------------
(***************************************************************************)
(* Properties.                                                             *)
(***************************************************************************)

\* A successful get-v8 leaves every dep whole and at the version that the v8 tree it
\* found or cloned pins it to, never at a default branch or the pin of an older v8,
\* and all the files it writes are there.  v8 itself is whole too, unless a run died
\* before it had patched it (make, build.zig 623-708).
SuccessMeansPinned ==
    outcome = "success" =>
        /\ \A t \in Trees : tree[t] = "cloned" \/ (t = "v8" /\ t \in abandoned)
        /\ \A t \in Trees : rev[t] = rev["v8"]
        /\ rev["v8"] # 0
        /\ FilesIn("v8") \ (IF Windows THEN {} ELSE {"lastchange"}) \subseteq written

\* A successful get-v8 leaves a tree unpatched exactly when an earlier run died
\* after it had begun to clone it and before it had patched it: no other history
\* loses a patch, and once lost it stays lost until the tree is deleted (make
\* 637-640, getDep 587-595).
PatchedUnlessAbandoned ==
    outcome = "success" => PatchedTrees \ patched = abandoned

\* Whatever died, was bumped or deleted, running get-v8 again succeeds, unless
\* git died and left a directory without DEPS, without its objects or with files it
\* will not overwrite: the stat only asks whether the directory exists, so it is
\* never cloned again (586-590, 635-641).
Recovers == []<>(outcome = "success" \/ \E t \in Trees : tree[t] = "partial")

\* What build.zig says: "Apply patch for v8 root." (638), "Apply patch for
\* v8/build" (592).
FetchedIsPatched == outcome = "success" => patched = PatchedTrees
==============================================================================
