----------------------------- MODULE GetV8Proofs -----------------------------
(***************************************************************************)
(* Proofs about GetV8, for hosts of either kind and any number of new      *)
(* revisions, deleted trees and runs that die, in git or not.              *)
(***************************************************************************)
EXTENDS GetV8, TLAPS

USE BoundsAssumption

------------------------------------------------------------------------------
(***************************************************************************)
(* The inductive invariant.                                                *)
(***************************************************************************)

\* What is on the disk, run or no run: v8 has a revision as soon as it is of any use,
\* a torn one is one that a run died on, and only what is there is patched.
DiskOK == /\ Usable("v8") => rev["v8"] # 0
          /\ tree["v8"] = "torn" => "v8" \in abandoned
          /\ \A t \in patched : tree[t] # "absent"

RevisionsOK == bumps \in Nat /\ revision = bumps + 1

\* The tree that this run has cloned and is about to patch.
Pending == {t \in PatchedTrees : /\ Fetching /\ t = Target /\ absent
                                 /\ at \in 3 .. (IF t = "v8" THEN 3 ELSE 4)}

\* The unpatched trees are those that were abandoned and the one that is about to be
\* patched, which is none of them.
PatchesOK == Unpatched = abandoned \cup Pending /\ abandoned \cap Pending = {}

\* Nobody removes a tree between the stat and the clone.
StatOK == /\ Fetching /\ at = 2 => absent \in BOOLEAN /\ (absent <=> tree[Target] = "absent")
          /\ Fetching /\ at = 3 /\ absent => tree[Target] = "cloned"

\* What a run has done for a tree when its turn is over.
Fetched(t) == /\ tree[t] = "cloned" \/ (t = "v8" /\ tree[t] = "torn")
              /\ rev[t] = deps
              /\ t = "build" => "gni" \in written
              /\ t = "tools/clang" => "clang" \in written

\* How many commands there are for t.
Count(t) == Len(Commands(t))

\* How far a run has come.
RunOK == /\ ~Running => at = 0
         /\ Running => outcome = "none" /\ wanted # 0 /\ at > 0
         /\ Fetching => at <= Count(Target)
         /\ turn > 1 => deps # 0 /\ \A k \in 1 .. turn - 1 : Fetched(Order[k])
         /\ Fetching /\ turn > 1 /\ at > 3 => tree[Target] = "cloned" /\ rev[Target] = deps
         /\ turn = 12 => at <= IF Windows THEN 2 ELSE 1
         /\ turn = 12 /\ at = 2 => "lastchange" \in written

SuccessOK == SuccessMeansPinned /\ PatchedUnlessAbandoned

IInv == /\ TypeOK /\ DiskOK /\ RevisionsOK /\ PatchesOK /\ StatOK /\ RunOK /\ SuccessOK
------------------------------------------------------------------------------
(***************************************************************************)
(* The order of the trees, and the commands for each.                      *)
(***************************************************************************)
LEMMA OrderIs ==
    /\ Len(Order) = 11 /\ DOMAIN Order = 1 .. 11
    /\ Order[1] = "v8"
    /\ \A k \in 1 .. 11 : Order[k] \in Trees
    /\ \A t \in Trees : \E k \in 1 .. 11 : t = Order[k]
    /\ {"v8", "build", "tools/clang"} \subseteq Trees
<1>1. Len(Order) = 11 /\ DOMAIN Order = 1 .. 11 /\ Order[1] = "v8"
  BY DEF Order
<1>2. Order[2] = "build" /\ Order[5] = "tools/clang"
  BY DEF Order
<1> QED
  BY <1>1, <1>2 DEF Trees, Range

\* No tree has two turns.
LEMMA OrderDistinct ==
    ASSUME NEW j \in 1 .. 11, NEW k \in 1 .. 11, Order[j] = Order[k] PROVE j = k
BY DEF Order

LEMMA HowMany ==
    ASSUME NEW t \in Trees
    PROVE  Count(t) \in 3 .. 5
BY DEF Commands, Count

LEMMA CommandsAre ==
    ASSUME NEW t \in Trees, NEW n \in Nat, n > 0, n <= Count(t)
    PROVE  /\ Count(t) = IF t = "build" THEN 5
                                 ELSE IF t \in {"v8", "tools/clang"} THEN 4 ELSE 3
           /\ Commands(t)[n] = "stat" <=> n = 1
           /\ Commands(t)[n] = "clone" <=> n = 2
           /\ Commands(t)[n] = "checkout" <=> n = 3 /\ t # "v8"
           /\ Commands(t)[n] = "patch" <=> (t = "v8" /\ n = 3) \/ (t = "build" /\ n = 4)
           /\ Commands(t)[n] = "parse_deps" <=> t = "v8" /\ n = 4
           /\ Commands(t)[n] = "write_gni" <=> t = "build" /\ n = 5
           /\ Commands(t)[n] = "run_hook" <=> t = "tools/clang" /\ n = 4
<1>1. CASE t = "v8"
  <2>1. Commands(t) = << "stat", "clone", "patch", "parse_deps" >>
    BY <1>1 DEF Commands
  <2>2. /\ Count(t) = 4
        /\ Commands(t)[1] = "stat"
        /\ Commands(t)[2] = "clone"
        /\ Commands(t)[3] = "patch"
        /\ Commands(t)[4] = "parse_deps"
    BY <2>1 DEF Count
  <2> QED
    BY <1>1, <2>2
<1>2. CASE t = "build"
  <2>1. Commands(t) = << "stat", "clone", "checkout", "patch", "write_gni" >>
    BY <1>2 DEF Commands
  <2>2. /\ Count(t) = 5
        /\ Commands(t)[1] = "stat"
        /\ Commands(t)[2] = "clone"
        /\ Commands(t)[3] = "checkout"
        /\ Commands(t)[4] = "patch"
        /\ Commands(t)[5] = "write_gni"
    BY <2>1 DEF Count
  <2> QED
    BY <1>2, <2>2
<1>3. CASE t = "tools/clang"
  <2>1. Commands(t) = << "stat", "clone", "checkout", "run_hook" >>
    BY <1>3 DEF Commands
  <2>2. /\ Count(t) = 4
        /\ Commands(t)[1] = "stat"
        /\ Commands(t)[2] = "clone"
        /\ Commands(t)[3] = "checkout"
        /\ Commands(t)[4] = "run_hook"
    BY <2>1 DEF Count
  <2> QED
    BY <1>3, <2>2
<1>4. CASE t \notin {"v8", "build", "tools/clang"}
  <2>1. Commands(t) = << "stat", "clone", "checkout" >>
    BY <1>4 DEF Commands
  <2>2. /\ Count(t) = 3
        /\ Commands(t)[1] = "stat"
        /\ Commands(t)[2] = "clone"
        /\ Commands(t)[3] = "checkout"
    BY <2>1 DEF Count
  <2> QED
    BY <1>4, <2>2
<1> QED
  BY <1>1, <1>2, <1>3, <1>4
------------------------------------------------------------------------------
(***************************************************************************)
(* How a run goes on and how it ends.                                      *)
(***************************************************************************)

\* Whose turn it is, and what the next command is.
LEMMA Turns ==
    ASSUME IInv, Fetching
    PROVE  /\ turn \in 1 .. 11 /\ Target \in Trees /\ (Target = "v8" <=> turn = 1)
           /\ at \in 1 .. 5 /\ at <= Count(Target)
           /\ Count(Target) = IF Target = "build" THEN 5
                                      ELSE IF Target \in {"v8", "tools/clang"} THEN 4 ELSE 3
           /\ Op("stat") <=> at = 1
           /\ Op("clone") <=> at = 2
           /\ Op("checkout") <=> at = 3 /\ Target # "v8"
           /\ Op("patch") <=> (Target = "v8" /\ at = 3) \/ (Target = "build" /\ at = 4)
           /\ Op("parse_deps") <=> Target = "v8" /\ at = 4
           /\ Op("write_gni") <=> Target = "build" /\ at = 5
           /\ Op("run_hook") <=> Target = "tools/clang" /\ at = 4
<1>1. turn \in 1 .. 11 /\ Target = Order[turn]
  BY OrderIs DEF Fetching, Target
<1>2. Target \in Trees /\ (Target = "v8" <=> turn = 1)
  BY <1>1, OrderIs, OrderDistinct
<1>3. at \in 1 .. 5 /\ at <= Count(Target)
  BY <1>1 DEF IInv, TypeOK, RunOK, Running
<1> DEFINE t == Target
           n == at
<1>4. t \in Trees /\ n \in Nat /\ n > 0 /\ n <= Count(t)
  BY <1>2, <1>3
<1> HIDE DEF t, n
<1>5. /\ Count(t) = IF t = "build" THEN 5
                            ELSE IF t \in {"v8", "tools/clang"} THEN 4 ELSE 3
      /\ Commands(t)[n] = "stat" <=> n = 1
      /\ Commands(t)[n] = "clone" <=> n = 2
      /\ Commands(t)[n] = "checkout" <=> n = 3 /\ t # "v8"
      /\ Commands(t)[n] = "patch" <=> (t = "v8" /\ n = 3) \/ (t = "build" /\ n = 4)
      /\ Commands(t)[n] = "parse_deps" <=> t = "v8" /\ n = 4
      /\ Commands(t)[n] = "write_gni" <=> t = "build" /\ n = 5
      /\ Commands(t)[n] = "run_hook" <=> t = "tools/clang" /\ n = 4
  BY <1>4, CommandsAre
<1> QED
  BY <1>1, <1>2, <1>3, <1>5 DEF t, n, Op

\* While it is not its last, the turn goes on.
LEMMA Advances ==
    ASSUME IInv, Fetching, Continue, at # Count(Target)
    PROVE  turn' = turn /\ at' = at + 1 /\ Target' = Target /\ Fetching'
<1>1. turn' = turn /\ at' = at + 1
  BY DEF Continue, Count
<1> QED
  BY <1>1 DEF Target, Fetching

\* A command that leaves the other trees alone, and its own as it has to be when its
\* turn is over, brings the run forward.
LEMMA Continuing ==
    ASSUME IInv, Fetching, Continue, UNCHANGED revision,
           \A u \in Trees \ {Target} : tree'[u] = tree[u] /\ rev'[u] = rev[u],
           written \subseteq written', turn > 1 => deps' = deps,
           at >= 3 /\ turn > 1 => tree'[Target] = "cloned" /\ rev'[Target] = deps,
           turn = 1 /\ at = 4 => /\ tree'["v8"] \in {"torn", "cloned"}
                                 /\ rev'["v8"] = deps' /\ deps' # 0,
           Op("write_gni") => "gni" \in written',
           Op("run_hook") => "clang" \in written'
    PROVE  RunOK' /\ SuccessOK' /\ turn' \in 1 .. 12 /\ at' \in 1 .. 5
<1> PICK k \in 1 .. 11 : k = turn
  BY Turns
<1> PICK t \in Trees : t = Target
  BY Turns
<1>1. /\ t = Order[k] /\ (t = "v8" <=> k = 1)
      /\ Count(t) = IF t = "build" THEN 5
                            ELSE IF t \in {"v8", "tools/clang"} THEN 4 ELSE 3
      /\ at \in 1 .. Count(t)
  BY Turns DEF Target
<1>2. outcome = "none" /\ wanted # 0 /\ UNCHANGED <<outcome, wanted>>
  BY DEF IInv, RunOK, Running, Continue
<1>3. SuccessOK'
  BY <1>2 DEF SuccessOK, SuccessMeansPinned, PatchedUnlessAbandoned
<1>4. \A j \in 1 .. k - 1 : Fetched(Order[j])'
  <2>1. \A j \in 1 .. k - 1 : Fetched(Order[j]) /\ Order[j] \in Trees \ {t}
    <3>1. \A j \in 1 .. k - 1 : Order[j] \in Trees /\ Order[j] # Order[k]
      BY OrderIs, OrderDistinct
    <3> QED
      BY <1>1, <3>1 DEF IInv, RunOK
  <2>2. k > 1 => deps' = deps
    OBVIOUS
  <2> QED
    BY <2>1, <2>2 DEF Fetched
<1>5. k > 1 => deps' # 0
  BY DEF IInv, RunOK
<1>6. CASE at = Count(t)
  <2>1. turn' = k + 1 /\ at' = 1
    BY <1>6 DEF Continue, Count
  <2>2. Fetched(t)' /\ deps' # 0
    <3>1. /\ tree'[t] = "cloned" \/ (t = "v8" /\ tree'[t] = "torn")
          /\ rev'[t] = deps' /\ deps' # 0
      <4>1. CASE k = 1
        <5>1. t = "v8" /\ turn = 1 /\ at = 4
          BY <1>1, <1>6, <4>1
        <5> QED
          BY <5>1
      <4>2. CASE k > 1
        <5>1. at >= 3 /\ turn > 1
          BY <1>1, <1>6, <4>2
        <5> QED
          BY <1>5, <4>2, <5>1
      <4> QED
        BY <4>1, <4>2
    <3>2. (t = "build" => "gni" \in written') /\ (t = "tools/clang" => "clang" \in written')
      BY <1>1, <1>6, Turns
    <3> QED
      BY <3>1, <3>2 DEF Fetched
  <2>3. \A j \in 1 .. k : Fetched(Order[j])'
    BY <1>1, <1>4, <2>2
  <2>4. ASSUME Fetching' PROVE at' <= Count(Target')
    <3>1. PICK u \in Trees : u = Target'
      BY <2>1, <2>4, OrderIs DEF Fetching, Target
    <3>2. Count(u) \in 3 .. 5
      BY HowMany
    <3> QED
      BY <2>1, <3>1, <3>2
  <2> QED
    BY <1>2, <1>3, <2>1, <2>2, <2>3, <2>4 DEF RunOK, Running
<1>7. CASE at # Count(t)
  <2>1. turn' = k /\ at' = at + 1
    BY <1>7 DEF Continue, Count
  <2>2. Target' = t /\ Fetching'
    BY <2>1 DEF Target, Fetching
  <2>3. at' <= Count(t) /\ at' \in 1 .. 5
    BY <1>1, <1>7, <2>1
  <2>4. k > 1 /\ at' > 3 => tree'[t] = "cloned" /\ rev'[t] = deps'
    BY <1>1, <2>1
  <2> QED
    BY <1>1, <1>2, <1>3, <1>4, <1>5, <2>1, <2>2, <2>3, <2>4 DEF RunOK, Running
<1> QED
  BY <1>6, <1>7

\* A run that ends, by itself or not, leaves a disk that the next one can start from.
LEMMA Ending ==
    ASSUME TypeOK, RevisionsOK, NoRun, UNCHANGED <<revision, bumps>>,
           tree' \in [Trees -> Conditions], rev' \in [Trees -> {0} \cup Revisions],
           patched' = patched, written' = written,
           outcome' = "failed", abandoned' \subseteq PatchedTrees
    PROVE  TypeOK' /\ RevisionsOK' /\ StatOK' /\ RunOK' /\ SuccessOK'
<1>1. TypeOK'
  <2>1. absent' \in BOOLEAN
    BY Zenon DEF NoRun
  <2> QED
    BY <2>1, OrderIs DEF TypeOK, NoRun, Revisions
<1>2. StatOK' /\ RunOK'
  BY OrderIs DEF StatOK, RunOK, NoRun, Running, Fetching
<1>3. RevisionsOK' /\ SuccessOK'
  BY DEF RevisionsOK, SuccessOK, SuccessMeansPinned, PatchedUnlessAbandoned
<1> QED
  BY <1>1, <1>2, <1>3

\* No tree is about to be patched when no run is going on.
LEMMA NothingPending == NoRun => Pending' = {}
BY OrderIs DEF NoRun, Pending, Fetching

\* A command that fails is none between the clone and the patch of a tree.
LEMMA FailKeeps ==
    ASSUME IInv, Fail, UNCHANGED <<revision, bounds>>, Pending = {}
    PROVE  IInv'
<1>1. /\ NoRun /\ outcome' = "failed" /\ UNCHANGED <<revision, bumps>>
      /\ UNCHANGED <<tree, rev, patched, written, abandoned>>
  BY DEF Fail, disk, bounds
<1>2. TypeOK' /\ RevisionsOK' /\ StatOK' /\ RunOK' /\ SuccessOK'
  BY <1>1, Ending DEF IInv, TypeOK
<1>3. DiskOK'
  BY <1>1 DEF IInv, DiskOK, Usable
<1>4. PatchesOK'
  BY <1>1, NothingPending DEF IInv, PatchesOK, Unpatched
<1> QED
  BY <1>2, <1>3, <1>4 DEF IInv

LEMMA StatKeeps == ASSUME IInv, Stat PROVE IInv'
<1> PICK t \in Trees : t = Target
  BY Turns DEF Stat, Op
<1>1. /\ Fetching /\ Continue /\ at = 1
      /\ absent' = (tree[Target] = "absent")
      /\ UNCHANGED <<revision, tree, rev, patched, written, deps, abandoned, bumps>>
  BY Turns DEF Stat, Op, Continue, disk, bounds
<1>2. turn' = turn /\ at' = 2 /\ Target' = Target /\ Fetching'
  <2>1. Count(t) > 1
    BY HowMany
  <2> QED
    BY <1>1, <2>1, Advances
<1>3. RunOK' /\ SuccessOK' /\ turn' \in 1 .. 12 /\ at' \in 1 .. 5
  BY <1>1, Continuing, Turns
<1>4. absent' \in BOOLEAN /\ (absent' <=> tree[Target] = "absent")
  BY <1>1, Zenon
<1>5. TypeOK' /\ RevisionsOK'
  BY <1>1, <1>3, <1>4, OrderIs DEF IInv, TypeOK, RevisionsOK, Revisions, Continue
<1>6. StatOK' /\ DiskOK'
  BY <1>1, <1>2, <1>4 DEF IInv, StatOK, DiskOK, Usable
<1>7. PatchesOK'
  BY <1>1, <1>2 DEF IInv, PatchesOK, Unpatched, Pending
<1> QED
  BY <1>3, <1>5, <1>6, <1>7 DEF IInv

LEMMA CloneKeeps == ASSUME IInv, Clone PROVE IInv'
<1> PICK t \in Trees : t = Target
  BY Turns DEF Clone, Op
<1>1. /\ Fetching /\ Continue /\ at = 2
      /\ absent \in BOOLEAN /\ (absent <=> tree[t] = "absent")
      /\ tree' = IF absent THEN [tree EXCEPT ![t] = "cloned"] ELSE tree
      /\ rev' = IF absent THEN [rev EXCEPT ![t] = IF t = "v8" THEN wanted ELSE 0] ELSE rev
      /\ UNCHANGED <<revision, patched, written, absent, deps, abandoned, bumps>>
  BY Turns DEF IInv, StatOK, Clone, Op, Continue, bounds
<1>2. turn' = turn /\ at' = 3 /\ Target' = t /\ Fetching'
  <2>1. Count(t) > 2
    BY HowMany
  <2> QED
    BY <1>1, <2>1, Advances
<1>3. /\ \A u \in Trees \ {t} : tree'[u] = tree[u] /\ rev'[u] = rev[u]
      /\ absent => tree'[t] = "cloned" /\ (t = "v8" => rev'[t] = wanted)
      /\ ~absent => tree' = tree /\ rev' = rev
  BY <1>1 DEF IInv, TypeOK
<1>4. RunOK' /\ SuccessOK' /\ turn' \in 1 .. 12 /\ at' \in 1 .. 5
  BY <1>1, <1>3, Continuing, Turns
<1>5. TypeOK' /\ RevisionsOK' /\ StatOK'
  <2>1. wanted \in {0} \cup Revisions
    BY DEF IInv, TypeOK
  <2>2. rev' \in [Trees -> {0} \cup Revisions]
    BY <1>1, <2>1 DEF IInv, TypeOK
  <2>3. tree' \in [Trees -> Conditions]
    BY <1>1 DEF IInv, TypeOK, Conditions
  <2>4. {wanted', deps'} \subseteq {0} \cup Revisions /\ outcome' = outcome
    BY <1>1 DEF IInv, TypeOK, Continue
  <2> QED
    BY <1>1, <1>2, <1>4, <2>2, <2>3, <2>4, OrderIs
    DEF IInv, TypeOK, RevisionsOK, Revisions, StatOK
<1>6. DiskOK'
  <2>1. wanted # 0
    BY <1>1, Turns DEF IInv, RunOK, Running
  <2>2. "v8" \in Trees /\ patched \subseteq Trees
    BY OrderIs DEF IInv, TypeOK, PatchedTrees
  <2> QED
    BY <1>1, <1>3, <2>1, <2>2 DEF IInv, DiskOK, Usable
<1>7. PatchesOK'
  <2>1. Pending = {} /\ Pending' = {u \in PatchedTrees : u = t /\ absent}
    BY <1>1, <1>2 DEF Pending
  <2>2. absent => t \notin Unpatched /\ t \notin patched
    BY <1>1 DEF IInv, DiskOK, Usable, Unpatched
  <2>3. Unpatched' = Unpatched \cup Pending'
    <3>1. PatchedTrees \subseteq Trees
      BY OrderIs DEF PatchedTrees
    <3> QED
      BY <1>1, <1>3, <2>1, <2>2, <3>1 DEF Unpatched
  <2> QED
    BY <1>1, <2>1, <2>2, <2>3 DEF IInv, PatchesOK
<1> QED
  BY <1>4, <1>5, <1>6, <1>7 DEF IInv

LEMMA CheckoutKeeps == ASSUME IInv, Checkout PROVE IInv'
<1> PICK t \in Trees : t = Target
  BY Turns DEF Checkout, Op
<1>1. Fetching /\ at = 3 /\ t # "v8" /\ turn > 1 /\ UNCHANGED <<revision, bounds, bumps>>
  BY Turns DEF Checkout, Op, bounds
<1>2. CASE /\ Usable(t) /\ tree' = [tree EXCEPT ![t] = "cloned"]
           /\ rev' = [rev EXCEPT ![t] = deps] /\ Continue
           /\ UNCHANGED <<patched, written, absent, deps>>
  <2>1. /\ tree'[t] = "cloned" /\ rev'[t] = deps
        /\ \A u \in Trees \ {t} : tree'[u] = tree[u] /\ rev'[u] = rev[u]
    BY <1>2 DEF IInv, TypeOK
  <2>2. abandoned' = abandoned
    BY <1>2 DEF Continue, Count
  <2>3. RunOK' /\ SuccessOK' /\ turn' \in 1 .. 12 /\ at' \in 1 .. 5
    BY <1>1, <1>2, <2>1, Continuing, Turns
  <2>4. TypeOK' /\ RevisionsOK'
    <3>1. deps \in {0} \cup Revisions
      BY DEF IInv, TypeOK
    <3>2. rev' \in [Trees -> {0} \cup Revisions]
      BY <1>2, <3>1 DEF IInv, TypeOK
    <3>3. tree' \in [Trees -> Conditions]
      BY <1>2 DEF IInv, TypeOK, Conditions
    <3> QED
      BY <1>1, <1>2, <2>2, <2>3, <3>2, <3>3, OrderIs
      DEF IInv, TypeOK, RevisionsOK, Revisions, Continue
  <2>5. DiskOK'
    <3>1. "v8" \in Trees \ {t} /\ patched \subseteq Trees
      BY <1>1, OrderIs DEF IInv, TypeOK, PatchedTrees
    <3> QED
      BY <1>2, <2>1, <2>2, <3>1 DEF IInv, DiskOK, Usable
  <2>6. StatOK'
    BY <1>1, <1>2, Turns DEF StatOK, Continue
  <2>7. Pending' = Pending
    <3>1. CASE t = "build"
      <4>1. turn' = turn /\ at' = 4 /\ Target' = t /\ Fetching'
        <5>1. Count(t) = 5
          BY <1>1, <3>1, Turns
        <5> QED
          BY <1>1, <1>2, <5>1, Advances
      <4> QED
        BY <1>1, <1>2, <3>1, <4>1 DEF Pending
    <3>2. CASE t # "build"
      <4>1. Pending = {}
        BY <1>1, <3>2 DEF Pending, PatchedTrees
      <4>2. at' = 1 \/ turn' = turn
        BY <1>2 DEF Continue, Count
      <4> QED
        BY <1>1, <3>2, <4>1, <4>2 DEF Pending, PatchedTrees, Target
    <3> QED
      BY <3>1, <3>2
  <2>8. PatchesOK'
    <3>1. tree[t] # "absent" /\ PatchedTrees \subseteq Trees
      BY <1>2, OrderIs DEF Usable, PatchedTrees
    <3>2. Unpatched' = Unpatched
      BY <1>2, <2>1, <3>1 DEF Unpatched
    <3> QED
      BY <2>2, <2>7, <3>2 DEF IInv, PatchesOK
  <2> QED
    BY <2>3, <2>4, <2>5, <2>6, <2>8 DEF IInv
<1>3. CASE ~Usable(t) /\ Fail
  <2>1. Pending = {}
    BY <1>1, <1>3 DEF IInv, StatOK, Pending, Usable
  <2> QED
    BY <1>1, <1>3, <2>1, FailKeeps
<1> QED
  BY <1>2, <1>3 DEF Checkout

LEMMA PatchKeeps == ASSUME IInv, Patch PROVE IInv'
<1> PICK t \in PatchedTrees : t = Target
  BY Turns DEF Patch, Op, PatchedTrees
<1>1. /\ Fetching /\ (t = "v8" => at = 3 /\ turn = 1) /\ (t = "build" => at = 4 /\ turn > 1)
      /\ UNCHANGED <<revision, bounds, bumps>>
  BY Turns DEF Patch, Op, bounds
<1>2. Pending = {u \in {t} : absent} /\ Unpatched = abandoned \cup Pending
  BY <1>1 DEF IInv, PatchesOK, Pending, PatchedTrees
<1>3. turn > 1 => tree[t] = "cloned" /\ rev[t] = deps
  BY <1>1 DEF IInv, RunOK, PatchedTrees
<1>4. CASE /\ Continue /\ (absent => t \notin patched)
           /\ patched' = IF absent THEN patched \cup {t} ELSE patched
           /\ UNCHANGED <<tree, rev, written, absent, deps>>
  <2>1. turn' = turn /\ at' = at + 1 /\ Target' = t /\ Fetching'
    <3>1. (t = "v8" => Count(t) = 4) /\ (t = "build" => Count(t) = 5)
      BY <1>1, Turns
    <3>2. t = "v8" \/ t = "build"
      BY DEF PatchedTrees
    <3>3. \/ at = 3 /\ Count(t) = 4
          \/ at = 4 /\ Count(t) = 5
      BY <1>1, <3>1, <3>2
    <3>4. at # Count(t)
      BY <3>3
    <3> QED
      BY <1>1, <1>4, <3>4, Advances
  <2>2. RunOK' /\ SuccessOK' /\ turn' \in 1 .. 12 /\ at' \in 1 .. 5
    <3>1. ~ (turn = 1 /\ at = 4)
      BY <1>1, Turns DEF PatchedTrees
    <3>2. ~ Op("write_gni") /\ ~ Op("run_hook")
      BY <1>1, Turns DEF PatchedTrees
    <3> QED
      BY <1>1, <1>3, <1>4, <3>1, <3>2, Continuing
  <2>3. TypeOK' /\ RevisionsOK' /\ StatOK'
    BY <1>1, <1>4, <2>1, <2>2, OrderIs
    DEF IInv, TypeOK, RevisionsOK, Revisions, StatOK, Continue, PatchedTrees
  <2>4. DiskOK'
    <3>1. absent => tree[t] # "absent"
      BY <1>2, <1>4 DEF Unpatched
    <3>2. abandoned' = abandoned
      BY <1>4 DEF Continue
    <3> QED
      BY <1>4, <3>1, <3>2 DEF IInv, DiskOK, Usable
  <2>5. PatchesOK'
    <3>1. Pending' = {}
      BY <1>1, <2>1 DEF Pending, PatchedTrees
    <3>2. Unpatched' = Unpatched \ {u \in {t} : absent} /\ abandoned' = abandoned
      BY <1>4 DEF Unpatched, Continue
    <3>3. abandoned \cap Pending = {}
      BY DEF IInv, PatchesOK
    <3> QED
      BY <1>2, <3>1, <3>2, <3>3 DEF PatchesOK
  <2> QED
    BY <2>2, <2>3, <2>4, <2>5 DEF IInv
<1>5. CASE absent /\ t \in patched
  BY <1>2, <1>5 DEF Unpatched
<1> QED
  BY <1>4, <1>5 DEF Patch, disk

LEMMA ParseDepsKeeps == ASSUME IInv, ParseDeps PROVE IInv'
<1>1. /\ Fetching /\ at = 4 /\ turn = 1 /\ Target = "v8"
      /\ UNCHANGED <<revision, bounds, bumps>>
  BY Turns DEF ParseDeps, Op, bounds
<1>2. Pending = {}
  BY <1>1 DEF Pending
<1>3. CASE /\ Usable("v8") /\ deps' = rev["v8"] /\ Continue
           /\ UNCHANGED <<tree, rev, patched, written, absent>>
  <2>1. deps' # 0 /\ deps' \in {0} \cup Revisions
    BY <1>3, OrderIs DEF IInv, DiskOK, TypeOK
  <2> tree'["v8"] \in {"torn", "cloned"} /\ rev'["v8"] = deps'
    BY <1>3 DEF Usable
  <2>2. RunOK' /\ SuccessOK' /\ turn' \in 1 .. 12 /\ at' \in 1 .. 5
    <3>1. ~ Op("write_gni") /\ ~ Op("run_hook")
      BY <1>1, Turns
    <3> QED
      BY <1>1, <1>3, <2>1, <3>1, Continuing
  <2>3. turn' = 2 /\ at' = 1
    <3>1. Count(Target) = 4
      BY <1>1, Turns
    <3> QED
      BY <1>1, <1>3, <3>1 DEF Continue, Count
  <2>4. TypeOK' /\ RevisionsOK' /\ StatOK'
    BY <1>1, <1>3, <2>1, <2>2, <2>3, OrderIs
    DEF IInv, TypeOK, RevisionsOK, Revisions, StatOK, Continue
  <2>5. DiskOK'
    BY <1>3 DEF IInv, DiskOK, Usable, Continue
  <2>6. PatchesOK'
    BY <1>2, <1>3, <2>3 DEF IInv, PatchesOK, Unpatched, Pending, PatchedTrees, Continue
  <2> QED
    BY <2>2, <2>4, <2>5, <2>6 DEF IInv
<1>4. CASE Fail
  BY <1>1, <1>2, <1>4, FailKeeps
<1> QED
  BY <1>3, <1>4 DEF ParseDeps, disk

\* The files: what a command writes is there when the turn is over.
LEMMA WriteKeeps ==
    ASSUME IInv, NEW t, NEW file, Write(t, file), Fetching, Pending = {}, at >= 4,
           t = Target, t \in {"build", "tools/clang"}, at = Count(t),
           file \in {"gni", "clang"},
           Op("write_gni") => file = "gni", Op("run_hook") => file = "clang"
    PROVE  IInv'
<1>1. turn > 1 /\ UNCHANGED <<revision, bounds, bumps>>
  BY Turns DEF Write, bounds
<1>2. tree[t] = "cloned" /\ rev[t] = deps
  BY <1>1, Turns DEF IInv, RunOK
<1>3. /\ Continue /\ written' = written \cup {file}
      /\ UNCHANGED <<tree, rev, patched, absent, deps>>
  BY <1>2 DEF Write
<1>4. RunOK' /\ SuccessOK' /\ turn' \in 1 .. 12 /\ at' \in 1 .. 5
  BY <1>1, <1>2, <1>3, Continuing
<1>5. turn' = turn + 1 /\ at' = 1
  BY <1>3 DEF Continue, Count
<1>6. TypeOK' /\ RevisionsOK' /\ StatOK'
  BY <1>1, <1>3, <1>4, <1>5, OrderIs
  DEF IInv, TypeOK, RevisionsOK, Revisions, StatOK, Continue
<1>7. DiskOK'
  BY <1>3 DEF IInv, DiskOK, Usable, Continue
<1>8. PatchesOK'
  BY <1>3, <1>5 DEF IInv, PatchesOK, Unpatched, Pending, Continue
<1> QED
  BY <1>4, <1>6, <1>7, <1>8 DEF IInv

LEMMA WriteGniKeeps == ASSUME IInv, WriteGni PROVE IInv'
<1>1. /\ Fetching /\ Target = "build" /\ at = 5 /\ Count(Target) = 5
      /\ Write("build", "gni") /\ ~ Op("run_hook")
  BY Turns DEF WriteGni, Op
<1>2. Pending = {}
  BY <1>1 DEF Pending
<1> QED
  BY <1>1, <1>2, WriteKeeps

LEMMA RunHookKeeps == ASSUME IInv, RunHook PROVE IInv'
<1>1. /\ Fetching /\ Target = "tools/clang" /\ at = 4 /\ Count(Target) = 4
      /\ Write("tools/clang", "clang") /\ ~ Op("write_gni")
  BY Turns DEF RunHook, Op
<1>2. Pending = {}
  BY <1>1 DEF Pending, PatchedTrees
<1> QED
  BY <1>1, <1>2, WriteKeeps

LEMMA WriteLastchangeKeeps == ASSUME IInv, WriteLastchange PROVE IInv'
<1>1. /\ Windows /\ turn = 12 /\ at = 1 /\ ~Fetching
      /\ UNCHANGED <<revision, bounds, bumps>>
  BY OrderIs DEF WriteLastchange, Write, Fetching, bounds
<1>2. tree["build"] = "cloned"
  <2>1. \A k \in 1 .. 11 : Fetched(Order[k])
    BY <1>1 DEF IInv, RunOK
  <2>2. PICK k \in 1 .. 11 : Order[k] = "build"
    BY OrderIs
  <2> QED
    BY <2>1, <2>2 DEF Fetched
<1>3. /\ written' = written \cup {"lastchange"}
      /\ turn' = 12 /\ at' = 2 /\ ~Fetching'
      /\ UNCHANGED <<tree, rev, patched, absent, deps, wanted, outcome, abandoned>>
  BY <1>1, <1>2, OrderIs DEF WriteLastchange, Write, Continue, Fetching
<1>4. RunOK' /\ SuccessOK'
  <2>1. \A k \in 1 .. 11 : Fetched(Order[k])'
    <3>1. \A k \in 1 .. 11 : Fetched(Order[k])
      BY <1>1 DEF IInv, RunOK
    <3> QED
      BY <1>3, <3>1 DEF Fetched
  <2>2. outcome = "none" /\ deps # 0 /\ wanted # 0
    BY <1>1 DEF IInv, RunOK, Running
  <2> QED
    BY <1>1, <1>3, <2>1, <2>2
    DEF RunOK, Running, SuccessOK, SuccessMeansPinned, PatchedUnlessAbandoned
<1>5. TypeOK' /\ RevisionsOK' /\ StatOK'
  BY <1>1, <1>3, OrderIs DEF IInv, TypeOK, RevisionsOK, Revisions, StatOK
<1>6. DiskOK' /\ PatchesOK'
  BY <1>1, <1>3 DEF IInv, DiskOK, Usable, PatchesOK, Unpatched, Pending
<1> QED
  BY <1>4, <1>5, <1>6 DEF IInv

\* A run that comes to its end has done it all.
LEMMA FinishKeeps == ASSUME IInv, Finish PROVE IInv'
<1>1. /\ turn = 12 /\ at = (IF Windows THEN 2 ELSE 1) /\ ~Fetching
      /\ NoRun /\ outcome' = "success"
      /\ UNCHANGED <<revision, tree, rev, patched, written, abandoned, bumps>>
  BY OrderIs DEF Finish, Fetching, disk, bounds
<1>2. deps # 0 /\ \A t \in Trees : Fetched(t)
  <2>1. deps # 0 /\ \A k \in 1 .. 11 : Fetched(Order[k])
    BY <1>1 DEF IInv, RunOK
  <2> QED
    BY <2>1, OrderIs
<1>3. SuccessMeansPinned'
  <2>1. /\ \A t \in Trees : /\ tree[t] = "cloned" \/ (t = "v8" /\ t \in abandoned)
                           /\ rev[t] = rev["v8"]
        /\ rev["v8"] # 0
    BY <1>2, OrderIs DEF Fetched, IInv, DiskOK
  <2>2. {"gni", "clang"} \subseteq written /\ (Windows => "lastchange" \in written)
    BY <1>1, <1>2, OrderIs DEF Fetched, IInv, RunOK
  <2> QED
    BY <1>1, <2>1, <2>2, OrderIs DEF SuccessMeansPinned, FilesIn
<1>4. PatchedUnlessAbandoned'
  <2>1. Pending = {}
    BY <1>1 DEF Pending
  <2>2. Unpatched = PatchedTrees \ patched
    BY <1>2, OrderIs DEF Unpatched, Fetched, PatchedTrees
  <2> QED
    BY <1>1, <2>1, <2>2 DEF IInv, PatchesOK, PatchedUnlessAbandoned
<1>5. TypeOK' /\ RevisionsOK'
  <2>1. absent' \in BOOLEAN
    BY <1>1, Zenon DEF NoRun
  <2> QED
    BY <1>1, <2>1, OrderIs DEF IInv, TypeOK, RevisionsOK, Revisions, NoRun
<1>6. StatOK' /\ RunOK'
  BY <1>1, OrderIs DEF StatOK, RunOK, NoRun, Running, Fetching
<1>7. DiskOK' /\ PatchesOK'
  <2>1. Pending = {}
    BY <1>1 DEF Pending
  <2> QED
    BY <1>1, <2>1, NothingPending DEF IInv, DiskOK, Usable, PatchesOK, Unpatched
<1> QED
  BY <1>3, <1>4, <1>5, <1>6, <1>7 DEF IInv, SuccessOK
------------------------------------------------------------------------------
(***************************************************************************)
(* What happens to a run, and between runs.                                *)
(***************************************************************************)
\* A run that dies may have changed the tree whose turn it was, if it left it as good
\* for the next run as the invariant says.
LEMMA DyingKeeps ==
    ASSUME IInv, Died, tree' \in [Trees -> Conditions], rev' \in [Trees -> {0} \cup Revisions],
           NEW T \in SUBSET Trees,
           \A t \in T : tree'[t] # "absent",
           \A t \in Trees \ T : tree'[t] = tree[t] /\ rev'[t] = rev[t],
           "v8" \in T => rev'["v8"] # 0 /\ "v8" \notin patched
    PROVE  IInv'
<1>1. /\ NoRun /\ outcome' = "failed" /\ abandoned' = abandoned \cup Unpatched'
      /\ UNCHANGED <<revision, patched, written, bumps>>
  BY DEF Died
<1>2. PatchedTrees \subseteq Trees /\ "v8" \in PatchedTrees /\ patched \subseteq PatchedTrees
  BY OrderIs DEF IInv, TypeOK, PatchedTrees
<1>3. Unpatched \subseteq Unpatched'
  BY <1>1, <1>2 DEF Unpatched
<1>4. abandoned' = Unpatched'
  BY <1>1, <1>3 DEF IInv, PatchesOK
<1>5. TypeOK' /\ RevisionsOK' /\ StatOK' /\ RunOK' /\ SuccessOK'
  <2>1. abandoned' \subseteq PatchedTrees
    BY <1>4 DEF Unpatched
  <2> QED
    BY <1>1, <2>1, Ending DEF IInv
<1>6. DiskOK'
  <2>1. \A t \in patched' : tree'[t] # "absent"
    BY <1>1, <1>2 DEF IInv, DiskOK, Usable
  <2>2. CASE "v8" \in T
    BY <1>1, <1>2, <1>4, <2>1, <2>2 DEF DiskOK, Unpatched
  <2>3. CASE "v8" \notin T
    BY <1>1, <1>2, <2>1, <2>3 DEF IInv, DiskOK, Usable
  <2> QED
    BY <2>2, <2>3
<1>7. PatchesOK'
  BY <1>1, <1>4, NothingPending DEF PatchesOK
<1> QED
  BY <1>5, <1>6, <1>7 DEF IInv

LEMMA DieKeeps == ASSUME IInv, Die PROVE IInv'
<1>1. Died /\ UNCHANGED <<tree, rev>>
  BY DEF Die
<1>2. tree' \in [Trees -> Conditions] /\ rev' \in [Trees -> {0} \cup Revisions]
  BY <1>1 DEF IInv, TypeOK
<1> DEFINE T == {}
<1>3. /\ T \in SUBSET Trees /\ "v8" \notin T
      /\ \A t \in T : tree'[t] # "absent"
      /\ \A t \in Trees \ T : tree'[t] = tree[t] /\ rev'[t] = rev[t]
  BY <1>1
<1> HIDE DEF T
<1> QED
  BY <1>1, <1>2, <1>3, DyingKeeps

LEMMA DieInGitKeeps == ASSUME IInv, DieInGit PROVE IInv'
<1> PICK t \in Trees : t = Target
  BY Turns DEF DieInGit, Op
<1>1. Died /\ Fetching
  BY DEF DieInGit, Op
<1>2. tree \in [Trees -> Conditions] /\ rev \in [Trees -> {0} \cup Revisions]
  BY DEF IInv, TypeOK
<1>3. ASSUME Op("clone"), absent, NEW left \in {"partial", "torn"},
             tree' = [tree EXCEPT ![t] = left],
             rev' = [rev EXCEPT ![t] = IF t = "v8" THEN wanted ELSE 0]
      PROVE  IInv'
  <2>1. wanted \in {0} \cup Revisions /\ wanted # 0
    BY <1>1, Turns DEF IInv, TypeOK, RunOK, Running
  <2>2. tree' \in [Trees -> Conditions] /\ rev' \in [Trees -> {0} \cup Revisions]
    BY <1>2, <1>3, <2>1 DEF Conditions
  <2> DEFINE T == {t}
  <2>3. /\ T \in SUBSET Trees /\ (\A u \in T : u = t)
        /\ \A u \in T : tree'[u] # "absent"
        /\ \A u \in Trees \ T : tree'[u] = tree[u] /\ rev'[u] = rev[u]
        /\ t = "v8" => rev'[t] # 0
    BY <1>2, <1>3, <2>1
  <2> HIDE DEF T
  <2>4. t \notin patched
    <3>1. tree[t] = "absent"
      BY <1>1, <1>3, Turns DEF IInv, StatOK
    <3> QED
      BY <3>1 DEF IInv, DiskOK, Usable
  <2> QED
    BY <1>1, <2>2, <2>3, <2>4, DyingKeeps
<1>4. ASSUME Op("checkout"), tree' = [tree EXCEPT ![t] = "partial"], UNCHANGED rev
      PROVE  IInv'
  <2>1. t # "v8"
    BY <1>1, <1>4, Turns
  <2>2. tree' \in [Trees -> Conditions] /\ rev' \in [Trees -> {0} \cup Revisions]
    BY <1>2, <1>4 DEF Conditions
  <2> DEFINE T == {t}
  <2>3. /\ T \in SUBSET Trees /\ (\A u \in T : u = t)
        /\ \A u \in T : tree'[u] # "absent"
        /\ \A u \in Trees \ T : tree'[u] = tree[u] /\ rev'[u] = rev[u]
    BY <1>2, <1>4
  <2> HIDE DEF T
  <2> QED
    BY <1>1, <2>1, <2>2, <2>3, DyingKeeps
<1> QED
  BY <1>3, <1>4 DEF DieInGit

LEMMA InvokeKeeps == ASSUME IInv, Invoke PROVE IInv'
<1>1. /\ turn = 0 /\ turn' = 1 /\ at' = 1 /\ wanted' = revision /\ outcome' = "none"
      /\ UNCHANGED <<revision, tree, rev, patched, written, absent, deps, abandoned, bumps>>
  BY DEF Invoke, Running, disk, bounds
<1>2. TypeOK' /\ RevisionsOK'
  BY <1>1, OrderIs DEF IInv, TypeOK, RevisionsOK, Revisions
<1>3. StatOK' /\ DiskOK' /\ SuccessOK'
  BY <1>1 DEF StatOK, IInv, DiskOK, Usable, SuccessOK, SuccessMeansPinned, PatchedUnlessAbandoned
<1>4. Pending = {} /\ Pending' = {}
  BY <1>1, OrderIs DEF Pending, Fetching
<1>5. PatchesOK'
  BY <1>1, <1>4 DEF IInv, PatchesOK, Unpatched
<1>6. RunOK'
  <2>1. PICK t \in Trees : t = Target'
    BY <1>1, OrderIs DEF Target
  <2>2. Count(t) \in 3 .. 5
    BY HowMany
  <2>3. at' <= Count(Target')
    <3>1. at' = 1
      BY <1>1
    <3> QED
      BY <2>1, <2>2, <3>1
  <2> QED
    BY <1>1, <2>3 DEF IInv, TypeOK, Revisions, RunOK, Running
<1> QED
  BY <1>2, <1>3, <1>5, <1>6 DEF IInv

LEMMA BumpRevisionKeeps == ASSUME IInv, BumpRevision PROVE IInv'
<1>1. /\ turn = 0 /\ bumps < MaxBumps /\ bumps' = bumps + 1 /\ revision' = revision + 1
      /\ outcome' = "none"
      /\ UNCHANGED <<tree, rev, patched, written, turn, at, absent, wanted, deps, abandoned>>
  BY DEF BumpRevision, Running, disk, local
<1>2. TypeOK' /\ RevisionsOK'
  BY <1>1, OrderIs DEF IInv, TypeOK, RevisionsOK, Revisions
<1>3. StatOK' /\ DiskOK' /\ SuccessOK' /\ RunOK'
  BY <1>1, OrderIs DEF StatOK, IInv, DiskOK, Usable, SuccessOK, SuccessMeansPinned,
     PatchedUnlessAbandoned, Fetching, RunOK, Running
<1>4. PatchesOK'
  BY <1>1, OrderIs DEF IInv, PatchesOK, Unpatched, Pending, Fetching
<1> QED
  BY <1>2, <1>3, <1>4 DEF IInv

LEMMA RemoveTreeKeeps == ASSUME IInv, NEW t \in Trees, RemoveTree(t) PROVE IInv'
<1> DEFINE gone == {t} \cup Below(t)
<1>1. /\ turn = 0 /\ outcome' = "none"
      /\ tree' = [u \in Trees |-> IF u \in gone THEN "absent" ELSE tree[u]]
      /\ rev' = [u \in Trees |-> IF u \in gone THEN 0 ELSE rev[u]]
      /\ patched' = patched \ gone /\ abandoned' = abandoned \ gone
      /\ written' \subseteq written
      /\ UNCHANGED <<revision, turn, at, absent, wanted, deps, bumps>>
  BY DEF RemoveTree, Running, local
<1> HIDE DEF gone
<1>2. TypeOK' /\ RevisionsOK'
  BY <1>1, OrderIs DEF IInv, TypeOK, RevisionsOK, Revisions, Conditions
<1>3. StatOK' /\ SuccessOK' /\ RunOK'
  BY <1>1, OrderIs DEF StatOK, IInv, SuccessOK, SuccessMeansPinned,
     PatchedUnlessAbandoned, Fetching, RunOK, Running
<1>4. PatchedTrees \subseteq Trees /\ "v8" \in Trees /\ patched \subseteq PatchedTrees
  BY OrderIs DEF IInv, TypeOK, PatchedTrees
<1>5. DiskOK'
  BY <1>1, <1>4 DEF IInv, DiskOK, Usable
<1>6. PatchesOK'
  <2>1. Pending = {} /\ Pending' = {}
    BY <1>1, OrderIs DEF Pending, Fetching
  <2>2. Unpatched' = Unpatched \ gone
    BY <1>1, <1>4 DEF Unpatched
  <2> QED
    BY <1>1, <2>1, <2>2 DEF IInv, PatchesOK
<1> QED
  BY <1>2, <1>3, <1>5, <1>6 DEF IInv
------------------------------------------------------------------------------
LEMMA Initially == Init => IInv
<1> SUFFICES ASSUME Init PROVE IInv
  OBVIOUS
<1>1. absent \in BOOLEAN
  BY Zenon DEF Init
<1>2. TypeOK /\ RevisionsOK
  BY <1>1, OrderIs DEF Init, TypeOK, RevisionsOK, Revisions, Conditions
<1>3. StatOK /\ SuccessOK /\ RunOK
  BY OrderIs DEF Init, StatOK, SuccessOK, SuccessMeansPinned, PatchedUnlessAbandoned,
     Fetching, RunOK, Running
<1>4. DiskOK /\ PatchesOK
  BY OrderIs DEF Init, DiskOK, Usable, PatchesOK, Unpatched, Pending, Fetching, PatchedTrees
<1> QED
  BY <1>2, <1>3, <1>4 DEF IInv

LEMMA StepKeeps == IInv /\ [Next]_vars => IInv'
<1> SUFFICES ASSUME IInv, [Next]_vars PROVE IInv'
  OBVIOUS
<1>1. CASE Step
  BY <1>1, StatKeeps, CloneKeeps, CheckoutKeeps, PatchKeeps, ParseDepsKeeps, WriteGniKeeps,
     RunHookKeeps, WriteLastchangeKeeps, FinishKeeps DEF Step
<1>2. CASE UNCHANGED vars
  <2>1. UNCHANGED <<revision, tree, rev, patched, written, turn, at, absent, wanted, deps,
                    outcome, abandoned, bumps>>
    BY <1>2 DEF vars, disk, local, bounds
  <2>2. TypeOK' /\ DiskOK' /\ RevisionsOK' /\ SuccessOK'
    BY <2>1 DEF IInv, TypeOK, DiskOK, Usable, RevisionsOK, SuccessOK, SuccessMeansPinned,
       PatchedUnlessAbandoned
  <2>3. PatchesOK' /\ StatOK'
    BY <2>1 DEF IInv, PatchesOK, Unpatched, Pending, StatOK, Fetching, Target
  <2>4. RunOK'
    BY <2>1 DEF IInv, RunOK, Running, Fetching, Target, Fetched
  <2> QED
    BY <2>2, <2>3, <2>4 DEF IInv
<1>3. CASE Die \/ DieInGit \/ Invoke \/ BumpRevision
  BY <1>3, DieKeeps, DieInGitKeeps, InvokeKeeps, BumpRevisionKeeps
<1>4. CASE \E t \in Trees : RemoveTree(t)
  BY <1>4, RemoveTreeKeeps
<1> QED
  BY <1>1, <1>2, <1>3, <1>4 DEF Next

LEMMA Invariance == Spec => []IInv
BY Initially, StepKeeps, PTL DEF Spec

\* The disk and the state of a run are always of their types.
THEOREM GetV8Types == Spec => []TypeOK
<1>1. IInv => TypeOK
  BY DEF IInv
<1> QED
  BY <1>1, Invariance, PTL

\* However often get-v8 was interrupted, V8_REVISION changed or trees were deleted: when
\* it succeeds every dep is whole and at the revision that the v8 tree pins, all its
\* files are there, and v8 is whole if no run died on it.
THEOREM SuccessIsPinned == Spec => []SuccessMeansPinned
<1>1. IInv => SuccessMeansPinned
  BY DEF IInv, SuccessOK
<1> QED
  BY <1>1, Invariance, PTL

\* And it has patched all but the trees that a run began to clone and died before
\* patching, which have not been deleted since.
THEOREM PatchesLostByDying == Spec => []PatchedUnlessAbandoned
<1>1. IInv => PatchedUnlessAbandoned
  BY DEF IInv, SuccessOK
<1> QED
  BY <1>1, Invariance, PTL
==============================================================================
