# zig-v8 in TLA+

zig-v8 lets Zig programs embed V8. `src/v8.zig` is the Zig API, `src/binding.cpp`
and `src/binding.h` the C ABI below it, `src/shell.zig` a small REPL that uses it,
`src/test.zig` its test, and `build.zig` fetches V8's sources at a pinned revision
and builds the static library with gn and ninja. This directory holds TLA+ models
of the parts of it whose behaviour is hard to test, TLC configurations that check
them on small instances, and proofs that TLAPS checks for every instance.

All modules are checked against the sources at the lines that `PROJECT.json`
("map") gives for each definition.

## The system's parts

| part | state it keeps | operations | hard behaviour | what makes it correct |
|---|---|---|---|---|
| backing stores, ArrayBuffers (`v8.zig` 1996-2060, `binding.cpp` 54-94, 263-316) | a `BackingStore`, its use count, the shared_ptrs in Zig variables and in JS buffers | init, toSharedPtr, reset, ArrayBuffer from and to a SharedPtr | V8's sweeper drops counts on its own thread; a shared_ptr crosses the C ABI as plain bits; the allocator is a raw pointer | counts are exact, nothing dangles, memory is given back before the allocator goes, garbage is freed |
| V8 lifecycle (`v8.zig` 69-158, 210-253, 414-476) | platform, V8, isolates, entries, handle scopes, contexts, TryCatch scopes | one function per constructor, destructor, enter and exit | order; V8 cannot be started twice; nothing is checked at run time | nothing outlives what it needs |
| shell (`shell.zig`) | its defers, the GPA, one result per line | read, execute, convert, print, pump | early returns, `catch unreachable`, tasks from worker threads | keeps to the lifecycle, leaks nothing, answers each line |
| build steps (`build.zig` 11-66, 273-299, 341-374, 412-522, 711-737) | the source and output trees | the steps of `zig build` | zig runs independent steps in parallel; processes share the tree | ends with a current library, never blocks a later fetch |
| fetching V8 (`build.zig` 537-708) | the git trees under `v8/`, patches, generated files | `zig build get-v8` | runs that die half way, inside git too; a new V8_REVISION | a success means all trees at their pins, whole and patched, or it is known which are not |
| Persistent and weak handles (`v8.zig` 796-869) | a slot in V8's global handles, copied as a pointer | init, deinit, setWeak, setWeakFinalizer, casts | the collector clears the variable whose address it was given; copies | no handle is used after it was reset or collected |
| exceptions and messages (`v8.zig` 503-669, 1226-1421) | the pending exception, the stack of TryCatch | throw, catch, rethrow, verbose, listeners | nesting with callbacks | the innermost handler sees it, exactly once |
| functions, templates, callbacks (`v8.zig` 503-794, 871-1057) | templates, FunctionCallbackInfo | init, call, setters | re-entry from JS into Zig and back | results or errors, never both |
| promises and microtasks (`v8.zig` 254-330, 1901-1994) | promise states, microtask queue | then, catch, resolve, reject | reactions run later; policy | settled once, reactions run once and in order |
| scripts, modules, code cache (`v8.zig` 1512-1683) | module status, CachedData | compile, instantiate, evaluate | who frees CachedData; resolve callbacks | a cache is deleted once; an attempt that fails leaves nothing half linked or half evaluated; code runs once and in order |
| values, numbers, casts (`v8.zig` 1059-1192, 1470-1510, 1685-1869) | none | conversions | widths, wrong casts | conversions agree with V8 |

They interact by calls (shell -> v8.zig -> binding.cpp -> V8), by callbacks (V8 ->
Zig), by memory they share (SharedPtr, the allocator, `CachedData`) and, in the
build, through the file system.

## Modules

**`SharedOwnership`** is the abstract specification of a shared store: created,
adopted by a first owner, shared only while owned, released in the step in which
the last owner lets go. It does not say how owners are counted.

**`BackingStores`** is the code: `phase` is where a store is between allocation and
its deleter, `uses` the count in its control block, `held[h]` what the shared_ptr in
a Zig variable or in a buffer points to. `toSharedPtr`, `sharedPtrReset`,
`initWithBackingStore`, `getBackingStore` and the others are one action per
function. V8's sweeper is modelled from how the binding depends on it: dropping a
dead buffer's count (`SweepBuffer`) and running the destructor (`SweepFree`) are two
steps, because others act in between. `destroyArrayBufferAllocator` has the guard
`AllocatorUnused`, what the order of the defers in shell.zig and test.zig provides;
`toSharedPtr` is called once per handle. The library enforces neither.

**`V8Lifecycle`** has the calls that set V8 up and take it down, of one thread.
`Allowed...(call)` is what the comments of v8.zig and the handles require,
`Effect...(call)` what it does. `contexts[i]` and `catchers[i]` remember the handle
scope that a context handle or a TryCatch lives in.

**`Repl`** composes with `V8Lifecycle`: it runs the statements of `repl()`,
`executeString` and `getTryCatchErrorString` with their frames of defers, making the
calls by their effects only, and `ObeysLifecycle` asks whether each was allowed. A
background job becomes a task in the platform's queue; `pumpMessageLoop` runs tasks
one at a time. Whether JavaScript compiles, throws, or can be converted to a string
is a choice.

**`References`** is the abstract specification of a handle: an object lives while a
name holds it, watchers do not keep it, and the step that collects it takes it away
from all watchers.

**`Handles`** is the code: `scopes` are the open HandleScopes, `inner[p]` is the word
in a Persistent variable, the address of a node of V8's table of global handles;
`kind`, `target` and `address` are what V8 knows of the node, `address` being the
variable whose address setWeak or setWeakFinalizer gave away. `init`, `deinit`,
`setWeak`, `setWeakFinalizer` and the casts are an action each. `castTo` remembers
which object was meant, so that reuse of a node shows. The collector (external) may
find any part of the garbage; after setWeakFinalizer the nodes are `"dying"` until
their finalizers, one after the other and before anything else, deinit them.
The embedder does three things the library cannot enforce, and which are guards: it
moves a Persistent only while it is strong, it neither keeps casts of a weak
Persistent nor uses casts after deinit, and a finalizer resets its own Persistent.

**`StructuredExceptions`** is the abstract specification of throwing: an error goes
to the innermost frame that catches, and none is passed over.

**`Exceptions`** is how Zig and JavaScript do it together. `stack` holds the Zig
functions, TryCatches, JavaScript frames and try blocks of the thread; `result` is
what the wrapper told its caller (null, error.JsException, false, or, of `Object.has`,
the same as for an absent property). A failing call leaves the exception in the
TryCatch on top, or `scheduled` if the Zig function is a callback without one, and
`Return` throws it on. `terminateExecution` may come at any time from another thread
and only sets `requested`. That V8's calls fail while a termination is scheduled, that
the destructor of a TryCatch takes back what is scheduled but for a termination, and
that a termination marks the innermost TryCatch, are V8's behaviour (11.1) as far as
these wrappers show it. The embedder does not call while an error is scheduled or
after rethrow, and does not rethrow over a termination, which would be lost.

**`Futures`** is the abstract specification of promises: each settles once, the
handlers asked for are called once each, in the order in which they were asked for and
after their promise has settled, and what a handler gives is settled by nobody before.
It has no queue: a handler goes by the promise it gives, `asked[p]` are those of p still
to be called and `ahead[d]` those among them that were asked for before d.

**`Promises`** is how V8 and the wrappers do it. `waiting[p]` are the reactions to the pending
promise p, `queue` the microtasks, `job` the reaction whose handler runs; `policy` and
`depth` decide when V8 runs the queue. `known` is the set an embedder keeps that adds
what the reject callback notifies and removes what it revokes; `late`, a history
variable, are the promises that were marked as handled when they were in it already.
`then`, which runs no JavaScript, may or may not run the queue under kAuto. `markAsHandled`
and `then` differ: only the second revokes. V8's queue and its notifications are modelled from what
v8.zig's comments say of them (265-266, 1914-1916, 1940). What resolving a promise with
another does, kScoped, and termination inside microtasks are left out.

**`ModuleRecords`** is the abstract specification of ES modules: modules are linked
together with all they import; the code of each is started at most once, after the code
of its imports unless they import it back; who leads to what failed fails with it.

**`Modules`** is what an embedder does through the C ABI, and V8 for it. `slice`,
`cached`, `owner` and `source` are the bytes of a code cache, the CachedData over them,
who deletes it, and the ScriptCompilerSource it is given to. `status` and `imports` are
the modules, which are kInstantiating from when the instantiation is known to reach them until
it ends; `root` is the one that `instantiate` was called for, and `Resolve` one call
of the resolve callback, which answers with any compiled module, so that every graph
comes up, cycles included; it may compile modules itself, and throw. A failed
`instantiate` forgets what was resolved, except for modules that were linked already.
`evaluate` enters imports first (`path`); a module on a cycle stays kEvaluating until the
first of the cycle that was entered ends (`Run`), and whatever is kEvaluating fails
together (`Fail`). `promise[m]` is what evaluate returned, `ran` a history variable. What V8
does inside `InstantiateModule` and `Evaluate` is external, from what v8.zig's comments
say of it (1644-1649, 1658-1667) and from ECMAScript. The embedder does not start to instantiate or evaluate
from a callback (`Idle`).

**`BuildSteps`** is the step graph. `status[p][s]` is a step of a process, the tree
is `v8`, the repositories nested in it (`deps`), `tools`, `zigDir`, and the versions of
BUILD.gn that were copied (`buildGn`), generated from (`manifest`) and built (`lib`). The
build runner is external: each step once, dependencies first, otherwise any order and in
parallel; a failed step blocks those that wait for it. A step that looks at the disk and
acts on what it saw is several actions. That of get-v8 stats `./v8` (`Start`), clones it
if it was not there (`CloneV8`, three times: the directory, the files up to DEPS, the rest
with the patch), and goes on with whatever `./v8` there is (`GetV8Source`) or, since b.run
does so, ends the process (`GetV8Fails`). `CutShort` is what a step leaves that is
interrupted or fails by itself: a bare or torn `./v8`, a nested repository
that is broken for good, half of `./tools`. Two git commands that get in each other's way,
such as two get-v8 at the same nested repository, count as a fault. When a process ends,
only its git may have left something behind: that ninja or gn go on for a moment without
it is left out.

**`GetV8`** is `GetV8SourceStep.make` over the trees, the revisions checked out in them,
the patches applied and the files written. `Order` is the sequence in which it takes the
trees, `Commands(t)` what it does for each; `turn` and `at` say where a run is. A run may
die between any two commands (`Die`) and while git works (`DieInGit`). `Conditions` are what
git leaves: a clone that is interrupted or fails while it fetches removes the directory; one
that is killed, or stopped when it checks out files, leaves it: "partial", if no later
command can use it, or "torn", if it can. Of a dependency that is torn the next
`git checkout` writes the missing files. v8 has no such command: a torn v8, which has its DEPS but not
all files, is taken as it is, so that get-v8 succeeds with a v8 that is neither whole nor patched.

**`Conversions`** has the integer conversions of Integer, BigInt and Value as
operators on integers: reading the low bits with or without a sign, and @intCast,
which panics or, in ReleaseFast, is undefined. It has no state and no run.

The modules **`...Proofs`** hold the theorems: one each for `BackingStores`, `Promises`,
`Exceptions`, `BuildSteps`, `Modules` and `GetV8`; `HandlesProofs` for `Handles` and
`Conversions`, `ReplProofs` for `V8Lifecycle` and `Repl`.
Definitions introduced as plausible bugs are not part of any specification: each is
a wrong form of the definition that follows it, with which a property fails.

## Runs

| run | bounds | what it shows |
|---|---|---|
| `backing_stores` | 2 stores, 2 Zig variables, 3 buffers, 2 isolates | `CountMatches`, `NoDangling`, `AllocatorOutlivesStores`, `GarbageIsFreed` (liveness), and that `BackingStores` implements `SharedOwnership` |
| `handles` | 2 objects, 2 Persistents, 2 nodes, 2 scopes | `NodesOwned`: no node leaks, is freed twice or has V8 write to a word of another; `NothingDangles`; `UnreferencedIsCollected` (liveness); `Handles` implements `References` |
| `exceptions` | 6 frames, 2 errors, 2 requests to terminate | `FailureHasReason`: whoever is told of a failure finds the exception; `ScheduledIsOnItsWay`; `TerminatedScriptsEnd` (safety and liveness); `Exceptions` implements `StructuredExceptions` |
| `promises` | 3 promises | `RejectionsAreKnown`: who follows the reject callback knows the rejections that nobody reacts to; `Promises` implements `Futures` (with its liveness) |
| `modules` | 3 modules with 2, 2 and 1 imports, a code cache for one | `CachesHaveOneOwner`: a cache is deleted once and not used after its bytes are gone; `AttemptsAreWhole`: failed attempts leave nothing half done, and what a promise said holds for the whole graph; `Modules` implements `ModuleRecords` |
| `v8_lifecycle` | 2 isolates, nesting of 2 | `NothingOutlivesItsHost` follows from the single requirements |
| `repl` | 3 lines, 2 background jobs | `ObeysLifecycle`, no leak per line or at exit, the answer printed is the line's own, waiting tasks run before the next line, every line ends |
| `repl_conversion` | the same | violated: `catch unreachable` after `toString` is reached |
| `build_steps` | 2 processes: either one of them with every goal, 1 edit, 1 fault, in the middle of a clone too; or both fetching and building at once, undisturbed, until there is a library | `BuiltWithinFour`, `SuccessHasLibrary`, `SettledWithinThree`, `FetchStaysPossible` |
| `build_order` | 1 process | violated: gn may start before BUILD.gn is copied |
| `get_v8` | 2 deaths, inside git too, 1 new revision, 1 deleted tree | `SuccessMeansPinned`, `PatchedUnlessAbandoned`, `Recovers` (liveness) |
| `get_v8_patches` | 1 death, inside git too | violated: success with an unpatched tree |

Why the bounds are enough. A store has at most one destructor, so three holders of
one store beside a second store give every order of dropping it, and two isolates
two sweepers. Two Persistents and two nodes give every reuse of a node while the other is weak, and
every collection that empties both; two objects let a cast change its meaning. Six
frames hold main, a script, a callback and a script run by it with two TryCatches or
try blocks anywhere between them, the shortest stack on which an exception passes
from JavaScript through Zig to JavaScript; seven were checked once (234,491 states).
Three promises give two reactions to one promise, a chain of two, two resolvers, and a
resolver used from a reaction to another. Two isolates and two levels give every pair of nested entries, scopes
and contexts. The shell's third line starts from a state that two lines, each ending
in any of its ways, have left. The third and fourth builds of `BuildSteps` start
from what any first two left behind; `SettledWithinThree` is violated for two, and
`BuiltWithinFour` for three. One process shows everything that does not need a race;
while two race, the constraint `OneUserOrRace` leaves out faults, edits and other goals, stops at
the first library and lets only one of the two count builds, to keep the state space in bounds (`MaxExposed` does so for the guards); the theorems have neither
limit, so faults during a race are proved about and not run, except that the one about `SettledWithinThree` is, like the run's check of it, about
processes that take turns. Three modules with five imports give chains, diamonds, self-imports and every cycle of two or
three, entered anywhere, and a module that is left out when another fails. In
`GetV8` two deaths are needed to die again in a run that found the remains of
another; the ten dependencies are the real ones.

The findings say which line of the repository each violated property quotes:

* shell.zig 156 and 207: `toString(ctx) catch unreachable`. The value of a line may
  be a Symbol, or an object whose `toString` throws.
* build.zig 279: "we copy over BUILD.gn ... before we run gn". Nothing orders the two.
  `SettledWithinThree` says what that costs: an edit of BUILD.gn may need three
  successful builds.
* build.zig 592, 638: patches are applied only by the run that cloned, so a run that
  dies before, in the clone or after it, leaves a tree that stays unpatched.
  `PatchedUnlessAbandoned` says that this is the only way. If it died while git checked out
  v8, files of v8 are missing too, and get-v8 succeeds all the same: `SuccessMeansPinned`
  promises a whole v8 only where no run died on it.

## Fairness

`BackingStores`: weak fairness of the two steps of each sweeper only. V8 finishes
sweeping; nobody promises that an embedder resets a SharedPtr or that JavaScript
drops a buffer, and `GarbageIsFreed` speaks only of stores that dead buffers own.
`Handles`: the collector finds all garbage some time, and V8 runs the finalizers it has
to; no fairness of the embedder, so `UnreferencedIsCollected` speaks of objects that
are out of everybody's hands for good. `Exceptions`: strong fairness of noticing a
request, because JavaScript that loops passes V8's stack guard again and again even
if it calls callbacks; weak fairness of closing TryCatches and returning while an
exception is scheduled, which is all an embedder can do then. `Promises`: microtasks and
callbacks end, and the embedder goes on, either calling JavaScript or, if it has asked
for kExplicit, performing checkpoints; without that, reactions stay in the queue, as they
do in V8. `Repl`: weak fairness of the shell's thread and of the workers, none of the input: the
user may stop typing. This assumes that the JavaScript of a line terminates and
that finitely many jobs are started (`Tasks`); pumping never ends if each task posts
another. `GetV8`: a run goes on, and the user runs get-v8 again until it succeeds.
`BuildSteps`, `Modules` and `V8Lifecycle` have safety properties only: nobody has to
finish a build or to link a module, and the code of a module may loop.

## What is proved

For any stores, SharedPtr variables, buffers and isolates (`BackingStoresProofs`;
assumptions: variables and buffers are finite and disjoint, the empty pointer is not
a store, every buffer is in the heap of an isolate):
`TypeCorrect`, `CountIsExact`, `NothingDangles`, `AllocatorOutlives`, and
`CountingImplementsOwnership`. `CountMatches` and `NoDangling` alone are not
inductive: a step of a sweeper or the disposal of an isolate needs to know who is
destroying what and where buffers live. `IInv` adds that a store that is being
destroyed is in the hands of exactly one sweeper of an isolate in use
(`SweepersOwnTheDying`), that buffers which own a store are in an isolate in use
(`BuffersAreHoused`), and that isolates and SharedPtrs keep the allocator
(`AllocatorIsNeeded`). The proof has a lemma per action; those that count holders
rest on lemmas about the cardinality of `HoldersOf` when one holder or a set of
buffers comes or goes. For the refinement each action is mapped to a step of
`SharedOwnership` or to a stutter: the sweeper's first step is the release,
its second a stutter.

For any objects, Persistents, nodes and depth of scopes (`HandlesProofs`;
assumptions: the empty Persistent is no object, variable or node, and the depth is
positive): `TypeCorrect`, `NodesHaveOneOwner`, `HandlesStayValid` and
`HandlesImplementReferences`. The inductive invariant `IInv` adds to the types and to
`NodesOwned` that a node refers to an object that is alive exactly until it is
emptied (`NodesRefer`), and that scopes, JavaScript and casts refer to such objects
even while finalizers run (`RootsAlive`, `CastsHold`), where `NothingDangles` is silent.
A lemma per action shows that it is kept; `Collect` is the one that needs all of it: what
is collected is in no scope and the target of no strong node, hence of no cast. For
the refinement, each action is mapped to one step of `References`: allocation to a birth,
`init` and property accesses to a hold, setWeak to weakening, moving to renaming, deinit
and the end of a scope to a release, `Collect` to `Collect`, since the weak nodes lose
their target in the same step as the object its life; `Finalize` and the casts change
nothing of it.

For any isolates and any depth (`ReplProofs`; assumption: the depth is positive):
`LifecycleTypes` and `HostsOutlive`. `NothingOutlivesItsHost` is inductive
together with the types; the lemmas are about what pushing to and popping from a
sequence does to its range.

For any number of lines, any finite set of jobs, and any isolates beside the shell's
(`ReplProofs`; assumption `ReplAssumption`: among them the shell's own, and three handle
scopes may be open at once, as many as the shell opens): `ReplTypes`,
`ShellObeysLifecycle`, `ShellHostsOutlive`, `ShellLeavesNothing`, `ShellAnswersTheLine` and
`ShellRunsTasks`. Each of `ObeysLifecycle`, `LeavesNothing` and `AnswersTheLine` asks for
something at one point of the program only. The invariant `ReplIInv` says it for every
point: which frames are open and which of their defers are left
(`Control`: so many of repl(), so many of executeString, so many of
getTryCatchErrorString), that V8's state is what just those defers take down
(`V8Is`), what is on the heap (`Memory`) and to which result it belongs (`Answer`), and
that tasks are owed only while the shell pumps (`Owed`). The lemmas go by the statements that
set a frame up, those between, and those that run a defer; `ShellObeysLifecycle` shows that
every call is allowed where it is made, and `ShellHostsOutlive` follows from it and the
invariant of `V8Lifecycle`.

For integers of 32 and 64 bits, from lemmas for every width (`HandlesProofs`; no
assumptions): `IntegersReadBack`, `ValuesReadBack` and `BigIntsReadBack`. An integer
comes back as it went, but a negative Integer makes `getValueU32` panic, and a BigInt
out of range is cut down without notice.

For any number of promises (`PromisesProofs`; no assumptions): `PromiseTypes`,
`RejectionsKnown` and `PromisesObeyFutures`. `RejectionsAreKnown` relates the embedder's set
to promises alone, but which promise a queued or running reaction will settle, and that nobody else will, is
what keeps it: `IInv` adds that the promises that reactions give are made, pending and
different from one another and from those of resolvers (`Fresh`, `GivesFresh`, `GivesOnce`).
The same makes the refinement go through: reactions can be told apart by what they give, so
the queue and `waiting` amount to the sets `asked` and `ahead` of `Futures`. `SettleAsks`
shows that moving the reactions of p behind the queue changes neither set, `AppendAsks` that
a new one has all others of its promise ahead of it, `TailAsks` and `HeadIsFirst` that the
head of the queue has none. `StartJob` is `Answer`, whether the handler is called or passed
over; `settle` and `EndJob` are `Settle`, `ResolverInit` `Make`, `then` `Ask`, and the other
actions stutters.

For any depth of the stack, errors and number of requests to terminate (`ExceptionsProofs`;
assumptions: "no exception" and the termination are no errors, the depth is positive):
`ExceptionTypes`, `FailuresHaveReasons`, `ScheduledReaches`, `ExceptionsAreStructured` and
`TerminationsHold`. The invariant adds how
frames nest (JavaScript with its try blocks and Zig with its TryCatches in turn, main at
the bottom) and that a TryCatch rethrows only what it has caught; that there is an innermost
frame among those of some kinds rests on the well-foundedness of the natural numbers.
For the refinement it also says that only the TryCatch on top may be about to throw again, with an
error in hand (`OnlyTopRethrows`): calls, TryCatches and throws wait for it to end. `DeliverFlies`
and `UnwindFlies` show that an error passes over plain frames only, `TerminationLeaves` that
a termination looks like frames that end; then every action is one kind of step of the abstract
specification: what pushes a frame `Enter`, what pops one `Leave`, throwing `Throw`, returning with
an error scheduled `Continue`, `rethrow` `Decide`, the destructor after it `Rethrow`.
`TerminationsHold` is the part of `TerminatedScriptsEnd` that is not liveness. It needs
that a TryCatch which is about to throw again has nothing scheduled (`RethrowsCalmly`): its
destructor would otherwise put an error in the place of the termination. With that,
`ThrowHolds` and `DeliverHolds` show that whatever is thrown meets no
termination, or is one.

For any processes, goals and numbers of edits and faults (`BuildStepsProofs`;
assumption `GoalsAssumption`: goals are sets of steps): `BuildTypes`,
`FourBuildsSuffice`, `LibraryForSuccess`, `FetchNeverInvalidated` and, where no two processes
are at work at the same time (`OneAtATime`), `OneAtATimeSettles`. The invariant says
which stage each of the four builds reaches at least (`Reaches`: the directory, the copy,
build.ninja, the library), that in an undisturbed build the step for the next stage gets there
however the others end (`Advances`), what steps that are done leave behind (`Leaves`), and
that whoever builds "v8" runs the whole pipeline (`Whole`). For `FetchStaysPossible` it says
that what is there in part was left by a step that was cut short, or is being
cloned (`FetchOK`). For `SettledWithinThree` it adds
how far the edit has come after each build that succeeded since (`Settles`: the copy, then
build.ninja, then the library) and that nobody's gn or ninja still works on what it read before.
That last part is what `OneAtATime` is for: a ninja that another process started
before the edit may end after any number of builds and leave the old library.

For hosts of either kind and any number of new revisions, deleted trees and runs that die
(`GetV8Proofs`; `BoundsAssumption` only says that the bounds are natural numbers and
`Windows` a Boolean): `GetV8Types`, `SuccessIsPinned` and `PatchesLostByDying`.
Both invariants speak of the end of a run. `IInv` says of every moment of it that the
trees whose turn is over are whole (v8 unless it was abandoned), at the revision of the DEPS that the run has parsed, and
have their files (`RunOK`, `Fetched`); that what the last stat saw is still so (`StatOK`); and
that the unpatched trees are those abandoned and the one that this run has just cloned and
is about to patch (`PatchesOK`, `Pending`), at any time, between runs as well. The
proof goes by the kinds of commands, not by the commands: what `Commands` has at each
place for each kind of tree is a lemma.

For any modules, numbers of imports and caches (`ModulesProofs`; assumption
`ModulesAssumption`: every module names a number of imports): `ModuleTypes`,
`CachesOwned`, `AttemptsWhole` and `ModulesImplementRecords`. The invariant says that unlinked
modules have imports only while they are kInstantiating, that those imports are linked or
kInstantiating too, and that no module is when no instantiation runs (`Linked`); that what
waits off the path has run and waits for nothing else (`Started`), and that it is on
a cycle with a module of the path (`OnPath`). What a module leads to is the least set
that is closed under imports; the lemmas about it (`ClosureIsClosed`, `ClosureIsLeast`,
`ClosureComposes`) take the place of induction along paths. For the refinement, the end of
`instantiate` is `Link`, running or throwing code `Run` or `RunFails`, meeting an import
that failed `Spread`; all else changes nothing of `ModuleRecords`.

Only model-checked: the liveness properties (`GarbageIsFreed`, `UnreferencedIsCollected`,
`Recovers`, `EveryLineEnds`, and the liveness in `TerminatedScriptsEnd` and
in `ImplementsFutures`), because fairness is beyond the proof system. `SettledWithinThree`
for processes that race has no proof because it does not hold: see above; the run does not
check it for them either. What `toString` and the conversions do to a value's text is nowhere
modelled, so nothing is proved of it.

## Not modelled

Moving collections: `shell.zig` hands a TryCatch on by value, and whether Zig copies it
there is up to the compiler. Functions that do not compile when they are used
(such as `Object.hasIndex`, `Integer.getValue`, `ScriptCompiler.compileModule`,
`Module.getStatus`, `Promise.getState`, and `Persistent.setWeakFinalizer`, which applies
@intCast to an enum at v8.zig 827) have no behaviour to model; `Modules` follows the C ABI
below two of them, `Handles` below the last. Of modules, top-level await
(the binding does not pass on `IsGraphAsync`, and a promise that is still pending could not
be told apart), termination while their code runs, instantiating or evaluating from
a callback, and the flag by which V8 rejects a code cache. Of exceptions, verbose TryCatches and
message listeners, which add reports and change nothing of who catches. Of promises, those
that are resolved with promises, kScoped, and termination in microtasks. Stateless calls (versions, heap statistics, JSON, sizes), what gn is configured with,
the link options, `UseGclient=true` (a constant that is false), the C header
(declarations), the GN files' target lists, CI, and the vendored headers under
`cross-macos/` and `cross-windows/`, which are most of the repository's lines: they declare
the interfaces of macOS, and nothing in them is this program's. `v8__ArrayBuffer__NewBackingStore2` has no Zig
wrapper. Misuse that no code here commits, such as converting a handle with
`toSharedPtr` twice or copying a SharedPtr, is listed as a hazard and excluded by a
guard.

## Plan

1. done: `BackingStores`, `SharedOwnership`, `V8Lifecycle`, `Repl`, `BuildSteps`, `GetV8`.
2. done: `Handles`, `References`, `Exceptions`, `StructuredExceptions`, `Promises`, `Futures`,
   `Modules`, `ModuleRecords`, `Conversions`.
3. done: the theorems about `BackingStores`, `Handles`, `Conversions`, `V8Lifecycle`, `Repl`,
   `Promises`, `Exceptions`, `BuildSteps`, `GetV8` and `Modules`: every safety invariant that a
   run checks, and every refinement, that of `Futures` without its liveness.
4. Left to model: verbose TryCatches and the message listeners, adoption of a promise,
   kScoped, lengths and indexes narrowed with @intCast, and a composition of `Modules` with
   `Exceptions` and `Promises`, in which the code of a module throws, terminates and awaits.
5. Left to prove: a bound for `SettledWithinThree` when processes race (how many builds after
   the last one that began before the edit), and whatever item 4 adds.

The property that `BuildSteps` lacks is that `zig build exe` builds the main
file: the step "exe" (build.zig 712) depends on nothing.
