------------------------------- MODULE Modules -------------------------------
(***************************************************************************)
(* ES modules through v8.zig and binding.cpp: a code cache is handed to a  *)
(* ScriptCompilerSource, which is compiled to a Module; instantiate asks   *)
(* the embedder's callback for every import; evaluate runs the code.       *)
(*                                                                         *)
(* instantiate fails as other calls do, with error.JsException.  evaluate  *)
(* does not: it returns a promise, and what the code threw is in it and in *)
(* the status.                                                             *)
(***************************************************************************)
EXTENDS Naturals, Sequences, FiniteSets, Functions

CONSTANTS Modules,     \* what is compiled, one module each
          Requests,    \* how many imports the source of each names
          Caching,     \* bound: those for which there may be a code cache
          NoModule

ASSUME ModulesAssumption == /\ Requests \in [Modules -> Nat]
                            /\ NoModule \notin Modules
                            /\ Caching \subseteq Modules

VARIABLES
    slice,     \* sources whose cached bytes the embedder keeps in memory
    cached,    \* those for which a CachedData exists
    owner,     \* owner[m]: who will delete the CachedData, among {"zig", "source"}
    source,    \* those whose ScriptCompilerSource is constructed
    status,    \* Module.Status, or "uncompiled"
    imports,   \* imports[m]: the modules that the callback gave m, in order
    root,      \* the module that is being instantiated
    thrown,    \* an exception is scheduled in the callback
    path,      \* the modules that are being evaluated, each importing the next
    promise,   \* promise[m]: what evaluate returned for m
    ran        \* history: the modules whose code was started

cacheVars == <<slice, cached, owner, source>>
linkVars == <<imports, root>>
runVars == <<path, promise, ran>>
vars == <<cacheVars, status, linkVars, thrown, runVars>>

Status == {"kUninstantiated", "kInstantiating", "kInstantiated", "kEvaluating",
           "kEvaluated", "kErrored"}
Instantiated == {"kInstantiated", "kEvaluating", "kEvaluated", "kErrored"}
With(S) == {m \in Modules : status[m] \in S}

TypeOK ==
    /\ slice \subseteq Modules /\ cached \subseteq Modules /\ source \subseteq Modules
    /\ owner \in [Modules -> SUBSET {"zig", "source"}]
    /\ status \in [Modules -> Status \cup {"uncompiled"}]
    /\ imports \in [Modules -> Seq(Modules)]
    /\ \A m \in Modules : Len(imports[m]) <= Requests[m]
    /\ root \in Modules \cup {NoModule} /\ thrown \in BOOLEAN
    /\ path \in Seq(Modules) /\ Range(path) \subseteq With({"kEvaluating"})
    /\ promise \in [Modules -> {"none", "fulfilled", "rejected"}]
    /\ ran \subseteq Modules

Init == /\ slice = {} /\ cached = {} /\ source = {}
        /\ owner = [m \in Modules |-> {}]
        /\ status = [m \in Modules |-> "uncompiled"]
        /\ imports = [m \in Modules |-> << >>]
        /\ root = NoModule /\ thrown = FALSE
        /\ path = << >> /\ ran = {}
        /\ promise = [m \in Modules |-> "none"]

\* No call of instantiate or evaluate is under way.  The embedder starts one
\* only then: neither from a resolve callback nor from the code of a module.
Idle == root = NoModule /\ path = << >>

\* The modules that m leads to through modules of S, m included.
Through(m, S) ==
    {n \in Modules : \A R \in SUBSET Modules :
        (m \in R /\ \A x \in R \cap S : Range(imports[x]) \subseteq R) => n \in R}
------------------------------------------------------------------------------
(***************************************************************************)
(* The code cache.  A resolve callback may compile what it is asked for.   *)
(***************************************************************************)
\* CachedData does not copy the bytes (BufferNotOwned).
CachedDataInit(m) ==
    /\ m \in Caching
    /\ status[m] = "uncompiled" /\ m \notin cached /\ ~thrown
    /\ slice' = slice \cup {m}
    /\ cached' = cached \cup {m}
    /\ owner' = [owner EXCEPT ![m] = {"zig"}]
    /\ UNCHANGED <<source, status, linkVars, thrown, runVars>>

\* The embedder deletes a CachedData that it has not given away.
CachedDataDeinit(m) ==
    /\ owner[m] = {"zig"}
    /\ cached' = cached \ {m}
    /\ owner' = [owner EXCEPT ![m] = {}]
    /\ UNCHANGED <<slice, source, status, linkVars, thrown, runVars>>

\* The embedder frees the bytes when no CachedData points to them.
FreeSlice(m) ==
    /\ m \in slice /\ m \notin cached
    /\ slice' = slice \ {m}
    /\ UNCHANGED <<cached, owner, source, status, linkVars, thrown, runVars>>

\* A plausible bug in SourceInit: the source only borrows the CachedData.
SourceInitBorrowing(m) ==
    /\ status[m] = "uncompiled" /\ m \notin source /\ ~thrown
    /\ source' = source \cup {m}
    /\ owner' = [owner EXCEPT ![m] = IF m \in cached THEN @ \cup {"source"} ELSE @]
    /\ UNCHANGED <<slice, cached, status, linkVars, thrown, runVars>>

\* The Source takes over the CachedData, if it is given one.  Its origin says
\* that it is a module: compileModule accepts nothing else.
SourceInit(m) ==
    /\ status[m] = "uncompiled" /\ m \notin source /\ ~thrown
    /\ source' = source \cup {m}
    /\ owner' = [owner EXCEPT ![m] = IF m \in cached THEN {"source"} ELSE @]
    /\ UNCHANGED <<slice, cached, status, linkVars, thrown, runVars>>

\* The Source deletes the CachedData that it owns.
SourceDeinit(m) ==
    /\ m \in source
    /\ source' = source \ {m}
    /\ cached' = IF "source" \in owner[m] THEN cached \ {m} ELSE cached
    /\ owner' = [owner EXCEPT ![m] = @ \ {"source"}]
    /\ UNCHANGED <<slice, status, linkVars, thrown, runVars>>

\* Compiling fails on a syntax error, which stays scheduled if a resolve callback
\* was at it.
compileModule(m, ok) ==
    /\ m \in source /\ status[m] = "uncompiled" /\ ~thrown
    /\ status' = IF ok THEN [status EXCEPT ![m] = "kUninstantiated"] ELSE status
    /\ thrown' = (~ok /\ root # NoModule)
    /\ UNCHANGED <<cacheVars, linkVars, runVars>>
------------------------------------------------------------------------------
(***************************************************************************)
(* Instantiation.  Modules are asked for their imports one after the       *)
(* other; nothing is linked before all of them have theirs.                *)
(***************************************************************************)
\* What the instantiation has reached.
Visited == With({"kInstantiating"})
Unasked(m) == Len(imports[m]) < Requests[m]

\* A module that is linked already succeeds at once.
instantiate(m) ==
    /\ Idle
    /\ status[m] = "kUninstantiated"
    /\ status' = [status EXCEPT ![m] = "kInstantiating"]
    /\ root' = m
    /\ UNCHANGED <<cacheVars, imports, thrown, runVars>>

\* The resolve callback answers with a module that is compiled, whatever else
\* became of it.  One that is not linked will be instantiated too; V8 says so
\* from when it turns to it, the model from here.
Resolve(m, n) ==
    /\ root # NoModule /\ ~thrown
    /\ m \in Visited /\ Unasked(m)
    /\ \A x \in Visited : x # m /\ Unasked(x) => imports[x] = << >>
    /\ status[n] # "uncompiled"
    /\ imports' = [imports EXCEPT ![m] = Append(@, n)]
    /\ status' = [status EXCEPT ![n] =
                     IF @ = "kUninstantiated" THEN "kInstantiating" ELSE @]
    /\ UNCHANGED <<cacheVars, root, thrown, runVars>>

\* The callback throws an exception of its own.
ResolveThrows ==
    /\ root # NoModule /\ ~thrown
    /\ \E m \in Visited : Unasked(m)
    /\ thrown' = TRUE
    /\ UNCHANGED <<cacheVars, status, linkVars, runVars>>

\* instantiate returns: the modules S are linked, the others are as before it and
\* forget what they were given.
EndInstantiate(S) ==
    /\ status' = [m \in Modules |-> IF m \in S THEN "kInstantiated"
                                    ELSE IF m \in Visited THEN "kUninstantiated"
                                    ELSE status[m]]
    /\ imports' = [m \in Modules |-> IF m \in Visited \ S THEN << >> ELSE imports[m]]
    /\ root' = NoModule /\ thrown' = FALSE
    /\ UNCHANGED <<cacheVars, runVars>>

\* The callback returned null, its exception being scheduled.
ResolveFails == root # NoModule /\ thrown /\ EndInstantiate({})

\* All imports are there, and are linked from the leaves up; an import of a name
\* that is not exported ends it with a syntax error.
LinkImports ==
    /\ root # NoModule /\ ~thrown
    /\ ~ \E m \in Visited : Unasked(m)
    /\ \E S \in SUBSET Visited :
          /\ \A m \in S : Range(imports[m]) \cap Visited \subseteq S
          /\ EndInstantiate(S)
------------------------------------------------------------------------------
(***************************************************************************)
(* Evaluation, depth first.                                                *)
(***************************************************************************)
Current == path[Len(path)]
Finished(n) == status[n] \in {"kEvaluating", "kEvaluated"}
AllFinished(m) == \A i \in DOMAIN imports[m] : Finished(imports[m][i])

\* The import of the current module that comes next.
NextImport == LET todo == {i \in DOMAIN imports[Current] :
                              ~Finished(imports[Current][i])}
              IN  imports[Current][CHOOSE i \in todo : \A j \in todo : i <= j]

evaluate(m) ==
    /\ Idle
    /\ status[m] = "kInstantiated"
    /\ status' = [status EXCEPT ![m] = "kEvaluating"]
    /\ path' = <<m>>
    /\ UNCHANGED <<cacheVars, linkVars, thrown, promise, ran>>

\* A module that was evaluated, for itself or for another, tells how it ended.
evaluateAgain(m) ==
    /\ Idle
    /\ status[m] \in {"kEvaluated", "kErrored"}
    /\ promise' = [promise EXCEPT ![m] =
                     IF status[m] = "kErrored" THEN "rejected" ELSE "fulfilled"]
    /\ UNCHANGED <<cacheVars, status, linkVars, thrown, path, ran>>

Enter ==
    /\ path # << >> /\ ~AllFinished(Current)
    /\ status[NextImport] = "kInstantiated"
    /\ status' = [status EXCEPT ![NextImport] = "kEvaluating"]
    /\ path' = Append(path, NextImport)
    /\ UNCHANGED <<cacheVars, linkVars, thrown, promise, ran>>

\* Plausible bugs in Fail: only the modules on the path fail, or only the call
\* for the current module ends.
FailUnwinding ==
    /\ status' = [m \in Modules |->
                    IF status[m] = "kEvaluating" THEN "kErrored" ELSE status[m]]
    /\ promise' = [promise EXCEPT ![path[1]] = "rejected"]
    /\ path' = SubSeq(path, 1, Len(path) - 1)

FailPath ==
    /\ status' = [m \in Modules |->
                    IF m \in Range(path) THEN "kErrored" ELSE status[m]]
    /\ promise' = [promise EXCEPT ![path[1]] = "rejected"]
    /\ path' = << >>

\* All modules whose evaluation is under way fail.
Fail ==
    /\ status' = [m \in Modules |->
                    IF status[m] = "kEvaluating" THEN "kErrored" ELSE status[m]]
    /\ promise' = [promise EXCEPT ![path[1]] = "rejected"]
    /\ path' = << >>

\* The next import failed before.
ImportFailed ==
    /\ path # << >> /\ ~AllFinished(Current)
    /\ status[NextImport] = "kErrored"
    /\ Fail
    /\ UNCHANGED <<cacheVars, linkVars, thrown, ran>>

\* A plausible bug in RunThrows: the promise is rejected, and the module may be
\* evaluated once more.
RunThrowsRetrying ==
    /\ path # << >> /\ AllFinished(Current)
    /\ ran' = ran \cup {Current}
    /\ status' = [m \in Modules |->
                    IF status[m] = "kEvaluating" THEN "kInstantiated" ELSE status[m]]
    /\ promise' = [promise EXCEPT ![path[1]] = "rejected"]
    /\ path' = << >>
    /\ UNCHANGED <<cacheVars, linkVars, thrown>>

RunThrows ==
    /\ path # << >> /\ AllFinished(Current)
    /\ ran' = ran \cup {Current}
    /\ Fail
    /\ UNCHANGED <<cacheVars, linkVars, thrown>>

\* The code of the current module runs to its end.  Modules that import each
\* other are evaluated together, when the first of them that was entered ends.
Run ==
    LET below == SubSeq(path, 1, Len(path) - 1)
        reached == Through(Current, Modules)
        group == IF reached \cap Range(below) # {} THEN {}
                 ELSE reached \cap With({"kEvaluating"})
    IN  /\ path # << >> /\ AllFinished(Current)
        /\ ran' = ran \cup {Current}
        /\ status' = [m \in Modules |-> IF m \in group THEN "kEvaluated" ELSE status[m]]
        /\ path' = below
        /\ promise' = IF below = << >> THEN [promise EXCEPT ![Current] = "fulfilled"]
                      ELSE promise
        /\ UNCHANGED <<cacheVars, linkVars, thrown>>

Next ==
    \/ \E m \in Modules :
         \/ CachedDataInit(m) \/ CachedDataDeinit(m) \/ FreeSlice(m)
         \/ SourceInit(m) \/ SourceDeinit(m)
         \/ \E ok \in BOOLEAN : compileModule(m, ok)
         \/ instantiate(m) \/ \E n \in Modules : Resolve(m, n)
         \/ evaluate(m) \/ evaluateAgain(m)
    \/ ResolveThrows \/ ResolveFails \/ LinkImports
    \/ Enter \/ ImportFailed \/ Run \/ RunThrows

Spec == Init /\ [][Next]_vars
------------------------------------------------------------------------------
(***************************************************************************)
(* Properties                                                              *)
(***************************************************************************)
\* Whatever path an embedder takes through compiling, failing and retrying, a
\* CachedData has exactly one owner while it exists, so that it is deleted once,
\* and the bytes it points to are still there.
CachesHaveOneOwner ==
    /\ cached \subseteq slice
    /\ \A m \in Modules : Cardinality(owner[m]) = IF m \in cached THEN 1 ELSE 0
    /\ \A m \in Modules : "source" \in owner[m] => m \in source

\* An attempt that fails half way, at whichever import and with whatever linked,
\* leaves nothing half done: what is linked has all its imports and they are
\* linked, what is not can be instantiated from the start, and nothing stays
\* kInstantiating or kEvaluating.  What the promise of evaluate said holds for the whole graph, and
\* for good, although the same modules are evaluated as imports of others.
AttemptsAreWhole ==
    /\ \A m \in With(Instantiated) : /\ ~Unasked(m)
                                     /\ Range(imports[m]) \subseteq With(Instantiated)
    /\ \A m \in With({"kUninstantiated"}) : imports[m] = << >>
    /\ root = NoModule => With({"kInstantiating"}) = {}
    /\ path = << >> => With({"kEvaluating"}) = {}
    /\ \A m \in Modules :
          /\ promise[m] = "fulfilled" =>
                Through(m, Modules) \subseteq With({"kEvaluated"}) \cap ran
          /\ promise[m] = "rejected" => status[m] = "kErrored"

\* Modules are linked and evaluated as ECMAScript says.
Records == INSTANCE ModuleRecords WITH
    graph <- [m \in With(Instantiated) |-> Range(imports[m])],
    done <- With({"kEvaluated"}),
    failed <- With({"kErrored"})
ImplementsModuleRecords == Records!Spec
==============================================================================
