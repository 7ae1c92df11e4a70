----------------------------- MODULE V8Lifecycle -----------------------------
(***************************************************************************)
(* The order in which one thread may call the functions of v8.zig that set *)
(* V8 up, enter it and take it down.  The functions are thin: each passes  *)
(* its arguments to binding.cpp, which calls V8.  None of them checks      *)
(* anything, so the requirements are those that the comments of v8.zig     *)
(* state and the ones the handles imply: Allowed(call) is what a caller    *)
(* must respect, Effect(call) is what the call does.                       *)
(***************************************************************************)
EXTENDS Naturals, Sequences, SequencesExt

CONSTANTS Isolates, MaxDepth

ASSUME LifecycleAssumption == MaxDepth \in Nat \ {0}

VARIABLES
    platform,   \* "none", "made" (initDefault) or "set" (initV8Platform)
    v8,         \* "down", "up" or "disposed": disposal is permanent
    allocator,  \* whether the array buffer allocator exists
    isolates,   \* the isolates that exist
    entered,    \* the isolates entered by the thread, the current one last
    scopes,     \* scopes[i]: how many handle scopes of i are open
    made,       \* made[i]: for each context handle, the scope it lives in
    contexts,   \* contexts[i]: the context handles entered, by scope
    catchers    \* catchers[i]: for each open TryCatch, the scope it is in

lifecycle == <<platform, v8, allocator, isolates, entered, scopes, made,
               contexts, catchers>>

LifecycleInit == /\ platform = "none"
                 /\ v8 = "down"
                 /\ allocator = FALSE
                 /\ isolates = {}
                 /\ entered = <<>>
                 /\ scopes = [i \in Isolates |-> 0]
                 /\ made = [i \in Isolates |-> {}]
                 /\ contexts = [i \in Isolates |-> <<>>]
                 /\ catchers = [i \in Isolates |-> <<>>]

------------------------------------------------------------------------------
(***************************************************************************)
(* The calls.                                                              *)
(***************************************************************************)
ProcessCalls == {"initDefault", "initV8Platform", "initV8", "deinitV8",
                 "deinitV8Platform", "Platform.deinit",
                 "createDefaultArrayBufferAllocator", "destroyArrayBufferAllocator"}
IsolateCalls == {"Isolate.init", "Isolate.deinit", "Isolate.enter", "Isolate.exit",
                 "HandleScope.init", "HandleScope.deinit",
                 "Context.init", "Context.enter", "Context.exit",
                 "TryCatch.init", "TryCatch.deinit"}

\* A plausible bug in AllowedProcess: V8 is disposed while isolates exist.
AllowedProcessEarly(f) ==
    CASE f = "initDefault" -> platform = "none" /\ v8 = "down"
      [] f = "initV8Platform" -> platform = "made" /\ v8 = "down"
      [] f = "initV8" -> platform = "set" /\ v8 = "down"
      [] f = "deinitV8" -> v8 = "up"
      [] f = "deinitV8Platform" -> platform = "set" /\ v8 = "disposed"
      [] f = "Platform.deinit" -> platform = "made"
      [] f = "createDefaultArrayBufferAllocator" -> ~allocator
      [] f = "destroyArrayBufferAllocator" -> allocator /\ isolates = {}

AllowedProcess(f) ==
    CASE f = "initDefault" -> platform = "none" /\ v8 = "down"
      [] f = "initV8Platform" -> platform = "made" /\ v8 = "down"
      [] f = "initV8" -> platform = "set" /\ v8 = "down"
      [] f = "deinitV8" -> v8 = "up" /\ isolates = {}
      [] f = "deinitV8Platform" -> platform = "set" /\ v8 = "disposed"
      [] f = "Platform.deinit" -> platform = "made"
      [] f = "createDefaultArrayBufferAllocator" -> ~allocator
      [] f = "destroyArrayBufferAllocator" -> allocator /\ isolates = {}

\* A plausible bug in AllowedIsolate: disposing an isolate asks only that it is
\* not entered, and leaving a scope does not ask that one is open.
AllowedIsolateLoosely(f, i) ==
    CASE f = "Isolate.init" -> v8 = "up" /\ allocator /\ i \notin isolates
      [] f = "Isolate.deinit" -> i \in isolates \ Range(entered)
      [] f = "Isolate.enter" -> i \in isolates /\ Len(entered) < MaxDepth
      [] f = "Isolate.exit" -> entered # <<>> /\ Last(entered) = i
      [] f = "HandleScope.init" -> i \in isolates /\ scopes[i] < MaxDepth
      [] f = "HandleScope.deinit" -> i \in isolates
      [] f = "Context.init" -> scopes[i] > 0
      [] f = "Context.enter" -> made[i] # {} /\ Len(contexts[i]) < MaxDepth
      [] f = "Context.exit" -> contexts[i] # <<>>
      [] f = "TryCatch.init" -> scopes[i] > 0 /\ Len(catchers[i]) < MaxDepth
      [] f = "TryCatch.deinit" -> catchers[i] # <<>>

AllowedIsolate(f, i) ==
    CASE f = "Isolate.init" -> v8 = "up" /\ allocator /\ i \notin isolates
      [] f = "Isolate.deinit" -> /\ i \in isolates \ Range(entered)
                                 /\ scopes[i] = 0
      [] f = "Isolate.enter" -> i \in isolates /\ Len(entered) < MaxDepth
      [] f = "Isolate.exit" -> entered # <<>> /\ Last(entered) = i
      [] f = "HandleScope.init" -> i \in isolates /\ scopes[i] < MaxDepth
      [] f = "HandleScope.deinit" ->
            scopes[i] > 0 /\ scopes[i] \notin Range(contexts[i]) \cup Range(catchers[i])
      [] f = "Context.init" -> scopes[i] > 0
      [] f = "Context.enter" -> made[i] # {} /\ Len(contexts[i]) < MaxDepth
      [] f = "Context.exit" -> contexts[i] # <<>>
      [] f = "TryCatch.init" -> scopes[i] > 0 /\ Len(catchers[i]) < MaxDepth
      [] f = "TryCatch.deinit" -> catchers[i] # <<>>

EffectOnProcess(f) ==
    /\ platform' = CASE f = "initDefault" -> "made"
                     [] f = "initV8Platform" -> "set"
                     [] f = "deinitV8Platform" -> "made"
                     [] f = "Platform.deinit" -> "none"
                     [] OTHER -> platform
    /\ v8' = CASE f = "initV8" -> "up"
               [] f = "deinitV8" -> "disposed"
               [] OTHER -> v8
    /\ allocator' = CASE f = "createDefaultArrayBufferAllocator" -> TRUE
                      [] f = "destroyArrayBufferAllocator" -> FALSE
                      [] OTHER -> allocator
    /\ UNCHANGED <<isolates, entered, scopes, made, contexts, catchers>>

EffectOnIsolate(f, i) ==
    /\ isolates' = CASE f = "Isolate.init" -> isolates \cup {i}
                     [] f = "Isolate.deinit" -> isolates \ {i}
                     [] OTHER -> isolates
    /\ entered' = CASE f = "Isolate.enter" -> Append(entered, i)
                    [] f = "Isolate.exit" -> Front(entered)
                    [] OTHER -> entered
    /\ scopes' = CASE f = "HandleScope.init" -> [scopes EXCEPT ![i] = @ + 1]
                   [] f = "HandleScope.deinit" -> [scopes EXCEPT ![i] = @ - 1]
                   [] OTHER -> scopes
    /\ made' = CASE f = "Context.init" -> [made EXCEPT ![i] = @ \cup {scopes[i]}]
                 [] f = "HandleScope.deinit" -> [made EXCEPT ![i] = @ \ {scopes[i]}]
                 [] OTHER -> made
    /\ \/ f = "Context.enter" /\ \E n \in made[i] :
                                  contexts' = [contexts EXCEPT ![i] = Append(@, n)]
       \/ f = "Context.exit" /\ contexts' = [contexts EXCEPT ![i] = Front(@)]
       \/ f \notin {"Context.enter", "Context.exit"} /\ UNCHANGED contexts
    /\ catchers' = CASE f = "TryCatch.init" ->
                            [catchers EXCEPT ![i] = Append(@, scopes[i])]
                     [] f = "TryCatch.deinit" -> [catchers EXCEPT ![i] = Front(@)]
                     [] OTHER -> catchers
    /\ UNCHANGED <<platform, v8, allocator>>

LifecycleNext ==
    \/ \E f \in ProcessCalls : AllowedProcess(f) /\ EffectOnProcess(f)
    \/ \E f \in IsolateCalls, i \in Isolates :
            AllowedIsolate(f, i) /\ EffectOnIsolate(f, i)

LifecycleSpec == LifecycleInit /\ [][LifecycleNext]_lifecycle
------------------------------------------------------------------------------
(***************************************************************************)
(* Properties.                                                             *)
(***************************************************************************)
TypeOK == /\ platform \in {"none", "made", "set"}
          /\ v8 \in {"down", "up", "disposed"}
          /\ allocator \in BOOLEAN
          /\ isolates \subseteq Isolates
          /\ entered \in Seq(Isolates)
          /\ scopes \in [Isolates -> Nat]
          /\ made \in [Isolates -> SUBSET (Nat \ {0})]
          /\ contexts \in [Isolates -> Seq(Nat \ {0})]
          /\ catchers \in [Isolates -> Seq(Nat \ {0})]

\* A caller that keeps to what each call requires never has anything outlive what
\* it needs: V8 the platform, an isolate V8 and its allocator, a handle scope or
\* an entry its isolate, a context handle or an open TryCatch its scope
\* (v8.zig 139-144, 152-158, 222-224, 414-432).
PlatformOutlivesV8 == v8 = "up" => platform = "set"
V8OutlivesIsolates == isolates # {} => v8 = "up" /\ allocator
IsolatesOutliveUses == \A i \in Isolates :
                            i \in Range(entered) \/ scopes[i] > 0 => i \in isolates
ScopesOutliveHandles ==
    \A i \in Isolates :
        made[i] \cup Range(contexts[i]) \cup Range(catchers[i]) \subseteq 1 .. scopes[i]

NothingOutlivesItsHost == /\ PlatformOutlivesV8
                          /\ V8OutlivesIsolates
                          /\ IsolatesOutliveUses
                          /\ ScopesOutliveHandles
==============================================================================
