------------------------------- MODULE Handles -------------------------------
(***************************************************************************)
(* Handles to objects of one isolate: locals in handle scopes, Persistent  *)
(* and the weak forms of Persistent in v8.zig over binding.cpp.            *)
(*                                                                         *)
(* A Persistent is a Zig struct of one word, the address of a node in V8's *)
(* table of global handles.  init, deinit, setWeak and setWeakFinalizer    *)
(* hand the address of that word to V8: Reset clears the word, and a weak  *)
(* node remembers where the word is, so that the collector can clear it.   *)
(* castToObject and its relatives return the address of the node as if it  *)
(* were a local, without a scope that says how long it is good for.        *)
(***************************************************************************)
EXTENDS Naturals, Sequences

CONSTANTS Objects,    \* JavaScript objects that can be allocated
          Vars,       \* Zig variables of type Persistent
          Nodes,      \* entries of the table of global handles
          MaxScopes,  \* bound: handle scopes open at the same time
          Null        \* the empty Persistent; also no object, no variable

ASSUME NullAssumption == Null \notin Objects \cup Vars \cup Nodes
ASSUME ScopesAssumption == MaxScopes \in Nat \ {0}

VARIABLES
    life,     \* life[o]: "unborn", "alive" or "collected"
    global,   \* the objects that JavaScript itself can reach
    scopes,   \* scopes[i]: the objects with a local in the i-th open scope
    inner,    \* inner[p]: the node that variable p points to, or Null
    kind,     \* kind[n]: whether node n is free, strong, or weak in which way
    target,   \* target[n]: the object that node n refers to
    address,  \* address[n]: the variable V8 will clear when a weak n is emptied
    casts     \* values cast from a Persistent: the node, and the object meant

nodeVars == <<kind, target, address>>
vars == <<life, global, scopes, inner, nodeVars, casts>>

\* "clearing" after setWeak, "finalizing" after setWeakFinalizer; "dying" when
\* the object was collected and the finalizer has still to run.
WeakKinds == {"clearing", "finalizing"}
Kinds == {"free", "strong", "dying"} \cup WeakKinds

TypeOK == /\ life \in [Objects -> {"unborn", "alive", "collected"}]
          /\ global \subseteq Objects
          /\ scopes \in Seq(SUBSET Objects) /\ Len(scopes) <= MaxScopes
          /\ inner \in [Vars -> Nodes \cup {Null}]
          /\ kind \in [Nodes -> Kinds]
          /\ target \in [Nodes -> Objects \cup {Null}]
          /\ address \in [Nodes -> Vars \cup {Null}]
          /\ casts \subseteq [node : Nodes, denotes : Objects]

Init == /\ life = [o \in Objects |-> "unborn"]
        /\ global = {} /\ scopes = <<>> /\ casts = {}
        /\ inner = [p \in Vars |-> Null]
        /\ kind = [n \in Nodes |-> "free"]
        /\ target = [n \in Nodes |-> Null]
        /\ address = [n \in Nodes |-> Null]

Alive == {o \in Objects : life[o] = "alive"}
Used(n) == kind[n] # "free"
Locals == UNION {scopes[i] : i \in DOMAIN scopes}
Strong == {n \in Nodes : kind[n] = "strong"}

\* No collection is running its finalizers.
Running == \A n \in Nodes : kind[n] # "dying"

\* What the collector takes for roots.
Roots == global \cup Locals \cup {target[n] : n \in Strong}

\* The objects a call can be given now: through a local, through a cast, or
\* through a Persistent itself (getValueHandle takes its node).
Given == Locals \cup {target[c.node] : c \in casts}
                \cup {target[inner[p]] : p \in {q \in Vars : inner[q] # Null}}

Uncast(p) == \A c \in casts : c.node # inner[p]
------------------------------------------------------------------------------
(***************************************************************************)
(* Scopes and locals.                                                      *)
(***************************************************************************)
HandleScopeInit ==
    /\ Len(scopes) < MaxScopes
    /\ scopes' = Append(scopes, {})
    /\ UNCHANGED <<life, global, inner, nodeVars, casts>>

HandleScopeDeinit ==
    /\ scopes # <<>>
    /\ scopes' = SubSeq(scopes, 1, Len(scopes) - 1)
    /\ UNCHANGED <<life, global, inner, nodeVars, casts>>

\* A local is recorded in the innermost scope.
AddLocal(o) == scopes' = [scopes EXCEPT ![Len(scopes)] = @ \cup {o}]

ObjectInit(o) ==
    /\ scopes # <<>>
    /\ life[o] = "unborn"
    /\ life' = [life EXCEPT ![o] = "alive"]
    /\ AddLocal(o)
    /\ UNCHANGED <<global, inner, nodeVars, casts>>

\* Reading a property gives a new local.
getValue(o) ==
    /\ scopes # <<>>
    /\ o \in global
    /\ AddLocal(o)
    /\ UNCHANGED <<life, global, inner, nodeVars, casts>>

setValue(o) ==
    /\ o \in Given
    /\ global' = global \cup {o}
    /\ UNCHANGED <<life, scopes, inner, nodeVars, casts>>
------------------------------------------------------------------------------
(***************************************************************************)
(* Persistent.                                                             *)
(***************************************************************************)
\* GlobalizeReference: a free node, strong, for the object that the given
\* handle refers to.  The struct is returned by value into p, which must not
\* hold another node: nothing would ever free that one.
PersistentInit(p, o) ==
    \E n \in Nodes :
        /\ inner[p] = Null
        /\ o \in Given
        /\ ~Used(n)
        /\ inner' = [inner EXCEPT ![p] = n]
        /\ kind' = [kind EXCEPT ![n] = "strong"]
        /\ target' = [target EXCEPT ![n] = o]
        /\ address' = [address EXCEPT ![n] = Null]
        /\ UNCHANGED <<life, global, scopes, casts>>

\* A plausible bug in PersistentDeinit: self is passed by value, so that the
\* caller's word keeps its address.
PersistentDeinitCopy(p) ==
    IF inner[p] = Null THEN UNCHANGED vars
    ELSE /\ Uncast(p)
         /\ kind' = [kind EXCEPT ![inner[p]] = "free"]
         /\ target' = [target EXCEPT ![inner[p]] = Null]
         /\ address' = [address EXCEPT ![inner[p]] = Null]
         /\ UNCHANGED <<life, global, scopes, inner, casts>>

\* Node n becomes free, to be handed out again.
Freed(n) == /\ kind' = [kind EXCEPT ![n] = "free"]
            /\ target' = [target EXCEPT ![n] = Null]
            /\ address' = [address EXCEPT ![n] = Null]

\* Reset: nothing on an empty Persistent; otherwise the node is freed and the
\* word cleared.  No cast of it may be in use any more.
PersistentDeinit(p) ==
    IF inner[p] = Null THEN UNCHANGED vars
    ELSE /\ Uncast(p)
         /\ Freed(inner[p])
         /\ inner' = [inner EXCEPT ![p] = Null]
         /\ UNCHANGED <<life, global, scopes, casts>>

\* V8 keeps the address of self.inner.handle, or finalizer_ctx, from which the
\* finalizer finds the Persistent.
SetWeak(p, k) ==
    /\ inner[p] # Null
    /\ Uncast(p)
    /\ kind' = [kind EXCEPT ![inner[p]] = k]
    /\ address' = [address EXCEPT ![inner[p]] = p]
    /\ UNCHANGED <<life, global, scopes, inner, target, casts>>

setWeak(p) == SetWeak(p, "clearing")

\* A plausible bug in setWeakFinalizer: the enumerator is handed on as it is.
setWeakFinalizerRaw(p) == SetWeak(p, "kParameter")

setWeakFinalizer(p) == SetWeak(p, "finalizing")

\* A plausible bug in castTo: the Persistent may be weak.
castToWeak(p) ==
    /\ inner[p] # Null
    /\ casts' = casts \cup {[node |-> inner[p], denotes |-> target[inner[p]]]}
    /\ UNCHANGED <<life, global, scopes, inner, nodeVars>>

\* castToObject, castToFunction, castToPromiseResolver, toValue, for later use:
\* only a strong node keeps what it refers to.
castTo(p) ==
    /\ inner[p] # Null
    /\ kind[inner[p]] = "strong"
    /\ casts' = casts \cup {[node |-> inner[p], denotes |-> target[inner[p]]]}
    /\ UNCHANGED <<life, global, scopes, inner, nodeVars>>

\* Plausible bugs in Assign: a variable is overwritten that holds a node; or both
\* variables are used afterwards.
AssignOver(p, q) ==
    /\ p # q /\ inner[p] # Null
    /\ \A r \in {p, q} : inner[r] # Null => kind[inner[r]] = "strong"
    /\ inner' = [inner EXCEPT ![q] = inner[p], ![p] = Null]
    /\ UNCHANGED <<life, global, scopes, nodeVars, casts>>

AssignSharing(p, q) ==
    /\ inner[p] # Null /\ inner[q] = Null
    /\ kind[inner[p]] = "strong"
    /\ inner' = [inner EXCEPT ![q] = inner[p]]
    /\ UNCHANGED <<life, global, scopes, nodeVars, casts>>

\* A Persistent is a plain struct: assigning it copies the word.  The embedder
\* does so only while V8 does not know where the word is.
Assign(p, q) ==
    /\ inner[p] # Null /\ inner[q] = Null
    /\ kind[inner[p]] = "strong"
    /\ inner' = [inner EXCEPT ![q] = inner[p], ![p] = Null]
    /\ UNCHANGED <<life, global, scopes, nodeVars, casts>>

Discard(c) ==
    /\ c \in casts
    /\ casts' = casts \ {c}
    /\ UNCHANGED <<life, global, scopes, inner, nodeVars>>
------------------------------------------------------------------------------
(***************************************************************************)
(* JavaScript and the collector.                                           *)
(***************************************************************************)
Forget(o) ==
    /\ o \in global
    /\ global' = global \ {o}
    /\ UNCHANGED <<life, scopes, inner, nodeVars, casts>>

\* A collection finds some of the objects that no root refers to and empties
\* their weak nodes.  After setWeak the node is freed and V8 writes null to the
\* word whose address it has; after setWeakFinalizer the node has to wait.
Collect(D) ==
    LET emptied == {n \in Nodes : target[n] \in D}
        cleared == {n \in emptied : kind[n] = "clearing"}
    IN  /\ D # {} /\ D \subseteq Alive \ Roots
        /\ life' = [o \in Objects |-> IF o \in D THEN "collected" ELSE life[o]]
        /\ inner' = [p \in Vars |->
                       IF \E n \in cleared : address[n] = p THEN Null ELSE inner[p]]
        /\ kind' = [n \in Nodes |-> IF n \in cleared THEN "free"
                                    ELSE IF n \in emptied THEN "dying" ELSE kind[n]]
        /\ target' = [n \in Nodes |-> IF n \in emptied THEN Null ELSE target[n]]
        /\ address' = [n \in Nodes |-> IF n \in cleared THEN Null ELSE address[n]]
        /\ UNCHANGED <<global, scopes, casts>>

\* One finalizer after the other, before anything else runs.  Each has to deinit
\* its own Persistent, which it finds through finalizer_ctx, and no other.
Finalize(n) ==
    /\ kind[n] = "dying"
    /\ PersistentDeinit(address[n])

Embedder ==
    \/ HandleScopeInit \/ HandleScopeDeinit
    \/ \E o \in Objects : \/ ObjectInit(o) \/ getValue(o) \/ setValue(o)
                          \/ \E p \in Vars : PersistentInit(p, o)
    \/ \E p \in Vars : \/ PersistentDeinit(p) \/ setWeak(p)
                       \/ setWeakFinalizer(p) \/ castTo(p)
                       \/ \E q \in Vars : Assign(p, q)
    \/ \E c \in casts : Discard(c)

JavaScript ==
    \/ \E o \in Objects : Forget(o)
    \/ \E D \in SUBSET Objects : Collect(D)

Next == \/ Running /\ Embedder
        \/ Running /\ JavaScript
        \/ \E n \in Nodes : Finalize(n)

\* V8 collects what is garbage some time, all of it, and runs the finalizers.
Fairness == /\ WF_vars(Running /\ Collect(Alive \ Roots))
            /\ WF_vars(\E n \in Nodes : Finalize(n))

Spec == Init /\ [][Next]_vars
FairSpec == Spec /\ Fairness
------------------------------------------------------------------------------
(***************************************************************************)
(* Properties                                                              *)
(***************************************************************************)
\* Every node in use belongs to exactly one variable, which is the one V8 will
\* clear if the node is weak; every other variable is empty.  So no node leaks,
\* none is freed twice, and V8 never writes to a word that is not its own.
NodesOwned ==
    /\ \A p \in Vars : inner[p] # Null => Used(inner[p])
    /\ \A p, q \in Vars : inner[p] = inner[q] /\ inner[p] # Null => p = q
    /\ \A n \in Nodes : Used(n) => \E p \in Vars : inner[p] = n
    /\ \A n \in Nodes : kind[n] \in WeakKinds \cup {"dying"} =>
                        address[n] \in Vars /\ inner[address[n]] = n

\* Whatever can be given to a call is an object that was not collected, and
\* a cast still means the object it was made from although nodes are reused.
NothingDangles ==
    /\ Running => global \cup Given \subseteq Alive
    /\ \A c \in casts : kind[c.node] = "strong" /\ target[c.node] = c.denotes

\* An object that no scope, no strong Persistent and no JavaScript refers to
\* from some time on is collected; weak Persistents do not keep it, and their
\* finalizers come to an end.
InHand(o) == \/ o \in global \cup Locals
             \/ \E p \in Vars : /\ inner[p] # Null
                                /\ kind[inner[p]] = "strong"
                                /\ target[inner[p]] = o
UnreferencedIsCollected ==
    /\ \A o \in Objects : <>[](~InHand(o)) => <>[](life[o] # "alive")
    /\ []<>Running

\* The invariant behind both safety properties: a node refers to an object that
\* is alive exactly as long as it was not emptied, and so do roots and casts,
\* even while finalizers run.
NodesRefer ==
    \A n \in Nodes : IF kind[n] \in {"free", "dying"} THEN target[n] = Null
                    ELSE target[n] \in Alive
RootsAlive == /\ global \subseteq Alive
              /\ \A i \in DOMAIN scopes : scopes[i] \subseteq Alive
CastsHold == \A c \in casts : /\ kind[c.node] = "strong"
                              /\ target[c.node] = c.denotes
IInv == TypeOK /\ NodesOwned /\ NodesRefer /\ RootsAlive /\ CastsHold

\* Handles are references: see the module References.
VarName(p) == <<"variable", p>>
ScopeName(i) == <<"scope", i>>
GlobalName == <<"global", Null>>
Pointing(k) == {p \in Vars : inner[p] # Null /\ kind[inner[p]] \in k}
GlobalHolds == {<<GlobalName, o>> : o \in global}
ScopeHolds == UNION {{<<ScopeName(i), o>> : o \in scopes[i]} : i \in DOMAIN scopes}
PointsTo(k) == {<<VarName(p), target[inner[p]]>> : p \in Pointing(k)}
Abstract == INSTANCE References WITH
    Names <- {VarName(p) : p \in Vars} \cup {ScopeName(i) : i \in 1 .. MaxScopes}
             \cup {GlobalName},
    holds <- GlobalHolds \cup ScopeHolds \cup PointsTo({"strong"}),
    watches <- PointsTo(WeakKinds)
ImplementsReferences == Abstract!ReferencesSpec
==============================================================================
