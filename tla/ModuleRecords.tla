---------------------------- MODULE ModuleRecords ----------------------------
(***************************************************************************)
(* What linking and evaluating ES modules promises: modules are linked     *)
(* together with everything they import; the code of each runs at most     *)
(* once, after the code of what it imports, unless that imports it back;   *)
(* and who imports what failed fails with it, without running.             *)
(***************************************************************************)
EXTENDS FiniteSets

CONSTANT Modules

VARIABLES graph,    \* what each module imports, for the linked ones
          ran,      \* modules whose code was started
          done,     \* modules evaluated for good
          failed    \* modules that failed for good

vars == <<graph, ran, done, failed>>

Linked == DOMAIN graph

Init == /\ graph \in [{} -> SUBSET Modules]
        /\ ran = {} /\ done = {} /\ failed = {}

\* Everything that m leads to, itself included.
Reach(m) ==
    {n \in Linked : \A S \in SUBSET Linked :
        (m \in S /\ \A x \in S : graph[x] \subseteq S) => n \in S}

\* S is linked, importing from S and from what is linked already.
Link(S) ==
    /\ S \cap Linked = {}
    /\ DOMAIN graph' = Linked \cup S
    /\ \A m \in Linked : graph'[m] = graph[m]
    /\ \A m \in S : graph'[m] \subseteq Linked \cup S
    /\ UNCHANGED <<ran, done, failed>>

\* The code of m may be started.
MayRun(m) ==
    /\ m \in Linked \ (ran \cup failed)
    /\ \A n \in graph[m] : n \notin failed /\ (n \in ran \/ m \in Reach(n))

\* The code of m runs to its end, and with it a group of modules may be done.
Run(m) ==
    /\ MayRun(m)
    /\ ran' = ran \cup {m}
    /\ \E S \in SUBSET (ran' \ (done \cup failed)) :
          /\ \A x \in S : graph[x] \subseteq done \cup S
          /\ done' = done \cup S
    /\ UNCHANGED <<graph, failed>>

\* Modules fail that lead to one of them that throws, or to one that failed.
Fail(S, thrower) ==
    /\ S \subseteq Linked \ (done \cup failed) /\ S # {}
    /\ \A x \in S : Reach(x) \cap (thrower \cup failed) # {}
    /\ failed' = failed \cup S
    /\ UNCHANGED <<graph, done>>

\* The code of m throws.
RunFails(m) == /\ MayRun(m)
               /\ ran' = ran \cup {m}
               /\ \E S \in SUBSET Linked : m \in S /\ Fail(S, {m})

Spread == \E S \in SUBSET Linked : Fail(S, {}) /\ UNCHANGED ran

Next == \/ \E S \in SUBSET Modules : Link(S)
        \/ \E m \in Modules : Run(m) \/ RunFails(m)
        \/ Spread

Spec == Init /\ [][Next]_vars
==============================================================================
