----------------------------- MODULE ModulesProofs -----------------------------
(***************************************************************************)
(* Theorems about Modules, for any modules, numbers of imports, and code   *)
(* caches.                                                                 *)
(***************************************************************************)
EXTENDS Modules, FiniteSetTheorems, WellFoundedInduction, TLAPS

(***************************************************************************)
(* What a module leads to, by imports f through modules of S.              *)
(***************************************************************************)
Closed(f, S, R) == \A x \in R \cap S : Range(f[x]) \subseteq R
Closure(f, m, S) ==
    {n \in Modules : \A R \in SUBSET Modules : m \in R /\ Closed(f, S, R) => n \in R}

LEMMA ThroughIs ==
  ASSUME NEW m, NEW S
  PROVE  Through(m, S) = Closure(imports, m, S)
BY DEF Through, Closure, Closed

LEMMA ThroughIsNext ==
  ASSUME NEW m, NEW S
  PROVE  Through(m, S)' = Closure(imports', m', S')
BY DEF Through, Closure, Closed

LEMMA ClosureHasRoot ==
  ASSUME NEW f, NEW S, NEW m \in Modules
  PROVE  m \in Closure(f, m, S)
BY DEF Closure

LEMMA ClosureIsClosed ==
  ASSUME NEW f, NEW S, NEW m, NEW x \in Closure(f, m, S) \cap S, NEW n \in Range(f[x]),
         n \in Modules
  PROVE  n \in Closure(f, m, S)
BY DEF Closure, Closed

LEMMA ClosureIsLeast ==
  ASSUME NEW f, NEW S, NEW R \in SUBSET Modules, NEW m \in R, Closed(f, S, R)
  PROVE  Closure(f, m, S) \subseteq R
BY DEF Closure

LEMMA ClosureComposes ==
  ASSUME NEW f, NEW S, NEW m, NEW x \in Closure(f, m, S), NEW y \in Closure(f, x, S)
  PROVE  y \in Closure(f, m, S)
BY DEF Closure

(***************************************************************************)
(* Sequences and their ranges.                                             *)
(***************************************************************************)
LEMMA AppendRange ==
  ASSUME NEW X, NEW s \in Seq(X), NEW e \in X
  PROVE  /\ Append(s, e) \in Seq(X) /\ Len(Append(s, e)) = Len(s) + 1
         /\ Range(Append(s, e)) = Range(s) \cup {e}
         /\ \A i \in DOMAIN s : Append(s, e)[i] = s[i]
         /\ Append(s, e)[Len(s) + 1] = e
         /\ DOMAIN Append(s, e) = DOMAIN s \cup {Len(s) + 1}
<1>1. /\ Append(s, e) \in Seq(X) /\ Len(Append(s, e)) = Len(s) + 1
      /\ DOMAIN s = 1 .. Len(s) /\ DOMAIN Append(s, e) = 1 .. (Len(s) + 1)
      /\ Len(s) \in Nat
      /\ \A i \in 1 .. Len(s) : Append(s, e)[i] = s[i]
      /\ Append(s, e)[Len(s) + 1] = e
  OBVIOUS
<1>2. \A n \in Nat : 1 .. (n + 1) = (1 .. n) \cup {n + 1}
  OBVIOUS
<1>3. DOMAIN Append(s, e) = DOMAIN s \cup {Len(s) + 1}
  BY <1>1, <1>2
<1>4. Range(Append(s, e)) = Range(s) \cup {e}
  BY <1>1, <1>3 DEF Range
<1>5. QED  BY <1>1, <1>3, <1>4

\* A path without its last element.
LEMMA FrontRange ==
  ASSUME NEW X, NEW s \in Seq(X), s # << >>
  PROVE  LET front == SubSeq(s, 1, Len(s) - 1) IN
         /\ front \in Seq(X) /\ Len(s) \in DOMAIN s /\ s[Len(s)] \in X
         /\ DOMAIN front = DOMAIN s \ {Len(s)}
         /\ \A i \in DOMAIN front : front[i] = s[i] /\ i <= Len(s)
         /\ Range(s) = Range(front) \cup {s[Len(s)]}
<1> DEFINE front == SubSeq(s, 1, Len(s) - 1)
<1>1. Len(s) \in Nat \ {0} /\ DOMAIN s = 1 .. Len(s) /\ \A i \in DOMAIN s : s[i] \in X
  OBVIOUS
<1>2. \A n \in Nat \ {0} : /\ n - 1 \in Nat /\ 1 .. (n - 1) = (1 .. n) \ {n}
                            /\ n \in 1 .. n /\ \A i \in 1 .. n : i <= n
  OBVIOUS
<1>3. /\ front \in Seq(X) /\ Len(front) = Len(s) - 1
      /\ DOMAIN front = 1 .. (Len(s) - 1)
      /\ \A i \in 1 .. (Len(s) - 1) : front[i] = s[i]
  BY <1>1
<1>4. /\ DOMAIN front = DOMAIN s \ {Len(s)} /\ Len(s) \in DOMAIN s
      /\ \A i \in DOMAIN front : front[i] = s[i] /\ i <= Len(s)
  BY <1>1, <1>2, <1>3
<1>5. Range(s) = Range(front) \cup {s[Len(s)]}
  BY <1>1, <1>4 DEF Range
<1>6. QED  BY <1>1, <1>3, <1>4, <1>5

LEMMA EmptyRange ==
  /\ Range(<< >>) = {} /\ DOMAIN << >> = {} /\ Len(<< >>) = 0
  /\ \A X : << >> \in Seq(X)
BY DEF Range

LEMMA RangeWithin ==
  ASSUME NEW X, NEW s \in Seq(X)
  PROVE  Range(s) \subseteq X /\ \A i \in DOMAIN s : s[i] \in Range(s)
BY DEF Range

(***************************************************************************)
(* The inductive invariant.                                                *)
(***************************************************************************)
\* A CachedData is its embedder's or a source's, and that source exists.
Owned ==
    /\ slice \subseteq Modules /\ cached \subseteq slice /\ source \subseteq Modules
    /\ owner \in [Modules -> {{}, {"zig"}, {"source"}}]
    /\ \A m \in Modules : /\ m \in cached <=> owner[m] # {}
                          /\ "source" \in owner[m] => m \in source

LinkTypes ==
    /\ status \in [Modules -> Status \cup {"uncompiled"}]
    /\ imports \in [Modules -> Seq(Modules)]
    /\ \A m \in Modules : Len(imports[m]) <= Requests[m]
    /\ root \in Modules \cup {NoModule} /\ thrown \in BOOLEAN

\* Imports are compiled, those of linked modules are complete and linked, and
\* others have some only while instantiate is at them and at what they import.
Linked ==
    /\ \A m \in Modules : /\ status[m] = "uncompiled" => imports[m] = << >>
                          /\ Range(imports[m]) \cap With({"uncompiled"}) = {}
    /\ \A m \in With({"kUninstantiated"}) : imports[m] = << >>
    /\ root = NoModule => Visited = {}
    /\ \A m \in Visited : Range(imports[m]) \cap With({"kUninstantiated"}) = {}
    /\ \A m \in With(Instantiated) : /\ Len(imports[m]) = Requests[m]
                                     /\ Range(imports[m]) \subseteq With(Instantiated)

RunTypes ==
    /\ path \in Seq(Modules) /\ Range(path) \subseteq With({"kEvaluating"})
    /\ promise \in [Modules -> {"none", "fulfilled", "rejected"}]
    /\ ran \subseteq Modules
    /\ root # NoModule => path = << >>
    /\ \A i, j \in DOMAIN path : path[i] = path[j] => i = j

\* What was started is known by the status; what is on the path was not.
Started ==
    /\ Range(path) \cap ran = {}
    /\ ran \subseteq With({"kEvaluating", "kEvaluated", "kErrored"})
    /\ \A m \in With({"kEvaluated"}) :
          m \in ran /\ Range(imports[m]) \subseteq With({"kEvaluated"})
    /\ \A m \in With({"kEvaluating"}) \ Range(path) :
          m \in ran /\ Range(imports[m]) \subseteq With({"kEvaluating", "kEvaluated"})

\* The path is one of imports, and whatever else waits is on a cycle with it.
OnPath ==
    /\ \A i, j \in DOMAIN path : i <= j => path[j] \in Through(path[i], Modules)
    /\ \A m \in With({"kEvaluating"}) : \E i \in DOMAIN path :
          path[i] \in Through(m, Modules) /\ m \in Through(path[i], Modules)

Told == \A m \in Modules : /\ promise[m] = "fulfilled" => status[m] = "kEvaluated"
                           /\ promise[m] = "rejected" => status[m] = "kErrored"

Running == RunTypes /\ Started /\ OnPath /\ Told

IInv == Owned /\ LinkTypes /\ Linked /\ Running

(***************************************************************************)
(* What the invariant says of the operators.                               *)
(***************************************************************************)
LEMMA LeastOf ==
  ASSUME NEW T \in SUBSET Nat, T # {}
  PROVE  \E i \in T : \A j \in T : i <= j
<1>1. PICK i \in T : \A j \in T : ~ (<<j, i>> \in OpToRel(<, Nat))
  BY WFMin, NatLessThanWellFounded, Zenon
<1>2. \A j \in T : ~ (j < i)
  BY <1>1 DEF OpToRel
<1>3. QED  BY <1>2

LEMMA AllFinishedIs ==
  ASSUME LinkTypes, NEW m \in Modules
  PROVE  AllFinished(m) <=> Range(imports[m]) \subseteq With({"kEvaluating", "kEvaluated"})
<1>1. imports[m] \in Seq(Modules)
  BY DEF LinkTypes
<1>2. Range(imports[m]) \subseteq Modules
  BY <1>1, RangeWithin
<1>3. QED  BY <1>2 DEF AllFinished, Finished, With, Range

LEMMA CurrentIs ==
  ASSUME RunTypes, path # << >>
  PROVE  /\ Current \in Modules /\ Current \in Range(path) /\ status[Current] = "kEvaluating"
         /\ Len(path) \in DOMAIN path /\ path[Len(path)] = Current
         /\ 1 \in DOMAIN path /\ path[1] \in Modules /\ path[1] \in Range(path)
<1>1. Len(path) \in DOMAIN path /\ path[Len(path)] \in Modules
  BY FrontRange DEF RunTypes
<1>2. Len(path) \in Nat \ {0} /\ DOMAIN path = 1 .. Len(path) /\ 1 \in 1 .. Len(path)
  BY DEF RunTypes
<1>3. path[Len(path)] \in Range(path) /\ path[1] \in Range(path) /\ Range(path) \subseteq Modules
  BY <1>1, <1>2, RangeWithin DEF RunTypes
<1>4. status[path[Len(path)]] = "kEvaluating"
  BY <1>3 DEF RunTypes, With
<1>5. QED  BY <1>1, <1>2, <1>3, <1>4 DEF Current

LEMMA NextImportIs ==
  ASSUME LinkTypes, RunTypes, path # << >>, ~AllFinished(Current)
  PROVE  /\ NextImport \in Modules /\ NextImport \in Range(imports[Current])
         /\ ~Finished(NextImport)
<1>1. Current \in Modules
  BY CurrentIs
<1>2. imports[Current] \in Seq(Modules)
  BY <1>1 DEF LinkTypes
<1> DEFINE todo == {i \in DOMAIN imports[Current] : ~Finished(imports[Current][i])}
<1>3. todo # {}
  BY DEF AllFinished
<1>4. todo \subseteq Nat
  <2>1. DOMAIN imports[Current] = 1 .. Len(imports[Current])
    BY <1>2
  <2>2. QED  BY <2>1
<1>5. \E i \in todo : \A j \in todo : i <= j
  BY <1>3, <1>4, LeastOf
<1> DEFINE k == CHOOSE i \in todo : \A j \in todo : i <= j
<1>6. k \in todo
  BY <1>5
<1>7. NextImport = imports[Current][k]
  BY DEF NextImport
<1>8. imports[Current][k] \in Range(imports[Current]) /\ Range(imports[Current]) \subseteq Modules
  BY <1>2, <1>6, RangeWithin
<1>9. ~Finished(imports[Current][k])
  BY <1>6
<1> HIDE DEF k
<1>10. QED  BY <1>7, <1>8, <1>9

(***************************************************************************)
(* The code cache.                                                         *)
(***************************************************************************)
LEMMA CachesKept ==
  ASSUME Owned, [Next]_vars
  PROVE  Owned'
<1>1. ASSUME NEW m \in Modules, CachedDataInit(m) PROVE Owned'
  BY <1>1 DEF Owned, CachedDataInit
<1>2. ASSUME NEW m \in Modules, CachedDataDeinit(m) PROVE Owned'
  BY <1>2 DEF Owned, CachedDataDeinit
<1>3. ASSUME NEW m \in Modules, FreeSlice(m) PROVE Owned'
  BY <1>3 DEF Owned, FreeSlice
<1>4. ASSUME NEW m \in Modules, SourceInit(m) PROVE Owned'
  BY <1>4 DEF Owned, SourceInit
<1>5. ASSUME NEW m \in Modules, SourceDeinit(m) PROVE Owned'
  BY <1>5 DEF Owned, SourceDeinit
<1>6. ASSUME UNCHANGED cacheVars PROVE Owned'
  BY <1>6 DEF Owned, cacheVars
<1>7. QED
  BY <1>1, <1>2, <1>3, <1>4, <1>5, <1>6
     DEF Next, vars, compileModule, instantiate, Resolve, evaluate, evaluateAgain,
         ResolveThrows, ResolveFails, LinkImports, EndInstantiate, Enter, ImportFailed,
         Run, RunThrows
(***************************************************************************)
(* Linking.                                                                *)
(***************************************************************************)
\* Steps that link nothing.
LEMMA LinksStay ==
  ASSUME LinkTypes, Linked, UNCHANGED linkVars, thrown' \in BOOLEAN,
         status' \in [Modules -> Status \cup {"uncompiled"}],
         \A m \in Modules : \/ status'[m] = status[m]
                            \/ {status[m], status'[m]} \subseteq Instantiated
  PROVE  LinkTypes' /\ Linked'
<1>1. imports' = imports /\ root' = root
  BY DEF linkVars
<1>2. LinkTypes'
  BY <1>1 DEF LinkTypes
<1>3. /\ With({"uncompiled"})' = With({"uncompiled"})
      /\ With({"kUninstantiated"})' = With({"kUninstantiated"})
      /\ Visited' = Visited
      /\ With(Instantiated)' = With(Instantiated)
  BY DEF With, Visited, Instantiated, LinkTypes, Status
<1>4. \A m \in Modules : status'[m] = "uncompiled" => status[m] = "uncompiled"
  BY DEF Instantiated
<1>5. QED  BY <1>1, <1>2, <1>3, <1>4 DEF Linked

LEMMA CompileKeepsLinks ==
  ASSUME LinkTypes, Linked, NEW m \in Modules, NEW ok \in BOOLEAN, compileModule(m, ok)
  PROVE  LinkTypes' /\ Linked'
<1>1. UNCHANGED linkVars /\ imports' = imports /\ root' = root
  BY DEF compileModule, linkVars
<1>2. CASE ~ok
  <2>1. status' = status /\ thrown' \in BOOLEAN
    BY <1>2 DEF compileModule
  <2>2. QED  BY <1>1, <2>1, LinksStay DEF LinkTypes
<1>3. CASE ok
  <2>1. /\ status' = [status EXCEPT ![m] = "kUninstantiated"] /\ thrown' \in BOOLEAN
        /\ status[m] = "uncompiled" /\ status \in [Modules -> Status \cup {"uncompiled"}]
    BY <1>3 DEF compileModule, LinkTypes
  <2>2. LinkTypes'
    BY <1>1, <2>1 DEF LinkTypes, Status
  <2>3. /\ With({"uncompiled"})' \subseteq With({"uncompiled"}) /\ m \in With({"uncompiled"})
        /\ With({"kUninstantiated"})' = With({"kUninstantiated"}) \cup {m}
        /\ Visited' = Visited /\ Visited \subseteq Modules
        /\ With(Instantiated)' = With(Instantiated)
        /\ \A n \in Modules : status'[n] = "uncompiled" => status[n] = "uncompiled"
    BY <2>1 DEF With, Visited, Instantiated
  <2>4. imports[m] = << >> /\ \A x \in Modules : m \notin Range(imports[x])
    BY <2>1, <2>3 DEF Linked
  <2>5. QED  BY <1>1, <2>2, <2>3, <2>4 DEF Linked
<1>4. QED  BY <1>2, <1>3

LEMMA InstantiateKeepsLinks ==
  ASSUME LinkTypes, Linked, NEW m \in Modules, instantiate(m)
  PROVE  LinkTypes' /\ Linked'
<1>1. /\ status' = [status EXCEPT ![m] = "kInstantiating"] /\ imports' = imports
      /\ thrown' = thrown /\ root' = m /\ root = NoModule /\ status[m] = "kUninstantiated"
  BY DEF instantiate, Idle
<1>2. LinkTypes'
  BY <1>1 DEF LinkTypes, Status
<1>3. status'[m] = "kInstantiating" /\ \A x \in Modules : x # m => status'[x] = status[x]
  BY <1>1 DEF LinkTypes
<1>4. /\ With({"uncompiled"})' = With({"uncompiled"})
      /\ With({"kUninstantiated"})' = With({"kUninstantiated"}) \ {m}
      /\ Visited' = Visited \cup {m}
      /\ With(Instantiated)' = With(Instantiated)
      /\ \A x \in Modules : status'[x] = "uncompiled" => status[x] = "uncompiled"
  BY <1>1, <1>3 DEF With, Visited, Instantiated
<1>5. imports[m] = << >> /\ Visited = {}
  BY <1>1 DEF Linked, With
<1>6. m # NoModule
  BY ModulesAssumption
<1>7. QED  BY <1>1, <1>2, <1>4, <1>5, <1>6, EmptyRange DEF Linked

LEMMA ResolveKeepsLinks ==
  ASSUME LinkTypes, Linked, NEW m \in Modules, NEW n \in Modules, Resolve(m, n)
  PROVE  LinkTypes' /\ Linked'
<1>1. /\ status' = [status EXCEPT ![n] =
                      IF @ = "kUninstantiated" THEN "kInstantiating" ELSE @]
      /\ imports' = [imports EXCEPT ![m] = Append(@, n)]
      /\ thrown' = thrown /\ root' = root /\ root # NoModule
      /\ status[n] # "uncompiled" /\ Len(imports[m]) < Requests[m]
      /\ status[m] = "kInstantiating"
  BY DEF Resolve, Visited, With, Unasked
<1>2. /\ imports[m] \in Seq(Modules)
      /\ imports' \in [Modules -> Seq(Modules)] /\ imports'[m] = Append(imports[m], n)
      /\ \A x \in Modules : x # m => imports'[x] = imports[x]
  BY <1>1 DEF LinkTypes
<1>3. /\ Len(imports'[m]) = Len(imports[m]) + 1 /\ Range(imports'[m]) = Range(imports[m]) \cup {n}
  BY <1>2, AppendRange
<1>4. LinkTypes'
  <2>1. Len(imports'[m]) <= Requests[m]
    <3>1. Len(imports[m]) \in Nat /\ Requests[m] \in Nat
      BY <1>2, ModulesAssumption
    <3>2. QED  BY <1>1, <1>3, <3>1
  <2>2. \A x \in Modules : Len(imports'[x]) <= Requests[x]
    BY <1>2, <2>1 DEF LinkTypes
  <2>3. status' \in [Modules -> Status \cup {"uncompiled"}]
    BY <1>1 DEF LinkTypes, Status
  <2>4. QED  BY <1>1, <1>2, <2>2, <2>3 DEF LinkTypes
<1>5. /\ \A x \in Modules : \/ status'[x] = status[x]
                            \/ /\ x = n /\ status[x] = "kUninstantiated"
                               /\ status'[x] = "kInstantiating"
      /\ status'[n] # "kUninstantiated"
  BY <1>1 DEF LinkTypes
<1>6. /\ With({"uncompiled"})' = With({"uncompiled"}) /\ n \notin With({"uncompiled"})
      /\ With({"kUninstantiated"})' = With({"kUninstantiated"}) \ {n}
      /\ With({"kUninstantiated"}) \subseteq Modules
      /\ Visited' \subseteq Visited \cup (With({"kUninstantiated"}) \cap {n})
      /\ With(Instantiated)' = With(Instantiated) /\ With(Instantiated) \subseteq Modules
      /\ \A x \in Modules : status'[x] = "uncompiled" => status[x] = "uncompiled"
  BY <1>1, <1>5 DEF With, Visited, Instantiated
<1>7. /\ m \notin With({"kUninstantiated"}) /\ m \notin With(Instantiated) /\ m \in Visited
      /\ Visited \subseteq Modules /\ status[m] # "uncompiled"
  BY <1>1 DEF With, Visited, Instantiated
<1>8. \A x \in Modules : /\ status'[x] = "uncompiled" => imports'[x] = << >>
                         /\ Range(imports'[x]) \cap With({"uncompiled"}) = {}
  <2> TAKE x \in Modules
  <2>1. /\ status[x] = "uncompiled" => imports[x] = << >>
        /\ Range(imports[x]) \cap With({"uncompiled"}) = {}
    BY DEF Linked
  <2>2. CASE x = m
    BY <1>3, <1>6, <1>7, <2>1, <2>2
  <2>3. CASE x # m
    BY <1>2, <1>6, <2>1, <2>3
  <2>4. QED  BY <2>2, <2>3
<1>9. \A x \in With({"kUninstantiated"}) : imports'[x] = << >>
  BY <1>2, <1>6, <1>7 DEF Linked
<1>10. \A x \in Visited' : Range(imports'[x]) \cap With({"kUninstantiated"})' = {}
  <2> TAKE x \in Visited'
  <2>1. CASE x = m
    BY <1>3, <1>6, <1>7, <2>1 DEF Linked
  <2>2. CASE x # m /\ x \in Visited
    BY <1>2, <1>6, <1>7, <2>2 DEF Linked
  <2>3. CASE x # m /\ x \in With({"kUninstantiated"})
    BY <1>2, <1>6, <2>3, EmptyRange DEF Linked
  <2>4. QED  BY <1>6, <2>1, <2>2, <2>3
<1>11. \A x \in With(Instantiated) : /\ Len(imports'[x]) = Requests[x]
                                     /\ Range(imports'[x]) \subseteq With(Instantiated)
  BY <1>2, <1>6, <1>7 DEF Linked
<1>12. QED  BY <1>1, <1>4, <1>6, <1>8, <1>9, <1>10, <1>11 DEF Linked

\* The modules of S, with all that they import, become linked.
LEMMA EndKeepsLinks ==
  ASSUME LinkTypes, Linked, root # NoModule, NEW S \in SUBSET Visited, EndInstantiate(S),
         \A m \in S : ~Unasked(m) /\ Range(imports[m]) \cap Visited \subseteq S
  PROVE  LinkTypes' /\ Linked'
<1>1. /\ status' = [m \in Modules |-> IF m \in S THEN "kInstantiated"
                                  ELSE IF m \in Visited THEN "kUninstantiated"
                                  ELSE status[m]]
      /\ imports' = [m \in Modules |-> IF m \in Visited \ S THEN << >> ELSE imports[m]]
      /\ root' = NoModule /\ thrown' = FALSE
  BY DEF EndInstantiate
<1>2. /\ Visited \subseteq Modules /\ S \subseteq Visited
      /\ \A m \in Visited : status[m] = "kInstantiating"
      /\ With({"kUninstantiated"}) \subseteq Modules
  BY DEF Visited, With
<1>3. LinkTypes'
  <2>1. status' \in [Modules -> Status \cup {"uncompiled"}]
    BY <1>1 DEF LinkTypes, Status
  <2>2. imports' \in [Modules -> Seq(Modules)]
    BY <1>1, EmptyRange DEF LinkTypes
  <2>3. \A m \in Modules : Len(imports'[m]) <= Requests[m]
    BY <1>1, EmptyRange, ModulesAssumption DEF LinkTypes
  <2>4. QED  BY <1>1, <2>1, <2>2, <2>3 DEF LinkTypes
<1>4. /\ With({"uncompiled"})' = With({"uncompiled"})
      /\ With({"kUninstantiated"})' = With({"kUninstantiated"}) \cup (Visited \ S)
      /\ Visited' = {}
      /\ With(Instantiated)' = With(Instantiated) \cup S
      /\ \A m \in Modules : status'[m] = "uncompiled" => status[m] = "uncompiled"
  BY <1>1, <1>2 DEF With, Visited, Instantiated
<1>5. \A m \in Modules : Range(imports'[m]) \subseteq Range(imports[m])
  BY <1>1, EmptyRange
<1>6. ASSUME NEW m \in Modules
      PROVE  /\ status'[m] = "uncompiled" => imports'[m] = << >>
             /\ Range(imports'[m]) \cap With({"uncompiled"}) = {}
  BY <1>1, <1>4, <1>5 DEF Linked
<1>7. ASSUME NEW m \in With({"kUninstantiated"}) \cup (Visited \ S)
      PROVE  imports'[m] = << >>
  BY <1>1, <1>2 DEF Linked
<1>8. ASSUME NEW m \in With(Instantiated)
      PROVE  /\ Len(imports'[m]) = Requests[m]
             /\ Range(imports'[m]) \subseteq With(Instantiated)
  <2>1. m \notin Visited /\ m \in Modules
    BY <1>2 DEF With, Instantiated
  <2>2. QED  BY <1>1, <2>1 DEF Linked
<1>9. ASSUME NEW m \in S
      PROVE  /\ Len(imports'[m]) = Requests[m]
             /\ Range(imports'[m]) \subseteq With(Instantiated) \cup S
  <2>1. m \in Modules /\ imports'[m] = imports[m] /\ imports[m] \in Seq(Modules)
    BY <1>1, <1>2 DEF LinkTypes
  <2>2. Len(imports[m]) = Requests[m]
    <3>1. Len(imports[m]) \in Nat /\ Requests[m] \in Nat /\ Len(imports[m]) <= Requests[m]
      BY <2>1, ModulesAssumption DEF LinkTypes
    <3>2. ~(Len(imports[m]) < Requests[m])
      BY DEF Unasked
    <3>3. QED  BY <3>1, <3>2
  <2>3. ASSUME NEW n \in Range(imports[m]) PROVE n \in With(Instantiated) \cup S
    <3>1. n \in Modules /\ status[n] # "uncompiled" /\ status[n] # "kUninstantiated"
      BY <1>2, <2>1, RangeWithin DEF Linked, With
    <3>2. n \in With(Instantiated) \/ n \in Visited
      BY <3>1 DEF With, Visited, Instantiated, LinkTypes, Status
    <3>3. QED  BY <3>2
  <2>4. QED  BY <2>1, <2>2, <2>3
<1>10. QED
  <2>1. \A m \in With({"kUninstantiated"})' : imports'[m] = << >>
    BY <1>4, <1>7
  <2>2. \A m \in With(Instantiated)' : /\ Len(imports'[m]) = Requests[m]
                                       /\ Range(imports'[m]) \subseteq With(Instantiated)'
    BY <1>4, <1>8, <1>9
  <2>3. QED  BY <1>3, <1>4, <1>6, <2>1, <2>2 DEF Linked
(***************************************************************************)
(* Evaluation.                                                             *)
(***************************************************************************)
Live == {"kEvaluating", "kEvaluated", "kErrored"}

LEMMA IdlePath ==
  ASSUME Running, path = << >>
  PROVE  With({"kEvaluating"}) = {}
BY EmptyRange DEF Running, OnPath

\* Steps that evaluate nothing.
LEMMA RunsStay ==
  ASSUME Running, UNCHANGED runVars, imports' = imports \/ path = << >>,
         root' # NoModule => path = << >>,
         \A m \in Modules : status[m] \in Live \/ status'[m] \in Live =>
                            status'[m] = status[m] /\ imports'[m] = imports[m]
  PROVE  Running'
<1>1. path' = path /\ promise' = promise /\ ran' = ran
  BY DEF runVars
<1>2. /\ With({"kEvaluating"})' = With({"kEvaluating"})
      /\ With({"kEvaluated"})' = With({"kEvaluated"})
      /\ With({"kEvaluating", "kEvaluated"})' = With({"kEvaluating", "kEvaluated"})
      /\ With({"kEvaluating", "kEvaluated", "kErrored"})' =
            With({"kEvaluating", "kEvaluated", "kErrored"})
  BY DEF With, Live
<1>3. \A m \in With({"kEvaluating", "kEvaluated", "kErrored"}) : imports'[m] = imports[m]
  BY DEF With, Live
<1>4. RunTypes'
  BY <1>1, <1>2 DEF Running, RunTypes
<1>5. Started'
  <2>1. \A m \in With({"kEvaluating"}) \cup With({"kEvaluated"}) : imports'[m] = imports[m]
    BY <1>3 DEF With
  <2>2. QED  BY <1>1, <1>2, <2>1 DEF Running, Started
<1>6. OnPath'
  <2>1. CASE path = << >>
    <3>1. With({"kEvaluating"})' = {} /\ DOMAIN path' = {}
      BY <1>1, <1>2, <2>1, IdlePath, EmptyRange
    <3>2. QED  BY <3>1 DEF OnPath
  <2>2. CASE imports' = imports
    <3>1. \A m : Through(m, Modules) = Closure(imports, m, Modules)
      BY ThroughIs
    <3>2. \A m : Through(m, Modules)' = Closure(imports, m, Modules)
      BY <2>2, ThroughIsNext
    <3>3. \A i \in DOMAIN path' : Through(path[i], Modules)' = Closure(imports, path'[i], Modules)
      BY <2>2, ThroughIsNext
    <3>4. \A i \in DOMAIN path : Through(path[i], Modules) = Closure(imports, path[i], Modules)
      BY ThroughIs
    <3>5. QED  BY <1>1, <1>2, <3>1, <3>2, <3>3, <3>4 DEF Running, OnPath
  <2>3. QED  BY <2>1, <2>2
<1>7. Told'
  BY <1>1 DEF Running, Told, Live
<1>8. QED  BY <1>4, <1>5, <1>6, <1>7 DEF Running

LEMMA EvaluateKeepsRuns ==
  ASSUME LinkTypes, Linked, Running, NEW m \in Modules, evaluate(m)
  PROVE  Running'
<1>1. /\ path' = <<m>> /\ promise' = promise /\ ran' = ran /\ imports' = imports
      /\ path = << >> /\ root' = root /\ root = NoModule /\ status[m] = "kInstantiated"
      /\ status' = [status EXCEPT ![m] = "kEvaluating"]
  BY DEF evaluate, Idle, linkVars
<1>2. status'[m] = "kEvaluating" /\ \A x \in Modules : x # m => status'[x] = status[x]
  BY <1>1 DEF LinkTypes
<1>3. /\ With({"kEvaluating"})' = {m} /\ With({"kEvaluated"})' = With({"kEvaluated"})
      /\ With({"kEvaluating", "kEvaluated", "kErrored"})' =
            With({"kEvaluating", "kEvaluated", "kErrored"}) \cup {m}
  <2>1. With({"kEvaluating"}) = {}
    BY <1>1, IdlePath
  <2>2. QED  BY <1>1, <1>2, <2>1 DEF With
<1>4. Range(path') = {m} /\ DOMAIN path' = {1} /\ path'[1] = m /\ path' \in Seq(Modules)
  BY <1>1 DEF Range
<1>5. RunTypes'
  BY <1>1, <1>3, <1>4 DEF Running, RunTypes
<1>6. Started'
  <2>1. m \notin ran
    BY <1>1 DEF Running, Started, With
  <2>2. QED  BY <1>1, <1>3, <1>4, <2>1 DEF Running, Started
<1>7. OnPath'
  <2>1. m \in Closure(imports', m, Modules)
    BY ClosureHasRoot
  <2>2. /\ \A i \in DOMAIN path' : Through(path[i], Modules)' = Closure(imports', path'[i], Modules)
        /\ \A x : Through(x, Modules)' = Closure(imports', x, Modules)
    BY ThroughIsNext
  <2>3. \A i \in DOMAIN path' : path'[i] = m /\ Through(path[i], Modules)' = Closure(imports', m, Modules)
    BY <1>4, <2>2
  <2>4. QED  BY <1>3, <1>4, <2>1, <2>2, <2>3 DEF OnPath
<1>8. Told'
  BY <1>1, <1>2 DEF Running, Told
<1>9. QED  BY <1>5, <1>6, <1>7, <1>8 DEF Running

LEMMA EvaluateAgainKeepsRuns ==
  ASSUME LinkTypes, Running, NEW m \in Modules, evaluateAgain(m)
  PROVE  Running'
<1>1. /\ UNCHANGED <<path, ran, imports, root, status>> /\ path = << >>
      /\ status[m] \in {"kEvaluated", "kErrored"}
      /\ promise' = [promise EXCEPT ![m] = IF status[m] = "kErrored" THEN "rejected"
                                          ELSE "fulfilled"]
  BY DEF evaluateAgain, Idle, linkVars
<1>2. promise' \in [Modules -> {"none", "fulfilled", "rejected"}]
  BY <1>1 DEF Running, RunTypes
<1>3. \A S : With(S)' = With(S)
  BY <1>1 DEF With
<1>4. RunTypes' /\ Started'
  BY <1>1, <1>2, <1>3 DEF Running, RunTypes, Started
<1>5. OnPath'
  BY <1>1, <1>3, IdlePath, EmptyRange DEF OnPath
<1>6. Told'
  BY <1>1 DEF Running, Told, RunTypes
<1>7. QED  BY <1>4, <1>5, <1>6 DEF Running

LEMMA EnterKeepsRuns ==
  ASSUME LinkTypes, Linked, Running, Enter
  PROVE  Running'
<1> DEFINE n == NextImport
           c == Current
<1>1. /\ path # << >> /\ promise' = promise /\ ran' = ran /\ imports' = imports
      /\ root' = root /\ status[n] = "kInstantiated" /\ path' = Append(path, n)
      /\ status' = [status EXCEPT ![n] = "kEvaluating"] /\ ~AllFinished(Current)
  BY DEF Enter, linkVars
<1>2. RunTypes /\ Started /\ OnPath /\ Told
  BY DEF Running
<1>3. n \in Modules /\ n \in Range(imports[c])
  BY <1>1, <1>2, NextImportIs
<1>4. c \in Modules /\ Len(path) \in DOMAIN path /\ path[Len(path)] = c
  BY <1>1, <1>2, CurrentIs
<1> HIDE DEF n, c
<1>5. status'[n] = "kEvaluating" /\ \A x \in Modules : x # n => status'[x] = status[x]
  BY <1>1, <1>3 DEF LinkTypes
<1>6. /\ With({"kEvaluating"})' = With({"kEvaluating"}) \cup {n}
      /\ With({"kEvaluated"})' = With({"kEvaluated"})
      /\ With({"kEvaluating", "kEvaluated"})' = With({"kEvaluating", "kEvaluated"}) \cup {n}
      /\ With({"kEvaluating", "kEvaluated", "kErrored"})' =
            With({"kEvaluating", "kEvaluated", "kErrored"}) \cup {n}
  BY <1>1, <1>3, <1>5 DEF With
<1>7. /\ path' \in Seq(Modules) /\ Range(path') = Range(path) \cup {n}
      /\ \A i \in DOMAIN path : path'[i] = path[i]
      /\ path'[Len(path) + 1] = n /\ DOMAIN path' = DOMAIN path \cup {Len(path) + 1}
      /\ DOMAIN path = 1 .. Len(path) /\ Len(path) \in Nat
  BY <1>1, <1>2, <1>3, AppendRange DEF RunTypes
<1>8. n \notin With({"kEvaluating"}) /\ n \notin Range(path) /\ n \notin ran
  BY <1>1, <1>2 DEF RunTypes, Started, With
<1>9. \A i \in DOMAIN path : path[i] # n /\ path[i] \in Modules /\ i <= Len(path)
  BY <1>7, <1>8, <1>2, RangeWithin DEF RunTypes
<1>10. RunTypes'
  BY <1>1, <1>2, <1>6, <1>7, <1>9 DEF RunTypes
<1>11. Started'
  BY <1>1, <1>2, <1>6, <1>7, <1>8 DEF Started
<1>12. OnPath'
  <2>1. /\ \A m : Through(m, Modules) = Closure(imports, m, Modules)
        /\ \A m : Through(m, Modules)' = Closure(imports, m, Modules)
        /\ \A i \in DOMAIN path' : Through(path[i], Modules)' = Closure(imports, path'[i], Modules)
        /\ \A i \in DOMAIN path : Through(path[i], Modules) = Closure(imports, path[i], Modules)
    BY <1>1, ThroughIs, ThroughIsNext
  <2>2. ASSUME NEW i \in DOMAIN path PROVE n \in Closure(imports, path[i], Modules)
    <3>1. c \in Closure(imports, path[i], Modules)
      BY <1>2, <1>4, <1>9, <2>1 DEF OnPath
    <3>2. QED  BY <1>3, <1>4, <3>1, ClosureIsClosed
  <2>3. n \in Closure(imports, n, Modules)
    BY <1>3, ClosureHasRoot
  <2>4. \A i, j \in DOMAIN path' :
           i <= j => path'[j] \in Closure(imports, path'[i], Modules)
    <3>1. SUFFICES ASSUME NEW i \in DOMAIN path', NEW j \in DOMAIN path', i <= j
                   PROVE  path'[j] \in Closure(imports, path'[i], Modules)
      OBVIOUS
    <3>2. CASE j \in DOMAIN path
      <4>1. i \in DOMAIN path
        BY <1>7, <3>1, <3>2
      <4>2. QED  BY <1>2, <1>7, <2>1, <3>1, <3>2, <4>1 DEF OnPath
    <3>3. CASE j = Len(path) + 1
      <4>1. path'[j] = n
        BY <1>7, <3>3
      <4>2. QED  BY <1>7, <2>2, <2>3, <4>1
    <3>4. QED  BY <1>7, <3>2, <3>3
  <2>5. \A m \in With({"kEvaluating"}) \cup {n} : \E i \in DOMAIN path' :
           /\ path'[i] \in Closure(imports, m, Modules)
           /\ m \in Closure(imports, path'[i], Modules)
    <3>1. ASSUME NEW m \in With({"kEvaluating"})
          PROVE  \E i \in DOMAIN path' : /\ path'[i] \in Closure(imports, m, Modules)
                                         /\ m \in Closure(imports, path'[i], Modules)
      <4>1. PICK i \in DOMAIN path : /\ path[i] \in Closure(imports, m, Modules)
                                     /\ m \in Closure(imports, path[i], Modules)
        BY <1>2, <2>1 DEF OnPath
      <4>2. QED  BY <1>7, <4>1
    <3>2. Len(path) + 1 \in DOMAIN path' /\ path'[Len(path) + 1] = n
      BY <1>7
    <3>3. QED  BY <2>3, <3>1, <3>2
  <2>6. QED  BY <1>6, <2>1, <2>4, <2>5 DEF OnPath
<1>13. Told'
  BY <1>1, <1>2, <1>3, <1>5 DEF Told
<1>14. QED  BY <1>10, <1>11, <1>12, <1>13 DEF Running
LEMMA FailIs ==
  ASSUME LinkTypes, Fail
  PROVE  /\ status' \in [Modules -> Status \cup {"uncompiled"}]
         /\ \A m \in Modules :
               status'[m] = IF status[m] = "kEvaluating" THEN "kErrored" ELSE status[m]
         /\ With({"kEvaluating"})' = {} /\ With({"kEvaluated"})' = With({"kEvaluated"})
         /\ With({"kErrored"})' = With({"kErrored"}) \cup With({"kEvaluating"})
         /\ With({"kEvaluating", "kEvaluated", "kErrored"})' =
               With({"kEvaluating", "kEvaluated", "kErrored"})
         /\ path' = << >> /\ promise' = [promise EXCEPT ![path[1]] = "rejected"]
BY DEF Fail, LinkTypes, Status, With

LEMMA FailKeepsRuns ==
  ASSUME LinkTypes, Running, path # << >>, Fail, UNCHANGED linkVars,
         ran' \in {ran, ran \cup {Current}}
  PROVE  Running'
<1>1. RunTypes /\ Started /\ Told
  BY DEF Running
<1>2. Current \in Modules /\ status[Current] = "kEvaluating" /\ path[1] \in Modules
      /\ status[path[1]] = "kEvaluating"
  BY <1>1, CurrentIs DEF RunTypes, With
<1>3. RunTypes'
  BY <1>1, <1>2, FailIs, EmptyRange DEF RunTypes
<1>4. Started'
  <2>1. Current \in With({"kEvaluating", "kEvaluated", "kErrored"})
    BY <1>2 DEF With
  <2>2. imports' = imports
    BY DEF linkVars
  <2>3. QED  BY <1>1, <2>1, <2>2, FailIs, EmptyRange DEF Started
<1>5. OnPath'
  BY FailIs, EmptyRange DEF OnPath
<1>6. Told'
  BY <1>1, <1>2, FailIs DEF Told, RunTypes
<1>7. QED  BY <1>3, <1>4, <1>5, <1>6 DEF Running

\* The modules that end with the current one.
Below == SubSeq(path, 1, Len(path) - 1)
Group == IF Through(Current, Modules) \cap Range(Below) # {} THEN {}
         ELSE Through(Current, Modules) \cap With({"kEvaluating"})

LEMMA RunIs ==
  ASSUME Run
  PROVE  /\ path # << >> /\ AllFinished(Current) /\ ran' = ran \cup {Current}
         /\ status' = [m \in Modules |-> IF m \in Group THEN "kEvaluated" ELSE status[m]]
         /\ path' = Below /\ UNCHANGED linkVars /\ imports' = imports /\ root' = root
         /\ thrown' = thrown
         /\ promise' = IF Below = << >> THEN [promise EXCEPT ![Current] = "fulfilled"]
                       ELSE promise
BY DEF Run, Group, Below, linkVars

LEMMA BelowIs ==
  ASSUME RunTypes, path # << >>
  PROVE  /\ Below \in Seq(Modules) /\ DOMAIN Below = DOMAIN path \ {Len(path)}
         /\ \A i \in DOMAIN Below : Below[i] = path[i] /\ Below[i] \in Range(Below)
                                    /\ path[i] \in Modules /\ i <= Len(path)
         /\ Range(path) = Range(Below) \cup {Current}
         /\ Current \notin Range(Below)
<1>1. /\ Below \in Seq(Modules) /\ DOMAIN Below = DOMAIN path \ {Len(path)}
      /\ \A i \in DOMAIN Below : Below[i] = path[i] /\ i <= Len(path)
      /\ Range(path) = Range(Below) \cup {Current} /\ Len(path) \in DOMAIN path
  BY FrontRange DEF RunTypes, Below, Current
<1>2. \A i \in DOMAIN Below : Below[i] \in Range(Below) /\ Below[i] \in Modules
  BY <1>1, RangeWithin
<1>3. Current \notin Range(Below)
  <2> SUFFICES ASSUME Current \in Range(Below) PROVE FALSE
    OBVIOUS
  <2>1. PICK i \in DOMAIN Below : Below[i] = Current
    BY DEF Range
  <2>2. i \in DOMAIN path /\ path[i] = path[Len(path)] /\ i # Len(path)
    BY <1>1, <2>1 DEF Current
  <2>3. QED  BY <1>1, <2>2 DEF RunTypes
<1>4. QED  BY <1>1, <1>2, <1>3

LEMMA GroupIs ==
  ASSUME LinkTypes, Running, path # << >>, AllFinished(Current)
  PROVE  /\ Group \subseteq With({"kEvaluating"}) \ Range(Below)
         /\ Group \subseteq ran \cup {Current}
         /\ \A x \in Group : Range(imports[x]) \subseteq With({"kEvaluated"}) \cup Group
         /\ \A x \in With({"kEvaluating"}) \ Group : \E i \in DOMAIN Below :
               path[i] \in Through(x, Modules) /\ x \in Through(path[i], Modules)
<1> DEFINE reached == Closure(imports, Current, Modules)
<1>1. RunTypes /\ Started /\ OnPath
  BY DEF Running
<1>2. \A m : Through(m, Modules) = Closure(imports, m, Modules)
  BY ThroughIs
<1>3. Group = IF reached \cap Range(Below) # {} THEN {} ELSE reached \cap With({"kEvaluating"})
  <2>1. Through(Current, Modules) = reached
    BY ThroughIs
  <2> HIDE DEF reached
  <2>2. QED  BY <2>1 DEF Group
<1>4. Group \subseteq With({"kEvaluating"}) \ Range(Below) /\ Group \subseteq reached
  <2> HIDE DEF reached
  <2>1. QED  BY <1>3
<1>5. Range(path) = Range(Below) \cup {Current}
  BY <1>1, BelowIs
<1>6. Group \subseteq ran \cup {Current}
  BY <1>1, <1>4, <1>5 DEF Started
<1>7. ASSUME NEW x \in Group PROVE Range(imports[x]) \subseteq With({"kEvaluated"}) \cup Group
  <2>1. x \in Modules /\ imports[x] \in Seq(Modules)
    BY <1>4 DEF With, LinkTypes
  <2>2. Range(imports[x]) \subseteq With({"kEvaluating", "kEvaluated"})
    <3>1. CASE x = Current
      BY <2>1, <3>1, AllFinishedIs
    <3>2. CASE x # Current
      BY <1>1, <1>4, <1>5, <3>2 DEF Started
    <3>3. QED  BY <3>1, <3>2
  <2>3. Range(imports[x]) \subseteq reached
    BY <1>4, <2>1, RangeWithin, ClosureIsClosed
  <2>4. Group = reached \cap With({"kEvaluating"})
    BY <1>3
  <2>5. QED  BY <2>2, <2>3, <2>4 DEF With
<1>8. ASSUME NEW x \in With({"kEvaluating"}) \ Group
      PROVE  \E i \in DOMAIN Below : /\ path[i] \in Closure(imports, x, Modules)
                                     /\ x \in Closure(imports, path[i], Modules)
  <2>1. PICK i \in DOMAIN path : /\ path[i] \in Closure(imports, x, Modules)
                                 /\ x \in Closure(imports, path[i], Modules)
    BY <1>1, <1>2 DEF OnPath
  <2>2. CASE i = Len(path)
    <3>1. x \in reached /\ Current \in Closure(imports, x, Modules)
      BY <2>1, <2>2 DEF Current
    <3>2. PICK y \in reached : y \in Range(Below)
      BY <1>3, <3>1
    <3>3. PICK j \in DOMAIN Below : Below[j] = y
      BY <3>2 DEF Range
    <3>4. j \in DOMAIN path /\ path[j] = y /\ j <= Len(path) /\ Len(path) \in DOMAIN path
      BY <1>1, <3>3, BelowIs, CurrentIs
    <3>5. Current \in Closure(imports, y, Modules)
      BY <1>1, <1>2, <3>4 DEF OnPath, Current
    <3>6. y \in Closure(imports, x, Modules) /\ x \in Closure(imports, y, Modules)
      BY <3>1, <3>2, <3>5, ClosureComposes
    <3>7. QED  BY <3>3, <3>4, <3>6
  <2>3. CASE i # Len(path)
    BY <1>1, <2>1, <2>3, BelowIs
  <2>4. QED  BY <2>2, <2>3
<1>9. QED  BY <1>2, <1>4, <1>6, <1>7, <1>8

LEMMA RunKeepsRuns ==
  ASSUME LinkTypes, Running, Run
  PROVE  Running'
<1>1. RunTypes /\ Started /\ OnPath /\ Told
  BY DEF Running
<1>2. /\ path # << >> /\ AllFinished(Current) /\ ran' = ran \cup {Current}
      /\ path' = Below /\ imports' = imports /\ root' = root
      /\ \A m \in Modules : status'[m] = IF m \in Group THEN "kEvaluated" ELSE status[m]
      /\ promise' = IF Below = << >> THEN [promise EXCEPT ![Current] = "fulfilled"]
                    ELSE promise
  BY RunIs
<1>3. /\ Group \subseteq With({"kEvaluating"}) \ Range(Below)
      /\ Group \subseteq ran \cup {Current}
      /\ \A x \in Group : Range(imports[x]) \subseteq With({"kEvaluated"}) \cup Group
      /\ \A x \in With({"kEvaluating"}) \ Group : \E i \in DOMAIN Below :
               path[i] \in Through(x, Modules) /\ x \in Through(path[i], Modules)
  BY <1>2, GroupIs
<1>4. /\ Below \in Seq(Modules) /\ DOMAIN Below = DOMAIN path \ {Len(path)}
      /\ \A i \in DOMAIN Below : Below[i] = path[i]
      /\ Range(path) = Range(Below) \cup {Current} /\ Current \notin Range(Below)
  BY <1>1, <1>2, BelowIs
<1>5. Current \in Modules /\ Current \in With({"kEvaluating"})
  BY <1>1, <1>2, CurrentIs DEF With
<1>6. /\ With({"kEvaluating"})' = With({"kEvaluating"}) \ Group
      /\ With({"kEvaluated"})' = With({"kEvaluated"}) \cup Group
      /\ With({"kEvaluating", "kEvaluated"})' = With({"kEvaluating", "kEvaluated"})
      /\ With({"kEvaluating", "kEvaluated", "kErrored"})' =
            With({"kEvaluating", "kEvaluated", "kErrored"})
  BY <1>2, <1>3 DEF With
<1>7. RunTypes'
  <2>1. Range(Below) \subseteq With({"kEvaluating"}) \ Group
    BY <1>1, <1>3, <1>4 DEF RunTypes
  <2>2. root # NoModule => FALSE
    BY <1>1, <1>2 DEF RunTypes
  <2>3. promise' \in [Modules -> {"none", "fulfilled", "rejected"}] /\ ran' \subseteq Modules
    BY <1>1, <1>2, <1>5 DEF RunTypes
  <2>4. \A i, j \in DOMAIN Below : Below[i] = Below[j] => i = j
    BY <1>1, <1>4 DEF RunTypes
  <2>5. QED  BY <1>2, <1>4, <1>6, <2>1, <2>2, <2>3, <2>4 DEF RunTypes
<1>8. Started'
  <2>1. Range(Below) \cap (ran \cup {Current}) = {}
    BY <1>1, <1>4 DEF Started
  <2>2. ran \cup {Current} \subseteq With({"kEvaluating", "kEvaluated", "kErrored"})
    BY <1>1, <1>5 DEF Started, With
  <2>3. \A m \in With({"kEvaluated"}) \cup Group :
           m \in ran \cup {Current} /\ Range(imports[m]) \subseteq With({"kEvaluated"}) \cup Group
    BY <1>1, <1>3 DEF Started
  <2>4. \A m \in With({"kEvaluating"}) \ Range(Below) :
           m \in ran \cup {Current} /\ Range(imports[m]) \subseteq With({"kEvaluating", "kEvaluated"})
    <3>1. Range(imports[Current]) \subseteq With({"kEvaluating", "kEvaluated"})
      BY <1>2, <1>5, AllFinishedIs
    <3>2. QED  BY <1>1, <1>4, <3>1 DEF Started
  <2>5. QED  BY <1>2, <1>6, <2>1, <2>2, <2>3, <2>4 DEF Started
<1>9. OnPath'
  <2>1. /\ \A m : Through(m, Modules) = Closure(imports, m, Modules)
        /\ \A m : Through(m, Modules)' = Closure(imports, m, Modules)
        /\ \A i \in DOMAIN path' : Through(path[i], Modules)' = Closure(imports, path'[i], Modules)
        /\ \A i \in DOMAIN path : Through(path[i], Modules) = Closure(imports, path[i], Modules)
    BY <1>2, ThroughIs, ThroughIsNext
  <2>2. DOMAIN path' \subseteq DOMAIN path /\ \A i \in DOMAIN path' : path'[i] = path[i]
    BY <1>2, <1>4
  <2>3. \A i, j \in DOMAIN path' : i <= j => path'[j] \in Closure(imports, path'[i], Modules)
    BY <1>1, <2>1, <2>2 DEF OnPath
  <2>4. \A x \in With({"kEvaluating"})' : \E i \in DOMAIN path' :
           /\ path'[i] \in Closure(imports, x, Modules)
           /\ x \in Closure(imports, path'[i], Modules)
    BY <1>2, <1>3, <1>4, <1>6, <2>1, <2>2
  <2>5. QED  BY <2>1, <2>3, <2>4 DEF OnPath
<1>10. Told'
  <2>1. ASSUME Below = << >> PROVE Current \in Group
    <3>1. DOMAIN Below = {}
      BY <2>1
    <3>2. QED  BY <1>3, <1>5, <3>1
  <2>2. \A m \in Group : status[m] = "kEvaluating" /\ m \in Modules
    BY <1>3 DEF With
  <2>3. QED  BY <1>1, <1>2, <1>5, <2>1, <2>2 DEF Told, RunTypes
<1>11. QED  BY <1>7, <1>8, <1>9, <1>10 DEF Running
(***************************************************************************)
(* The invariant is inductive, and implies the properties.                 *)
(***************************************************************************)
LEMMA Initially ==
  ASSUME Init
  PROVE  IInv
<1>1. /\ With({"uncompiled"}) = Modules /\ With({"kUninstantiated"}) = {} /\ Visited = {}
      /\ With(Instantiated) = {} /\ With({"kEvaluating"}) = {} /\ With({"kEvaluated"}) = {}
  BY DEF Init, With, Visited, Instantiated
<1>2. Owned
  BY DEF Init, Owned
<1>3. LinkTypes
  <2>1. \A m \in Modules : Len(imports[m]) <= Requests[m]
    BY EmptyRange, ModulesAssumption DEF Init
  <2>2. QED  BY <2>1, EmptyRange DEF Init, LinkTypes, Status
<1>4. Linked
  BY <1>1, EmptyRange DEF Init, Linked
<1>5. RunTypes /\ Started /\ OnPath /\ Told
  BY <1>1, EmptyRange DEF Init, RunTypes, Started, OnPath, Told
<1>6. QED  BY <1>2, <1>3, <1>4, <1>5 DEF IInv, Running

LEMMA EndKeeps ==
  ASSUME LinkTypes, Linked, Running, root # NoModule, NEW S \in SUBSET Visited,
         EndInstantiate(S),
         \A m \in S : ~Unasked(m) /\ Range(imports[m]) \cap Visited \subseteq S
  PROVE  LinkTypes' /\ Linked' /\ Running'
<1>1. \A m \in Visited : status[m] = "kInstantiating"
  BY DEF Visited, With
<1>2. \A m \in Modules : status[m] \in Live \/ status'[m] \in Live =>
                           status'[m] = status[m] /\ imports'[m] = imports[m]
  BY <1>1 DEF EndInstantiate, With, Live
<1>3. root' = NoModule /\ UNCHANGED runVars /\ path = << >>
  BY DEF EndInstantiate, Running, RunTypes
<1>4. Running'
  BY <1>2, <1>3, RunsStay
<1>5. QED  BY <1>4, EndKeepsLinks

LEMMA FailKeeps ==
  ASSUME LinkTypes, Linked, Running, path # << >>, Fail, UNCHANGED <<linkVars, thrown>>,
         ran' \in {ran, ran \cup {Current}}
  PROVE  LinkTypes' /\ Linked' /\ Running'
<1>1. Running'
  BY FailKeepsRuns
<1>2. \A m \in Modules : \/ status'[m] = status[m]
                         \/ {status[m], status'[m]} \subseteq Instantiated
  BY FailIs DEF Instantiated
<1>3. thrown' \in BOOLEAN /\ status' \in [Modules -> Status \cup {"uncompiled"}]
  BY FailIs DEF LinkTypes
<1>4. QED  BY <1>1, <1>2, <1>3, LinksStay

LEMMA StepKeeps ==
  ASSUME IInv, [Next]_vars
  PROVE  IInv'
<1> DEFINE Kept == LinkTypes' /\ Linked' /\ Running'
<1>1. Owned' /\ LinkTypes /\ Linked /\ Running
  BY CachesKept DEF IInv
<1>2. ASSUME UNCHANGED <<status, linkVars, runVars>>, thrown' \in BOOLEAN PROVE Kept
  <2>1. LinkTypes' /\ Linked'
    BY <1>1, <1>2, LinksStay DEF LinkTypes
  <2>2. imports' = imports /\ root' = root /\ status' = status
    BY <1>2 DEF linkVars
  <2>3. Running'
    BY <1>1, <1>2, <2>2, RunsStay DEF Running, RunTypes
  <2>4. QED  BY <2>1, <2>3
<1>3. ASSUME NEW m \in Modules, NEW ok \in BOOLEAN, compileModule(m, ok) PROVE Kept
  <2>1. LinkTypes' /\ Linked'
    BY <1>1, <1>3, CompileKeepsLinks
  <2>2. imports' = imports /\ root' = root /\ UNCHANGED runVars /\ status[m] = "uncompiled"
        /\ status' \in {status, [status EXCEPT ![m] = "kUninstantiated"]}
    BY <1>3 DEF compileModule, linkVars
  <2>3. \A x \in Modules : status[x] \in Live \/ status'[x] \in Live => status'[x] = status[x]
    BY <1>1, <2>2 DEF Live, LinkTypes
  <2>4. Running'
    BY <1>1, <2>2, <2>3, RunsStay DEF Running, RunTypes
  <2>5. QED  BY <2>1, <2>4
<1>4. ASSUME NEW m \in Modules, instantiate(m) PROVE Kept
  <2>1. LinkTypes' /\ Linked'
    BY <1>1, <1>4, InstantiateKeepsLinks
  <2>2. /\ imports' = imports /\ UNCHANGED runVars /\ path = << >>
        /\ status' = [status EXCEPT ![m] = "kInstantiating"] /\ status[m] = "kUninstantiated"
    BY <1>4 DEF instantiate, Idle
  <2>3. \A x \in Modules : status[x] \in Live \/ status'[x] \in Live => status'[x] = status[x]
    BY <1>1, <2>2 DEF Live, LinkTypes
  <2>4. Running'
    BY <1>1, <2>2, <2>3, RunsStay
  <2>5. QED  BY <2>1, <2>4
<1>5. ASSUME NEW m \in Modules, NEW n \in Modules, Resolve(m, n) PROVE Kept
  <2>1. LinkTypes' /\ Linked'
    BY <1>1, <1>5, ResolveKeepsLinks
  <2>2. /\ UNCHANGED runVars /\ path = << >> /\ status[m] = "kInstantiating"
        /\ imports' = [imports EXCEPT ![m] = Append(@, n)]
        /\ status' = [status EXCEPT ![n] =
                        IF @ = "kUninstantiated" THEN "kInstantiating" ELSE @]
    BY <1>1, <1>5 DEF Resolve, Visited, With, Running, RunTypes
  <2>3. \A x \in Modules : status[x] \in Live \/ status'[x] \in Live =>
                            status'[x] = status[x] /\ imports'[x] = imports[x]
    BY <1>1, <2>2 DEF Live, LinkTypes
  <2>4. Running'
    BY <1>1, <2>2, <2>3, RunsStay
  <2>5. QED  BY <2>1, <2>4
<1>6. ASSUME ResolveFails PROVE Kept
  BY <1>1, <1>6, EndKeeps DEF ResolveFails
<1>7. ASSUME LinkImports PROVE Kept
  <2>1. PICK S \in SUBSET Visited :
          /\ \A m \in S : Range(imports[m]) \cap Visited \subseteq S
          /\ EndInstantiate(S)
    BY <1>7 DEF LinkImports
  <2>2. root # NoModule /\ \A m \in S : ~Unasked(m)
    BY <1>7 DEF LinkImports
  <2>3. QED  BY <1>1, <2>1, <2>2, EndKeeps
<1>8. ASSUME NEW m \in Modules, evaluate(m) PROVE Kept
  <2>1. Running'
    BY <1>1, <1>8, EvaluateKeepsRuns
  <2>2. /\ status' = [status EXCEPT ![m] = "kEvaluating"] /\ status[m] = "kInstantiated"
        /\ UNCHANGED linkVars /\ thrown' = thrown
    BY <1>8 DEF evaluate
  <2>3. /\ status' \in [Modules -> Status \cup {"uncompiled"}] /\ thrown' \in BOOLEAN
        /\ \A x \in Modules : \/ status'[x] = status[x]
                              \/ {status[x], status'[x]} \subseteq Instantiated
    BY <1>1, <2>2 DEF LinkTypes, Status, Instantiated
  <2>4. QED  BY <1>1, <2>1, <2>2, <2>3, LinksStay
<1>9. ASSUME NEW m \in Modules, evaluateAgain(m) PROVE Kept
  <2>1. Running'
    BY <1>1, <1>9, EvaluateAgainKeepsRuns
  <2>2. UNCHANGED <<linkVars, thrown, status>>
    BY <1>9 DEF evaluateAgain
  <2>3. QED  BY <1>1, <2>1, <2>2, LinksStay DEF LinkTypes
<1>10. ASSUME Enter PROVE Kept
  <2>1. Running'
    BY <1>1, <1>10, EnterKeepsRuns
  <2>2. /\ status' = [status EXCEPT ![NextImport] = "kEvaluating"]
        /\ status[NextImport] = "kInstantiated" /\ UNCHANGED linkVars /\ thrown' = thrown
    BY <1>10 DEF Enter
  <2> DEFINE n == NextImport
  <2> HIDE DEF n
  <2>3. /\ status' = [status EXCEPT ![n] = "kEvaluating"] /\ status[n] = "kInstantiated"
    BY <2>2 DEF n
  <2>4. /\ status' \in [Modules -> Status \cup {"uncompiled"}] /\ thrown' \in BOOLEAN
        /\ \A x \in Modules : \/ status'[x] = status[x]
                              \/ {status[x], status'[x]} \subseteq Instantiated
    BY <1>1, <2>2, <2>3 DEF LinkTypes, Status, Instantiated
  <2>5. QED  BY <1>1, <2>1, <2>2, <2>4, LinksStay
<1>11. ASSUME ImportFailed PROVE Kept
  BY <1>1, <1>11, FailKeeps DEF ImportFailed
<1>12. ASSUME RunThrows PROVE Kept
  BY <1>1, <1>12, FailKeeps DEF RunThrows
<1>13. ASSUME Run PROVE Kept
  <2>1. /\ Running' /\ UNCHANGED linkVars /\ thrown' = thrown
        /\ status' = [m \in Modules |-> IF m \in Group THEN "kEvaluated" ELSE status[m]]
    BY <1>1, <1>13, RunKeepsRuns, RunIs
  <2>2. Group \subseteq With({"kEvaluating"})
    BY <1>1, <1>13, RunIs, GroupIs
  <2>3. /\ status' \in [Modules -> Status \cup {"uncompiled"}] /\ thrown' \in BOOLEAN
    BY <1>1, <2>1 DEF LinkTypes, Status
  <2>4. \A x \in Modules : \/ status'[x] = status[x]
                          \/ {status[x], status'[x]} \subseteq Instantiated
    BY <2>1, <2>2 DEF With, Instantiated
  <2>5. QED  BY <1>1, <2>1, <2>3, <2>4, LinksStay
<1>14. ASSUME \/ ResolveThrows
              \/ \E m \in Modules : \/ CachedDataInit(m) \/ CachedDataDeinit(m)
                                    \/ FreeSlice(m) \/ SourceInit(m) \/ SourceDeinit(m)
              \/ UNCHANGED vars
       PROVE Kept
  <2>1. UNCHANGED <<status, linkVars, runVars>> /\ thrown' \in {thrown, TRUE}
    BY <1>14 DEF ResolveThrows, CachedDataInit, CachedDataDeinit, FreeSlice, SourceInit,
                 SourceDeinit, vars
  <2>2. thrown' \in BOOLEAN
    BY <1>1, <2>1 DEF LinkTypes
  <2>3. QED  BY <1>2, <2>1, <2>2
<1>15. Kept
  BY <1>3, <1>4, <1>5, <1>6, <1>7, <1>8, <1>9, <1>10, <1>11, <1>12, <1>13, <1>14 DEF Next
<1>16. QED  BY <1>1, <1>15 DEF IInv

LEMMA Invariance == Spec => []IInv
<1>1. IInv /\ [Next]_vars => IInv'
  BY StepKeeps
<1>2. QED  BY Initially, <1>1, PTL DEF Spec

\* The state of every module, source and cache stays within its type.
THEOREM ModuleTypes == Spec => []TypeOK
<1>1. IInv => TypeOK
  <2> SUFFICES ASSUME IInv PROVE TypeOK
    OBVIOUS
  <2>1. slice \subseteq Modules /\ cached \subseteq Modules /\ source \subseteq Modules
        /\ owner \in [Modules -> SUBSET {"zig", "source"}]
    BY DEF IInv, Owned
  <2>2. QED  BY <2>1 DEF IInv, LinkTypes, Running, RunTypes, TypeOK
<1>2. QED  BY Invariance, <1>1, PTL

\* A CachedData is deleted exactly once, by its embedder or by the source it was
\* given to, and before the bytes it points to go.
THEOREM CachesOwned == Spec => []CachesHaveOneOwner
<1>1. IInv => CachesHaveOneOwner
  <2> SUFFICES ASSUME IInv PROVE CachesHaveOneOwner
    OBVIOUS
  <2>1. Cardinality({}) = 0 /\ Cardinality({"zig"}) = 1 /\ Cardinality({"source"}) = 1
    BY FS_EmptySet, FS_Singleton
  <2>2. \A m \in Modules : Cardinality(owner[m]) = IF m \in cached THEN 1 ELSE 0
    <3> TAKE m \in Modules
    <3>1. owner[m] \in {{}, {"zig"}, {"source"}} /\ (m \in cached <=> owner[m] # {})
      BY DEF IInv, Owned
    <3>2. QED  BY <2>1, <3>1
  <2>3. QED  BY <2>2 DEF IInv, Owned, CachesHaveOneOwner
<1>2. QED  BY Invariance, <1>1, PTL

\* Attempts to instantiate and evaluate, with whatever failures and retries, leave
\* no module half linked or half evaluated, and what was promised of a graph stays.
THEOREM AttemptsWhole == Spec => []AttemptsAreWhole
<1>1. IInv => AttemptsAreWhole
  <2> SUFFICES ASSUME IInv PROVE AttemptsAreWhole
    OBVIOUS
  <2>1. LinkTypes /\ Linked /\ RunTypes /\ Started /\ OnPath /\ Told /\ Running
    BY DEF IInv, Running
  <2>2. \A m \in With(Instantiated) : /\ ~Unasked(m)
                                      /\ Range(imports[m]) \subseteq With(Instantiated)
    <3> TAKE m \in With(Instantiated)
    <3>1. m \in Modules /\ Len(imports[m]) = Requests[m]
      BY <2>1 DEF Linked, With
    <3>2. Requests[m] \in Nat
      BY <3>1, ModulesAssumption
    <3>3. ~Unasked(m)
      BY <3>1, <3>2 DEF Unasked
    <3>4. QED  BY <2>1, <3>3 DEF Linked
  <2>3. /\ \A m \in With({"kUninstantiated"}) : imports[m] = << >>
        /\ root = NoModule => With({"kInstantiating"}) = {}
    BY <2>1 DEF Linked, Visited
  <2>4. path = << >> => With({"kEvaluating"}) = {}
    BY <2>1, IdlePath
  <2>5. ASSUME NEW m \in Modules, promise[m] = "fulfilled"
        PROVE  Through(m, Modules) \subseteq With({"kEvaluated"}) \cap ran
    <3>1. m \in With({"kEvaluated"}) /\ With({"kEvaluated"}) \in SUBSET Modules
      BY <2>1, <2>5 DEF Told, With
    <3>2. Closed(imports, Modules, With({"kEvaluated"})) /\ With({"kEvaluated"}) \subseteq ran
      BY <2>1 DEF Closed, Started
    <3>3. Through(m, Modules) \subseteq With({"kEvaluated"})
      BY <3>1, <3>2, ThroughIs, ClosureIsLeast
    <3>4. QED  BY <3>2, <3>3
  <2>6. QED  BY <2>1, <2>2, <2>3, <2>4, <2>5 DEF AttemptsAreWhole, Told
<1>2. QED  BY Invariance, <1>1, PTL
(***************************************************************************)
(* Linking and evaluating as ECMAScript says.                              *)
(***************************************************************************)
Graph == [m \in With(Instantiated) |-> Range(imports[m])]

LEMMA LiveIsLinked ==
  /\ With(Instantiated) \subseteq Modules
  /\ With({"kEvaluated"}) \subseteq With(Instantiated)
  /\ With({"kEvaluating"}) \subseteq With(Instantiated)
  /\ With({"kErrored"}) \subseteq With(Instantiated)
  /\ With({"kEvaluating"}) \cap (With({"kEvaluated"}) \cup With({"kErrored"})) = {}
BY DEF With, Instantiated

LEMMA ReachIs ==
  ASSUME Linked, NEW m \in With(Instantiated), NEW n \in Through(m, Modules)
  PROVE  n \in Records!Reach(m)
<1>1. n \in Closure(imports, m, Modules) /\ With(Instantiated) \in SUBSET Modules
  BY ThroughIs, LiveIsLinked
<1>2. Closed(imports, Modules, With(Instantiated))
  BY DEF Closed, Linked
<1>3. n \in With(Instantiated)
  BY <1>1, <1>2, ClosureIsLeast
<1>4. ASSUME NEW S \in SUBSET With(Instantiated), m \in S,
             \A x \in S : Graph[x] \subseteq S
      PROVE  n \in S
  <2>1. Closed(imports, Modules, S)
    BY <1>4 DEF Closed, Graph
  <2>2. QED  BY <1>1, <1>4, <2>1, ClosureIsLeast
<1>5. Records!Linked = With(Instantiated)
  BY DEF Records!Linked
<1>6. QED  BY <1>3, <1>4, <1>5 DEF Records!Reach, Graph

\* The code of the current module is what may run next.
LEMMA CurrentMayRun ==
  ASSUME LinkTypes, Linked, Running, path # << >>, AllFinished(Current)
  PROVE  Records!MayRun(Current)
<1>1. RunTypes /\ Started /\ OnPath
  BY DEF Running
<1>2. /\ Current \in Modules /\ Current \in Range(path) /\ Current \in With({"kEvaluating"})
      /\ Len(path) \in DOMAIN path /\ path[Len(path)] = Current
  BY <1>1, CurrentIs DEF With
<1>3. Current \in With(Instantiated) \ (ran \cup With({"kErrored"}))
  BY <1>1, <1>2, LiveIsLinked DEF Started
<1>4. ASSUME NEW n \in Range(imports[Current])
      PROVE  n \notin With({"kErrored"}) /\ (n \in ran \/ Current \in Records!Reach(n))
  <2>1. n \in With({"kEvaluating", "kEvaluated"})
    BY <1>2, AllFinishedIs
  <2>2. n \notin With({"kErrored"}) /\ n \in With(Instantiated)
    BY <2>1 DEF With, Instantiated
  <2>3. CASE n \in Range(path)
    <3>1. PICK i \in DOMAIN path : path[i] = n
      BY <2>3 DEF Range
    <3>2. i <= Len(path)
      BY <1>1, <3>1 DEF RunTypes
    <3>3. path[Len(path)] \in Through(path[i], Modules)
      BY <1>1, <1>2, <3>2 DEF OnPath
    <3>4. Current \in Records!Reach(n)
      BY <1>2, <2>2, <3>1, <3>3, ReachIs
    <3>5. QED  BY <2>2, <3>4
  <2>4. CASE n \notin Range(path)
    <3>1. n \in With({"kEvaluated"}) \cup (With({"kEvaluating"}) \ Range(path))
      BY <2>1, <2>4 DEF With
    <3>2. QED  BY <1>1, <2>2, <3>1 DEF Started
  <2>5. QED  BY <2>3, <2>4
<1>5. Records!Linked = With(Instantiated)
  BY DEF Records!Linked
<1>6. QED  BY <1>3, <1>4, <1>5 DEF Records!MayRun

\* Whatever is being evaluated leads to the current module.
LEMMA AllLeadToCurrent ==
  ASSUME Running, path # << >>, NEW x \in With({"kEvaluating"})
  PROVE  Current \in Through(x, Modules)
<1>1. RunTypes /\ OnPath
  BY DEF Running
<1>2. Len(path) \in DOMAIN path /\ path[Len(path)] = Current
  BY <1>1, CurrentIs
<1>3. PICK i \in DOMAIN path : path[i] \in Through(x, Modules)
  BY <1>1 DEF OnPath
<1>4. i <= Len(path)
  BY <1>1 DEF RunTypes
<1>5. path[Len(path)] \in Through(path[i], Modules)
  BY <1>1, <1>2, <1>4 DEF OnPath
<1>6. path[i] \in Closure(imports, x, Modules) /\ Current \in Closure(imports, path[i], Modules)
  BY <1>2, <1>3, <1>5, ThroughIs
<1>7. QED  BY <1>6, ThroughIs, ClosureComposes

LEMMA NothingMoves ==
  ASSUME ran' = ran, With(Instantiated)' = With(Instantiated),
         With({"kEvaluated"})' = With({"kEvaluated"}),
         With({"kErrored"})' = With({"kErrored"}),
         \A m \in With(Instantiated) : imports'[m] = imports[m]
  PROVE  UNCHANGED Records!vars
<1>1. [m \in With(Instantiated) |-> Range(imports[m])]' =
        [m \in With(Instantiated) |-> Range(imports[m])]
  OBVIOUS
<1>2. QED  BY <1>1 DEF Records!vars

LEMMA EndLinks ==
  ASSUME LinkTypes, Linked, root # NoModule, NEW S \in SUBSET Visited, EndInstantiate(S),
         Linked'
  PROVE  Records!Link(S)
<1>1. /\ status' = [m \in Modules |-> IF m \in S THEN "kInstantiated"
                                  ELSE IF m \in Visited THEN "kUninstantiated"
                                  ELSE status[m]]
      /\ imports' = [m \in Modules |-> IF m \in Visited \ S THEN << >> ELSE imports[m]]
      /\ ran' = ran
  BY DEF EndInstantiate, runVars
<1>2. /\ \A m \in Visited : status[m] = "kInstantiating"
      /\ S \subseteq Modules /\ Visited \cap With(Instantiated) = {}
  BY DEF Visited, With, Instantiated
<1>3. /\ With(Instantiated)' = With(Instantiated) \cup S
      /\ With({"kEvaluated"})' = With({"kEvaluated"})
      /\ With({"kErrored"})' = With({"kErrored"})
  BY <1>1, <1>2 DEF With, Instantiated
<1>4. \A m \in With(Instantiated) : imports'[m] = imports[m]
  BY <1>1, <1>2, LiveIsLinked
<1>5. \A m \in S : Range(imports'[m]) \subseteq With(Instantiated) \cup S
  BY <1>3 DEF Linked
<1>6. /\ Graph' = [m \in With(Instantiated) \cup S |-> Range(imports'[m])]
      /\ Graph = [m \in With(Instantiated) |-> Range(imports[m])]
  BY <1>3 DEF Graph
<1>7. Records!Linked = With(Instantiated)
  BY DEF Records!Linked
<1>8. /\ S \cap With(Instantiated) = {} /\ DOMAIN Graph' = With(Instantiated) \cup S
      /\ \A m \in With(Instantiated) : Graph'[m] = Graph[m]
      /\ \A m \in S : Graph'[m] \subseteq With(Instantiated) \cup S
  BY <1>2, <1>4, <1>5, <1>6
<1>9. QED  BY <1>1, <1>3, <1>7, <1>8 DEF Records!Link, Graph
\* Failing takes what is being evaluated, all of which leads to what failed.
LEMMA FailFails ==
  ASSUME LinkTypes, Linked, Running, path # << >>, Fail, imports' = imports,
         NEW T, NEW n \in T \cup With({"kErrored"}), n \in Through(Current, Modules)
  PROVE  Records!Fail(With({"kEvaluating"}), T)
<1>1. RunTypes
  BY DEF Running
<1>2. Current \in With({"kEvaluating"})
  BY <1>1, CurrentIs DEF With
<1>3. /\ With({"kEvaluated"})' = With({"kEvaluated"})
      /\ With({"kErrored"})' = With({"kErrored"}) \cup With({"kEvaluating"})
  BY FailIs
<1>4. With(Instantiated)' = With(Instantiated)
  BY FailIs DEF With, Instantiated
<1>5. Graph' = Graph
  BY <1>4 DEF Graph
<1>6. ASSUME NEW x \in With({"kEvaluating"})
      PROVE  Records!Reach(x) \cap (T \cup With({"kErrored"})) # {}
  <2>1. Current \in Through(x, Modules)
    BY AllLeadToCurrent
  <2>2. n \in Through(x, Modules)
    BY <2>1, ThroughIs, ClosureComposes
  <2>3. n \in Records!Reach(x)
    BY <2>2, ReachIs, LiveIsLinked
  <2>4. QED  BY <2>3
<1>7. Records!Linked = With(Instantiated)
  BY DEF Records!Linked
<1>8. With({"kEvaluating"}) \subseteq
        With(Instantiated) \ (With({"kEvaluated"}) \cup With({"kErrored"}))
  BY LiveIsLinked
<1>9. QED  BY <1>2, <1>3, <1>5, <1>6, <1>7, <1>8 DEF Records!Fail, Graph

LEMMA ImportFailedSpreads ==
  ASSUME LinkTypes, Linked, Running, ImportFailed
  PROVE  Records!Next
<1>1. /\ path # << >> /\ ~AllFinished(Current) /\ status[NextImport] = "kErrored" /\ Fail
      /\ imports' = imports /\ ran' = ran
  BY DEF ImportFailed, linkVars
<1>2. NextImport \in Modules /\ NextImport \in Range(imports[Current])
  BY <1>1, NextImportIs DEF Running
<1> DEFINE n == NextImport
<1> HIDE DEF n
<1>3. n \in Modules /\ n \in Range(imports[Current]) /\ status[n] = "kErrored"
  BY <1>1, <1>2 DEF n
<1>4. n \in {} \cup With({"kErrored"})
  BY <1>3 DEF With
<1>5. Current \in Modules
  BY <1>1, CurrentIs DEF Running
<1>6. n \in Through(Current, Modules)
  BY <1>3, <1>5, ThroughIs, ClosureHasRoot, ClosureIsClosed
<1>7. Records!Fail(With({"kEvaluating"}), {})
  BY <1>1, <1>4, <1>6, FailFails
<1>8. With({"kEvaluating"}) \in SUBSET Records!Linked
  BY LiveIsLinked DEF Records!Linked
<1>9. QED  BY <1>1, <1>7, <1>8 DEF Records!Next, Records!Spread

LEMMA RunThrowsFails ==
  ASSUME LinkTypes, Linked, Running, RunThrows
  PROVE  Records!Next
<1>1. /\ path # << >> /\ AllFinished(Current) /\ Fail /\ imports' = imports
      /\ ran' = ran \cup {Current}
  BY DEF RunThrows, linkVars
<1>2. Current \in Modules /\ Current \in With({"kEvaluating"})
  BY <1>1, CurrentIs DEF Running, With
<1>3. Current \in Through(Current, Modules)
  BY <1>2, ThroughIs, ClosureHasRoot
<1>4. Records!Fail(With({"kEvaluating"}), {Current})
  BY <1>1, <1>3, FailFails
<1>5. With({"kEvaluating"}) \in SUBSET Records!Linked
  BY LiveIsLinked DEF Records!Linked
<1>6. Records!MayRun(Current)
  BY <1>1, CurrentMayRun
<1>7. Records!RunFails(Current)
  BY <1>1, <1>2, <1>4, <1>5, <1>6 DEF Records!RunFails
<1>8. QED  BY <1>2, <1>7 DEF Records!Next

LEMMA RunRuns ==
  ASSUME LinkTypes, Linked, Running, Run
  PROVE  Records!Next
<1>1. /\ path # << >> /\ AllFinished(Current) /\ ran' = ran \cup {Current} /\ imports' = imports
      /\ status' = [m \in Modules |-> IF m \in Group THEN "kEvaluated" ELSE status[m]]
  BY RunIs
<1>2. /\ Group \subseteq With({"kEvaluating"}) \ Range(Below)
      /\ Group \subseteq ran \cup {Current}
      /\ \A x \in Group : Range(imports[x]) \subseteq With({"kEvaluated"}) \cup Group
  BY <1>1, GroupIs
<1>3. Current \in Modules
  BY <1>1, CurrentIs DEF Running
<1>4. /\ With({"kEvaluated"})' = With({"kEvaluated"}) \cup Group
      /\ With({"kErrored"})' = With({"kErrored"})
      /\ With(Instantiated)' = With(Instantiated)
  BY <1>1, <1>2 DEF With, Instantiated
<1>5. Graph' = Graph
  BY <1>1, <1>4 DEF Graph
<1>6. Group \in SUBSET (ran' \ (With({"kEvaluated"}) \cup With({"kErrored"})))
  BY <1>1, <1>2, LiveIsLinked
<1>7. \A x \in Group : Graph[x] \subseteq With({"kEvaluated"}) \cup Group
  BY <1>2, LiveIsLinked DEF Graph
<1>8. Records!MayRun(Current)
  BY <1>1, CurrentMayRun
<1>9. Records!Run(Current)
  BY <1>1, <1>4, <1>5, <1>6, <1>7, <1>8 DEF Records!Run, Graph
<1>10. QED  BY <1>3, <1>9 DEF Records!Next

LEMMA StepSimulation ==
  ASSUME IInv, IInv', [Next]_vars
  PROVE  [Records!Next]_(Records!vars)
<1>1. LinkTypes /\ Linked /\ Running /\ Linked'
  BY DEF IInv
<1>2. ASSUME UNCHANGED <<status, imports, ran>> PROVE UNCHANGED Records!vars
  <2>1. \A S : With(S)' = With(S)
    BY <1>2 DEF With
  <2>2. QED  BY <1>2, <2>1, NothingMoves
<1>3. ASSUME NEW m \in Modules, NEW ok \in BOOLEAN, compileModule(m, ok)
      PROVE  UNCHANGED Records!vars
  <2>1. /\ imports' = imports /\ ran' = ran /\ status[m] = "uncompiled"
        /\ status' \in {status, [status EXCEPT ![m] = "kUninstantiated"]}
    BY <1>3 DEF compileModule, linkVars, runVars
  <2>2. /\ With(Instantiated)' = With(Instantiated)
        /\ With({"kEvaluated"})' = With({"kEvaluated"})
        /\ With({"kErrored"})' = With({"kErrored"})
    BY <1>1, <2>1 DEF With, Instantiated, LinkTypes
  <2>3. QED  BY <2>1, <2>2, NothingMoves
<1>4. ASSUME NEW m \in Modules, NEW n \in Modules, Resolve(m, n) PROVE UNCHANGED Records!vars
  <2>1. /\ imports' = [imports EXCEPT ![m] = Append(@, n)] /\ ran' = ran
        /\ status' = [status EXCEPT ![n] =
                        IF @ = "kUninstantiated" THEN "kInstantiating" ELSE @]
        /\ status[m] = "kInstantiating"
    BY <1>4 DEF Resolve, runVars, Visited, With
  <2>2. /\ With(Instantiated)' = With(Instantiated)
        /\ With({"kEvaluated"})' = With({"kEvaluated"})
        /\ With({"kErrored"})' = With({"kErrored"})
    BY <1>1, <2>1 DEF With, Instantiated, LinkTypes
  <2>3. \A x \in With(Instantiated) : imports'[x] = imports[x]
    BY <1>1, <2>1 DEF With, Instantiated, LinkTypes
  <2>4. QED  BY <2>1, <2>2, <2>3, NothingMoves
<1>5. ASSUME NEW S \in SUBSET Visited, root # NoModule, EndInstantiate(S) PROVE Records!Next
  <2>1. Records!Link(S)
    BY <1>1, <1>5, EndLinks
  <2>2. S \in SUBSET Modules
    BY DEF Visited, With
  <2>3. QED  BY <2>1, <2>2 DEF Records!Next
<1>6. ASSUME NEW n \in Modules, status[n] = "kInstantiated", imports' = imports, ran' = ran,
             status' = [status EXCEPT ![n] = "kEvaluating"]
      PROVE  UNCHANGED Records!vars
  <2>1. /\ With(Instantiated)' = With(Instantiated)
        /\ With({"kEvaluated"})' = With({"kEvaluated"})
        /\ With({"kErrored"})' = With({"kErrored"})
    BY <1>1, <1>6 DEF With, Instantiated, LinkTypes
  <2>2. QED  BY <1>6, <2>1, NothingMoves
<1>7. ASSUME Enter PROVE UNCHANGED Records!vars
  <2> DEFINE n == NextImport
  <2>1. n \in Modules
    BY <1>1, <1>7, NextImportIs DEF Enter, Running
  <2>2. /\ status[n] = "kInstantiated" /\ imports' = imports /\ ran' = ran
        /\ status' = [status EXCEPT ![n] = "kEvaluating"]
    BY <1>7 DEF Enter, linkVars
  <2> HIDE DEF n
  <2>3. QED  BY <1>6, <2>1, <2>2
<1>8. ASSUME NEW m \in Modules, evaluate(m) PROVE UNCHANGED Records!vars
  BY <1>6, <1>8 DEF evaluate, linkVars
<1>9. ASSUME ResolveFails PROVE Records!Next
  BY <1>5, <1>9 DEF ResolveFails
<1>10. ASSUME LinkImports PROVE Records!Next
  BY <1>5, <1>10 DEF LinkImports
<1>11. ASSUME \/ ResolveThrows
              \/ \E m \in Modules : \/ CachedDataInit(m) \/ CachedDataDeinit(m)
                                    \/ FreeSlice(m) \/ SourceInit(m) \/ SourceDeinit(m)
                                    \/ evaluateAgain(m)
              \/ UNCHANGED vars
       PROVE UNCHANGED Records!vars
  <2>1. UNCHANGED <<status, imports, ran>>
    BY <1>11 DEF ResolveThrows, CachedDataInit, CachedDataDeinit, FreeSlice, SourceInit,
                 SourceDeinit, evaluateAgain, vars, linkVars, runVars
  <2>2. QED  BY <1>2, <2>1
<1>12. ASSUME NEW m \in Modules, instantiate(m) PROVE UNCHANGED Records!vars
  <2>1. /\ imports' = imports /\ ran' = ran /\ status[m] = "kUninstantiated"
        /\ status' = [status EXCEPT ![m] = "kInstantiating"]
    BY <1>12 DEF instantiate, runVars
  <2>2. /\ With(Instantiated)' = With(Instantiated)
        /\ With({"kEvaluated"})' = With({"kEvaluated"})
        /\ With({"kErrored"})' = With({"kErrored"})
    BY <1>1, <2>1 DEF With, Instantiated, LinkTypes
  <2>3. QED  BY <2>1, <2>2, NothingMoves
<1>13. QED
  BY <1>1, <1>3, <1>4, <1>7, <1>8, <1>9, <1>10, <1>11, <1>12, ImportFailedSpreads, RunThrowsFails,
     RunRuns DEF Next

\* Whatever is compiled, resolved, instantiated and evaluated, and wherever it
\* fails: modules are linked with everything they import, the code of each is
\* started at most once and after the code of its imports, and the importers of
\* what failed fail with it.
THEOREM ModulesImplementRecords == Spec => ImplementsModuleRecords
<1>1. Init => Records!Init
  <2> SUFFICES ASSUME Init PROVE Records!Init
    OBVIOUS
  <2>1. With(Instantiated) = {} /\ With({"kEvaluated"}) = {} /\ With({"kErrored"}) = {}
        /\ ran = {}
    BY DEF Init, With, Instantiated
  <2>2. Graph \in [{} -> SUBSET Modules]
    BY <2>1 DEF Graph
  <2>3. QED  BY <2>1, <2>2 DEF Records!Init, Graph
<1>2. IInv /\ IInv' /\ [Next]_vars => [Records!Next]_(Records!vars)
  BY StepSimulation
<1>3. QED  BY <1>1, <1>2, Invariance, PTL DEF Spec, ImplementsModuleRecords, Records!Spec
================================================================================
