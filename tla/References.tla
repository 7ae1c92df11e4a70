----------------------------- MODULE References -----------------------------
(***************************************************************************)
(* What handles promise, without slots, scopes or addresses: an object     *)
(* lives as long as somebody holds it; watchers do not keep it, and the    *)
(* step that collects it takes it away from all of them.                   *)
(*                                                                         *)
(* Handles implements this with V8's handle scopes and global handles.     *)
(***************************************************************************)
CONSTANTS Objects,   \* the objects that can be allocated
          Names      \* whatever can hold or watch an object

VARIABLES life,      \* life[o]: "unborn", "alive" or "collected"
          holds,     \* the pairs <<name, object>> that keep an object alive
          watches    \* the pairs <<name, object>> that do not

referenceVars == <<life, holds, watches>>

ReferencesInit == /\ life = [o \in Objects |-> "unborn"]
                  /\ holds = {} /\ watches = {}

\* An object is born into the hands of its first holder.
Bear(n, o) == /\ life[o] = "unborn"
              /\ life' = [life EXCEPT ![o] = "alive"]
              /\ holds' = holds \cup {<<n, o>>}
              /\ UNCHANGED watches

\* A further holder: a watched object may be taken hold of, a collected one not.
Hold(n, o) == /\ life[o] = "alive"
              /\ holds' = holds \cup {<<n, o>>}
              /\ UNCHANGED <<life, watches>>

\* A holder becomes a watcher.
Weaken(n, o) == /\ <<n, o>> \in holds
                /\ holds' = holds \ {<<n, o>>}
                /\ watches' = watches \cup {<<n, o>>}
                /\ UNCHANGED life

\* Holders and watchers let go, and nobody else is affected.
Release(R) == /\ holds' = holds \ R
              /\ watches' = watches \ R
              /\ UNCHANGED life

\* A holding or watching moves to another name.
Rename(m, n, o) ==
    LET Moved(S) == IF <<m, o>> \in S THEN (S \ {<<m, o>>}) \cup {<<n, o>>} ELSE S
    IN  /\ holds' = Moved(holds)
        /\ watches' = Moved(watches)
        /\ UNCHANGED life

\* Objects that nobody holds die, and their watchers lose sight of them at once.
Collect(D) == /\ \A o \in D : life[o] = "alive" /\ \A r \in holds : r[2] # o
              /\ life' = [o \in Objects |-> IF o \in D THEN "collected" ELSE life[o]]
              /\ watches' = {r \in watches : r[2] \notin D}
              /\ UNCHANGED holds

ReferencesNext ==
    \/ \E n \in Names, o \in Objects : Bear(n, o) \/ Hold(n, o) \/ Weaken(n, o)
    \/ \E m, n \in Names, o \in Objects : Rename(m, n, o)
    \/ \E R \in SUBSET (Names \X Objects) : Release(R)
    \/ \E D \in SUBSET Objects : Collect(D)

ReferencesSpec == ReferencesInit /\ [][ReferencesNext]_referenceVars
=============================================================================
