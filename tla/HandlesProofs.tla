---------------------------- MODULE HandlesProofs ----------------------------
(***************************************************************************)
(* Proofs about how JavaScript's values come to Zig and back: as integers  *)
(* (Conversions), which may lose something without telling, and as         *)
(* handles (Handles), for any objects, variables, nodes and number of      *)
(* scopes.                                                                 *)
(***************************************************************************)
EXTENDS Handles, Conversions, SequenceTheorems, TLAPS

------------------------------------------------------------------------------
(***************************************************************************)
(* Conversions.  The lemmas hold for every width, the theorems apply them  *)
(* to 32 and 64 bits.                                                      *)
(***************************************************************************)
\* Each reading of the low bits is in its range.
LEMMA ReadingsInRange ==
    ASSUME NEW n \in Int, NEW h \in Nat, h > 0
    PROVE  Unsigned(n, h) \in Uints(h) /\ Signed(n, h) \in Ints(h)
BY DEF Unsigned, Signed, Uints, Ints

\* A reading is exact for what is in its range, and for nothing else.
LEMMA ReadingsAreExact ==
    ASSUME NEW n \in Int, NEW h \in Nat, h > 0
    PROVE  /\ (Unsigned(n, h) = n) <=> n \in Uints(h)
           /\ (Signed(n, h) = n) <=> n \in Ints(h)
<1>1. Unsigned(n, h) \in Uints(h) /\ Signed(n, h) \in Ints(h)
  BY ReadingsInRange
<1>2. n \in Uints(h) => Unsigned(n, h) = n
  BY DEF Unsigned, Uints
<1>3. ASSUME n \in Ints(h) PROVE Signed(n, h) = n
  <2>1. CASE n >= 0
    BY <1>3, <2>1 DEF Signed, Unsigned, Ints
  <2>2. CASE n < 0
    <3>1. n % (2 * h) = n + 2 * h
      BY <1>3, <2>2 DEF Ints
    <3> QED BY <1>3, <2>2, <3>1 DEF Signed, Unsigned, Ints
  <2> QED BY <2>1, <2>2
<1> QED BY <1>1, <1>2, <1>3

\* Both are readings of the same bits.
LEMMA ReadingsAgree ==
    ASSUME NEW n \in Int, NEW h \in Nat, h > 0
    PROVE  /\ Unsigned(Signed(n, h), h) = Unsigned(n, h)
           /\ Signed(Unsigned(n, h), h) = Signed(n, h)
  BY DEF Unsigned, Signed

\* The two widths.
LEMMA Widths == H32 \in Nat /\ H32 > 0 /\ H64 \in Nat /\ H64 > 0
  BY DEF H32, H64

(***************************************************************************)
(* An Integer made of an unsigned value gives it back.  One made of a      *)
(* signed value does as long as it is not negative, and panics otherwise   *)
(* in a safe build: v8.zig has no way to read it as signed but             *)
(* Value.toI32.                                                            *)
(***************************************************************************)
THEOREM IntegersReadBack ==
    ASSUME NEW safe \in BOOLEAN
    PROVE  /\ \A v \in Uints(H32) : getValueU32(initU32(v), safe) = {v}
           /\ \A v \in Ints(H32) : v >= 0 => getValueU32(initI32(v), safe) = {v}
           /\ \A v \in Ints(H32) : v < 0 /\ safe => getValueU32(initI32(v), safe) = {}
<1>1. \A v \in Uints(H32) : initU32(v) = v
  BY Widths, ReadingsAreExact DEF initU32, Uints
<1>2. \A v \in Ints(H32) : initI32(v) = v
  BY Widths, ReadingsAreExact DEF initI32, Ints
<1>3. \A v \in Ints(H32) : (v \in Uints(H32)) <=> v >= 0
  BY Widths DEF Ints, Uints
<1>4. \A v \in Uints(H32) : getValueU32(initU32(v), safe) = {v}
  BY <1>1, Zenon DEF getValueU32
<1>5. \A v \in Ints(H32) : v >= 0 => getValueU32(initI32(v), safe) = {v}
  BY <1>2, <1>3, Zenon DEF getValueU32
<1>6. \A v \in Ints(H32) : v < 0 => ~ (v >= 0)
  BY Widths DEF Ints
<1>7. \A v \in Ints(H32) : v < 0 /\ safe => getValueU32(initI32(v), safe) = {}
  BY <1>2, <1>3, <1>6, Zenon DEF getValueU32
<1> QED BY <1>4, <1>5, <1>7

(***************************************************************************)
(* A value that Zig gives to JavaScript as an Integer and takes back with  *)
(* toI32 or toU32 is the same, and so are its bits when it is taken back   *)
(* with the other one.                                                     *)
(***************************************************************************)
THEOREM ValuesReadBack ==
    /\ \A v \in Ints(H32) : toI32(initI32(v)) = v
    /\ \A v \in Uints(H32) : toU32(initU32(v)) = v
    /\ \A num \in Int : toU32(toI32(num)) = toU32(num) /\ toI32(toU32(num)) = toI32(num)
<1>1. \A v \in Ints(H32) : initI32(v) = v /\ toI32(v) = v
  BY Widths, ReadingsAreExact DEF initI32, toI32, Ints
<1>2. \A v \in Uints(H32) : initU32(v) = v /\ toU32(v) = v
  BY Widths, ReadingsAreExact DEF initU32, toU32, Uints
<1>3. \A num \in Int : toU32(toI32(num)) = toU32(num) /\ toI32(toU32(num)) = toI32(num)
  BY Widths, ReadingsAgree DEF toI32, toU32
<1> QED BY <1>1, <1>2, <1>3

(***************************************************************************)
(* getInt64 and getUint64 are exact for the BigInts in their range and for *)
(* no other, which the caller cannot tell since `lossless` is dropped; the *)
(* bits are the same whichever is called, and a value that Zig made comes  *)
(* back from the one of its own type.                                      *)
(***************************************************************************)
THEOREM BigIntsReadBack ==
    /\ \A v \in Ints(H64) : getInt64(initI64(v)) = v
    /\ \A v \in Uints(H64) : getUint64(initU64(v)) = v
    /\ \A b \in Int : /\ (getInt64(b) = b) <=> b \in Ints(H64)
                      /\ (getUint64(b) = b) <=> b \in Uints(H64)
                      /\ Unsigned(getInt64(b), H64) = getUint64(b)
<1>1. \A b \in Int : /\ (getInt64(b) = b) <=> b \in Ints(H64)
                     /\ (getUint64(b) = b) <=> b \in Uints(H64)
  BY Widths, ReadingsAreExact DEF getInt64, getUint64
<1>2. \A b \in Int : Unsigned(getInt64(b), H64) = getUint64(b)
  BY Widths, ReadingsAgree DEF getInt64, getUint64
<1>3. \A v \in Ints(H64) : v \in Int /\ initI64(v) = getInt64(v)
  BY DEF Ints, initI64, getInt64
<1>4. \A v \in Uints(H64) : v \in Int /\ initU64(v) = getUint64(v)
  BY DEF Uints, initU64, getUint64
<1> QED BY <1>1, <1>2, <1>3, <1>4
------------------------------------------------------------------------------
(***************************************************************************)
(* Handles.                                                                *)
(***************************************************************************)
USE NullAssumption, ScopesAssumption

LEMMA InitIInv == Init => IInv
BY DEF Init, IInv, TypeOK, NodesOwned, NodesRefer, RootsAlive, CastsHold, Alive,
       Used, Kinds, WeakKinds, Freed

\* What a call can be given is alive.
LEMMA GivenAlive == ASSUME IInv, Running PROVE global \cup Given \subseteq Alive
<1>1. Locals \subseteq Alive
  BY DEF IInv, RootsAlive, Locals
<1>2. ASSUME NEW c \in casts PROVE target[c.node] \in Alive
  <2>1. c.node \in Nodes /\ kind[c.node] = "strong"
    BY <1>2 DEF IInv, TypeOK, CastsHold
  <2>2. QED  BY <2>1 DEF IInv, NodesRefer
<1>3. ASSUME NEW p \in Vars, inner[p] # Null PROVE target[inner[p]] \in Alive
  <2>1. inner[p] \in Nodes /\ kind[inner[p]] # "free"
    BY <1>3 DEF IInv, TypeOK, NodesOwned, Used
  <2>2. QED  BY <2>1 DEF IInv, NodesRefer, Running
<1>4. QED
  BY <1>1, <1>2, <1>3 DEF Given, IInv, RootsAlive

LEMMA IInvImpliesNothingDangles == IInv => NothingDangles
BY GivenAlive DEF IInv, NothingDangles, CastsHold
------------------------------------------------------------------------------
(***************************************************************************)
(* Scopes, locals and JavaScript touch no node.                            *)
(***************************************************************************)
LEMMA UntouchedNodes ==
  ASSUME IInv, UNCHANGED <<inner, nodeVars, casts>>, UNCHANGED life
  PROVE  NodesOwned' /\ NodesRefer' /\ CastsHold'
BY DEF IInv, NodesOwned, NodesRefer, CastsHold, nodeVars, Alive, Used

LEMMA HandleScopeInitPreserves == IInv /\ HandleScopeInit => IInv'
<1> SUFFICES ASSUME IInv, HandleScopeInit PROVE IInv'
  OBVIOUS
<1>1. NodesOwned' /\ NodesRefer' /\ CastsHold'
  BY UntouchedNodes DEF HandleScopeInit
<1>2. /\ scopes' \in Seq(SUBSET Objects)
      /\ Len(scopes') = Len(scopes) + 1
      /\ \A i \in DOMAIN scopes' :
            scopes'[i] = {} \/ (i \in DOMAIN scopes /\ scopes'[i] = scopes[i])
  <2>1. scopes \in Seq(SUBSET Objects) /\ {} \in SUBSET Objects
    BY DEF IInv, TypeOK
  <2>2. scopes' = Append(scopes, {})
    BY DEF HandleScopeInit
  <2>3. QED  BY <2>1, <2>2, AppendProperties
<1>3. TypeOK' /\ RootsAlive'
  BY <1>2 DEF HandleScopeInit, IInv, TypeOK, RootsAlive, nodeVars, Alive
<1>4. QED  BY <1>1, <1>3 DEF IInv

\* The last scope is gone, and the others are as they were.
LEMMA ScopesAfterDeinit ==
  ASSUME IInv, HandleScopeDeinit
  PROVE  /\ scopes' \in Seq(SUBSET Objects)
         /\ Len(scopes') = Len(scopes) - 1
         /\ DOMAIN scopes' = 1 .. Len(scopes) - 1
         /\ \A i \in 1 .. Len(scopes) - 1 : i \in DOMAIN scopes /\ scopes'[i] = scopes[i]
<1>1. scopes \in Seq(SUBSET Objects) /\ Len(scopes) \in Nat \ {0}
  BY EmptySeq DEF HandleScopeDeinit, IInv, TypeOK
<1> DEFINE m == Len(scopes) - 1
<1>2. /\ m \in Nat /\ DOMAIN scopes = 1 .. Len(scopes)
      /\ \A i \in 1 .. m : scopes[i] \in SUBSET Objects
  BY <1>1
<1>3. scopes' = SubSeq(scopes, 1, m)
  BY DEF HandleScopeDeinit
<1> HIDE DEF m
<1>4. /\ scopes' \in Seq(SUBSET Objects)
      /\ Len(scopes') = IF 1 <= m THEN m - 1 + 1 ELSE 0
      /\ \A i \in 1 .. m - 1 + 1 : scopes'[i] = scopes[1 + i - 1]
  BY <1>2, <1>3, SubSeqProperties
<1>5. Len(scopes') = m /\ DOMAIN scopes' = 1 .. m
  BY <1>2, <1>4
<1>6. ASSUME NEW i \in 1 .. m
      PROVE  scopes'[i] = scopes[i] /\ i \in 1 .. Len(scopes)
  <2>1. 1 + i - 1 = i /\ m - 1 + 1 = m
    BY <1>2
  <2>2. scopes'[i] = scopes[i]
    BY <1>4, <2>1
  <2>3. QED  BY <1>1, <2>2 DEF m
<1>7. QED  BY <1>2, <1>4, <1>5, <1>6 DEF m

LEMMA HandleScopeDeinitPreserves == IInv /\ HandleScopeDeinit => IInv'
<1> SUFFICES ASSUME IInv, HandleScopeDeinit PROVE IInv'
  OBVIOUS
<1>1. NodesOwned' /\ NodesRefer' /\ CastsHold'
  BY UntouchedNodes DEF HandleScopeDeinit
<1>2. TypeOK' /\ RootsAlive'
  BY ScopesAfterDeinit DEF HandleScopeDeinit, IInv, TypeOK, RootsAlive, nodeVars, Alive
<1>3. QED  BY <1>1, <1>2 DEF IInv

\* A new local for an object that is alive from now on.
LEMMA LocalAdded ==
  ASSUME IInv, scopes # <<>>, NEW o \in Objects, AddLocal(o), o \in Alive',
         Alive \subseteq Alive'
  PROVE  /\ scopes' \in Seq(SUBSET Objects) /\ Len(scopes') = Len(scopes)
         /\ \A i \in DOMAIN scopes' : scopes'[i] \subseteq Alive'
<1>1. scopes \in Seq(SUBSET Objects) /\ Len(scopes) \in DOMAIN scopes
  BY DEF IInv, TypeOK
<1>2. scopes' \in Seq(SUBSET Objects) /\ Len(scopes') = Len(scopes)
  BY <1>1 DEF AddLocal
<1>3. \A i \in DOMAIN scopes' : i \in DOMAIN scopes /\ scopes'[i] \subseteq scopes[i] \cup {o}
  BY <1>1, <1>2 DEF AddLocal
<1>4. QED  BY <1>2, <1>3 DEF IInv, RootsAlive

LEMMA ObjectInitPreserves == ASSUME NEW o \in Objects PROVE IInv /\ ObjectInit(o) => IInv'
<1> SUFFICES ASSUME IInv, ObjectInit(o) PROVE IInv'
  OBVIOUS
<1>1. Alive' = Alive \cup {o} /\ life' \in [Objects -> {"unborn", "alive", "collected"}]
  BY DEF ObjectInit, IInv, TypeOK, Alive
<1>2. /\ scopes' \in Seq(SUBSET Objects) /\ Len(scopes') = Len(scopes)
      /\ \A i \in DOMAIN scopes' : scopes'[i] \subseteq Alive'
  BY <1>1, LocalAdded DEF ObjectInit
<1>3. TypeOK'
  BY <1>1, <1>2 DEF ObjectInit, IInv, TypeOK, nodeVars
<1>4. NodesOwned' /\ CastsHold'
  BY DEF ObjectInit, IInv, NodesOwned, CastsHold, nodeVars, Used
<1>5. NodesRefer' /\ RootsAlive'
  BY <1>1, <1>2 DEF ObjectInit, IInv, NodesRefer, RootsAlive, nodeVars
<1>6. QED  BY <1>3, <1>4, <1>5 DEF IInv

LEMMA getValuePreserves == ASSUME NEW o \in Objects PROVE IInv /\ getValue(o) => IInv'
<1> SUFFICES ASSUME IInv, getValue(o) PROVE IInv'
  OBVIOUS
<1>1. Alive' = Alive /\ o \in Alive
  BY DEF getValue, IInv, RootsAlive, Alive
<1>2. /\ scopes' \in Seq(SUBSET Objects) /\ Len(scopes') = Len(scopes)
      /\ \A i \in DOMAIN scopes' : scopes'[i] \subseteq Alive'
  BY <1>1, LocalAdded DEF getValue
<1>3. NodesOwned' /\ NodesRefer' /\ CastsHold'
  BY UntouchedNodes DEF getValue
<1>4. TypeOK' /\ RootsAlive'
  BY <1>1, <1>2 DEF getValue, IInv, TypeOK, RootsAlive, nodeVars
<1>5. QED  BY <1>3, <1>4 DEF IInv

LEMMA setValuePreserves ==
  ASSUME NEW o \in Objects PROVE IInv /\ Running /\ setValue(o) => IInv'
<1> SUFFICES ASSUME IInv, Running, setValue(o) PROVE IInv'
  OBVIOUS
<1>1. o \in Alive /\ Alive' = Alive
  BY GivenAlive DEF setValue, Alive
<1>2. NodesOwned' /\ NodesRefer' /\ CastsHold'
  BY UntouchedNodes DEF setValue
<1>3. TypeOK' /\ RootsAlive'
  BY <1>1 DEF setValue, IInv, TypeOK, RootsAlive, nodeVars
<1>4. QED  BY <1>2, <1>3 DEF IInv

LEMMA ForgetPreserves == ASSUME NEW o \in Objects PROVE IInv /\ Forget(o) => IInv'
<1> SUFFICES ASSUME IInv, Forget(o) PROVE IInv'
  OBVIOUS
<1>1. NodesOwned' /\ NodesRefer' /\ CastsHold'
  BY UntouchedNodes DEF Forget
<1>2. TypeOK' /\ RootsAlive'
  BY DEF Forget, IInv, TypeOK, RootsAlive, nodeVars, Alive
<1>3. QED  BY <1>1, <1>2 DEF IInv
------------------------------------------------------------------------------
(***************************************************************************)
(* Persistents.                                                            *)
(***************************************************************************)
LEMMA PersistentInitPreserves ==
  ASSUME NEW p \in Vars, NEW o \in Objects
  PROVE  IInv /\ Running /\ PersistentInit(p, o) => IInv'
<1> SUFFICES ASSUME IInv, Running, PersistentInit(p, o) PROVE IInv'
  OBVIOUS
<1>1. PICK n \in Nodes :
        /\ inner[p] = Null
        /\ o \in Given
        /\ kind[n] = "free"
        /\ inner' = [inner EXCEPT ![p] = n]
        /\ kind' = [kind EXCEPT ![n] = "strong"]
        /\ target' = [target EXCEPT ![n] = o]
        /\ address' = [address EXCEPT ![n] = Null]
        /\ UNCHANGED <<life, global, scopes, casts>>
  BY DEF PersistentInit, Used
<1>2. o \in Alive /\ Alive' = Alive
  BY <1>1, GivenAlive DEF Alive
<1>3. TypeOK
  BY DEF IInv
<1>4. TypeOK'
  BY <1>1, <1>3 DEF TypeOK, Kinds
<1>5. NodesOwned'
  BY <1>1, <1>3 DEF IInv, TypeOK, NodesOwned, Used, WeakKinds
<1>6. NodesRefer' /\ RootsAlive' /\ CastsHold'
  BY <1>1, <1>2, <1>3 DEF IInv, TypeOK, NodesRefer, RootsAlive, CastsHold
<1>7. QED  BY <1>4, <1>5, <1>6 DEF IInv

\* deinit, called by the embedder or by a finalizer.
LEMMA PersistentDeinitPreserves ==
  ASSUME NEW p \in Vars PROVE IInv /\ PersistentDeinit(p) => IInv'
<1> SUFFICES ASSUME IInv, PersistentDeinit(p), inner[p] # Null PROVE IInv'
  <2>1. ASSUME IInv, UNCHANGED vars PROVE IInv'
    BY <2>1 DEF vars, nodeVars, IInv, TypeOK, NodesOwned, NodesRefer, RootsAlive,
                CastsHold, Alive, Used
  <2>2. QED  BY <2>1 DEF PersistentDeinit
<1> DEFINE n == inner[p]
<1>1. /\ Uncast(p)
      /\ inner' = [inner EXCEPT ![p] = Null]
      /\ kind' = [kind EXCEPT ![n] = "free"]
      /\ target' = [target EXCEPT ![n] = Null]
      /\ address' = [address EXCEPT ![n] = Null]
      /\ UNCHANGED <<life, global, scopes, casts>>
  BY DEF PersistentDeinit, Freed
<1>2. TypeOK /\ n \in Nodes
  BY DEF IInv, TypeOK
<1>3. TypeOK'
  BY <1>1, <1>2 DEF TypeOK, Kinds
<1>4. NodesOwned'
  BY <1>1, <1>2 DEF IInv, TypeOK, NodesOwned, Used, WeakKinds
<1>5. NodesRefer' /\ RootsAlive' /\ CastsHold'
  BY <1>1, <1>2 DEF IInv, TypeOK, NodesRefer, RootsAlive, CastsHold, Alive, Uncast
<1>6. QED  BY <1>3, <1>4, <1>5 DEF IInv

LEMMA SetWeakPreserves ==
  ASSUME NEW p \in Vars, NEW k \in WeakKinds
  PROVE  IInv /\ Running /\ SetWeak(p, k) => IInv'
<1> SUFFICES ASSUME IInv, Running, SetWeak(p, k) PROVE IInv'
  OBVIOUS
<1> DEFINE n == inner[p]
<1>1. /\ inner[p] # Null /\ Uncast(p)
      /\ kind' = [kind EXCEPT ![n] = k]
      /\ address' = [address EXCEPT ![n] = p]
      /\ UNCHANGED <<life, global, scopes, inner, target, casts>>
  BY DEF SetWeak
<1>2. TypeOK /\ n \in Nodes /\ kind[n] \notin {"free", "dying"}
  BY <1>1 DEF IInv, TypeOK, NodesOwned, Used, Running
<1>3. TypeOK'
  BY <1>1, <1>2 DEF TypeOK, Kinds
<1>4. NodesOwned'
  BY <1>1, <1>2 DEF IInv, TypeOK, NodesOwned, Used, WeakKinds
<1>5. NodesRefer' /\ RootsAlive' /\ CastsHold'
  BY <1>1, <1>2 DEF IInv, TypeOK, NodesRefer, RootsAlive, CastsHold, Alive, Uncast,
                    WeakKinds
<1>6. QED  BY <1>3, <1>4, <1>5 DEF IInv

LEMMA castToPreserves == ASSUME NEW p \in Vars PROVE IInv /\ castTo(p) => IInv'
<1> SUFFICES ASSUME IInv, castTo(p) PROVE IInv'
  OBVIOUS
<1>1. inner[p] \in Nodes /\ kind[inner[p]] = "strong" /\ target[inner[p]] \in Objects
  BY DEF castTo, IInv, TypeOK, NodesRefer, Alive
<1>2. TypeOK'
  BY <1>1 DEF castTo, IInv, TypeOK, nodeVars
<1>3. NodesOwned' /\ NodesRefer' /\ RootsAlive'
  BY DEF castTo, IInv, NodesOwned, NodesRefer, RootsAlive, nodeVars, Alive, Used
<1>4. CastsHold'
  BY <1>1 DEF castTo, IInv, CastsHold, nodeVars
<1>5. QED  BY <1>2, <1>3, <1>4 DEF IInv

LEMMA AssignPreserves ==
  ASSUME NEW p \in Vars, NEW q \in Vars PROVE IInv /\ Assign(p, q) => IInv'
<1> SUFFICES ASSUME IInv, Assign(p, q) PROVE IInv'
  OBVIOUS
<1>1. /\ inner[p] # Null /\ inner[q] = Null /\ p # q
      /\ kind[inner[p]] = "strong"
      /\ inner' = [inner EXCEPT ![q] = inner[p], ![p] = Null]
      /\ UNCHANGED <<life, global, scopes, nodeVars, casts>>
  BY DEF Assign
<1>2. TypeOK /\ TypeOK'
  BY <1>1 DEF IInv, TypeOK, nodeVars
<1>3. NodesOwned'
  <2>1. /\ inner[p] \in Nodes /\ inner'[q] = inner[p] /\ inner'[p] = Null
        /\ \A r \in Vars : r # p /\ r # q => inner'[r] = inner[r]
        /\ kind' = kind /\ address' = address
        /\ inner[p] # Null /\ inner[q] = Null /\ kind[inner[p]] = "strong"
    BY <1>1, <1>2 DEF TypeOK, nodeVars
  <2>2. \A r, s \in Vars : inner'[r] = inner'[s] /\ inner'[r] # Null => r = s
    BY <2>1 DEF IInv, NodesOwned
  <2>3. \A r \in Vars : inner'[r] # Null => kind'[inner'[r]] # "free"
    BY <2>1 DEF IInv, NodesOwned, Used
  <2>4. ASSUME NEW n \in Nodes, kind'[n] # "free" PROVE \E r \in Vars : inner'[r] = n
    BY <2>1, <2>4 DEF IInv, NodesOwned, Used
  <2>5. ASSUME NEW n \in Nodes, kind'[n] \in WeakKinds \cup {"dying"}
        PROVE  address'[n] \in Vars /\ inner'[address'[n]] = n
    <3>1. /\ n # inner[p] /\ n # Null
          /\ address[n] \in Vars /\ inner[address[n]] = n
      BY <2>1, <2>5 DEF IInv, NodesOwned, WeakKinds
    <3>2. QED  BY <2>1, <3>1
  <2>6. QED  BY <2>2, <2>3, <2>4, <2>5 DEF NodesOwned, Used
<1>4. NodesRefer' /\ RootsAlive' /\ CastsHold'
  BY <1>1 DEF IInv, NodesRefer, RootsAlive, CastsHold, Alive, nodeVars
<1>5. QED  BY <1>2, <1>3, <1>4 DEF IInv

LEMMA DiscardPreserves == ASSUME NEW c \in casts PROVE IInv /\ Discard(c) => IInv'
BY DEF Discard, IInv, TypeOK, NodesOwned, NodesRefer, RootsAlive, CastsHold, nodeVars,
       Alive, Used
------------------------------------------------------------------------------
(***************************************************************************)
(* The collector.                                                          *)
(***************************************************************************)
LEMMA CollectPreserves ==
  ASSUME NEW D \in SUBSET Objects PROVE IInv /\ Running /\ Collect(D) => IInv'
<1> SUFFICES ASSUME IInv, Running, Collect(D) PROVE IInv'
  OBVIOUS
<1> DEFINE emptied == {n \in Nodes : target[n] \in D}
           cleared == {n \in emptied : kind[n] = "clearing"}
<1>1. /\ D \subseteq Alive \ Roots
      /\ life' = [o \in Objects |-> IF o \in D THEN "collected" ELSE life[o]]
      /\ inner' = [p \in Vars |->
                     IF \E n \in cleared : address[n] = p THEN Null ELSE inner[p]]
      /\ kind' = [n \in Nodes |-> IF n \in cleared THEN "free"
                                  ELSE IF n \in emptied THEN "dying" ELSE kind[n]]
      /\ target' = [n \in Nodes |-> IF n \in emptied THEN Null ELSE target[n]]
      /\ address' = [n \in Nodes |-> IF n \in cleared THEN Null ELSE address[n]]
      /\ UNCHANGED <<global, scopes, casts>>
  BY DEF Collect
<1>2. TypeOK /\ Alive' = Alive \ D
  BY <1>1 DEF IInv, Alive
<1>3. \A n \in emptied : kind[n] \in WeakKinds
  <2> SUFFICES ASSUME NEW n \in emptied PROVE kind[n] \in WeakKinds
    OBVIOUS
  <2>1. target[n] # Null /\ kind[n] \in Kinds
    BY <1>2 DEF TypeOK
  <2>2. kind[n] \notin {"free", "dying"}
    BY <2>1 DEF IInv, NodesRefer
  <2>3. kind[n] # "strong"
    BY <1>1 DEF Roots, Strong
  <2>4. QED  BY <2>1, <2>2, <2>3 DEF Kinds
<1>4. TypeOK'
  BY <1>1, <1>2 DEF TypeOK, Kinds, WeakKinds
<1>5. ASSUME NEW n \in Nodes, NEW p \in Vars, inner[p] = n
      PROVE  inner'[p] = IF n \in cleared THEN Null ELSE n
  <2>1. \A m \in cleared : address[m] \in Vars /\ inner[address[m]] = m
    BY <1>3 DEF IInv, NodesOwned
  <2>2. QED  BY <1>1, <1>5, <2>1 DEF IInv, NodesOwned
<1>6. \A p \in Vars : inner[p] = Null => inner'[p] = Null
  BY <1>1
<1>7. NodesOwned'
  <2>1. ASSUME NEW p \in Vars, inner'[p] # Null
        PROVE  inner'[p] = inner[p] /\ inner[p] \in Nodes \ cleared
    BY <1>2, <1>5, <1>6, <2>1 DEF TypeOK
  <2>2. \A p \in Vars : inner'[p] # Null => kind'[inner'[p]] # "free"
    BY <1>1, <2>1 DEF IInv, NodesOwned, Used
  <2>3. \A p, q \in Vars : inner'[p] = inner'[q] /\ inner'[p] # Null => p = q
    BY <2>1 DEF IInv, NodesOwned
  <2>4. \A n \in Nodes : kind'[n] # "free" => \E p \in Vars : inner'[p] = n
    BY <1>1, <1>3, <1>5 DEF IInv, NodesOwned, Used, WeakKinds
  <2>5. ASSUME NEW n \in Nodes, kind'[n] \in WeakKinds \cup {"dying"}
        PROVE  address'[n] \in Vars /\ inner'[address'[n]] = n
    <3>1. n \notin cleared /\ kind[n] \in WeakKinds \cup {"dying"}
      BY <1>1, <1>3, <2>5 DEF WeakKinds
    <3>2. address[n] \in Vars /\ inner[address[n]] = n /\ address'[n] = address[n]
      BY <1>1, <3>1 DEF IInv, NodesOwned
    <3>3. QED  BY <1>5, <3>1, <3>2
  <2>6. QED  BY <2>2, <2>3, <2>4, <2>5 DEF NodesOwned, Used
<1>8. NodesRefer'
  BY <1>1, <1>2, <1>3 DEF IInv, NodesRefer, WeakKinds
<1>9. RootsAlive'
  BY <1>1, <1>2 DEF IInv, RootsAlive, Roots, Locals
<1>10. CastsHold'
  BY <1>1, <1>2, <1>3 DEF IInv, TypeOK, CastsHold, WeakKinds
<1>11. QED  BY <1>4, <1>7, <1>8, <1>9, <1>10 DEF IInv

LEMMA FinalizePreserves == ASSUME NEW n \in Nodes PROVE IInv /\ Finalize(n) => IInv'
BY PersistentDeinitPreserves DEF Finalize, IInv, NodesOwned
------------------------------------------------------------------------------
LEMMA StepPreserves == IInv /\ [Next]_vars => IInv'
<1> SUFFICES ASSUME IInv, [Next]_vars PROVE IInv'
  OBVIOUS
<1>1. ASSUME Running, Embedder PROVE IInv'
  BY <1>1, HandleScopeInitPreserves, HandleScopeDeinitPreserves, ObjectInitPreserves,
     getValuePreserves, setValuePreserves, PersistentInitPreserves,
     PersistentDeinitPreserves, SetWeakPreserves, castToPreserves, AssignPreserves,
     DiscardPreserves
  DEF Embedder, setWeak, setWeakFinalizer, WeakKinds
<1>2. ASSUME Running, JavaScript PROVE IInv'
  BY <1>2, ForgetPreserves, CollectPreserves DEF JavaScript
<1>3. ASSUME NEW n \in Nodes, Finalize(n) PROVE IInv'
  BY <1>3, FinalizePreserves
<1>4. CASE UNCHANGED vars
  BY <1>4 DEF vars, nodeVars, IInv, TypeOK, NodesOwned, NodesRefer, RootsAlive,
              CastsHold, Alive, Used
<1>5. QED  BY <1>1, <1>2, <1>3, <1>4 DEF Next

THEOREM Invariance == Spec => []IInv
BY InitIInv, StepPreserves, PTL DEF Spec

\* Every variable is of its type: the words hold nodes or nothing, and no more
\* scopes are open than MaxScopes.
THEOREM TypeCorrect == Spec => []TypeOK
BY Invariance, PTL DEF IInv

\* deinit, setWeak, setWeakFinalizer and the collector leave every node in use
\* with one variable, the one that V8 would clear.
THEOREM NodesHaveOneOwner == Spec => []NodesOwned
BY Invariance, PTL DEF IInv

\* No local, cast or Persistent that a call can be given refers to a collected
\* object, or to another than it was made for.
THEOREM HandlesStayValid == Spec => []NothingDangles
BY Invariance, IInvImpliesNothingDangles, PTL
------------------------------------------------------------------------------
(***************************************************************************)
(* Handles implements References.  Each action changes one of the three    *)
(* ways of holding an object, or none.                                     *)
(***************************************************************************)
Names == {VarName(p) : p \in Vars} \cup {ScopeName(i) : i \in 1 .. MaxScopes}
         \cup {GlobalName}
Holds == GlobalHolds \cup ScopeHolds \cup PointsTo({"strong"})
Watches == PointsTo(WeakKinds)

LEMMA NamesDiffer ==
  /\ \A p, i : VarName(p) # ScopeName(i)
  /\ \A p : VarName(p) # GlobalName
  /\ \A i : ScopeName(i) # GlobalName
  /\ \A p, q : VarName(p) = VarName(q) => p = q
  /\ \A i, j : ScopeName(i) = ScopeName(j) => i = j
BY DEF VarName, ScopeName, GlobalName

LEMMA SameNodes ==
  ASSUME UNCHANGED <<inner, nodeVars>>
  PROVE  PointsTo({"strong"})' = PointsTo({"strong"}) /\ Watches' = Watches
BY DEF PointsTo, Watches, Pointing, nodeVars

LEMMA SameScopes == ASSUME UNCHANGED scopes PROVE ScopeHolds' = ScopeHolds
BY DEF ScopeHolds

LEMMA SameGlobals == ASSUME UNCHANGED global PROVE GlobalHolds' = GlobalHolds
BY DEF GlobalHolds

\* A node in use and not dying refers to an object, so each pair is of its type.
LEMMA PointsToType ==
  ASSUME IInv, NEW p \in Vars, inner[p] # Null, kind[inner[p]] # "dying"
  PROVE  /\ inner[p] \in Nodes /\ target[inner[p]] \in Objects
         /\ life[target[inner[p]]] = "alive"
BY DEF IInv, TypeOK, NodesOwned, NodesRefer, Alive, Used

LEMMA InitRefines == Init => Abstract!ReferencesInit
BY DEF Init, Abstract!ReferencesInit, GlobalHolds, ScopeHolds, PointsTo, Pointing

LEMMA HandleScopeInitRefines ==
  IInv /\ HandleScopeInit => Holds' = Holds /\ Watches' = Watches /\ life' = life
<1> SUFFICES ASSUME IInv, HandleScopeInit
    PROVE  Holds' = Holds /\ Watches' = Watches /\ life' = life
  OBVIOUS
<1>1. scopes \in Seq(SUBSET Objects) /\ {} \in SUBSET Objects
  BY DEF IInv, TypeOK
<1>2. /\ DOMAIN scopes' = 1 .. Len(scopes) + 1 /\ DOMAIN scopes = 1 .. Len(scopes)
      /\ \A i \in DOMAIN scopes : scopes'[i] = scopes[i]
      /\ scopes'[Len(scopes) + 1] = {}
  BY <1>1, AppendProperties DEF HandleScopeInit
<1>3. ScopeHolds' = ScopeHolds
  <2>1. Len(scopes) \in Nat
    BY <1>1
  <2>2. \A i \in DOMAIN scopes' : i \in DOMAIN scopes \/ scopes'[i] = {}
    BY <1>2, <2>1
  <2>3. DOMAIN scopes \subseteq DOMAIN scopes'
    BY <1>2, <2>1
  <2>4. QED  BY <1>2, <2>2, <2>3 DEF ScopeHolds
<1>4. QED
  BY <1>3, SameNodes, SameGlobals DEF HandleScopeInit, Holds

LEMMA HandleScopeDeinitRefines ==
  IInv /\ HandleScopeDeinit => Abstract!ReferencesNext
<1> SUFFICES ASSUME IInv, HandleScopeDeinit PROVE Abstract!ReferencesNext
  OBVIOUS
<1> DEFINE m == Len(scopes)
           R == {<<ScopeName(m), o>> : o \in scopes[m]}
<1>1. scopes \in Seq(SUBSET Objects) /\ m \in Nat \ {0} /\ m <= MaxScopes
  BY EmptySeq DEF HandleScopeDeinit, IInv, TypeOK
<1>2. /\ DOMAIN scopes = 1 .. m /\ DOMAIN scopes' = 1 .. m - 1
      /\ \A i \in 1 .. m - 1 : scopes'[i] = scopes[i]
  BY <1>1, ScopesAfterDeinit
<1> HIDE DEF m
<1>3. R \in SUBSET (Names \X Objects)
  BY <1>1, <1>2 DEF Names
<1>4. ScopeHolds' = ScopeHolds \ R
  BY <1>1, <1>2, NamesDiffer DEF ScopeHolds
<1>5. R \cap GlobalHolds = {} /\ R \cap PointsTo({"strong"}) = {} /\ R \cap Watches = {}
  BY NamesDiffer DEF GlobalHolds, PointsTo, Watches
<1>6. Holds' = Holds \ R /\ Watches' = Watches \ R
  BY <1>4, <1>5, SameNodes, SameGlobals DEF HandleScopeDeinit, Holds
<1>7. Abstract!Release(R)
  BY <1>6 DEF Abstract!Release, HandleScopeDeinit, Holds, Watches
<1>8. QED  BY <1>3, <1>7 DEF Abstract!ReferencesNext, Names

\* A local is added in the innermost scope.
LEMMA LocalHeld ==
  ASSUME IInv, scopes # <<>>, NEW o \in Objects, AddLocal(o)
  PROVE  /\ ScopeName(Len(scopes)) \in Names
         /\ ScopeHolds' = ScopeHolds \cup {<<ScopeName(Len(scopes)), o>>}
<1> DEFINE m == Len(scopes)
<1>1. scopes \in Seq(SUBSET Objects) /\ m \in Nat \ {0} /\ m <= MaxScopes
  BY EmptySeq DEF IInv, TypeOK
<1>2. /\ m \in DOMAIN scopes /\ DOMAIN scopes' = DOMAIN scopes
      /\ scopes'[m] = scopes[m] \cup {o}
      /\ \A i \in DOMAIN scopes : i # m => scopes'[i] = scopes[i]
  BY <1>1 DEF AddLocal
<1>3. ScopeHolds' = ScopeHolds \cup {<<ScopeName(m), o>>}
  <2> HIDE DEF m
  <2>1. QED  BY <1>2 DEF ScopeHolds
<1>4. QED  BY <1>1, <1>3 DEF Names

LEMMA ObjectInitRefines ==
  ASSUME NEW o \in Objects PROVE IInv /\ ObjectInit(o) => Abstract!ReferencesNext
<1> SUFFICES ASSUME IInv, ObjectInit(o) PROVE Abstract!ReferencesNext
  OBVIOUS
<1> DEFINE n == ScopeName(Len(scopes))
<1>1. n \in Names /\ ScopeHolds' = ScopeHolds \cup {<<n, o>>}
  BY LocalHeld DEF ObjectInit
<1>2. Holds' = Holds \cup {<<n, o>>} /\ Watches' = Watches
  BY <1>1, SameNodes, SameGlobals DEF ObjectInit, Holds
<1>3. Abstract!Bear(n, o)
  BY <1>2 DEF Abstract!Bear, ObjectInit, Holds, Watches
<1>4. QED  BY <1>1, <1>3 DEF Abstract!ReferencesNext, Names

LEMMA getValueRefines ==
  ASSUME NEW o \in Objects PROVE IInv /\ getValue(o) => Abstract!ReferencesNext
<1> SUFFICES ASSUME IInv, getValue(o) PROVE Abstract!ReferencesNext
  OBVIOUS
<1> DEFINE n == ScopeName(Len(scopes))
<1>1. n \in Names /\ ScopeHolds' = ScopeHolds \cup {<<n, o>>}
  BY LocalHeld DEF getValue
<1>2. Holds' = Holds \cup {<<n, o>>} /\ Watches' = Watches
  BY <1>1, SameNodes, SameGlobals DEF getValue, Holds
<1>3. life[o] = "alive"
  BY DEF getValue, IInv, RootsAlive, Alive
<1>4. Abstract!Hold(n, o)
  BY <1>2, <1>3 DEF Abstract!Hold, getValue, Holds, Watches
<1>5. QED  BY <1>1, <1>4 DEF Abstract!ReferencesNext, Names

LEMMA setValueRefines ==
  ASSUME NEW o \in Objects
  PROVE  IInv /\ Running /\ setValue(o) => Abstract!ReferencesNext
<1> SUFFICES ASSUME IInv, Running, setValue(o) PROVE Abstract!ReferencesNext
  OBVIOUS
<1>1. GlobalHolds' = GlobalHolds \cup {<<GlobalName, o>>}
  BY DEF setValue, GlobalHolds
<1>2. Holds' = Holds \cup {<<GlobalName, o>>} /\ Watches' = Watches
  BY <1>1, SameNodes, SameScopes DEF setValue, Holds
<1>3. life[o] = "alive"
  BY GivenAlive DEF setValue, Alive
<1>4. Abstract!Hold(GlobalName, o)
  BY <1>2, <1>3 DEF Abstract!Hold, setValue, Holds, Watches
<1>5. QED  BY <1>4 DEF Abstract!ReferencesNext

LEMMA ForgetRefines ==
  ASSUME NEW o \in Objects PROVE IInv /\ Forget(o) => Abstract!ReferencesNext
<1> SUFFICES ASSUME IInv, Forget(o) PROVE Abstract!ReferencesNext
  OBVIOUS
<1> DEFINE R == {<<GlobalName, o>>}
<1>1. GlobalHolds' = GlobalHolds \ R
  BY DEF Forget, GlobalHolds
<1>2. R \cap ScopeHolds = {} /\ R \cap PointsTo({"strong"}) = {} /\ R \cap Watches = {}
  BY NamesDiffer DEF ScopeHolds, PointsTo, Watches
<1>3. Holds' = Holds \ R /\ Watches' = Watches \ R
  BY <1>1, <1>2, SameNodes, SameScopes DEF Forget, Holds
<1>4. Abstract!Release(R)
  BY <1>3 DEF Abstract!Release, Forget, Holds, Watches
<1>5. R \in SUBSET (Names \X Objects)
  BY DEF Names
<1>6. QED  BY <1>4, <1>5 DEF Abstract!ReferencesNext, Names

LEMMA PersistentInitRefines ==
  ASSUME NEW p \in Vars, NEW o \in Objects
  PROVE  IInv /\ Running /\ PersistentInit(p, o) => Abstract!ReferencesNext
<1> SUFFICES ASSUME IInv, Running, PersistentInit(p, o) PROVE Abstract!ReferencesNext
  OBVIOUS
<1>1. PICK n \in Nodes :
        /\ inner[p] = Null /\ kind[n] = "free"
        /\ inner' = [inner EXCEPT ![p] = n]
        /\ kind' = [kind EXCEPT ![n] = "strong"]
        /\ target' = [target EXCEPT ![n] = o]
        /\ UNCHANGED <<life, global, scopes>>
  BY DEF PersistentInit, Used
<1>2. TypeOK
  BY DEF IInv
<1>3. /\ inner'[p] = n /\ n # Null /\ kind'[n] = "strong" /\ target'[n] = o
      /\ \A q \in Vars : q # p => inner'[q] = inner[q]
      /\ \A q \in Vars : inner[q] # Null => /\ kind'[inner[q]] = kind[inner[q]]
                                          /\ target'[inner[q]] = target[inner[q]]
  BY <1>1, <1>2 DEF TypeOK, IInv, NodesOwned, Used
<1>4. PointsTo({"strong"})' = PointsTo({"strong"}) \cup {<<VarName(p), o>>}
  BY <1>1, <1>3 DEF PointsTo, Pointing
<1>5. Watches' = Watches
  BY <1>1, <1>3 DEF Watches, PointsTo, Pointing, WeakKinds
<1>6. Holds' = Holds \cup {<<VarName(p), o>>}
  BY <1>1, <1>4, SameScopes, SameGlobals DEF Holds
<1>7. life[o] = "alive"
  BY GivenAlive DEF PersistentInit, Alive
<1>8. Abstract!Hold(VarName(p), o)
  BY <1>1, <1>5, <1>6, <1>7 DEF Abstract!Hold, Holds, Watches
<1>9. QED  BY <1>8 DEF Abstract!ReferencesNext

LEMMA PersistentDeinitRefines ==
  ASSUME NEW p \in Vars, IInv, PersistentDeinit(p), inner[p] # Null
  PROVE  LET R == {<<VarName(p), target[inner[p]]>>}
         IN  /\ life' = life
             /\ Holds' = Holds \ R
             /\ Watches' = Watches \ R
<1> DEFINE n == inner[p]
           R == {<<VarName(p), target[n]>>}
<1>1. /\ inner' = [inner EXCEPT ![p] = Null]
      /\ kind' = [kind EXCEPT ![n] = "free"]
      /\ target' = [target EXCEPT ![n] = Null]
      /\ UNCHANGED <<life, global, scopes>>
  BY DEF PersistentDeinit, Freed
<1>2. TypeOK /\ n \in Nodes
  BY DEF IInv, TypeOK
<1>3. /\ inner'[p] = Null
      /\ \A q \in Vars : q # p => inner'[q] = inner[q]
      /\ \A q \in Vars : q # p /\ inner[q] # Null =>
            /\ kind'[inner[q]] = kind[inner[q]]
            /\ target'[inner[q]] = target[inner[q]]
  BY <1>1, <1>2 DEF TypeOK, IInv, NodesOwned
<1>4. ASSUME NEW k PROVE PointsTo(k)' = PointsTo(k) \ R
  BY <1>3, NamesDiffer DEF PointsTo, Pointing
<1>5. R \cap ScopeHolds = {} /\ R \cap GlobalHolds = {}
  BY NamesDiffer DEF ScopeHolds, GlobalHolds
<1>6. QED
  BY <1>1, <1>4, <1>5, SameScopes, SameGlobals DEF Holds, Watches

\* Weakening what is weak already changes nothing but the kind.
LEMMA SetWeakRefines ==
  ASSUME NEW p \in Vars, NEW k \in WeakKinds
  PROVE  IInv /\ Running /\ SetWeak(p, k) =>
           Abstract!ReferencesNext \/ UNCHANGED <<life, Holds, Watches>>
<1> SUFFICES ASSUME IInv, Running, SetWeak(p, k)
    PROVE  Abstract!ReferencesNext \/ UNCHANGED <<life, Holds, Watches>>
  OBVIOUS
<1> DEFINE n == inner[p]
           r == <<VarName(p), target[n]>>
<1>1. /\ n # Null
      /\ kind' = [kind EXCEPT ![n] = k]
      /\ UNCHANGED <<life, global, scopes, inner, target>>
  BY DEF SetWeak
<1>2. TypeOK /\ n \in Nodes /\ kind[n] \in {"strong"} \cup WeakKinds
  BY <1>1 DEF IInv, TypeOK, NodesOwned, Used, Running, Kinds
<1>3. target[n] \in Objects
  BY <1>1, <1>2, PointsToType DEF WeakKinds
<1>4. /\ kind'[n] = k
      /\ \A q \in Vars : q # p /\ inner[q] # Null => kind'[inner[q]] = kind[inner[q]]
  BY <1>1, <1>2 DEF TypeOK, IInv, NodesOwned
<1>5. PointsTo({"strong"})' = PointsTo({"strong"}) \ {r}
  <2>1. Pointing({"strong"})' = Pointing({"strong"}) \ {p}
    BY <1>1, <1>4 DEF Pointing, WeakKinds
  <2>2. QED  BY <1>1, <2>1, NamesDiffer DEF PointsTo
<1>6. Watches' = Watches \cup {r}
  <2>1. Pointing(WeakKinds)' = Pointing(WeakKinds) \cup {p}
    BY <1>1, <1>4 DEF Pointing
  <2>2. QED  BY <1>1, <2>1 DEF PointsTo, Watches
<1>7. r \notin ScopeHolds /\ r \notin GlobalHolds
  BY NamesDiffer DEF ScopeHolds, GlobalHolds
<1>8. Holds' = Holds \ {r}
  BY <1>1, <1>5, <1>7, SameScopes, SameGlobals DEF Holds
<1>9. CASE kind[n] = "strong"
  <2>1. r \in Holds
    BY <1>1, <1>9 DEF Holds, PointsTo, Pointing
  <2>2. Abstract!Weaken(VarName(p), target[n])
    BY <1>1, <1>6, <1>8, <2>1 DEF Abstract!Weaken, Holds, Watches
  <2>3. QED  BY <1>3, <2>2 DEF Abstract!ReferencesNext
<1>10. CASE kind[n] \in WeakKinds
  <2>1. r \in Watches
    BY <1>1, <1>10 DEF Watches, PointsTo, Pointing
  <2>2. r \notin PointsTo({"strong"})
    BY <1>10, NamesDiffer DEF PointsTo, Pointing, WeakKinds
  <2>3. r \notin Holds
    BY <1>7, <2>2 DEF Holds
  <2>4. QED  BY <1>1, <1>6, <1>8, <2>1, <2>3
<1>11. QED  BY <1>2, <1>9, <1>10

LEMMA AssignRefines ==
  ASSUME NEW p \in Vars, NEW q \in Vars
  PROVE  IInv /\ Assign(p, q) => Abstract!ReferencesNext
<1> SUFFICES ASSUME IInv, Assign(p, q) PROVE Abstract!ReferencesNext
  OBVIOUS
<1> DEFINE o == target[inner[p]]
           from == <<VarName(p), o>>
           to == <<VarName(q), o>>
<1>1. /\ inner[p] # Null /\ inner[q] = Null /\ p # q
      /\ kind[inner[p]] = "strong"
      /\ UNCHANGED <<life, global, scopes, nodeVars, casts>>
      /\ inner'[q] = inner[p] /\ inner'[p] = Null
      /\ \A r \in Vars : r # p /\ r # q => inner'[r] = inner[r]
  BY DEF Assign, IInv, TypeOK
<1>2. o \in Objects
  BY <1>1, PointsToType
<1>3. from \in PointsTo({"strong"}) /\ from \notin Watches
  BY <1>1, NamesDiffer DEF PointsTo, Pointing, Watches, WeakKinds
<1>4. PointsTo({"strong"})' = (PointsTo({"strong"}) \ {from}) \cup {to}
  <2>1. Pointing({"strong"})' = (Pointing({"strong"}) \ {p}) \cup {q}
    BY <1>1 DEF Pointing, nodeVars
  <2>2. \A r \in Vars : r # p /\ r # q => target'[inner'[r]] = target[inner[r]]
    BY <1>1 DEF nodeVars
  <2>3. target'[inner'[q]] = o
    BY <1>1 DEF nodeVars
  <2>4. q \notin Pointing({"strong"}) /\ p \in Pointing({"strong"})
    BY <1>1 DEF Pointing
  <2>5. QED  BY <1>1, <2>1, <2>2, <2>3, <2>4, NamesDiffer DEF PointsTo, Pointing
<1>5. Watches' = Watches
  <2>1. Pointing(WeakKinds)' = Pointing(WeakKinds)
    BY <1>1 DEF Pointing, nodeVars, WeakKinds
  <2>2. \A r \in Pointing(WeakKinds) : target'[inner'[r]] = target[inner[r]]
    BY <1>1 DEF Pointing, nodeVars, WeakKinds
  <2>3. QED  BY <2>1, <2>2 DEF Watches, PointsTo
<1>6. from \notin ScopeHolds /\ from \notin GlobalHolds
  BY NamesDiffer DEF ScopeHolds, GlobalHolds
<1>7. Holds' = (Holds \ {from}) \cup {to}
  BY <1>1, <1>4, <1>6, SameScopes, SameGlobals DEF Holds
<1>8. from \in Holds
  BY <1>3 DEF Holds
<1>9. Abstract!Rename(VarName(p), VarName(q), o)
  BY <1>1, <1>3, <1>5, <1>7, <1>8 DEF Abstract!Rename, Holds, Watches
<1>10. QED  BY <1>2, <1>9 DEF Abstract!ReferencesNext

LEMMA CollectRefines ==
  ASSUME NEW D \in SUBSET Objects
  PROVE  IInv /\ Running /\ Collect(D) => Abstract!ReferencesNext
<1> SUFFICES ASSUME IInv, Running, Collect(D) PROVE Abstract!ReferencesNext
  OBVIOUS
<1> DEFINE emptied == {n \in Nodes : target[n] \in D}
           cleared == {n \in emptied : kind[n] = "clearing"}
<1>1. /\ D \subseteq Alive \ Roots
      /\ life' = [o \in Objects |-> IF o \in D THEN "collected" ELSE life[o]]
      /\ inner' = [p \in Vars |->
                     IF \E n \in cleared : address[n] = p THEN Null ELSE inner[p]]
      /\ kind' = [n \in Nodes |-> IF n \in cleared THEN "free"
                                  ELSE IF n \in emptied THEN "dying" ELSE kind[n]]
      /\ target' = [n \in Nodes |-> IF n \in emptied THEN Null ELSE target[n]]
      /\ UNCHANGED <<global, scopes, casts>>
  BY DEF Collect
<1>2. TypeOK
  BY DEF IInv
\* A variable whose node is not emptied keeps it; the others point no more.
<1>3. ASSUME NEW p \in Vars, inner[p] # Null, inner[p] \notin emptied
      PROVE  /\ inner'[p] = inner[p] /\ inner[p] \in Nodes
             /\ kind'[inner[p]] = kind[inner[p]]
             /\ target'[inner[p]] = target[inner[p]]
  <2>1. inner[p] \in Nodes
    BY <1>2, <1>3 DEF TypeOK
  <2>2. ~ \E n \in cleared : address[n] = p
    BY <1>3 DEF IInv, NodesOwned, WeakKinds
  <2>3. QED  BY <1>1, <1>3, <2>1, <2>2
<1>4. ASSUME NEW p \in Vars, inner[p] \in emptied
      PROVE  inner'[p] = Null \/ kind'[inner'[p]] \in {"free", "dying"}
  BY <1>1, <1>4
<1>5. ASSUME NEW k \in SUBSET ({"strong"} \cup WeakKinds)
      PROVE  PointsTo(k)' = {r \in PointsTo(k) : r[2] \notin D}
  <2>1. \A p \in Vars : inner[p] = Null => inner'[p] = Null
    BY <1>1
  <2>2. Pointing(k)' = {p \in Pointing(k) : inner[p] \notin emptied}
    BY <1>3, <1>4, <2>1 DEF Pointing, WeakKinds
  <2>3. \A p \in Pointing(k) : inner[p] \in emptied <=> target[inner[p]] \in D
    BY <1>2 DEF Pointing, TypeOK
  <2>4. \A p \in Pointing(k)' : target'[inner'[p]] = target[inner[p]]
    BY <1>3, <2>2 DEF Pointing
  <2>5. \A p : <<VarName(p), target[inner[p]]>>[2] = target[inner[p]]
    OBVIOUS
  <2>6. QED  BY <2>2, <2>3, <2>4, <2>5 DEF PointsTo
<1>6. \A r \in Holds : r[2] \notin D
  <2>1. \A r \in GlobalHolds : r[2] \in Roots
    BY DEF GlobalHolds, Roots
  <2>2. \A r \in ScopeHolds : r[2] \in Roots
    BY DEF ScopeHolds, Roots, Locals
  <2>3. \A r \in PointsTo({"strong"}) : r[2] \in Roots
    BY <1>2 DEF PointsTo, Pointing, Roots, Strong, TypeOK
  <2>4. QED  BY <1>1, <2>1, <2>2, <2>3 DEF Holds
<1>7. PointsTo({"strong"})' = PointsTo({"strong"})
  <2>1. PointsTo({"strong"})' = {r \in PointsTo({"strong"}) : r[2] \notin D}
    BY <1>5
  <2>2. QED  BY <1>6, <2>1 DEF Holds
<1>8. Holds' = Holds
  BY <1>1, <1>7, SameScopes, SameGlobals DEF Holds
<1>9. Watches' = {r \in Watches : r[2] \notin D}
  BY <1>5 DEF Watches
<1>10. Abstract!Collect(D)
  BY <1>1, <1>6, <1>8, <1>9 DEF Abstract!Collect, Holds, Watches, Alive
<1>11. QED  BY <1>10 DEF Abstract!ReferencesNext

\* A finalizer takes away what was out of sight since the collection.
LEMMA FinalizeRefines ==
  ASSUME NEW n \in Nodes
  PROVE  IInv /\ Finalize(n) => UNCHANGED <<life, Holds, Watches>>
<1> SUFFICES ASSUME IInv, Finalize(n) PROVE UNCHANGED <<life, Holds, Watches>>
  OBVIOUS
<1> DEFINE p == address[n]
<1>1. p \in Vars /\ inner[p] = n /\ n # Null /\ kind[n] = "dying"
  BY DEF Finalize, IInv, NodesOwned
<1>2. <<VarName(p), target[n]>> \notin Holds \cup Watches
  <2>1. <<VarName(p), target[n]>> \notin PointsTo({"strong"}) \cup Watches
    BY <1>1, NamesDiffer DEF PointsTo, Pointing, Watches, WeakKinds
  <2>2. QED  BY <2>1, NamesDiffer DEF Holds, ScopeHolds, GlobalHolds
<1>3. QED  BY <1>1, <1>2, PersistentDeinitRefines DEF Finalize

LEMMA DeinitIsRelease ==
  ASSUME NEW p \in Vars
  PROVE  IInv /\ Running /\ PersistentDeinit(p) =>
           Abstract!ReferencesNext \/ UNCHANGED <<life, Holds, Watches>>
<1> SUFFICES ASSUME IInv, Running, PersistentDeinit(p), inner[p] # Null
    PROVE  Abstract!ReferencesNext
  BY SameNodes, SameScopes, SameGlobals DEF PersistentDeinit, vars, Holds
<1> DEFINE R == {<<VarName(p), target[inner[p]]>>}
<1>1. inner[p] \in Nodes /\ kind[inner[p]] # "dying"
  BY DEF IInv, TypeOK, Running
<1>2. R \in SUBSET (Names \X Objects)
  BY <1>1, PointsToType DEF Names
<1>3. Abstract!Release(R)
  BY PersistentDeinitRefines DEF Abstract!Release, Holds, Watches
<1>4. QED  BY <1>2, <1>3 DEF Abstract!ReferencesNext, Names

LEMMA StepRefines ==
  IInv /\ [Next]_vars => [Abstract!ReferencesNext]_<<life, Holds, Watches>>
<1> SUFFICES ASSUME IInv, [Next]_vars
    PROVE  Abstract!ReferencesNext \/ UNCHANGED <<life, Holds, Watches>>
  OBVIOUS
<1>1. ASSUME UNCHANGED <<life, global, scopes, inner, nodeVars>>
      PROVE  UNCHANGED <<life, Holds, Watches>>
  BY <1>1, SameNodes, SameScopes, SameGlobals DEF Holds
<1>2. CASE UNCHANGED vars
  BY <1>1, <1>2 DEF vars
<1>3. ASSUME NEW n \in Nodes, Finalize(n) PROVE UNCHANGED <<life, Holds, Watches>>
  BY <1>3, FinalizeRefines
<1>4. ASSUME Running, JavaScript PROVE Abstract!ReferencesNext
  BY <1>4, ForgetRefines, CollectRefines DEF JavaScript
<1>5. ASSUME Running, Embedder
      PROVE  Abstract!ReferencesNext \/ UNCHANGED <<life, Holds, Watches>>
  <2>1. CASE HandleScopeInit \/ HandleScopeDeinit
    BY <2>1, HandleScopeInitRefines, HandleScopeDeinitRefines
  <2>2. ASSUME NEW o \in Objects, ObjectInit(o) \/ getValue(o) \/ setValue(o)
        PROVE  Abstract!ReferencesNext
    BY <1>5, <2>2, ObjectInitRefines, getValueRefines, setValueRefines
  <2>3. ASSUME NEW o \in Objects, NEW p \in Vars, PersistentInit(p, o)
        PROVE  Abstract!ReferencesNext
    BY <1>5, <2>3, PersistentInitRefines
  <2>4. ASSUME NEW p \in Vars,
               PersistentDeinit(p) \/ setWeak(p) \/ setWeakFinalizer(p)
        PROVE  Abstract!ReferencesNext \/ UNCHANGED <<life, Holds, Watches>>
    BY <1>5, <2>4, DeinitIsRelease, SetWeakRefines
    DEF setWeak, setWeakFinalizer, WeakKinds
  <2>5. ASSUME NEW p \in Vars, castTo(p) PROVE UNCHANGED <<life, Holds, Watches>>
    BY <1>1, <2>5 DEF castTo
  <2>6. ASSUME NEW p \in Vars, NEW q \in Vars, Assign(p, q)
        PROVE  Abstract!ReferencesNext
    BY <2>6, AssignRefines
  <2>7. ASSUME NEW c \in casts, Discard(c) PROVE UNCHANGED <<life, Holds, Watches>>
    BY <1>1, <2>7 DEF Discard
  <2>8. QED
    BY <1>5, <2>1, <2>2, <2>3, <2>4, <2>5, <2>6, <2>7 DEF Embedder
<1>6. QED  BY <1>2, <1>3, <1>4, <1>5 DEF Next

\* Scopes, Persistents, weak Persistents and the collector behave as References
\* says: an object dies only when nobody holds it, and then vanishes from all
\* that watched it.
THEOREM HandlesImplementReferences == Spec => ImplementsReferences
<1>1. IInv /\ [Next]_vars => [Abstract!ReferencesNext]_(Abstract!referenceVars)
  BY StepRefines DEF Abstract!referenceVars, Holds, Watches
<1>2. QED
  BY InitRefines, Invariance, <1>1, PTL
  DEF Spec, ImplementsReferences, Abstract!ReferencesSpec
==============================================================================
