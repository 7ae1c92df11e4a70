------------------------- MODULE BackingStoresProofs -------------------------
(***************************************************************************)
(* The safety of BackingStores for any number of stores, SharedPtr         *)
(* variables, buffers and isolates, and that counting implements shared    *)
(* ownership.                                                              *)
(***************************************************************************)
EXTENDS BackingStores, FiniteSetTheorems, TLAPS

USE HoldersAssumption, StoresAssumption, HeapAssumption

------------------------------------------------------------------------------
(***************************************************************************)
(* How the set of holders of a store follows the shared_ptr objects.       *)
(***************************************************************************)
\* The holders of a store are finitely many, so they can be counted.
LEMMA HoldersFinite ==
    ASSUME NEW s
    PROVE  /\ IsFiniteSet(HoldersOf(s))
           /\ Cardinality(HoldersOf(s)) \in Nat
<1>1. IsFiniteSet(Holders)
  BY FS_Union DEF Holders
<1>2. HoldersOf(s) \in SUBSET Holders
  BY DEF HoldersOf
<1> QED
  BY <1>1, <1>2, FS_Subset, FS_CardinalityType

\* Taking part of a finite set away subtracts its size.
LEMMA CardinalityOfRest ==
    ASSUME NEW S, IsFiniteSet(S), NEW D \in SUBSET S
    PROVE  /\ Cardinality(D) \in Nat
           /\ Cardinality(D) <= Cardinality(S)
           /\ Cardinality(D) = Cardinality(S) => D = S
           /\ Cardinality(S \ D) = Cardinality(S) - Cardinality(D)
<1>1. /\ IsFiniteSet(D) /\ Cardinality(D) \in Nat
      /\ Cardinality(D) <= Cardinality(S)
      /\ Cardinality(D) = Cardinality(S) => D = S
  BY FS_Subset, FS_CardinalityType
<1>2. IsFiniteSet(S \ D) /\ Cardinality(S \ D) \in Nat
  BY FS_Subset, FS_CardinalityType
<1>3. S = (S \ D) \cup D /\ (S \ D) \cap D = {} /\ Cardinality({}) = 0
  BY FS_EmptySet
<1>4. Cardinality((S \ D) \cup D)
        = Cardinality(S \ D) + Cardinality(D) - Cardinality((S \ D) \cap D)
  BY <1>1, <1>2, FS_Union
<1> QED
  BY <1>1, <1>2, <1>3, <1>4

\* Filling an empty shared_ptr adds one holder to one store.
LEMMA HolderAdded ==
    ASSUME TypeOK, NEW s \in Stores, NEW h \in Holders, held[h] = NoStore,
           held' = [held EXCEPT ![h] = s]
    PROVE  /\ HoldersOf(s)' = HoldersOf(s) \cup {h}
           /\ Cardinality(HoldersOf(s)') = Cardinality(HoldersOf(s)) + 1
           /\ \A t \in Stores : t # s => HoldersOf(t)' = HoldersOf(t)
<1>1. HoldersOf(s)' = HoldersOf(s) \cup {h}
  BY DEF HoldersOf, TypeOK
<1>2. h \notin HoldersOf(s)
  BY DEF HoldersOf
<1>3. Cardinality(HoldersOf(s) \cup {h}) = Cardinality(HoldersOf(s)) + 1
  BY <1>2, HoldersFinite, FS_AddElement
<1>4. \A t \in Stores : t # s => HoldersOf(t)' = HoldersOf(t)
  BY DEF HoldersOf, TypeOK
<1> QED
  BY <1>1, <1>3, <1>4

\* Emptying a shared_ptr takes one holder from the store it pointed to.
LEMMA HolderRemoved ==
    ASSUME TypeOK, NEW s \in Stores, NEW h \in Holders, held[h] = s,
           held' = [held EXCEPT ![h] = NoStore]
    PROVE  /\ HoldersOf(s)' = HoldersOf(s) \ {h}
           /\ Cardinality(HoldersOf(s)') = Cardinality(HoldersOf(s)) - 1
           /\ \A t \in Stores : t # s => HoldersOf(t)' = HoldersOf(t)
<1>1. HoldersOf(s)' = HoldersOf(s) \ {h}
  BY DEF HoldersOf, TypeOK
<1>2. h \in HoldersOf(s)
  BY DEF HoldersOf
<1>3. Cardinality(HoldersOf(s) \ {h}) = Cardinality(HoldersOf(s)) - 1
  BY <1>2, HoldersFinite, FS_RemoveElement
<1>4. \A t \in Stores : t # s => HoldersOf(t)' = HoldersOf(t)
  BY DEF HoldersOf, TypeOK
<1> QED
  BY <1>1, <1>3, <1>4

\* A step that leaves the shared_ptr objects alone leaves the holders alone.
LEMMA HoldersUnchanged ==
    ASSUME UNCHANGED held
    PROVE  \A s : HoldersOf(s)' = HoldersOf(s)
BY DEF HoldersOf

\* A store that is not managed has no holder.
LEMMA OnlyManagedAreHeld ==
    ASSUME NoDangling, NEW s \in Stores, phase[s] # "managed"
    PROVE  HoldersOf(s) = {}
BY DEF NoDangling, HoldersOf

\* The first shared_ptr to a store nobody holds is counted once.
LEMMA FirstHolderCounts ==
    ASSUME TypeOK, CountMatches, NoDangling,
           NEW s \in Stores, NEW h \in Holders,
           phase[s] # "managed", held[h] = NoStore,
           phase' = [phase EXCEPT ![s] = "managed"],
           uses' = [uses EXCEPT ![s] = 1],
           held' = [held EXCEPT ![h] = s]
    PROVE  CountMatches' /\ NoDangling'
<1>1. NoDangling'
  BY DEF NoDangling, TypeOK
<1>2. Cardinality(HoldersOf(s)') = 1
  <2>1. HoldersOf(s) = {}
    BY OnlyManagedAreHeld
  <2>2. HoldersOf(s)' = HoldersOf(s) \cup {h}
    BY HolderAdded
  <2>3. Cardinality({h}) = 1
    BY FS_Singleton
  <2> QED
    BY <2>1, <2>2, <2>3
<1>3. CountMatches'
  <2> SUFFICES ASSUME NEW t \in Stores, phase'[t] = "managed"
               PROVE  uses'[t] = Cardinality(HoldersOf(t)') /\ uses'[t] > 0
    BY DEF CountMatches
  <2>1. CASE t = s
    BY <1>2, <2>1 DEF TypeOK
  <2>2. CASE t # s
    <3>1. HoldersOf(t)' = HoldersOf(t)
      BY <2>2, HolderAdded
    <3> QED
      BY <2>2, <3>1 DEF CountMatches, TypeOK
  <2> QED
    BY <2>1, <2>2
<1> QED
  BY <1>1, <1>3

\* A further shared_ptr to a managed store adds one to its count.
LEMMA FurtherHolderCounts ==
    ASSUME TypeOK, CountMatches, NoDangling,
           NEW s \in Stores, NEW h \in Holders,
           phase[s] = "managed", held[h] = NoStore,
           UNCHANGED phase,
           uses' = [uses EXCEPT ![s] = @ + 1],
           held' = [held EXCEPT ![h] = s]
    PROVE  CountMatches' /\ NoDangling'
<1>1. NoDangling'
  BY DEF NoDangling, TypeOK
<1>2. uses'[s] = Cardinality(HoldersOf(s)') /\ uses'[s] > 0
  <2>1. uses[s] = Cardinality(HoldersOf(s)) /\ uses[s] > 0 /\ uses[s] \in Nat
    BY DEF CountMatches, TypeOK
  <2>2. Cardinality(HoldersOf(s)') = Cardinality(HoldersOf(s)) + 1
    BY HolderAdded
  <2>3. uses'[s] = uses[s] + 1
    BY DEF TypeOK
  <2> QED
    BY <2>1, <2>2, <2>3
<1>3. CountMatches'
  <2> SUFFICES ASSUME NEW t \in Stores, phase'[t] = "managed"
               PROVE  uses'[t] = Cardinality(HoldersOf(t)') /\ uses'[t] > 0
    BY DEF CountMatches
  <2>1. CASE t = s
    BY <1>2, <2>1
  <2>2. CASE t # s
    <3>1. HoldersOf(t)' = HoldersOf(t)
      BY <2>2, HolderAdded
    <3> QED
      BY <2>2, <3>1 DEF CountMatches, TypeOK
  <2> QED
    BY <2>1, <2>2
<1> QED
  BY <1>1, <1>3

\* A shared_ptr that goes takes one count with it; with the last count the
\* store leaves "managed" and nothing points to it any more.
LEMMA GoneHolderCounts ==
    ASSUME TypeOK, CountMatches, NoDangling,
           NEW s \in Stores, NEW h \in Holders, NEW end \in {"dying", "freed"},
           held[h] = s,
           held' = [held EXCEPT ![h] = NoStore],
           uses' = [uses EXCEPT ![s] = @ - 1],
           phase' = IF uses[s] = 1 THEN [phase EXCEPT ![s] = end] ELSE phase
    PROVE  /\ phase[s] = "managed"
           /\ uses'[s] \in Nat
           /\ CountMatches' /\ NoDangling'
<1>1. phase[s] = "managed" /\ uses[s] = Cardinality(HoldersOf(s)) /\ uses[s] > 0
  BY DEF NoDangling, CountMatches
<1>2. /\ HoldersOf(s)' = HoldersOf(s) \ {h}
      /\ Cardinality(HoldersOf(s)') = Cardinality(HoldersOf(s)) - 1
      /\ \A t \in Stores : t # s => HoldersOf(t)' = HoldersOf(t)
  BY HolderRemoved
<1>3. uses'[s] = Cardinality(HoldersOf(s)') /\ uses'[s] \in Nat
  BY <1>1, <1>2, HoldersFinite DEF TypeOK
<1>4. CountMatches'
  <2> SUFFICES ASSUME NEW t \in Stores, phase'[t] = "managed"
               PROVE  uses'[t] = Cardinality(HoldersOf(t)') /\ uses'[t] > 0
    BY DEF CountMatches
  <2>1. CASE t = s
    BY <1>1, <1>3, <2>1 DEF TypeOK
  <2>2. CASE t # s
    BY <1>2, <2>2 DEF CountMatches, TypeOK
  <2> QED
    BY <2>1, <2>2
<1>5. NoDangling'
  <2> SUFFICES ASSUME NEW g \in Holders, held'[g] # NoStore
               PROVE  phase'[held'[g]] = "managed"
    BY DEF NoDangling
  <2>1. g # h /\ held'[g] = held[g] /\ phase[held[g]] = "managed"
    BY DEF NoDangling, TypeOK
  <2>2. CASE held[g] = s
    <3>1. g \in HoldersOf(s)'
      BY <2>1, <2>2 DEF HoldersOf
    <3>2. Cardinality(HoldersOf(s)') # 0
      <4>1. IsFiniteSet(HoldersOf(s)')
        BY <1>2, HoldersFinite, FS_RemoveElement
      <4> QED
        BY <3>1, <4>1, FS_EmptySet
    <3> QED
      BY <1>1, <1>3, <2>1, <2>2, <3>2 DEF TypeOK
  <2>3. CASE held[g] # s
    BY <2>1, <2>3 DEF TypeOK
  <2> QED
    BY <2>2, <2>3
<1> QED
  BY <1>1, <1>3, <1>4, <1>5

------------------------------------------------------------------------------
(***************************************************************************)
(* One lemma per action: it preserves the inductive invariant.             *)
(***************************************************************************)
\* The allocator comes first and goes when nobody uses it.
LEMMA AllocatorStep ==
    ASSUME IInv,
           createDefaultArrayBufferAllocator \/ destroyArrayBufferAllocator
    PROVE  IInv'
<1>1. UNCHANGED <<phase, uses, held, reachable, sweeper, isolate>>
  BY DEF createDefaultArrayBufferAllocator, destroyArrayBufferAllocator, storeVars
<1>2. TypeOK'
  BY <1>1 DEF IInv, TypeOK, HostStates, createDefaultArrayBufferAllocator,
              destroyArrayBufferAllocator
<1>3. CountMatches' /\ NoDangling'
  BY <1>1, HoldersUnchanged DEF IInv, CountMatches, NoDangling
<1>4. SweepersOwnTheDying' /\ BuffersAreHoused'
  BY <1>1 DEF IInv, SweepersOwnTheDying, BuffersAreHoused
<1>5. AllocatorIsNeeded'
  BY <1>1 DEF IInv, AllocatorIsNeeded, AllocatorUnused, TypeOK, HostStates,
              createDefaultArrayBufferAllocator, destroyArrayBufferAllocator
<1> QED
  BY <1>2, <1>3, <1>4, <1>5 DEF IInv

\* A new isolate owns nothing yet.
LEMMA IsolateInitStep ==
    ASSUME IInv, NEW i \in Isolates, IsolateInit(i)
    PROVE  IInv'
<1>1. /\ UNCHANGED <<phase, uses, held, reachable, sweeper, allocator>>
      /\ isolate' = [isolate EXCEPT ![i] = "up"]
  BY DEF IsolateInit, storeVars
<1>2. TypeOK'
  BY <1>1 DEF IInv, TypeOK, HostStates
<1>3. CountMatches' /\ NoDangling'
  BY <1>1, HoldersUnchanged DEF IInv, CountMatches, NoDangling
<1>4. SweepersOwnTheDying' /\ BuffersAreHoused' /\ AllocatorIsNeeded'
  BY <1>1 DEF IInv, TypeOK, SweepersOwnTheDying, BuffersAreHoused,
              AllocatorIsNeeded, IsolateInit
<1> QED
  BY <1>2, <1>3, <1>4 DEF IInv

\* Disposing of an isolate takes exactly its buffers from every store's holders.
LEMMA IsolateDeinitStep ==
    ASSUME IInv, NEW i \in Isolates, IsolateDeinit(i)
    PROVE  IInv'
<1> DEFINE dropped(s) == {b \in BuffersIn(i) : held[b] = s}
<1>0. BuffersIn(i) \subseteq Holders
  BY DEF BuffersIn, Holders
<1>1. \A s \in Stores : /\ HoldersOf(s)' = HoldersOf(s) \ dropped(s)
                        /\ dropped(s) \subseteq HoldersOf(s)
  BY <1>0 DEF IsolateDeinit, HoldersOf, IInv, TypeOK
<1>2. \A s \in Stores :
         /\ Cardinality(dropped(s)) \in Nat
         /\ Cardinality(dropped(s)) <= Cardinality(HoldersOf(s))
         /\ (Cardinality(dropped(s)) = Cardinality(HoldersOf(s))
               => dropped(s) = HoldersOf(s))
         /\ Cardinality(HoldersOf(s)')
              = Cardinality(HoldersOf(s)) - Cardinality(dropped(s))
  <2> TAKE s \in Stores
  <2> HIDE DEF dropped
  <2> QED
    BY <1>1, HoldersFinite, CardinalityOfRest
<1>3. \A s \in Stores : phase[s] # "managed" => dropped(s) = {}
  BY <1>1, OnlyManagedAreHeld DEF IInv
<1>4. \A s \in Stores :
         /\ phase[s] = "managed" =>
               uses[s] = Cardinality(HoldersOf(s)) /\ uses[s] > 0
         /\ uses[s] \in Nat
  BY DEF IInv, CountMatches, TypeOK
<1>5. \A s \in Stores : uses'[s] = uses[s] - Cardinality(dropped(s))
  BY DEF IsolateDeinit
<1>6. \A s \in Stores : uses'[s] \in Nat
  <2> TAKE s \in Stores
  <2> HIDE DEF dropped
  <2>1. CASE phase[s] = "managed"
    BY <1>2, <1>4, <1>5, <2>1
  <2>2. CASE phase[s] # "managed"
    <3>1. Cardinality(dropped(s)) = 0
      BY <1>3, <2>2, FS_EmptySet
    <3> QED
      BY <1>4, <1>5, <3>1
  <2> QED
    BY <2>1, <2>2
<1>7. \A s \in Stores :
         phase'[s] = IF \/ dropped(s) # {} /\ uses[s] = Cardinality(dropped(s))
                        \/ sweeper[i] = s
                     THEN "freed" ELSE phase[s]
  BY DEF IsolateDeinit
<1>8. TypeOK'
  <2>1. uses' = [s \in Stores |-> uses[s] - Cardinality(dropped(s))]
    BY DEF IsolateDeinit
  <2>2. uses' \in [Stores -> Nat]
    BY <1>5, <1>6, <2>1
  <2>3. phase' \in [Stores -> Phases]
    BY DEF IsolateDeinit, IInv, TypeOK, Phases
  <2>4. held' \in [Holders -> Stores \cup {NoStore}]
    BY DEF IsolateDeinit, IInv, TypeOK
  <2>5. /\ reachable' \subseteq Buffers
        /\ sweeper' \in [Isolates -> Stores \cup {NoStore}]
        /\ isolate' \in [Isolates -> HostStates]
        /\ allocator' \in HostStates
    BY DEF IsolateDeinit, IInv, TypeOK, HostStates
  <2> QED
    BY <2>2, <2>3, <2>4, <2>5 DEF TypeOK
<1>9. CountMatches'
  <2> SUFFICES ASSUME NEW s \in Stores, phase'[s] = "managed"
               PROVE  uses'[s] = Cardinality(HoldersOf(s)') /\ uses'[s] > 0
    BY DEF CountMatches
  <2>1. phase[s] = "managed" /\ ~(dropped(s) # {} /\ uses[s] = Cardinality(dropped(s)))
    BY <1>7
  <2> HIDE DEF dropped
  <2>2. /\ Cardinality(dropped(s)) \in Nat
        /\ Cardinality(HoldersOf(s)')
             = Cardinality(HoldersOf(s)) - Cardinality(dropped(s))
        /\ Cardinality(dropped(s)) <= Cardinality(HoldersOf(s))
    BY <1>2
  <2>3. dropped(s) = {} => Cardinality(dropped(s)) = 0
    BY FS_EmptySet
  <2>4. uses[s] = Cardinality(HoldersOf(s)) /\ uses[s] > 0 /\ uses[s] \in Nat
    BY <1>4, <2>1
  <2>5. Cardinality(dropped(s)) < uses[s]
    BY <2>1, <2>2, <2>3, <2>4
  <2> QED
    BY <1>5, <2>2, <2>4, <2>5
<1>10. NoDangling'
  <2> SUFFICES ASSUME NEW h \in Holders, held'[h] # NoStore
               PROVE  phase'[held'[h]] = "managed"
    BY DEF NoDangling
  <2>1. h \notin BuffersIn(i) /\ held'[h] = held[h] /\ held[h] \in Stores
    BY DEF IsolateDeinit, IInv, TypeOK
  <2>2. phase[held[h]] = "managed"
    BY <2>1 DEF IInv, NoDangling
  <2>3. h \in HoldersOf(held[h]) /\ h \notin dropped(held[h])
    BY <2>1 DEF HoldersOf
  <2>4. dropped(held[h]) # HoldersOf(held[h])
    BY <2>3
  <2>5. sweeper[i] # held[h]
    BY <2>1, <2>2 DEF IInv, SweepersOwnTheDying
  <2>6. uses[held[h]] # Cardinality(dropped(held[h]))
    BY <1>2, <1>4, <2>1, <2>2, <2>4
  <2> QED
    BY <1>7, <2>1, <2>2, <2>5, <2>6
<1>11. SweepersOwnTheDying'
  <2>1. sweeper' = [sweeper EXCEPT ![i] = NoStore]
    BY DEF IsolateDeinit
  <2>2. isolate' = [isolate EXCEPT ![i] = "disposed"]
    BY DEF IsolateDeinit
  <2>3. ASSUME NEW j \in Isolates, sweeper'[j] # NoStore
        PROVE  isolate'[j] = "up" /\ phase'[sweeper'[j]] = "dying"
    <3>1. j # i /\ sweeper'[j] = sweeper[j] /\ sweeper[j] \in Stores
      BY <2>1, <2>3 DEF IInv, TypeOK
    <3>2. isolate[j] = "up" /\ phase[sweeper[j]] = "dying"
      BY <2>3, <3>1 DEF IInv, SweepersOwnTheDying
    <3>3. sweeper[i] # sweeper[j] /\ dropped(sweeper[j]) = {}
      BY <1>3, <2>3, <3>1, <3>2 DEF IInv, SweepersOwnTheDying
    <3> QED
      BY <1>7, <2>2, <3>1, <3>2, <3>3 DEF IInv, TypeOK
  <2>4. \A j, k \in Isolates :
           sweeper'[j] # NoStore /\ sweeper'[j] = sweeper'[k] => j = k
    BY <2>1 DEF IInv, TypeOK, SweepersOwnTheDying
  <2>5. \A s \in Stores : phase'[s] = "dying" => \E j \in Isolates : sweeper'[j] = s
    BY <1>7, <2>1 DEF IInv, TypeOK, SweepersOwnTheDying
  <2> QED
    BY <2>3, <2>4, <2>5 DEF SweepersOwnTheDying
<1>12. BuffersAreHoused'
  <2>1. \A b \in Buffers : b \in Holders
    BY DEF Holders
  <2> QED
    BY <2>1 DEF IsolateDeinit, BuffersIn, BuffersAreHoused, IInv, TypeOK
<1>13. AllocatorIsNeeded'
  <2>1. \A p \in Slots : p \in Holders /\ p \notin BuffersIn(i)
    BY DEF Holders, BuffersIn
  <2> QED
    BY <2>1 DEF IsolateDeinit, AllocatorIsNeeded, IInv, TypeOK
<1> QED
  BY <1>8, <1>9, <1>10, <1>11, <1>12, <1>13 DEF IInv

\* A store that is allocated and not yet counted has no holder.
LEMMA BackingStoreInitStep ==
    ASSUME IInv, NEW i \in Isolates, NEW s \in Stores, BackingStoreInit(i, s)
    PROVE  IInv'
<1>1. /\ UNCHANGED <<uses, held, reachable, sweeper, isolate, allocator>>
      /\ phase[s] = "unborn" /\ phase' = [phase EXCEPT ![s] = "unmanaged"]
  BY DEF BackingStoreInit, hostVars
<1>2. TypeOK'
  BY <1>1 DEF IInv, TypeOK, Phases
<1>3. CountMatches' /\ NoDangling'
  BY <1>1, HoldersUnchanged DEF IInv, CountMatches, NoDangling, TypeOK
<1>4. SweepersOwnTheDying' /\ BuffersAreHoused' /\ AllocatorIsNeeded'
  BY <1>1 DEF IInv, TypeOK, SweepersOwnTheDying, BuffersAreHoused,
              AllocatorIsNeeded
<1> QED
  BY <1>2, <1>3, <1>4 DEF IInv

\* The first SharedPtr of a store.
LEMMA ToSharedPtrStep ==
    ASSUME IInv, NEW s \in Stores, NEW p \in Slots, toSharedPtr(s, p)
    PROVE  IInv'
<1>1. /\ UNCHANGED <<reachable, sweeper, isolate, allocator>>
      /\ allocator = "up" /\ phase[s] = "unmanaged" /\ held[p] = NoStore
      /\ phase' = [phase EXCEPT ![s] = "managed"]
      /\ uses' = [uses EXCEPT ![s] = 1]
      /\ held' = [held EXCEPT ![p] = s]
  BY DEF toSharedPtr, hostVars
<1>2. p \in Holders /\ p \notin Buffers
  BY DEF Holders
<1>3. TypeOK'
  BY <1>1, <1>2 DEF IInv, TypeOK, Phases
<1>4. CountMatches' /\ NoDangling'
  BY <1>1, <1>2, FirstHolderCounts DEF IInv
<1>5. SweepersOwnTheDying'
  BY <1>1 DEF IInv, TypeOK, SweepersOwnTheDying
<1>6. BuffersAreHoused' /\ AllocatorIsNeeded'
  BY <1>1, <1>2 DEF IInv, TypeOK, Holders, BuffersAreHoused, AllocatorIsNeeded
<1> QED
  BY <1>3, <1>4, <1>5, <1>6 DEF IInv

\* reset gives back the count that the SharedPtr stood for, or does nothing.
LEMMA SharedPtrResetStep ==
    ASSUME IInv, NEW p \in Slots, sharedPtrReset(p), held[p] # NoStore
    PROVE  IInv'
<1>1. /\ UNCHANGED <<reachable, sweeper, isolate, allocator>>
      /\ held' = [held EXCEPT ![p] = NoStore]
      /\ uses' = [uses EXCEPT ![held[p]] = @ - 1]
      /\ phase' = IF uses[held[p]] = 1
                  THEN [phase EXCEPT ![held[p]] = "freed"] ELSE phase
  BY DEF sharedPtrReset, hostVars
<1>2. p \in Holders /\ p \notin Buffers /\ held[p] \in Stores
  BY DEF Holders, IInv, TypeOK
<1>3. /\ phase[held[p]] = "managed" /\ uses'[held[p]] \in Nat
      /\ CountMatches' /\ NoDangling'
  BY <1>1, <1>2, GoneHolderCounts DEF IInv
<1>4. TypeOK'
  BY <1>1, <1>2, <1>3 DEF IInv, TypeOK, Phases
<1>5. SweepersOwnTheDying'
  BY <1>1, <1>2, <1>3 DEF IInv, TypeOK, SweepersOwnTheDying
<1>6. BuffersAreHoused' /\ AllocatorIsNeeded'
  BY <1>1, <1>2 DEF IInv, TypeOK, Holders, BuffersAreHoused, AllocatorIsNeeded
<1> QED
  BY <1>3, <1>4, <1>5, <1>6 DEF IInv

\* A buffer with a store of its own is that store's first holder.
LEMMA ArrayBufferInitStep ==
    ASSUME IInv, NEW s \in Stores, NEW b \in Buffers, ArrayBufferInit(s, b)
    PROVE  IInv'
<1>1. /\ UNCHANGED <<sweeper, isolate, allocator>>
      /\ isolate[Heap[b]] = "up" /\ phase[s] = "unborn" /\ held[b] = NoStore
      /\ phase' = [phase EXCEPT ![s] = "managed"]
      /\ uses' = [uses EXCEPT ![s] = 1]
      /\ held' = [held EXCEPT ![b] = s]
      /\ reachable' = reachable \cup {b}
  BY DEF ArrayBufferInit, hostVars
<1>2. b \in Holders /\ b \notin Slots
  BY DEF Holders
<1>3. TypeOK'
  BY <1>1, <1>2 DEF IInv, TypeOK, Phases
<1>4. CountMatches' /\ NoDangling'
  BY <1>1, <1>2, FirstHolderCounts DEF IInv
<1>5. SweepersOwnTheDying'
  BY <1>1 DEF IInv, TypeOK, SweepersOwnTheDying
<1>6. BuffersAreHoused' /\ AllocatorIsNeeded'
  BY <1>1, <1>2 DEF IInv, TypeOK, Holders, BuffersAreHoused, AllocatorIsNeeded
<1> QED
  BY <1>3, <1>4, <1>5, <1>6 DEF IInv

\* A buffer made from a SharedPtr, and a SharedPtr taken from a buffer, are
\* further holders of a store that has one already.
LEMMA ShareStep ==
    ASSUME IInv, NEW p \in Slots, NEW b \in Buffers,
           initWithBackingStore(p, b) \/ getBackingStore(b, p)
    PROVE  IInv'
<1> USE DEF initWithBackingStore, getBackingStore, hostVars
<1>1. b \in Holders /\ b \notin Slots /\ p \in Holders /\ p \notin Buffers
  BY DEF Holders
<1>2. isolate[Heap[b]] = "up" /\ allocator = "up" /\ Heap[b] \in Isolates
  BY DEF IInv, AllocatorIsNeeded
<1>3. PICK from \in Holders, to \in Holders :
         /\ held[from] # NoStore /\ held[to] = NoStore
         /\ held' = [held EXCEPT ![to] = held[from]]
         /\ uses' = [uses EXCEPT ![held[from]] = @ + 1]
         /\ to \in {b, p}
         /\ reachable' = IF to = b THEN reachable \cup {b} ELSE reachable
  <2>1. CASE initWithBackingStore(p, b)
    BY <1>1, <2>1
  <2>2. CASE getBackingStore(b, p)
    BY <1>1, <2>2 DEF IInv, BuffersAreHoused
  <2> QED
    BY <2>1, <2>2
<1>4. UNCHANGED <<phase, sweeper, isolate, allocator>>
  OBVIOUS
<1>5. held[from] \in Stores /\ phase[held[from]] = "managed"
  BY <1>3 DEF IInv, TypeOK, NoDangling
<1> USE DEF initWithBackingStore
<1>6. TypeOK'
  BY <1>3, <1>4, <1>5 DEF IInv, TypeOK
<1>7. CountMatches' /\ NoDangling'
  BY <1>3, <1>4, <1>5, FurtherHolderCounts DEF IInv
<1>8. SweepersOwnTheDying'
  BY <1>4 DEF IInv, SweepersOwnTheDying
<1>9. BuffersAreHoused' /\ AllocatorIsNeeded'
  BY <1>1, <1>2, <1>3, <1>4
     DEF IInv, TypeOK, Holders, BuffersAreHoused, AllocatorIsNeeded
<1> QED
  BY <1>6, <1>7, <1>8, <1>9 DEF IInv

\* A buffer that becomes garbage still holds its store.
LEMMA UnreachStep ==
    ASSUME IInv, NEW b \in Buffers, Unreach(b)
    PROVE  IInv'
<1>1. /\ UNCHANGED <<phase, uses, held, sweeper, isolate, allocator>>
      /\ reachable' = reachable \ {b}
  BY DEF Unreach, storeVars, hostVars
<1>2. CountMatches' /\ NoDangling'
  BY <1>1, HoldersUnchanged DEF IInv, CountMatches, NoDangling
<1>3. TypeOK' /\ SweepersOwnTheDying' /\ BuffersAreHoused' /\ AllocatorIsNeeded'
  BY <1>1 DEF IInv, TypeOK, SweepersOwnTheDying, BuffersAreHoused,
              AllocatorIsNeeded
<1> QED
  BY <1>2, <1>3 DEF IInv

\* Sweeping a buffer gives its count back; the last one leaves the store in the
\* hands of that isolate's sweeper.
LEMMA SweepBufferStep ==
    ASSUME IInv, NEW b \in Buffers, SweepBuffer(b)
    PROVE  IInv'
<1>1. /\ UNCHANGED <<reachable, isolate, allocator>>
      /\ isolate[Heap[b]] = "up" /\ sweeper[Heap[b]] = NoStore
      /\ held[b] # NoStore /\ b \notin reachable
      /\ held' = [held EXCEPT ![b] = NoStore]
      /\ uses' = [uses EXCEPT ![held[b]] = @ - 1]
      /\ phase' = IF uses[held[b]] = 1
                  THEN [phase EXCEPT ![held[b]] = "dying"] ELSE phase
      /\ sweeper' = IF uses[held[b]] = 1
                    THEN [sweeper EXCEPT ![Heap[b]] = held[b]] ELSE sweeper
  BY DEF SweepBuffer, hostVars
<1>2. b \in Holders /\ b \notin Slots /\ held[b] \in Stores /\ Heap[b] \in Isolates
  BY <1>1 DEF Holders, IInv, TypeOK
<1>3. /\ phase[held[b]] = "managed" /\ uses'[held[b]] \in Nat
      /\ CountMatches' /\ NoDangling'
  BY <1>1, <1>2, GoneHolderCounts DEF IInv
<1>4. TypeOK'
  BY <1>1, <1>2, <1>3 DEF IInv, TypeOK, Phases
<1>5. SweepersOwnTheDying'
  <2>1. CASE uses[held[b]] = 1
    BY <1>1, <1>2, <1>3, <2>1 DEF IInv, TypeOK, SweepersOwnTheDying
  <2>2. CASE uses[held[b]] # 1
    BY <1>1, <2>2 DEF IInv, SweepersOwnTheDying
  <2> QED
    BY <2>1, <2>2
<1>6. BuffersAreHoused' /\ AllocatorIsNeeded'
  BY <1>1, <1>2 DEF IInv, TypeOK, Holders, BuffersAreHoused, AllocatorIsNeeded
<1> QED
  BY <1>3, <1>4, <1>5, <1>6 DEF IInv

\* The destructor that the sweeper runs ends.
LEMMA SweepFreeStep ==
    ASSUME IInv, NEW i \in Isolates, SweepFree(i)
    PROVE  IInv'
<1>1. /\ UNCHANGED <<uses, held, reachable, isolate, allocator>>
      /\ sweeper[i] # NoStore
      /\ phase' = [phase EXCEPT ![sweeper[i]] = "freed"]
      /\ sweeper' = [sweeper EXCEPT ![i] = NoStore]
  BY DEF SweepFree, hostVars
<1>2. sweeper[i] \in Stores /\ phase[sweeper[i]] = "dying"
  BY <1>1 DEF IInv, TypeOK, SweepersOwnTheDying
<1>3. TypeOK'
  BY <1>1 DEF IInv, TypeOK, Phases
<1>4. CountMatches'
  BY <1>1, <1>2, HoldersUnchanged DEF IInv, CountMatches, TypeOK
<1>5. NoDangling'
  BY <1>1, <1>2 DEF IInv, NoDangling, TypeOK
<1>6. SweepersOwnTheDying'
  BY <1>1, <1>2 DEF IInv, TypeOK, SweepersOwnTheDying
<1>7. BuffersAreHoused' /\ AllocatorIsNeeded'
  BY <1>1 DEF IInv, BuffersAreHoused, AllocatorIsNeeded
<1> QED
  BY <1>3, <1>4, <1>5, <1>6, <1>7 DEF IInv

------------------------------------------------------------------------------
(***************************************************************************)
(* The theorems.                                                           *)
(***************************************************************************)
\* The inductive invariant holds in every reachable state.
LEMMA Invariance == Spec => []IInv
<1>1. Init => IInv
  <2> SUFFICES ASSUME Init PROVE IInv
    OBVIOUS
  <2> USE DEF Init
  <2>1. TypeOK
    BY DEF TypeOK, Phases, HostStates
  <2>2. CountMatches /\ NoDangling /\ BuffersAreHoused /\ AllocatorIsNeeded
    BY DEF CountMatches, NoDangling, BuffersAreHoused, AllocatorIsNeeded, Holders
  <2>3. SweepersOwnTheDying
    BY DEF SweepersOwnTheDying
  <2> QED
    BY <2>1, <2>2, <2>3 DEF IInv
<1>2. IInv /\ [Next]_vars => IInv'
  <2> SUFFICES ASSUME IInv, [Next]_vars PROVE IInv'
    OBVIOUS
  <2>1. ASSUME UNCHANGED vars PROVE IInv'
    <3>1. UNCHANGED <<phase, uses, held, reachable, sweeper, isolate, allocator>>
      BY <2>1 DEF vars
    <3>2. CountMatches' /\ NoDangling'
      BY <3>1, HoldersUnchanged DEF IInv, CountMatches, NoDangling
    <3>3. TypeOK' /\ SweepersOwnTheDying' /\ BuffersAreHoused' /\ AllocatorIsNeeded'
      BY <3>1 DEF IInv, TypeOK, SweepersOwnTheDying, BuffersAreHoused,
                  AllocatorIsNeeded
    <3> QED
      BY <3>2, <3>3 DEF IInv
  <2>2. CASE createDefaultArrayBufferAllocator \/ destroyArrayBufferAllocator
    BY <2>2, AllocatorStep
  <2>3. ASSUME NEW i \in Isolates,
               IsolateInit(i) \/ IsolateDeinit(i) \/ SweepFree(i)
        PROVE  IInv'
    BY <2>3, IsolateInitStep, IsolateDeinitStep, SweepFreeStep
  <2>4. ASSUME NEW i \in Isolates, NEW s \in Stores, BackingStoreInit(i, s)
        PROVE  IInv'
    BY <2>4, BackingStoreInitStep
  <2>5. ASSUME NEW s \in Stores, NEW p \in Slots, toSharedPtr(s, p)
        PROVE  IInv'
    BY <2>5, ToSharedPtrStep
  <2>6. ASSUME NEW s \in Stores, NEW b \in Buffers, ArrayBufferInit(s, b)
        PROVE  IInv'
    BY <2>6, ArrayBufferInitStep
  <2>7. ASSUME NEW p \in Slots, sharedPtrReset(p)
        PROVE  IInv'
    <3>1. CASE held[p] = NoStore
      BY <2>1, <2>7, <3>1 DEF sharedPtrReset
    <3>2. CASE held[p] # NoStore
      BY <2>7, <3>2, SharedPtrResetStep
    <3> QED
      BY <3>1, <3>2
  <2>8. ASSUME NEW p \in Slots, NEW b \in Buffers,
               initWithBackingStore(p, b) \/ getBackingStore(b, p)
        PROVE  IInv'
    BY <2>8, ShareStep
  <2>9. ASSUME NEW b \in Buffers, Unreach(b) \/ SweepBuffer(b)
        PROVE  IInv'
    BY <2>9, UnreachStep, SweepBufferStep
  <2> QED
    BY <2>1, <2>2, <2>3, <2>4, <2>5, <2>6, <2>7, <2>8, <2>9 DEF Next
<1> QED
  BY <1>1, <1>2, PTL DEF Spec

\* Every variable keeps its type; in particular no use count goes below zero.
THEOREM TypeCorrect == Spec => []TypeOK
<1>1. IInv => TypeOK
  BY DEF IInv
<1> QED
  BY <1>1, Invariance, PTL

\* The use count of a managed store is the number of SharedPtr variables and
\* buffers that own it, however many there are.
THEOREM CountIsExact == Spec => []CountMatches
<1>1. IInv => CountMatches
  BY DEF IInv
<1> QED
  BY <1>1, Invariance, PTL

\* No SharedPtr variable and no buffer points to a store whose destructor has
\* run or is running.
THEOREM NothingDangles == Spec => []NoDangling
<1>1. IInv => NoDangling
  BY DEF IInv
<1> QED
  BY <1>1, Invariance, PTL

\* No destructor can still run once the allocator is destroyed: a store that
\* was managed until then would have a holder, and a holder keeps an isolate
\* in use or a SharedPtr filled.
THEOREM AllocatorOutlives == Spec => []AllocatorOutlivesStores
<1>1. IInv => AllocatorOutlivesStores
  <2> SUFFICES ASSUME IInv, allocator = "disposed", NEW s \in Stores
               PROVE  phase[s] \in {"unborn", "unmanaged", "freed"}
    BY DEF AllocatorOutlivesStores
  <2>1. \A i \in Isolates : isolate[i] # "up"
    BY DEF IInv, AllocatorIsNeeded
  <2>2. phase[s] # "dying"
    BY <2>1 DEF IInv, TypeOK, SweepersOwnTheDying
  <2>3. \A h \in Holders : held[h] = NoStore
    BY <2>1 DEF IInv, AllocatorIsNeeded, BuffersAreHoused, Holders
  <2>4. HoldersOf(s) = {}
    BY <2>3 DEF HoldersOf
  <2>5. Cardinality(HoldersOf(s)) = 0
    BY <2>4, FS_EmptySet
  <2>6. phase[s] # "managed"
    BY <2>5 DEF IInv, CountMatches
  <2> QED
    BY <2>2, <2>6 DEF IInv, TypeOK, Phases
<1> QED
  BY <1>1, Invariance, PTL

------------------------------------------------------------------------------
(***************************************************************************)
(* Counting implements shared ownership.                                   *)
(***************************************************************************)
\* A step that leaves phases and shared_ptr objects alone is invisible.
LEMMA InvisibleStep ==
    ASSUME UNCHANGED <<phase, held>>
    PROVE  UNCHANGED <<StatusOf, OwnersOf>>
BY HoldersUnchanged DEF StatusOf, OwnersOf

\* The status of a store depends on its phase alone.
LEMMA StatusByPhase ==
    ASSUME NEW s \in Stores, phase[s] \in Phases
    PROVE  /\ phase[s] = "unborn" => StatusOf[s] = "unborn"
           /\ phase[s] = "unmanaged" => StatusOf[s] = "unowned"
           /\ phase[s] = "managed" <=> StatusOf[s] = "owned"
           /\ phase[s] \in {"dying", "freed"} <=> StatusOf[s] = "released"
BY DEF StatusOf, Phases

\* A store that gets its first shared_ptr is adopted.
LEMMA FirstHolderAdopts ==
    ASSUME TypeOK, NoDangling, NEW s \in Stores, NEW h \in Holders,
           phase[s] \in {"unborn", "unmanaged"}, held[h] = NoStore,
           phase' = [phase EXCEPT ![s] = "managed"],
           held' = [held EXCEPT ![h] = s]
    PROVE  Ownership!Adopt(s, h)
<1>1. HoldersOf(s) = {}
  BY OnlyManagedAreHeld
<1>2. /\ HoldersOf(s)' = {h}
      /\ \A t \in Stores : t # s => HoldersOf(t)' = HoldersOf(t)
  BY <1>1, HolderAdded
<1>3. OwnersOf' = [OwnersOf EXCEPT ![s] = {h}]
  <2>1. OwnersOf' = [t \in Stores |-> HoldersOf(t)']
    BY DEF OwnersOf
  <2>2. \A t \in Stores : HoldersOf(t)' = IF t = s THEN {h} ELSE HoldersOf(t)
    <3> TAKE t \in Stores
    <3>1. CASE t = s
      BY <1>2, <3>1
    <3>2. CASE t # s
      BY <1>2, <3>2
    <3> QED
      BY <3>1, <3>2
  <2> QED
    BY <2>1, <2>2 DEF OwnersOf
<1>4. StatusOf[s] \in {"unborn", "unowned"}
  BY DEF StatusOf
<1>5. StatusOf' = [StatusOf EXCEPT ![s] = "owned"]
  BY DEF StatusOf, TypeOK
<1> QED
  BY <1>3, <1>4, <1>5 DEF Ownership!Adopt, Ownership!Created

\* A managed store that gets another shared_ptr is shared.
LEMMA FurtherHolderShares ==
    ASSUME TypeOK, NEW s \in Stores, NEW h \in Holders,
           phase[s] = "managed", held[h] = NoStore, UNCHANGED phase,
           held' = [held EXCEPT ![h] = s]
    PROVE  Ownership!Share(s, h)
<1>1. /\ HoldersOf(s)' = HoldersOf(s) \cup {h}
      /\ \A t \in Stores : t # s => HoldersOf(t)' = HoldersOf(t)
  BY HolderAdded
<1>2. OwnersOf' = [OwnersOf EXCEPT ![s] = @ \cup {h}]
  <2>1. OwnersOf' = [t \in Stores |-> HoldersOf(t)']
    BY DEF OwnersOf
  <2>2. \A t \in Stores :
           HoldersOf(t)' = IF t = s THEN OwnersOf[s] \cup {h} ELSE HoldersOf(t)
    <3> TAKE t \in Stores
    <3>1. CASE t = s
      BY <1>1, <3>1 DEF OwnersOf
    <3>2. CASE t # s
      BY <1>1, <3>2
    <3> QED
      BY <3>1, <3>2
  <2> QED
    BY <2>1, <2>2 DEF OwnersOf
<1>3. StatusOf[s] = "owned" /\ StatusOf' = StatusOf
  BY DEF StatusOf
<1>4. h \notin OwnersOf[s]
  BY DEF OwnersOf, HoldersOf
<1> QED
  BY <1>2, <1>3, <1>4 DEF Ownership!Share

\* A shared_ptr that goes drops its owner; the count is zero exactly when no
\* owner is left.
LEMMA GoneHolderDrops ==
    ASSUME TypeOK, CountMatches, NoDangling,
           NEW s \in Stores, NEW h \in Holders, NEW end \in {"dying", "freed"},
           held[h] = s,
           held' = [held EXCEPT ![h] = NoStore],
           phase' = IF uses[s] = 1 THEN [phase EXCEPT ![s] = end] ELSE phase
    PROVE  Ownership!Drop({h})
<1>1. phase[s] = "managed" /\ uses[s] = Cardinality(HoldersOf(s)) /\ h \in HoldersOf(s)
  BY DEF NoDangling, CountMatches, HoldersOf
<1>2. \A t \in Stores : HoldersOf(t)' = HoldersOf(t) \ {h}
  BY DEF HoldersOf, TypeOK
<1>3. uses[s] = 1 <=> HoldersOf(s) \subseteq {h}
  <2>1. HoldersOf(s) \subseteq {h} <=> HoldersOf(s) = {h}
    BY <1>1
  <2>2. Cardinality(HoldersOf(s)) = 1 <=> \E x : HoldersOf(s) = {x}
    BY HoldersFinite, FS_Singleton
  <2> QED
    BY <1>1, <2>1, <2>2
<1>4. \A t \in Stores \ {s} :
         phase[t] = "managed" => ~(HoldersOf(t) \subseteq {h})
  <2> SUFFICES ASSUME NEW t \in Stores \ {s}, phase[t] = "managed",
                      HoldersOf(t) \subseteq {h}
               PROVE  FALSE
    OBVIOUS
  <2>1. HoldersOf(t) = {}
    BY DEF HoldersOf
  <2>2. Cardinality(HoldersOf(t)) = 0
    BY <2>1, FS_EmptySet
  <2> QED
    BY <2>2 DEF CountMatches
<1>5. OwnersOf' = [t \in Stores |-> OwnersOf[t] \ {h}]
  BY <1>2 DEF OwnersOf
<1>6. StatusOf' = [t \in Stores |->
                     IF StatusOf[t] = "owned" /\ OwnersOf[t] \subseteq {h}
                     THEN "released" ELSE StatusOf[t]]
  BY <1>1, <1>3, <1>4 DEF StatusOf, OwnersOf, TypeOK, Phases
<1> QED
  BY <1>5, <1>6 DEF Ownership!Drop

\* Disposing of an isolate drops all of its buffers at once.
LEMMA DisposedHeapDrops ==
    ASSUME IInv, NEW i \in Isolates, IsolateDeinit(i)
    PROVE  Ownership!Drop(BuffersIn(i))
<1> DEFINE dropped(s) == {b \in BuffersIn(i) : held[b] = s}
<1>1. BuffersIn(i) \subseteq Holders
  BY DEF BuffersIn, Holders
<1>2. \A s \in Stores : HoldersOf(s)' = HoldersOf(s) \ BuffersIn(i)
  BY <1>1 DEF IsolateDeinit, HoldersOf, IInv, TypeOK
<1>3. \A s \in Stores :
         /\ dropped(s) \subseteq HoldersOf(s)
         /\ dropped(s) = HoldersOf(s) <=> HoldersOf(s) \subseteq BuffersIn(i)
  BY <1>1 DEF HoldersOf
<1>4. ASSUME NEW s \in Stores, phase[s] = "managed"
      PROVE  (dropped(s) # {} /\ uses[s] = Cardinality(dropped(s)))
                <=> HoldersOf(s) \subseteq BuffersIn(i)
  <2>1. uses[s] = Cardinality(HoldersOf(s)) /\ uses[s] > 0
    BY <1>4 DEF IInv, CountMatches
  <2>2. HoldersOf(s) # {}
    BY <2>1, FS_EmptySet
  <2>3. Cardinality(dropped(s)) = Cardinality(HoldersOf(s)) => dropped(s) = HoldersOf(s)
    <3> HIDE DEF dropped
    <3> QED
      BY <1>3, HoldersFinite, CardinalityOfRest
  <2> HIDE DEF dropped
  <2> QED
    BY <1>3, <2>1, <2>2, <2>3
<1>5. \A s \in Stores :
         /\ phase[s] # "managed" => dropped(s) = {}
         /\ sweeper[i] = s => phase[s] = "dying"
  BY <1>3, OnlyManagedAreHeld DEF IInv, SweepersOwnTheDying
<1>6. phase' = [s \in Stores |->
                  IF \/ dropped(s) # {} /\ uses[s] = Cardinality(dropped(s))
                     \/ sweeper[i] = s
                  THEN "freed" ELSE phase[s]]
  BY DEF IsolateDeinit
<1>7. OwnersOf' = [s \in Stores |-> OwnersOf[s] \ BuffersIn(i)]
  BY <1>2 DEF OwnersOf
<1>8. ASSUME NEW s \in Stores
      PROVE  StatusOf'[s] = IF StatusOf[s] = "owned" /\ OwnersOf[s] \subseteq BuffersIn(i)
                            THEN "released" ELSE StatusOf[s]
  <2> HIDE DEF dropped
  <2>1. CASE phase[s] = "managed"
    BY <1>4, <1>5, <1>6, <2>1 DEF StatusOf, OwnersOf
  <2>2. CASE phase[s] # "managed"
    BY <1>5, <1>6, <2>2 DEF StatusOf, OwnersOf, IInv, TypeOK, Phases
  <2> QED
    BY <2>1, <2>2
<1>9. StatusOf' = [s \in Stores |->
                     IF StatusOf[s] = "owned" /\ OwnersOf[s] \subseteq BuffersIn(i)
                     THEN "released" ELSE StatusOf[s]]
  BY <1>8 DEF StatusOf
<1> QED
  BY <1>7, <1>9 DEF Ownership!Drop

\* Every step of BackingStores is a step of SharedOwnership or invisible there.
LEMMA StepSimulation ==
    ASSUME IInv, [Next]_vars
    PROVE  [Ownership!OwnershipNext]_(Ownership!ownershipVars)
<1> USE DEF Ownership!OwnershipNext, Ownership!ownershipVars
<1>1. ASSUME UNCHANGED <<phase, held>>
      PROVE  UNCHANGED <<StatusOf, OwnersOf>>
  BY <1>1, InvisibleStep
<1>2. CASE UNCHANGED vars
  BY <1>1, <1>2 DEF vars
<1>3. CASE createDefaultArrayBufferAllocator \/ destroyArrayBufferAllocator
  BY <1>1, <1>3 DEF createDefaultArrayBufferAllocator,
                    destroyArrayBufferAllocator, storeVars
<1>4. ASSUME NEW i \in Isolates, IsolateInit(i)
      PROVE  UNCHANGED <<StatusOf, OwnersOf>>
  BY <1>1, <1>4 DEF IsolateInit, storeVars
<1>5. ASSUME NEW i \in Isolates, IsolateDeinit(i)
      PROVE  Ownership!OwnershipNext
  <2>1. BuffersIn(i) \in SUBSET Holders
    BY DEF BuffersIn, Holders
  <2> QED
    BY <1>5, <2>1, DisposedHeapDrops
<1>6. ASSUME NEW i \in Isolates, SweepFree(i)
      PROVE  UNCHANGED <<StatusOf, OwnersOf>>
  <2>1. /\ sweeper[i] \in Stores /\ phase[sweeper[i]] = "dying"
        /\ phase' = [phase EXCEPT ![sweeper[i]] = "freed"]
        /\ UNCHANGED held
    BY <1>6 DEF SweepFree, IInv, TypeOK, SweepersOwnTheDying
  <2>2. UNCHANGED OwnersOf
    BY <2>1, HoldersUnchanged DEF OwnersOf
  <2>3. UNCHANGED StatusOf
    BY <2>1 DEF StatusOf, IInv, TypeOK
  <2> QED
    BY <2>2, <2>3
<1>7. ASSUME NEW i \in Isolates, NEW s \in Stores, BackingStoreInit(i, s)
      PROVE  Ownership!Create(s)
  <2>1. phase[s] = "unborn" /\ phase' = [phase EXCEPT ![s] = "unmanaged"]
    BY <1>7 DEF BackingStoreInit
  <2>2. UNCHANGED OwnersOf
    BY <1>7, HoldersUnchanged DEF BackingStoreInit, OwnersOf
  <2>3. StatusOf[s] = "unborn" /\ StatusOf' = [StatusOf EXCEPT ![s] = "unowned"]
    BY <2>1 DEF StatusOf, IInv, TypeOK
  <2> QED
    BY <2>2, <2>3 DEF Ownership!Create
<1>8. ASSUME NEW s \in Stores, NEW p \in Slots, toSharedPtr(s, p)
      PROVE  p \in Holders /\ Ownership!Adopt(s, p)
  BY <1>8, FirstHolderAdopts DEF toSharedPtr, IInv, Holders
<1>9. ASSUME NEW s \in Stores, NEW b \in Buffers, ArrayBufferInit(s, b)
      PROVE  b \in Holders /\ Ownership!Adopt(s, b)
  BY <1>9, FirstHolderAdopts DEF ArrayBufferInit, IInv, Holders
<1>10. ASSUME NEW p \in Slots, sharedPtrReset(p)
       PROVE  [Ownership!OwnershipNext]_(Ownership!ownershipVars)
  <2>1. CASE held[p] = NoStore
    BY <1>1, <1>10, <2>1 DEF sharedPtrReset, vars
  <2>2. CASE held[p] # NoStore
    <3>1. p \in Holders /\ held[p] \in Stores
      BY <2>2 DEF IInv, TypeOK, Holders
    <3>2. Ownership!Drop({p})
      BY <1>10, <2>2, <3>1, GoneHolderDrops DEF sharedPtrReset, IInv
    <3> QED
      BY <3>1, <3>2
  <2> QED
    BY <2>1, <2>2
<1>11. ASSUME NEW p \in Slots, NEW b \in Buffers, initWithBackingStore(p, b)
       PROVE  \E s \in Stores, h \in Holders : Ownership!Share(s, h)
  <2>1. p \in Holders /\ b \in Holders /\ held[p] \in Stores /\ phase[held[p]] = "managed"
    BY <1>11 DEF initWithBackingStore, IInv, TypeOK, NoDangling, Holders
  <2> QED
    BY <1>11, <2>1, FurtherHolderShares DEF initWithBackingStore, IInv
<1>12. ASSUME NEW p \in Slots, NEW b \in Buffers, getBackingStore(b, p)
       PROVE  \E s \in Stores, h \in Holders : Ownership!Share(s, h)
  <2>1. p \in Holders /\ b \in Holders /\ held[b] # NoStore
    BY <1>12 DEF getBackingStore, IInv, BuffersAreHoused, Holders
  <2>2. held[b] \in Stores /\ phase[held[b]] = "managed"
    BY <2>1 DEF IInv, TypeOK, NoDangling
  <2> QED
    BY <1>12, <2>1, <2>2, FurtherHolderShares DEF getBackingStore, IInv
<1>13. ASSUME NEW b \in Buffers, Unreach(b)
       PROVE  UNCHANGED <<StatusOf, OwnersOf>>
  BY <1>1, <1>13 DEF Unreach, storeVars
<1>14. ASSUME NEW b \in Buffers, SweepBuffer(b)
       PROVE  \E D \in SUBSET Holders : Ownership!Drop(D)
  <2>1. b \in Holders /\ held[b] \in Stores
    BY <1>14 DEF SweepBuffer, IInv, TypeOK, Holders
  <2>2. Ownership!Drop({b})
    BY <1>14, <2>1, GoneHolderDrops DEF SweepBuffer, IInv
  <2> QED
    BY <2>1, <2>2
<1> QED
  BY <1>2, <1>3, <1>4, <1>5, <1>6, <1>7, <1>8, <1>9, <1>10, <1>11, <1>12,
     <1>13, <1>14 DEF Next

\* BackingStores implements SharedOwnership: a count per store, adjusted by
\* every SharedPtr and buffer that comes or goes, releases each store in the
\* step in which its last owner goes and never before.
THEOREM CountingImplementsOwnership == Spec => ImplementsSharedOwnership
<1>1. Init => Ownership!OwnershipInit
  BY DEF Init, Ownership!OwnershipInit, StatusOf, OwnersOf, HoldersOf
<1>2. IInv /\ [Next]_vars => [Ownership!OwnershipNext]_(Ownership!ownershipVars)
  BY StepSimulation
<1> QED
  BY <1>1, <1>2, Invariance, PTL
     DEF Spec, ImplementsSharedOwnership, Ownership!OwnershipSpec
==============================================================================
