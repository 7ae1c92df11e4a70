---------------------------- MODULE BackingStores ----------------------------
(***************************************************************************)
(* The memory behind ArrayBuffers: BackingStore, SharedPtr and ArrayBuffer *)
(* of v8.zig over std::shared_ptr<v8::BackingStore> in binding.cpp.        *)
(*                                                                         *)
(* A v8::BackingStore is owned through shared_ptr objects.  Some live in   *)
(* Zig variables: SharedPtr is a plain struct of two words that make_pod   *)
(* filled with the bytes of a shared_ptr whose destructor never runs, so   *)
(* each such variable stands for exactly one count until sharedPtrReset.   *)
(* The others live in the JSArrayBuffers of the isolates' heaps and are    *)
(* dropped by the array buffer sweeper, on a thread of its own, or all     *)
(* together when the isolate is disposed.                                  *)
(***************************************************************************)
EXTENDS Naturals, FiniteSets

CONSTANTS Stores,    \* v8::BackingStore objects that can be allocated
          Slots,     \* Zig variables of type SharedPtr
          Buffers,   \* v8::ArrayBuffer objects
          Isolates,  \* isolates created with the one array buffer allocator
          Heap,      \* Heap[b]: the isolate in whose heap b is allocated
          NoStore    \* the empty shared_ptr, and a buffer not allocated

Holders == Slots \cup Buffers

ASSUME HoldersAssumption ==
    /\ IsFiniteSet(Slots) /\ IsFiniteSet(Buffers)
    /\ Slots \cap Buffers = {}
ASSUME StoresAssumption == NoStore \notin Stores
ASSUME HeapAssumption == Heap \in [Buffers -> Isolates]

VARIABLES
    phase,      \* phase[s]: where s is between allocation and its deleter
    uses,       \* uses[s]: use_count in the control block of s
    held,       \* held[h]: the store that the shared_ptr in h points to
    reachable,  \* the buffers that JavaScript or a handle can still reach
    sweeper,    \* sweeper[i]: the store whose destructor i's sweeper runs
    isolate,    \* isolate[i]: "none", "up" or "disposed"
    allocator   \* the default array buffer allocator, likewise

storeVars == <<phase, uses, held>>
hostVars == <<isolate, allocator>>
vars == <<phase, uses, held, reachable, sweeper, isolate, allocator>>

\* "dying": the last count is gone and the destructor is still to run;
\* "freed": the destructor ran and gave the memory back to the allocator.
Phases == {"unborn", "unmanaged", "managed", "dying", "freed"}
HostStates == {"none", "up", "disposed"}

HoldersOf(s) == {h \in Holders : held[h] = s}
BuffersIn(i) == {b \in Buffers : Heap[b] = i}

TypeOK == /\ phase \in [Stores -> Phases]
          /\ uses \in [Stores -> Nat]
          /\ held \in [Holders -> Stores \cup {NoStore}]
          /\ reachable \subseteq Buffers
          /\ sweeper \in [Isolates -> Stores \cup {NoStore}]
          /\ isolate \in [Isolates -> HostStates]
          /\ allocator \in HostStates

Init == /\ phase = [s \in Stores |-> "unborn"]
        /\ uses = [s \in Stores |-> 0]
        /\ held = [h \in Holders |-> NoStore]
        /\ reachable = {}
        /\ sweeper = [i \in Isolates |-> NoStore]
        /\ isolate = [i \in Isolates |-> "none"]
        /\ allocator = "none"
------------------------------------------------------------------------------
(***************************************************************************)
(* Plausible bugs.  None of these is part of the specification: each is a  *)
(* wrong form of the definition below whose name it starts with, and a     *)
(* property of this module has been seen to fail with it in its place.     *)
(***************************************************************************)
\* The embedder forgets the SharedPtrs it holds.
AllocatorUnusedByIsolates == \A i \in Isolates : isolate[i] # "up"

\* The new control block is copied into the struct, and nobody resets the original.
toSharedPtrCopying(s, p) ==
    /\ allocator = "up"
    /\ phase[s] = "unmanaged"
    /\ held[p] = NoStore
    /\ phase' = [phase EXCEPT ![s] = "managed"]
    /\ uses' = [uses EXCEPT ![s] = 2]
    /\ held' = [held EXCEPT ![p] = s]
    /\ UNCHANGED <<reachable, sweeper, hostVars>>

\* The count goes down and the pointer stays.
sharedPtrResetKeeping(p) ==
    /\ held[p] # NoStore
    /\ uses' = [uses EXCEPT ![held[p]] = @ - 1]
    /\ phase' = IF uses[held[p]] = 1
                THEN [phase EXCEPT ![held[p]] = "freed"] ELSE phase
    /\ UNCHANGED <<held, reachable, sweeper, hostVars>>

\* The new buffer takes the SharedPtr's bits without counting itself.
initWithBackingStoreUncounted(p, b) ==
    /\ isolate[Heap[b]] = "up"
    /\ held[p] # NoStore
    /\ held[b] = NoStore
    /\ held' = [held EXCEPT ![b] = held[p]]
    /\ reachable' = reachable \cup {b}
    /\ UNCHANGED <<phase, uses, sweeper, hostVars>>

\* The destructor of the temporary runs after its bits were returned.
getBackingStoreDestroyed(b, p) ==
    /\ isolate[Heap[b]] = "up"
    /\ b \in reachable
    /\ held[p] = NoStore
    /\ held' = [held EXCEPT ![p] = held[b]]
    /\ UNCHANGED <<uses, phase, reachable, sweeper, hostVars>>
------------------------------------------------------------------------------
(***************************************************************************)
(* The host: allocator and isolates.                                       *)
(***************************************************************************)
createDefaultArrayBufferAllocator ==
    /\ allocator = "none"
    /\ allocator' = "up"
    /\ UNCHANGED <<storeVars, reachable, sweeper, isolate>>

\* Isolate.init hands the raw allocator pointer to V8.
IsolateInit(i) ==
    /\ isolate[i] = "none"
    /\ allocator = "up"
    /\ isolate' = [isolate EXCEPT ![i] = "up"]
    /\ UNCHANGED <<storeVars, reachable, sweeper, allocator>>

\* Isolate.deinit: the sweeper thread is joined, and every buffer of the heap,
\* reachable or not, lets go of its store.
IsolateDeinit(i) ==
    LET dropped(s) == {b \in BuffersIn(i) : held[b] = s}
        last(s) == /\ dropped(s) # {}
                   /\ uses[s] = Cardinality(dropped(s))
    IN  /\ isolate[i] = "up"
        /\ isolate' = [isolate EXCEPT ![i] = "disposed"]
        /\ held' = [h \in Holders |->
                      IF h \in BuffersIn(i) THEN NoStore ELSE held[h]]
        /\ uses' = [s \in Stores |-> uses[s] - Cardinality(dropped(s))]
        /\ phase' = [s \in Stores |->
                       IF last(s) \/ sweeper[i] = s THEN "freed" ELSE phase[s]]
        /\ reachable' = reachable \ BuffersIn(i)
        /\ sweeper' = [sweeper EXCEPT ![i] = NoStore]
        /\ UNCHANGED allocator

\* The deferred order of shell.zig and test.zig: the allocator goes after the
\* isolates that use it.  V8 keeps only a raw pointer to it, so the embedder
\* also has to have reset the SharedPtrs it took.
AllocatorUnused == /\ \A i \in Isolates : isolate[i] # "up"
                   /\ \A p \in Slots : held[p] = NoStore

destroyArrayBufferAllocator ==
    /\ allocator = "up"
    /\ AllocatorUnused
    /\ allocator' = "disposed"
    /\ UNCHANGED <<storeVars, reachable, sweeper, isolate>>
------------------------------------------------------------------------------
(***************************************************************************)
(* Zig side: BackingStore.init, toSharedPtr, sharedPtrReset.               *)
(***************************************************************************)
\* unique_ptr::release: the store exists and nothing counts it.
BackingStoreInit(i, s) ==
    /\ isolate[i] = "up"
    /\ phase[s] = "unborn"
    /\ phase' = [phase EXCEPT ![s] = "unmanaged"]
    /\ UNCHANGED <<uses, held, reachable, sweeper, hostVars>>

\* A new control block with one count, moved into the returned struct.  A
\* second conversion would make a second control block for the same store;
\* the embedder converts a handle once, and while the allocator lives.
toSharedPtr(s, p) ==
    /\ allocator = "up"
    /\ phase[s] = "unmanaged"
    /\ held[p] = NoStore
    /\ phase' = [phase EXCEPT ![s] = "managed"]
    /\ uses' = [uses EXCEPT ![s] = 1]
    /\ held' = [held EXCEPT ![p] = s]
    /\ UNCHANGED <<reachable, sweeper, hostVars>>

\* shared_ptr::reset: nothing on an empty pointer; otherwise the pointer is
\* emptied and the last count runs the destructor before reset returns.
sharedPtrReset(p) ==
    \/ /\ held[p] = NoStore
       /\ UNCHANGED vars
    \/ /\ held[p] # NoStore
       /\ held' = [held EXCEPT ![p] = NoStore]
       /\ uses' = [uses EXCEPT ![held[p]] = @ - 1]
       /\ phase' = IF uses[held[p]] = 1
                   THEN [phase EXCEPT ![held[p]] = "freed"] ELSE phase
       /\ UNCHANGED <<reachable, sweeper, hostVars>>
------------------------------------------------------------------------------
(***************************************************************************)
(* JavaScript side: buffers share a store with Zig and with each other.    *)
(***************************************************************************)
\* ArrayBuffer.init: V8 allocates a store that only the buffer owns.
ArrayBufferInit(s, b) ==
    /\ isolate[Heap[b]] = "up"
    /\ phase[s] = "unborn"
    /\ held[b] = NoStore
    /\ phase' = [phase EXCEPT ![s] = "managed"]
    /\ uses' = [uses EXCEPT ![s] = 1]
    /\ held' = [held EXCEPT ![b] = s]
    /\ reachable' = reachable \cup {b}
    /\ UNCHANGED <<sweeper, hostVars>>

\* The shared_ptr passed by reference is copied into the new buffer.
initWithBackingStore(p, b) ==
    /\ isolate[Heap[b]] = "up"
    /\ held[p] # NoStore
    /\ held[b] = NoStore
    /\ uses' = [uses EXCEPT ![held[p]] = @ + 1]
    /\ held' = [held EXCEPT ![b] = held[p]]
    /\ reachable' = reachable \cup {b}
    /\ UNCHANGED <<phase, sweeper, hostVars>>

\* The copy V8 returns is moved into the struct by make_pod: one more count.
getBackingStore(b, p) ==
    /\ isolate[Heap[b]] = "up"
    /\ b \in reachable
    /\ held[p] = NoStore
    /\ uses' = [uses EXCEPT ![held[b]] = @ + 1]
    /\ held' = [held EXCEPT ![p] = held[b]]
    /\ UNCHANGED <<phase, reachable, sweeper, hostVars>>

\* The last path from JavaScript or a handle to the buffer disappears.
Unreach(b) ==
    /\ b \in reachable
    /\ reachable' = reachable \ {b}
    /\ UNCHANGED <<storeVars, sweeper, hostVars>>

\* The sweeper thread drops the shared_ptr of a dead buffer.  Whoever drops the
\* last count runs the destructor, which happens after the count reached zero.
SweepBuffer(b) ==
    /\ isolate[Heap[b]] = "up"
    /\ sweeper[Heap[b]] = NoStore
    /\ held[b] # NoStore
    /\ b \notin reachable
    /\ held' = [held EXCEPT ![b] = NoStore]
    /\ uses' = [uses EXCEPT ![held[b]] = @ - 1]
    /\ \/ /\ uses[held[b]] = 1
          /\ phase' = [phase EXCEPT ![held[b]] = "dying"]
          /\ sweeper' = [sweeper EXCEPT ![Heap[b]] = held[b]]
       \/ /\ uses[held[b]] # 1
          /\ UNCHANGED <<phase, sweeper>>
    /\ UNCHANGED <<reachable, hostVars>>

SweepFree(i) ==
    /\ sweeper[i] # NoStore
    /\ phase' = [phase EXCEPT ![sweeper[i]] = "freed"]
    /\ sweeper' = [sweeper EXCEPT ![i] = NoStore]
    /\ UNCHANGED <<uses, held, reachable, hostVars>>
------------------------------------------------------------------------------
Next ==
    \/ createDefaultArrayBufferAllocator
    \/ destroyArrayBufferAllocator
    \/ \E i \in Isolates : IsolateInit(i) \/ IsolateDeinit(i) \/ SweepFree(i)
    \/ \E i \in Isolates, s \in Stores : BackingStoreInit(i, s)
    \/ \E s \in Stores, p \in Slots : toSharedPtr(s, p)
    \/ \E s \in Stores, b \in Buffers : ArrayBufferInit(s, b)
    \/ \E p \in Slots : sharedPtrReset(p)
    \/ \E p \in Slots, b \in Buffers :
          initWithBackingStore(p, b) \/ getBackingStore(b, p)
    \/ \E b \in Buffers : Unreach(b) \/ SweepBuffer(b)

\* The only party the code does not wait for is V8's sweeper thread.
Fairness == /\ \A b \in Buffers : WF_vars(SweepBuffer(b))
            /\ \A i \in Isolates : WF_vars(SweepFree(i))

Spec == Init /\ [][Next]_vars
FairSpec == Spec /\ Fairness
------------------------------------------------------------------------------
(***************************************************************************)
(* Properties                                                              *)
(***************************************************************************)
\* sharedPtrUseCount tells the truth: the count of a managed store is the
\* number of SharedPtr variables and buffers that own it, and it is not zero.
CountMatches ==
    \A s \in Stores : phase[s] = "managed" =>
        uses[s] = Cardinality(HoldersOf(s)) /\ uses[s] > 0

\* Nothing dangles: what a SharedPtr variable or a buffer points to has not
\* been destroyed and no thread is destroying it.
NoDangling ==
    \A h \in Holders : held[h] # NoStore => phase[held[h]] = "managed"

\* A destructor gives its memory back to the allocator it came from: once the
\* allocator is destroyed, no store can still be destroyed and none that was
\* ever managed has leaked.
AllocatorOutlivesStores ==
    allocator = "disposed" =>
        \A s \in Stores : phase[s] \in {"unborn", "unmanaged", "freed"}

\* What the safety properties rest on.  A store whose destructor is still to run
\* is in the hands of exactly one sweeper, that of an isolate in use; a buffer
\* that owns a store is in the heap of an isolate in use, and so is every
\* reachable one; and whoever could free memory keeps the allocator needed.
SweepersOwnTheDying ==
    /\ \A i \in Isolates : sweeper[i] # NoStore =>
          isolate[i] = "up" /\ phase[sweeper[i]] = "dying"
    /\ \A i, j \in Isolates :
          sweeper[i] # NoStore /\ sweeper[i] = sweeper[j] => i = j
    /\ \A s \in Stores : phase[s] = "dying" => \E i \in Isolates : sweeper[i] = s

BuffersAreHoused ==
    /\ \A b \in Buffers : held[b] # NoStore => isolate[Heap[b]] = "up"
    /\ \A b \in reachable : held[b] # NoStore

AllocatorIsNeeded ==
    /\ \A i \in Isolates : isolate[i] = "up" => allocator = "up"
    /\ allocator # "up" => \A p \in Slots : held[p] = NoStore

IInv == /\ TypeOK
        /\ CountMatches
        /\ NoDangling
        /\ SweepersOwnTheDying
        /\ BuffersAreHoused
        /\ AllocatorIsNeeded

\* A store that only dead buffers own is destroyed, however the sweeping of
\* several isolates, other buffers and the embedder interleave.
GarbageIsFreed ==
    \A s \in Stores :
        (/\ phase[s] = "managed"
         /\ HoldersOf(s) \subseteq Buffers \ reachable) ~> (phase[s] = "freed")

\* Counting implements shared ownership: the holders are the owners, and the
\* step in which the count reaches zero is the step that releases the store.
StatusOf == [s \in Stores |->
               CASE phase[s] = "unborn" -> "unborn"
                 [] phase[s] = "unmanaged" -> "unowned"
                 [] phase[s] = "managed" -> "owned"
                 [] OTHER -> "released"]
OwnersOf == [s \in Stores |-> HoldersOf(s)]

Ownership == INSTANCE SharedOwnership WITH status <- StatusOf, owners <- OwnersOf

ImplementsSharedOwnership == Ownership!OwnershipSpec
==============================================================================
