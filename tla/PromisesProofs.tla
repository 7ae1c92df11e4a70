--------------------------- MODULE PromisesProofs ---------------------------
(***************************************************************************)
(* Proofs about Promises, for any set of promises.                         *)
(***************************************************************************)
EXTENDS Promises, SequenceTheorems, TLAPS

(***************************************************************************)
(* What the sequences of reactions consist of.                             *)
(***************************************************************************)
LEMMA ConcatElements ==
  ASSUME NEW R, NEW s \in Seq(R), NEW t \in Seq(R)
  PROVE  /\ s \o t \in Seq(R)
         /\ \A i \in DOMAIN (s \o t) :
               \/ i \in DOMAIN s /\ (s \o t)[i] = s[i]
               \/ /\ i \notin DOMAIN s /\ i - Len(s) \in DOMAIN t
                  /\ (s \o t)[i] = t[i - Len(s)]
OBVIOUS

LEMMA AppendElements ==
  ASSUME NEW R, NEW s \in Seq(R), NEW r \in R
  PROVE  /\ Append(s, r) \in Seq(R)
         /\ \A i \in DOMAIN Append(s, r) :
               \/ i \in DOMAIN s /\ Append(s, r)[i] = s[i]
               \/ i = Len(s) + 1 /\ i \notin DOMAIN s /\ Append(s, r)[i] = r
OBVIOUS

LEMMA TailElements ==
  ASSUME NEW R, NEW s \in Seq(R), s # <<>>
  PROVE  /\ Head(s) \in R /\ Tail(s) \in Seq(R) /\ 1 \in DOMAIN s /\ Head(s) = s[1]
         /\ \A i \in DOMAIN Tail(s) : /\ i \in Nat /\ i + 1 \in DOMAIN s /\ i + 1 # 1
                                      /\ Tail(s)[i] = s[i + 1]
OBVIOUS

LEMMA InitIInv == Init => IInv
<1> SUFFICES ASSUME Init PROVE IInv
  OBVIOUS
<1>1. /\ queue = <<>> /\ DOMAIN queue = {} /\ queue \in Seq(Reactions)
      /\ \A p \in Promise : /\ waiting[p] = <<>> /\ DOMAIN waiting[p] = {}
                           /\ waiting[p] \in Seq(Reactions)
  BY DEF Init
<1>2. waiting \in [Promise -> Seq(Reactions)]
  BY <1>1 DEF Init
<1>3. TypeOK
  BY <1>1, <1>2 DEF Init, TypeOK, States, Policies
<1>4. \A p \in Promise : ~ReactedTo(p)
  BY <1>1 DEF Init, ReactedTo
<1>5. RejectionsAreKnown /\ Kept
  BY <1>4 DEF Init, RejectionsAreKnown, Kept
<1>6. GivesFresh /\ GivesOnce
  BY <1>1 DEF Init, GivesFresh, GivesOnce
<1>7. QED  BY <1>3, <1>5, <1>6 DEF IInv
------------------------------------------------------------------------------
(***************************************************************************)
(* A promise that settles.  What goes before its reactions in the queue is *)
(* a part of the queue, and no reaction that is left gives the promise.    *)
(***************************************************************************)
PartOfQueue(before) ==
    /\ before \in Seq(Reactions)
    /\ \E k \in Nat : \A i \in DOMAIN before :
          i \in Nat /\ i + k \in DOMAIN queue /\ before[i] = queue[i + k]
GivenByNone(p, before) ==
    /\ \A q \in Promise : \A i \in DOMAIN waiting[q] : waiting[q][i].gives # p
    /\ \A i \in DOMAIN before : before[i].gives # p
    /\ job' # None => job'.gives # p
TasksTyped == /\ job' = job \/ job' = None
              /\ running' \in BOOLEAN /\ depth' \in {0, 1} /\ policy' \in Policies
              /\ job' # None => running'
Settling(p, how, before) ==
    /\ p \in Promise /\ how \in Settled /\ state[p] = "kPending"
    /\ Settle(p, how, before)
    /\ PartOfQueue(before) /\ GivenByNone(p, before) /\ TasksTyped
    /\ UNCHANGED <<resolvers, handled, late>>

LEMMA SettledSequences ==
  ASSUME IInv, NEW p, NEW how, NEW before, Settling(p, how, before)
  PROVE  /\ queue' \in Seq(Reactions) /\ waiting' \in [Promise -> Seq(Reactions)]
         /\ DOMAIN waiting'[p] = {}
         /\ waiting'[p] = <<>>
         /\ \A q \in Promise \ {p} : waiting'[q] = waiting[q]
         /\ \A i \in DOMAIN queue' :
               \/ i \in DOMAIN before /\ queue'[i] = before[i]
               \/ /\ i \notin DOMAIN before /\ i - Len(before) \in DOMAIN waiting[p]
                  /\ queue'[i] = waiting[p][i - Len(before)]
<1>1. /\ before \in Seq(Reactions) /\ waiting[p] \in Seq(Reactions)
      /\ queue' = before \o waiting[p] /\ p \in Promise
      /\ waiting \in [Promise -> Seq(Reactions)]
      /\ waiting' = [waiting EXCEPT ![p] = <<>>]
  BY DEF Settling, Settle, PartOfQueue, IInv, TypeOK
<1>2. <<>> \in Seq(Reactions) /\ DOMAIN <<>> = {}
  OBVIOUS
<1>3. QED  BY <1>1, <1>2, ConcatElements

LEMMA SettleType ==
  ASSUME IInv, NEW p, NEW how, NEW before, Settling(p, how, before)
  PROVE  TypeOK'
<1>1. state' \in [Promise -> States \cup {"unused"}] /\ state'[p] = how
      /\ \A q \in Promise \ {p} : state'[q] = state[q]
  BY DEF Settling, Settle, IInv, TypeOK, States, Settled
<1>2. \A q \in Promise : \A i \in DOMAIN waiting'[q] :
         waiting'[q][i].of = q /\ state'[q] = "kPending"
  BY <1>1, SettledSequences DEF Settling, IInv, TypeOK
<1>3. ASSUME NEW i \in DOMAIN queue' PROVE state'[queue'[i].of] \in Settled
  <2>1. CASE i \in DOMAIN before /\ queue'[i] = before[i]
    <3>1. PICK j \in DOMAIN queue : before[i] = queue[j]
      BY <2>1 DEF Settling, PartOfQueue
    <3>2. queue[j] \in Reactions /\ state[queue[j].of] \in Settled
      BY DEF IInv, TypeOK
    <3>3. queue[j].of \in Promise /\ queue[j].of # p
      BY <3>2 DEF Reactions, Settling, Settled
    <3>4. QED  BY <1>1, <2>1, <3>1, <3>2, <3>3
  <2>2. CASE i - Len(before) \in DOMAIN waiting[p]
             /\ queue'[i] = waiting[p][i - Len(before)]
    <3>1. queue'[i].of = p
      BY <2>2 DEF Settling, IInv, TypeOK
    <3>2. QED  BY <1>1, <3>1 DEF Settling
  <2>3. QED  BY <2>1, <2>2, SettledSequences
<1>4. job' \in Reactions \cup {None} /\ known' \subseteq Promise /\ late' \subseteq known'
  BY DEF Settling, TasksTyped, Settle, IInv, TypeOK
<1>5. QED  BY <1>1, <1>2, <1>3, <1>4, SettledSequences
           DEF Settling, TasksTyped, IInv, TypeOK

LEMMA SettleKeeps ==
  ASSUME IInv, NEW p, NEW how, NEW before, Settling(p, how, before)
  PROVE  Kept' /\ RejectionsAreKnown'
<1>1. state'[p] = how /\ p \in Promise /\ how \in Settled
      /\ \A q \in Promise \ {p} : state'[q] = state[q]
  BY DEF Settling, Settle, IInv, TypeOK
<1>2. \A q \in Promise : state'[q] = "unused" => state[q] = "unused"
  BY <1>1 DEF Settled
<1>3. ASSUME NEW q \in Promise, ReactedTo(q)' PROVE q \in handled
  <2>1. CASE waiting'[q] # <<>>
    <3>1. waiting[q] # <<>>
      BY <2>1, SettledSequences
    <3>2. QED  BY <3>1 DEF IInv, Kept, ReactedTo
  <2>2. ASSUME NEW i \in DOMAIN queue', queue'[i].of = q PROVE q \in handled
    <3>1. CASE i \in DOMAIN before /\ queue'[i] = before[i]
      <4>1. PICK j \in DOMAIN queue : before[i] = queue[j]
        BY <3>1 DEF Settling, PartOfQueue
      <4>2. QED  BY <2>2, <3>1, <4>1 DEF IInv, Kept, ReactedTo
    <3>2. CASE i - Len(before) \in DOMAIN waiting[p]
               /\ queue'[i] = waiting[p][i - Len(before)]
      <4>1. queue'[i].of = p /\ waiting[p] # <<>>
        BY <3>2 DEF Settling, IInv, TypeOK
      <4>2. QED  BY <2>2, <4>1 DEF IInv, Kept, ReactedTo
    <3>3. QED  BY <3>1, <3>2, SettledSequences
  <2>3. CASE job' # None /\ job'.of = q
    BY <2>3 DEF Settling, TasksTyped, IInv, Kept, ReactedTo
  <2>4. QED  BY <1>3, <2>1, <2>2, <2>3 DEF ReactedTo
<1>4. known' = known \/ (how = "kRejected" /\ p \notin handled /\ known' = known \cup {p})
  BY DEF Settling, Settle
<1>5. \A q \in known' : q \in Promise /\ state'[q] = "kRejected"
  BY <1>1, <1>4 DEF Settling, IInv, TypeOK, Kept
<1>6. late \subseteq handled /\ known' \cap handled \subseteq late
  BY <1>4 DEF IInv, Kept
<1>7. job' # None => state'[job'.of] \in Settled
  <2> SUFFICES ASSUME job' # None PROVE state'[job'.of] \in Settled
    OBVIOUS
  <2>1. job' = job /\ job \in Reactions /\ state[job.of] \in Settled
    BY DEF Settling, TasksTyped, IInv, TypeOK, Kept
  <2>2. job.of \in Promise /\ job.of # p
    BY <2>1 DEF Reactions, Settling, Settled
  <2>3. QED  BY <1>1, <2>1, <2>2
<1>8. Kept'
  BY <1>2, <1>3, <1>5, <1>6, <1>7 DEF Settling, IInv, Kept
<1>9. \A q \in Promise : state'[q] = "kRejected" /\ q \notin handled => q \in known'
  <2>1. state'[p] = "kRejected" /\ p \notin handled => p \in known'
    BY <1>1 DEF Settling, Settle
  <2>2. \A q \in Promise \ {p} : state'[q] = "kRejected" /\ q \notin handled => q \in known'
    BY <1>1, <1>4 DEF IInv, RejectionsAreKnown
  <2>3. QED  BY <2>1, <2>2
<1>10. QED
  BY <1>3, <1>5, <1>6, <1>8, <1>9 DEF RejectionsAreKnown, Settling

LEMMA SettleGives ==
  ASSUME IInv, NEW p, NEW how, NEW before, Settling(p, how, before)
  PROVE  GivesFresh' /\ GivesOnce'
<1>1. /\ p \in Promise /\ waiting'[p] = <<>> /\ DOMAIN waiting'[p] = {}
      /\ \A q \in Promise : \A i \in DOMAIN waiting'[q] :
            i \in DOMAIN waiting[q] /\ waiting'[q][i] = waiting[q][i] /\ q # p
  BY SettledSequences DEF Settling
<1> DEFINE StillFresh(r) == state'[r] = "kPending" /\ r \notin resolvers'
<1>2. \A r \in Promise : Fresh(r) /\ r # p => StillFresh(r)
  BY DEF Settling, Settle, Fresh, IInv, TypeOK
\* Where the reactions of the queue come from.
<1>3. PICK k \in Nat : \A i \in DOMAIN before :
         i \in Nat /\ i + k \in DOMAIN queue /\ before[i] = queue[i + k]
  BY DEF Settling, PartOfQueue
<1> DEFINE Queued(i) == i \in DOMAIN before /\ queue'[i] = before[i]
           Waited(i) == /\ i - Len(before) \in DOMAIN waiting[p]
                        /\ queue'[i] = waiting[p][i - Len(before)]
<1>4. \A i \in DOMAIN queue' : Queued(i) \/ Waited(i)
  BY SettledSequences
<1>5. /\ \A q \in Promise : \A i \in DOMAIN waiting[q] : waiting[q][i].gives \in Promise
      /\ \A i \in DOMAIN before : before[i].gives \in Promise
      /\ job # None => job.gives \in Promise
  <2>1. \A r \in Reactions : r.gives \in Promise
    BY DEF Reactions
  <2>2. /\ \A q \in Promise : \A i \in DOMAIN waiting[q] : waiting[q][i] \in Reactions
        /\ \A i \in DOMAIN before : before[i] \in Reactions
        /\ job # None => job \in Reactions
    BY DEF Settling, PartOfQueue, IInv, TypeOK
  <2>3. QED  BY <2>1, <2>2
<1>6. GivesFresh'
  <2>1. \A q \in Promise : \A i \in DOMAIN waiting'[q] : StillFresh(waiting'[q][i].gives)
    BY <1>1, <1>2, <1>5 DEF Settling, GivenByNone, IInv, GivesFresh
  <2>2. ASSUME NEW i \in DOMAIN queue' PROVE StillFresh(queue'[i].gives)
    <3>1. CASE Queued(i)
      BY <3>1, <1>2, <1>3, <1>5 DEF Settling, GivenByNone, IInv, GivesFresh
    <3>2. CASE Waited(i)
      BY <3>2, <1>1, <1>2, <1>5 DEF Settling, GivenByNone, IInv, GivesFresh
    <3>3. QED  BY <1>4, <3>1, <3>2
  <2>3. job' # None => StillFresh(job'.gives)
    BY <1>2, <1>5 DEF Settling, GivenByNone, TasksTyped, IInv, GivesFresh
  <2>4. QED  BY <2>1, <2>2, <2>3 DEF GivesFresh, Fresh
<1>7. \A q, r \in Promise : \A i \in DOMAIN waiting'[q], j \in DOMAIN waiting'[r] :
         waiting'[q][i].gives = waiting'[r][j].gives => q = r /\ i = j
  BY <1>1 DEF IInv, GivesOnce
<1>8. ASSUME NEW i \in DOMAIN queue', NEW j \in DOMAIN queue',
             queue'[i].gives = queue'[j].gives
      PROVE  i = j
  <2>1. CASE Queued(i) /\ Queued(j)
    <3>1. i + k = j + k /\ i \in Nat /\ j \in Nat
      BY <1>8, <2>1, <1>3 DEF IInv, GivesOnce
    <3>2. QED  BY <3>1
  <2>2. CASE Waited(i) /\ Waited(j)
    <3>1. i - Len(before) = j - Len(before)
      BY <1>8, <2>2, <1>1 DEF IInv, GivesOnce
    <3>2. i \in Int /\ j \in Int /\ Len(before) \in Int
      BY SettledSequences DEF Settling, PartOfQueue
    <3>3. QED  BY <3>1, <3>2
  <2>3. CASE (Queued(i) /\ Waited(j)) \/ (Waited(i) /\ Queued(j))
    BY <1>8, <2>3, <1>1, <1>3 DEF IInv, GivesOnce
  <2>4. QED  BY <1>4, <2>1, <2>2, <2>3
<1>9. ASSUME NEW q \in Promise, NEW i \in DOMAIN waiting'[q], NEW j \in DOMAIN queue'
      PROVE  waiting'[q][i].gives # queue'[j].gives
  <2>1. CASE Queued(j)
    BY <2>1, <1>1, <1>3 DEF IInv, GivesOnce
  <2>2. CASE Waited(j)
    BY <2>2, <1>1 DEF IInv, GivesOnce
  <2>3. QED  BY <1>4, <2>1, <2>2
<1>10. ASSUME job' # None
       PROVE  /\ \A q \in Promise : \A i \in DOMAIN waiting'[q] : waiting'[q][i].gives # job'.gives
              /\ \A i \in DOMAIN queue' : queue'[i].gives # job'.gives
  <2>1. job' = job /\ job # None
    BY <1>10 DEF Settling, TasksTyped
  <2>2. \A q \in Promise : \A i \in DOMAIN waiting'[q] : waiting'[q][i].gives # job.gives
    BY <2>1, <1>1 DEF IInv, GivesOnce
  <2>3. ASSUME NEW i \in DOMAIN queue' PROVE queue'[i].gives # job.gives
    <3>1. CASE Queued(i)
      BY <3>1, <2>1, <1>3 DEF IInv, GivesOnce
    <3>2. CASE Waited(i)
      BY <3>2, <2>1, <1>1 DEF IInv, GivesOnce
    <3>3. QED  BY <1>4, <3>1, <3>2
  <2>4. QED  BY <2>1, <2>2, <2>3
<1>11. QED  BY <1>6, <1>7, <1>8, <1>9, <1>10 DEF GivesOnce

LEMMA SettlePreserves ==
  ASSUME IInv, NEW p, NEW how, NEW before, Settling(p, how, before)
  PROVE  IInv'
BY SettleType, SettleKeeps, SettleGives DEF IInv
------------------------------------------------------------------------------
(***************************************************************************)
(* The actions that settle a promise.                                      *)
(***************************************************************************)
\* The queue is a part of itself, and so is its tail.
LEMMA QueueIsPart ==
  ASSUME IInv
  PROVE  PartOfQueue(queue) /\ (queue # <<>> => PartOfQueue(Tail(queue)))
<1>1. queue \in Seq(Reactions)
  BY DEF IInv, TypeOK
<1>2. \A i \in DOMAIN queue : i \in Nat /\ i + 0 \in DOMAIN queue /\ queue[i] = queue[i + 0]
  BY <1>1
<1>3. PartOfQueue(queue)
  BY <1>1, <1>2 DEF PartOfQueue
<1>4. ASSUME queue # <<>> PROVE PartOfQueue(Tail(queue))
  BY <1>1, <1>4, TailElements DEF PartOfQueue
<1>5. QED  BY <1>3, <1>4

\* What a promise's resolver has in hand, no reaction gives.
LEMMA settlePreserves ==
  ASSUME NEW p \in Promise, NEW how \in Settled, IInv, settle(p, how)
  PROVE  IInv'
<1>1. CASE state[p] = "kPending"
  <2>1. Settle(p, how, queue) /\ UNCHANGED <<job, depth, policy, resolvers, handled, late>>
    BY <1>1 DEF settle, Completed
  <2>2. running' \in BOOLEAN /\ (job' # None => running') /\ depth' \in {0, 1} /\ policy' \in Policies
    BY DEF settle, Completed, IInv, TypeOK
  <2>3. GivenByNone(p, queue)
    BY <2>1 DEF GivenByNone, settle, IInv, GivesFresh, Fresh
  <2>4. Settling(p, how, queue)
    BY <1>1, <2>1, <2>2, <2>3, QueueIsPart DEF Settling, TasksTyped
  <2>5. QED  BY <2>4, SettlePreserves
<1>2. CASE state[p] # "kPending"
  <2>1. UNCHANGED <<rest, job, depth, policy>>
    BY <1>2 DEF settle, Completed, rest
  <2>2. running' \in BOOLEAN /\ (job' # None => running')
    BY <2>1 DEF settle, Completed, IInv, TypeOK
  <2>3. QED
    BY <2>1, <2>2 DEF rest, IInv, TypeOK, RejectionsAreKnown, ReactedTo, Kept,
                      GivesFresh, Fresh, GivesOnce
<1>3. QED  BY <1>1, <1>2

\* The first microtask leaves the queue, and no other reaction gives what it gives.
LEMMA HeadTaken ==
  ASSUME IInv, queue # <<>>
  PROVE  /\ Head(queue) \in Reactions /\ Tail(queue) \in Seq(Reactions)
         /\ state[Head(queue).of] \in Settled /\ Head(queue).of \in handled
         /\ Head(queue).of \in Promise /\ Head(queue).gives \in Promise
         /\ Fresh(Head(queue).gives)
         /\ \A i \in DOMAIN Tail(queue) :
               /\ i \in Nat /\ i + 1 \in DOMAIN queue /\ Tail(queue)[i] = queue[i + 1]
               /\ Tail(queue)[i].gives # Head(queue).gives
         /\ \A q \in Promise : \A i \in DOMAIN waiting[q] :
               waiting[q][i].gives # Head(queue).gives
<1>1. queue \in Seq(Reactions)
  BY DEF IInv, TypeOK
<1>2. /\ Head(queue) \in Reactions /\ Tail(queue) \in Seq(Reactions)
      /\ 1 \in DOMAIN queue /\ Head(queue) = queue[1]
      /\ \A i \in DOMAIN Tail(queue) :
            /\ i \in Nat /\ i + 1 \in DOMAIN queue /\ i + 1 # 1
            /\ Tail(queue)[i] = queue[i + 1]
  BY <1>1, TailElements
<1>3. Head(queue).of \in Promise /\ Head(queue).gives \in Promise
  BY <1>2 DEF Reactions
<1>4. state[Head(queue).of] \in Settled /\ Head(queue).of \in handled
  BY <1>2, <1>3 DEF IInv, TypeOK, Kept, ReactedTo
<1>5. Fresh(Head(queue).gives)
  BY <1>2 DEF IInv, GivesFresh
<1>6. \A i \in DOMAIN Tail(queue) : Tail(queue)[i].gives # Head(queue).gives
  BY <1>2 DEF IInv, GivesOnce
<1>7. \A q \in Promise : \A i \in DOMAIN waiting[q] :
         waiting[q][i].gives # Head(queue).gives
  BY <1>2 DEF IInv, GivesOnce
<1>8. QED  BY <1>2, <1>3, <1>4, <1>5, <1>6, <1>7

LEMMA StartJobPreserves == ASSUME IInv, StartJob PROVE IInv'
<1> DEFINE r == Head(queue)
<1>1. /\ running /\ job = None /\ queue # <<>>
      /\ UNCHANGED <<running, depth, policy, resolvers, handled, late>>
  BY DEF StartJob
<1>2. CASE /\ job' = r /\ queue' = Tail(queue) /\ UNCHANGED <<state, waiting, known>>
  <2>1. TypeOK'
    BY <1>1, <1>2, HeadTaken DEF IInv, TypeOK
  <2>2. ASSUME NEW q \in Promise, ReactedTo(q)' PROVE q \in handled
    <3>1. CASE waiting'[q] # <<>>
      BY <1>2, <3>1 DEF IInv, Kept, ReactedTo
    <3>2. ASSUME NEW i \in DOMAIN queue', queue'[i].of = q PROVE q \in handled
      BY <1>1, <1>2, <3>2, HeadTaken DEF IInv, Kept, ReactedTo
    <3>3. CASE job'.of = q
      BY <1>1, <1>2, <3>3, HeadTaken
    <3>4. QED  BY <2>2, <3>1, <3>2, <3>3 DEF ReactedTo
  <2>3. Kept'
    BY <1>1, <1>2, <2>2, HeadTaken DEF IInv, Kept
  <2>4. RejectionsAreKnown'
    BY <1>1, <1>2, <2>2 DEF IInv, TypeOK, Kept, RejectionsAreKnown
  <2>5. GivesFresh'
    BY <1>1, <1>2, HeadTaken DEF IInv, GivesFresh, Fresh
  <2>6. ASSUME NEW i \in DOMAIN queue', NEW j \in DOMAIN queue',
               queue'[i].gives = queue'[j].gives
        PROVE  i = j
    <3>1. i + 1 = j + 1 /\ i \in Nat /\ j \in Nat
      BY <1>1, <1>2, <2>6, HeadTaken DEF IInv, GivesOnce
    <3>2. QED  BY <3>1
  <2>7. GivesOnce'
    BY <1>1, <1>2, <2>6, HeadTaken DEF IInv, GivesOnce
  <2>8. QED  BY <2>1, <2>3, <2>4, <2>5, <2>7 DEF IInv
<1>3. CASE /\ Settle(r.gives, state[r.of], Tail(queue)) /\ UNCHANGED job
  <2>1. GivenByNone(r.gives, Tail(queue))
    BY <1>1, <1>3, HeadTaken DEF GivenByNone
  <2>2. TasksTyped
    BY <1>1, <1>3 DEF TasksTyped, IInv, TypeOK
  <2>3. Settling(r.gives, state[r.of], Tail(queue))
    BY <1>1, <1>3, <2>1, <2>2, HeadTaken, QueueIsPart DEF Settling, Fresh
  <2>4. QED  BY <2>3, SettlePreserves
<1>4. QED  BY <1>2, <1>3 DEF StartJob

LEMMA EndJobPreserves ==
  ASSUME NEW how \in Settled, IInv, EndJob(how) PROVE IInv'
<1>1. /\ job # None /\ job' = None /\ Settle(job.gives, how, queue)
      /\ UNCHANGED <<running, depth, policy, resolvers, handled, late>>
  BY DEF EndJob
<1>2. job.gives \in Promise /\ state[job.gives] = "kPending"
  BY <1>1 DEF IInv, TypeOK, GivesFresh, Fresh, Reactions
<1>3. GivenByNone(job.gives, queue)
  BY <1>1 DEF GivenByNone, IInv, GivesOnce
<1>4. TasksTyped
  BY <1>1 DEF TasksTyped, IInv, TypeOK
<1>5. Settling(job.gives, how, queue)
  BY <1>1, <1>2, <1>3, <1>4, QueueIsPart DEF Settling
<1>6. QED  BY <1>5, SettlePreserves
------------------------------------------------------------------------------
(***************************************************************************)
(* A new promise d, pending and of no reaction, and what it may be given by: *)
(* its resolver, or a new reaction to p.                                   *)
(***************************************************************************)
LEMMA NewPromiseKeepsFresh ==
  ASSUME IInv, NEW d \in Promise, state[d] = "unused",
         state' = [state EXCEPT ![d] = "kPending"], resolvers' \subseteq resolvers \cup {d}
  PROVE  /\ state' \in [Promise -> States \cup {"unused"}]
         /\ \A q \in Promise : state[q] # "unused" => state'[q] = state[q]
         /\ \A q \in Promise : state'[q] # state[q] => q = d
         /\ state'[d] = "kPending"
         /\ \A q \in Promise : Fresh(q) =>
               q # d /\ state'[q] = "kPending" /\ q \notin resolvers'
BY DEF IInv, TypeOK, States, Fresh

LEMMA ReactionsTyped ==
  ASSUME IInv
  PROVE  /\ \A p \in Promise : \A i \in DOMAIN waiting[p] :
               waiting[p][i].of = p /\ waiting[p][i].gives \in Promise
         /\ \A i \in DOMAIN queue : queue[i].of \in Promise /\ queue[i].gives \in Promise
         /\ job # None => job.of \in Promise /\ job.gives \in Promise
<1>1. \A r \in Reactions : r.of \in Promise /\ r.gives \in Promise
  BY DEF Reactions
<1>2. /\ \A p \in Promise : \A i \in DOMAIN waiting[p] :
            waiting[p][i].of = p /\ waiting[p][i] \in Reactions
      /\ \A i \in DOMAIN queue : queue[i] \in Reactions
      /\ job # None => job \in Reactions
  BY DEF IInv, TypeOK
<1>3. QED  BY <1>1, <1>2

LEMMA ResolverInitPreserves ==
  ASSUME NEW p \in Promise, IInv, ResolverInit(p) PROVE IInv'
<1>1. /\ state[p] = "unused" /\ state' = [state EXCEPT ![p] = "kPending"]
      /\ resolvers' = resolvers \cup {p}
      /\ UNCHANGED <<waiting, queue, job, running, depth, policy, handled, known, late>>
  BY DEF ResolverInit, taskVars
<1>2. TypeOK'
  <2>1. \A q \in Promise : \A i \in DOMAIN waiting[q] :
           waiting[q][i].of = q /\ state'[q] = "kPending"
    BY <1>1, NewPromiseKeepsFresh DEF IInv, TypeOK
  <2>2. \A i \in DOMAIN queue : state'[queue[i].of] \in Settled
    BY <1>1, NewPromiseKeepsFresh, ReactionsTyped DEF IInv, TypeOK, Settled
  <2>3. state' \in [Promise -> States \cup {"unused"}] /\ resolvers' \subseteq Promise
    BY <1>1, NewPromiseKeepsFresh DEF IInv, TypeOK
  <2>4. QED  BY <1>1, <2>1, <2>2, <2>3 DEF IInv, TypeOK
<1>3. \A q \in Promise : ReactedTo(q)' <=> ReactedTo(q)
  BY <1>1 DEF ReactedTo
<1>4. Kept'
  BY <1>1, <1>3, NewPromiseKeepsFresh, ReactionsTyped DEF IInv, TypeOK, Kept, Settled
<1>5. RejectionsAreKnown'
  BY <1>1, <1>3, NewPromiseKeepsFresh DEF IInv, TypeOK, RejectionsAreKnown
<1>6. GivesFresh'
  BY <1>1, NewPromiseKeepsFresh, ReactionsTyped DEF IInv, GivesFresh, Fresh
<1>7. GivesOnce'
  BY <1>1 DEF IInv, GivesOnce
<1>8. QED  BY <1>2, <1>4, <1>5, <1>6, <1>7 DEF IInv

\* Where a new reaction r goes, it is the last.
LEMMA ReactionAdded ==
  ASSUME IInv, NEW p \in Promise, NEW r \in Reactions, r.of = p,
         \/ /\ state[p] = "kPending" /\ UNCHANGED queue
            /\ waiting' = [waiting EXCEPT ![p] = Append(@, r)]
         \/ /\ state[p] \notin {"kPending", "unused"} /\ UNCHANGED waiting
            /\ queue' = Append(queue, r)
  PROVE  /\ waiting' \in [Promise -> Seq(Reactions)] /\ queue' \in Seq(Reactions)
         /\ \A q \in Promise : waiting'[q] # <<>> => waiting[q] # <<>> \/ q = p
         /\ \A q \in Promise : \A i \in DOMAIN waiting'[q] :
               \/ i \in DOMAIN waiting[q] /\ waiting'[q][i] = waiting[q][i]
               \/ /\ q = p /\ state[p] = "kPending" /\ i = Len(waiting[p]) + 1
                  /\ waiting'[q][i] = r
         /\ \A i \in DOMAIN queue' :
               \/ i \in DOMAIN queue /\ queue'[i] = queue[i]
               \/ /\ state[p] \notin {"kPending", "unused"} /\ i = Len(queue) + 1
                  /\ queue'[i] = r
<1>1. /\ waiting \in [Promise -> Seq(Reactions)] /\ queue \in Seq(Reactions)
      /\ waiting[p] \in Seq(Reactions)
  BY DEF IInv, TypeOK
<1>2. CASE state[p] = "kPending" /\ UNCHANGED queue
           /\ waiting' = [waiting EXCEPT ![p] = Append(@, r)]
  <2>1. waiting'[p] = Append(waiting[p], r)
    BY <1>1, <1>2
  <2>2. \A q \in Promise : q # p => waiting'[q] = waiting[q]
    BY <1>1, <1>2
  <2>3. Append(waiting[p], r) \in Seq(Reactions)
    BY <1>1, AppendElements
  <2>4. QED  BY <1>1, <1>2, <2>1, <2>2, <2>3, AppendElements
<1>3. CASE state[p] \notin {"kPending", "unused"} /\ UNCHANGED waiting
           /\ queue' = Append(queue, r)
  BY <1>1, <1>3, AppendElements
<1>4. QED  BY <1>2, <1>3

LEMMA thenPreserves ==
  ASSUME NEW p \in Promise, NEW d \in Promise, NEW on \in Handlers, IInv, then(p, d, on)
  PROVE  IInv'
<1> DEFINE r == [of |-> p, gives |-> d, on |-> on]
<1>1. /\ state[p] # "unused" /\ state[d] = "unused" /\ p # d
      /\ state' = [state EXCEPT ![d] = "kPending"]
      /\ handled' = handled \cup {p}
      /\ known' = IF p \in handled THEN known ELSE known \ {p}
      /\ UNCHANGED <<job, depth, policy, resolvers, late>>
  BY DEF then, taskVars, Completed
<1>2. running' \in BOOLEAN /\ (job' # None => running')
  <2>1. running \in BOOLEAN /\ (job # None => running)
    BY DEF IInv, TypeOK
  <2>2. CASE UNCHANGED taskVars
    BY <2>1, <2>2 DEF taskVars
  <2>3. CASE Completed
    BY <2>1, <2>3 DEF Completed
  <2>4. QED  BY <2>2, <2>3 DEF then
<1>3. r \in Reactions /\ r.of = p /\ r.gives = d
  BY DEF Reactions
<1>4. \/ /\ state[p] = "kPending" /\ UNCHANGED queue
         /\ waiting' = [waiting EXCEPT ![p] = Append(@, r)]
      \/ /\ state[p] \notin {"kPending", "unused"} /\ UNCHANGED waiting
         /\ queue' = Append(queue, r)
  BY <1>1 DEF then
<1> HIDE DEF r
<1>5. /\ waiting' \in [Promise -> Seq(Reactions)] /\ queue' \in Seq(Reactions)
      /\ \A q \in Promise : waiting'[q] # <<>> => waiting[q] # <<>> \/ q = p
      /\ \A q \in Promise : \A i \in DOMAIN waiting'[q] :
            \/ i \in DOMAIN waiting[q] /\ waiting'[q][i] = waiting[q][i]
            \/ /\ q = p /\ state[p] = "kPending" /\ i = Len(waiting[p]) + 1
               /\ waiting'[q][i] = r
      /\ \A i \in DOMAIN queue' :
            \/ i \in DOMAIN queue /\ queue'[i] = queue[i]
            \/ /\ state[p] \notin {"kPending", "unused"} /\ i = Len(queue) + 1
               /\ queue'[i] = r
  BY <1>3, <1>4, ReactionAdded
<1>6. /\ \A q \in Promise : state[q] # "unused" => state'[q] = state[q]
      /\ \A q \in Promise : state'[q] # state[q] => q = d
      /\ state'[d] = "kPending" /\ state' \in [Promise -> States \cup {"unused"}]
      /\ \A q \in Promise : Fresh(q) =>
            q # d /\ state'[q] = "kPending" /\ q \notin resolvers'
  BY <1>1, NewPromiseKeepsFresh
<1>7. state[p] \in States
  BY <1>1 DEF IInv, TypeOK
<1>8. d \notin resolvers /\ late \subseteq handled /\ late \subseteq known
  BY <1>1 DEF IInv, Kept, TypeOK
<1>9. TypeOK'
  <2>1. \A q \in Promise : \A i \in DOMAIN waiting'[q] :
           waiting'[q][i].of = q /\ state'[q] = "kPending"
    BY <1>1, <1>3, <1>5, <1>6 DEF IInv, TypeOK
  <2>2. ASSUME NEW i \in DOMAIN queue' PROVE state'[queue'[i].of] \in Settled
    <3>1. CASE i \in DOMAIN queue /\ queue'[i] = queue[i]
      <4>1. queue[i].of \in Promise /\ state[queue[i].of] \in Settled
        BY <3>1, ReactionsTyped DEF IInv, TypeOK
      <4>2. QED  BY <3>1, <4>1, <1>6 DEF Settled
    <3>2. CASE state[p] \notin {"kPending", "unused"} /\ queue'[i] = r
      BY <3>2, <1>1, <1>3, <1>6, <1>7 DEF States, Settled
    <3>3. QED  BY <1>5, <3>1, <3>2
  <2>3. handled' \subseteq Promise /\ known' \subseteq Promise /\ late' \subseteq known'
    BY <1>1, <1>8 DEF IInv, TypeOK
  <2>4. QED  BY <1>1, <1>2, <1>5, <1>6, <2>1, <2>2, <2>3 DEF IInv, TypeOK
<1>10. ASSUME NEW q \in Promise, ReactedTo(q)' PROVE q \in handled'
  <2>1. CASE waiting'[q] # <<>>
    BY <2>1, <1>1, <1>5 DEF IInv, Kept, ReactedTo
  <2>2. ASSUME NEW i \in DOMAIN queue', queue'[i].of = q PROVE q \in handled'
    BY <2>2, <1>1, <1>3, <1>5 DEF IInv, Kept, ReactedTo
  <2>3. CASE job' # None /\ job'.of = q
    BY <2>3, <1>1 DEF IInv, Kept, ReactedTo
  <2>4. QED  BY <1>10, <2>1, <2>2, <2>3 DEF ReactedTo
<1>11. Kept'
  <2>1. late' \subseteq handled' /\ known' \cap handled' \subseteq late'
    BY <1>1, <1>8 DEF IInv, Kept
  <2>2. \A q \in known' : state'[q] = "kRejected"
    BY <1>1, <1>6 DEF IInv, Kept, TypeOK
  <2>3. resolvers' \cap {q \in Promise : state'[q] = "unused"} = {}
    BY <1>1, <1>6 DEF IInv, Kept
  <2>4. job' # None => state'[job'.of] \in Settled
    BY <1>1, <1>6, ReactionsTyped DEF IInv, Kept, Settled
  <2>5. QED  BY <1>10, <2>1, <2>2, <2>3, <2>4 DEF Kept
<1>12. RejectionsAreKnown'
  <2>1. \A q \in known' : state'[q] = "kRejected" /\ (ReactedTo(q)' => q \in late')
    BY <1>9, <1>10, <1>11 DEF TypeOK, Kept
  <2>2. \A q \in Promise : state'[q] = "kRejected" /\ q \notin handled' => q \in known'
    BY <1>1, <1>6 DEF IInv, RejectionsAreKnown
  <2>3. QED  BY <2>1, <2>2 DEF RejectionsAreKnown
<1>13. GivesFresh'
  <2> DEFINE StillFresh(q) == state'[q] = "kPending" /\ q \notin resolvers'
  <2>1. StillFresh(d) /\ (\A q \in Promise : Fresh(q) => StillFresh(q))
    BY <1>1, <1>6, <1>8
  <2>2. \A q \in Promise : \A i \in DOMAIN waiting'[q] : StillFresh(waiting'[q][i].gives)
    BY <1>3, <1>5, <2>1, ReactionsTyped DEF IInv, GivesFresh
  <2>3. \A i \in DOMAIN queue' : StillFresh(queue'[i].gives)
    BY <1>3, <1>5, <2>1, ReactionsTyped DEF IInv, GivesFresh
  <2>4. job' # None => StillFresh(job'.gives)
    BY <1>1, <2>1, ReactionsTyped DEF IInv, GivesFresh
  <2>5. QED  BY <2>2, <2>3, <2>4 DEF GivesFresh, Fresh
<1>14. /\ \A q \in Promise : \A i \in DOMAIN waiting[q] : waiting[q][i].gives # d
       /\ \A i \in DOMAIN queue : queue[i].gives # d
       /\ job # None => job.gives # d
  BY <1>1 DEF IInv, GivesFresh, Fresh
<1>15. GivesOnce'
  <2>1. \A q, s \in Promise : \A i \in DOMAIN waiting'[q], j \in DOMAIN waiting'[s] :
           waiting'[q][i].gives = waiting'[s][j].gives => q = s /\ i = j
    <3> SUFFICES ASSUME NEW q \in Promise, NEW s \in Promise,
                        NEW i \in DOMAIN waiting'[q], NEW j \in DOMAIN waiting'[s],
                        waiting'[q][i].gives = waiting'[s][j].gives
                 PROVE  q = s /\ i = j
      OBVIOUS
    <3> DEFINE Old(x, k) == k \in DOMAIN waiting[x] /\ waiting'[x][k] = waiting[x][k]
               New(x, k) == x = p /\ k = Len(waiting[p]) + 1 /\ waiting'[x][k] = r
    <3>1. (Old(q, i) \/ New(q, i)) /\ (Old(s, j) \/ New(s, j))
      BY <1>5
    <3>2. CASE Old(q, i) /\ Old(s, j)
      BY <3>2 DEF IInv, GivesOnce
    <3>3. CASE (Old(q, i) /\ New(s, j)) \/ (New(q, i) /\ Old(s, j))
      BY <3>3, <1>3, <1>14
    <3>4. CASE New(q, i) /\ New(s, j)
      BY <3>4
    <3>5. QED  BY <3>1, <3>2, <3>3, <3>4
  <2>2. \A i, j \in DOMAIN queue' : queue'[i].gives = queue'[j].gives => i = j
    BY <1>3, <1>5, <1>14 DEF IInv, GivesOnce
  <2>3. \A q \in Promise : \A i \in DOMAIN waiting'[q], j \in DOMAIN queue' :
           waiting'[q][i].gives # queue'[j].gives
    BY <1>3, <1>5, <1>14 DEF IInv, GivesOnce
  <2>4. job' # None =>
           /\ \A q \in Promise : \A i \in DOMAIN waiting'[q] :
                 waiting'[q][i].gives # job'.gives
           /\ \A i \in DOMAIN queue' : queue'[i].gives # job'.gives
    <3> SUFFICES ASSUME job # None
                 PROVE  /\ \A q \in Promise : \A i \in DOMAIN waiting'[q] :
                              waiting'[q][i].gives # job.gives
                        /\ \A i \in DOMAIN queue' : queue'[i].gives # job.gives
      BY <1>1
    <3>1. \A q \in Promise : \A i \in DOMAIN waiting'[q] : waiting'[q][i].gives # job.gives
      BY <1>3, <1>5, <1>14 DEF IInv, GivesOnce
    <3>2. \A i \in DOMAIN queue' : queue'[i].gives # job.gives
      BY <1>3, <1>5, <1>14 DEF IInv, GivesOnce
    <3>3. QED  BY <3>1, <3>2
  <2>5. QED  BY <2>1, <2>2, <2>3, <2>4 DEF GivesOnce
<1>16. QED  BY <1>9, <1>11, <1>12, <1>13, <1>15 DEF IInv

LEMMA markAsHandledPreserves ==
  ASSUME NEW p \in Promise, IInv, markAsHandled(p) PROVE IInv'
<1>1. /\ handled' = handled \cup {p}
      /\ late' = IF p \in known /\ p \notin handled THEN late \cup {p} ELSE late
      /\ UNCHANGED <<state, waiting, queue, job, running, depth, policy, resolvers, known>>
  BY DEF markAsHandled, taskVars
<1>2. TypeOK'
  BY <1>1 DEF IInv, TypeOK
<1>3. \A q \in Promise : ReactedTo(q)' <=> ReactedTo(q)
  BY <1>1 DEF ReactedTo
<1>4. Kept'
  BY <1>1, <1>3 DEF IInv, Kept
<1>5. RejectionsAreKnown'
  BY <1>1, <1>3 DEF IInv, TypeOK, RejectionsAreKnown
<1>6. GivesFresh' /\ GivesOnce'
  BY <1>1 DEF IInv, GivesFresh, Fresh, GivesOnce
<1>7. QED  BY <1>2, <1>4, <1>5, <1>6 DEF IInv
------------------------------------------------------------------------------
\* The rest only says when V8 runs microtasks.
LEMMA TasksPreserve ==
  ASSUME IInv, UNCHANGED <<rest, job>>, running' \in BOOLEAN, depth' \in {0, 1},
         policy' \in Policies, job' # None => running'
  PROVE  IInv'
BY DEF rest, IInv, TypeOK, RejectionsAreKnown, ReactedTo, Kept, GivesFresh, Fresh, GivesOnce

LEMMA NextPreserves == IInv /\ [Next]_vars => IInv'
<1> SUFFICES ASSUME IInv, [Next]_vars PROVE IInv'
  OBVIOUS
<1>1. ASSUME NEW p \in Promise, ResolverInit(p) PROVE IInv'
  BY <1>1, ResolverInitPreserves
<1>2. ASSUME NEW p \in Promise, markAsHandled(p) PROVE IInv'
  BY <1>2, markAsHandledPreserves
<1>3. ASSUME NEW p \in Promise, NEW how \in Settled, settle(p, how) PROVE IInv'
  BY <1>3, settlePreserves
<1>4. ASSUME NEW p \in Promise, NEW d \in Promise, NEW on \in Handlers, then(p, d, on)
      PROVE  IInv'
  BY <1>4, thenPreserves
<1>5. CASE \/ (\E x \in Policies : setMicrotasksPolicy(x)) \/ performMicrotasksCheckpoint
           \/ Call \/ EnterCallback \/ LeaveCallback \/ EndCheckpoint
  <2>1. UNCHANGED <<rest, job>>
    BY <1>5 DEF setMicrotasksPolicy, performMicrotasksCheckpoint, Call, EnterCallback,
                LeaveCallback, EndCheckpoint, Completed
  <2>2. running' \in BOOLEAN /\ depth' \in {0, 1} /\ policy' \in Policies
    BY <1>5 DEF setMicrotasksPolicy, performMicrotasksCheckpoint, Call, EnterCallback,
                LeaveCallback, EndCheckpoint, Completed, IInv, TypeOK
  <2>3. job' # None => running'
    BY <1>5, <2>1 DEF setMicrotasksPolicy, performMicrotasksCheckpoint, Call, EnterCallback,
                      LeaveCallback, EndCheckpoint, Completed, IInv, TypeOK
  <2>4. QED  BY <2>1, <2>2, <2>3, TasksPreserve
<1>6. CASE StartJob
  BY <1>6, StartJobPreserves
<1>7. ASSUME NEW how \in Settled, EndJob(how) PROVE IInv'
  BY <1>7, EndJobPreserves
<1>8. CASE UNCHANGED vars
  BY <1>8, TasksPreserve DEF vars, rest, IInv, TypeOK
<1>9. QED
  BY <1>1, <1>2, <1>3, <1>4, <1>5, <1>6, <1>7, <1>8 DEF Next, Embedder, Microtasks

LEMMA Invariance == Spec => []IInv
BY InitIInv, NextPreserves, PTL DEF Spec

\* Reactions wait for pending promises and are queued for settled ones, and a
\* handler runs only while V8 runs microtasks.
THEOREM PromiseTypes == Spec => []TypeOK
<1>1. IInv => TypeOK
  BY DEF IInv
<1>2. QED  BY <1>1, Invariance, PTL

\* Whoever follows the reject callback knows the rejections nobody reacts to.
THEOREM RejectionsKnown == Spec => []RejectionsAreKnown
<1>1. IInv => RejectionsAreKnown
  BY DEF IInv
<1>2. QED  BY <1>1, Invariance, PTL
------------------------------------------------------------------------------
(***************************************************************************)
(* Promises implements the safety of Futures.  A sequence of reactions     *)
(* tells who is asked for what, and in which order.                        *)
(***************************************************************************)
LEMMA AsksConcat ==
  ASSUME NEW s \in Seq(Reactions), NEW t \in Seq(Reactions), NEW p, NEW d
  PROVE  Asks(s \o t, p, d) <=> Asks(s, p, d) \/ Asks(t, p, d)
<1> DEFINE st == s \o t
<1>1. /\ \A i \in DOMAIN st : \/ i \in DOMAIN s /\ st[i] = s[i]
                              \/ i - Len(s) \in DOMAIN t /\ st[i] = t[i - Len(s)]
      /\ \A i \in DOMAIN s : i \in DOMAIN st /\ st[i] = s[i]
      /\ \A i \in DOMAIN t : i + Len(s) \in DOMAIN st /\ st[i + Len(s)] = t[i]
  OBVIOUS
<1> HIDE DEF st
<1>2. ASSUME Asks(st, p, d) PROVE Asks(s, p, d) \/ Asks(t, p, d)
  BY <1>1, <1>2 DEF Asks
<1>3. ASSUME Asks(s, p, d) \/ Asks(t, p, d) PROVE Asks(st, p, d)
  BY <1>1, <1>3 DEF Asks
<1>4. QED  BY <1>2, <1>3 DEF st

LEMMA PrecedesConcat ==
  ASSUME NEW s \in Seq(Reactions), NEW t \in Seq(Reactions), NEW d, NEW e
  PROVE  Precedes(s \o t, d, e) <=> \/ Precedes(s, d, e) \/ Precedes(t, d, e)
                                    \/ \E p \in Promise : Asks(s, p, d) /\ Asks(t, p, e)
<1> DEFINE st == s \o t  n == Len(s)
<1>1. /\ n \in Nat /\ DOMAIN s = 1 .. n
      /\ \A i \in DOMAIN st : /\ i \in Nat
                              /\ \/ i \in DOMAIN s /\ st[i] = s[i]
                                 \/ i > n /\ i - n \in DOMAIN t /\ st[i] = t[i - n]
      /\ \A i \in DOMAIN s : i \in DOMAIN st /\ st[i] = s[i]
      /\ \A i \in DOMAIN t : i \in Nat /\ i > 0 /\ i + n \in DOMAIN st /\ st[i + n] = t[i]
      /\ \A i \in DOMAIN s : s[i] \in Reactions /\ i \in 1 .. n
  OBVIOUS
<1>2. \A r \in Reactions : r.of \in Promise
  BY DEF Reactions
<1> HIDE DEF st, n
<1>3. ASSUME Precedes(st, d, e)
      PROVE  \/ Precedes(s, d, e) \/ Precedes(t, d, e)
             \/ \E p \in Promise : Asks(s, p, d) /\ Asks(t, p, e)
  <2>1. PICK i \in DOMAIN st, j \in DOMAIN st :
           i < j /\ st[i].of = st[j].of /\ st[i].gives = d /\ st[j].gives = e
    BY <1>3 DEF Precedes
  <2>2. CASE i \in DOMAIN s /\ st[i] = s[i] /\ j \in DOMAIN s /\ st[j] = s[j]
    BY <2>1, <2>2 DEF Precedes
  <2>3. CASE /\ i > n /\ i - n \in DOMAIN t /\ st[i] = t[i - n]
             /\ j > n /\ j - n \in DOMAIN t /\ st[j] = t[j - n]
    <3>1. i - n < j - n
      BY <1>1, <2>1
    <3>2. QED  BY <2>1, <2>3, <3>1 DEF Precedes
  <2>4. CASE /\ i \in DOMAIN s /\ st[i] = s[i]
             /\ j - n \in DOMAIN t /\ st[j] = t[j - n]
    <3>1. s[i].of \in Promise
      BY <1>1, <1>2, <2>4
    <3>2. Asks(s, s[i].of, d) /\ Asks(t, s[i].of, e)
      BY <2>1, <2>4 DEF Asks
    <3>3. QED  BY <3>1, <3>2
  <2>5. CASE i > n /\ j \in DOMAIN s
    BY <1>1, <2>1, <2>5
  <2>6. QED  BY <1>1, <2>2, <2>3, <2>4, <2>5
<1>4. ASSUME Precedes(s, d, e) PROVE Precedes(st, d, e)
  BY <1>1, <1>4 DEF Precedes
<1>5. ASSUME Precedes(t, d, e) PROVE Precedes(st, d, e)
  <2>1. PICK i \in DOMAIN t, j \in DOMAIN t :
           i < j /\ t[i].of = t[j].of /\ t[i].gives = d /\ t[j].gives = e
    BY <1>5 DEF Precedes
  <2>2. i + n < j + n
    BY <1>1, <2>1
  <2>3. QED  BY <1>1, <2>1, <2>2 DEF Precedes
<1>6. ASSUME NEW p \in Promise, Asks(s, p, d), Asks(t, p, e) PROVE Precedes(st, d, e)
  <2>1. PICK i \in DOMAIN s : s[i].of = p /\ s[i].gives = d
    BY <1>6 DEF Asks
  <2>2. PICK j \in DOMAIN t : t[j].of = p /\ t[j].gives = e
    BY <1>6 DEF Asks
  <2>3. i < j + n
    BY <1>1, <2>1, <2>2
  <2>4. QED  BY <1>1, <2>1, <2>2, <2>3 DEF Precedes
<1>7. QED  BY <1>3, <1>4, <1>5, <1>6 DEF st

\* One more reaction is preceded by those to the same promise, and precedes none.
LEMMA AppendAsks ==
  ASSUME NEW s \in Seq(Reactions), NEW r \in Reactions
  PROVE  /\ \A p, d : Asks(Append(s, r), p, d) <=> Asks(s, p, d) \/ (r.of = p /\ r.gives = d)
         /\ \A d, e : Precedes(Append(s, r), d, e)
                      <=> Precedes(s, d, e) \/ (Asks(s, r.of, d) /\ r.gives = e)
<1> DEFINE t == <<r>>
<1>1. t \in Seq(Reactions) /\ DOMAIN t = {1} /\ t[1] = r /\ Append(s, r) = s \o t
  OBVIOUS
<1> HIDE DEF t
<1>2. \A p, d : Asks(t, p, d) <=> r.of = p /\ r.gives = d
  BY <1>1 DEF Asks
<1>3. \A d, e : ~Precedes(t, d, e)
  BY <1>1 DEF Precedes
<1>4. r.of \in Promise
  BY DEF Reactions
<1>5. QED  BY <1>1, <1>2, <1>3, <1>4, AsksConcat, PrecedesConcat

\* Without its first reaction, a sequence that gives nothing twice has the rest.
LEMMA TailAsks ==
  ASSUME NEW s \in Seq(Reactions), s # <<>>,
         \A i, j \in DOMAIN s : s[i].gives = s[j].gives => i = j
  PROVE  /\ \A p, d : Asks(Tail(s), p, d) <=> Asks(s, p, d) /\ d # Head(s).gives
         /\ \A d, e : Precedes(Tail(s), d, e) <=> Precedes(s, d, e) /\ d # Head(s).gives
         /\ \A d : ~Precedes(s, d, Head(s).gives)
         /\ \A p : Asks(s, p, Head(s).gives) <=> p = Head(s).of
<1> DEFINE t == Tail(s)  g == Head(s).gives
<1>1. /\ 1 \in DOMAIN s /\ Head(s) = s[1]
      /\ \A i \in DOMAIN t : i \in Nat /\ i + 1 \in DOMAIN s /\ i + 1 # 1 /\ t[i] = s[i + 1]
      /\ \A i \in DOMAIN s : i \in Nat /\ i >= 1
      /\ \A i \in DOMAIN s : i # 1 => i - 1 \in DOMAIN t /\ t[i - 1] = s[i]
  <2>1. \A i \in DOMAIN s : i \in Nat /\ i >= 1
    OBVIOUS
  <2>2. \A i \in DOMAIN s : i # 1 => i - 1 \in DOMAIN t /\ t[i - 1] = s[i]
    OBVIOUS
  <2>3. QED  BY <2>1, <2>2, TailElements
<1> HIDE DEF t
<1>2. \A i \in DOMAIN s : s[i].gives = g <=> i = 1
  BY <1>1
<1>3. ASSUME NEW p, NEW d PROVE Asks(t, p, d) <=> Asks(s, p, d) /\ d # g
  <2>1. ASSUME Asks(t, p, d) PROVE Asks(s, p, d) /\ d # g
    <3>1. PICK i \in DOMAIN t : t[i].of = p /\ t[i].gives = d
      BY <2>1 DEF Asks
    <3>2. i + 1 \in DOMAIN s /\ i + 1 # 1 /\ s[i + 1].of = p /\ s[i + 1].gives = d
      BY <1>1, <3>1
    <3>3. QED  BY <1>2, <3>2 DEF Asks
  <2>2. ASSUME Asks(s, p, d), d # g PROVE Asks(t, p, d)
    <3>1. PICK i \in DOMAIN s : s[i].of = p /\ s[i].gives = d
      BY <2>2 DEF Asks
    <3>2. i # 1
      BY <1>2, <2>2, <3>1
    <3>3. QED  BY <1>1, <3>1, <3>2 DEF Asks
  <2>3. QED  BY <2>1, <2>2
<1>4. ASSUME NEW d, NEW e PROVE Precedes(t, d, e) <=> Precedes(s, d, e) /\ d # g
  <2>1. ASSUME Precedes(t, d, e) PROVE Precedes(s, d, e) /\ d # g
    <3>1. PICK i \in DOMAIN t, j \in DOMAIN t :
             i < j /\ t[i].of = t[j].of /\ t[i].gives = d /\ t[j].gives = e
      BY <2>1 DEF Precedes
    <3>2. /\ i + 1 \in DOMAIN s /\ j + 1 \in DOMAIN s /\ i + 1 < j + 1 /\ i + 1 # 1
          /\ s[i + 1] = t[i] /\ s[j + 1] = t[j]
      BY <1>1, <3>1
    <3>3. QED  BY <1>2, <3>1, <3>2 DEF Precedes
  <2>2. ASSUME Precedes(s, d, e), d # g PROVE Precedes(t, d, e)
    <3>1. PICK i \in DOMAIN s, j \in DOMAIN s :
             i < j /\ s[i].of = s[j].of /\ s[i].gives = d /\ s[j].gives = e
      BY <2>2 DEF Precedes
    <3>2. i # 1 /\ j # 1
      BY <1>1, <1>2, <2>2, <3>1
    <3>3. /\ i - 1 \in DOMAIN t /\ j - 1 \in DOMAIN t /\ i - 1 < j - 1
          /\ t[i - 1] = s[i] /\ t[j - 1] = s[j]
      BY <1>1, <3>1, <3>2
    <3>4. QED  BY <3>1, <3>3 DEF Precedes
  <2>3. QED  BY <2>1, <2>2
<1>5. ASSUME NEW d PROVE ~Precedes(s, d, g)
  BY <1>1, <1>2 DEF Precedes
<1>6. ASSUME NEW p PROVE Asks(s, p, g) <=> p = Head(s).of
  BY <1>1, <1>2 DEF Asks
<1>7. QED  BY <1>3, <1>4, <1>5, <1>6 DEF t

\* In a state of Promises only pending promises are waited for, and only settled
\* ones have reactions in the queue.
LEMMA AskedWhere ==
  ASSUME IInv
  PROVE  /\ \A p \in Promise : \A q, d : Asks(waiting[p], q, d) => q = p /\ state[p] = "kPending"
         /\ \A p, d : Asks(queue, p, d) => state[p] \in Settled
         /\ \A p \in Promise : \A q, d : Asks(queue, p, d) \/ Asks(waiting[p], q, d) => Fresh(d)
BY DEF Asks, IInv, TypeOK, GivesFresh
------------------------------------------------------------------------------
(***************************************************************************)
(* How the steps of Promises change what Futures sees.                     *)
(***************************************************************************)
\* What is asked for where p's reactions were put behind a part of the queue: what
\* that part and the reactions that waited ask for, in the same order.
LEMMA SettleAsks ==
  ASSUME IInv, NEW p \in Promise, NEW how, NEW before \in Seq(Reactions),
         state[p] = "kPending", Settle(p, how, before),
         \A q, d : Asks(before, q, d) => Asks(queue, q, d)
  PROVE  /\ \A q \in Promise : AskedOf(q)' =
                {d \in Promise : Asks(before, q, d) \/ Asks(waiting[q], q, d)}
         /\ \A e \in Promise : AheadOf(e)' =
                {d \in Promise : \/ Precedes(before, d, e)
                                 \/ \E q \in Promise : Precedes(waiting[q], d, e)}
<1>1. /\ waiting[p] \in Seq(Reactions) /\ waiting'[p] = <<>>
      /\ \A q \in Promise \ {p} : waiting'[q] = waiting[q]
      /\ queue' = before \o waiting[p]
  BY DEF Settle, IInv, TypeOK
<1>2. \A q, d : ~Asks(waiting'[p], q, d) /\ ~Precedes(waiting'[p], q, d)
  BY <1>1 DEF Asks, Precedes
<1>3. \A d : ~Asks(before, p, d)
  BY AskedWhere DEF Settled
<1>4. \A q, d : Asks(waiting[p], q, d) => q = p
  BY AskedWhere
<1>5. ASSUME NEW q \in Promise, NEW d \in Promise
      PROVE  (Asks(queue', q, d) \/ Asks(waiting'[q], q, d))
             <=> (Asks(before, q, d) \/ Asks(waiting[q], q, d))
  <2>1. Asks(queue', q, d) <=> Asks(before, q, d) \/ Asks(waiting[p], q, d)
    BY <1>1, AsksConcat
  <2>2. CASE q = p
    BY <1>2, <2>1, <2>2
  <2>3. CASE q # p
    BY <1>1, <1>4, <2>1, <2>3
  <2>4. QED  BY <2>2, <2>3
<1>6. ASSUME NEW d \in Promise, NEW e \in Promise
      PROVE  (Precedes(queue', d, e) \/ \E q \in Promise : Precedes(waiting'[q], d, e))
             <=> (Precedes(before, d, e) \/ \E q \in Promise : Precedes(waiting[q], d, e))
  <2>1. Precedes(queue', d, e) <=> Precedes(before, d, e) \/ Precedes(waiting[p], d, e)
    BY <1>1, <1>3, <1>4, PrecedesConcat
  <2>2. (\E q \in Promise : Precedes(waiting'[q], d, e))
        <=> \E q \in Promise \ {p} : Precedes(waiting[q], d, e)
    BY <1>1, <1>2
  <2>3. (\E q \in Promise : Precedes(waiting[q], d, e))
        <=> \/ Precedes(waiting[p], d, e)
            \/ \E q \in Promise \ {p} : Precedes(waiting[q], d, e)
    OBVIOUS
  <2>4. QED  BY <2>1, <2>2, <2>3
<1>7. QED  BY <1>5, <1>6 DEF AskedOf, AheadOf

\* The first microtask is the first that was asked for of its promise; without it
\* the rest is asked for as before.
LEMMA HeadIsFirst ==
  ASSUME IInv, queue # <<>>
  PROVE  LET r == Head(queue)  g == r.gives
         IN  /\ \A q \in Promise :
                   {d \in Promise : Asks(Tail(queue), q, d) \/ Asks(waiting[q], q, d)} =
                   IF q = r.of THEN AskedOf(q) \ {g} ELSE AskedOf(q)
             /\ \A e \in Promise :
                   {d \in Promise : \/ Precedes(Tail(queue), d, e)
                                    \/ \E q \in Promise : Precedes(waiting[q], d, e)} =
                   AheadOf(e) \ {g}
             /\ g \in AskedOf(r.of) /\ AheadOf(g) = {}
             /\ \A q, d : Asks(Tail(queue), q, d) => Asks(queue, q, d)
<1> DEFINE r == Head(queue)  g == r.gives
<1>1. /\ queue \in Seq(Reactions) /\ g \in Promise /\ r.of \in Promise
      /\ \A i, j \in DOMAIN queue : queue[i].gives = queue[j].gives => i = j
      /\ \A q \in Promise : \A i \in DOMAIN waiting[q] : waiting[q][i].gives # g
  BY HeadTaken DEF IInv, TypeOK, GivesOnce
<1>2. /\ \A p, d : Asks(Tail(queue), p, d) <=> Asks(queue, p, d) /\ d # g
      /\ \A d, e : Precedes(Tail(queue), d, e) <=> Precedes(queue, d, e) /\ d # g
      /\ \A d : ~Precedes(queue, d, g)
      /\ \A p : Asks(queue, p, g) <=> p = r.of
  BY <1>1, TailAsks
<1>3. \A q \in Promise : \A d : /\ ~Asks(waiting[q], d, g)
                               /\ ~Precedes(waiting[q], d, g) /\ ~Precedes(waiting[q], g, d)
  BY <1>1 DEF Asks, Precedes
<1> HIDE DEF g, r
<1>4. ASSUME NEW q \in Promise
      PROVE  {d \in Promise : Asks(Tail(queue), q, d) \/ Asks(waiting[q], q, d)} =
             IF q = r.of THEN AskedOf(q) \ {g} ELSE AskedOf(q)
  BY <1>2, <1>3 DEF AskedOf
<1>5. ASSUME NEW e \in Promise
      PROVE  {d \in Promise : \/ Precedes(Tail(queue), d, e)
                              \/ \E q \in Promise : Precedes(waiting[q], d, e)} =
             AheadOf(e) \ {g}
  BY <1>2, <1>3 DEF AheadOf
<1>6. g \in AskedOf(r.of) /\ AheadOf(g) = {}
  BY <1>1, <1>2, <1>3 DEF AskedOf, AheadOf
<1>7. QED  BY <1>2, <1>4, <1>5, <1>6 DEF g, r

\* What Futures sees of a state, and a step of it.
Outcomes == [p \in Promise |-> Outcome[state[p]]]
Askeds == [p \in Promise |-> AskedOf(p)]
Aheads == [p \in Promise |-> AheadOf(p)]
Step == [Abstract!FuturesNext]_(Abstract!futureVars)

LEMMA OutcomeIs ==
  /\ \A x \in States \cup {"unused"} :
        /\ Outcome[x] = "unused" <=> x = "unused"
        /\ Outcome[x] = "pending" <=> x = "kPending"
        /\ Outcome[x] \in Abstract!Settled <=> x \in Settled
  /\ \A x \in Settled : Outcome[x] \in Abstract!Settled
  /\ Outcome["kPending"] = "pending" /\ Outcome["unused"] = "unused"
BY DEF Outcome, States, Settled, Abstract!Settled

\* One promise gets a new state.
LEMMA OutcomeChanges ==
  ASSUME IInv, NEW p \in Promise, NEW x, state' = [state EXCEPT ![p] = x]
  PROVE  Outcomes' = [Outcomes EXCEPT ![p] = Outcome[x]]
BY DEF Outcomes, IInv, TypeOK

\* A reaction is asked for only until it is called: what is settled by anybody else
\* no reaction gives.
LEMMA SettleStep ==
  ASSUME IInv, NEW p \in Promise, NEW how \in Settled, state[p] = "kPending",
         Settle(p, how, queue),
         \A q \in Promise : \A i \in DOMAIN waiting[q] : waiting[q][i].gives # p,
         \A i \in DOMAIN queue : queue[i].gives # p
  PROVE  Step
<1>1. state' = [state EXCEPT ![p] = how] /\ queue \in Seq(Reactions)
  BY DEF Settle, IInv, TypeOK
<1>2. /\ \A q \in Promise : AskedOf(q)' = AskedOf(q)
      /\ \A e \in Promise : AheadOf(e)' = AheadOf(e)
  BY <1>1, SettleAsks DEF AskedOf, AheadOf
<1>3. Askeds' = Askeds /\ Aheads' = Aheads
  BY <1>2 DEF Askeds, Aheads
<1>4. Outcomes' = [Outcomes EXCEPT ![p] = Outcome[how]]
  BY <1>1, OutcomeChanges
<1>5. \A q \in Promise : p \notin Askeds[q]
  BY DEF Askeds, AskedOf, Asks
<1>6. Outcomes[p] = "pending" /\ Outcome[how] \in Abstract!Settled
  BY OutcomeIs DEF Outcomes
<1>7. Abstract!Settle(p, Outcome[how])
  BY <1>3, <1>4, <1>5, <1>6 DEF Abstract!Settle, Outcomes, Askeds, Aheads
<1>8. QED  BY <1>6, <1>7 DEF Step, Abstract!FuturesNext

LEMMA settleStep ==
  ASSUME IInv, NEW p \in Promise, NEW how \in Settled, settle(p, how) PROVE Step
<1>1. CASE state[p] = "kPending"
  <2>1. Settle(p, how, queue) /\ p \in resolvers
    BY <1>1 DEF settle
  <2>2. /\ \A q \in Promise : \A i \in DOMAIN waiting[q] : waiting[q][i].gives # p
        /\ \A i \in DOMAIN queue : queue[i].gives # p
    BY <2>1 DEF IInv, GivesFresh, Fresh
  <2>3. QED  BY <1>1, <2>1, <2>2, SettleStep
<1>2. CASE state[p] # "kPending"
  <2>1. UNCHANGED <<state, waiting, queue>>
    BY <1>2 DEF settle
  <2>2. QED  BY <2>1 DEF Step, Abstract!futureVars, AskedOf, AheadOf
<1>3. QED  BY <1>1, <1>2

LEMMA EndJobStep ==
  ASSUME IInv, NEW how \in Settled, EndJob(how) PROVE Step
<1>1. job # None /\ Settle(job.gives, how, queue)
  BY DEF EndJob
<1>2. job.gives \in Promise /\ state[job.gives] = "kPending"
  BY <1>1 DEF IInv, TypeOK, GivesFresh, Fresh, Reactions
<1>3. /\ \A q \in Promise : \A i \in DOMAIN waiting[q] : waiting[q][i].gives # job.gives
      /\ \A i \in DOMAIN queue : queue[i].gives # job.gives
  BY <1>1 DEF IInv, GivesOnce
<1>4. QED  BY <1>1, <1>2, <1>3, SettleStep

LEMMA ResolverInitStep ==
  ASSUME IInv, NEW p \in Promise, ResolverInit(p) PROVE Step
<1>1. /\ state[p] = "unused" /\ state' = [state EXCEPT ![p] = "kPending"]
      /\ UNCHANGED <<waiting, queue>>
  BY DEF ResolverInit
<1>2. Askeds' = Askeds /\ Aheads' = Aheads
  BY <1>1 DEF Askeds, Aheads, AskedOf, AheadOf
<1>3. Outcomes' = [Outcomes EXCEPT ![p] = "pending"] /\ Outcomes[p] = "unused"
  <2>1. Outcomes' = [Outcomes EXCEPT ![p] = Outcome["kPending"]]
    BY <1>1, OutcomeChanges
  <2>2. Outcomes[p] = Outcome["unused"]
    BY <1>1 DEF Outcomes
  <2>3. QED  BY <2>1, <2>2, OutcomeIs
<1>4. Abstract!Make(p)
  BY <1>2, <1>3 DEF Abstract!Make, Outcomes, Askeds, Aheads
<1>5. QED  BY <1>4 DEF Step, Abstract!FuturesNext

\* A new reaction comes after those that were asked for of the same promise.
LEMMA thenStep ==
  ASSUME IInv, NEW p \in Promise, NEW d \in Promise, NEW on \in Handlers, then(p, d, on)
  PROVE  Step
<1> DEFINE r == [of |-> p, gives |-> d, on |-> on]
<1>1. /\ state[p] # "unused" /\ state[d] = "unused"
      /\ state' = [state EXCEPT ![d] = "kPending"]
      /\ r \in Reactions /\ r.of = p /\ r.gives = d
  BY DEF then, Reactions
<1>2. \/ /\ state[p] = "kPending" /\ UNCHANGED queue
         /\ waiting' = [waiting EXCEPT ![p] = Append(@, r)]
      \/ /\ state[p] # "kPending" /\ UNCHANGED waiting
         /\ queue' = Append(queue, r)
  BY DEF then
<1> HIDE DEF r
<1>3. /\ queue \in Seq(Reactions) /\ waiting[p] \in Seq(Reactions)
      /\ waiting \in [Promise -> Seq(Reactions)]
  BY DEF IInv, TypeOK
\* Nobody asks for d yet.
<1>4. /\ \A q, e : ~Asks(queue, q, d) /\ ~Precedes(queue, e, d)
      /\ \A q \in Promise : \A x, e : ~Asks(waiting[q], x, d) /\ ~Precedes(waiting[q], e, d)
  BY <1>1 DEF IInv, GivesFresh, Fresh, Asks, Precedes
<1>5. /\ \A q \in Promise : AskedOf(q)' = IF q = p THEN AskedOf(q) \cup {d} ELSE AskedOf(q)
      /\ \A e \in Promise : AheadOf(e)' = IF e = d THEN AskedOf(p) ELSE AheadOf(e)
  <2>1. CASE /\ state[p] = "kPending" /\ UNCHANGED queue
             /\ waiting' = [waiting EXCEPT ![p] = Append(@, r)]
    <3>1. waiting'[p] = Append(waiting[p], r) /\ \A q \in Promise \ {p} : waiting'[q] = waiting[q]
      BY <2>1, <1>3
    <3>2. /\ \A q, e : Asks(waiting'[p], q, e) <=> Asks(waiting[p], q, e) \/ (q = p /\ e = d)
          /\ \A x, e : Precedes(waiting'[p], x, e)
                       <=> Precedes(waiting[p], x, e) \/ (Asks(waiting[p], p, x) /\ e = d)
      BY <3>1, <1>1, <1>3, AppendAsks
    <3>3. \A e : ~Asks(queue, p, e)
      BY <2>1, AskedWhere DEF Settled
    <3>4. ASSUME NEW q \in Promise
          PROVE  AskedOf(q)' = IF q = p THEN AskedOf(q) \cup {d} ELSE AskedOf(q)
      BY <2>1, <3>1, <3>2 DEF AskedOf
    <3>5. ASSUME NEW e \in Promise
          PROVE  AheadOf(e)' = IF e = d THEN AskedOf(p) ELSE AheadOf(e)
      <4>1. CASE e = d
        <5>1. ASSUME NEW x \in Promise
              PROVE  (Precedes(queue', x, e) \/ \E q \in Promise : Precedes(waiting'[q], x, e))
                     <=> Asks(queue, p, x) \/ Asks(waiting[p], p, x)
          BY <2>1, <3>1, <3>2, <3>3, <1>4, <4>1
        <5>2. QED  BY <4>1, <5>1 DEF AskedOf, AheadOf
      <4>2. CASE e # d
        <5>1. ASSUME NEW x \in Promise
              PROVE  (Precedes(queue', x, e) \/ \E q \in Promise : Precedes(waiting'[q], x, e))
                     <=> (Precedes(queue, x, e) \/ \E q \in Promise : Precedes(waiting[q], x, e))
          BY <2>1, <3>1, <3>2, <4>2
        <5>2. QED  BY <4>2, <5>1 DEF AheadOf
      <4>3. QED  BY <4>1, <4>2
    <3>6. QED  BY <3>4, <3>5
  <2>2. CASE state[p] # "kPending" /\ UNCHANGED waiting /\ queue' = Append(queue, r)
    <3>1. /\ \A q, e : Asks(queue', q, e) <=> Asks(queue, q, e) \/ (q = p /\ e = d)
          /\ \A x, e : Precedes(queue', x, e)
                       <=> Precedes(queue, x, e) \/ (Asks(queue, p, x) /\ e = d)
      BY <2>2, <1>1, <1>3, AppendAsks
    <3>2. \A x, e : ~Asks(waiting[p], x, e)
      BY <2>2, AskedWhere
    <3>3. ASSUME NEW q \in Promise
          PROVE  AskedOf(q)' = IF q = p THEN AskedOf(q) \cup {d} ELSE AskedOf(q)
      BY <2>2, <3>1 DEF AskedOf
    <3>4. ASSUME NEW e \in Promise
          PROVE  AheadOf(e)' = IF e = d THEN AskedOf(p) ELSE AheadOf(e)
      <4>1. CASE e = d
        <5>1. ASSUME NEW x \in Promise
              PROVE  (Precedes(queue', x, e) \/ \E q \in Promise : Precedes(waiting'[q], x, e))
                     <=> Asks(queue, p, x) \/ Asks(waiting[p], p, x)
          BY <2>2, <3>1, <3>2, <1>4, <4>1
        <5>2. QED  BY <4>1, <5>1 DEF AskedOf, AheadOf
      <4>2. CASE e # d
        BY <2>2, <3>1, <4>2 DEF AheadOf
      <4>3. QED  BY <4>1, <4>2
    <3>5. QED  BY <3>3, <3>4
  <2>3. QED  BY <1>2, <2>1, <2>2
<1>6. Askeds' = [Askeds EXCEPT ![p] = @ \cup {d}] /\ Aheads' = [Aheads EXCEPT ![d] = Askeds[p]]
  BY <1>5 DEF Askeds, Aheads
<1>7. /\ Outcomes' = [Outcomes EXCEPT ![d] = "pending"]
      /\ Outcomes[d] = "unused" /\ Outcomes[p] # "unused"
  <2>1. state[p] \in States \cup {"unused"}
    BY DEF IInv, TypeOK
  <2>2. Outcomes' = [Outcomes EXCEPT ![d] = Outcome["kPending"]]
    BY <1>1, OutcomeChanges
  <2>3. Outcomes[d] = Outcome["unused"] /\ Outcomes[p] = Outcome[state[p]]
    BY <1>1 DEF Outcomes
  <2>4. Outcome[state[p]] # "unused"
    BY <1>1, <2>1, OutcomeIs
  <2>5. QED  BY <2>2, <2>3, <2>4, OutcomeIs
<1>8. Abstract!Ask(p, d)
  BY <1>6, <1>7 DEF Abstract!Ask, Outcomes, Askeds, Aheads
<1>9. QED  BY <1>8 DEF Step, Abstract!FuturesNext

\* The first microtask is called or passed over.
LEMMA StartJobStep == ASSUME IInv, StartJob PROVE Step
<1>0. PICK p \in Promise, g \in Promise : p = Head(queue).of /\ g = Head(queue).gives
  BY HeadTaken DEF StartJob
<1>1. queue # <<>> /\ state[p] \in Settled
      /\ state[g] = "kPending" /\ Tail(queue) \in Seq(Reactions)
  BY <1>0, HeadTaken DEF StartJob, Fresh
<1>2. /\ \A q, d : Asks(Tail(queue), q, d) => Asks(queue, q, d)
      /\ g \in AskedOf(p) /\ AheadOf(g) = {}
  BY <1>0, <1>1, HeadIsFirst
<1>3. \/ queue' = Tail(queue) /\ UNCHANGED <<state, waiting>>
      \/ Settle(g, state[p], Tail(queue))
  BY <1>0 DEF StartJob
<1>4. /\ \A q \in Promise : AskedOf(q)' =
             {d \in Promise : Asks(Tail(queue), q, d) \/ Asks(waiting[q], q, d)}
      /\ \A e \in Promise : AheadOf(e)' =
             {d \in Promise : \/ Precedes(Tail(queue), d, e)
                              \/ \E q \in Promise : Precedes(waiting[q], d, e)}
  <2>1. CASE queue' = Tail(queue) /\ UNCHANGED <<state, waiting>>
    BY <2>1 DEF AskedOf, AheadOf
  <2>2. CASE Settle(g, state[p], Tail(queue))
    BY <1>1, <1>2, <2>2, SettleAsks
  <2>3. QED  BY <1>3, <2>1, <2>2
<1>5. /\ \A q \in Promise : AskedOf(q)' = IF q = p THEN AskedOf(q) \ {g} ELSE AskedOf(q)
      /\ \A e \in Promise : AheadOf(e)' = AheadOf(e) \ {g}
  BY <1>0, <1>1, <1>4, HeadIsFirst
<1>6. /\ Askeds' = [Askeds EXCEPT ![p] = @ \ {g}]
      /\ Aheads' = [e \in Promise |-> Aheads[e] \ {g}]
  BY <1>5 DEF Askeds, Aheads
<1>7. g \in Askeds[p] /\ Aheads[g] = {}
  BY <1>1, <1>2 DEF Askeds, Aheads
<1>8. Outcomes' = Outcomes \/ Outcomes' = [Outcomes EXCEPT ![g] = Outcomes[p]]
  <2>1. CASE UNCHANGED state
    BY <2>1 DEF Outcomes
  <2>2. CASE Settle(g, state[p], Tail(queue))
    <3>1. state' = [state EXCEPT ![g] = state[p]]
      BY <2>2 DEF Settle
    <3>2. Outcomes[p] = Outcome[state[p]]
      BY <1>1 DEF Outcomes
    <3>3. QED  BY <1>1, <3>1, <3>2, OutcomeChanges
  <2>3. QED  BY <1>3, <2>1, <2>2
<1>9. Outcomes[p] \in Abstract!Settled
  BY <1>1, OutcomeIs DEF Outcomes
<1>10. Abstract!Answer(p)
  BY <1>6, <1>7, <1>8, <1>9 DEF Abstract!Answer, Outcomes, Askeds, Aheads
<1>11. QED  BY <1>10 DEF Step, Abstract!FuturesNext

LEMMA NextImplements == ASSUME IInv, [Next]_vars PROVE Step
<1>1. ASSUME NEW p \in Promise, ResolverInit(p) PROVE Step
  BY <1>1, ResolverInitStep
<1>2. ASSUME NEW p \in Promise, NEW how \in Settled, settle(p, how) PROVE Step
  BY <1>2, settleStep
<1>3. ASSUME NEW p \in Promise, NEW d \in Promise, NEW on \in Handlers, then(p, d, on)
      PROVE  Step
  BY <1>3, thenStep
<1>4. CASE StartJob
  BY <1>4, StartJobStep
<1>5. ASSUME NEW how \in Settled, EndJob(how) PROVE Step
  BY <1>5, EndJobStep
<1>6. CASE \/ \E p \in Promise : markAsHandled(p)
           \/ \E x \in Policies : setMicrotasksPolicy(x)
           \/ performMicrotasksCheckpoint \/ Call \/ EnterCallback \/ LeaveCallback
           \/ EndCheckpoint \/ UNCHANGED vars
  <2>1. UNCHANGED <<state, waiting, queue>>
    BY <1>6 DEF markAsHandled, setMicrotasksPolicy, performMicrotasksCheckpoint, Call,
                EnterCallback, LeaveCallback, EndCheckpoint, rest, vars
  <2>2. QED  BY <2>1 DEF Step, Abstract!futureVars, AskedOf, AheadOf
<1>7. QED
  BY <1>1, <1>2, <1>3, <1>4, <1>5, <1>6 DEF Next, Embedder, Microtasks

\* With V8's queue promises do what Futures promises: each settles once, its
\* reactions are called once each and in the order in which they were asked for, and
\* nothing settles what a reaction still has to give.
THEOREM PromisesObeyFutures == Spec => ObeysFutures
<1>1. Init => Abstract!FuturesInit
  <2> SUFFICES ASSUME Init PROVE Abstract!FuturesInit
    OBVIOUS
  <2>1. \A s : s = <<>> => \A p, d : ~Asks(s, p, d) /\ ~Precedes(s, p, d)
    BY DEF Asks, Precedes
  <2>2. \A p \in Promise : AskedOf(p) = {} /\ AheadOf(p) = {}
    BY <2>1 DEF Init, AskedOf, AheadOf
  <2>3. \A p \in Promise : Outcome[state[p]] = "unused"
    BY OutcomeIs DEF Init
  <2>4. QED  BY <2>2, <2>3 DEF Abstract!FuturesInit
<1>2. IInv /\ [Next]_vars => [Abstract!FuturesNext]_(Abstract!futureVars)
  BY NextImplements DEF Step
<1>3. QED
  BY <1>1, <1>2, Invariance, PTL DEF Spec, ObeysFutures, Abstract!FuturesSafety
=============================================================================
