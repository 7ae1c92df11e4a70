------------------------------ MODULE Promises ------------------------------
(***************************************************************************)
(* Promises of one isolate as v8.zig offers them: resolvers, then, onCatch *)
(* and thenAndCatch, markAsHandled, the reject callback, and the microtask *)
(* queue with its policies.                                                *)
(*                                                                         *)
(* A reaction is a microtask, queued when its promise settles, or at once  *)
(* if it has settled before.  Under the policy kAuto V8 runs the queue at  *)
(* the end of a call from Zig into JavaScript that was not made by a       *)
(* callback or a reaction; under kExplicit only                            *)
(* performMicrotasksCheckpoint does.                                       *)
(* Values are plain: a promise is not resolved with another promise.       *)
(***************************************************************************)
EXTENDS Naturals, Sequences

CONSTANTS Promise,   \* the promises that can be made
          None       \* no reaction

VARIABLES state,     \* state[p]: "unused", or what getState tells
          waiting,   \* waiting[p]: the reactions to p while it is pending, in order
          queue,     \* the microtasks
          job,       \* the reaction whose handler is running, or None
          running,   \* V8 is running microtasks
          depth,     \* callbacks from JavaScript that the Zig code is in: 0 or 1
          policy,    \* the microtask policy
          resolvers, \* the promises that have a PromiseResolver
          handled,   \* the promises that V8 takes for handled
          known,     \* rejections notified and not revoked by the reject callback
          late       \* (history) marked as handled after their rejection was notified

rest == <<state, waiting, queue, resolvers, handled, known, late>>
vars == <<state, waiting, queue, job, running, depth, policy, resolvers, handled, known, late>>
taskVars == <<job, running, depth, policy>>

States == {"kPending", "kFulfilled", "kRejected"}
Settled == {"kFulfilled", "kRejected"}
Policies == {"kAuto", "kExplicit"}

\* The outcomes that a reaction has a handler for.
Handlers == {{"kFulfilled"}, {"kRejected"}, Settled}
Reactions == [of : Promise, gives : Promise, on : Handlers]

TypeOK == /\ state \in [Promise -> States \cup {"unused"}]
          /\ waiting \in [Promise -> Seq(Reactions)] /\ queue \in Seq(Reactions)
          /\ job \in Reactions \cup {None} /\ running \in BOOLEAN
          /\ depth \in {0, 1} /\ policy \in Policies
          /\ resolvers \subseteq Promise /\ handled \subseteq Promise
          /\ known \subseteq Promise /\ late \subseteq known
          \* A reaction waits for a pending promise and is queued for a settled one.
          /\ \A p \in Promise : \A i \in DOMAIN waiting[p] :
                waiting[p][i].of = p /\ state[p] = "kPending"
          /\ \A i \in DOMAIN queue : state[queue[i].of] \in Settled
          /\ job # None => running

Init == /\ state = [p \in Promise |-> "unused"]
        /\ waiting = [p \in Promise |-> <<>>] /\ queue = <<>> /\ job = None
        /\ running = FALSE /\ depth = 0 /\ policy = "kAuto"
        /\ resolvers = {} /\ handled = {} /\ known = {} /\ late = {}

\* Zig code runs, of the embedder, of a callback or of a reaction's handler.
InZig == ~running \/ job # None

\* V8 finishes a call from Zig that runs JavaScript.
Completed == /\ running' = (running \/ (policy = "kAuto" /\ depth' = 0 /\ queue' # <<>>))
             /\ UNCHANGED <<job, policy>>
------------------------------------------------------------------------------
\* Promise p settles: its reactions are queued in order behind before, and a
\* rejection that has no handler is notified.
Settle(p, how, before) ==
    /\ state' = [state EXCEPT ![p] = how]
    /\ queue' = before \o waiting[p]
    /\ waiting' = [waiting EXCEPT ![p] = <<>>]
    /\ known' = IF how = "kRejected" /\ p \notin handled THEN known \cup {p} ELSE known

ResolverInit(p) ==
    /\ InZig /\ state[p] = "unused"
    /\ state' = [state EXCEPT ![p] = "kPending"]
    /\ resolvers' = resolvers \cup {p}
    /\ UNCHANGED <<waiting, queue, taskVars, handled, known, late>>

\* A plausible bug in settle: a settled promise is settled again.
settleAgain(p, how) ==
    /\ InZig /\ p \in resolvers
    /\ Settle(p, how, queue)
    /\ UNCHANGED <<depth, resolvers, handled, late>>
    /\ Completed

\* resolve and reject: true, and no effect, if the promise has settled.
settle(p, how) ==
    /\ InZig /\ p \in resolvers
    /\ IF state[p] = "kPending" THEN Settle(p, how, queue)
       ELSE UNCHANGED <<state, waiting, queue, known>>
    /\ UNCHANGED <<depth, resolvers, handled, late>>
    /\ Completed

\* Plausible bugs in then: a rejection is not revoked; or a reaction to a promise
\* that has settled waits for it all the same.
thenUnrevoked(p, d, on) ==
    LET r == [of |-> p, gives |-> d, on |-> on]
    IN  /\ InZig /\ state[p] # "unused" /\ state[d] = "unused"
        /\ state' = [state EXCEPT ![d] = "kPending"]
        /\ IF state[p] = "kPending"
           THEN waiting' = [waiting EXCEPT ![p] = Append(@, r)] /\ UNCHANGED queue
           ELSE queue' = Append(queue, r) /\ UNCHANGED waiting
        /\ handled' = handled \cup {p}
        /\ UNCHANGED <<taskVars, resolvers, known, late>>

thenWaiting(p, d, on) ==
    /\ InZig /\ state[p] # "unused" /\ state[d] = "unused"
    /\ state' = [state EXCEPT ![d] = "kPending"]
    /\ waiting' = [waiting EXCEPT ![p] = Append(@, [of |-> p, gives |-> d, on |-> on])]
    /\ handled' = handled \cup {p}
    /\ known' = IF p \in handled THEN known ELSE known \ {p}
    /\ UNCHANGED <<queue, taskVars, resolvers, late>>

\* then, onCatch and thenAndCatch give a new promise d.  They run no JavaScript:
\* under kAuto a microtask queued here may have to wait for the next call.
then(p, d, on) ==
    LET r == [of |-> p, gives |-> d, on |-> on]
    IN  /\ InZig /\ state[p] # "unused" /\ state[d] = "unused"
        /\ state' = [state EXCEPT ![d] = "kPending"]
        /\ IF state[p] = "kPending"
           THEN waiting' = [waiting EXCEPT ![p] = Append(@, r)] /\ UNCHANGED queue
           ELSE queue' = Append(queue, r) /\ UNCHANGED waiting
        /\ handled' = handled \cup {p}
        /\ known' = IF p \in handled THEN known ELSE known \ {p}
        /\ UNCHANGED <<depth, resolvers, late>>
        /\ UNCHANGED taskVars \/ Completed

\* Before a rejection it keeps it from being notified; after it, V8 revokes nothing.
markAsHandled(p) ==
    /\ InZig /\ state[p] # "unused"
    /\ handled' = handled \cup {p}
    /\ late' = IF p \in known /\ p \notin handled THEN late \cup {p} ELSE late
    /\ UNCHANGED <<state, waiting, queue, taskVars, resolvers, known>>

\* The embedder chooses its policy before it starts.
setMicrotasksPolicy(x) ==
    /\ \A p \in Promise : state[p] = "unused"
    /\ ~running /\ depth = 0
    /\ policy' = x
    /\ UNCHANGED <<rest, job, running, depth>>

\* Without effect while microtasks are running.
performMicrotasksCheckpoint ==
    /\ InZig
    /\ running' = (running \/ queue # <<>>)
    /\ UNCHANGED <<rest, job, depth, policy>>
------------------------------------------------------------------------------
\* Zig calls a function or runs a script.
Call == InZig /\ UNCHANGED <<rest, depth>> /\ Completed

\* JavaScript, called from Zig, calls a callback, and ends after it.
EnterCallback ==
    /\ ~running /\ depth = 0
    /\ depth' = 1
    /\ UNCHANGED <<rest, job, running, policy>>

LeaveCallback ==
    /\ ~running /\ depth = 1
    /\ depth' = 0
    /\ UNCHANGED rest
    /\ Completed

\* The next microtask: the handler is called, or there is none for this outcome.
StartJob ==
    LET r == Head(queue)
    IN  /\ running /\ job = None /\ queue # <<>>
        /\ \/ /\ state[r.of] \in r.on
              /\ job' = r /\ queue' = Tail(queue)
              /\ UNCHANGED <<state, waiting, known>>
           \/ /\ state[r.of] \notin r.on
              /\ Settle(r.gives, state[r.of], Tail(queue))
              /\ UNCHANGED job
        /\ UNCHANGED <<running, depth, policy, resolvers, handled, late>>

\* The handler returns a value or throws.
EndJob(how) ==
    /\ job # None
    /\ Settle(job.gives, how, queue)
    /\ job' = None
    /\ UNCHANGED <<running, depth, policy, resolvers, handled, late>>

EndCheckpoint ==
    /\ running /\ job = None /\ queue = <<>>
    /\ running' = FALSE
    /\ UNCHANGED <<rest, job, depth, policy>>

Embedder == \/ \E p \in Promise : \/ ResolverInit(p) \/ markAsHandled(p)
                                  \/ \E how \in Settled : settle(p, how)
                                  \/ \E d \in Promise, on \in Handlers : then(p, d, on)
            \/ \E x \in Policies : setMicrotasksPolicy(x)
            \/ performMicrotasksCheckpoint \/ Call

Microtasks == StartJob \/ (\E how \in Settled : EndJob(how)) \/ EndCheckpoint

Next == Embedder \/ EnterCallback \/ LeaveCallback \/ Microtasks

\* Callbacks and handlers end; the embedder goes on to call JavaScript or, if it has
\* asked for kExplicit, to perform checkpoints.
Fairness == /\ WF_vars(Microtasks) /\ WF_vars(LeaveCallback)
            /\ WF_vars(policy = "kAuto" /\ ~running /\ depth = 0 /\ Call)
            /\ WF_vars(policy = "kExplicit" /\ ~running /\ performMicrotasksCheckpoint)

Spec == Init /\ [][Next]_vars
FairSpec == Spec /\ Fairness
------------------------------------------------------------------------------
(***************************************************************************)
(* Properties                                                              *)
(***************************************************************************)
\* An embedder that follows the reject callback knows the rejections that nobody
\* reacts to: all of them but those marked as handled before, and no other.  Only a
\* reaction to one that was marked after its rejection is not told to it.
ReactedTo(p) == \/ waiting[p] # <<>>
                \/ \E i \in DOMAIN queue : queue[i].of = p
                \/ job # None /\ job.of = p
RejectionsAreKnown ==
    /\ \A p \in known : state[p] = "kRejected" /\ (ReactedTo(p) => p \in late)
    /\ \A p \in Promise : state[p] = "kRejected" /\ p \notin handled => p \in known

\* Why they are: who is reacted to is handled, a rejection that is known and handled
\* was marked too late, and what a reaction gives is pending, of no resolver and given
\* by no other reaction, so that no rejected promise settles a second time.
Kept == /\ \A p \in Promise : ReactedTo(p) => p \in handled
        /\ late \subseteq handled /\ known \cap handled \subseteq late
        /\ \A p \in known : state[p] = "kRejected"
        /\ resolvers \cap {p \in Promise : state[p] = "unused"} = {}
        /\ job # None => state[job.of] \in Settled
Fresh(p) == state[p] = "kPending" /\ p \notin resolvers
GivesFresh == /\ \A p \in Promise : \A i \in DOMAIN waiting[p] : Fresh(waiting[p][i].gives)
              /\ \A i \in DOMAIN queue : Fresh(queue[i].gives)
              /\ job # None => Fresh(job.gives)
GivesOnce ==
    /\ \A p, q \in Promise : \A i \in DOMAIN waiting[p], j \in DOMAIN waiting[q] :
          waiting[p][i].gives = waiting[q][j].gives => p = q /\ i = j
    /\ \A i, j \in DOMAIN queue : queue[i].gives = queue[j].gives => i = j
    /\ \A p \in Promise : \A i \in DOMAIN waiting[p], j \in DOMAIN queue :
          waiting[p][i].gives # queue[j].gives
    /\ job # None =>
          /\ \A p \in Promise : \A i \in DOMAIN waiting[p] : waiting[p][i].gives # job.gives
          /\ \A i \in DOMAIN queue : queue[i].gives # job.gives
IInv == TypeOK /\ RejectionsAreKnown /\ Kept /\ GivesFresh /\ GivesOnce

\* The microtask queue keeps what promises promise, in order, and in the end.
Outcome == [unused |-> "unused", kPending |-> "pending",
            kFulfilled |-> "fulfilled", kRejected |-> "rejected"]
Asks(s, p, d) == \E i \in DOMAIN s : s[i].of = p /\ s[i].gives = d
Precedes(s, d, e) == \E i, j \in DOMAIN s : /\ i < j /\ s[i].of = s[j].of
                                            /\ s[i].gives = d /\ s[j].gives = e
AskedOf(p) == {d \in Promise : Asks(queue, p, d) \/ Asks(waiting[p], p, d)}
AheadOf(e) == {d \in Promise : \/ Precedes(queue, d, e)
                               \/ \E p \in Promise : Precedes(waiting[p], d, e)}
Abstract == INSTANCE Futures WITH
    Promises <- Promise,
    outcome <- [p \in Promise |-> Outcome[state[p]]],
    asked <- [p \in Promise |-> AskedOf(p)],
    ahead <- [p \in Promise |-> AheadOf(p)]
ObeysFutures == Abstract!FuturesSafety
ImplementsFutures == Abstract!FuturesSpec
=============================================================================
