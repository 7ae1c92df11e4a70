------------------------------ MODULE Futures ------------------------------
(***************************************************************************)
(* What promises promise: each settles once; each handler asked for is     *)
(* called once, after its promise has settled and after the handlers that  *)
(* were asked for before it; and what it gives settles after that.         *)
(*                                                                         *)
(* A handler goes by the promise that it will give.  Promises implements   *)
(* this with V8's microtask queue.                                         *)
(***************************************************************************)
CONSTANT Promises

VARIABLES outcome,   \* outcome[p]: "unused", "pending", "fulfilled" or "rejected"
          asked,     \* asked[p]: the handlers of p not called yet
          ahead      \* ahead[d]: those asked for before d of the same promise

futureVars == <<outcome, asked, ahead>>

Settled == {"fulfilled", "rejected"}

FuturesInit == /\ outcome = [p \in Promises |-> "unused"]
               /\ asked = [p \in Promises |-> {}]
               /\ ahead = [p \in Promises |-> {}]

Make(p) == /\ outcome[p] = "unused"
           /\ outcome' = [outcome EXCEPT ![p] = "pending"]
           /\ UNCHANGED <<asked, ahead>>

\* Nobody settles what a handler still to be called will give.
Settle(p, how) == /\ outcome[p] = "pending"
                  /\ \A q \in Promises : p \notin asked[q]
                  /\ outcome' = [outcome EXCEPT ![p] = how]
                  /\ UNCHANGED <<asked, ahead>>

Ask(p, d) == /\ outcome[p] # "unused" /\ outcome[d] = "unused"
             /\ outcome' = [outcome EXCEPT ![d] = "pending"]
             /\ asked' = [asked EXCEPT ![p] = @ \cup {d}]
             /\ ahead' = [ahead EXCEPT ![d] = asked[p]]

\* The first handler of p is called, or passed over if it is for the other outcome:
\* then what it gives settles at once, as p did.
Answer(p) ==
    /\ outcome[p] \in Settled
    /\ \E d \in asked[p] :
         /\ ahead[d] = {}
         /\ asked' = [asked EXCEPT ![p] = @ \ {d}]
         /\ ahead' = [e \in Promises |-> ahead[e] \ {d}]
         /\ outcome' \in {outcome, [outcome EXCEPT ![d] = outcome[p]]}

FuturesNext ==
    \/ \E p \in Promises : \/ Make(p) \/ Answer(p)
                           \/ \E how \in Settled : Settle(p, how)
                           \/ \E d \in Promises : Ask(p, d)

FuturesSafety == FuturesInit /\ [][FuturesNext]_futureVars

FuturesSpec == FuturesSafety /\ \A p \in Promises : WF_futureVars(Answer(p))
=============================================================================
