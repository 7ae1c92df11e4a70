----------------------------- MODULE Exceptions -----------------------------
(***************************************************************************)
(* Exceptions between Zig and JavaScript: calls of v8.zig that run         *)
(* JavaScript and how they tell of a failure, callbacks from JavaScript to *)
(* Zig, TryCatch, throwException and terminateExecution.                   *)
(*                                                                         *)
(* A Zig function that called JavaScript gets null, error.JsException or   *)
(* false; the exception itself is in the innermost TryCatch that the Zig   *)
(* function has open.  If it has none, V8 keeps the exception as           *)
(* "scheduled", and throws it on in the JavaScript that called the Zig     *)
(* function as soon as that returns.  A termination is requested, possibly *)
(* by another thread, and noticed by running JavaScript later; JavaScript  *)
(* cannot catch it, and until all of it has ended every call fails.        *)
(***************************************************************************)
EXTENDS Naturals, Sequences

CONSTANTS Errors,        \* JavaScript values that are thrown
          Termination,   \* V8's termination exception
          None,          \* no exception
          MaxDepth,      \* bound: frames on the stack
          MaxRequests    \* bound: calls of terminateExecution

ASSUME ExceptionsAssumption ==
    /\ Termination \notin Errors /\ None \notin Errors \cup {Termination}
    /\ MaxDepth \in Nat \ {0} /\ MaxRequests \in Nat

VARIABLES stack,      \* the frames of the thread, outermost first
          scheduled,  \* V8's scheduled exception
          requested,  \* a termination was requested and not noticed yet
          requests,   \* how often it was
          result      \* what the Zig function on top was told of its last call

vars == <<stack, scheduled, requested, requests, result>>

Thrown == Errors \cup {Termination}

\* What runs JavaScript: Function.call and initInstance; Script.run, compile,
\* Object.getValue, Value.toString and the like; Object.setValue; Object.has.
Wrappers == {"call", "run", "setValue", "has"}

\* How each tells that it failed; has says the same of a property that is absent.
Failure == [call |-> "null", run |-> "JsException", setValue |-> "false", has |-> "absent"]
Success(w) == IF w = "has" THEN {"present", "absent"} ELSE {"value"}
Failures == {"null", "JsException", "false"}

Zig == [kind |-> "zig"]                     \* main, or a callback
Js(w) == [kind |-> "js", wrapper |-> w]     \* JavaScript, run by wrapper w
Block == [kind |-> "block"]                 \* a try block of the Js below it
TryCatches == [kind : {"try"}, caught : Thrown \cup {None}, rethrown : BOOLEAN]
Frames == {Zig, Block} \cup {Js(w) : w \in Wrappers} \cup TryCatches

Top == stack[Len(stack)]
Below == SubSeq(stack, 1, Len(stack) - 1)
InZig == Top.kind \in {"zig", "try"}
InJavaScript == Top.kind \in {"js", "block"}
OfKind(s, K) == {i \in DOMAIN s : s[i].kind \in K}
Outermost(s) == OfKind(s, {"js"}) = {}
Innermost(s, K) == CHOOSE i \in OfKind(s, K) : \A j \in OfKind(s, K) : j <= i

TypeOK == /\ stack \in Seq(Frames) /\ Len(stack) \in 1 .. MaxDepth
          /\ stack[1] = Zig
          /\ scheduled \in Thrown \cup {None}
          /\ requested \in BOOLEAN /\ requests \in 0 .. MaxRequests
          /\ result \in {"none", "value", "present", "absent"} \cup Failures
          \* Blocks are in JavaScript, callbacks on top of it, TryCatches in Zig.
          /\ \A i \in 2 .. Len(stack) :
                stack[i - 1].kind \in (IF stack[i].kind \in {"block", "zig"}
                                       THEN {"js", "block"} ELSE {"zig", "try"})

Init == /\ stack = <<Zig>>
        /\ scheduled = None
        /\ requested = FALSE /\ requests = 0
        /\ result = "none"
------------------------------------------------------------------------------
(***************************************************************************)
(* Where an exception goes.                                                *)
(***************************************************************************)
\* The termination marks the innermost TryCatch, whatever lies between.
Mark(s) == LET i == Innermost(s, {"try"})
           IN  IF OfKind(s, {"try"}) = {} THEN s
               ELSE [s EXCEPT ![i].caught = Termination]

\* A plausible bug in Deliver: every failing call drops its exception, not only
\* one of the outermost function.
DeliverDropping(e, s) ==
    LET top == s[Len(s)]
    IN  /\ stack' = IF e = Termination THEN Mark(s)
                    ELSE IF top.kind = "try" THEN [s EXCEPT ![Len(s)].caught = e] ELSE s
        /\ scheduled' = None

\* Exception e comes to the Zig function on top of s.  An error is kept by its
\* TryCatch, or scheduled for the JavaScript that called it, or reported to the
\* message listeners if there is none.  A termination stays scheduled as long as
\* there is JavaScript or a TryCatch to pass through.
Deliver(e, s) ==
    LET top == s[Len(s)]
    IN  IF e = Termination
        THEN /\ stack' = Mark(s)
             /\ scheduled' = IF Outermost(s) /\ OfKind(s, {"try"}) = {}
                             THEN None ELSE Termination
        ELSE /\ stack' = IF top.kind = "try"
                         THEN [s EXCEPT ![Len(s)].caught = e] ELSE s
             /\ scheduled' = IF top.kind = "zig" /\ ~Outermost(s) THEN e ELSE None

\* A plausible bug in Unwind: a try block of JavaScript catches a termination.
UnwindCatchingAll(e, s) ==
    LET n == Innermost(s, {"zig", "try"})
        blocks == OfKind(s, {"block"}) \cap (n .. Len(s))
    IN  IF blocks # {}
        THEN /\ stack' = SubSeq(s, 1, Innermost(s, {"block"}) - 1)
             /\ scheduled' = None
             /\ result' = "none"
        ELSE /\ Deliver(e, SubSeq(s, 1, n))
             /\ result' = Failure[s[n + 1].wrapper]

\* Exception e is thrown in the JavaScript on top of s: the innermost try block
\* of it goes on, or the call of the Zig function below fails.
Unwind(e, s) ==
    LET n == Innermost(s, {"zig", "try"})
        blocks == OfKind(s, {"block"}) \cap (n .. Len(s))
    IN  IF e # Termination /\ blocks # {}
        THEN /\ stack' = SubSeq(s, 1, Innermost(s, {"block"}) - 1)
             /\ scheduled' = None
             /\ result' = "none"
        ELSE /\ Deliver(e, SubSeq(s, 1, n))
             /\ result' = Failure[s[n + 1].wrapper]
------------------------------------------------------------------------------
(***************************************************************************)
(* Zig.  While an exception is scheduled, or after rethrow, the embedder   *)
(* only closes what it has open and returns; calls that it tries while     *)
(* terminating fail.                                                       *)
(***************************************************************************)
Calm == scheduled = None /\ (Top.kind = "try" => ~Top.rethrown)
Push(f) == Len(stack) < MaxDepth /\ stack' = Append(stack, f)

TryCatchInit ==
    /\ InZig /\ Calm
    /\ Push([kind |-> "try", caught |-> None, rethrown |-> FALSE])
    /\ result' = "none"
    /\ UNCHANGED <<scheduled, requested, requests>>

\* rethrow unwraps the result of ReThrow, which is empty if nothing was caught;
\* thrown over a scheduled termination, the error would replace it.
rethrow ==
    /\ Top.kind = "try" /\ Top.caught \in Errors /\ scheduled = None
    /\ stack' = [stack EXCEPT ![Len(stack)].rethrown = TRUE]
    /\ UNCHANGED <<scheduled, requested, requests, result>>

\* A plausible bug in TryCatchDeinit: rethrow has no effect.
TryCatchDeinitSilent ==
    /\ Top.kind = "try"
    /\ stack' = Below
    /\ scheduled' = IF Outermost(Below) THEN None ELSE scheduled
    /\ result' = "none"
    /\ UNCHANGED <<requested, requests>>

\* The destructor throws again what rethrow was called for.  It takes back what is
\* scheduled, but for a termination with JavaScript still to end.
TryCatchDeinit ==
    /\ Top.kind = "try"
    /\ IF Top.rethrown THEN Deliver(Top.caught, Below)
       ELSE /\ stack' = Below
            /\ scheduled' = IF Outermost(Below) THEN None ELSE scheduled
    /\ result' = "none"
    /\ UNCHANGED <<requested, requests>>

\* Meant for callbacks; the error is thrown when the callback returns.
throwException(e) ==
    /\ InZig /\ Calm /\ ~Outermost(stack)
    /\ Deliver(e, stack)
    /\ result' = "none"
    /\ UNCHANGED <<requested, requests>>

Call(w) ==
    /\ InZig
    /\ \/ /\ Calm
          /\ Push(Js(w))
          /\ result' = "none"
       \/ /\ scheduled = Termination
          /\ result' = Failure[w]
          /\ UNCHANGED stack
    /\ UNCHANGED <<scheduled, requested, requests>>

\* Plausible bugs in Return: JavaScript goes on although something is scheduled;
\* or a TryCatch of the callback stays open.
ReturnKeeping ==
    /\ Top = Zig /\ Len(stack) > 1
    /\ stack' = Below
    /\ result' = "none"
    /\ UNCHANGED <<scheduled, requested, requests>>

ReturnLeavingOpen ==
    LET n == Innermost(stack, {"zig"})
    IN  /\ InZig /\ n > 1 /\ scheduled = None
        /\ stack' = SubSeq(stack, 1, n - 1) \o SubSeq(stack, n + 1, Len(stack))
        /\ result' = "none"
        /\ UNCHANGED <<scheduled, requested, requests>>

\* A callback ends.  JavaScript goes on with its ReturnValue or with the exception.
Return ==
    /\ Top = Zig /\ Len(stack) > 1
    /\ IF scheduled = None
       THEN stack' = Below /\ result' = "none" /\ UNCHANGED scheduled
       ELSE Unwind(scheduled, Below)
    /\ UNCHANGED <<requested, requests>>

\* From any thread, at any time.
terminateExecution ==
    /\ requests < MaxRequests
    /\ requested' = TRUE
    /\ requests' = requests + 1
    /\ UNCHANGED <<stack, scheduled, result>>

\* Takes back the request, and the exception if it was noticed already.  The
\* TryCatch that was marked stays so: the binding cannot reset one.
cancelTerminateExecution ==
    /\ InZig
    /\ requested' = FALSE
    /\ scheduled' = IF scheduled = Termination THEN None ELSE scheduled
    /\ result' = "none"
    /\ UNCHANGED <<stack, requests>>
------------------------------------------------------------------------------
(***************************************************************************)
(* JavaScript.                                                             *)
(***************************************************************************)
callback == InJavaScript /\ Push(Zig) /\ result' = "none"
            /\ UNCHANGED <<scheduled, requested, requests>>

tryBlock == InJavaScript /\ Push(Block) /\ UNCHANGED <<scheduled, requested, requests, result>>

endBlock == /\ Top = Block
            /\ stack' = Below
            /\ UNCHANGED <<scheduled, requested, requests, result>>

jsReturn == /\ Top.kind = "js"
            /\ stack' = Below
            /\ result' \in Success(Top.wrapper)
            /\ UNCHANGED <<scheduled, requested, requests>>

jsThrow(e) == /\ InJavaScript
              /\ Unwind(e, stack)
              /\ UNCHANGED <<requested, requests>>

\* At the entry of a function or the end of a loop's body.
noticeTermination == /\ InJavaScript /\ requested
                     /\ Unwind(Termination, stack)
                     /\ requested' = FALSE
                     /\ UNCHANGED requests

Embedder == \/ TryCatchInit \/ rethrow \/ TryCatchDeinit
            \/ \E e \in Errors : throwException(e)
            \/ \E w \in Wrappers : Call(w)
            \/ Return \/ cancelTerminateExecution

JavaScript == \/ callback \/ tryBlock \/ endBlock \/ jsReturn
              \/ \E e \in Errors : jsThrow(e)
              \/ noticeTermination

Next == Embedder \/ JavaScript \/ terminateExecution

\* A loop in JavaScript comes back to where it notices; an embedder that cannot
\* call any more closes its TryCatches and returns.
Fairness == /\ SF_vars(noticeTermination)
            /\ WF_vars(scheduled # None /\ (TryCatchDeinit \/ Return))

Spec == Init /\ [][Next]_vars
FairSpec == Spec /\ Fairness
------------------------------------------------------------------------------
(***************************************************************************)
(* Properties                                                              *)
(***************************************************************************)
\* A Zig function that is told of a failure finds the exception: in the TryCatch
\* it has open, or scheduled for its caller or for one further out.  Only main
\* without a TryCatch has nothing left to look at.
FailureHasReason ==
    result \in Failures => \/ Top.kind = "try" /\ Top.caught # None
                           \/ scheduled # None
                           \/ stack = <<Zig>>

\* What is scheduled is on its way to somebody: an error waits only in a callback
\* that has no TryCatch open, for the JavaScript that called it; a termination has
\* JavaScript to end or has marked a TryCatch that is still open; and JavaScript
\* never runs with either of them pending, to throw it where it does not belong.
ScheduledIsOnItsWay ==
    /\ InJavaScript => scheduled = None
    /\ scheduled \in Errors => Top = Zig /\ ~Outermost(stack)
    /\ scheduled = Termination =>
          ~Outermost(stack) \/ \E i \in DOMAIN stack : /\ stack[i].kind = "try"
                                                     /\ stack[i].caught = Termination

\* A script that was terminated ends, callbacks and all, unless the termination
\* is cancelled: nothing else puts an end to it before, and JavaScript that runs
\* on and on notices the request.
Terminating == requested \/ scheduled = Termination
TerminationHolds == [][Terminating /\ ~Terminating'
                       => Outermost(stack') \/ cancelTerminateExecution]_vars
TerminatedScriptsEnd ==
    /\ TerminationHolds
    /\ (scheduled = Termination) ~> (Outermost(stack) \/ scheduled = None)
    /\ ([]<>InJavaScript) => ([]<>(~requested))

\* Zig and JavaScript together are one stack of structured exception handling.
KindOf(f) == CASE f.kind \in {"zig", "js"} -> "plain"
               [] f.kind = "block" -> "block"
               [] f.kind = "try" -> IF f.rethrown THEN "rethrowing" ELSE "catching"
Abstract == INSTANCE StructuredExceptions WITH
    frames <- [i \in DOMAIN stack |-> KindOf(stack[i])],
    flying <- IF scheduled \in Errors THEN scheduled ELSE None
ImplementsStructuredExceptions == Abstract!StructuredSpec
==============================================================================
