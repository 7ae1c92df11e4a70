-------------------------------- MODULE Repl --------------------------------
(***************************************************************************)
(* The JavaScript shell of shell.zig: repl() sets V8 up statement by       *)
(* statement, reads and evaluates lines, and is taken down by its defers,  *)
(* which run last to first.  executeString and getTryCatchErrorString have *)
(* frames of their own with their own defers.  Meanwhile the worker        *)
(* threads of the platform run background jobs, and post a task to the     *)
(* shell's thread when one is done; pumpMessageLoop runs these.            *)
(*                                                                         *)
(* The module makes the calls of V8Lifecycle without asking whether they   *)
(* are allowed, as shell.zig does.                                         *)
(***************************************************************************)
EXTENDS V8Lifecycle, FiniteSets

CONSTANTS Isolate,      \* the one isolate of the shell
          Tasks,        \* bound: the background jobs that may ever be started
          MaxLines      \* bound: the lines that are read

\* The shell opens three handle scopes, one in the other.
ASSUME ReplAssumption == /\ Isolate \in Isolates /\ MaxDepth >= 3
                         /\ MaxLines \in Nat /\ IsFiniteSet(Tasks)

Nothing == "nothing"

\* The statements of repl() before its loop, each with what it defers.
Setup ==
    << [call |-> "gpa.init", defer |-> "gpa.deinit"],
       [call |-> "input_buf.init", defer |-> "input_buf.deinit"],
       [call |-> "initDefault", defer |-> "Platform.deinit"],
       [call |-> "initV8Platform", defer |-> "deinitV8Platform"],
       [call |-> "initV8", defer |-> "deinitV8"],
       [call |-> "createDefaultArrayBufferAllocator",
        defer |-> "destroyArrayBufferAllocator"],
       [call |-> "Isolate.init", defer |-> "Isolate.deinit"],
       [call |-> "Isolate.enter", defer |-> "Isolate.exit"],
       [call |-> "HandleScope.init", defer |-> "HandleScope.deinit"],
       [call |-> "Context.init", defer |-> Nothing],
       [call |-> "Context.enter", defer |-> "Context.exit"] >>

\* Plausible bugs in ExecuteSetup and ErrorSetup: a forgotten defer, of the TryCatch
\* or of the handle scope, and one too many.
ExecuteSetupUncaught == << [call |-> "HandleScope.init", defer |-> "HandleScope.deinit"],
                           [call |-> "TryCatch.init", defer |-> Nothing] >>
ExecuteSetupLeaky == << [call |-> "HandleScope.init", defer |-> Nothing],
                        [call |-> "TryCatch.init", defer |-> "TryCatch.deinit"] >>
ErrorSetupTwice == << [call |-> "HandleScope.init", defer |-> "HandleScope.deinit"],
                      [call |-> Nothing, defer |-> "HandleScope.deinit"] >>

\* The statements of executeString before it compiles, and of
\* getTryCatchErrorString before it looks at the exception.
ExecuteSetup == << [call |-> "HandleScope.init", defer |-> "HandleScope.deinit"],
                   [call |-> "TryCatch.init", defer |-> "TryCatch.deinit"] >>
ErrorSetup == << [call |-> "HandleScope.init", defer |-> "HandleScope.deinit"] >>

VARIABLES
    pc,         \* what the shell's thread does next
    at,         \* while a frame is set up, the statement it is at
    frames,     \* the defers of each open frame, innermost frame last
    heap,       \* what is allocated from the GPA
    gpa,        \* whether the GPA exists
    lines,      \* lines read so far
    ending,     \* how evaluating the line went: "value", "throw" or Nothing
    res,        \* ExecuteResult: Nothing (undefined), "value" or "error"
    fresh,      \* jobs not started yet
    running,    \* jobs that the workers run
    queue,      \* tasks posted and not yet run
    owed        \* history: tasks of queue posted before the last pumping began

thread == <<pc, at, frames, heap, gpa, lines, ending, res>>
platformTasks == <<fresh, running, queue, owed>>
vars == <<lifecycle, thread, platformTasks>>

ReplInit == /\ LifecycleInit
            /\ pc = "setup" /\ at = 1
            /\ frames = << <<>> >>
            /\ heap = {} /\ gpa = FALSE
            /\ lines = 0
            /\ ending = Nothing /\ res = Nothing
            /\ fresh = Tasks /\ running = {} /\ queue = {} /\ owed = {}

\* What each call does to the heap and to V8.
Perform(call) ==
    /\ \/ call \in ProcessCalls /\ EffectOnProcess(call)
       \/ call \in IsolateCalls /\ EffectOnIsolate(call, Isolate)
       \/ call \notin ProcessCalls \cup IsolateCalls /\ UNCHANGED lifecycle
    /\ gpa' = CASE call = "gpa.init" -> TRUE
                [] call = "gpa.deinit" -> FALSE
                [] OTHER -> gpa
    /\ heap' = IF call = "input_buf.deinit" THEN heap \ {"input"} ELSE heap

\* Isolate.deinit drops the tasks of its isolate, Platform.deinit joins the workers.
DropTasks(call) ==
    /\ queue' = IF call = "Isolate.deinit" THEN {} ELSE queue
    /\ owed' = IF call = "Isolate.deinit" THEN {} ELSE owed
    /\ running' = IF call = "Platform.deinit" THEN {} ELSE running
    /\ fresh' = fresh

\* One statement of a frame's setup; after the last one the thread goes on at next.
Do(statements, next) ==
    LET s == statements[at]
    IN /\ Perform(s.call)
       /\ frames' = IF s.defer = Nothing THEN frames
                    ELSE [frames EXCEPT ![Len(frames)] = Append(@, s.defer)]
       /\ IF at = Len(statements) THEN pc' = next /\ at' = 1
                                  ELSE pc' = pc /\ at' = at + 1
       /\ UNCHANGED <<lines, ending, res, platformTasks>>

\* One defer of the innermost frame, or the return when it has none left.
Unwind(next) ==
    \/ /\ Last(frames) # <<>>
       /\ Perform(Last(Last(frames)))
       /\ DropTasks(Last(Last(frames)))
       /\ frames' = [frames EXCEPT ![Len(frames)] = Front(@)]
       /\ UNCHANGED <<pc, at, lines, ending, res>>
    \/ /\ Last(frames) = <<>>
       /\ frames' = Front(frames)
       /\ pc' = next
       /\ UNCHANGED <<lifecycle, at, heap, gpa, lines, ending, res, platformTasks>>

Call(next) == pc' = next /\ at' = 1 /\ frames' = Append(frames, <<>>)
Goto(next) == pc' = next /\ UNCHANGED <<at, frames>>

\* JavaScript runs: it may start background jobs.
RunJavaScript == \E new \in SUBSET fresh : /\ fresh' = fresh \ new
                                            /\ running' = running \cup new
------------------------------------------------------------------------------
(***************************************************************************)
(* repl.                                                                   *)
(***************************************************************************)
SetUp == pc = "setup" /\ Do(Setup, "getInput")

\* getInput: a line, exit(), or the end of the input.
ReadLine == /\ pc = "getInput"
            /\ lines < MaxLines
            /\ lines' = lines + 1
            /\ heap' = heap \cup {"input"}
            /\ Call("executeString")
            /\ UNCHANGED <<lifecycle, gpa, ending, res, platformTasks>>

ReadExit == /\ pc = "getInput"
            /\ heap' = heap \cup {"input"}
            /\ Goto("leave")
            /\ UNCHANGED <<lifecycle, gpa, lines, ending, res, platformTasks>>

\* An error other than the end of the input is `unreachable`.
ReadError == /\ pc = "getInput"
             /\ Goto("panic")
             /\ UNCHANGED <<lifecycle, heap, gpa, lines, ending, res, platformTasks>>

PrintAnswer == /\ pc = "print"
               /\ owed' = queue
               /\ Goto("pump")
               /\ UNCHANGED <<lifecycle, heap, gpa, lines, ending, res, fresh, running, queue>>

\* Plausible bugs in the pumping: one task only, and waiting for work.
PumpTaskOnce == /\ pc = "pump"
                /\ \E t \in queue : queue' = queue \ {t} /\ owed' = owed \ {t}
                /\ RunJavaScript
                /\ heap' = heap \ {res}
                /\ res' = Nothing /\ ending' = Nothing
                /\ Goto("getInput")
                /\ UNCHANGED <<lifecycle, gpa, lines>>

PumpNothingWaiting == pc = "pump" /\ queue = {} /\ UNCHANGED vars

\* pumpMessageLoop runs one task and returns true, and is called again.
PumpTask == /\ pc = "pump"
            /\ \E t \in queue : queue' = queue \ {t} /\ owed' = owed \ {t}
            /\ RunJavaScript
            /\ UNCHANGED <<lifecycle, thread>>

\* It finds nothing to run and returns false; the defer of res runs.
PumpNothing == /\ pc = "pump"
               /\ queue = {}
               /\ heap' = heap \ {res}
               /\ res' = Nothing /\ ending' = Nothing
               /\ Goto("getInput")
               /\ UNCHANGED <<lifecycle, gpa, lines, platformTasks>>

Leave == pc = "leave" /\ Unwind("exited")
------------------------------------------------------------------------------
(***************************************************************************)
(* executeString.                                                          *)
(***************************************************************************)
ExecuteSetUp == pc = "executeString" /\ Do(ExecuteSetup, "compile")

\* Script.compile and Script.run each return a value or error.JsException.
Compile == /\ pc = "compile"
           /\ \/ Goto("run") /\ UNCHANGED ending
              \/ Call("getErrorString") /\ ending' = "throw"
           /\ UNCHANGED <<lifecycle, heap, gpa, lines, res, platformTasks>>

Run == /\ pc = "run"
       /\ RunJavaScript
       /\ \/ Goto("valueToUtf8") /\ ending' = "value"
          \/ Call("getErrorString") /\ ending' = "throw"
       /\ UNCHANGED <<lifecycle, heap, gpa, lines, res, queue, owed>>

\* valueToUtf8Alloc: `catch unreachable`, although toString may run JavaScript.
ValueToUtf8 ==
    /\ pc = "valueToUtf8"
    /\ RunJavaScript
    /\ \/ /\ heap' = heap \cup {"value"}
          /\ res' = "value"
          /\ Goto("return")
       \/ /\ UNCHANGED <<heap, res>>
          /\ Goto("panic")
    /\ UNCHANGED <<lifecycle, gpa, lines, ending, queue, owed>>

Return == pc = "return" /\ Unwind("print")

\* getTryCatchErrorString: the source line and the stack trace of the message, or
\* the exception itself, become a string; again `catch unreachable`.
ErrorSetUp == pc = "getErrorString" /\ Do(ErrorSetup, "errorToUtf8")

ErrorToUtf8 ==
    /\ pc = "errorToUtf8"
    /\ RunJavaScript
    /\ \/ heap' = heap \cup {"error"} /\ Goto("returnError")
       \/ UNCHANGED heap /\ Goto("panic")
    /\ UNCHANGED <<lifecycle, gpa, lines, ending, res, queue, owed>>

\* A plausible bug in ReturnError: the result is left undefined.
ReturnErrorUnset == pc = "returnError" /\ Unwind("return")

\* Back in setResultError, which fills in the result.
ReturnError == /\ pc = "returnError"
               /\ \/ Last(frames) # <<>> /\ Unwind("return")
                  \/ /\ Last(frames) = <<>>
                     /\ frames' = Front(frames)
                     /\ pc' = "return"
                     /\ res' = "error"
                     /\ UNCHANGED <<lifecycle, at, heap, gpa, lines, ending, platformTasks>>
------------------------------------------------------------------------------
(***************************************************************************)
(* The workers of the platform.                                            *)
(***************************************************************************)
PostTask == \E t \in running :
                /\ running' = running \ {t}
                /\ queue' = IF Isolate \in isolates THEN queue \cup {t} ELSE queue
                /\ UNCHANGED <<lifecycle, thread, fresh, owed>>

Shell == \/ SetUp \/ PrintAnswer \/ PumpTask \/ PumpNothing \/ Leave
         \/ ExecuteSetUp \/ Compile \/ Run \/ ValueToUtf8 \/ Return
         \/ ErrorSetUp \/ ErrorToUtf8 \/ ReturnError

Input == ReadLine \/ ReadExit \/ ReadError

Ended == pc \in {"exited", "panic"} /\ UNCHANGED vars

ReplNext == Shell \/ Input \/ PostTask \/ Ended

\* The shell's thread and the workers go on; the user may stop typing.
ReplSpec == /\ ReplInit /\ [][ReplNext]_vars
            /\ WF_vars(Shell) /\ WF_vars(PostTask)
------------------------------------------------------------------------------
(***************************************************************************)
(* Properties.                                                             *)
(***************************************************************************)
ThreadOK ==
    /\ pc \in {"setup", "getInput", "executeString", "compile", "run", "valueToUtf8",
               "getErrorString", "errorToUtf8", "returnError", "return", "print",
               "pump", "leave", "exited", "panic"}
    /\ at \in 1 .. Len(Setup)
    /\ heap \subseteq {"input", "value", "error"} /\ gpa \in BOOLEAN
    /\ lines \in 0 .. MaxLines
    /\ ending \in {Nothing, "value", "throw"} /\ res \in {Nothing, "value", "error"}
TasksOK == UNION {fresh, running, queue} \subseteq Tasks /\ owed \subseteq queue

ReplTypeOK == TypeOK /\ ThreadOK /\ TasksOK

\* Every call the shell makes is one that V8Lifecycle allows at that moment, on
\* every path through it, the unwinding of its three frames included: the order
\* of the defers in repl, executeString and getTryCatchErrorString is right.
ObeysLifecycle == LifecycleInit /\ [][LifecycleNext]_lifecycle

\* Between two lines the shell is back where it was before the first: one handle
\* scope, one entered context, no TryCatch, and nothing allocated but the input
\* buffer (the defers of executeString and of res, shell.zig 60-76, 114-121).
LinesLeaveNothing ==
    pc = "getInput" => /\ scopes[Isolate] = 1
                       /\ contexts[Isolate] = <<1>>
                       /\ catchers[Isolate] = <<>>
                       /\ entered = <<Isolate>>
                       /\ heap \subseteq {"input"}

\* The same at the end: when repl returns, all of V8 is down and nothing has leaked
\* from the GPA; and while anything is allocated the GPA is there (shell.zig 11-43).
LeavesNothing ==
    /\ LinesLeaveNothing
    /\ heap # {} => gpa
    /\ pc = "exited" => /\ platform = "none" /\ v8 = "disposed" /\ ~allocator
                        /\ isolates = {} /\ entered = <<>>
                        /\ heap = {} /\ ~gpa

\* What is printed is the string made for this line: allocated, not freed yet, and
\* an error exactly when compiling or running the line threw (shell.zig 62-67).
AnswersTheLine ==
    pc = "print" => /\ res \in heap
                    /\ res = (IF ending = "throw" THEN "error" ELSE "value")

\* A task that was waiting when the shell had printed an answer has run before it
\* reads the next line (the inner loop, shell.zig 69-71).
TasksRunBeforeInput == pc = "getInput" => owed = {}

\* A line that was read is answered and the shell reads again, or it dies in one
\* of its `unreachable`s; and once told to leave it does.
EveryLineEnds == /\ pc = "executeString" ~> pc \in {"getInput", "panic"}
                 /\ pc = "leave" ~> pc = "exited"

\* What shell.zig asserts: the `catch unreachable` after toString (156, 207) says
\* that converting the value or the error of a line never fails.
ConversionNeverFails ==
    [][pc = "valueToUtf8" \/ pc = "errorToUtf8" => pc' # "panic"]_pc
==============================================================================
