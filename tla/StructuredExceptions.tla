------------------------ MODULE StructuredExceptions ------------------------
(***************************************************************************)
(* What a program may rely on when it throws: an error goes to the         *)
(* innermost frame that catches errors, passing over the frames above it,  *)
(* which end; or to nobody, and then it is reported.  While it is on its   *)
(* way no frame begins or ends by itself.                                  *)
(*                                                                         *)
(* Exceptions implements this with JavaScript frames, Zig frames that know *)
(* nothing of the error, and TryCatch.                                     *)
(***************************************************************************)
EXTENDS Naturals, Sequences

CONSTANTS Errors,   \* what can be thrown
          None      \* no error

VARIABLES frames,   \* from the outermost to the innermost, see Kinds
          flying    \* the error that is on its way, or None

structuredVars == <<frames, flying>>

\* A "plain" frame lets errors pass.  A "catching" frame stays when it catches, to
\* look at the error, and may decide to throw it again when it ends: it is
\* "rethrowing" then.  A "block" ends by catching.
Kinds == {"plain", "catching", "block"}

StructuredInit == frames = <<"plain">> /\ flying = None

Enter(k) == /\ flying = None
            /\ frames' = Append(frames, k)
            /\ UNCHANGED flying

\* Frames end: the innermost one, or several if the program is being stopped.
Leave == /\ flying = None
         /\ frames[Len(frames)] # "rethrowing"
         /\ \E n \in 1 .. Len(frames) - 1 : frames' = SubSeq(frames, 1, n)
         /\ UNCHANGED flying

\* Error e comes to frame n, the first that matters to it below frame m + 1.
Reaches(n, m) == /\ n \in 1 .. m
                 /\ \A i \in n + 1 .. m : frames[i] = "plain"

Catch(e, n, m) == /\ Reaches(n, m)
                  /\ \/ frames[n] \in {"catching", "rethrowing"} /\ frames' = SubSeq(frames, 1, n)
                     \/ frames[n] = "block" /\ frames' = SubSeq(frames, 1, n - 1)
                  /\ flying' = None

Pass(e, n, m) == /\ Reaches(n, m)
                 /\ n > 1 /\ frames[n] = "plain"
                 /\ frames' = SubSeq(frames, 1, n)
                 /\ flying' = e

Report(e, m) == /\ Reaches(1, m)
                /\ frames[1] = "plain"
                /\ frames' = SubSeq(frames, 1, 1)
                /\ flying' = None

Fly(e, m) == \/ \E n \in 1 .. m : Catch(e, n, m) \/ Pass(e, n, m)
             \/ Report(e, m)

Throw == \E e \in Errors : flying = None /\ Fly(e, Len(frames))

Continue == flying # None /\ Fly(flying, Len(frames))

\* The innermost frame decides to throw again what it caught, and does as it ends.
Decide == /\ flying = None
          /\ frames[Len(frames)] = "catching"
          /\ frames' = [frames EXCEPT ![Len(frames)] = "rethrowing"]
          /\ UNCHANGED flying

Rethrow == /\ flying = None
           /\ frames[Len(frames)] = "rethrowing"
           /\ \E e \in Errors : Fly(e, Len(frames) - 1)

StructuredNext == (\E k \in Kinds : Enter(k)) \/ Leave
                  \/ Throw \/ Continue \/ Decide \/ Rethrow

StructuredSpec == StructuredInit /\ [][StructuredNext]_structuredVars
=============================================================================
