------------------------------- MODULE MCRepl -------------------------------
(***************************************************************************)
(* The shell with one isolate, a few background jobs and a few lines.      *)
(***************************************************************************)
EXTENDS Repl

CONSTANTS i1, t1, t2

OneIsolate == {i1}
TwoTasks == {t1, t2}
==============================================================================
