---------------------------- MODULE MCExceptions ----------------------------
(***************************************************************************)
(* Exceptions on a stack that holds main, a script, a callback of it and a *)
(* script run by the callback, with TryCatches and a try block on the way. *)
(***************************************************************************)
EXTENDS Exceptions
=============================================================================
