----------------------------- MODULE MCHandles -----------------------------
(***************************************************************************)
(* An instance of Handles small enough to list all states.                 *)
(***************************************************************************)
EXTENDS Handles
=============================================================================
