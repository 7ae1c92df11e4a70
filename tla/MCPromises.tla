----------------------------- MODULE MCPromises -----------------------------
(***************************************************************************)
(* Promises with three promises: chains of two reactions, two reactions to *)
(* one promise, and two resolvers.                                         *)
(***************************************************************************)
EXTENDS Promises
=============================================================================
