------------------------------ MODULE MCModules ------------------------------
(***************************************************************************)
(* Three modules, two with two imports: what they import, and with it      *)
(* every chain, diamond and cycle of them, is up to the resolve callback.  *)
(***************************************************************************)
EXTENDS Modules, TLC

CONSTANTS a, b, c

MCModules == {a, b, c}
MCRequests == (a :> 2) @@ (b :> 2) @@ (c :> 1)
==============================================================================
