--------------------------- MODULE MCBackingStores ---------------------------
(***************************************************************************)
(* BackingStores with two stores, two SharedPtr variables and three        *)
(* buffers, two of them in one isolate and one in another: enough for a    *)
(* store shared by both isolates and Zig, dropped in any order.            *)
(***************************************************************************)
EXTENDS BackingStores, TLC

CONSTANTS b1, b2, b3, i1, i2

MCBuffers == {b1, b2, b3}
MCHeap == b1 :> i1 @@ b2 :> i1 @@ b3 :> i2
==============================================================================
