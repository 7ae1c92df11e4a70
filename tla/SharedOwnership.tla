--------------------------- MODULE SharedOwnership ---------------------------
(***************************************************************************)
(* What shared ownership promises, without saying how it is counted: a     *)
(* store is created, may be adopted by a first owner, is shared with       *)
(* further owners only while it has one, and is released in the very step  *)
(* in which its last owner lets go -- once, and for good.                  *)
(*                                                                         *)
(* BackingStores implements this with a use count kept beside the store    *)
(* (std::shared_ptr) and handles that cross a C ABI as plain structs.      *)
(***************************************************************************)
CONSTANTS Stores,   \* the stores that can be created
          Holders   \* whatever can own one

VARIABLES status,   \* status[s]: how far s is in its life
          owners    \* owners[s]: the holders of s

ownershipVars == <<status, owners>>

Created == {"unborn", "unowned"}

OwnershipInit == /\ status = [s \in Stores |-> "unborn"]
                 /\ owners = [s \in Stores |-> {}]

\* A store comes into being without an owner.
Create(s) == /\ status[s] = "unborn"
             /\ status' = [status EXCEPT ![s] = "unowned"]
             /\ UNCHANGED owners

\* The first owner takes a store nobody owns yet.
Adopt(s, o) == /\ status[s] \in Created
               /\ status' = [status EXCEPT ![s] = "owned"]
               /\ owners' = [owners EXCEPT ![s] = {o}]

\* A further owner joins, which only an owned store allows.
Share(s, o) == /\ status[s] = "owned"
               /\ o \notin owners[s]
               /\ owners' = [owners EXCEPT ![s] = @ \cup {o}]
               /\ UNCHANGED status

\* Some holders let go of all they own; what loses its last owner is released.
Drop(D) == /\ owners' = [s \in Stores |-> owners[s] \ D]
           /\ status' = [s \in Stores |->
                           IF status[s] = "owned" /\ owners[s] \subseteq D
                           THEN "released" ELSE status[s]]

OwnershipNext ==
    \/ \E s \in Stores : Create(s)
    \/ \E s \in Stores, o \in Holders : Adopt(s, o) \/ Share(s, o)
    \/ \E D \in SUBSET Holders : Drop(D)

OwnershipSpec == OwnershipInit /\ [][OwnershipNext]_ownershipVars
==============================================================================
