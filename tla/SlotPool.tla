------------------------------ MODULE SlotPool ------------------------------
(***************************************************************************)
(* What the root server's capability space promises its callers            *)
(* (root_server/src/cspace.rs, the trait CSpaceTrait): alloc_slot hands    *)
(* out a slot nobody is using, free_slot takes one back, and the slots in  *)
(* use before the capability space was set up are never handed out.        *)
(***************************************************************************)
EXTENDS Integers

CONSTANTS
  Slots,  \* every slot of the capability space
  NoSlot  \* what a call returns that returns no slot

VARIABLES
  used,   \* the slots in use
  last    \* what the last call has returned

vars == <<used, last>>

Init == used \in SUBSET Slots /\ last = NoSlot

Alloc(s) ==
  /\ s \in Slots \ used
  /\ used' = used \cup {s}
  /\ last' = s

Refuse ==
  /\ last' = NoSlot
  /\ UNCHANGED used

Free(s) ==
  /\ s \in used
  /\ used' = used \ {s}
  /\ last' = NoSlot

Next ==
  \/ \E s \in Slots : Alloc(s) \/ Free(s)
  \/ Refuse

Spec == Init /\ [][Next]_vars

=============================================================================
