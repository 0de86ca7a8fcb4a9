---------------------------- MODULE MCSlotTable ----------------------------
(* Instances of SlotTable for TLC; the constants are given in the .cfg.    *)
EXTENDS SlotTable

(* Bootstrap uses part of the first CNode, all but one slot of it, all of  *)
(* it, or reaches into the third.                                          *)
MCBootSizes == {2, 3, 4, 6, 9}

=============================================================================
