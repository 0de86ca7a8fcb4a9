--------------------------- MODULE MCUntypedTable ---------------------------
(* Instances of UntypedTable for TLC; the constants are given in the .cfg. *)
EXTENDS UntypedTable

=============================================================================
