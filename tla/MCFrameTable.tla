---------------------------- MODULE MCFrameTable ----------------------------
(* Instances of FrameTable for TLC; the constants are given in the .cfg.   *)
EXTENDS FrameTable

=============================================================================
