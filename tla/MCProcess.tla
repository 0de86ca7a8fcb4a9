----------------------------- MODULE MCProcess -----------------------------
(* Instances of Process for TLC; the constants are given in the .cfg.      *)
EXTENDS Process

=============================================================================
