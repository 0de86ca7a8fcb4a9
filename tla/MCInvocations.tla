--------------------------- MODULE MCInvocations ---------------------------
(* Instances of Invocations for TLC; the constants are given in the .cfg.  *)
EXTENDS Invocations

=============================================================================
