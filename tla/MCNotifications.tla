-------------------------- MODULE MCNotifications --------------------------
(* Instances of Notifications for TLC; the constants are given in the      *)
(* .cfg.                                                                   *)
EXTENDS Notifications

=============================================================================
