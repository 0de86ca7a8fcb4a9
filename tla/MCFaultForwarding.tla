------------------------- MODULE MCFaultForwarding -------------------------
(* Instances of FaultForwarding for TLC: the views the clients ask for;    *)
(* the other constants are given in the .cfg.                              *)
EXTENDS FaultForwarding, TLC

Args(wo, oo, size) == [win_offset |-> wo, obj_offset |-> oo, size |-> size]

(* All of the window with a later part of the file; and its second page.   *)
SomeViews == {Args(0, 1, 2), Args(1, 0, 1)}
(* The first page only.                                                    *)
ShortViews == {Args(0, 0, 1)}

(* The properties say nothing of what follows an incident, which stays.    *)
StopAtIncident == incidents = {}

=============================================================================
