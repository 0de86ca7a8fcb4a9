--------------------------- MODULE MCAddressSpace ---------------------------
(* Instances of AddressSpace for TLC: the sets of arguments the processes  *)
(* use; the other constants are given in the .cfg.                         *)
EXTENDS AddressSpace, TLC

Place(start, size) == [start |-> start, size |-> size]
Args(wo, oo, size) == [win_offset |-> wo, obj_offset |-> oo, size |-> size]

(* Two windows that overlap, and a third next to them.                     *)
SidePlaces == {Place(0, 3), Place(2, 2), Place(4, 1)}
(* A window strictly inside another.                                       *)
NestedPlaces == {Place(1, 1), Place(0, 3)}

(* Views from the start of a window, and one behind it.                    *)
SomeViews == {Args(0, 0, 1), Args(2, 0, 1)}

Identities == Permutations(Windows) \cup Permutations(Views)
              \cup Permutations(Objects) \cup Permutations(Frames)
              \cup Permutations(Procs)

=============================================================================
