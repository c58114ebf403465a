------------------------------- MODULE MCStore -------------------------------
(* Instances of Store: clock readings that collide and follow each other. *)
EXTENDS Store

MCStamps == 1..11
MCClockReadings == {1, 2, 3, 4, 7}
Symmetry == Permutations(Procs)
=============================================================================
