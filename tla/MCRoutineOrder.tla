--------------------------- MODULE MCRoutineOrder ---------------------------
(* RoutineOrder for TLC: interchangeable requests and groups. *)
EXTENDS RoutineOrder, TLC

Symmetry == Permutations(Procs) \cup Permutations(Groups)
=============================================================================
