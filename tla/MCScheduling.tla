---------------------------- MODULE MCScheduling ----------------------------
(* Scheduling for TLC: one plan for every day, one that leaves day 1 out. *)
EXTENDS Scheduling, TLC

CONSTANTS daily, weekdays

MCDueOn == daily :> Days @@ weekdays :> Days \ {1}

Symmetry == Permutations(Ids) \cup Permutations(Titles)
=============================================================================
