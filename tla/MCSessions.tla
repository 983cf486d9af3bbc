----------------------------- MODULE MCSessions -----------------------------
(* Sessions for TLC. *)
EXTENDS Sessions, TLC

MCKeys ==
  {SourceKey, UnlockKey, LoginKey} \cup {ChildKey(s, c) : s \in SessionIds, c \in Children}

\* After keeps of failures in order what filtering them one by one keeps.
Ordered(times) == \A i, j \in DOMAIN times : i <= j => times[i] <= times[j]
ASSUME AfterFilters ==
  \A times \in UNION {[1 .. n -> 1 .. 4] : n \in 0 .. 5}, cut \in 0 .. 5 :
    Ordered(times) => After(times, cut) = SelectSeq(times, LAMBDA t : t > cut)

Symmetry == Permutations(Requests) \cup Permutations(SessionIds)
=============================================================================
