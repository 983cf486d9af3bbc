---------------------------- MODULE LoginLimiter ----------------------------
(***************************************************************************)
(* The limiter of attempts to log in, to unlock Parent Mode and to enter a   *)
(* profile: for every key the times of its failures.  It lives in memory,    *)
(* each operation holds its mutex, and the caller verifies the credential    *)
(* between Allow and Fail or Success.                                        *)
(***************************************************************************)
EXTENDS Integers, FiniteSets, Sequences

CONSTANTS
  Keys,      \* who or what is limited
  Window,    \* the time for which a failure counts
  Limit,     \* the failures that close a key
  MaxKeys    \* maxLimiterKeys

ASSUME LimiterAssumption ==
  Window \in Nat \ {0} /\ Limit \in Nat \ {0} /\ MaxKeys \in Nat \ {0}

VARIABLES
  clock,
  attempts   \* the failures of each key; a key without any is not in the map

Held(a) == {k \in Keys : a[k] # <<>>}

\* The clock is read under the mutex and only moves on, so the failures of a key
\* are in order and those up to the cut come first.
After(times, cut) ==
  LET old == {i \in DOMAIN times : times[i] <= cut}
  IN SubSeq(times, Cardinality(old) + 1, Len(times))

Recent(times) == After(times, clock - Window)

\* Keys whose last failure no longer counts are dropped.
Swept == [k \in Keys |-> IF Recent(attempts[k]) = <<>> THEN <<>> ELSE attempts[k]]

\* The map after Allow(k): the key's old failures are forgotten, those of other
\* keys only when a new key finds the map full.
Pruned(k) ==
  IF attempts[k] = <<>>
  THEN IF Cardinality(Held(attempts)) >= MaxKeys THEN Swept ELSE attempts
  ELSE [attempts EXCEPT ![k] = Recent(@)]

\* Mutants: one failure too many; a full map refuses nothing.
AllowedOnceMore(k) ==
  /\ attempts[k] = <<>> => Cardinality(Held(Pruned(k))) < MaxKeys
  /\ Len(Recent(attempts[k])) <= Limit
AllowedThoughFull(k) == Len(Recent(attempts[k])) < Limit

Allowed(k) ==
  /\ attempts[k] = <<>> => Cardinality(Held(Pruned(k))) < MaxKeys
  /\ Len(Recent(attempts[k])) < Limit

Allow(k) == attempts' = Pruned(k)

Fail(k) == attempts' = [attempts EXCEPT ![k] = Append(@, clock)]

Success(k) == attempts' = [attempts EXCEPT ![k] = <<>>]
=============================================================================
