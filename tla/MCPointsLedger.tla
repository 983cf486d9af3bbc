--------------------------- MODULE MCPointsLedger ---------------------------
(* PointsLedger for TLC: two children, one task of the first child, two      *)
(* redemptions and one correction for any of them.                           *)
EXTENDS PointsLedger, FiniteSets, Folds, TLC

CONSTANTS c1, c2, o1, r1, d1, d2, k1

MCChildOf == [o \in {o1} |-> c1]

Sum(f(_), S) == MapThenFoldSet(+, 0, f, LAMBDA T : CHOOSE x \in T : TRUE, S)

LOCAL AmountOf(e) == e.amount

\* A balance is what the states of chores and redemptions say it is: approved
\* chores and corrections earn, requested and fulfilled redemptions cost, and a
\* reversal or a cancellation leaves no trace in it.
Conservation ==
  \A c \in Children :
    LET earned(o) == points[o]
        spent(d)  == redemption[d].cost
    IN balance[c] =
         Sum(earned, {o \in Occurrences : ChildOf[o] = c /\ state[o] = "approved"})
         + Sum(AmountOf, {e \in ledger : e.child = c /\ e.kind = "manual_correction"})
         - Sum(spent, {d \in Redemptions : /\ redemption[d].child = c
                                           /\ redemption[d].state \in {"requested", "fulfilled"}})
=============================================================================
