----------------------------- MODULE MCPointsTx -----------------------------
(* PointsTx for TLC: one child with one task, two requests at a time.  A key *)
(* is named after what it asks for.  The two parents, and the child's two    *)
(* devices, have sessions of their own, so that no session lock orders what  *)
(* only the rows they share can order.                                      *)
EXTENDS PointsTx, TLC

CONSTANTS c1, o1, r1, d1, d2, m1

MCChildOf == [o \in {o1} |-> c1]

Common ==
  [child |-> c1, occurrence |-> o1, attempt |-> 1, task |-> o1, taskOccurrence |-> o1,
   group |-> "evening", reward |-> r1, cost |-> 1, correction |-> m1, amount |-> 1,
   worth |-> 2]

Sent(op, session, d, key) ==
  [op |-> op, session |-> session, redemption |-> d, key |-> key] @@ Common

MCRequest ==
  [k \in Keys |->
     IF k \in {"Submit", "Withdraw", "Redeem"} THEN Sent(k, "tablet", d1, k)
     ELSE IF k = "Resubmit" THEN Sent("Submit", "phone", d1, k)
     ELSE IF k = "RedeemMore" THEN Sent("Redeem", "phone", d2, k)
     ELSE IF k \in {"Approve", "Correct", "Fulfil"} THEN Sent(k, "alice", d1, k)
     ELSE Sent(k, "bob", d1, k)]

\* Processes are interchangeable.
Symmetry == Permutations(Procs)
=============================================================================
