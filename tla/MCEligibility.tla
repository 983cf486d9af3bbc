--------------------------- MODULE MCEligibility ----------------------------
(* Eligibility for TLC: one day's work, a daily policy that allows one         *)
(* redemption, a weekly one that allows two, and none.                         *)
EXTENDS Eligibility, TLC

CONSTANT chore

Rule(frequency, grace, cap) ==
  [enabled |-> TRUE, frequency |-> frequency, grace |-> grace, minimum |-> 1, cap |-> cap]

MCTerms ==
  {Rule("daily", 0, 1), Rule("weekly", 1, 2), [Rule("daily", 0, 1) EXCEPT !.enabled = FALSE]}

MCDateOf == chore :> 2
=============================================================================
