---------------------------- MODULE Eligibility -----------------------------
(***************************************************************************)
(* Periodic reward eligibility of one child: versions of the household's     *)
(* policy that take effect on later dates, a collection period that is       *)
(* scored lazily, by the first page or redemption after its cutoff, and      *)
(* reversals that adjust what was scored.                                    *)
(*                                                                         *)
(* A day stands for the instants between two midnights or ends of grace, so  *)
(* grace is counted in days, and a cutoff falls between two days.  The       *)
(* calendar is that of the policy, which no change of the household's        *)
(* timezone touches.  Every award is one point; the completion rule and the  *)
(* If-Match of a policy are left out.                                       *)
(*                                                                         *)
(* point_ledger.created_at is the time at which a transaction began, while   *)
(* others see its row once it committed: an approval and its reversal are    *)
(* two steps.  One that is rolled back never began.  Evaluations and         *)
(* redemptions hold the child's row, and are one step.                       *)
(***************************************************************************)
EXTENDS Integers, FiniteSets, Sequences, FiniteSetsExt

CONSTANTS
  Occurrences,   \* the child's occurrences that are worth points
  DateOf,        \* occurrences.local_date
  Terms,         \* what a parent may ask a policy to be
  WeekLength,    \* the days of a week
  MaxDay,        \* bound on the calendar: the days are 1 .. MaxDay
  MaxPolicies,   \* bound on the versions of the policy
  MaxLag         \* bound on the days that a transaction stays open

Days == 1 .. MaxDay

ASSUME EligibilityAssumption ==
  /\ MaxDay \in Nat \ {0} /\ WeekLength \in Nat \ {0} /\ MaxLag \in Nat
  /\ MaxPolicies \in Nat \ {0}
  /\ DateOf \in [Occurrences -> Days]
  /\ Terms \subseteq [enabled : BOOLEAN, frequency : {"daily", "weekly"}, grace : Nat,
                      minimum : Nat \ {0}, cap : Nat \ {0}]
  /\ \A t \in Terms : t.frequency = "daily" => t.grace = 0

VARIABLES
  now,           \* today, in the household's timezone
  policies,      \* rows of reward_eligibility_policies
  putting,       \* the change of policy that holds the family's row
  award,         \* when the award of an occurrence was created, and committed
  reversal,      \* and its approval_reversal
  evaluations,   \* rows of reward_period_evaluations
  adjustments,   \* rows of reward_evaluation_adjustments
  requests       \* rows of reward_redemptions, with eligibility_evaluation_id

vars == <<now, policies, putting, award, reversal, evaluations, adjustments, requests>>

None == 0

-----------------------------------------------------------------------------
(* The calendar *)

First(d, frequency) == IF frequency = "daily" THEN d ELSE d - ((d - 1) % WeekLength)

Last(d, frequency) ==
  First(d, frequency) + IF frequency = "daily" THEN 0 ELSE WeekLength - 1

LastOfPeriod(d, frequency) == Last(d, frequency)    \* mutant

NextBoundary(d, frequency) == Last(d, frequency) + 1

\* previousPeriod ends the day before the current one begins.
PreviousEnd(d, frequency) == First(d, frequency) - 1

PreviousStart(d, frequency) == First(PreviousEnd(d, frequency), frequency)

Within(d, e) == e.start <= d /\ d <= e.end

-----------------------------------------------------------------------------
Unposted == [begun |-> None, posted |-> None]

NoPut == [today |-> None]

Posted(x) == x.posted # None

\* What happens until the cutoff of a period happens by this day.
Cutoff(e) == e.end + e.terms.grace

\* With the unique constraints of both tables.
TypeOK ==
  /\ now \in Days
  /\ policies \subseteq [version : 1 .. MaxPolicies, from : 1 .. MaxDay + WeekLength, terms : Terms]
  /\ putting \in {NoPut} \cup [today : Days, terms : Terms]
  /\ award \in [Occurrences -> [begun : 0 .. MaxDay, posted : 0 .. MaxDay]]
  /\ reversal \in [Occurrences -> [begun : 0 .. MaxDay, posted : 0 .. MaxDay]]
  /\ evaluations \subseteq
       [version : 1 .. MaxPolicies, start : Days, end : Days, terms : Terms,
        awards : SUBSET Occurrences, reversals : SUBSET Occurrences, at : Days]
  /\ \A p, q \in policies : p # q => (p.version # q.version /\ p.from # q.from)
  /\ \A e, f \in evaluations :
       (e.version = f.version /\ e.start = f.start /\ e.end = f.end) => e = f
  /\ adjustments \subseteq (evaluations \X Occurrences)
  /\ \A i \in DOMAIN requests :
       /\ requests[i].at \in Days
       /\ requests[i].of \in evaluations

\* The policy that governs a day.
InEffect(d) == {p \in policies : p.from <= d}
Governing(d) == CHOOSE p \in InEffect(d) : \A q \in InEffect(d) : q.from <= p.from

\* Day 1 is the first on which a policy governs.
Init ==
  /\ now = 1
  /\ \E t \in Terms : policies = {[version |-> 1, from |-> 1, terms |-> t]}
  /\ putting = NoPut
  /\ award = [o \in Occurrences |-> Unposted]
  /\ reversal = [o \in Occurrences |-> Unposted]
  /\ evaluations = {}
  /\ adjustments = {}
  /\ requests = <<>>

-----------------------------------------------------------------------------
(* Time, and the point ledger *)

Open(x) == x.begun # None /\ ~ Posted(x)

Tick ==
  /\ now < MaxDay
  /\ putting # NoPut => now < putting.today + MaxLag
  /\ \A o \in Occurrences : \A x \in {award[o], reversal[o]} : Open(x) => now < x.begun + MaxLag
  /\ now' = now + 1
  /\ UNCHANGED <<policies, putting, award, reversal, evaluations, adjustments, requests>>

\* Work is submitted on its day or, a task, later.
BeginApprove(o) ==
  /\ award[o] = Unposted
  /\ DateOf[o] <= now
  /\ award' = [award EXCEPT ![o].begun = now]
  /\ UNCHANGED <<now, policies, putting, reversal, evaluations, adjustments, requests>>

PostAward(o) ==
  /\ Open(award[o])
  /\ award' = [award EXCEPT ![o].posted = now]
  /\ UNCHANGED <<now, policies, putting, reversal, evaluations, adjustments, requests>>

BeginReverse(o) ==
  /\ award[o] # Unposted
  /\ reversal[o] = Unposted
  /\ reversal' = [reversal EXCEPT ![o].begun = now]
  /\ UNCHANGED <<now, policies, putting, award, evaluations, adjustments, requests>>

\* Mutant of the trigger: an award in the days of grace is not looked for.
AdjustableByEnd(o) == {e \in evaluations : Within(DateOf[o], e) /\ award[o].begun <= e.end}

\* The evaluations that the trigger record_reward_evaluation_reversal finds.
Adjustable(o) == {e \in evaluations : Within(DateOf[o], e) /\ award[o].begun <= Cutoff(e)}

\* ON CONFLICT (ledger_entry_id) DO NOTHING keeps one of them.
PostReversal(o) ==
  /\ Posted(award[o]) /\ Open(reversal[o])
  /\ reversal' = [reversal EXCEPT ![o].posted = now]
  /\ IF Adjustable(o) = {} THEN adjustments' = adjustments
     ELSE \E e \in Adjustable(o) : adjustments' = adjustments \cup {<<e, o>>}
  /\ UNCHANGED <<now, policies, putting, award, evaluations, requests>>

-----------------------------------------------------------------------------
(* The policy *)

BeginPut(terms) ==
  /\ putting = NoPut
  /\ \A p \in policies : p.version < MaxPolicies
  /\ putting' = [today |-> now, terms |-> terms]
  /\ UNCHANGED <<now, policies, award, reversal, evaluations, adjustments, requests>>

\* What had not taken effect is replaced.  The date was read when the family's
\* row was locked; the version is counted before the deletion.
Put ==
  LET version == 1 + Max({p.version : p \in policies} \cup {0})
      started == {p \in policies : p.from <= putting.today}
  IN /\ putting # NoPut
     /\ policies' = started \cup
          {[version |-> version, terms |-> putting.terms,
            from |-> NextBoundary(putting.today, putting.terms.frequency)]}
     /\ putting' = NoPut
     /\ UNCHANGED <<now, award, reversal, evaluations, adjustments, requests>>

-----------------------------------------------------------------------------
(* ensureEvaluation *)

\* Without a policy in effect, or with a disabled one, redemptions are free.
Enforced == InEffect(now) # {} /\ Governing(now).terms.enabled

Frequency == Governing(now).terms.frequency

Start == PreviousStart(now, Frequency)

\* The policy that governed the first day of the closed period owns it.
Owner == Governing(Start)

SameCalendarAlways == TRUE    \* mutant

SameCalendar == Owner.terms.frequency = Frequency

\* Mutant: grace is forgotten.
FinalAtOnce ==
  /\ Enforced
  /\ InEffect(Start) # {} /\ Owner.terms.enabled /\ SameCalendar

\* Otherwise the status is collecting, or awaiting_evaluation.
Final ==
  /\ Enforced
  /\ InEffect(Start) # {} /\ Owner.terms.enabled /\ SameCalendar
  /\ now > PreviousEnd(now, Frequency) + Owner.terms.grace

\* Mutant: whatever is committed counts.
VisibleAnyTime(x, cutoff) == Posted(x)

\* scorePeriod: what was created by the cutoff, and is committed.
Visible(x, cutoff) == Posted(x) /\ x.begun <= cutoff

Scored ==
  LET end == PreviousEnd(now, Frequency)
      cutoff == end + Owner.terms.grace
      dated == {o \in Occurrences : Start <= DateOf[o] /\ DateOf[o] <= end}
  IN [version |-> Owner.version, start |-> Start, end |-> end, terms |-> Owner.terms,
      awards |-> {o \in dated : Visible(award[o], cutoff)},
      reversals |-> {o \in dated : Visible(reversal[o], cutoff)},
      at |-> now]

\* Mutant: what is stored is not looked for under the owner's version.
StoredByOther ==
  {e \in evaluations : /\ e.version # Owner.version
                       /\ e.start = Start /\ e.end = PreviousEnd(now, Frequency)}

\* A period is scored once for each version of the policy.
Stored ==
  {e \in evaluations : /\ e.version = Owner.version
                       /\ e.start = Start /\ e.end = PreviousEnd(now, Frequency)}

Evaluation == IF Stored = {} THEN Scored ELSE CHOOSE e \in Stored : TRUE

\* The stored verdict is implied: adjustments only take away.
Score(e) ==
  Cardinality(e.awards) - Cardinality(e.reversals)
    - Cardinality({o \in Occurrences : <<e, o>> \in adjustments})

Used(e) == Cardinality({i \in DOMAIN requests : requests[i].of = e})

CanRedeem(e) == Score(e) >= e.terms.minimum /\ Used(e) < e.terms.cap

\* The first page of the child, or of the parent, after the cutoff.
Look ==
  /\ Final
  /\ Stored = {}
  /\ evaluations' = evaluations \cup {Scored}
  /\ UNCHANGED <<now, policies, putting, award, reversal, adjustments, requests>>

\* A refused redemption is rolled back, with the evaluation it made.  One made
\* while no policy is in force is not checked, and names no evaluation.
Redeem ==
  /\ Final
  /\ CanRedeem(Evaluation)
  /\ evaluations' = evaluations \cup {Evaluation}
  /\ requests' = Append(requests, [of |-> Evaluation, at |-> now])
  /\ UNCHANGED <<now, policies, putting, award, reversal, adjustments>>

Next ==
  \/ Tick
  \/ \E o \in Occurrences : BeginApprove(o) \/ PostAward(o) \/ BeginReverse(o) \/ PostReversal(o)
  \/ \E t \in Terms : BeginPut(t)
  \/ Put
  \/ Look
  \/ Redeem

Spec == Init /\ [][Next]_vars

-----------------------------------------------------------------------------
(* Safety *)

\* docs/phase-9-1-periodic-eligibility-contract.md:62-63, :78: whenever a period is
\* looked at, and however late, an award that existed by its cutoff counts, and
\* one created after it never does.  An award whose transaction was open at the
\* cutoff counts if it was committed by the first look.
AwardsCount ==
  \A e \in evaluations, o \in Occurrences : Within(DateOf[o], e) =>
    /\ (Posted(award[o]) /\ award[o].posted <= Cutoff(e)) => o \in e.awards
    /\ o \in e.awards => award[o].begun <= Cutoff(e)

\* An award that counted and was reversed is taken away, once: by the score or
\* by an adjustment (migrations/000015:113-132).  Excepted are a reversal made
\* between the cutoff and the first look, and one that was taken from another
\* evaluation of the same day.
ReversalsDiscount ==
  \A e \in evaluations : \A o \in e.awards :
    LET scored == o \in e.reversals
        adjusted == <<e, o>> \in adjustments
    IN /\ ~ (scored /\ adjusted)
       /\ (scored \/ adjusted) => Posted(reversal[o])
       /\ Posted(reversal[o]) =>
            \/ scored \/ adjusted
            \/ reversal[o].begun > Cutoff(e) /\ reversal[o].posted <= e.at
            \/ \E f \in evaluations \ {e} : <<f, o>> \in adjustments

\* A change of the policy leaves what began as it was (rewards/eligibility.go:160-172):
\* the versions that governed a day until today go on doing so, and at most one waits
\* to take effect.  Excepted is today, for a change that took its date yesterday and
\* is committed after midnight: today then goes to the version of the day before, or to
\* one that takes effect today, for no day before today is touched even then.
Straddles == putting # NoPut /\ putting.today < now

PastGoverned ==
  [][/\ \A d \in 1 .. now : InEffect(d)' = InEffect(d) \/ (d = now /\ Straddles)
     /\ Cardinality({p \in policies' : p.from > now'}) <= 1]_vars

\* docs/phase-9-1-periodic-eligibility-contract.md:56, :84: a change of frequency
\* starts afresh, so no day counts in two evaluations.  Excepted is a frequency
\* that returned: a policy of another frequency took effect inside the period
\* and was gone at its end, which rewards/eligibility.go:240 does not see.
OverlapOnlyOnReturn ==
  \A e, f \in evaluations :
    (e # f /\ \E d \in Days : Within(d, e) /\ Within(d, f)) =>
      \E p \in policies, g \in {e, f} : /\ p.terms.frequency # g.terms.frequency
                                         /\ g.start < p.from /\ p.from <= g.end

\* A redemption that was checked was requested in the period after the one that
\* earned it, after the cutoff, and at most as often as the policy of that period
\* allows; what earned it had at least the minimum when it was scored.
RequestsEarned ==
  /\ \A i \in DOMAIN requests :
       LET r == requests[i]
           e == r.of
       IN /\ Cutoff(e) < r.at /\ r.at <= Last(e.end + 1, e.terms.frequency)
          /\ Cardinality(e.awards \ e.reversals) >= e.terms.minimum
  /\ \A e \in evaluations : Used(e) <= e.terms.cap
=============================================================================
