------------------------- MODULE Eligibility_proofs --------------------------
(***************************************************************************)
(* What holds of Eligibility for any occurrences, policies, weeks and        *)
(* delays.                                                                  *)
(***************************************************************************)
EXTENDS Eligibility, FiniteSetTheorems, TLAPS

Frequencies == {"daily", "weekly"}

LEMMA Constants ==
  /\ MaxDay \in Nat \ {0} /\ WeekLength \in Nat \ {0} /\ MaxLag \in Nat
  /\ MaxPolicies \in Nat \ {0}
  /\ Days = 1 .. MaxDay
  /\ \A o \in Occurrences : DateOf[o] \in Days
  /\ \A t \in Terms : /\ t.enabled \in BOOLEAN /\ t.frequency \in Frequencies
                      /\ t.grace \in Nat /\ t.minimum \in Nat \ {0} /\ t.cap \in Nat \ {0}
BY EligibilityAssumption DEF Days, Frequencies

-----------------------------------------------------------------------------
(* The calendar *)

LEMMA Division ==
  ASSUME NEW a \in Int, NEW w \in Int, w > 0
  PROVE  /\ a % w \in 0 .. w - 1
         /\ \E q \in Int : a = w * q + (a % w)
<1>1. a = w * (a \div w) + (a % w) /\ (a \div w) \in Int
  BY SMTT(30)
<1>2. a % w \in 0 .. w - 1
  OBVIOUS
<1> QED BY <1>1, <1>2

LEMMA WeekDivision ==
  ASSUME NEW d \in Int
  PROVE  \E q \in Int : d - 1 = WeekLength * q + ((d - 1) % WeekLength)
<1>1. d - 1 \in Int /\ WeekLength \in Int /\ WeekLength > 0
  BY Constants
<1> QED BY <1>1, Division, Zenon

LEMMA Multiples ==
  ASSUME NEW w \in Int, w > 0, NEW i \in Int, NEW j \in Int
  PROVE  /\ i < j => w * i + w <= w * j
         /\ w * (i - 1) = w * i - w
OBVIOUS

\* A date is in its period, which begins on a date when it does.
LEMMA PeriodContains ==
  ASSUME NEW d \in Int, NEW f \in Frequencies
  PROVE  /\ First(d, f) \in Int /\ Last(d, f) \in Int
         /\ First(d, f) <= d /\ d <= Last(d, f)
         /\ Last(d, f) <= d + WeekLength - 1
         /\ d >= 1 => First(d, f) >= 1
<1>1. (d - 1) % WeekLength \in 0 .. WeekLength - 1
  BY Constants, Division
<1>2. d >= 1 => (d - 1) % WeekLength <= d - 1
  BY Constants
<1> DEFINE r == (d - 1) % WeekLength
<1>3. First(d, f) = IF f = "daily" THEN d ELSE d - r
  BY DEF First
<1> HIDE DEF r
<1> QED BY <1>1, <1>2, <1>3, Constants DEF Last, r

\* A week begins every WeekLength days.
LEMMA WeekStarts ==
  ASSUME NEW s \in Int
  PROVE  First(s, "weekly") = s <=> \E i \in Int : s - 1 = WeekLength * i
<1>1. First(s, "weekly") = s <=> (s - 1) % WeekLength = 0
  <2>1. (s - 1) % WeekLength \in Int
    BY Constants, Division
  <2> DEFINE r == (s - 1) % WeekLength
  <2>2. First(s, "weekly") = s - r
    BY DEF First
  <2> HIDE DEF r
  <2> QED BY <2>1, <2>2 DEF r
<1>2. ASSUME NEW i \in Int, s - 1 = WeekLength * i
      PROVE  (s - 1) % WeekLength = 0
  <2>1. ASSUME NEW a \in Int, NEW w \in Int, w > 0, NEW k \in Int, a = w * k
        PROVE  a % w = 0
    BY <2>1, SMTT(30)
  <2> QED BY <1>2, <2>1, Constants
<1>3. (s - 1) % WeekLength = 0 => \E i \in Int : s - 1 = WeekLength * i
  <2>1. PICK q \in Int : s - 1 = WeekLength * q + ((s - 1) % WeekLength)
    BY WeekDivision
  <2> DEFINE a == WeekLength * q
  <2>2. a \in Int
    BY Constants
  <2>3. (s - 1) % WeekLength = 0 => s - 1 = a
    <3> HIDE DEF a
    <3> QED BY <2>1, <2>2 DEF a
  <2> QED BY <2>3
<1> QED BY <1>1, <1>2, <1>3

\* The first day of a period is the first of every date in it.
LEMMA FirstOfPeriod ==
  ASSUME NEW s \in Int, NEW d \in Int, NEW f \in Frequencies,
         First(s, f) = s, s <= d, d <= Last(s, f)
  PROVE  First(d, f) = s
<1>1. CASE f = "daily"
  BY <1>1 DEF First, Last
<1>2. CASE f = "weekly"
  <2>1. PICK i \in Int : s - 1 = WeekLength * i
    BY <1>2, WeekStarts
  <2>2. PICK q \in Int : d - 1 = WeekLength * q + ((d - 1) % WeekLength)
    BY WeekDivision
  <2>3. (d - 1) % WeekLength \in 0 .. WeekLength - 1
    BY Constants, Division
  <2> DEFINE r == (d - 1) % WeekLength
             a == WeekLength * i
             b == WeekLength * q
  <2>4. a \in Int /\ b \in Int
    BY Constants
  <2>5. (i < q => a + WeekLength <= b) /\ (q < i => b + WeekLength <= a)
    BY Constants, Multiples
  <2>6. d <= s + WeekLength - 1
    BY <1>2 DEF Last
  <2>7. First(d, f) = d - r
    BY <1>2 DEF First
  <2>8. i = q => a = b
    OBVIOUS
  <2> HIDE DEF r, a, b
  <2>9. s - 1 = a /\ d - 1 = b + r /\ r \in 0 .. WeekLength - 1
    BY <2>1, <2>2, <2>3 DEF r, a, b
  <2>10. i = q
    BY <2>4, <2>5, <2>6, <2>9, Constants
  <2> QED BY <2>4, <2>7, <2>8, <2>9, <2>10
<1> QED BY <1>1, <1>2 DEF Frequencies

\* The first day of a period is its own first.
LEMMA FirstIsFirst ==
  ASSUME NEW d \in Int, NEW f \in Frequencies
  PROVE  First(First(d, f), f) = First(d, f)
<1>1. CASE f = "daily"
  BY <1>1 DEF First
<1>2. CASE f = "weekly"
  <2>1. PICK q \in Int : d - 1 = WeekLength * q + ((d - 1) % WeekLength)
    BY WeekDivision
  <2>2. (d - 1) % WeekLength \in Int
    BY Constants, Division
  <2> DEFINE r == (d - 1) % WeekLength
             b == WeekLength * q
  <2>3. First(d, f) = d - r
    BY <1>2 DEF First
  <2>4. b \in Int
    BY Constants
  <2>5. (d - r) - 1 = b
    <3> HIDE DEF r, b
    <3> QED BY <2>1, <2>2, <2>4 DEF r, b
  <2>6. First(d, f) \in Int /\ First(d, f) - 1 = WeekLength * q
    BY <2>2, <2>3, <2>5
  <2> QED BY <1>2, <2>6, WeekStarts
<1> QED BY <1>1, <1>2 DEF Frequencies

\* The period before begins on the first day of a period, and ends the day before
\* the current one begins.
LEMMA PreviousPeriod ==
  ASSUME NEW d \in Int, NEW f \in Frequencies
  PROVE  /\ PreviousStart(d, f) \in Int /\ PreviousEnd(d, f) \in Int
         /\ First(PreviousStart(d, f), f) = PreviousStart(d, f)
         /\ Last(PreviousStart(d, f), f) = PreviousEnd(d, f)
         /\ PreviousStart(d, f) <= PreviousEnd(d, f)
         /\ PreviousEnd(d, f) < d
<1> DEFINE s == First(d, f)
<1>1. s \in Int /\ s <= d
  BY PeriodContains
<1>2. PreviousEnd(d, f) = s - 1
  BY DEF PreviousEnd
<1>3. First(s, f) = s
  BY FirstIsFirst
<1> HIDE DEF s
<1>4. /\ PreviousStart(d, f) \in Int
      /\ First(PreviousStart(d, f), f) = PreviousStart(d, f)
      /\ PreviousStart(d, f) <= PreviousEnd(d, f)
  BY <1>1, <1>2, FirstIsFirst, PeriodContains DEF PreviousStart
<1>5. CASE f = "daily"
  BY <1>1, <1>2, <1>4, <1>5 DEF PreviousStart, First, Last
<1>6. CASE f = "weekly"
  <2>1. PICK i \in Int : s - 1 = WeekLength * i
    BY <1>1, <1>3, <1>6, WeekStarts
  <2> DEFINE t == s - WeekLength
  <2>2. t \in Int /\ t - 1 = WeekLength * (i - 1)
    BY <1>1, <2>1, Constants, Multiples
  <2>3. First(t, f) = t
    BY <1>6, <2>2, WeekStarts
  <2>4. t <= s - 1 /\ Last(t, f) = s - 1
    BY <1>1, <1>6, <2>3, Constants DEF Last
  <2> HIDE DEF t
  <2>5. First(s - 1, f) = t
    BY <1>1, <2>2, <2>3, <2>4, FirstOfPeriod
  <2>6. PreviousStart(d, f) = t
    BY <1>2, <2>5 DEF PreviousStart
  <2> QED BY <1>1, <1>2, <1>4, <2>4, <2>6
<1> QED BY <1>1, <1>2, <1>4, <1>5, <1>6 DEF Frequencies

-----------------------------------------------------------------------------
(* Maxima *)

\* A bounded set of numbers has a largest one.
LEMMA HasMax ==
  ASSUME NEW S \in SUBSET Nat, S # {}, NEW n \in Nat, \A x \in S : x <= n
  PROVE  \E m \in S : \A x \in S : x <= m
<1> DEFINE R == StrictSubsetOrdering(Nat)
           T == {x .. n : x \in S}
<1>1. IsWellFoundedOn(R, FiniteSubsetsOf(Nat))
  BY FS_StrictSubsetOrderingWellFounded
<1>2. T \subseteq FiniteSubsetsOf(Nat) /\ T # {}
  <2>1. \A x \in S : IsFiniteSet(x .. n) /\ x .. n \in SUBSET Nat
    BY FS_Interval
  <2> QED BY <2>1 DEF FiniteSubsetsOf
<1>3. \A x, y \in S : x > y => <<x .. n, y .. n>> \in R
  BY DEF StrictSubsetOrdering
<1> HIDE DEF R
<1>4. \E y \in T : \A z \in T : ~ (<<z, y>> \in R)
  <2> HIDE DEF T
  <2> QED BY <1>1, <1>2, WFMin, Zenon
<1>5. PICK m \in S : \A x \in S : ~ (<<x .. n, m .. n>> \in R)
  BY <1>4
<1>6. \A x \in S : ~ (x > m)
  BY <1>3, <1>5, Zenon
<1> QED BY <1>6

LEMMA MaxIsLargest ==
  ASSUME NEW S \in SUBSET Nat, S # {}, NEW n \in Nat, \A x \in S : x <= n
  PROVE  Max(S) \in S /\ \A x \in S : x <= Max(S)
<1>1. \E m \in S : \A x \in S : m >= x
  BY HasMax
<1>2. Max(S) \in S /\ \A x \in S : Max(S) >= x
  BY <1>1, Zenon DEF Max
<1> QED BY <1>2
-----------------------------------------------------------------------------
(* The inductive invariant *)

Periods ==
  [version : 1 .. MaxPolicies, start : Days, end : Days, terms : Terms,
   awards : SUBSET Occurrences, reversals : SUBSET Occurrences, at : Days]

Versions == [version : 1 .. MaxPolicies, from : 1 .. MaxDay + WeekLength, terms : Terms]

Requested == requests \in Seq([of : Periods, at : Days])

\* The change of policy holds the family's row: no other has used up the versions.
PutHolds ==
  putting # NoPut =>
    /\ putting.today <= now /\ now <= putting.today + MaxLag
    /\ \A p \in policies : p.version < MaxPolicies

\* The first version is never deleted, and at most one waits.
OneWaits ==
  /\ \E p \in policies : p.from = 1
  /\ \A p, q \in policies : (p.from > now /\ q.from > now) => p = q

\* A transaction is committed after it began, and only so many have begun.
TimesInOrder ==
  /\ \A o \in Occurrences : \A x \in {award[o], reversal[o]} :
       /\ x.begun <= now /\ x.posted <= now
       /\ Posted(x) => (x.begun # None /\ x.begun <= x.posted)
  /\ IsFiniteSet({o \in Occurrences : award[o].begun # None \/ reversal[o].begun # None})

\* The number of a version is not given again, also when it was deleted.
NumbersOnce ==
  \A e \in evaluations :
    /\ \E p \in policies : p.version >= e.version
    /\ \A p \in policies : p.version = e.version => p.terms = e.terms

\* What is scored is a whole period after its cutoff, from what is committed.
PeriodsClosed ==
  \A e \in evaluations :
    /\ First(e.start, e.terms.frequency) = e.start
    /\ Last(e.start, e.terms.frequency) = e.end
    /\ Cutoff(e) < e.at /\ e.at <= now
    /\ \A o \in e.awards : Within(DateOf[o], e) /\ Posted(award[o])
    /\ \A o \in e.reversals : Posted(reversal[o])

\* Only what is reversed is adjusted for.
AdjustedIsReversed ==
  \A e \in evaluations, o \in Occurrences : <<e, o>> \in adjustments => Posted(reversal[o])

\* The version that owned the first day of a scored period still does, while no
\* change of policy stays open over a second midnight.
OwnersStay ==
  MaxLag <= 1 =>
    \A e \in evaluations : /\ Governing(e.start).version = e.version
                           /\ Governing(e.start).terms = e.terms

Base == TypeOK /\ Requested /\ PutHolds /\ OneWaits

EInv ==
  /\ Base
  /\ TimesInOrder
  /\ NumbersOnce
  /\ PeriodsClosed
  /\ AdjustedIsReversed
  /\ OwnersStay
  /\ AwardsCount
  /\ ReversalsDiscount
  /\ RequestsEarned

-----------------------------------------------------------------------------
(* What governs a day *)

\* TypeOK without its quantifiers over rows.
LEMMA Typed ==
  ASSUME TypeOK
  PROVE  /\ now \in Days /\ now \in Nat
         /\ \A p \in policies : p \in Versions /\ p.from \in Nat \ {0} /\ p.version \in Nat \ {0}
                                /\ p.terms \in Terms /\ p.terms.frequency \in Frequencies
         /\ \A e \in evaluations : e \in Periods
         /\ \A e \in Periods : /\ e.start \in Nat \ {0} /\ e.end \in Nat /\ e.at \in Nat
                               /\ e.version \in Nat
                               /\ e.terms \in Terms /\ e.terms.frequency \in Frequencies
                               /\ e.terms.grace \in Nat /\ Cutoff(e) \in Nat
         /\ \A e \in Periods : e.terms.minimum \in Nat /\ e.terms.cap \in Nat
         /\ \A o \in Occurrences : /\ award[o].begun \in Nat /\ award[o].posted \in Nat
                                   /\ reversal[o].begun \in Nat /\ reversal[o].posted \in Nat
<1>1. now \in Days /\ now \in Nat
  BY Constants DEF TypeOK
<1>2. \A p \in policies : p \in Versions /\ p.from \in Nat \ {0} /\ p.version \in Nat \ {0}
                          /\ p.terms \in Terms
  BY Constants DEF TypeOK, Versions
<1>3. \A e \in evaluations : e \in Periods
  BY DEF TypeOK, Periods
<1>4. \A e \in Periods : /\ e.start \in Nat \ {0} /\ e.end \in Nat /\ e.at \in Nat
                         /\ e.version \in Nat /\ e.terms \in Terms
  BY Constants DEF Periods
<1>5. \A e \in Periods : e.terms.grace \in Nat /\ Cutoff(e) \in Nat
  BY <1>4, Constants DEF Cutoff
<1>6. \A o \in Occurrences : /\ award[o].begun \in Nat /\ award[o].posted \in Nat
                             /\ reversal[o].begun \in Nat /\ reversal[o].posted \in Nat
  BY Constants DEF TypeOK
<1>7. \A e \in Periods : e.terms.minimum \in Nat /\ e.terms.cap \in Nat
  BY <1>4, Constants
<1> QED BY <1>1, <1>2, <1>3, <1>4, <1>5, <1>6, <1>7, Constants

\* From the first day on, the latest version that is in effect governs.
LEMMA Governed ==
  ASSUME TypeOK, OneWaits, NEW d \in Int, d >= 1
  PROVE  /\ Governing(d) \in policies /\ Governing(d).from <= d
         /\ \A q \in policies : q.from <= d => q.from <= Governing(d).from
<1> DEFINE S == {p.from : p \in InEffect(d)}
<1>1. S \in SUBSET Nat
  BY Typed DEF InEffect
<1>2. S # {}
  BY <1>1 DEF OneWaits, InEffect
<1>3. d \in Nat /\ \A x \in S : x <= d
  BY DEF InEffect
<1>4. \E m \in S : \A x \in S : x <= m
  BY <1>1, <1>2, <1>3, HasMax
<1>5. \E p \in InEffect(d) : \A q \in InEffect(d) : q.from <= p.from
  BY <1>4
<1>6. Governing(d) \in InEffect(d) /\ \A q \in InEffect(d) : q.from <= Governing(d).from
  BY <1>5, Zenon DEF Governing
<1> QED BY <1>6 DEF InEffect

\* Two days in the same versions have the same one.
LEMMA SameGoverning ==
  ASSUME NEW d, InEffect(d)' = InEffect(d)
  PROVE  Governing(d)' = Governing(d)
BY DEF Governing

\* The period that is scored is closed, and one version owned its first day.
LEMMA Closed ==
  ASSUME TypeOK, OneWaits, Final
  PROVE  /\ Frequency \in Frequencies /\ Owner.terms.frequency = Frequency
         /\ Owner \in policies /\ Owner.from <= Start
         /\ Start \in Days /\ PreviousEnd(now, Frequency) \in Days
         /\ Start <= PreviousEnd(now, Frequency) /\ PreviousEnd(now, Frequency) < now
         /\ First(Start, Frequency) = Start
         /\ Last(Start, Frequency) = PreviousEnd(now, Frequency)
         /\ now > PreviousEnd(now, Frequency) + Owner.terms.grace
<1>1. Governing(now) \in policies
  BY Typed, Governed, Constants
<1>2. Frequency \in Frequencies
  BY <1>1, Typed DEF Frequency
<1>3. /\ Start \in Int /\ PreviousEnd(now, Frequency) \in Int
      /\ First(Start, Frequency) = Start
      /\ Last(Start, Frequency) = PreviousEnd(now, Frequency)
      /\ Start <= PreviousEnd(now, Frequency) /\ PreviousEnd(now, Frequency) < now
  BY <1>2, Typed, PreviousPeriod DEF Start
<1>4. Start >= 1
  <2>1. PICK p \in policies : p.from <= Start
    BY DEF Final, InEffect
  <2> QED BY <1>3, <2>1, Typed
<1>5. Owner \in policies /\ Owner.from <= Start
  BY <1>3, <1>4, Governed DEF Owner
<1>6. Start \in Days /\ PreviousEnd(now, Frequency) \in Days
  BY <1>3, <1>4, Typed, Constants
<1> QED BY <1>2, <1>3, <1>5, <1>6 DEF Final, SameCalendar

\* What a look or a redemption finds, or makes.
LEMMA Evaluated ==
  ASSUME TypeOK, OneWaits, Final
  PROVE  /\ Evaluation \in Periods
         /\ Evaluation.version = Owner.version /\ Evaluation.start = Start
         /\ Evaluation.end = PreviousEnd(now, Frequency)
         /\ Evaluation \in evaluations \/ (Stored = {} /\ Evaluation = Scored)
         /\ Stored = {} => Evaluation \notin evaluations
<1> DEFINE end == PreviousEnd(now, Frequency)
           cutoff == end + Owner.terms.grace
           dated == {o \in Occurrences : Start <= DateOf[o] /\ DateOf[o] <= end}
           won == {o \in dated : Visible(award[o], cutoff)}
           lost == {o \in dated : Visible(reversal[o], cutoff)}
<1>1. Scored = [version |-> Owner.version, start |-> Start, end |-> end, terms |-> Owner.terms,
                awards |-> won, reversals |-> lost, at |-> now]
  BY DEF Scored
<1>2. /\ Owner \in Versions /\ Start \in Days /\ end \in Days /\ now \in Days
      /\ won \in SUBSET Occurrences /\ lost \in SUBSET Occurrences
  BY Closed, Typed
<1> HIDE DEF end, cutoff, dated, won, lost
<1>3. /\ Scored \in Periods
      /\ Scored.version = Owner.version /\ Scored.start = Start /\ Scored.end = end
  BY <1>1, <1>2 DEF Periods, Versions
<1>4. CASE Stored = {}
  BY <1>3, <1>4 DEF Evaluation, end, Stored
<1>5. CASE Stored # {}
  <2>1. Evaluation \in Stored
    BY <1>5 DEF Evaluation
  <2> QED BY <1>5, <2>1, Typed DEF Stored
<1> QED BY <1>4, <1>5 DEF end

\* The parts of a new evaluation.
LEMMA ScoredParts ==
  LET cutoff == PreviousEnd(now, Frequency) + Owner.terms.grace
  IN /\ Scored.terms = Owner.terms /\ Scored.at = now
     /\ Cutoff(Scored) = cutoff
     /\ \A o : o \in Scored.awards <=>
          /\ o \in Occurrences /\ Within(DateOf[o], Scored) /\ Visible(award[o], cutoff)
     /\ \A o : o \in Scored.reversals <=>
          /\ o \in Occurrences /\ Within(DateOf[o], Scored) /\ Visible(reversal[o], cutoff)
BY DEF Scored, Cutoff, Within

\* A look, or a redemption, only adds an evaluation.
Evaluates ==
  /\ Final
  /\ evaluations' = evaluations \cup {Evaluation}
  /\ UNCHANGED <<now, policies, putting, award, reversal, adjustments>>

LEMMA LooksAndRedemptionsEvaluate ==
  /\ Look => Evaluates /\ UNCHANGED requests
  /\ Redeem => Evaluates /\ requests' = Append(requests, [of |-> Evaluation, at |-> now])
BY DEF Look, Redeem, Evaluates, Evaluation

\* A change of policy keeps what had taken effect, and adds one version with a new
\* number that takes effect later.
LEMMA PutAdds ==
  ASSUME TypeOK, PutHolds, OneWaits, Put
  PROVE  \E new \in Versions :
           /\ policies' = {p \in policies : p.from <= putting.today} \cup {new}
           /\ new.terms = putting.terms /\ new.from > putting.today
           /\ \A p \in policies : p.version < new.version
<1> DEFINE S == {p.version : p \in policies} \cup {0}
           new == [version |-> 1 + Max(S), terms |-> putting.terms,
                   from |-> NextBoundary(putting.today, putting.terms.frequency)]
<1>1. putting.today \in Days /\ putting.terms \in Terms
  BY DEF TypeOK, Put
<1>2. policies' = {p \in policies : p.from <= putting.today} \cup {new}
  BY DEF Put
<1>3. S \in SUBSET Nat /\ S # {} /\ \A p \in policies : p.version \in S
  BY Typed
<1>4. \A x \in S : x < MaxPolicies
  BY Constants DEF PutHolds, Put
<1>5. Max(S) \in S /\ \A x \in S : x <= Max(S)
  <2> HIDE DEF S
  <2>1. \A x \in S : x <= MaxPolicies
    BY <1>3, <1>4, Constants
  <2> QED BY <1>3, <2>1, MaxIsLargest, Constants
<1> DEFINE d == putting.today
           f == putting.terms.frequency
<1>6. NextBoundary(d, f) \in 1 .. MaxDay + WeekLength /\ NextBoundary(d, f) > d
  <2>1. d \in 1 .. MaxDay /\ f \in Frequencies
    BY <1>1, Constants
  <2>2. Last(d, f) \in Int /\ d <= Last(d, f) /\ Last(d, f) <= d + WeekLength - 1
    BY <2>1, PeriodContains
  <2> QED BY <2>1, <2>2, Constants DEF NextBoundary
<1> DEFINE m == Max(S)
           b == NextBoundary(d, f)
<1>7. m \in Nat /\ m < MaxPolicies /\ \A p \in policies : p.version <= m
  BY <1>3, <1>4, <1>5
<1>8. new = [version |-> 1 + m, terms |-> putting.terms, from |-> b]
  OBVIOUS
<1> HIDE DEF S, new, m, b
<1>9. new \in Versions /\ new.terms = putting.terms /\ new.from = b /\ new.version = 1 + m
  BY <1>1, <1>6, <1>7, <1>8, Constants DEF Versions, b
<1> QED BY <1>2, <1>6, <1>7, <1>9, Typed DEF b
-----------------------------------------------------------------------------
(* Steps *)

\* The handlers by what they write.
LEMMA Handlers ==
  ASSUME Next
  PROVE  \/ Tick
         \/ \E o \in Occurrences : BeginApprove(o)
         \/ \E o \in Occurrences : PostAward(o)
         \/ \E o \in Occurrences : BeginReverse(o)
         \/ \E o \in Occurrences : PostReversal(o)
         \/ \E t \in Terms : BeginPut(t)
         \/ Put
         \/ Evaluates /\ UNCHANGED requests
         \/ Evaluates /\ requests' = Append(requests, [of |-> Evaluation, at |-> now]) /\ Redeem
BY LooksAndRedemptionsEvaluate DEF Next

\* What the ledger's transactions write is a time.
LEMMA TypeStep ==
  ASSUME Base, Next
  PROVE  TypeOK' /\ Requested'
<1> USE DEF Base
<1>1. CASE Tick
  <2>1. now' \in Days
    BY <1>1, Typed, Constants DEF Tick
  <2> QED BY <1>1, <2>1 DEF Tick, TypeOK, Requested
<1>2. ASSUME NEW o \in Occurrences, BeginApprove(o) \/ PostAward(o)
      PROVE  TypeOK' /\ Requested'
  <2>1. now \in 0 .. MaxDay
    BY Typed, Constants
  <2>2. award' \in [Occurrences -> [begun : 0 .. MaxDay, posted : 0 .. MaxDay]]
    BY <1>2, <2>1 DEF BeginApprove, PostAward, TypeOK
  <2> QED BY <1>2, <2>2 DEF BeginApprove, PostAward, TypeOK, Requested
<1>3. ASSUME NEW o \in Occurrences, BeginReverse(o) \/ PostReversal(o)
      PROVE  TypeOK' /\ Requested'
  <2>1. now \in 0 .. MaxDay
    BY Typed, Constants
  <2>2. reversal' \in [Occurrences -> [begun : 0 .. MaxDay, posted : 0 .. MaxDay]]
    BY <1>3, <2>1 DEF BeginReverse, PostReversal, TypeOK
  <2>3. adjustments' \subseteq (evaluations \X Occurrences)
    BY <1>3 DEF BeginReverse, PostReversal, Adjustable, TypeOK
  <2> QED BY <1>3, <2>2, <2>3 DEF BeginReverse, PostReversal, TypeOK, Requested
<1>4. ASSUME NEW t \in Terms, BeginPut(t)
      PROVE  TypeOK' /\ Requested'
  <2>1. putting' \in [today : Days, terms : Terms]
    BY <1>4, Typed DEF BeginPut
  <2> QED BY <1>4, <2>1 DEF BeginPut, TypeOK, Requested
<1>5. CASE Put
  <2>1. PICK new \in Versions :
          /\ policies' = {p \in policies : p.from <= putting.today} \cup {new}
          /\ new.from > putting.today
          /\ \A p \in policies : p.version < new.version
    BY <1>5, PutAdds
  <2>2. policies' \subseteq [version : 1 .. MaxPolicies, from : 1 .. MaxDay + WeekLength, terms : Terms]
    BY <2>1 DEF TypeOK, Versions
  <2>3. putting.today \in Nat /\ new.from \in Nat /\ new.version \in Nat
    BY <1>5, <2>1, Constants DEF Put, TypeOK, Versions
  <2>4. \A p \in policies : p.version \in Nat /\ p.from \in Nat
    BY Typed
  <2>5. \A p, q \in policies' : p # q => (p.version # q.version /\ p.from # q.from)
    <3>1. \A p, q \in policies : p # q => (p.version # q.version /\ p.from # q.from)
      BY DEF TypeOK
    <3> QED BY <2>1, <2>3, <2>4, <3>1
  <2>6. putting' = NoPut
    BY <1>5 DEF Put
  <2> QED BY <1>5, <2>2, <2>5, <2>6 DEF Put, TypeOK, Requested
<1>6. ASSUME Evaluates, \/ UNCHANGED requests
                        \/ requests' = Append(requests, [of |-> Evaluation, at |-> now])
      PROVE  TypeOK' /\ Requested'
  <2>1. /\ Evaluation \in Periods
        /\ Evaluation.version = Owner.version /\ Evaluation.start = Start
        /\ Evaluation.end = PreviousEnd(now, Frequency)
        /\ Evaluation \in evaluations \/ Stored = {}
    BY <1>6, Evaluated DEF Evaluates
  <2>2. evaluations' = evaluations \cup {Evaluation}
    BY <1>6 DEF Evaluates
  <2>3. /\ evaluations' \subseteq Periods
        /\ \A e, f \in evaluations' :
             (e.version = f.version /\ e.start = f.start /\ e.end = f.end) => e = f
    <3>1. /\ \A e \in evaluations : e \in Periods
          /\ \A e, f \in evaluations :
               (e.version = f.version /\ e.start = f.start /\ e.end = f.end) => e = f
      BY Typed DEF TypeOK
    <3>2. ASSUME Stored = {}, NEW e \in evaluations, e.version = Evaluation.version,
                 e.start = Evaluation.start, e.end = Evaluation.end
          PROVE  FALSE
      BY <2>1, <3>2 DEF Stored
    <3> QED BY <2>1, <2>2, <3>1, <3>2
  <2>4. adjustments' \subseteq (evaluations' \X Occurrences)
    BY <1>6, <2>2 DEF Evaluates, TypeOK
  <2> DEFINE r == [of |-> Evaluation, at |-> now]
  <2>5. r \in [of : Periods, at : Days] /\ r.of \in evaluations' /\ r.at \in Days
    BY <2>1, <2>2, Typed
  <2> HIDE DEF r
  <2>6. requests' \in Seq([of : Periods, at : Days])
    <3>1. requests \in Seq([of : Periods, at : Days])
      BY DEF Requested
    <3>2. UNCHANGED requests \/ requests' = Append(requests, r)
      BY <1>6 DEF r
    <3> DEFINE R == [of : Periods, at : Days]
    <3>3. requests \in Seq(R) /\ r \in R
      BY <2>5, <3>1
    <3> HIDE DEF R
    <3>4. Append(requests, r) \in Seq(R)
      BY <3>3
    <3>5. requests' \in Seq(R)
      BY <3>2, <3>3, <3>4
    <3> QED BY <3>5 DEF R
  <2>7. \A i \in DOMAIN requests' : requests'[i].at \in Days /\ requests'[i].of \in evaluations'
    <3>1. \A i \in DOMAIN requests : requests[i].at \in Days /\ requests[i].of \in evaluations'
      BY <2>2 DEF TypeOK
    <3>2. requests \in Seq([of : Periods, at : Days])
      BY DEF Requested
    <3>3. CASE UNCHANGED requests
      BY <3>1, <3>3
    <3>4. CASE requests' = Append(requests, r)
      <4>1. /\ DOMAIN requests' = 1 .. Len(requests) + 1
            /\ \A i \in 1 .. Len(requests) : requests'[i] = requests[i]
            /\ requests'[Len(requests) + 1] = r
            /\ DOMAIN requests = 1 .. Len(requests) /\ Len(requests) \in Nat
        BY <2>5, <3>2, <3>4
      <4> QED BY <2>5, <3>1, <4>1
    <3> QED BY <1>6, <3>3, <3>4 DEF r
  <2> QED BY <1>6, <2>3, <2>4, <2>6, <2>7 DEF Evaluates, TypeOK, Requested, Periods
<1> HIDE DEF Base
<1> QED BY <1>1, <1>2, <1>3, <1>4, <1>5, <1>6, Handlers

\* A change of policy holds the number of versions, and the day it began on.
LEMMA PolicyStep ==
  ASSUME Base, Next
  PROVE  PutHolds' /\ OneWaits'
<1> USE DEF Base
<1>0. /\ now \in Nat /\ MaxLag \in Nat
      /\ \A p \in policies : p.from \in Nat /\ p.version \in Nat
  BY Typed, Constants
<1>a. putting # NoPut => putting.today \in Nat \ {0}
  BY Constants DEF TypeOK
<1>1. CASE Tick
  BY <1>0, <1>a, <1>1 DEF Tick, PutHolds, OneWaits
<1>2. ASSUME NEW t \in Terms, BeginPut(t)
      PROVE  PutHolds' /\ OneWaits'
  <2>1. putting' = [today |-> now, terms |-> t]
    BY <1>2 DEF BeginPut
  <2>2. PutHolds'
    BY <1>0, <1>2, <2>1 DEF BeginPut, PutHolds
  <2> QED BY <1>2, <2>2 DEF BeginPut, OneWaits
<1>3. CASE Put
  <2>1. PICK new \in Versions :
          /\ policies' = {p \in policies : p.from <= putting.today} \cup {new}
          /\ new.from > putting.today
    BY <1>3, PutAdds
  <2>2. putting' = NoPut /\ now' = now /\ putting.today \in Nat \ {0} /\ putting.today <= now
    BY <1>3, <1>a DEF Put, PutHolds
  <2>3. OneWaits'
    BY <1>0, <2>1, <2>2 DEF OneWaits
  <2> QED BY <2>2, <2>3 DEF PutHolds
<1>4. CASE UNCHANGED <<now, policies, putting>>
  BY <1>4 DEF PutHolds, OneWaits
<1>5. \/ Tick \/ Put \/ \E t \in Terms : BeginPut(t)
      \/ UNCHANGED <<now, policies, putting>>
  BY Handlers DEF BeginApprove, PostAward, BeginReverse, PostReversal, Evaluates
<1> QED BY <1>1, <1>2, <1>3, <1>4, <1>5

\* While no change stays open over a second midnight, what governed the days
\* before today stays.
LEMMA PastKept ==
  ASSUME Base, Next, MaxLag <= 1, NEW d \in Nat \ {0}, d < now
  PROVE  InEffect(d)' = InEffect(d)
<1>1. CASE Put
  <2>1. PICK new \in Versions :
          /\ policies' = {p \in policies : p.from <= putting.today} \cup {new}
          /\ new.from > putting.today
    BY <1>1, PutAdds DEF Base
  <2>2. /\ now \in Nat /\ putting.today \in Nat /\ now <= putting.today + MaxLag
        /\ new.from \in Nat /\ \A p \in policies : p.from \in Nat
    <3>1. now \in Nat /\ \A p \in policies : p.from \in Nat
      BY Typed DEF Base
    <3>2. putting.today \in Nat /\ now <= putting.today + MaxLag
      BY <1>1, Constants DEF Base, Put, PutHolds, TypeOK
    <3>3. new.from \in Nat
      BY <2>1, Constants DEF Versions
    <3> QED BY <3>1, <3>2, <3>3
  <2>3. d <= putting.today
    BY <2>2, Constants
  <2> QED BY <2>1, <2>2, <2>3 DEF InEffect
<1>2. CASE UNCHANGED policies
  BY <1>2 DEF InEffect
<1> QED BY <1>1, <1>2, Handlers
        DEF Tick, BeginApprove, PostAward, BeginReverse, PostReversal, BeginPut, Evaluates

\* Today stays as well, but for a change that took its date yesterday.
LEMMA TodayKept ==
  ASSUME Base, Next, ~ Straddles, NEW d, d = now
  PROVE  InEffect(d)' = InEffect(d)
<1>1. CASE Put
  <2>1. PICK new \in Versions :
          /\ policies' = {p \in policies : p.from <= putting.today} \cup {new}
          /\ new.from > putting.today
    BY <1>1, PutAdds DEF Base
  <2>2. putting.today = now
    <3>1. now \in Nat /\ putting.today \in Nat
      BY <1>1, Typed, Constants DEF Base, Put, TypeOK
    <3>2. putting # NoPut /\ putting.today <= now
      BY <1>1 DEF Base, Put, PutHolds
    <3> QED BY <3>1, <3>2 DEF Straddles
  <2>3. new.from \in Nat /\ now \in Nat
    BY <2>1, Typed, Constants DEF Base, Versions
  <2> QED BY <2>1, <2>2, <2>3 DEF InEffect
<1>2. CASE UNCHANGED policies
  BY <1>2 DEF InEffect
<1> QED BY <1>1, <1>2, Handlers
        DEF Tick, BeginApprove, PostAward, BeginReverse, PostReversal, BeginPut, Evaluates

\* Transactions begin now, and are committed now.
LEMMA TimesStep ==
  ASSUME Base, TimesInOrder, Next
  PROVE  TimesInOrder'
<1> DEFINE Begun == {o \in Occurrences : award[o].begun # None \/ reversal[o].begun # None}
           Ordered(x) == /\ x.begun <= now /\ x.posted <= now
                         /\ Posted(x) => (x.begun # None /\ x.begun <= x.posted)
<1>0. /\ \A o \in Occurrences : Ordered(award[o]) /\ Ordered(reversal[o])
      /\ IsFiniteSet(Begun)
      /\ now \in Nat \ {0}
      /\ \A o \in Occurrences : /\ award[o].begun \in Nat /\ award[o].posted \in Nat
                                /\ reversal[o].begun \in Nat /\ reversal[o].posted \in Nat
      /\ award \in [Occurrences -> [begun : 0 .. MaxDay, posted : 0 .. MaxDay]]
      /\ reversal \in [Occurrences -> [begun : 0 .. MaxDay, posted : 0 .. MaxDay]]
  <2>1. \A o \in Occurrences : Ordered(award[o]) /\ Ordered(reversal[o])
    BY DEF TimesInOrder
  <2>2. IsFiniteSet(Begun)
    BY DEF TimesInOrder
  <2> HIDE DEF Begun, Ordered
  <2> QED BY <2>1, <2>2, Typed, Constants DEF Base, TypeOK
<1>1. CASE Tick
  BY <1>0, <1>1 DEF Tick, TimesInOrder, Posted
<1>2. ASSUME NEW o \in Occurrences, now' = now, Begun' \subseteq Begun \cup {o},
             \A u \in Occurrences : Ordered(award'[u]) /\ Ordered(reversal'[u])
      PROVE  TimesInOrder'
  <2>1. IsFiniteSet(Begun \cup {o})
    BY <1>0, FS_AddElement
  <2>2. IsFiniteSet(Begun')
    BY <1>2, <2>1, FS_Subset
  <2> QED BY <1>2, <2>2 DEF TimesInOrder, Posted
<1>3. ASSUME NEW o \in Occurrences, BeginApprove(o)
      PROVE  TimesInOrder'
  <2>1. /\ award' = [award EXCEPT ![o].begun = now] /\ award[o] = Unposted
        /\ reversal' = reversal /\ now' = now
    BY <1>3 DEF BeginApprove
  <2>2. award'[o].begun = now /\ award'[o].posted = None
    BY <1>0, <2>1 DEF Unposted
  <2>3. \A u \in Occurrences \ {o} : award'[u] = award[u]
    BY <2>1, <1>0
  <2>4. Begun' \subseteq Begun \cup {o}
    BY <2>1, <2>3
  <2>5. \A u \in Occurrences : Ordered(award'[u]) /\ Ordered(reversal'[u])
    BY <1>0, <2>1, <2>2, <2>3 DEF Posted, None
  <2> QED BY <1>2, <2>1, <2>4, <2>5
<1>4. ASSUME NEW o \in Occurrences, PostAward(o)
      PROVE  TimesInOrder'
  <2>1. /\ award' = [award EXCEPT ![o].posted = now] /\ award[o].begun # None
        /\ reversal' = reversal /\ now' = now
    BY <1>4 DEF PostAward, Open
  <2>2. award'[o].begun = award[o].begun /\ award'[o].posted = now
    BY <1>0, <2>1
  <2>3. \A u \in Occurrences \ {o} : award'[u] = award[u]
    BY <2>1, <1>0
  <2>4. Begun' \subseteq Begun \cup {o}
    BY <2>1, <2>3
  <2>5. \A u \in Occurrences : Ordered(award'[u]) /\ Ordered(reversal'[u])
    BY <1>0, <2>1, <2>2, <2>3 DEF Posted, None
  <2> QED BY <1>2, <2>1, <2>4, <2>5
<1>5. ASSUME NEW o \in Occurrences, BeginReverse(o)
      PROVE  TimesInOrder'
  <2>1. /\ reversal' = [reversal EXCEPT ![o].begun = now] /\ reversal[o] = Unposted
        /\ award' = award /\ now' = now
    BY <1>5 DEF BeginReverse
  <2>2. reversal'[o].begun = now /\ reversal'[o].posted = None
    BY <1>0, <2>1 DEF Unposted
  <2>3. \A u \in Occurrences \ {o} : reversal'[u] = reversal[u]
    BY <2>1, <1>0
  <2>4. Begun' \subseteq Begun \cup {o}
    BY <2>1, <2>3
  <2>5. \A u \in Occurrences : Ordered(award'[u]) /\ Ordered(reversal'[u])
    BY <1>0, <2>1, <2>2, <2>3 DEF Posted, None
  <2> QED BY <1>2, <2>1, <2>4, <2>5
<1>6. ASSUME NEW o \in Occurrences, PostReversal(o)
      PROVE  TimesInOrder'
  <2>1. /\ reversal' = [reversal EXCEPT ![o].posted = now] /\ reversal[o].begun # None
        /\ award' = award /\ now' = now
    BY <1>6 DEF PostReversal, Open
  <2>2. reversal'[o].begun = reversal[o].begun /\ reversal'[o].posted = now
    BY <1>0, <2>1
  <2>3. \A u \in Occurrences \ {o} : reversal'[u] = reversal[u]
    BY <2>1, <1>0
  <2>4. Begun' \subseteq Begun \cup {o}
    BY <2>1, <2>3
  <2>5. \A u \in Occurrences : Ordered(award'[u]) /\ Ordered(reversal'[u])
    BY <1>0, <2>1, <2>2, <2>3 DEF Posted, None
  <2> QED BY <1>2, <2>1, <2>4, <2>5
<1>7. CASE UNCHANGED <<now, award, reversal>>
  BY <1>7 DEF TimesInOrder, Posted
<1> HIDE DEF Begun, Ordered
<1> QED BY <1>1, <1>3, <1>4, <1>5, <1>6, <1>7, Handlers DEF BeginPut, Put, Evaluates
\* What is committed stays as it is, and is committed now.
LEMMA CommittedStays ==
  ASSUME Base, TimesInOrder, Next
  PROVE  /\ now <= now'
         /\ \A o \in Occurrences :
              /\ Posted(award[o]) => award'[o] = award[o]
              /\ Posted(reversal[o]) => reversal'[o] = reversal[o]
              /\ (Posted(award'[o]) /\ ~ Posted(award[o])) => award'[o].posted = now
              /\ (Posted(reversal'[o]) /\ ~ Posted(reversal[o])) => PostReversal(o)
              /\ PostReversal(o) => /\ ~ Posted(reversal[o]) /\ Posted(reversal'[o])
                                    /\ evaluations' = evaluations
         /\ \A e, o : (<<e, o>> \in adjustments' /\ <<e, o>> \notin adjustments) =>
              o \in Occurrences /\ PostReversal(o)
         /\ adjustments \subseteq adjustments'
<1>0. /\ now \in Nat \ {0}
      /\ award \in [Occurrences -> [begun : 0 .. MaxDay, posted : 0 .. MaxDay]]
      /\ reversal \in [Occurrences -> [begun : 0 .. MaxDay, posted : 0 .. MaxDay]]
  BY Typed, Constants DEF Base, TypeOK
<1>1. now <= now'
  BY <1>0, Handlers DEF Tick, BeginApprove, PostAward, BeginReverse, PostReversal, BeginPut, Put,
                        Evaluates
<1>2. ASSUME NEW o \in Occurrences, NEW u \in Occurrences, BeginApprove(u) \/ PostAward(u)
      PROVE  /\ Posted(award[o]) => award'[o] = award[o]
             /\ (Posted(award'[o]) /\ ~ Posted(award[o])) => award'[o].posted = now
  <2>1. CASE u = o
    <3>1. ~ Posted(award[o])
      BY <1>2, <2>1 DEF BeginApprove, PostAward, Open, Posted, Unposted, None
    <3>2. award'[o].posted = award[o].posted \/ award'[o].posted = now
      BY <1>0, <1>2, <2>1 DEF BeginApprove, PostAward
    <3> QED BY <3>1, <3>2 DEF Posted
  <2>2. CASE u # o
    BY <1>0, <1>2, <2>2 DEF BeginApprove, PostAward
  <2> QED BY <2>1, <2>2
<1>3. \A o \in Occurrences :
        /\ Posted(award[o]) => award'[o] = award[o]
        /\ (Posted(award'[o]) /\ ~ Posted(award[o])) => award'[o].posted = now
  <2>1. UNCHANGED award \/ \E u \in Occurrences : BeginApprove(u) \/ PostAward(u)
    BY Handlers DEF Tick, BeginReverse, PostReversal, BeginPut, Put, Evaluates
  <2> QED BY <1>2, <2>1 DEF Posted
<1>4. ASSUME NEW o \in Occurrences, PostReversal(o)
      PROVE  ~ Posted(reversal[o]) /\ Posted(reversal'[o]) /\ evaluations' = evaluations
  BY <1>0, <1>4 DEF PostReversal, Open, Posted, None
<1>5. ASSUME NEW o \in Occurrences, NEW u \in Occurrences, BeginReverse(u) \/ PostReversal(u)
      PROVE  /\ Posted(reversal[o]) => reversal'[o] = reversal[o]
             /\ (Posted(reversal'[o]) /\ ~ Posted(reversal[o])) => PostReversal(o)
  <2>1. CASE u = o
    <3>1. ~ Posted(reversal[o])
      BY <1>5, <2>1 DEF BeginReverse, PostReversal, Open, Posted, Unposted, None
    <3>2. BeginReverse(u) => reversal'[o].posted = reversal[o].posted
      BY <1>0, <2>1 DEF BeginReverse
    <3> QED BY <1>5, <2>1, <3>1, <3>2 DEF Posted
  <2>2. CASE u # o
    BY <1>0, <1>5, <2>2 DEF BeginReverse, PostReversal
  <2> QED BY <2>1, <2>2
<1>6. \A o \in Occurrences :
        /\ Posted(reversal[o]) => reversal'[o] = reversal[o]
        /\ (Posted(reversal'[o]) /\ ~ Posted(reversal[o])) => PostReversal(o)
  <2>1. UNCHANGED reversal \/ \E u \in Occurrences : BeginReverse(u) \/ PostReversal(u)
    BY Handlers DEF Tick, BeginApprove, PostAward, BeginPut, Put, Evaluates
  <2> QED BY <1>5, <2>1 DEF Posted
<1>7. /\ \A e, o : (<<e, o>> \in adjustments' /\ <<e, o>> \notin adjustments) =>
           o \in Occurrences /\ PostReversal(o)
      /\ adjustments \subseteq adjustments'
  <2>1. UNCHANGED adjustments \/ \E u \in Occurrences : PostReversal(u)
    BY Handlers DEF Tick, BeginApprove, PostAward, BeginReverse, BeginPut, Put, Evaluates
  <2>2. ASSUME NEW u \in Occurrences, PostReversal(u)
        PROVE  /\ adjustments \subseteq adjustments'
               /\ \A e, o : (<<e, o>> \in adjustments' /\ <<e, o>> \notin adjustments) => o = u
    BY <2>2 DEF PostReversal
  <2> QED BY <2>1, <2>2
<1> QED BY <1>1, <1>3, <1>4, <1>6, <1>7

\* A new evaluation is what is scored now, and nothing else changes with it.
LEMMA NewEvaluation ==
  ASSUME Base, Next, NEW e \in evaluations'
  PROVE  \/ e \in evaluations
         \/ /\ e \notin evaluations /\ Final /\ Stored = {} /\ e = Scored /\ e \in Periods
            /\ UNCHANGED <<now, policies, putting, award, reversal, adjustments>>
<1>1. CASE Evaluates
  <2>1. /\ Evaluation \in evaluations \/ (Stored = {} /\ Evaluation = Scored)
        /\ Evaluation \in Periods
    BY <1>1, Evaluated DEF Base, Evaluates
  <2> QED BY <1>1, <2>1 DEF Evaluates
<1>2. CASE UNCHANGED evaluations
  BY <1>2
<1> QED BY <1>1, <1>2, Handlers
        DEF Tick, BeginApprove, PostAward, BeginReverse, PostReversal, BeginPut, Put

\* Evaluations are never taken back.
LEMMA EvaluationsStay ==
  ASSUME Next
  PROVE  evaluations \subseteq evaluations'
BY Handlers
   DEF Tick, BeginApprove, PostAward, BeginReverse, PostReversal, BeginPut, Put, Evaluates

LEMMA PeriodsStep ==
  ASSUME Base, TimesInOrder, PeriodsClosed, Next
  PROVE  PeriodsClosed'
<1> DEFINE Whole(e) == /\ First(e.start, e.terms.frequency) = e.start
                       /\ Last(e.start, e.terms.frequency) = e.end
                       /\ Cutoff(e) < e.at
           Counted(e) == /\ \A o \in e.awards : Within(DateOf[o], e) /\ Posted(award[o])
                         /\ \A o \in e.reversals : Posted(reversal[o])
<1>0. \A e \in Periods : /\ e.awards \subseteq Occurrences /\ e.reversals \subseteq Occurrences
                         /\ e.at \in Nat
  BY Constants DEF Periods
<1>a. now \in Nat /\ now' \in Nat /\ now <= now'
  <2>1. now' \in Days
    BY TypeStep DEF TypeOK
  <2> QED BY <2>1, CommittedStays, Constants, Typed DEF Base
<1>1. ASSUME NEW e \in evaluations
      PROVE  Whole(e) /\ e.at <= now' /\ Counted(e)'
  <2>1. e \in Periods
    BY Typed DEF Base
  <2>2. Whole(e) /\ e.at <= now /\ Counted(e)
    BY DEF PeriodsClosed
  <2>3. \A o \in Occurrences : /\ Posted(award[o]) => Posted(award'[o])
                               /\ Posted(reversal[o]) => Posted(reversal'[o])
    BY CommittedStays
  <2>4. Counted(e)'
    BY <1>0, <2>1, <2>2, <2>3 DEF Within
  <2> QED BY <1>0, <1>a, <2>1, <2>2, <2>4
<1>2. ASSUME NEW e \in evaluations', e \notin evaluations
      PROVE  Whole(e) /\ e.at <= now' /\ Counted(e)'
  <2>1. /\ Final /\ e = Scored
        /\ UNCHANGED <<now, policies, putting, award, reversal, adjustments>>
    BY <1>2, NewEvaluation
  <2>2. /\ Owner.terms.frequency = Frequency
        /\ First(Start, Frequency) = Start
        /\ Last(Start, Frequency) = PreviousEnd(now, Frequency)
        /\ now > PreviousEnd(now, Frequency) + Owner.terms.grace
    BY <2>1, Closed DEF Base
  <2>3. /\ e.terms = Owner.terms /\ e.at = now /\ e.start = Start
        /\ e.end = PreviousEnd(now, Frequency)
        /\ Cutoff(e) = PreviousEnd(now, Frequency) + Owner.terms.grace
    BY <2>1, ScoredParts DEF Scored
  <2>4. Whole(e)
    <3>1. PreviousEnd(now, Frequency) + Owner.terms.grace \in Int
      BY <2>1, Closed, Typed, Constants DEF Base
    <3> QED BY <1>a, <2>2, <2>3, <3>1
  <2>5. /\ \A o \in e.awards : Within(DateOf[o], e) /\ Posted(award[o])
        /\ \A o \in e.reversals : Posted(reversal[o])
    BY <2>1, ScoredParts DEF Visible
  <2> QED BY <1>a, <2>1, <2>3, <2>4, <2>5 DEF Posted, Within
<1>3. \A e \in evaluations' : Whole(e) /\ e.at <= now' /\ Counted(e)'
  BY <1>1, <1>2
<1> QED BY <1>3 DEF PeriodsClosed, First, Last, Cutoff, Within, Posted

LEMMA AdjustedStep ==
  ASSUME Base, TimesInOrder, AdjustedIsReversed, Next
  PROVE  AdjustedIsReversed'
<1> SUFFICES ASSUME NEW e \in evaluations', NEW o \in Occurrences, <<e, o>> \in adjustments'
             PROVE  Posted(reversal'[o])
  BY DEF AdjustedIsReversed, Posted
<1>1. CASE <<e, o>> \in adjustments
  <2>1. e \in evaluations
    BY <1>1 DEF Base, TypeOK
  <2> QED BY <1>1, <2>1, CommittedStays DEF AdjustedIsReversed
<1>2. CASE <<e, o>> \notin adjustments
  BY <1>2, CommittedStays
<1> QED BY <1>1, <1>2

\* A commit after a look is after its cutoff.
LEMMA AwardsStep ==
  ASSUME Base, TimesInOrder, PeriodsClosed, AwardsCount, Next
  PROVE  AwardsCount'
<1> DEFINE Right(e, o, a) == /\ (Posted(a) /\ a.posted <= Cutoff(e)) => o \in e.awards
                             /\ o \in e.awards => a.begun <= Cutoff(e)
<1> SUFFICES ASSUME NEW e \in evaluations', NEW o \in Occurrences, Within(DateOf[o], e)
             PROVE  Right(e, o, award'[o])
  BY DEF AwardsCount, Within, Cutoff, Posted
<1>1. CASE e \in evaluations
  <2>1. Right(e, o, award[o]) /\ (o \in e.awards => Posted(award[o]))
    BY <1>1 DEF AwardsCount, PeriodsClosed
  <2>2. CASE Posted(award[o])
    BY <2>1, <2>2, CommittedStays
  <2>3. CASE ~ Posted(award[o])
    <3>1. Posted(award'[o]) => award'[o].posted = now
      BY <2>3, CommittedStays
    <3>2. Cutoff(e) < e.at /\ e.at <= now /\ Cutoff(e) \in Nat /\ e.at \in Nat /\ now \in Nat
      BY <1>1, Typed DEF PeriodsClosed, Base
    <3>3. Posted(award'[o]) => ~ (award'[o].posted <= Cutoff(e))
      BY <3>1, <3>2
    <3> QED BY <2>1, <2>3, <3>3
  <2> QED BY <2>2, <2>3
<1>2. CASE e \notin evaluations
  <2>1. Final /\ e = Scored /\ award' = award
    BY <1>2, NewEvaluation
  <2>2. o \in e.awards <=> Visible(award[o], Cutoff(e))
    BY <2>1, ScoredParts
  <2>3. /\ Posted(award[o]) => award[o].begun <= award[o].posted
        /\ award[o].begun \in Nat /\ award[o].posted \in Nat /\ Cutoff(e) \in Nat
    BY <1>2, NewEvaluation, Typed DEF TimesInOrder, Base
  <2> QED BY <2>1, <2>2, <2>3 DEF Visible
<1> QED BY <1>1, <1>2

\* The trigger finds the evaluation, and what it takes away it takes once.
LEMMA DiscountStep ==
  ASSUME Base, TimesInOrder, PeriodsClosed, AdjustedIsReversed, AwardsCount, ReversalsDiscount,
         Next
  PROVE  ReversalsDiscount'
<1> DEFINE Scores(e, o) == o \in e.reversals
           Excused(e, x) == x.begun > Cutoff(e) /\ x.posted <= e.at
           Goal(e, o) ==
             /\ ~ (Scores(e, o) /\ <<e, o>> \in adjustments')
             /\ (Scores(e, o) \/ <<e, o>> \in adjustments') => Posted(reversal'[o])
             /\ Posted(reversal'[o]) =>
                  \/ Scores(e, o) \/ <<e, o>> \in adjustments'
                  \/ Excused(e, reversal'[o])
                  \/ \E f \in evaluations' \ {e} : <<f, o>> \in adjustments'
<1> SUFFICES ASSUME NEW e \in evaluations', NEW o \in e.awards
             PROVE  Goal(e, o)
  BY DEF ReversalsDiscount, Posted, Cutoff
<1>1. CASE e \in evaluations
  <2>1. /\ ~ (Scores(e, o) /\ <<e, o>> \in adjustments)
        /\ (Scores(e, o) \/ <<e, o>> \in adjustments) => Posted(reversal[o])
        /\ Posted(reversal[o]) =>
             \/ Scores(e, o) \/ <<e, o>> \in adjustments
             \/ Excused(e, reversal[o])
             \/ \E f \in evaluations \ {e} : <<f, o>> \in adjustments
    BY <1>1 DEF ReversalsDiscount
  <2>2. o \in Occurrences /\ Within(DateOf[o], e) /\ award[o].begun <= Cutoff(e)
    <3>1. e \in Periods
      BY <1>1, Typed DEF Base
    <3>2. o \in Occurrences
      BY <3>1 DEF Periods
    <3> QED BY <1>1, <3>2 DEF PeriodsClosed, AwardsCount
  <2>3. CASE PostReversal(o)
    <3>1. e \in Adjustable(o)
      BY <1>1, <2>2 DEF Adjustable
    <3>2. PICK f \in evaluations : adjustments' = adjustments \cup {<<f, o>>}
      BY <2>3, <3>1 DEF PostReversal, Adjustable
    <3>3. ~ Posted(reversal[o]) /\ Posted(reversal'[o]) /\ evaluations' = evaluations
      BY <2>2, <2>3, CommittedStays
    <3>4. ~ Scores(e, o) /\ <<e, o>> \notin adjustments
      BY <2>1, <3>3
    <3> HIDE DEF Scores, Excused
    <3>5. CASE f = e
      BY <3>2, <3>3, <3>4, <3>5
    <3>6. CASE f # e
      BY <3>2, <3>3, <3>4, <3>6
    <3> QED BY <3>5, <3>6
  <2>4. CASE ~ PostReversal(o)
    <3>1. /\ Posted(reversal[o]) => reversal'[o] = reversal[o]
          /\ Posted(reversal'[o]) => Posted(reversal[o])
      BY <2>2, <2>4, CommittedStays
    <3>2. \A f : <<f, o>> \in adjustments' <=> <<f, o>> \in adjustments
      BY <2>4, CommittedStays
    <3>3. evaluations \subseteq evaluations'
      BY EvaluationsStay
    <3> HIDE DEF Scores, Excused
    <3> QED BY <2>1, <3>1, <3>2, <3>3
  <2> QED BY <2>3, <2>4
<1>2. CASE e \notin evaluations
  <2>1. Final /\ e = Scored /\ reversal' = reversal /\ adjustments' = adjustments /\ e \in Periods
    BY <1>2, NewEvaluation
  <2>2. <<e, o>> \notin adjustments
    BY <1>2 DEF Base, TypeOK
  <2>3. o \in Occurrences /\ Within(DateOf[o], e)
    BY <2>1, ScoredParts
  <2>4. Scores(e, o) <=> Visible(reversal[o], Cutoff(e))
    BY <2>1, <2>3, ScoredParts
  <2>5. /\ reversal[o].posted <= now /\ e.at = now
        /\ reversal[o].begun \in Nat /\ Cutoff(e) \in Nat
    BY <2>1, <2>3, ScoredParts, Typed DEF TimesInOrder, Base
  <2>6. (Posted(reversal[o]) /\ ~ Scores(e, o)) => Excused(e, reversal[o])
    <3> HIDE DEF Scores
    <3> QED BY <2>4, <2>5 DEF Visible
  <2> HIDE DEF Scores, Excused
  <2> QED BY <2>1, <2>2, <2>4, <2>6 DEF Visible
<1> QED BY <1>1, <1>2
\* A new version has a number that no evaluation names.
LEMMA NumbersStep ==
  ASSUME Base, NumbersOnce, Next
  PROVE  NumbersOnce'
<1>0. /\ \A p \in policies : p.version \in Nat
      /\ \A e \in evaluations : e.version \in Nat
  BY Typed DEF Base
<1>1. CASE Put
  <2>1. PICK new \in Versions :
          /\ policies' = {p \in policies : p.from <= putting.today} \cup {new}
          /\ \A p \in policies : p.version < new.version
    BY <1>1, PutAdds DEF Base
  <2>2. new.version \in Nat /\ evaluations' = evaluations
    BY <1>1, <2>1 DEF Versions, Put
  <2>3. \A e \in evaluations : e.version < new.version
    BY <1>0, <2>1, <2>2 DEF NumbersOnce
  <2> QED BY <1>0, <2>1, <2>2, <2>3 DEF NumbersOnce
<1>2. CASE UNCHANGED policies
  <2> SUFFICES ASSUME NEW e \in evaluations', e \notin evaluations
               PROVE  /\ \E p \in policies : p.version >= e.version
                      /\ \A p \in policies : p.version = e.version => p.terms = e.terms
    BY <1>2 DEF NumbersOnce
  <2>1. Final /\ e = Scored
    BY NewEvaluation
  <2>2. Owner \in policies /\ e.version = Owner.version /\ e.terms = Owner.terms
    BY <2>1, Closed, ScoredParts DEF Base, Scored
  <2>3. \A p \in policies : p.version = Owner.version => p = Owner
    BY <2>2 DEF Base, TypeOK
  <2> QED BY <1>0, <2>2, <2>3
<1> QED BY <1>1, <1>2, Handlers
        DEF Tick, BeginApprove, PostAward, BeginReverse, PostReversal, BeginPut, Evaluates

\* A period that was scored began before today.
LEMMA BeganBefore ==
  ASSUME TypeOK, PeriodsClosed, NEW e \in evaluations
  PROVE  e.start < now /\ e.start <= e.end /\ e.start \in Nat \ {0} /\ e.end \in Nat
<1>1. /\ e.start \in Nat \ {0} /\ e.end \in Nat /\ e.at \in Nat /\ now \in Nat
      /\ e.terms.frequency \in Frequencies /\ e.terms.grace \in Nat
  BY Typed
<1>2. Last(e.start, e.terms.frequency) = e.end /\ e.end + e.terms.grace < e.at /\ e.at <= now
  BY DEF PeriodsClosed, Cutoff
<1>3. e.start <= Last(e.start, e.terms.frequency)
  BY <1>1, PeriodContains
<1> QED BY <1>1, <1>2, <1>3

LEMMA OwnersStep ==
  ASSUME Base, PeriodsClosed, OwnersStay, Next
  PROVE  OwnersStay'
<1> SUFFICES ASSUME MaxLag <= 1, NEW e \in evaluations'
             PROVE  Governing(e.start)'.version = e.version /\ Governing(e.start)'.terms = e.terms
  BY DEF OwnersStay
<1>1. CASE e \in evaluations
  <2>1. InEffect(e.start)' = InEffect(e.start)
    BY <1>1, BeganBefore, PastKept DEF Base
  <2> QED BY <1>1, <2>1, SameGoverning DEF OwnersStay
<1>2. CASE e \notin evaluations
  <2>1. Final /\ e = Scored /\ UNCHANGED policies
    BY <1>2, NewEvaluation
  <2>2. e.start = Start /\ e.version = Owner.version /\ e.terms = Owner.terms
    BY <2>1 DEF Scored
  <2>3. Governing(e.start)' = Governing(e.start)
    BY <2>1 DEF Governing, InEffect
  <2> QED BY <2>2, <2>3 DEF Owner
<1> QED BY <1>1, <1>2

-----------------------------------------------------------------------------
(* Redemptions *)

LEMMA DifferenceBound ==
  ASSUME NEW A, NEW B, IsFiniteSet(A), IsFiniteSet(B)
  PROVE  /\ Cardinality(A \ B) >= Cardinality(A) - Cardinality(B)
         /\ Cardinality(A) \in Nat /\ Cardinality(B) \in Nat /\ Cardinality(A \ B) \in Nat
<1>1. IsFiniteSet(A \ B) /\ Cardinality(A \ B) = Cardinality(A) - Cardinality(A \cap B)
  BY FS_Difference
<1>2. IsFiniteSet(A \cap B) /\ Cardinality(A \cap B) <= Cardinality(B)
  BY FS_Subset
<1>3. /\ Cardinality(A) \in Nat /\ Cardinality(B) \in Nat
      /\ Cardinality(A \ B) \in Nat /\ Cardinality(A \cap B) \in Nat
  BY <1>1, <1>2, FS_CardinalityType
<1> QED BY <1>1, <1>2, <1>3

\* What is redeemed against was earned in the period before, of which the cutoff
\* has passed.
LEMMA Redeemable ==
  ASSUME Base, TimesInOrder, NumbersOnce, PeriodsClosed, AdjustedIsReversed, Final,
         CanRedeem(Evaluation)
  PROVE  /\ Cutoff(Evaluation) < now
         /\ now <= Last(Evaluation.end + 1, Evaluation.terms.frequency)
         /\ Cardinality(Evaluation.awards \ Evaluation.reversals) >= Evaluation.terms.minimum
<1> DEFINE e == Evaluation
<1>0. /\ e \in Periods /\ e.version = Owner.version /\ e.end = PreviousEnd(now, Frequency)
      /\ e \in evaluations \/ (Stored = {} /\ e = Scored)
  BY Evaluated DEF Base
<1>1. e.terms = Owner.terms
  <2>1. e = Scored => e.terms = Owner.terms
    BY ScoredParts
  <2>2. Owner \in policies
    BY Closed DEF Base
  <2> HIDE DEF e
  <2> QED BY <1>0, <2>1, <2>2 DEF NumbersOnce
<1>2. /\ Frequency \in Frequencies /\ Owner.terms.frequency = Frequency
      /\ now > PreviousEnd(now, Frequency) + Owner.terms.grace
  BY Closed DEF Base
<1>3. now <= Last(e.end + 1, e.terms.frequency)
  <2>1. /\ First(now, Frequency) \in Int /\ now <= Last(now, Frequency)
        /\ First(First(now, Frequency), Frequency) = First(now, Frequency)
    BY <1>2, Typed, PeriodContains, FirstIsFirst DEF Base
  <2>2. e.end + 1 = First(now, Frequency)
    BY <1>0, <2>1 DEF PreviousEnd
  <2>3. Last(e.end + 1, Frequency) = Last(now, Frequency)
    BY <2>1, <2>2 DEF Last
  <2> QED BY <1>1, <1>2, <2>1, <2>3
<1> DEFINE Begun == {o \in Occurrences : award[o].begun # None \/ reversal[o].begun # None}
           adjusted == {o \in Occurrences : <<e, o>> \in adjustments}
<1>4. IsFiniteSet(e.awards) /\ IsFiniteSet(e.reversals) /\ IsFiniteSet(adjusted)
  <2>1. /\ \A o \in e.awards : o \in Occurrences /\ Posted(award[o])
        /\ \A o \in e.reversals : o \in Occurrences /\ Posted(reversal[o])
    <3>1. CASE e \in evaluations
      BY <1>0, <3>1 DEF PeriodsClosed, Periods
    <3>2. CASE e = Scored
      BY <3>2, ScoredParts DEF Visible
    <3> QED BY <1>0, <3>1, <3>2
  <2>2. \A o \in adjusted : Posted(reversal[o])
    <3>1. \A o : <<e, o>> \in adjustments => e \in evaluations
      BY DEF Base, TypeOK
    <3> QED BY <3>1 DEF AdjustedIsReversed
  <2>3. \A o \in Occurrences : Posted(award[o]) \/ Posted(reversal[o]) => o \in Begun
    BY DEF TimesInOrder
  <2>4. e.awards \subseteq Begun /\ e.reversals \subseteq Begun /\ adjusted \subseteq Begun
    BY <2>1, <2>2, <2>3
  <2>5. IsFiniteSet(Begun)
    BY DEF TimesInOrder
  <2> HIDE DEF e, Begun, adjusted
  <2> QED BY <2>4, <2>5, FS_Subset
<1>5. Cardinality(e.awards) - Cardinality(e.reversals) - Cardinality(adjusted) >= e.terms.minimum
  BY DEF CanRedeem, Score
<1>6. Cutoff(e) < now
  <2>1. PreviousEnd(now, Frequency) + Owner.terms.grace \in Int
    BY Closed, Typed, Constants DEF Base
  <2> QED BY <1>0, <1>1, <1>2, <2>1, Typed DEF Cutoff, Base
<1>7. e.terms.minimum \in Nat
  BY <1>0, Typed DEF Base
<1> HIDE DEF e, adjusted
<1>8. Cardinality(adjusted) \in Nat
  BY <1>4, FS_CardinalityType
<1>9. Cardinality(e.awards \ e.reversals) >= e.terms.minimum
  BY <1>4, <1>5, <1>7, <1>8, DifferenceBound
<1> QED BY <1>3, <1>6, <1>9 DEF e

\* One more use of what is named, and of nothing else.
LEMMA UsedOnceMore ==
  ASSUME Requested, NEW r \in [of : Periods, at : Days], requests' = Append(requests, r), NEW e
  PROVE  /\ Used(e) \in Nat
         /\ Used(e)' = IF r.of = e THEN Used(e) + 1 ELSE Used(e)
<1> DEFINE R == [of : Periods, at : Days]
           n == Len(requests)
           S == {i \in DOMAIN requests : requests[i].of = e}
           T == {i \in DOMAIN requests' : requests'[i].of = e}
<1>1. requests \in Seq(R) /\ r \in R
  BY DEF Requested
<1> HIDE DEF R
<1>2. /\ n \in Nat /\ DOMAIN requests = 1 .. n /\ DOMAIN requests' = 1 .. n + 1
      /\ \A i \in 1 .. n : requests'[i] = requests[i]
      /\ requests'[n + 1] = r
  BY <1>1
<1>3. S \subseteq 1 .. n /\ IsFiniteSet(1 .. n)
  BY <1>2, FS_Interval
<1> HIDE DEF n
<1>4. T = IF r.of = e THEN S \cup {n + 1} ELSE S
  BY <1>2
<1>5. n + 1 \notin S
  BY <1>2
<1> HIDE DEF S
<1>6. IsFiniteSet(S)
  BY <1>3, FS_Subset
<1>7. Cardinality(S) \in Nat /\ Cardinality(S \cup {n + 1}) = Cardinality(S) + 1
  BY <1>5, <1>6, FS_AddElement, FS_CardinalityType
<1>8. Used(e) = Cardinality(S) /\ Used(e)' = Cardinality(T)
  BY DEF Used, S
<1> HIDE DEF T
<1> QED BY <1>4, <1>7, <1>8

LEMMA RequestsStep ==
  ASSUME Base, TimesInOrder, NumbersOnce, PeriodsClosed, AdjustedIsReversed, RequestsEarned, Next
  PROVE  RequestsEarned'
<1> DEFINE Earned(r) ==
      /\ Cutoff(r.of) < r.at /\ r.at <= Last(r.of.end + 1, r.of.terms.frequency)
      /\ Cardinality(r.of.awards \ r.of.reversals) >= r.of.terms.minimum
<1>0. \A i \in DOMAIN requests : Earned(requests[i]) /\ requests[i].of \in evaluations
  BY DEF RequestsEarned, Base, TypeOK
<1>1. ASSUME NEW e, e \in Periods, e \notin evaluations
      PROVE  Used(e) = 0 /\ 0 < e.terms.cap /\ e.terms.cap \in Nat
  <2>1. {i \in DOMAIN requests : requests[i].of = e} = {}
    BY <1>0, <1>1
  <2>2. e.terms \in Terms
    BY <1>1 DEF Periods
  <2> QED BY <2>1, <2>2, FS_EmptySet, Constants DEF Used
<1>2. CASE UNCHANGED requests
  <2>1. \A i \in DOMAIN requests' : Earned(requests'[i])
    BY <1>0, <1>2
  <2>2. ASSUME NEW e \in evaluations'
        PROVE  Used(e)' <= e.terms.cap
    <3>1. Used(e)' = Used(e)
      BY <1>2 DEF Used
    <3>2. CASE e \in evaluations
      BY <3>1, <3>2 DEF RequestsEarned
    <3>3. CASE e \notin evaluations
      <4>1. e \in Periods
        BY <3>3, NewEvaluation
      <4> QED BY <1>1, <3>1, <3>3, <4>1
    <3> QED BY <3>2, <3>3
  <2> HIDE DEF Earned
  <2>3. /\ \A i \in DOMAIN requests' : Earned(requests'[i])
        /\ \A e \in evaluations' : Used(e)' <= e.terms.cap
    BY <2>1, <2>2
  <2> QED BY <2>3 DEF RequestsEarned, Earned, Cutoff, Last, First, Used
<1>3. CASE Redeem
  <2> DEFINE r == [of |-> Evaluation, at |-> now]
  <2>1. /\ Final /\ CanRedeem(Evaluation)
        /\ evaluations' = evaluations \cup {Evaluation}
        /\ requests' = Append(requests, r)
    BY <1>3 DEF Redeem
  <2>2. Evaluation \in Periods /\ r \in [of : Periods, at : Days]
    BY <2>1, Evaluated, Typed DEF Base
  <2>3. Earned(r)
    BY <2>1, Redeemable
  <2>4. r.of = Evaluation
    OBVIOUS
  <2> HIDE DEF r, Earned
  <2>5. \A i \in DOMAIN requests' : Earned(requests'[i])
    <3> DEFINE R == [of : Periods, at : Days]
    <3>1. requests \in Seq(R) /\ r \in R
      BY <2>2 DEF Base, Requested
    <3> HIDE DEF R
    <3>2. \A i \in DOMAIN requests' : requests'[i] = r
                                      \/ (i \in DOMAIN requests /\ requests'[i] = requests[i])
      BY <2>1, <3>1
    <3> QED BY <1>0, <2>3, <3>2
  <2>6. ASSUME NEW e \in evaluations'
        PROVE  Used(e)' <= e.terms.cap
    <3>1. /\ Used(e) \in Nat
          /\ Used(e)' = IF Evaluation = e THEN Used(e) + 1 ELSE Used(e)
      BY <2>1, <2>2, <2>4, UsedOnceMore DEF Base
    <3>2. CASE e = Evaluation
      <4>1. Used(e) < e.terms.cap
        BY <2>1, <3>2 DEF CanRedeem
      <4>2. e.terms.cap \in Nat
        BY <2>2, <3>2, Typed DEF Base
      <4> QED BY <3>1, <3>2, <4>1, <4>2
    <3>3. CASE e # Evaluation
      BY <2>1, <3>1, <3>3 DEF RequestsEarned
    <3> QED BY <3>2, <3>3
  <2>7. /\ \A i \in DOMAIN requests' : Earned(requests'[i])
        /\ \A e \in evaluations' : Used(e)' <= e.terms.cap
    BY <2>5, <2>6
  <2> QED BY <2>7 DEF RequestsEarned, Earned, Cutoff, Last, First, Used
<1> QED BY <1>2, <1>3, Handlers
        DEF Tick, BeginApprove, PostAward, BeginReverse, PostReversal, BeginPut, Put
-----------------------------------------------------------------------------
(* Days in two evaluations *)

\* A weekly period holds a day that was scored by itself: a daily version took
\* effect in it.
LEMMA DayInWeek ==
  ASSUME EInv, MaxLag <= 1, NEW e \in evaluations, NEW f \in evaluations, NEW d \in Days,
         Within(d, e), Within(d, f), e.terms.frequency = "daily", f.terms.frequency = "weekly"
  PROVE  \E p \in policies : /\ p.terms.frequency # f.terms.frequency
                             /\ f.start < p.from /\ p.from <= f.end
<1>0. TypeOK /\ OneWaits /\ PeriodsClosed /\ OwnersStay
  BY DEF EInv, Base
<1>1. /\ e.start \in Nat \ {0} /\ e.end \in Nat /\ f.start \in Nat \ {0} /\ f.end \in Nat
      /\ d \in Nat
  BY <1>0, BeganBefore, Constants
<1>2. e.start = d
  <2>1. e.end = e.start
    BY <1>0, <1>1 DEF PeriodsClosed, First, Last
  <2> QED BY <1>1, <2>1 DEF Within
<1> DEFINE p == Governing(d)
           q == Governing(f.start)
<1>3. /\ p \in policies /\ p.from <= d
      /\ \A r \in policies : r.from <= d => r.from <= p.from
  BY <1>0, <1>1, <1>2, Governed
<1>4. /\ q \in policies /\ q.from <= f.start
      /\ \A r \in policies : r.from <= f.start => r.from <= q.from
  BY <1>0, <1>1, Governed
<1>5. p.terms = e.terms /\ q.terms = f.terms
  BY <1>0, <1>2 DEF OwnersStay
<1> HIDE DEF p, q
<1>6. p # q
  BY <1>5
<1>7. p.from \in Nat /\ q.from \in Nat /\ p.from # q.from
  BY <1>0, <1>3, <1>4, <1>6, Typed DEF TypeOK
<1>8. f.start <= d /\ d <= f.end
  BY DEF Within
<1>9. f.start < p.from
  BY <1>1, <1>3, <1>4, <1>7, <1>8
<1>10. p.from <= f.end
  BY <1>1, <1>3, <1>7, <1>8
<1> QED BY <1>3, <1>5, <1>9, <1>10

\* Periods of one frequency that share a day are the same.
LEMMA OverlapsReturn == EInv /\ MaxLag <= 1 => OverlapOnlyOnReturn
<1> SUFFICES ASSUME EInv, MaxLag <= 1, NEW e \in evaluations, NEW f \in evaluations, e # f,
                    NEW d \in Days, Within(d, e), Within(d, f)
             PROVE  \E p \in policies, g \in {e, f} : /\ p.terms.frequency # g.terms.frequency
                                                      /\ g.start < p.from /\ p.from <= g.end
  BY DEF OverlapOnlyOnReturn
<1>0. TypeOK /\ PeriodsClosed /\ OwnersStay
  BY DEF EInv, Base
<1>1. e.terms.frequency \in Frequencies /\ f.terms.frequency \in Frequencies
  BY <1>0, Typed
<1>2. CASE e.terms.frequency = f.terms.frequency
  <2> DEFINE k == e.terms.frequency
  <2>1. /\ First(e.start, k) = e.start /\ Last(e.start, k) = e.end
        /\ First(f.start, k) = f.start /\ Last(f.start, k) = f.end
    BY <1>0, <1>2 DEF PeriodsClosed
  <2>2. /\ d \in Int /\ e.start \in Int /\ f.start \in Int
        /\ e.start <= d /\ d <= e.end /\ f.start <= d /\ d <= f.end
    BY <1>0, Typed, Constants DEF Within
  <2>3. First(d, k) = e.start
    BY <1>1, <2>1, <2>2, FirstOfPeriod
  <2>4. First(d, k) = f.start
    BY <1>1, <2>1, <2>2, FirstOfPeriod
  <2>5. e.start = f.start /\ e.end = f.end
    BY <2>1, <2>3, <2>4
  <2>6. e.version = f.version
    BY <1>0, <2>5 DEF OwnersStay
  <2> QED BY <1>0, <2>5, <2>6 DEF TypeOK
<1>3. CASE e.terms.frequency = "daily" /\ f.terms.frequency = "weekly"
  BY <1>3, DayInWeek
<1>4. CASE f.terms.frequency = "daily" /\ e.terms.frequency = "weekly"
  BY <1>4, DayInWeek
<1> QED BY <1>1, <1>2, <1>3, <1>4 DEF Frequencies

-----------------------------------------------------------------------------
(* The theorems *)

LEMMA Initially == Init => EInv
<1> SUFFICES ASSUME Init PROVE EInv
  OBVIOUS
<1>1. PICK t \in Terms : policies = {[version |-> 1, from |-> 1, terms |-> t]}
  BY DEF Init
<1>2. now = 1 /\ putting = NoPut /\ evaluations = {} /\ adjustments = {} /\ requests = <<>>
  BY DEF Init
<1>3. \A o \in Occurrences : award[o] = Unposted /\ reversal[o] = Unposted
  BY DEF Init
<1>4. policies \subseteq [version : 1 .. MaxPolicies, from : 1 .. MaxDay + WeekLength, terms : Terms]
  <2>1. 1 \in 1 .. MaxPolicies /\ 1 \in 1 .. MaxDay + WeekLength
    BY Constants
  <2> QED BY <1>1, <2>1
<1>5. /\ award \in [Occurrences -> [begun : 0 .. MaxDay, posted : 0 .. MaxDay]]
      /\ reversal \in [Occurrences -> [begun : 0 .. MaxDay, posted : 0 .. MaxDay]]
  BY Constants DEF Init, Unposted, None
<1>6. TypeOK
  BY <1>1, <1>2, <1>4, <1>5, Constants DEF TypeOK
<1>7. Requested /\ PutHolds
  BY <1>2 DEF Requested, PutHolds
<1>8. OneWaits
  BY <1>1, <1>2 DEF OneWaits
<1>9. TimesInOrder
  <2>1. {o \in Occurrences : award[o].begun # None \/ reversal[o].begun # None} = {}
    BY <1>3 DEF Unposted
  <2>2. \A o \in Occurrences : \A x \in {award[o], reversal[o]} :
          x.begun <= now /\ x.posted <= now /\ ~ Posted(x)
    BY <1>2, <1>3 DEF Unposted, Posted, None
  <2> QED BY <2>1, <2>2, FS_EmptySet DEF TimesInOrder
<1>10. NumbersOnce /\ PeriodsClosed /\ AdjustedIsReversed /\ OwnersStay /\ AwardsCount
       /\ ReversalsDiscount
  BY <1>2 DEF NumbersOnce, PeriodsClosed, AdjustedIsReversed, OwnersStay, AwardsCount,
              ReversalsDiscount
<1>11. RequestsEarned
  BY <1>2 DEF RequestsEarned
<1> QED BY <1>6, <1>7, <1>8, <1>9, <1>10, <1>11 DEF EInv, Base

LEMMA Invariance == Spec => []EInv
<1>1. EInv /\ [Next]_vars => EInv'
  <2>1. ASSUME EInv, Next
        PROVE  EInv'
    <3>1. Base'
      BY <2>1, TypeStep, PolicyStep DEF EInv, Base
    <3>2. TimesInOrder' /\ NumbersOnce' /\ PeriodsClosed' /\ AdjustedIsReversed' /\ OwnersStay'
      BY <2>1, TimesStep, NumbersStep, PeriodsStep, AdjustedStep, OwnersStep DEF EInv
    <3>3. AwardsCount' /\ ReversalsDiscount' /\ RequestsEarned'
      BY <2>1, AwardsStep, DiscountStep, RequestsStep DEF EInv
    <3> QED BY <3>1, <3>2, <3>3 DEF EInv
  <2>2. ASSUME EInv, UNCHANGED vars
        PROVE  EInv'
    <3> USE <2>2 DEF vars
    <3>1. Base'
      BY DEF EInv, Base, TypeOK, Requested, PutHolds, OneWaits
    <3>2. TimesInOrder' /\ NumbersOnce' /\ PeriodsClosed' /\ AdjustedIsReversed'
      BY DEF EInv, TimesInOrder, NumbersOnce, PeriodsClosed, AdjustedIsReversed, Posted
    <3>3. OwnersStay'
      BY DEF EInv, OwnersStay, Governing, InEffect
    <3>4. AwardsCount' /\ ReversalsDiscount' /\ RequestsEarned'
      BY DEF EInv, AwardsCount, ReversalsDiscount, RequestsEarned, Posted, Used
    <3> QED BY <3>1, <3>2, <3>3, <3>4 DEF EInv
  <2> QED BY <2>1, <2>2
<1> QED BY <1>1, Initially, PTL DEF Spec

\* Every variable keeps its type, and versions and evaluations their unique keys
\* (migrations/000015:26-27, :53).
THEOREM TypeCorrect == Spec => []TypeOK
<1>1. EInv => TypeOK
  BY DEF EInv, Base
<1> QED BY <1>1, Invariance, PTL

\* An award counts when it existed by the cutoff, and only then, however late the
\* first look (rewards/eligibility.go:258-294, scorePeriod :342).
THEOREM AwardsAlwaysCount == Spec => []AwardsCount
<1>1. EInv => AwardsCount
  BY DEF EInv
<1> QED BY <1>1, Invariance, PTL

\* A reversal takes away once what was counted (migrations/000015:113-128).
THEOREM ReversalsAlwaysDiscount == Spec => []ReversalsDiscount
<1>1. EInv => ReversalsDiscount
  BY DEF EInv
<1> QED BY <1>1, Invariance, PTL

\* A redemption is requested in the period after the one that earned it, after its
\* cutoff, and at most as often as the policy of that evaluation allows
\* (rewards/eligibility.go:299-328).
THEOREM RequestsAlwaysEarned == Spec => []RequestsEarned
<1>1. EInv => RequestsEarned
  BY DEF EInv
<1> QED BY <1>1, Invariance, PTL

\* While no change of policy stays open over a second midnight, no day counts twice
\* but where a frequency returned (rewards/eligibility.go:237-256).
THEOREM OverlapsOnlyOnReturn ==
  ASSUME MaxLag <= 1
  PROVE  Spec => []OverlapOnlyOnReturn
<1>1. EInv => OverlapOnlyOnReturn
  BY OverlapsReturn
<1> QED BY <1>1, Invariance, PTL

\* While no change of policy stays open over a second midnight, it leaves what began
\* as it was, but for today when it straddles midnight, and one version waits at most
\* (rewards/eligibility.go:160-172).
THEOREM PastIsGoverned ==
  ASSUME MaxLag <= 1
  PROVE  Spec => PastGoverned
<1> DEFINE Step == /\ \A d \in 1 .. now : InEffect(d)' = InEffect(d) \/ (d = now /\ Straddles)
                   /\ Cardinality({p \in policies' : p.from > now'}) <= 1
<1>1. ASSUME EInv, EInv', [Next]_vars
      PROVE  [Step]_vars
  <2> SUFFICES ASSUME Next PROVE Step
    BY <1>1
  <2>1. \A d \in 1 .. now : InEffect(d)' = InEffect(d) \/ (d = now /\ Straddles)
    <3>1. now \in Nat /\ \A d \in 1 .. now : d \in Nat \ {0} /\ (d < now \/ d = now)
      BY <1>1, Typed DEF EInv, Base
    <3>2. \A d \in 1 .. now : d < now => InEffect(d)' = InEffect(d)
      BY <1>1, <3>1, PastKept DEF EInv
    <3>3. \A d : d = now => InEffect(d)' = InEffect(d) \/ Straddles
      BY <1>1, TodayKept DEF EInv
    <3> QED BY <3>1, <3>2, <3>3
  <2>2. \A p, q \in policies' : (p.from > now' /\ q.from > now') => p = q
    BY <1>1 DEF EInv, Base, OneWaits
  <2> DEFINE S == {p \in policies' : p.from > now'}
  <2>3. S = {} \/ \E p : S = {p}
    BY <2>2
  <2>4. Cardinality(S) = 0 \/ Cardinality(S) = 1
    <3> HIDE DEF S
    <3> QED BY <2>3, FS_EmptySet, FS_Singleton
  <2> QED BY <2>1, <2>4
<1>2. Spec => [][Step]_vars
  BY <1>1, Invariance, PTL DEF Spec
<1> QED BY <1>2, PTL DEF PastGoverned
=============================================================================
