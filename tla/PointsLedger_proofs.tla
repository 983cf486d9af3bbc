------------------------ MODULE PointsLedger_proofs -------------------------
(***************************************************************************)
(* What holds of PointsLedger for every household: any children, chores,   *)
(* prices and number of attempts.                                          *)
(***************************************************************************)
EXTENDS PointsLedger, SequenceTheorems, TLAPS

-----------------------------------------------------------------------------
(* Attempts: closing one, or closing every pending one, keeps the list. *)

LEMMA CloseKeepsAttempts ==
  ASSUME TypeOK, NEW o \in Occurrences, NEW n \in DOMAIN attempts[o],
         NEW decision \in Decisions, Close(o, n, decision)
  PROVE  /\ attempts' \in [Occurrences -> Seq(Decisions)]
         /\ Len(attempts'[o]) = Len(attempts[o])
         /\ \A m \in 1 .. Len(attempts[o]) :
              attempts'[o][m] = IF m = n THEN decision ELSE attempts[o][m]
         /\ \A p \in Occurrences : p # o => attempts'[p] = attempts[p]
<1>1. attempts[o] \in Seq(Decisions) /\ n \in 1 .. Len(attempts[o])
  BY DEF TypeOK
<1>2. /\ [attempts[o] EXCEPT ![n] = decision] \in Seq(Decisions)
      /\ Len([attempts[o] EXCEPT ![n] = decision]) = Len(attempts[o])
      /\ \A m \in 1 .. Len(attempts[o]) :
           [attempts[o] EXCEPT ![n] = decision][m] = IF m = n THEN decision ELSE attempts[o][m]
  BY <1>1, ExceptSeq
<1>3. /\ attempts'[o] = [attempts[o] EXCEPT ![n] = decision]
      /\ \A p \in Occurrences : p # o => attempts'[p] = attempts[p]
      /\ attempts' = [attempts EXCEPT ![o] = [attempts[o] EXCEPT ![n] = decision]]
  BY DEF Close, TypeOK
<1>4. attempts' \in [Occurrences -> Seq(Decisions)]
  BY <1>2, <1>3 DEF TypeOK
<1> QED BY <1>2, <1>3, <1>4

LEMMA CancelKeepsAttempts ==
  ASSUME TypeOK, NEW o \in Occurrences, CancelTask(o)
  PROVE  /\ attempts' \in [Occurrences -> Seq(Decisions)]
         /\ Len(attempts'[o]) = Len(attempts[o])
         /\ \A m \in 1 .. Len(attempts[o]) :
              attempts'[o][m] = IF attempts[o][m] = "pending" THEN "cancelled" ELSE attempts[o][m]
         /\ \A p \in Occurrences : p # o => attempts'[p] = attempts[p]
<1> DEFINE closed == [n \in DOMAIN attempts[o] |->
                       IF attempts[o][n] = "pending" THEN "cancelled" ELSE attempts[o][n]]
<1>1. attempts[o] \in Seq(Decisions)
  BY DEF TypeOK
<1>2. \A m \in 1 .. Len(attempts[o]) : attempts[o][m] \in Decisions
  BY <1>1, ElementOfSeq, Zenon
<1>3. DOMAIN attempts[o] = 1 .. Len(attempts[o]) /\ Len(attempts[o]) \in Nat
  BY <1>1
<1>4. closed \in Seq(Decisions) /\ Len(closed) = Len(attempts[o])
  BY <1>2, <1>3 DEF Decisions
<1>5. /\ attempts'[o] = closed
      /\ \A p \in Occurrences : p # o => attempts'[p] = attempts[p]
      /\ attempts' = [attempts EXCEPT ![o] = closed]
  BY DEF CancelTask, CancelTaskEffect, TypeOK
<1> HIDE DEF closed
<1>6. attempts' \in [Occurrences -> Seq(Decisions)]
  BY <1>4, <1>5 DEF TypeOK
<1> QED BY <1>3, <1>4, <1>5, <1>6 DEF closed

LEMMA SubmitKeepsAttempts ==
  ASSUME TypeOK, NEW o \in Occurrences, Submit(o)
  PROVE  /\ attempts' \in [Occurrences -> Seq(Decisions)]
         /\ Len(attempts'[o]) = Len(attempts[o]) + 1
         /\ attempts'[o][Len(attempts[o]) + 1] = "pending"
         /\ \A m \in 1 .. Len(attempts[o]) : attempts'[o][m] = attempts[o][m]
         /\ \A p \in Occurrences : p # o => attempts'[p] = attempts[p]
<1>1. attempts[o] \in Seq(Decisions) /\ "pending" \in Decisions
  BY DEF TypeOK, Decisions
<1>2. /\ attempts'[o] = Append(attempts[o], "pending")
      /\ \A p \in Occurrences : p # o => attempts'[p] = attempts[p]
      /\ attempts' = [attempts EXCEPT ![o] = Append(attempts[o], "pending")]
  BY DEF Submit, SubmitEffect, TypeOK
<1>3. Append(attempts[o], "pending") \in Seq(Decisions)
  BY <1>1
<1>4. attempts' \in [Occurrences -> Seq(Decisions)]
  BY <1>2, <1>3 DEF TypeOK
<1> QED BY <1>1, <1>2, <1>4

-----------------------------------------------------------------------------
(* Type correctness *)

LEMMA MoveKeepsTypes ==
  ASSUME TypeOK, NEW o \in Occurrences, NEW to \in OccurrenceStates, Move(o, to)
  PROVE  /\ state' \in [Occurrences -> OccurrenceStates]
         /\ version' \in [Occurrences -> Nat]
BY DEF TypeOK, Move

LEMMA PostKeepsTypes ==
  ASSUME TypeOK, NEW e \in Entries, Post(e)
  PROVE  ledger' \subseteq Entries /\ balance' \in [Children -> Int]
BY DEF TypeOK, Post, Entries

\* Every row the handlers post is a row of the ledger's shape.
LEMMA PostedRows ==
  ASSUME TypeOK
  PROVE  /\ \A o \in Occurrences : Award(o) \in Entries /\ Reversal(o) \in Entries
         /\ \A c \in Children, k \in Corrections, a \in Amounts : Correction(c, k, a) \in Entries
         /\ \A c \in Children, d \in Redemptions, cost \in Costs :
              /\ Entry("reward_redemption", c, d, -cost) \in Entries
              /\ Entry("reward_refund", c, d, cost) \in Entries
<1>1. ASSUME NEW o \in Occurrences PROVE Award(o) \in Entries /\ Reversal(o) \in Entries
  <2>1. ChildOf[o] \in Children
    BY PointsAssumption
  <2>2. points[o] \in PointValues
    BY DEF TypeOK
  <2>3. points[o] \in Nat
    BY <2>2, PointsAssumption
  <2> QED BY <2>1, <2>3 DEF Award, Reversal, Entry, Entries, EntryKinds, Items
<1>2. ASSUME NEW c \in Children, NEW k \in Corrections, NEW a \in Amounts
      PROVE  Correction(c, k, a) \in Entries
  BY PointsAssumption DEF Correction, Entry, Entries, EntryKinds, Items
<1>3. ASSUME NEW c \in Children, NEW d \in Redemptions, NEW cost \in Costs
      PROVE  /\ Entry("reward_redemption", c, d, -cost) \in Entries
             /\ Entry("reward_refund", c, d, cost) \in Entries
  BY PointsAssumption DEF Entry, Entries, EntryKinds, Items
<1> QED BY <1>1, <1>2, <1>3

\* Type correctness and, with it, that only existing redemptions have an owner
\* and a price.
RedemptionShape ==
  \A d \in Redemptions :
    IF redemption[d].state = "none"
    THEN redemption[d] = NoRedemption
    ELSE redemption[d].child \in Children /\ redemption[d].cost \in Costs

Shape == TypeOK /\ RedemptionShape

LEMMA ShapeInit == Init => Shape
<1> SUFFICES ASSUME Init PROVE Shape
  OBVIOUS
<1>1. attempts \in [Occurrences -> Seq(Decisions)]
  BY DEF Init
<1> QED
  BY <1>1 DEF Init, Shape, TypeOK, RedemptionShape, NoRedemption, RedemptionRows,
              RedemptionStates, OccurrenceStates

LEMMA ShapeStep ==
  ASSUME Shape, [Next]_vars
  PROVE  Shape'
<1> USE DEF Shape
<1>1. ASSUME NEW o \in Occurrences, Submit(o) PROVE Shape'
  BY <1>1, SubmitKeepsAttempts, MoveKeepsTypes, Zenon
     DEF Submit, SubmitEffect, TypeOK, RedemptionShape, ledgerVars, OccurrenceStates
<1>2. ASSUME NEW o \in Occurrences, NEW n \in 1 .. MaxAttempts, Withdraw(o, n) PROVE Shape'
  BY <1>2, CloseKeepsAttempts, MoveKeepsTypes, Zenon
     DEF Withdraw, WithdrawEffect, Pending, TypeOK, RedemptionShape, ledgerVars,
         OccurrenceStates, Decisions
<1>3. ASSUME NEW o \in Occurrences, NEW n \in 1 .. MaxAttempts, Approve(o, n) PROVE Shape'
  BY <1>3, CloseKeepsAttempts, MoveKeepsTypes, PostKeepsTypes, PostedRows, Zenon
     DEF Approve, ApproveEffect, Pending, TypeOK, RedemptionShape, OccurrenceStates, Decisions
<1>4. ASSUME NEW o \in Occurrences, NEW n \in 1 .. MaxAttempts, Reject(o, n) PROVE Shape'
  BY <1>4, CloseKeepsAttempts, MoveKeepsTypes, Zenon
     DEF Reject, RejectEffect, Pending, TypeOK, RedemptionShape, ledgerVars,
         OccurrenceStates, Decisions
<1>5. ASSUME NEW o \in Occurrences, NEW n \in 1 .. MaxAttempts, Reverse(o, n) PROVE Shape'
  BY <1>5, MoveKeepsTypes, PostKeepsTypes, PostedRows, Zenon
     DEF Reverse, ReverseEffect, TypeOK, RedemptionShape, OccurrenceStates
<1>6. ASSUME NEW o \in Tasks, CancelTask(o) PROVE Shape'
  <2>1. o \in Occurrences
    BY PointsAssumption
  <2>2. open' \subseteq Occurrences
    BY <1>6 DEF CancelTask, CancelTaskEffect, TypeOK
  <2> QED
    BY <1>6, <2>1, <2>2, CancelKeepsAttempts, MoveKeepsTypes, Zenon
       DEF CancelTask, CancelTaskEffect, TypeOK, RedemptionShape, ledgerVars, OccurrenceStates
<1>7. ASSUME NEW c \in Children, NEW k \in Corrections, NEW a \in Amounts, Correct(c, k, a)
      PROVE Shape'
  BY <1>7, PostKeepsTypes, PostedRows, Zenon
     DEF Correct, CorrectEffect, TypeOK, RedemptionShape, occurrenceVars
<1>8. ASSUME NEW d \in Redemptions, NEW c \in Children, NEW r \in Rewards, NEW cost \in Costs,
             Redeem(c, d, r, cost)
      PROVE Shape'
  <2>1. ledger' \subseteq Entries /\ balance' \in [Children -> Int]
    BY <1>8, PostKeepsTypes, PostedRows, Zenon DEF Redeem, RedeemEffect
  <2>2. redemption' \in [Redemptions -> RedemptionRows] /\ RedemptionShape'
    BY <1>8, PointsAssumption
       DEF Redeem, RedeemEffect, TypeOK, RedemptionShape, RedemptionRows, RedemptionStates
  <2> QED
    BY <1>8, <2>1, <2>2 DEF Redeem, RedeemEffect, TypeOK, occurrenceVars
<1>9. ASSUME NEW d \in Redemptions, Fulfil(d) PROVE Shape'
  BY <1>9 DEF Fulfil, FulfilEffect, Requested, TypeOK, RedemptionShape, RedemptionRows,
              RedemptionStates, occurrenceVars, ledgerVars
<1>10. ASSUME NEW d \in Redemptions, CancelRedemption(d) PROVE Shape'
  <2>1. redemption[d].child \in Children /\ redemption[d].cost \in Costs
    BY <1>10, Zenon DEF CancelRedemption, Requested, RedemptionShape
  <2>2. Refund(d) \in Entries
    BY <2>1, PostedRows, Zenon DEF Refund
  <2>3. ledger' \subseteq Entries /\ balance' \in [Children -> Int]
    BY <1>10, <2>2, PostKeepsTypes, Zenon DEF CancelRedemption, CancelRedemptionEffect
  <2>4. redemption' \in [Redemptions -> RedemptionRows] /\ RedemptionShape'
    BY <1>10 DEF CancelRedemption, CancelRedemptionEffect, Requested, TypeOK, RedemptionShape,
                 RedemptionRows, RedemptionStates
  <2> QED
    BY <1>10, <2>3, <2>4 DEF CancelRedemption, CancelRedemptionEffect, TypeOK, occurrenceVars
<1>11. ASSUME NEW o \in Occurrences, Reschedule(o) PROVE Shape'
  BY <1>11 DEF Reschedule, TypeOK, RedemptionShape, occurrenceVars, ledgerVars
<1>12. ASSUME NEW c \in Children, NEW r \in Rewards, Reprice(c, r) PROVE Shape'
  BY <1>12 DEF Reprice, TypeOK, RedemptionShape, occurrenceVars, ledgerVars
<1>13. ASSUME NEW o \in Tasks, NEW worth \in PointValues, EditTask(o, worth) PROVE Shape'
  BY <1>13, PointsAssumption
     DEF EditTask, EditTaskEffect, TypeOK, RedemptionShape, ledgerVars
<1>14. CASE UNCHANGED vars
  BY <1>14 DEF vars, TypeOK, RedemptionShape
<1> QED
  BY <1>1, <1>2, <1>3, <1>4, <1>5, <1>6, <1>7, <1>8, <1>9, <1>10, <1>11, <1>12, <1>13, <1>14
     DEF Next, AttemptStep, RedemptionStep

\* Every variable keeps its type and redemption rows keep their shape, whatever
\* the handlers do.
THEOREM ShapeCorrect == Spec => []Shape
BY ShapeInit, ShapeStep, PTL DEF Spec

\* The household's tables keep their types.
THEOREM TypeCorrect == Spec => []TypeOK
<1>1. Shape => TypeOK
  BY DEF Shape
<1> QED BY <1>1, ShapeCorrect, PTL

-----------------------------------------------------------------------------
(* Attempts explain states *)

\* What AttemptsAgree says of one occurrence.
LastAttempt(o) == IF attempts[o] = <<>> THEN "rejected" ELSE attempts[o][Len(attempts[o])]

AgreesOn(o) ==
  /\ \A n \in 1 .. Len(attempts[o]) - 1 : attempts[o][n] \in {"rejected", "withdrawn"}
  /\ state[o] = "not_started" => LastAttempt(o) \in {"rejected", "withdrawn"}
  /\ state[o] = "pending_approval" => LastAttempt(o) = "pending"
  /\ state[o] \in {"approved", "approval_reversed"} => LastAttempt(o) = "approved"
  /\ state[o] = "cancelled" => LastAttempt(o) \in {"rejected", "withdrawn", "cancelled"}

LEMMA AgreesEverywhere == AttemptsAgree <=> \A o \in Occurrences : AgreesOn(o)
BY DEF AttemptsAgree, AgreesOn, LastAttempt

LEMMA AttemptsLast ==
  ASSUME TypeOK, NEW o \in Occurrences
  PROVE  /\ Len(attempts[o]) \in Nat
         /\ DOMAIN attempts[o] = 1 .. Len(attempts[o])
         /\ attempts[o] = <<>> <=> Len(attempts[o]) = 0
<1>1. attempts[o] \in Seq(Decisions)
  BY DEF TypeOK
<1> QED BY <1>1

\* A handler that closes the pending attempt of o finds it last, and leaves
\* every other occurrence alone.
LEMMA CloseAgrees ==
  ASSUME TypeOK, AttemptsAgree, NEW o \in Occurrences, NEW n \in DOMAIN attempts[o],
         Pending(o, n), NEW decision \in Decisions, Close(o, n, decision),
         NEW to \in OccurrenceStates, Move(o, to),
         \/ to = "not_started" /\ decision \in {"rejected", "withdrawn"}
         \/ to = "approved" /\ decision = "approved"
  PROVE  AttemptsAgree'
<1>1. AgreesOn(o) /\ \A p \in Occurrences : AgreesOn(p)
  BY AgreesEverywhere
<1>2. n = Len(attempts[o]) /\ n \in Nat \ {0}
  BY <1>1, AttemptsLast DEF AgreesOn, Pending
<1>3. state'[o] = to /\ \A p \in Occurrences : p # o => state'[p] = state[p]
  BY DEF Move, TypeOK
<1>4. /\ Len(attempts'[o]) = Len(attempts[o])
      /\ \A m \in 1 .. Len(attempts[o]) :
           attempts'[o][m] = IF m = n THEN decision ELSE attempts[o][m]
      /\ \A p \in Occurrences : p # o => attempts'[p] = attempts[p]
  BY CloseKeepsAttempts, Zenon
<1>5. AgreesOn(o)'
  <2>1. attempts'[o] # <<>>
    BY <1>2, <1>4
  <2>2. LastAttempt(o)' = decision
    BY <1>2, <1>4, <2>1 DEF LastAttempt
  <2>3. \A m \in 1 .. Len(attempts'[o]) - 1 : attempts'[o][m] \in {"rejected", "withdrawn"}
    BY <1>1, <1>2, <1>4 DEF AgreesOn
  <2> QED BY <1>3, <2>2, <2>3 DEF AgreesOn
<1>6. ASSUME NEW p \in Occurrences, p # o PROVE AgreesOn(p)'
  BY <1>1, <1>3, <1>4, <1>6 DEF AgreesOn, LastAttempt
<1> QED
  BY <1>5, <1>6 DEF AttemptsAgree, AgreesOn, LastAttempt

LEMMA AttemptsInit == Init => AttemptsAgree
BY DEF Init, AttemptsAgree

LEMMA AttemptsStep ==
  ASSUME Shape, AttemptsAgree, [Next]_vars
  PROVE  AttemptsAgree'
<1>0. TypeOK
  BY DEF Shape
<1>1. ASSUME NEW o \in Occurrences, Submit(o) PROVE AttemptsAgree'
  <2>1. AgreesOn(o) /\ \A p \in Occurrences : AgreesOn(p)
    BY AgreesEverywhere
  <2>2. /\ state[o] = "not_started" /\ state'[o] = "pending_approval"
        /\ \A p \in Occurrences : p # o => state'[p] = state[p]
    BY <1>0, <1>1 DEF Submit, SubmitOK, SubmitEffect, Move, TypeOK
  <2>3. /\ Len(attempts'[o]) = Len(attempts[o]) + 1
        /\ attempts'[o][Len(attempts[o]) + 1] = "pending"
        /\ \A m \in 1 .. Len(attempts[o]) : attempts'[o][m] = attempts[o][m]
        /\ \A p \in Occurrences : p # o => attempts'[p] = attempts[p]
    BY <1>0, <1>1, SubmitKeepsAttempts, Zenon
  <2>4. Len(attempts[o]) \in Nat /\ (attempts[o] = <<>> <=> Len(attempts[o]) = 0)
    BY <1>0, AttemptsLast
  <2>5. \A m \in 1 .. Len(attempts[o]) : attempts[o][m] \in {"rejected", "withdrawn"}
    BY <2>1, <2>2, <2>4 DEF AgreesOn, LastAttempt
  <2>6. AgreesOn(o)'
    <3>1. attempts'[o] # <<>>
      BY <2>3, <2>4
    <3>2. LastAttempt(o)' = "pending"
      BY <2>3, <3>1 DEF LastAttempt
    <3> QED BY <2>2, <2>3, <2>4, <2>5, <3>2 DEF AgreesOn
  <2>7. ASSUME NEW p \in Occurrences, p # o PROVE AgreesOn(p)'
    BY <2>1, <2>2, <2>3, <2>7 DEF AgreesOn, LastAttempt
  <2> QED BY <2>6, <2>7 DEF AttemptsAgree, AgreesOn, LastAttempt
<1>2. ASSUME NEW o \in Occurrences, NEW n \in 1 .. MaxAttempts,
             Withdraw(o, n) \/ Approve(o, n) \/ Reject(o, n)
      PROVE AttemptsAgree'
  BY <1>0, <1>2, CloseAgrees, Zenon
     DEF Withdraw, Approve, Reject, Pending, WithdrawEffect, ApproveEffect, RejectEffect,
         Decisions, OccurrenceStates
<1>3. ASSUME NEW o \in Occurrences, NEW n \in 1 .. MaxAttempts, Reverse(o, n)
      PROVE AttemptsAgree'
  BY <1>0, <1>3 DEF Reverse, Approved, ReverseEffect, Move, TypeOK, AttemptsAgree
<1>4. ASSUME NEW o \in Tasks, CancelTask(o) PROVE AttemptsAgree'
  <2>0. o \in Occurrences
    BY PointsAssumption
  <2>1. AgreesOn(o) /\ \A p \in Occurrences : AgreesOn(p)
    BY <2>0, AgreesEverywhere
  <2>2. /\ state[o] \in {"not_started", "pending_approval"} /\ state'[o] = "cancelled"
        /\ \A p \in Occurrences : p # o => state'[p] = state[p]
    BY <1>0, <1>4, <2>0 DEF CancelTask, CancelTaskOK, CancelTaskEffect, Move, TypeOK
  <2>3. /\ Len(attempts'[o]) = Len(attempts[o])
        /\ \A m \in 1 .. Len(attempts[o]) :
             attempts'[o][m] = IF attempts[o][m] = "pending" THEN "cancelled" ELSE attempts[o][m]
        /\ \A p \in Occurrences : p # o => attempts'[p] = attempts[p]
        /\ attempts' \in [Occurrences -> Seq(Decisions)]
    BY <1>0, <1>4, <2>0, CancelKeepsAttempts, Zenon
  <2>4. Len(attempts[o]) \in Nat /\ (attempts[o] = <<>> <=> Len(attempts[o]) = 0)
    BY <1>0, <2>0, AttemptsLast
  <2>5. attempts'[o] = <<>> <=> attempts[o] = <<>>
    BY <2>0, <2>3, <2>4
  <2>6. LastAttempt(o)' = IF LastAttempt(o) = "pending" THEN "cancelled" ELSE LastAttempt(o)
    BY <2>3, <2>4, <2>5 DEF LastAttempt
  <2>7. AgreesOn(o)'
    BY <2>1, <2>2, <2>3, <2>4, <2>6 DEF AgreesOn
  <2>8. ASSUME NEW p \in Occurrences, p # o PROVE AgreesOn(p)'
    BY <2>1, <2>2, <2>3, <2>8 DEF AgreesOn, LastAttempt
  <2> QED BY <2>7, <2>8 DEF AttemptsAgree, AgreesOn, LastAttempt
<1>5. CASE UNCHANGED <<state, attempts>>
  BY <1>5 DEF AttemptsAgree
<1> QED
  BY <1>1, <1>2, <1>3, <1>4, <1>5
     DEF Next, AttemptStep, RedemptionStep, EditTask, EditTaskEffect, Correct, CorrectEffect,
         Redeem, RedeemEffect, Fulfil, FulfilEffect, CancelRedemption, CancelRedemptionEffect, Reschedule, Reprice, vars,
         occurrenceVars

\* The attempts of every occurrence explain its state, for any number of
\* occurrences and attempts.
THEOREM AttemptsAlwaysAgree == Spec => []AttemptsAgree
BY AttemptsInit, AttemptsStep, ShapeCorrect, PTL DEF Spec

-----------------------------------------------------------------------------
(* The ledger explains states *)

\* LedgerAgrees, by occurrence, by redemption and by row.
OccurrencePosted(o) ==
  /\ Award(o) \in ledger <=> state[o] \in {"approved", "approval_reversed"}
  /\ Reversal(o) \in ledger <=> state[o] = "approval_reversed"

RedemptionPosted(d) ==
  /\ redemption[d] # NoRedemption <=> Debit(d) \in ledger
  /\ redemption[d].state = "cancelled" <=> Refund(d) \in ledger

Explained(e) ==
  \/ \E o \in Occurrences : e \in {Award(o), Reversal(o)}
  \/ \E d \in Redemptions : redemption[d] # NoRedemption /\ e \in {Debit(d), Refund(d)}
  \/ \E c \in Children, k \in Corrections, a \in Amounts : e = Correction(c, k, a)

LEMMA LedgerAgreesByRow ==
  LedgerAgrees <=> /\ \A o \in Occurrences : OccurrencePosted(o)
                   /\ \A d \in Redemptions : RedemptionPosted(d)
                   /\ \A e \in ledger : Explained(e)
BY DEF LedgerAgrees, OccurrencePosted, RedemptionPosted, Explained

\* Rows of different kinds, or about different things, are different rows.
LEMMA RowsDiffer ==
  ASSUME NEW k1, NEW c1, NEW i1, NEW a1, NEW k2, NEW c2, NEW i2, NEW a2,
         k1 # k2 \/ i1 # i2 \/ c1 # c2 \/ a1 # a2
  PROVE  Entry(k1, c1, i1, a1) # Entry(k2, c2, i2, a2)
BY DEF Entry

\* A handler that posts no row and moves no occurrence into or out of the
\* approved states, or redemption into or out of cancellation, keeps agreement.
LEMMA QuietKeepsLedger ==
  ASSUME LedgerAgrees, UNCHANGED <<ledger, points>>,
         \A o \in Occurrences :
           \/ state'[o] = state[o]
           \/ {state[o], state'[o]} \cap {"approved", "approval_reversed"} = {},
         UNCHANGED redemption
  PROVE  LedgerAgrees'
<1>1. ASSUME NEW o \in Occurrences PROVE OccurrencePosted(o)'
  BY LedgerAgreesByRow DEF OccurrencePosted, Award, Reversal, Entry
<1>2. ASSUME NEW d \in Redemptions PROVE RedemptionPosted(d)'
  BY LedgerAgreesByRow DEF RedemptionPosted, Debit, Refund, Entry
<1>3. ASSUME NEW e \in ledger' PROVE Explained(e)'
  <2>1. Explained(e)
    BY LedgerAgreesByRow
  <2> QED BY <2>1 DEF Explained, Award, Reversal, Debit, Refund
<1> QED
  BY <1>1, <1>2, <1>3 DEF LedgerAgrees, OccurrencePosted, RedemptionPosted, Explained

LEMMA LedgerInit == Init => LedgerAgrees
BY DEF Init, LedgerAgrees, NoRedemption

LEMMA ApproveKeepsLedger ==
  ASSUME Shape, LedgerAgrees, NEW o \in Occurrences, NEW n \in 1 .. MaxAttempts, Approve(o, n)
  PROVE  LedgerAgrees'
<1>1. /\ ledger' = ledger \cup {Award(o)}
      /\ state[o] = "pending_approval" /\ state'[o] = "approved"
      /\ \A p \in Occurrences : p # o => state'[p] = state[p]
      /\ redemption' = redemption /\ points' = points
  BY DEF Approve, Pending, ApproveEffect, Post, Move, Shape, TypeOK
<1>2. ASSUME NEW p \in Occurrences PROVE OccurrencePosted(p)'
  <2>1. Award(p) # Award(o) \/ p = o
    BY RowsDiffer, Zenon DEF Award
  <2>2. Reversal(p) # Award(o)
    BY RowsDiffer, Zenon DEF Award, Reversal
  <2>3. OccurrencePosted(p)
    BY LedgerAgreesByRow
  <2>4. Award(p)' = Award(p) /\ Reversal(p)' = Reversal(p)
    BY <1>1 DEF Award, Reversal, Entry
  <2> QED
    BY <1>1, <2>1, <2>2, <2>3, <2>4 DEF OccurrencePosted
<1>3. ASSUME NEW d \in Redemptions PROVE RedemptionPosted(d)'
  <2>1. Debit(d) # Award(o) /\ Refund(d) # Award(o)
    BY RowsDiffer, Zenon DEF Award, Debit, Refund
  <2>2. Debit(d)' = Debit(d) /\ Refund(d)' = Refund(d)
    BY <1>1 DEF Debit, Refund, Entry
  <2> QED
    BY <1>1, <2>1, <2>2, LedgerAgreesByRow DEF RedemptionPosted
<1>4. ASSUME NEW e \in ledger' PROVE Explained(e)'
  <2>1. CASE e = Award(o)
    BY <1>1, <2>1 DEF Explained, Award, Entry
  <2>2. CASE e \in ledger
    BY <1>1, <2>2, LedgerAgreesByRow DEF Explained, Debit, Refund, Award, Reversal, Correction, Entry
  <2> QED BY <1>1, <2>1, <2>2
<1> QED
  BY <1>2, <1>3, <1>4 DEF LedgerAgrees, OccurrencePosted, RedemptionPosted, Explained

LEMMA ReverseKeepsLedger ==
  ASSUME Shape, LedgerAgrees, NEW o \in Occurrences, NEW n \in 1 .. MaxAttempts, Reverse(o, n)
  PROVE  LedgerAgrees'
<1>1. /\ ledger' = ledger \cup {Reversal(o)}
      /\ state[o] = "approved" /\ state'[o] = "approval_reversed"
      /\ \A p \in Occurrences : p # o => state'[p] = state[p]
      /\ redemption' = redemption /\ points' = points
  BY DEF Reverse, Approved, ReverseEffect, Post, Move, Shape, TypeOK
<1>2. ASSUME NEW p \in Occurrences PROVE OccurrencePosted(p)'
  <2>1. Reversal(p) # Reversal(o) \/ p = o
    BY RowsDiffer, Zenon DEF Reversal
  <2>2. Award(p) # Reversal(o)
    BY RowsDiffer, Zenon DEF Award, Reversal
  <2>3. OccurrencePosted(p)
    BY LedgerAgreesByRow
  <2>4. Award(p)' = Award(p) /\ Reversal(p)' = Reversal(p)
    BY <1>1 DEF Award, Reversal, Entry
  <2> QED
    BY <1>1, <2>1, <2>2, <2>3, <2>4 DEF OccurrencePosted
<1>3. ASSUME NEW d \in Redemptions PROVE RedemptionPosted(d)'
  <2>1. Debit(d) # Reversal(o) /\ Refund(d) # Reversal(o)
    BY RowsDiffer, Zenon DEF Reversal, Debit, Refund
  <2>2. Debit(d)' = Debit(d) /\ Refund(d)' = Refund(d)
    BY <1>1 DEF Debit, Refund, Entry
  <2> QED
    BY <1>1, <2>1, <2>2, LedgerAgreesByRow DEF RedemptionPosted
<1>4. ASSUME NEW e \in ledger' PROVE Explained(e)'
  <2>1. CASE e = Reversal(o)
    BY <1>1, <2>1 DEF Explained, Reversal, Entry
  <2>2. CASE e \in ledger
    BY <1>1, <2>2, LedgerAgreesByRow DEF Explained, Debit, Refund, Award, Reversal, Correction, Entry
  <2> QED BY <1>1, <2>1, <2>2
<1> QED
  BY <1>2, <1>3, <1>4 DEF LedgerAgrees, OccurrencePosted, RedemptionPosted, Explained

\* An edit changes what a chore is worth only before any row mentions it.
LEMMA EditKeepsLedger ==
  ASSUME Shape, LedgerAgrees, NEW o \in Tasks, NEW worth \in PointValues, EditTask(o, worth)
  PROVE  LedgerAgrees'
<1>1. /\ o \in Occurrences /\ state[o] = "not_started"
      /\ state' = state /\ ledger' = ledger /\ redemption' = redemption
      /\ \A p \in Occurrences : p # o => points'[p] = points[p]
  BY PointsAssumption DEF EditTask, EditTaskOK, EditTaskEffect, ledgerVars, Shape, TypeOK
<1>2. \A e \in ledger : e.kind \in {"award", "approval_reversal"} => e.ref # o
  <2> SUFFICES ASSUME NEW e \in ledger, e.kind \in {"award", "approval_reversal"}, e.ref = o
               PROVE  FALSE
    OBVIOUS
  <2>1. Explained(e)
    BY LedgerAgreesByRow
  <2>2. PICK p \in Occurrences : e \in {Award(p), Reversal(p)}
    BY <2>1 DEF Explained, Debit, Refund, Correction, Entry
  <2>3. p = o
    BY <2>2 DEF Award, Reversal, Entry
  <2>4. OccurrencePosted(o)
    BY <1>1, LedgerAgreesByRow
  <2> QED BY <1>1, <2>2, <2>3, <2>4 DEF OccurrencePosted
<1>3. ASSUME NEW p \in Occurrences PROVE OccurrencePosted(p)'
  <2>1. CASE p = o
    <3>1. Award(o)' \notin ledger /\ Reversal(o)' \notin ledger
      BY <1>2 DEF Award, Reversal, Entry
    <3> QED BY <1>1, <2>1, <3>1 DEF OccurrencePosted
  <2>2. CASE p # o
    BY <1>1, <2>2, LedgerAgreesByRow DEF OccurrencePosted, Award, Reversal
  <2> QED BY <2>1, <2>2
<1>4. ASSUME NEW d \in Redemptions PROVE RedemptionPosted(d)'
  BY <1>1, LedgerAgreesByRow DEF RedemptionPosted, Debit, Refund
<1>5. ASSUME NEW e \in ledger' PROVE Explained(e)'
  <2>1. Explained(e) /\ e \in ledger
    BY <1>1, <1>5, LedgerAgreesByRow
  <2>2. ASSUME NEW p \in Occurrences, e \in {Award(p), Reversal(p)} PROVE Explained(e)'
    <3>1. p # o
      BY <1>2, <2>1, <2>2 DEF Award, Reversal, Entry
    <3>2. e \in {Award(p)', Reversal(p)'}
      BY <1>1, <2>2, <3>1 DEF Award, Reversal
    <3> QED BY <3>2 DEF Explained
  <2>3. CASE ~ \E p \in Occurrences : e \in {Award(p), Reversal(p)}
    BY <1>1, <2>1, <2>3 DEF Explained, Debit, Refund, Correction
  <2> QED BY <2>2, <2>3
<1> QED
  BY <1>3, <1>4, <1>5 DEF LedgerAgrees, OccurrencePosted, RedemptionPosted, Explained

LEMMA CorrectKeepsLedger ==
  ASSUME LedgerAgrees, NEW c \in Children, NEW k \in Corrections, NEW a \in Amounts,
         Correct(c, k, a)
  PROVE  LedgerAgrees'
<1>1. /\ ledger' = ledger \cup {Correction(c, k, a)}
      /\ state' = state /\ redemption' = redemption /\ points' = points
  BY DEF Correct, CorrectEffect, Post, occurrenceVars
<1>2. ASSUME NEW p \in Occurrences PROVE OccurrencePosted(p)'
  <2>1. Award(p) # Correction(c, k, a) /\ Reversal(p) # Correction(c, k, a)
    BY RowsDiffer, Zenon DEF Award, Reversal, Correction
  <2>2. Award(p)' = Award(p) /\ Reversal(p)' = Reversal(p)
    BY <1>1 DEF Award, Reversal, Entry
  <2> QED
    BY <1>1, <2>1, <2>2, LedgerAgreesByRow DEF OccurrencePosted
<1>3. ASSUME NEW d \in Redemptions PROVE RedemptionPosted(d)'
  <2>1. Debit(d) # Correction(c, k, a) /\ Refund(d) # Correction(c, k, a)
    BY RowsDiffer, Zenon DEF Correction, Debit, Refund
  <2>2. Debit(d)' = Debit(d) /\ Refund(d)' = Refund(d)
    BY <1>1 DEF Debit, Refund, Entry
  <2> QED
    BY <1>1, <2>1, <2>2, LedgerAgreesByRow DEF RedemptionPosted
<1>4. ASSUME NEW e \in ledger' PROVE Explained(e)'
  <2>1. CASE e = Correction(c, k, a)
    BY <1>1, <2>1 DEF Explained, Correction, Entry
  <2>2. CASE e \in ledger
    BY <1>1, <2>2, LedgerAgreesByRow DEF Explained, Debit, Refund, Award, Reversal, Correction, Entry
  <2> QED BY <1>1, <2>1, <2>2
<1> QED
  BY <1>2, <1>3, <1>4 DEF LedgerAgrees, OccurrencePosted, RedemptionPosted, Explained

\* A redemption row other than d is untouched when the handler's d is.
LEMMA OtherRedemptions ==
  ASSUME Shape, NEW d \in Redemptions, NEW row, redemption' = [redemption EXCEPT ![d] = row]
  PROVE  /\ redemption'[d] = row
         /\ \A x \in Redemptions : x # d => /\ redemption'[x] = redemption[x]
                                           /\ Debit(x)' = Debit(x)
                                           /\ Refund(x)' = Refund(x)
BY DEF Shape, TypeOK, Debit, Refund

LEMMA RedeemKeepsLedger ==
  ASSUME Shape, LedgerAgrees, NEW d \in Redemptions, NEW c \in Children, NEW r \in Rewards,
         NEW cost \in Costs, Redeem(c, d, r, cost)
  PROVE  LedgerAgrees'
<1> DEFINE row == [state |-> "requested", child |-> c, cost |-> cost]
           debit == Entry("reward_redemption", c, d, -cost)
<1>1. /\ ledger' = ledger \cup {debit}
      /\ state' = state /\ points' = points
      /\ redemption' = [redemption EXCEPT ![d] = row]
      /\ redemption[d] = NoRedemption
  BY DEF Redeem, RedeemEffect, Post, occurrenceVars, Shape, RedemptionShape
<1>2. /\ redemption'[d] = row
      /\ \A x \in Redemptions : x # d => /\ redemption'[x] = redemption[x]
                                        /\ Debit(x)' = Debit(x)
                                        /\ Refund(x)' = Refund(x)
  BY <1>1, OtherRedemptions, Zenon
<1>3. Debit(d)' = debit /\ Refund(d)' = Entry("reward_refund", c, d, cost)
  BY <1>2 DEF Debit, Refund
<1>4. ASSUME NEW p \in Occurrences PROVE OccurrencePosted(p)'
  <2>1. Award(p) # debit /\ Reversal(p) # debit
    BY RowsDiffer, Zenon DEF Award, Reversal
  <2>2. Award(p)' = Award(p) /\ Reversal(p)' = Reversal(p)
    BY <1>1 DEF Award, Reversal, Entry
  <2> QED
    BY <1>1, <2>1, <2>2, LedgerAgreesByRow DEF OccurrencePosted
<1>5. \A e \in ledger : e.kind \in {"reward_redemption", "reward_refund"} => e.ref # d
  <2> SUFFICES ASSUME NEW e \in ledger, e.kind \in {"reward_redemption", "reward_refund"},
                      e.ref = d
               PROVE  FALSE
    OBVIOUS
  <2>1. Explained(e)
    BY LedgerAgreesByRow
  <2>2. PICK x \in Redemptions : redemption[x] # NoRedemption /\ e \in {Debit(x), Refund(x)}
    BY <2>1 DEF Explained, Award, Reversal, Correction, Entry
  <2>3. x = d
    BY <2>2 DEF Debit, Refund, Entry
  <2> QED BY <1>1, <2>2, <2>3
<1>6. ASSUME NEW x \in Redemptions PROVE RedemptionPosted(x)'
  <2>1. CASE x = d
    <3>1. row # NoRedemption /\ row.state # "cancelled"
      BY DEF NoRedemption
    <3>2. Refund(d)' \notin ledger'
      BY <1>1, <1>3, <1>5 DEF Entry
    <3> QED BY <1>1, <1>2, <1>3, <2>1, <3>1, <3>2 DEF RedemptionPosted
  <2>2. CASE x # d
    <3>1. Debit(x) # debit /\ Refund(x) # debit
      BY <2>2, RowsDiffer, Zenon DEF Debit, Refund
    <3> QED BY <1>1, <1>2, <2>2, <3>1, LedgerAgreesByRow DEF RedemptionPosted
  <2> QED BY <2>1, <2>2
<1>7. ASSUME NEW e \in ledger' PROVE Explained(e)'
  <2>1. CASE e = debit
    <3>1. row # NoRedemption
      BY DEF NoRedemption
    <3> QED BY <1>2, <1>3, <2>1, <3>1, Zenon DEF Explained
  <2>2. CASE e \in ledger
    <3>1. CASE \E x \in Redemptions : redemption[x] # NoRedemption /\ e \in {Debit(x), Refund(x)}
      <4>1. PICK x \in Redemptions : redemption[x] # NoRedemption /\ e \in {Debit(x), Refund(x)}
        BY <3>1
      <4>2. x # d
        BY <1>1, <4>1
      <4> QED BY <1>2, <4>1, <4>2, Zenon DEF Explained
    <3>2. CASE ~ \E x \in Redemptions : redemption[x] # NoRedemption /\ e \in {Debit(x), Refund(x)}
      BY <1>1, <2>2, <3>2, LedgerAgreesByRow DEF Explained, Award, Reversal, Correction, Entry
    <3> QED BY <3>1, <3>2
  <2> QED BY <1>1, <2>1, <2>2
<1> QED
  BY <1>4, <1>6, <1>7 DEF LedgerAgrees, OccurrencePosted, RedemptionPosted, Explained

LEMMA FulfilKeepsLedger ==
  ASSUME Shape, LedgerAgrees, NEW d \in Redemptions, Fulfil(d)
  PROVE  LedgerAgrees'
<1> DEFINE row == [redemption[d] EXCEPT !.state = "fulfilled"]
<1>1. /\ ledger' = ledger /\ state' = state /\ points' = points
      /\ redemption' = [redemption EXCEPT ![d] = row]
      /\ redemption[d].state = "requested"
  BY DEF Fulfil, FulfilEffect, Requested, occurrenceVars, ledgerVars
<1>2. redemption[d] \in RedemptionRows
  BY DEF Shape, TypeOK
<1>3. row.state = "fulfilled" /\ row.child = redemption[d].child /\ row.cost = redemption[d].cost
  BY <1>2 DEF RedemptionRows
<1>4. row # NoRedemption /\ redemption[d] # NoRedemption
  BY <1>1, <1>3 DEF NoRedemption
<1> HIDE DEF row
<1>5. /\ redemption'[d] = row
      /\ \A x \in Redemptions : x # d => /\ redemption'[x] = redemption[x]
                                        /\ Debit(x)' = Debit(x)
                                        /\ Refund(x)' = Refund(x)
  BY <1>1, OtherRedemptions, Zenon
<1>6. Debit(d)' = Debit(d) /\ Refund(d)' = Refund(d)
  BY <1>3, <1>5 DEF Debit, Refund
<1>7. ASSUME NEW p \in Occurrences PROVE OccurrencePosted(p)'
  BY <1>1, LedgerAgreesByRow DEF OccurrencePosted, Award, Reversal, Entry
<1>8. ASSUME NEW x \in Redemptions PROVE RedemptionPosted(x)'
  BY <1>1, <1>3, <1>4, <1>5, <1>6, LedgerAgreesByRow DEF RedemptionPosted
<1>9. ASSUME NEW e \in ledger' PROVE Explained(e)'
  <2>1. \A x \in Redemptions : redemption[x] # NoRedemption =>
           /\ redemption'[x] # NoRedemption
           /\ Debit(x)' = Debit(x) /\ Refund(x)' = Refund(x)
    BY <1>4, <1>5, <1>6
  <2> QED BY <1>1, <2>1, LedgerAgreesByRow DEF Explained, Award, Reversal, Correction, Entry
<1> QED
  BY <1>7, <1>8, <1>9 DEF LedgerAgrees, OccurrencePosted, RedemptionPosted, Explained

LEMMA CancelRedemptionKeepsLedger ==
  ASSUME Shape, LedgerAgrees, NEW d \in Redemptions, CancelRedemption(d)
  PROVE  LedgerAgrees'
<1> DEFINE row == [redemption[d] EXCEPT !.state = "cancelled"]
<1>1. /\ ledger' = ledger \cup {Refund(d)} /\ state' = state /\ points' = points
      /\ redemption' = [redemption EXCEPT ![d] = row]
      /\ redemption[d].state = "requested"
  BY DEF CancelRedemption, CancelRedemptionEffect, Requested, Post, occurrenceVars
<1>2. redemption[d] \in RedemptionRows
  BY DEF Shape, TypeOK
<1>3. row.state = "cancelled" /\ row.child = redemption[d].child /\ row.cost = redemption[d].cost
  BY <1>2 DEF RedemptionRows
<1>4. row # NoRedemption /\ redemption[d] # NoRedemption
  BY <1>1, <1>3 DEF NoRedemption
<1> HIDE DEF row
<1>5. /\ redemption'[d] = row
      /\ \A x \in Redemptions : x # d => /\ redemption'[x] = redemption[x]
                                        /\ Debit(x)' = Debit(x)
                                        /\ Refund(x)' = Refund(x)
  BY <1>1, OtherRedemptions, Zenon
<1>6. Debit(d)' = Debit(d) /\ Refund(d)' = Refund(d)
  BY <1>3, <1>5 DEF Debit, Refund
<1>7. ASSUME NEW p \in Occurrences PROVE OccurrencePosted(p)'
  <2>1. Award(p) # Refund(d) /\ Reversal(p) # Refund(d)
    BY RowsDiffer, Zenon DEF Award, Reversal, Refund
  <2>2. Award(p)' = Award(p) /\ Reversal(p)' = Reversal(p)
    BY <1>1 DEF Award, Reversal, Entry
  <2> QED
    BY <1>1, <2>1, <2>2, LedgerAgreesByRow DEF OccurrencePosted
<1>8. ASSUME NEW x \in Redemptions PROVE RedemptionPosted(x)'
  <2>1. Debit(x) # Refund(d)
    BY RowsDiffer, Zenon DEF Debit, Refund
  <2>2. x # d => Refund(x) # Refund(d)
    BY RowsDiffer, Zenon DEF Refund
  <2> QED BY <1>1, <1>3, <1>4, <1>5, <1>6, <2>1, <2>2, LedgerAgreesByRow DEF RedemptionPosted
<1>9. ASSUME NEW e \in ledger' PROVE Explained(e)'
  <2>1. \A x \in Redemptions : redemption[x] # NoRedemption =>
           /\ redemption'[x] # NoRedemption
           /\ Debit(x)' = Debit(x) /\ Refund(x)' = Refund(x)
    BY <1>4, <1>5, <1>6
  <2>2. CASE e = Refund(d)
    BY <1>4, <2>1, <2>2, Zenon DEF Explained
  <2>3. CASE e \in ledger
    BY <1>1, <2>1, <2>3, LedgerAgreesByRow DEF Explained, Award, Reversal, Correction, Entry
  <2> QED BY <1>1, <2>2, <2>3
<1> QED
  BY <1>7, <1>8, <1>9 DEF LedgerAgrees, OccurrencePosted, RedemptionPosted, Explained

LEMMA LedgerStep ==
  ASSUME Shape, LedgerAgrees, [Next]_vars
  PROVE  LedgerAgrees'
<1>1. ASSUME NEW o \in Occurrences,
             \/ Submit(o)
             \/ \E n \in 1 .. MaxAttempts : Withdraw(o, n) \/ Reject(o, n)
             \/ CancelTask(o)
      PROVE  LedgerAgrees'
  <2>1. /\ UNCHANGED <<ledger, points, redemption>>
        /\ {state[o], state'[o]} \cap {"approved", "approval_reversed"} = {}
        /\ \A p \in Occurrences : p # o => state'[p] = state[p]
    BY <1>1 DEF Submit, SubmitOK, SubmitEffect, Withdraw, WithdrawEffect, Reject, RejectEffect,
                Pending, CancelTask, CancelTaskOK, CancelTaskEffect, Move, Shape, TypeOK, ledgerVars
  <2> QED BY <2>1, QuietKeepsLedger
<1>2. ASSUME NEW o \in Occurrences, NEW n \in 1 .. MaxAttempts, Approve(o, n) \/ Reverse(o, n)
      PROVE LedgerAgrees'
  BY <1>2, ApproveKeepsLedger, ReverseKeepsLedger
<1>3. ASSUME NEW c \in Children, NEW k \in Corrections, NEW a \in Amounts, Correct(c, k, a)
      PROVE LedgerAgrees'
  BY <1>3, CorrectKeepsLedger
<1>4. ASSUME NEW d \in Redemptions, RedemptionStep(d) PROVE LedgerAgrees'
  BY <1>4, RedeemKeepsLedger, FulfilKeepsLedger, CancelRedemptionKeepsLedger DEF RedemptionStep
<1>5. ASSUME NEW o \in Tasks, NEW worth \in PointValues, EditTask(o, worth) PROVE LedgerAgrees'
  BY <1>5, EditKeepsLedger
<1>6. CASE UNCHANGED <<ledger, points, redemption, state>>
  BY <1>6, QuietKeepsLedger
<1>7. Tasks \subseteq Occurrences
  BY PointsAssumption
<1> QED
  BY <1>1, <1>2, <1>3, <1>4, <1>5, <1>6, <1>7
     DEF Next, AttemptStep, Reschedule, Reprice, vars, occurrenceVars, ledgerVars

\* The ledger explains the state of every occurrence and redemption, row by
\* row: at most one award and one reversal each, one debit and one refund each.
THEOREM LedgerAlwaysAgrees == Spec => []LedgerAgrees
BY LedgerInit, LedgerStep, ShapeCorrect, PTL DEF Spec

-----------------------------------------------------------------------------
(* Balances *)

LEMMA SolventInit == Init => Solvent
<1> SUFFICES ASSUME Init, NEW c \in Children PROVE balance[c] >= 0
  BY DEF Solvent
<1>1. balance[c] = 0
  BY DEF Init
<1> QED BY <1>1

\* Adding points, or taking no more than there are, keeps a balance solvent.
LEMMA Adding ==
  ASSUME Solvent, balance \in [Children -> Int], NEW c \in Children, NEW amount \in Nat,
         balance' = [balance EXCEPT ![c] = @ + amount]
  PROVE  Solvent'
BY DEF Solvent

LEMMA Spending ==
  ASSUME Solvent, balance \in [Children -> Int], NEW c \in Children, NEW amount \in Nat,
         balance[c] >= amount, balance' = [balance EXCEPT ![c] = @ + (-amount)]
  PROVE  Solvent'
BY DEF Solvent

LEMMA SolventStep ==
  ASSUME Shape, Solvent, [Next]_vars
  PROVE  Solvent'
<1> USE DEF Shape, TypeOK, Solvent, Post
<1>0. \A o \in Occurrences : ChildOf[o] \in Children /\ points[o] \in Nat
  BY PointsAssumption
<1>1. ASSUME NEW o \in Occurrences, NEW n \in 1 .. MaxAttempts, Approve(o, n) PROVE Solvent'
  <2>1. balance' = [balance EXCEPT ![ChildOf[o]] = @ + points[o]]
    BY <1>1 DEF Approve, ApproveEffect, Award, Entry
  <2> QED BY <1>0, <2>1, Adding
<1>2. ASSUME NEW o \in Occurrences, NEW n \in 1 .. MaxAttempts, Reverse(o, n) PROVE Solvent'
  <2>1. /\ balance' = [balance EXCEPT ![ChildOf[o]] = @ + (-points[o])]
        /\ balance[ChildOf[o]] >= points[o]
    BY <1>2 DEF Reverse, ReverseAffordable, ReverseEffect, Reversal, Entry
  <2> QED BY <1>0, <2>1, Spending
<1>3. ASSUME NEW c \in Children, NEW k \in Corrections, NEW a \in Amounts, Correct(c, k, a)
      PROVE Solvent'
  BY <1>3, PointsAssumption DEF Correct, CorrectEffect, Correction, Entry
<1>4. ASSUME NEW d \in Redemptions, NEW c \in Children, NEW r \in Rewards, NEW cost \in Costs,
             Redeem(c, d, r, cost)
      PROVE Solvent'
  BY <1>4, PointsAssumption DEF Redeem, RedeemAffordable, RedeemEffect, Entry
<1>5. ASSUME NEW d \in Redemptions, CancelRedemption(d) PROVE Solvent'
  <2>1. redemption[d].child \in Children /\ redemption[d].cost \in Costs
    BY <1>5, Zenon DEF CancelRedemption, Requested, RedemptionShape
  <2>2. balance' = [balance EXCEPT ![redemption[d].child] = @ + redemption[d].cost]
    BY <1>5 DEF CancelRedemption, CancelRedemptionEffect, Refund, Entry
  <2>3. redemption[d].cost \in Nat
    BY <2>1, PointsAssumption
  <2> DEFINE who == redemption[d].child
             cost == redemption[d].cost
  <2> HIDE DEF who, cost
  <2> QED BY <2>1, <2>2, <2>3, Adding DEF who, cost
<1>6. CASE UNCHANGED balance
  BY <1>6
<1> QED
  BY <1>1, <1>2, <1>3, <1>4, <1>5, <1>6
     DEF Next, AttemptStep, RedemptionStep, Submit, SubmitEffect, Withdraw, WithdrawEffect,
         Reject, RejectEffect, CancelTask, CancelTaskEffect, EditTask, EditTaskEffect, Fulfil,
         FulfilEffect, Reschedule, Reprice, vars, ledgerVars

\* No child ever owes points, whatever its parents and it do.
THEOREM AlwaysSolvent == Spec => []Solvent
BY SolventInit, SolventStep, ShapeCorrect, PTL DEF Spec

-----------------------------------------------------------------------------
(* One row per movement *)

\* Every row is new when it is posted.
LEMMA NewRows ==
  ASSUME Shape, LedgerAgrees
  PROVE  /\ \A o \in Occurrences, n \in 1 .. MaxAttempts :
              /\ Approve(o, n) => Award(o) \notin ledger
              /\ Reverse(o, n) => Reversal(o) \notin ledger
         /\ \A c \in Children, k \in Corrections, a \in Amounts :
              Correct(c, k, a) => Correction(c, k, a) \notin ledger
         /\ \A c \in Children, d \in Redemptions, r \in Rewards, cost \in Costs :
              Redeem(c, d, r, cost) => Entry("reward_redemption", c, d, -cost) \notin ledger
         /\ \A d \in Redemptions : CancelRedemption(d) => Refund(d) \notin ledger
<1>1. ASSUME NEW o \in Occurrences, NEW n \in 1 .. MaxAttempts
      PROVE  /\ Approve(o, n) => Award(o) \notin ledger
             /\ Reverse(o, n) => Reversal(o) \notin ledger
  BY LedgerAgreesByRow DEF OccurrencePosted, Approve, Pending, Reverse, Approved
<1>2. ASSUME NEW c \in Children, NEW k \in Corrections, NEW a \in Amounts, Correct(c, k, a)
      PROVE  Correction(c, k, a) \notin ledger
  BY <1>2 DEF Correct, Unposted, Correction, Entry
<1>3. ASSUME NEW c \in Children, NEW d \in Redemptions, NEW r \in Rewards, NEW cost \in Costs,
             Redeem(c, d, r, cost), Entry("reward_redemption", c, d, -cost) \in ledger
      PROVE  FALSE
  <2>1. redemption[d] = NoRedemption
    BY <1>3 DEF Redeem, Shape, RedemptionShape
  <2>2. Explained(Entry("reward_redemption", c, d, -cost))
    BY <1>3, LedgerAgreesByRow
  <2>3. PICK x \in Redemptions : /\ redemption[x] # NoRedemption
                                 /\ Entry("reward_redemption", c, d, -cost) \in {Debit(x), Refund(x)}
    BY <2>2 DEF Explained, Award, Reversal, Correction, Entry
  <2>4. x = d
    BY <2>3 DEF Debit, Refund, Entry
  <2> QED BY <2>1, <2>3, <2>4
<1>4. ASSUME NEW d \in Redemptions, CancelRedemption(d) PROVE Refund(d) \notin ledger
  BY <1>4, LedgerAgreesByRow DEF RedemptionPosted, CancelRedemption, Requested
<1> QED BY <1>1, <1>2, <1>3, <1>4

LEMMA NewRowCounts ==
  ASSUME TypeOK, NEW e \in Entries, e \notin ledger, Post(e)
  PROVE  PostsOneRow
<1>1. e.child \in Children /\ e.amount \in Int
  BY DEF Entries
<1>2. ledger' = ledger \cup {e} /\ e \in ledger' \ ledger
  BY DEF Post
<1>3. \A c \in Children : balance'[c] = IF c = e.child THEN balance[c] + e.amount ELSE balance[c]
  BY DEF Post, TypeOK
<1> QED BY <1>1, <1>2, <1>3 DEF PostsOneRow

LEMMA PostedOnceStep ==
  ASSUME Shape, LedgerAgrees, [Next]_vars
  PROVE  PostsOneRow
<1>0. TypeOK
  BY DEF Shape
<1>1. ASSUME NEW o \in Occurrences, NEW n \in 1 .. MaxAttempts, Approve(o, n) \/ Reverse(o, n)
      PROVE  PostsOneRow
  BY <1>0, <1>1, NewRows, NewRowCounts, PostedRows DEF Approve, ApproveEffect, Reverse, ReverseEffect
<1>2. ASSUME NEW c \in Children, NEW k \in Corrections, NEW a \in Amounts, Correct(c, k, a)
      PROVE PostsOneRow
  BY <1>0, <1>2, NewRows, NewRowCounts, PostedRows DEF Correct, CorrectEffect
<1>3. ASSUME NEW d \in Redemptions, NEW c \in Children, NEW r \in Rewards, NEW cost \in Costs,
             Redeem(c, d, r, cost)
      PROVE PostsOneRow
  BY <1>0, <1>3, NewRows, NewRowCounts, PostedRows DEF Redeem, RedeemEffect
<1>4. ASSUME NEW d \in Redemptions, CancelRedemption(d) PROVE PostsOneRow
  <2>1. redemption[d].child \in Children /\ redemption[d].cost \in Costs
    BY <1>4, Zenon DEF CancelRedemption, Requested, Shape, RedemptionShape
  <2>2. Refund(d) \in Entries
    BY <1>0, <2>1, PostedRows, Zenon DEF Refund
  <2> QED
    BY <1>0, <1>4, <2>2, NewRows, NewRowCounts DEF CancelRedemption, CancelRedemptionEffect
<1>5. CASE UNCHANGED ledgerVars
  BY <1>5 DEF ledgerVars, PostsOneRow
<1> QED
  BY <1>1, <1>2, <1>3, <1>4, <1>5
     DEF Next, AttemptStep, RedemptionStep, Submit, SubmitEffect, Withdraw, WithdrawEffect,
         Reject, RejectEffect, CancelTask, CancelTaskEffect, EditTask, EditTaskEffect, Fulfil,
         FulfilEffect, Reschedule, Reprice, vars, ledgerVars

\* No handler ever posts a row twice: the unique indexes of the ledger are never
\* what stops it.
THEOREM AlwaysPostedOnce == Spec => PostedOnce
<1>1. Shape /\ LedgerAgrees /\ [Next]_vars => [PostsOneRow]_vars
  BY PostedOnceStep
<1> QED BY <1>1, ShapeCorrect, LedgerAlwaysAgrees, PTL DEF Spec, PostedOnce

LEMMA VersionStep ==
  ASSUME Shape, [Next]_vars
  PROVE  MovesVersion
<1>0. TypeOK
  BY DEF Shape
<1>1. ASSUME NEW o \in Occurrences, NEW to \in OccurrenceStates, Move(o, to), points' = points,
             \A p \in Occurrences : p # o => attempts'[p] = attempts[p]
      PROVE  MovesVersion
  <2>1. /\ version'[o] = version[o] + 1
        /\ \A p \in Occurrences : p # o => state'[p] = state[p] /\ version'[p] = version[p]
    BY <1>0, <1>1 DEF Move, TypeOK
  <2> QED BY <1>1, <2>1 DEF MovesVersion
<1>2. ASSUME NEW o \in Occurrences, AttemptStep(o) \/ (o \in Tasks /\ CancelTask(o))
      PROVE  MovesVersion
  <2>1. points' = points /\ \A p \in Occurrences : p # o => attempts'[p] = attempts[p]
    BY <1>0, <1>2 DEF AttemptStep, Submit, SubmitEffect, Withdraw, WithdrawEffect, Approve,
                      ApproveEffect, Reject, RejectEffect, Reverse, ReverseEffect, CancelTask,
                      CancelTaskEffect, Close, TypeOK
  <2>2. \E to \in OccurrenceStates : Move(o, to)
    BY <1>2 DEF AttemptStep, Submit, SubmitEffect, Withdraw, WithdrawEffect, Approve,
                ApproveEffect, Reject, RejectEffect, Reverse, ReverseEffect, CancelTask,
                CancelTaskEffect, OccurrenceStates
  <2> QED BY <1>1, <2>1, <2>2
<1>3. ASSUME NEW o \in Tasks, NEW worth \in PointValues, EditTask(o, worth) PROVE MovesVersion
  BY <1>0, <1>3, PointsAssumption DEF EditTask, EditTaskEffect, MovesVersion, TypeOK
<1>4. CASE UNCHANGED <<occurrenceVars, points>>
  BY <1>4 DEF occurrenceVars, MovesVersion
<1>5. Tasks \subseteq Occurrences
  BY PointsAssumption
<1> QED
  BY <1>2, <1>3, <1>4, <1>5
     DEF Next, RedemptionStep, Correct, CorrectEffect, Redeem, RedeemEffect, Fulfil, FulfilEffect,
         CancelRedemption, CancelRedemptionEffect, Reschedule, Reprice, vars, occurrenceVars

\* Expected versions are sound: no two different situations of an occurrence
\* share a version.
THEOREM VersionsAlwaysCount == Spec => VersionCountsTransitions
<1>1. Shape /\ [Next]_vars => [MovesVersion]_vars
  BY VersionStep
<1> QED BY <1>1, ShapeCorrect, PTL DEF Spec, VersionCountsTransitions
=============================================================================
