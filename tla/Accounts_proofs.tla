--------------------------- MODULE Accounts_proofs ---------------------------
(***************************************************************************)
(* The ledger of PointsLedger implements Accounts, for every household.    *)
(* The refinement mapping reads an item off its ledger rows with a CHOOSE; *)
(* the first half of this module says which row that is, in terms of the   *)
(* occurrence, the redemption or the correction the item stands for, and   *)
(* the second maps every handler to a step of Accounts or to a stutter.    *)
(***************************************************************************)
EXTENDS PointsLedger_proofs

\* The items the ledger shows, the mapping of KeepsAccounts.
items == [i \in Items |-> ItemOf(i)]

-----------------------------------------------------------------------------
(* A correction has one row: nothing else in the tables would tell two apart *)

CorrectionsUnique ==
  \A e, f \in ledger :
    e.kind = "manual_correction" /\ f.kind = "manual_correction" /\ e.ref = f.ref => e = f

\* Only a correction posts a row of that kind.
LEMMA OtherRowsKinds ==
  ASSUME [Next]_vars
  PROVE  \/ \E c \in Children, k \in Corrections, a \in Amounts : Correct(c, k, a)
         \/ \A e \in ledger' \ ledger : e.kind # "manual_correction"
<1>1. ASSUME NEW o \in Occurrences, NEW n \in 1 .. MaxAttempts, Approve(o, n) \/ Reverse(o, n)
      PROVE  \A e \in ledger' \ ledger : e.kind # "manual_correction"
  BY <1>1 DEF Approve, ApproveEffect, Reverse, ReverseEffect, Post, Award, Reversal, Entry
<1>2. ASSUME NEW d \in Redemptions, RedemptionStep(d)
      PROVE  \A e \in ledger' \ ledger : e.kind # "manual_correction"
  BY <1>2 DEF RedemptionStep, Redeem, RedeemEffect, Fulfil, FulfilEffect, CancelRedemption,
              CancelRedemptionEffect, Post, Refund, Entry, ledgerVars
<1> QED
  BY <1>1, <1>2
     DEF Next, AttemptStep, Submit, SubmitEffect, Withdraw, WithdrawEffect, Reject, RejectEffect,
         CancelTask, CancelTaskEffect, EditTask, EditTaskEffect, Reschedule, Reprice, vars, ledgerVars

LEMMA CorrectionsUniqueInit == Init => CorrectionsUnique
BY DEF Init, CorrectionsUnique

LEMMA CorrectionsUniqueStep ==
  ASSUME CorrectionsUnique, [Next]_vars
  PROVE  CorrectionsUnique'
<1>1. ASSUME NEW c \in Children, NEW k \in Corrections, NEW a \in Amounts, Correct(c, k, a)
      PROVE  CorrectionsUnique'
  BY <1>1 DEF Correct, Unposted, CorrectEffect, Post, Correction, Entry, CorrectionsUnique
<1>2. CASE \A e \in ledger' \ ledger : e.kind # "manual_correction"
  BY <1>2 DEF CorrectionsUnique
<1> QED BY <1>1, <1>2, OtherRowsKinds

\* What the mapping needs of the tables.
AccountsInv == Shape /\ LedgerAgrees /\ Solvent /\ CorrectionsUnique

\* At most one row is a correction of that identity, and the rows about chores
\* and redemptions are those their tables imply.
THEOREM AccountsInvariant == Spec => []AccountsInv
<1>1. Spec => []CorrectionsUnique
  BY CorrectionsUniqueInit, CorrectionsUniqueStep, PTL DEF Spec
<1>2. Shape /\ LedgerAgrees /\ Solvent /\ CorrectionsUnique => AccountsInv
  BY DEF AccountsInv
<1> QED BY <1>1, <1>2, ShapeCorrect, LedgerAlwaysAgrees, AlwaysSolvent, PTL

-----------------------------------------------------------------------------
(* The rows of an item *)

LEMMA OccurrenceRows ==
  ASSUME AccountsInv, NEW o \in Occurrences
  PROVE  /\ Rows("award", o) =
              IF state[o] \in {"approved", "approval_reversed"} THEN {Award(o)} ELSE {}
         /\ Rows("approval_reversal", o) =
              IF state[o] = "approval_reversed" THEN {Reversal(o)} ELSE {}
         /\ Rows("reward_redemption", o) = {}
         /\ Rows("manual_correction", o) = {}
<1>1. OccurrencePosted(o) /\ \A e \in ledger : Explained(e)
  BY LedgerAgreesByRow DEF AccountsInv
<1>2. \A e \in ledger : e.ref = o => e \in {Award(o), Reversal(o)}
  BY <1>1, PointsAssumption
     DEF Explained, Award, Reversal, Debit, Refund, Correction, Entry
<1>3. /\ Award(o).kind = "award" /\ Award(o).ref = o
      /\ Reversal(o).kind = "approval_reversal" /\ Reversal(o).ref = o
  BY DEF Award, Reversal, Entry
<1> QED BY <1>1, <1>2, <1>3 DEF OccurrencePosted, Rows

LEMMA RedemptionItemRows ==
  ASSUME AccountsInv, NEW d \in Redemptions
  PROVE  /\ Rows("award", d) = {}
         /\ Rows("reward_redemption", d) =
              IF redemption[d] # NoRedemption THEN {Debit(d)} ELSE {}
         /\ Rows("reward_refund", d) =
              IF redemption[d].state = "cancelled" THEN {Refund(d)} ELSE {}
         /\ Rows("manual_correction", d) = {}
<1>1. RedemptionPosted(d) /\ \A e \in ledger : Explained(e)
  BY LedgerAgreesByRow DEF AccountsInv
<1>2. \A e \in ledger : e.ref = d => e \in {Debit(d), Refund(d)}
  BY <1>1, PointsAssumption
     DEF Explained, Award, Reversal, Debit, Refund, Correction, Entry
<1>3. /\ Debit(d).kind = "reward_redemption" /\ Debit(d).ref = d
      /\ Refund(d).kind = "reward_refund" /\ Refund(d).ref = d
  BY DEF Debit, Refund, Entry
<1> QED BY <1>1, <1>2, <1>3 DEF RedemptionPosted, Rows

LEMMA CorrectionRows ==
  ASSUME AccountsInv, NEW k \in Corrections
  PROVE  /\ Rows("award", k) = {}
         /\ Rows("reward_redemption", k) = {}
         /\ Unposted(k) => Rows("manual_correction", k) = {}
         /\ \A e \in ledger : e.kind = "manual_correction" /\ e.ref = k
                                => Rows("manual_correction", k) = {e}
<1>1. \A e \in ledger : Explained(e)
  BY LedgerAgreesByRow DEF AccountsInv
<1>2. \A e \in ledger : e.ref = k => e.kind = "manual_correction"
  BY <1>1, PointsAssumption
     DEF Explained, Award, Reversal, Debit, Refund, Correction, Entry
<1>3. CorrectionsUnique
  BY DEF AccountsInv
<1> QED BY <1>2, <1>3 DEF Rows, Unposted, CorrectionsUnique

-----------------------------------------------------------------------------
(* What an item did, read off the tables *)

Nothing == [status |-> "idle", child |-> NoChild, amount |-> 0]

ReadOccurrence(o) ==
  /\ state[o] \notin {"approved", "approval_reversed"} => ItemOf(o) = Nothing
  /\ state[o] = "approved" =>
       ItemOf(o) = [status |-> "applied", child |-> ChildOf[o], amount |-> points[o]]
  /\ state[o] = "approval_reversed" =>
       ItemOf(o) = [status |-> "undone", child |-> ChildOf[o], amount |-> points[o]]

StatusOf(d) == IF redemption[d].state = "cancelled" THEN "undone"
               ELSE IF redemption[d].state = "fulfilled" THEN "settled" ELSE "applied"

ReadRedemption(d) ==
  /\ redemption[d] = NoRedemption => ItemOf(d) = Nothing
  /\ redemption[d] # NoRedemption =>
       ItemOf(d) = [status |-> StatusOf(d), child |-> redemption[d].child,
                    amount |-> -redemption[d].cost]

ReadCorrection(k) ==
  /\ Unposted(k) => ItemOf(k) = Nothing
  /\ \A e \in ledger : e.kind = "manual_correction" /\ e.ref = k
       => ItemOf(k) = [status |-> "applied", child |-> e.child, amount |-> e.amount]

ItemsRead ==
  /\ \A o \in Occurrences : ReadOccurrence(o)
  /\ \A d \in Redemptions : ReadRedemption(d)
  /\ \A k \in Corrections : ReadCorrection(k)

LEMMA ItemsAreRead == AccountsInv => ItemsRead
<1> SUFFICES ASSUME AccountsInv PROVE ItemsRead
  OBVIOUS
<1>0. \A x : (CHOOSE e \in {x} : TRUE) = x
  OBVIOUS
<1>1. ASSUME NEW o \in Occurrences PROVE ReadOccurrence(o)
  <2>1. Award(o).child = ChildOf[o] /\ Award(o).amount = points[o]
    BY DEF Award, Entry
  <2> QED BY <1>0, <2>1, OccurrenceRows DEF ReadOccurrence, ItemOf, ItemAs, Nothing
<1>2. ASSUME NEW d \in Redemptions PROVE ReadRedemption(d)
  <2>1. Debit(d).child = redemption[d].child /\ Debit(d).amount = -redemption[d].cost
    BY DEF Debit, Entry
  <2> QED BY <1>0, <2>1, RedemptionItemRows DEF ReadRedemption, ItemOf, ItemAs, StatusOf, Nothing
<1>3. ASSUME NEW k \in Corrections PROVE ReadCorrection(k)
  BY <1>0, CorrectionRows DEF ReadCorrection, ItemOf, ItemAs, Nothing
<1> QED BY <1>1, <1>2, <1>3 DEF ItemsRead

-----------------------------------------------------------------------------
(* What a handler leaves alone *)

LEMMA OccurrenceKept ==
  ASSUME ItemsRead, ItemsRead', NEW o \in Occurrences, state'[o] = state[o],
         points'[o] = points[o] \/ state[o] \notin {"approved", "approval_reversed"}
  PROVE  ItemOf(o)' = ItemOf(o)
BY DEF ItemsRead, ReadOccurrence

LEMMA UnapprovedKept ==
  ASSUME ItemsRead, ItemsRead', NEW o \in Occurrences,
         {state[o], state'[o]} \cap {"approved", "approval_reversed"} = {}
  PROVE  ItemOf(o)' = ItemOf(o)
BY DEF ItemsRead, ReadOccurrence

LEMMA RedemptionKept ==
  ASSUME ItemsRead, ItemsRead', NEW d \in Redemptions, redemption'[d] = redemption[d]
  PROVE  ItemOf(d)' = ItemOf(d)
<1>1. StatusOf(d)' = StatusOf(d)
  BY DEF StatusOf
<1> QED BY <1>1 DEF ItemsRead, ReadRedemption

LEMMA CorrectionKept ==
  ASSUME ItemsRead, ItemsRead', NEW k \in Corrections, ledger \subseteq ledger',
         \A e \in ledger' \ ledger : ~ (e.kind = "manual_correction" /\ e.ref = k)
  PROVE  ItemOf(k)' = ItemOf(k)
<1>1. CASE Unposted(k)
  <2>1. Unposted(k)'
    BY <1>1 DEF Unposted
  <2> QED BY <1>1, <2>1 DEF ItemsRead, ReadCorrection
<1>2. CASE ~ Unposted(k)
  <2>1. PICK e \in ledger : e.kind = "manual_correction" /\ e.ref = k
    BY <1>2 DEF Unposted
  <2>2. e \in ledger'
    BY <2>1
  <2> QED BY <2>1, <2>2 DEF ItemsRead, ReadCorrection
<1> QED BY <1>1, <1>2

\* The mapping changes nothing when no item changes, and one item when one does.
LEMMA NoItemMoves ==
  ASSUME \A i \in Items : ItemOf(i)' = ItemOf(i)
  PROVE  items' = items
BY DEF items

LEMMA OneItemMoves ==
  ASSUME NEW i \in Items, NEW value, ItemOf(i)' = value,
         \A j \in Items : j # i => ItemOf(j)' = ItemOf(j)
  PROVE  items' = [items EXCEPT ![i] = value]
BY DEF items

-----------------------------------------------------------------------------
(* The handlers, one by one *)

\* A step of Accounts, or none.
Implements == [Promise!Next]_<<balance, items>>

LEMMA ApproveImplements ==
  ASSUME AccountsInv, ItemsRead, ItemsRead', NEW o \in Occurrences, NEW n \in 1 .. MaxAttempts,
         Approve(o, n)
  PROVE  Promise!Apply(o, ChildOf[o], points[o])
<1>1. /\ state[o] = "pending_approval" /\ state'[o] = "approved"
      /\ \A p \in Occurrences : p # o => state'[p] = state[p]
      /\ ledger' = ledger \cup {Award(o)}
      /\ redemption' = redemption /\ points' = points
      /\ balance' = [balance EXCEPT ![ChildOf[o]] = @ + points[o]]
  BY DEF Approve, Pending, ApproveEffect, Post, Award, Entry, Move, AccountsInv, Shape, TypeOK
<1>2. o \in Items /\ Items = Occurrences \cup Redemptions \cup Corrections
  BY DEF Items
<1>3. Award(o).kind = "award"
  BY DEF Award, Entry
<1>4. \A j \in Items : j # o => ItemOf(j)' = ItemOf(j)
  BY <1>1, <1>2, <1>3, OccurrenceKept, RedemptionKept, CorrectionKept
<1>5. /\ ItemOf(o) = Nothing
      /\ ItemOf(o)' = [status |-> "applied", child |-> ChildOf[o], amount |-> points[o]]
  BY <1>1 DEF ItemsRead, ReadOccurrence
<1>6. items' = [items EXCEPT ![o] =
                  [status |-> "applied", child |-> ChildOf[o], amount |-> points[o]]]
  BY <1>2, <1>4, <1>5, OneItemMoves, Zenon
<1>7. items[o] = Promise!Idle
  BY <1>2, <1>5 DEF items, Nothing, Promise!Idle
<1>8. balance[ChildOf[o]] + points[o] >= 0
  <2>1. ChildOf[o] \in Children /\ points[o] \in Nat
    BY PointsAssumption DEF AccountsInv, Shape, TypeOK
  <2>2. balance[ChildOf[o]] \in Int /\ balance[ChildOf[o]] >= 0
    BY <2>1 DEF AccountsInv, Shape, TypeOK, Solvent
  <2> QED BY <2>1, <2>2
<1> QED BY <1>1, <1>6, <1>7, <1>8 DEF Promise!Apply, items

LEMMA ReverseImplements ==
  ASSUME AccountsInv, ItemsRead, ItemsRead', NEW o \in Occurrences, NEW n \in 1 .. MaxAttempts,
         Reverse(o, n)
  PROVE  Promise!Undo(o)
<1>1. /\ state[o] = "approved" /\ state'[o] = "approval_reversed"
      /\ \A p \in Occurrences : p # o => state'[p] = state[p]
      /\ ledger' = ledger \cup {Reversal(o)}
      /\ redemption' = redemption /\ points' = points
      /\ balance' = [balance EXCEPT ![ChildOf[o]] = @ + (-points[o])]
      /\ balance[ChildOf[o]] >= points[o]
  BY DEF Reverse, Approved, ReverseAffordable, ReverseEffect, Post, Reversal, Entry, Move,
         AccountsInv, Shape, TypeOK
<1>2. o \in Items /\ Items = Occurrences \cup Redemptions \cup Corrections
  BY DEF Items
<1>3. Reversal(o).kind = "approval_reversal"
  BY DEF Reversal, Entry
<1>4. \A j \in Items : j # o => ItemOf(j)' = ItemOf(j)
  BY <1>1, <1>2, <1>3, OccurrenceKept, RedemptionKept, CorrectionKept
<1>5. /\ items[o] = [status |-> "applied", child |-> ChildOf[o], amount |-> points[o]]
      /\ ItemOf(o)' = [items[o] EXCEPT !.status = "undone"]
  BY <1>1, <1>2 DEF ItemsRead, ReadOccurrence, items
<1>6. items' = [items EXCEPT ![o].status = "undone"]
  BY <1>2, <1>4, <1>5, OneItemMoves, Zenon
<1>7. items[o].status = "applied" /\ items[o].child = ChildOf[o] /\ items[o].amount = points[o]
  BY <1>5
<1>8. ChildOf[o] \in Children /\ points[o] \in Nat
  BY PointsAssumption DEF AccountsInv, Shape, TypeOK
<1>9. balance' = [balance EXCEPT ![ChildOf[o]] = @ - points[o]]
  BY <1>1, <1>8 DEF AccountsInv, Shape, TypeOK
<1> QED BY <1>1, <1>6, <1>7, <1>9, Zenon DEF Promise!Undo, items

LEMMA CorrectImplements ==
  ASSUME AccountsInv, ItemsRead, ItemsRead', NEW c \in Children, NEW k \in Corrections,
         NEW a \in Amounts, Correct(c, k, a)
  PROVE  Promise!Apply(k, c, a)
<1>1. /\ Unposted(k)
      /\ ledger' = ledger \cup {Correction(c, k, a)}
      /\ state' = state /\ redemption' = redemption /\ points' = points
      /\ balance' = [balance EXCEPT ![c] = @ + a]
  BY DEF Correct, CorrectEffect, Post, Correction, Entry, occurrenceVars
<1>2. k \in Items /\ Items = Occurrences \cup Redemptions \cup Corrections
  BY DEF Items
<1>3. /\ Correction(c, k, a).kind = "manual_correction" /\ Correction(c, k, a).ref = k
      /\ Correction(c, k, a).child = c /\ Correction(c, k, a).amount = a
  BY DEF Correction, Entry
<1>4. \A j \in Items : j # k => ItemOf(j)' = ItemOf(j)
  BY <1>1, <1>2, <1>3, OccurrenceKept, RedemptionKept, CorrectionKept
<1>5. /\ ItemOf(k) = Nothing
      /\ ItemOf(k)' = [status |-> "applied", child |-> c, amount |-> a]
  BY <1>1, <1>3 DEF ItemsRead, ReadCorrection
<1>6. items' = [items EXCEPT ![k] = [status |-> "applied", child |-> c, amount |-> a]]
  BY <1>2, <1>4, <1>5, OneItemMoves, Zenon
<1>7. items[k] = Promise!Idle
  BY <1>2, <1>5 DEF items, Nothing, Promise!Idle
<1>8. balance[c] + a >= 0
  BY PointsAssumption DEF AccountsInv, Shape, TypeOK, Solvent
<1> QED BY <1>1, <1>6, <1>7, <1>8 DEF Promise!Apply, items

LEMMA RedeemImplements ==
  ASSUME AccountsInv, ItemsRead, ItemsRead', NEW d \in Redemptions, NEW c \in Children,
         NEW r \in Rewards, NEW cost \in Costs, Redeem(c, d, r, cost)
  PROVE  Promise!Apply(d, c, -cost)
<1> DEFINE row == [state |-> "requested", child |-> c, cost |-> cost]
           debit == Entry("reward_redemption", c, d, -cost)
<1>1. /\ redemption[d] = NoRedemption
      /\ balance[c] >= cost
      /\ ledger' = ledger \cup {debit}
      /\ state' = state /\ points' = points
      /\ redemption' = [redemption EXCEPT ![d] = row]
      /\ balance' = [balance EXCEPT ![c] = @ + (-cost)]
  BY DEF Redeem, RedeemAffordable, RedeemEffect, Post, Entry, occurrenceVars, AccountsInv, Shape,
         RedemptionShape
<1>2. d \in Items /\ Items = Occurrences \cup Redemptions \cup Corrections
  BY DEF Items
<1>3. debit.kind = "reward_redemption"
  BY DEF Entry
<1>4. redemption'[d] = row /\ \A x \in Redemptions : x # d => redemption'[x] = redemption[x]
  BY <1>1 DEF AccountsInv, Shape, TypeOK
<1>5. \A j \in Items : j # d => ItemOf(j)' = ItemOf(j)
  BY <1>1, <1>2, <1>3, <1>4, OccurrenceKept, RedemptionKept, CorrectionKept
<1>6. row # NoRedemption /\ StatusOf(d)' = "applied"
  BY <1>4 DEF NoRedemption, StatusOf
<1>7. /\ ItemOf(d) = Nothing
      /\ ItemOf(d)' = [status |-> "applied", child |-> c, amount |-> -cost]
  BY <1>1, <1>4, <1>6 DEF ItemsRead, ReadRedemption
<1>8. items' = [items EXCEPT ![d] = [status |-> "applied", child |-> c, amount |-> -cost]]
  BY <1>2, <1>5, <1>7, OneItemMoves, Zenon
<1>9. items[d] = Promise!Idle
  BY <1>2, <1>7 DEF items, Nothing, Promise!Idle
<1>10. balance[c] + (-cost) >= 0
  BY <1>1, PointsAssumption DEF AccountsInv, Shape, TypeOK
<1> QED BY <1>1, <1>8, <1>9, <1>10 DEF Promise!Apply, items

\* A decision on a requested redemption changes the status of its item alone.
LEMMA DecisionMoves ==
  ASSUME AccountsInv, ItemsRead, ItemsRead', NEW d \in Redemptions, NEW to,
         to \in {"fulfilled", "cancelled"}, redemption[d].state = "requested",
         redemption' = [redemption EXCEPT ![d].state = to],
         state' = state, points' = points, ledger \subseteq ledger',
         \A e \in ledger' \ ledger : e.kind # "manual_correction"
  PROVE  /\ d \in Items
         /\ items[d] = [status |-> "applied", child |-> redemption[d].child,
                        amount |-> -redemption[d].cost]
         /\ items' = [items EXCEPT ![d].status =
                        IF to = "cancelled" THEN "undone" ELSE "settled"]
<1> DEFINE row == [redemption[d] EXCEPT !.state = to]
           status == IF to = "cancelled" THEN "undone" ELSE "settled"
<1>1. /\ redemption[d] \in RedemptionRows
      /\ redemption'[d] = row
      /\ \A x \in Redemptions : x # d => redemption'[x] = redemption[x]
  BY DEF AccountsInv, Shape, TypeOK
<1>2. row.state = to /\ row.child = redemption[d].child /\ row.cost = redemption[d].cost
  BY <1>1 DEF RedemptionRows
<1> HIDE DEF row
<1>3. redemption'[d] # NoRedemption /\ redemption[d] # NoRedemption
  BY <1>1, <1>2 DEF NoRedemption
<1>4. d \in Items /\ Items = Occurrences \cup Redemptions \cup Corrections
  BY DEF Items
<1>5. \A j \in Items : j # d => ItemOf(j)' = ItemOf(j)
  BY <1>1, <1>4, OccurrenceKept, RedemptionKept, CorrectionKept
<1>6. StatusOf(d)' = status /\ StatusOf(d) = "applied"
  BY <1>1, <1>2 DEF StatusOf
<1>7. /\ ItemOf(d) = [status |-> "applied", child |-> redemption[d].child,
                      amount |-> -redemption[d].cost]
      /\ ItemOf(d)' = [status |-> status, child |-> redemption[d].child,
                       amount |-> -redemption[d].cost]
  BY <1>1, <1>2, <1>3, <1>6 DEF ItemsRead, ReadRedemption
<1> HIDE DEF status
<1>8. items[d] = ItemOf(d)
  BY <1>4 DEF items
<1>9. ItemOf(d)' = [items[d] EXCEPT !.status = status]
  BY <1>7, <1>8
<1>10. items' = [items EXCEPT ![d].status = status]
  BY <1>4, <1>5, <1>9, OneItemMoves, Zenon
<1> QED BY <1>4, <1>7, <1>8, <1>10 DEF status

LEMMA FulfilImplements ==
  ASSUME AccountsInv, ItemsRead, ItemsRead', NEW d \in Redemptions, Fulfil(d)
  PROVE  Promise!Settle(d)
<1>1. /\ redemption' = [redemption EXCEPT ![d].state = "fulfilled"]
      /\ redemption[d].state = "requested"
      /\ state' = state /\ points' = points /\ ledger' = ledger /\ balance' = balance
  BY DEF Fulfil, FulfilEffect, Requested, occurrenceVars, ledgerVars
<1>2. /\ items[d] = [status |-> "applied", child |-> redemption[d].child,
                     amount |-> -redemption[d].cost]
      /\ items' = [items EXCEPT ![d].status = "settled"]
  BY <1>1, DecisionMoves
<1> QED BY <1>1, <1>2 DEF Promise!Settle, items

LEMMA CancelImplements ==
  ASSUME AccountsInv, ItemsRead, ItemsRead', NEW d \in Redemptions, CancelRedemption(d)
  PROVE  Promise!Undo(d)
<1> DEFINE c    == redemption[d].child
           cost == redemption[d].cost
<1>1. /\ redemption' = [redemption EXCEPT ![d].state = "cancelled"]
      /\ redemption[d].state = "requested"
      /\ state' = state /\ points' = points /\ ledger' = ledger \cup {Refund(d)}
      /\ balance' = [balance EXCEPT ![c] = @ + cost]
  BY DEF CancelRedemption, CancelRedemptionEffect, Requested, Post, Refund, Entry, occurrenceVars
<1>2. Refund(d).kind = "reward_refund"
  BY DEF Refund, Entry
<1>3. /\ items[d] = [status |-> "applied", child |-> c, amount |-> -cost]
      /\ items' = [items EXCEPT ![d].status = "undone"]
  BY <1>1, <1>2, DecisionMoves
<1>4. c \in Children /\ cost \in Nat
  BY <1>1, PointsAssumption, Zenon DEF AccountsInv, Shape, RedemptionShape
<1>5. balance \in [Children -> Int] /\ balance[c] >= 0
  BY <1>4, Zenon DEF AccountsInv, Shape, TypeOK, Solvent
<1> HIDE DEF c, cost
<1>6. balance[c] >= -cost /\ balance' = [balance EXCEPT ![c] = @ - (-cost)]
  <2>1. balance[c] \in Int
    BY <1>4, <1>5
  <2>2. balance[c] >= -cost /\ balance[c] + cost = balance[c] - (-cost)
    BY <1>4, <1>5, <2>1
  <2> QED BY <1>1, <2>2
<1>7. items[d].status = "applied" /\ items[d].child = c /\ items[d].amount = -cost
  BY <1>3
<1> QED BY <1>3, <1>6, <1>7, Zenon DEF Promise!Undo, items

\* Every other handler leaves the items and the balances as they are.
LEMMA OtherStepsStutter ==
  ASSUME ItemsRead, ItemsRead', AccountsInv,
         UNCHANGED <<ledger, balance, redemption>>,
         \A o \in Occurrences :
           \/ state'[o] = state[o] /\ (points'[o] = points[o] \/ state[o] = "not_started")
           \/ {state[o], state'[o]} \cap {"approved", "approval_reversed"} = {}
  PROVE  UNCHANGED <<balance, items>>
<1>1. \A j \in Items : ItemOf(j)' = ItemOf(j)
  BY OccurrenceKept, UnapprovedKept, RedemptionKept, CorrectionKept DEF Items
<1> QED BY <1>1, NoItemMoves

LEMMA StepImplements ==
  ASSUME AccountsInv, ItemsRead, ItemsRead', [Next]_vars
  PROVE  Implements
<1>1. ASSUME NEW o \in Occurrences, NEW n \in 1 .. MaxAttempts, Approve(o, n) PROVE Implements
  <2>1. ChildOf[o] \in Children /\ points[o] \in Movements /\ o \in Items
    BY PointsAssumption DEF AccountsInv, Shape, TypeOK, Movements, Items
  <2> QED BY <1>1, <2>1, ApproveImplements DEF Implements, Promise!Next
<1>2. ASSUME NEW o \in Occurrences, NEW n \in 1 .. MaxAttempts, Reverse(o, n) PROVE Implements
  BY <1>2, ReverseImplements DEF Implements, Promise!Next, Items
<1>3. ASSUME NEW c \in Children, NEW k \in Corrections, NEW a \in Amounts, Correct(c, k, a)
      PROVE  Implements
  BY <1>3, CorrectImplements DEF Implements, Promise!Next, Items, Movements
<1>4. ASSUME NEW d \in Redemptions, NEW c \in Children, NEW r \in Rewards, NEW cost \in Costs,
             Redeem(c, d, r, cost)
      PROVE  Implements
  BY <1>4, RedeemImplements DEF Implements, Promise!Next, Items, Movements
<1>5. ASSUME NEW d \in Redemptions, Fulfil(d) \/ CancelRedemption(d) PROVE Implements
  BY <1>5, FulfilImplements, CancelImplements DEF Implements, Promise!Next, Items
<1>6. ASSUME NEW o \in Occurrences,
             \/ Submit(o)
             \/ \E n \in 1 .. MaxAttempts : Withdraw(o, n) \/ Reject(o, n)
             \/ CancelTask(o)
      PROVE  Implements
  <2>1. /\ UNCHANGED <<ledger, balance, points, redemption>>
        /\ {state[o], state'[o]} \cap {"approved", "approval_reversed"} = {}
        /\ \A p \in Occurrences : p # o => state'[p] = state[p]
    BY <1>6 DEF Submit, SubmitOK, SubmitEffect, Withdraw, WithdrawEffect, Reject, RejectEffect,
                Pending, CancelTask, CancelTaskOK, CancelTaskEffect, Move, AccountsInv, Shape,
                TypeOK, ledgerVars
  <2>2. UNCHANGED <<balance, items>>
    BY <2>1, OtherStepsStutter
  <2> QED BY <2>2 DEF Implements
<1>7. ASSUME NEW o \in Tasks, NEW worth \in PointValues, EditTask(o, worth) PROVE Implements
  <2>1. /\ UNCHANGED <<ledger, balance, redemption>>
        /\ state' = state /\ state[o] = "not_started"
        /\ \A p \in Occurrences : p # o => points'[p] = points[p]
    BY <1>7 DEF EditTask, EditTaskOK, EditTaskEffect, ledgerVars, AccountsInv, Shape, TypeOK
  <2>2. UNCHANGED <<balance, items>>
    BY <2>1, OtherStepsStutter
  <2> QED BY <2>2 DEF Implements
<1>8. CASE UNCHANGED <<ledger, balance, points, redemption, state>>
  <2>1. UNCHANGED <<balance, items>>
    BY <1>8, OtherStepsStutter
  <2> QED BY <2>1 DEF Implements
<1>9. Tasks \subseteq Occurrences
  BY PointsAssumption
<1> HIDE DEF Implements
<1> QED
  BY <1>1, <1>2, <1>3, <1>4, <1>5, <1>6, <1>7, <1>8, <1>9
     DEF Next, AttemptStep, RedemptionStep, Reschedule, Reprice, vars, occurrenceVars, ledgerVars

-----------------------------------------------------------------------------
LEMMA InitImplements == Init => Promise!Init
<1> SUFFICES ASSUME Init PROVE Promise!Init
  OBVIOUS
<1>1. \A i \in Items : ItemOf(i) = Nothing
  <2>1. \A kind, i : Rows(kind, i) = {}
    BY DEF Init, Rows
  <2> QED BY <2>1 DEF ItemOf, Nothing
<1> QED BY <1>1 DEF Init, Promise!Init, Promise!Idle, Nothing

\* The household's ledger implements Accounts: chores, redemptions and
\* corrections credit or debit one account once each, are undone at most once
\* and by the same amount, and never overdraw an account.
THEOREM ImplementsAccounts == Spec => KeepsAccounts
<1>1. Init => Promise!Init
  BY InitImplements
<1>2. AccountsInv /\ AccountsInv' /\ [Next]_vars => Implements
  <2>1. AccountsInv => ItemsRead
    BY ItemsAreRead
  <2>2. AccountsInv' => ItemsRead'
    BY <2>1, PTL
  <2> QED BY <2>1, <2>2, StepImplements
<1>3. Implements => [Promise!Next]_<<balance, [i \in Items |-> ItemOf(i)]>>
  BY DEF Implements, items
<1> QED BY <1>1, <1>2, <1>3, AccountsInvariant, PTL DEF Spec, KeepsAccounts, Promise!Spec
=============================================================================
