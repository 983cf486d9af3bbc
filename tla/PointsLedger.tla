---------------------------- MODULE PointsLedger ----------------------------
(***************************************************************************)
(* Chores and points of one household, one committed transaction per step. *)
(*                                                                         *)
(* An occurrence is one chore on one day for one child.  The child submits *)
(* a completion attempt, a parent approves or rejects it, an approval      *)
(* posts an award to the append-only point ledger, a reversal posts its    *)
(* negation.  Points pay for reward redemptions: a request debits them at  *)
(* once, a parent fulfils it or cancels it with a refund.                  *)
(*                                                                         *)
(* Every action is a whole handler, from its row locks to its commit;      *)
(* PointsTx takes the handlers apart into statements and shows that their  *)
(* interleavings still are steps of this module.                           *)
(***************************************************************************)
EXTENDS Integers, Sequences

CONSTANTS
  Children,        \* children.id
  NoChild,         \* owner of a redemption row that does not exist
  Occurrences,     \* occurrences.id, rows already materialised
  Tasks,           \* the occurrences whose source_type is 'task'
  ChildOf,         \* occurrences.child_id
  PointValues,     \* what an occurrence can be worth
  Rewards,         \* rewards.id
  Redemptions,     \* reward_redemptions.id, a bound on the rows a run creates
  Corrections,     \* point_ledger.id of manual corrections, a bound as well
  Amounts,         \* amounts a parent may correct by
  Costs,           \* values of rewards.cost_points
  MaxAttempts,     \* bound on completion attempts per occurrence
  MaxEdits         \* bound on the edits of one task

ASSUME PointsAssumption ==
  /\ NoChild \notin Children
  /\ Occurrences \cap Redemptions = {}
  /\ Occurrences \cap Corrections = {}
  /\ Redemptions \cap Corrections = {}
  /\ Tasks \subseteq Occurrences
  /\ ChildOf \in [Occurrences -> Children]
  /\ PointValues \subseteq Nat \ {0}
  /\ Amounts \subseteq Nat \ {0}
  /\ Costs \subseteq Nat \ {0}
  /\ MaxAttempts \in Nat
  /\ MaxEdits \in Nat

VARIABLES
  state,           \* occurrences.state
  version,         \* occurrences.version
  attempts,        \* completion_attempts.decision, by attempt_number
  points,          \* occurrences.points_snapshot, what an approval awards
  open,            \* occurrences whose date and source accept a submission
  ledger,          \* rows of point_ledger
  balance,         \* coalesce(sum(amount), 0) over a child's ledger rows
  redemption,      \* rows of reward_redemptions
  offer            \* what a child may redeem: its price, 0 for unavailable

occurrenceVars == <<state, version, attempts>>
ledgerVars == <<ledger, balance>>
vars == <<state, version, attempts, points, open, ledger, balance, redemption, offer>>

-----------------------------------------------------------------------------
(* Values *)

OccurrenceStates ==
  {"not_started", "pending_approval", "approved", "approval_reversed", "cancelled"}

Decisions == {"pending", "approved", "rejected", "withdrawn", "cancelled"}

\* A redemption row that does not exist yet has state "none".
RedemptionStates == {"none", "requested", "fulfilled", "cancelled"}

NoRedemption == [state |-> "none", child |-> NoChild, cost |-> 0]

RedemptionRows ==
  [state : RedemptionStates, child : Children \cup {NoChild}, cost : Costs \cup {0}]

Entry(kind, child, ref, amount) ==
  [kind |-> kind, child |-> child, ref |-> ref, amount |-> amount]

Award(o)    == Entry("award", ChildOf[o], o, points[o])
Reversal(o) == Entry("approval_reversal", ChildOf[o], o, -points[o])
Correction(c, k, amount) == Entry("manual_correction", c, k, amount)
Debit(d)    == Entry("reward_redemption", redemption[d].child, d, -redemption[d].cost)
Refund(d)   == Entry("reward_refund", redemption[d].child, d, redemption[d].cost)

EntryKinds == {"award", "approval_reversal", "manual_correction",
               "reward_redemption", "reward_refund"}

Items == Occurrences \cup Redemptions \cup Corrections

Entries == [kind : EntryKinds, child : Children, ref : Items, amount : Int]

TypeOK ==
  /\ state \in [Occurrences -> OccurrenceStates]
  /\ version \in [Occurrences -> Nat]
  /\ attempts \in [Occurrences -> Seq(Decisions)]
  /\ points \in [Occurrences -> PointValues]
  /\ open \subseteq Occurrences
  /\ ledger \subseteq Entries
  /\ balance \in [Children -> Int]
  /\ redemption \in [Redemptions -> RedemptionRows]
  /\ offer \in [Children \X Rewards -> Costs \cup {0}]

-----------------------------------------------------------------------------
Init ==
  /\ state = [o \in Occurrences |-> "not_started"]
  /\ version = [o \in Occurrences |-> 1]
  /\ attempts = [o \in Occurrences |-> <<>>]
  /\ points \in [Occurrences -> PointValues]
  /\ open = Occurrences
  /\ ledger = {}
  /\ balance = [c \in Children |-> 0]
  /\ redemption = [d \in Redemptions |-> NoRedemption]
  /\ offer = [x \in Children \X Rewards |-> 0]

\* INSERT INTO point_ledger: the row joins the ledger and the child's sum.
Post(e) ==
  /\ ledger' = ledger \cup {e}
  /\ balance' = [balance EXCEPT ![e.child] = @ + e.amount]

\* UPDATE occurrences SET state = ..., version = version + 1
Move(o, to) ==
  /\ state' = [state EXCEPT ![o] = to]
  /\ version' = [version EXCEPT ![o] = @ + 1]

\* UPDATE completion_attempts SET decision = ...
Close(o, n, decision) == attempts' = [attempts EXCEPT ![o][n] = decision]

-----------------------------------------------------------------------------
(* A child submits and withdraws.  A conjunct ending in OK is the checks a  *)
(* handler makes, one ending in Effect its writes: PointsTx takes them      *)
(* apart.                                                                   *)

SubmitOK(o) ==
  /\ o \in open
  /\ state[o] = "not_started"

SubmitEffect(o) ==
  /\ attempts' = [attempts EXCEPT ![o] = Append(@, "pending")]
  /\ Move(o, "pending_approval")
  /\ UNCHANGED <<points, open, ledgerVars, redemption, offer>>

Submit(o) == Len(attempts[o]) < MaxAttempts /\ SubmitOK(o) /\ SubmitEffect(o)

Pending(o, n) ==
  /\ n \in DOMAIN attempts[o]
  /\ attempts[o][n] = "pending"
  /\ state[o] = "pending_approval"

\* Mutant: the decision is written to the occurrence as well.
WithdrawEffectNamesDecision(o, n) ==
  /\ Close(o, n, "withdrawn")
  /\ Move(o, "withdrawn")
  /\ UNCHANGED <<points, open, ledgerVars, redemption, offer>>

WithdrawEffect(o, n) ==
  /\ Close(o, n, "withdrawn")
  /\ Move(o, "not_started")
  /\ UNCHANGED <<points, open, ledgerVars, redemption, offer>>

Withdraw(o, n) == Pending(o, n) /\ WithdrawEffect(o, n)

-----------------------------------------------------------------------------
(* A parent decides *)

ApproveEffect(o, n) ==
  /\ Close(o, n, "approved")
  /\ Move(o, "approved")
  /\ Post(Award(o))
  /\ UNCHANGED <<points, open, redemption, offer>>

Approve(o, n) == Pending(o, n) /\ ApproveEffect(o, n)

RejectEffect(o, n) ==
  /\ Close(o, n, "rejected")
  /\ Move(o, "not_started")
  /\ UNCHANGED <<points, open, ledgerVars, redemption, offer>>

Reject(o, n) == Pending(o, n) /\ RejectEffect(o, n)

\* Reverse joins the attempt with its award row, then compares states.
Approved(o, n) ==
  /\ n \in DOMAIN attempts[o]
  /\ attempts[o][n] = "approved"
  /\ state[o] = "approved"
  /\ Award(o) \in ledger

\* Mutant: any points left will do.
ReverseAffordableByAny(o) == balance[ChildOf[o]] > 0

ReverseAffordable(o) == balance[ChildOf[o]] >= points[o]

ReverseEffect(o) ==
  /\ Move(o, "approval_reversed")
  /\ Post(Reversal(o))
  /\ UNCHANGED <<attempts, points, open, redemption, offer>>

Reverse(o, n) == Approved(o, n) /\ ReverseAffordable(o) /\ ReverseEffect(o)

Unposted(k) == \A e \in ledger : e.kind = "manual_correction" => e.ref # k

CorrectEffect(c, k, amount) ==
  /\ Post(Correction(c, k, amount))
  /\ UNCHANGED <<occurrenceVars, points, open, redemption, offer>>

Correct(c, k, amount) == Unposted(k) /\ CorrectEffect(c, k, amount)

\* Mutant: what was approved can still be cancelled.
CancelTaskOKUnlessCancelled(o) == state[o] # "cancelled"

\* Cancelling a one-off task closes its pending attempt with it.
CancelTaskOK(o) == state[o] \in {"not_started", "pending_approval"}

\* Mutant: the pending attempt stays open.
CancelTaskEffectKeepsAttempt(o) ==
  /\ Move(o, "cancelled")
  /\ open' = open \ {o}
  /\ UNCHANGED <<attempts, points, ledgerVars, redemption, offer>>

CancelTaskEffect(o) ==
  /\ attempts' = [attempts EXCEPT ![o] =
       [n \in DOMAIN @ |-> IF @[n] = "pending" THEN "cancelled" ELSE @[n]]]
  /\ Move(o, "cancelled")
  /\ open' = open \ {o}
  /\ UNCHANGED <<points, ledgerVars, redemption, offer>>

CancelTask(o) == CancelTaskOK(o) /\ CancelTaskEffect(o)

\* A parent edits a task; an approval awards the points of the last edit.
\* (The handler also looks for attempts, but in the snapshot of a statement
\* that may have waited since: see PointsTx.  Archiving a routine group edits
\* the tasks it moves in the same way, at the points they have.)
EditTaskOK(o) == state[o] = "not_started"

\* The trigger occurrences_snapshot_immutable.
SnapshotMutable(o) == o \in Tasks /\ state[o] = "not_started" /\ attempts[o] = <<>>

\* Mutant: the trigger is missing.
EditTaskEffectUntriggered(o, worth) ==
  /\ points' = [points EXCEPT ![o] = worth]
  /\ version' = [version EXCEPT ![o] = @ + 1]
  /\ UNCHANGED <<state, attempts, open, ledgerVars, redemption, offer>>

EditTaskEffect(o, worth) ==
  /\ worth # points[o] => SnapshotMutable(o)
  /\ points' = [points EXCEPT ![o] = worth]
  /\ version' = [version EXCEPT ![o] = @ + 1]
  /\ UNCHANGED <<state, attempts, open, ledgerVars, redemption, offer>>

EditTask(o, worth) == version[o] <= MaxEdits /\ EditTaskOK(o) /\ EditTaskEffect(o, worth)

-----------------------------------------------------------------------------
(* Rewards *)

OfferStands(c, r, cost) == offer[<<c, r>>] # 0 /\ offer[<<c, r>>] = cost

RedeemAffordable(c, cost) == balance[c] >= cost

RedeemEffect(c, d, cost) ==
  /\ redemption' = [redemption EXCEPT ![d] =
                      [state |-> "requested", child |-> c, cost |-> cost]]
  /\ Post(Entry("reward_redemption", c, d, -cost))
  /\ UNCHANGED <<occurrenceVars, points, open, offer>>

Redeem(c, d, r, cost) ==
  /\ redemption[d].state = "none"
  /\ OfferStands(c, r, cost)
  /\ RedeemAffordable(c, cost)
  /\ RedeemEffect(c, d, cost)

RequestedOrFulfilled(d) == redemption[d].state \in {"requested", "fulfilled"}    \* mutant

Requested(d) == redemption[d].state = "requested"

\* Mutant: the points reserved by the request are charged again.
FulfilEffectCharges(d) ==
  /\ redemption' = [redemption EXCEPT ![d].state = "fulfilled"]
  /\ Post(Debit(d))
  /\ UNCHANGED <<occurrenceVars, points, open, offer>>

FulfilEffect(d) ==
  /\ redemption' = [redemption EXCEPT ![d].state = "fulfilled"]
  /\ UNCHANGED <<occurrenceVars, points, open, ledgerVars, offer>>

Fulfil(d) == Requested(d) /\ FulfilEffect(d)

\* Mutant: the debit is deleted, nothing is posted.
CancelRedemptionEffectDeletes(d) ==
  /\ ledger' = ledger \ {Debit(d)}
  /\ balance' = [balance EXCEPT ![redemption[d].child] = @ + redemption[d].cost]
  /\ redemption' = [redemption EXCEPT ![d].state = "cancelled"]
  /\ UNCHANGED <<occurrenceVars, points, open, offer>>

CancelRedemptionEffect(d) ==
  /\ Post(Refund(d))
  /\ redemption' = [redemption EXCEPT ![d].state = "cancelled"]
  /\ UNCHANGED <<occurrenceVars, points, open, offer>>

CancelRedemption(d) == Requested(d) /\ CancelRedemptionEffect(d)

-----------------------------------------------------------------------------
(* What other handlers decide, left arbitrary here: whether an occurrence's *)
(* date, assignment, habit or task accepts submissions (localDate and       *)
(* sourceActive in Submit), and whether a child may redeem a reward now     *)
(* and at which price (rewards_enabled, availability, eligibility, edits    *)
(* of the catalogue).                                                       *)

Reschedule(o) ==
  /\ open' \in {open \cup {o}, open \ {o}}
  /\ UNCHANGED <<occurrenceVars, points, ledgerVars, redemption, offer>>

Reprice(c, r) ==
  /\ \E cost \in Costs \cup {0} : offer' = [offer EXCEPT ![<<c, r>>] = cost]
  /\ UNCHANGED <<occurrenceVars, points, open, ledgerVars, redemption>>

-----------------------------------------------------------------------------
AttemptStep(o) ==
  \/ Submit(o)
  \/ \E n \in 1 .. MaxAttempts : \/ Withdraw(o, n)
                                 \/ Approve(o, n)
                                 \/ Reject(o, n)
                                 \/ Reverse(o, n)

RedemptionStep(d) ==
  \/ \E c \in Children, r \in Rewards, cost \in Costs : Redeem(c, d, r, cost)
  \/ Fulfil(d)
  \/ CancelRedemption(d)

Next ==
  \/ \E o \in Occurrences : AttemptStep(o) \/ Reschedule(o)
  \/ \E o \in Tasks : CancelTask(o) \/ \E worth \in PointValues : EditTask(o, worth)
  \/ \E c \in Children, k \in Corrections, amount \in Amounts : Correct(c, k, amount)
  \/ \E d \in Redemptions : RedemptionStep(d)
  \/ \E c \in Children, r \in Rewards : Reprice(c, r)

Spec == Init /\ [][Next]_vars

-----------------------------------------------------------------------------
(* Safety *)

\* The attempts of an occurrence explain its state: every attempt but the last
\* was rejected or withdrawn, and the last one is pending, approved or closed
\* exactly as the occurrence says (Submit, Withdraw, decide, Reverse and
\* CancelTask write the two tables separately).
AttemptsAgree ==
  \A o \in Occurrences :
    LET last == IF attempts[o] = <<>> THEN "rejected" ELSE attempts[o][Len(attempts[o])]
    IN /\ \A n \in 1 .. Len(attempts[o]) - 1 : attempts[o][n] \in {"rejected", "withdrawn"}
       /\ state[o] = "not_started" => last \in {"rejected", "withdrawn"}
       /\ state[o] = "pending_approval" => last = "pending"
       /\ state[o] \in {"approved", "approval_reversed"} => last = "approved"
       /\ state[o] = "cancelled" => last \in {"rejected", "withdrawn", "cancelled"}

\* The ledger explains the states: an award exists for exactly the occurrences
\* approved now or before a reversal, a reversal for exactly the reversed ones,
\* a debit of the snapshot cost for every redemption and a refund of the same
\* amount for exactly the cancelled ones, and nothing else is posted.
LedgerAgrees ==
  /\ \A o \in Occurrences :
       /\ Award(o) \in ledger <=> state[o] \in {"approved", "approval_reversed"}
       /\ Reversal(o) \in ledger <=> state[o] = "approval_reversed"
  /\ \A d \in Redemptions :
       /\ redemption[d] # NoRedemption <=> Debit(d) \in ledger
       /\ redemption[d].state = "cancelled" <=> Refund(d) \in ledger
  /\ \A e \in ledger :
       \/ \E o \in Occurrences : e \in {Award(o), Reversal(o)}
       \/ \E d \in Redemptions : redemption[d] # NoRedemption /\ e \in {Debit(d), Refund(d)}
       \/ \E c \in Children, k \in Corrections, a \in Amounts : e = Correction(c, k, a)

\* A child can never have spent more than it holds: reversals and redemptions
\* are refused before the sum of the ledger goes below zero.
Solvent == \A c \in Children : balance[c] >= 0

\* Whatever a handler changes of an occurrence, its version moves by exactly
\* one: a client's expected version names one state of one attempt at one
\* price, and no later state brings it back.
MovesVersion ==
  \A o \in Occurrences :
    \/ version'[o] = version[o] + 1
    \/ /\ version'[o] = version[o]
       /\ <<state'[o], attempts'[o], points'[o]>> = <<state[o], attempts[o], points[o]>>

VersionCountsTransitions == [][MovesVersion]_vars

\* The ledger only grows, and whatever changes a balance is one new row with
\* that amount: no handler relies on a unique index to stop a second award,
\* reversal, debit or refund.
PostsOneRow ==
  /\ ledger \subseteq ledger'
  /\ \A c \in Children :
       balance'[c] # balance[c] =>
         \E e \in ledger' \ ledger :
           /\ ledger' = ledger \cup {e}
           /\ e.child = c
           /\ balance'[c] = balance[c] + e.amount

PostedOnce == [][PostsOneRow]_vars

-----------------------------------------------------------------------------
(* What the ledger promises, stated by Accounts: every occurrence,          *)
(* redemption and correction is an item that takes effect once, may be      *)
(* undone once, and never overdraws an account.  The item is read off the   *)
(* ledger rows; only "settled" (a fulfilled redemption) is not.             *)

Rows(kind, i) == {e \in ledger : e.kind = kind /\ e.ref = i}

ItemAs(e, status) == [status |-> status, child |-> e.child, amount |-> e.amount]

ItemOf(i) ==
  IF Rows("award", i) # {} THEN
    ItemAs(CHOOSE e \in Rows("award", i) : TRUE,
           IF Rows("approval_reversal", i) = {} THEN "applied" ELSE "undone")
  ELSE IF Rows("reward_redemption", i) # {} THEN
    ItemAs(CHOOSE e \in Rows("reward_redemption", i) : TRUE,
           IF Rows("reward_refund", i) # {} THEN "undone"
           ELSE IF redemption[i].state = "fulfilled" THEN "settled" ELSE "applied")
  ELSE IF Rows("manual_correction", i) # {} THEN
    ItemAs(CHOOSE e \in Rows("manual_correction", i) : TRUE, "applied")
  ELSE [status |-> "idle", child |-> NoChild, amount |-> 0]

Movements == PointValues \cup Amounts \cup {-cost : cost \in Costs}

Promise == INSTANCE Accounts WITH Amounts <- Movements, funds <- balance,
                                  item <- [i \in Items |-> ItemOf(i)]

\* The household's ledger implements Accounts.
KeepsAccounts == Promise!Spec
=============================================================================
