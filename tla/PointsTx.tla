------------------------------ MODULE PointsTx ------------------------------
(***************************************************************************)
(* The handlers of PointsLedger as what they are: transactions of several  *)
(* statements, served concurrently under READ COMMITTED.  A process takes  *)
(* the row locks of its request one by one (LockScripts), checks what each *)
(* statement returned, and applies its writes when it commits; until then  *)
(* nobody else sees them.  Clients send a request again until it succeeds, *)
(* so one idempotency key may be served twice, at the same time too.  The  *)
(* claim is that every commit still is one whole step of PointsLedger.     *)
(***************************************************************************)
EXTENDS PointsLedger, LockScripts

CONSTANTS
  Keys,          \* idempotency keys, one per intent of a user
  Request,       \* what is sent under a key
  NoKey,         \* what an idle process serves
  Switching      \* sessions whose mode may change while requests are served

\* Handlers that name the version they saw, and those that lock an occurrence.
Versioned == {"Submit", "Withdraw", "Approve", "Reject", "Reverse"}
OccurrenceOps == Versioned \cup {"CancelTask", "EditTask"}
Decisive == {"Fulfil", "CancelRedemption"}

\* What a request names: a chore with the child it belongs to, rows of the
\* household, and, where its handler inserts a row, an identity of its own.
ASSUME TxAssumption ==
  /\ NoKey \notin Keys
  /\ \A k \in Keys :
       LET r == Request[k]
       IN /\ r.op \in OccurrenceOps \cup Decisive \cup {"Correct", "Redeem"}
          /\ r.op \in OccurrenceOps => r.occurrence \in Occurrences
          /\ r.op \in Versioned => r.child = ChildOf[r.occurrence]
          /\ r.op \in Versioned \ {"Submit"} => r.attempt \in 1 .. MaxAttempts
          /\ r.op \in {"CancelTask", "EditTask"} =>
               r.occurrence \in Tasks /\ r.taskOccurrence = r.occurrence
          /\ r.op = "EditTask" => r.worth \in PointValues
          /\ r.op = "Correct" =>
               r.child \in Children /\ r.correction \in Corrections /\ r.amount \in Amounts
          /\ r.op = "Redeem" => r.child \in Children /\ r.reward \in Rewards /\ r.cost \in Costs
          /\ r.op \in Decisive \cup {"Redeem"} => r.redemption \in Redemptions
  /\ \A k, l \in Keys :
       LET r == Request[k]
           t == Request[l]
       IN k # l /\ r.op = t.op =>
            /\ (r.op = "Correct" => r.correction # t.correction)
            /\ (r.op = "Redeem" => r.redemption # t.redemption)

VARIABLES
  job,           \* the key a process serves
  asked,         \* version or price the user saw, 0 before the first request
  screen,        \* history: the occurrence as it was when the user saw it
  done,          \* keys with a stored response
  effects,       \* how often the effect of a key was committed
  demoted,       \* sessions that lost the mode their requests need
  saw            \* what a statement saw of unlocked rows when it began

requestVars == <<asked, screen, done, effects>>
txVars == <<vars, lockVars, job, requestVars, demoted, saw>>

Asker(p) == Request[job[p]]

-----------------------------------------------------------------------------
(* Requests *)

Script(r) ==
  CASE r.op = "Submit"                          -> SubmitScript(r)
    [] r.op = "Withdraw"                        -> WithdrawScript(r)
    [] r.op = "Approve"                         -> ApproveScript(r)
    [] r.op = "Reject"                          -> RejectScript(r)
    [] r.op = "Reverse"                         -> ReverseScript(r)
    [] r.op = "Correct"                         -> CorrectScript(r)
    [] r.op = "CancelTask"                      -> CancelTaskScript(r)
    [] r.op = "EditTask"                        -> UpdateTaskScript(r)
    [] r.op = "Redeem"                          -> RedeemScript(r)
    [] r.op \in Decisive                        -> DecideScript(r)

\* What a handler requires of the occurrence it locked, its version aside.
OccurrenceOK(r) ==
  CASE r.op = "Submit"                             -> SubmitOK(r.occurrence)
    [] r.op \in {"Withdraw", "Approve", "Reject"}  -> Pending(r.occurrence, r.attempt)
    [] r.op = "Reverse"                            -> Approved(r.occurrence, r.attempt)
    [] r.op = "CancelTask"                         -> CancelTaskOK(r.occurrence)
    [] r.op = "EditTask"                           -> EditTaskOK(r.occurrence)

Unattempted(r) == EditTaskOK(r.occurrence) /\ attempts[r.occurrence] = <<>>

\* Today, the approval queue, the history, the catalogue and the redemption
\* list offer what the committed rows allow, with the version to send back.
Offered(r) ==
  CASE r.op = "EditTask"                        -> Unattempted(r)
    [] r.op \in OccurrenceOps \ {"EditTask"}    -> OccurrenceOK(r)
    [] r.op = "Redeem"                          -> OfferStands(r.child, r.reward, r.cost)
    [] r.op \in Decisive                        -> Requested(r.redemption)
    [] r.op = "Correct"                         -> TRUE

Shown(r) == IF r.op \in Versioned THEN version[r.occurrence]
            ELSE IF r.op = "Redeem" THEN offer[<<r.child, r.reward>>]
            ELSE 1

\* What a page shows of an occurrence beside its version.
Row(o) == <<state[o], attempts[o], points[o]>>

Pictured(r) == IF r.op \in Versioned THEN Row(r.occurrence) ELSE <<>>

VersionIgnored(r, k) == TRUE    \* mutant

VersionMatches(r, k) == r.op \in Versioned => version[r.occurrence] = asked[k]

\* What a handler requires of the rows a statement returned.
Check(p, step) ==
  LET r == Asker(p)
  IN /\ (step.table = "sessions" /\ step.mode # "key_share") => r.session \notin demoted
     /\ step.table = "idempotency_records" => job[p] \notin done
     /\ step.table = "occurrences" =>
          /\ OccurrenceOK(r)
          /\ VersionMatches(r, job[p])
          /\ r.op = "EditTask" => saw[p]
     /\ step.table = "rewards" => OfferStands(r.child, r.reward, asked[job[p]])
     /\ step.table = "reward_redemptions" => Requested(r.redemption)
     /\ step.table = "point_ledger" =>
          IF r.op = "Redeem" THEN RedeemAffordable(r.child, asked[job[p]])
          ELSE ReverseAffordable(r.occurrence)

\* Submissions and edits are bounded as in PointsLedger.
Effect(r) ==
  \/ /\ r.op = "Submit"
     /\ Len(attempts[r.occurrence]) < MaxAttempts
     /\ SubmitEffect(r.occurrence)
  \/ r.op = "Withdraw" /\ WithdrawEffect(r.occurrence, r.attempt)
  \/ r.op = "Approve" /\ ApproveEffect(r.occurrence, r.attempt)
  \/ r.op = "Reject" /\ RejectEffect(r.occurrence, r.attempt)
  \/ r.op = "Reverse" /\ ReverseEffect(r.occurrence)
  \/ r.op = "Correct" /\ CorrectEffect(r.child, r.correction, r.amount)
  \/ r.op = "CancelTask" /\ CancelTaskEffect(r.occurrence)
  \/ /\ r.op = "EditTask"
     /\ version[r.occurrence] <= MaxEdits
     /\ EditTaskEffect(r.occurrence, r.worth)
  \/ r.op = "Redeem" /\ RedeemEffect(r.child, r.redemption, r.cost)
  \/ r.op = "Fulfil" /\ FulfilEffect(r.redemption)
  \/ r.op = "CancelRedemption" /\ CancelRedemptionEffect(r.redemption)

-----------------------------------------------------------------------------
TxInit ==
  /\ Init
  /\ Idle
  /\ job = [p \in Procs |-> NoKey]
  /\ asked = [k \in Keys |-> 0]
  /\ screen = [k \in Keys |-> <<>>]
  /\ done = {}
  /\ effects = [k \in Keys |-> 0]
  /\ demoted = {}
  /\ saw = [p \in Procs |-> FALSE]

\* A first request is made of what the screen shows; a retry repeats it.
Deliver(p, k) ==
  /\ \/ asked[k] # 0 /\ UNCHANGED <<asked, screen>>
     \/ /\ asked[k] = 0 /\ Offered(Request[k])
        /\ asked' = [asked EXCEPT ![k] = Shown(Request[k])]
        /\ screen' = [screen EXCEPT ![k] = Pictured(Request[k])]
  /\ Begin(p, Script(Request[k]))
  /\ job' = [job EXCEPT ![p] = k]
  /\ UNCHANGED <<vars, done, effects, demoted, saw>>

\* The next statement gets its lock, and its result passes the check.
Advance(p) ==
  /\ Pass(p)
  /\ Check(p, Step(p))
  /\ saw' = [saw EXCEPT ![p] = IF Step(p).table = "completion_attempts"
                               THEN Unattempted(Asker(p)) ELSE @]
  /\ UNCHANGED <<vars, job, requestVars, demoted>>

Stop(p) ==
  /\ End(p)
  /\ job' = [job EXCEPT ![p] = NoKey]
  /\ saw' = [saw EXCEPT ![p] = FALSE]
  /\ UNCHANGED demoted

Commit(p) ==
  /\ Running(p) /\ ~ Waiting(p)
  /\ Effect(Asker(p))
  /\ done' = done \cup {job[p]}
  /\ effects' = [effects EXCEPT ![job[p]] = @ + 1]
  /\ Stop(p)
  /\ UNCHANGED <<asked, screen>>

\* Nothing is written: a check failed, the stored response is returned, the
\* database aborted a deadlock, the connection or the process died.
GiveUp(p) == Stop(p) /\ UNCHANGED <<vars, requestVars>>

-----------------------------------------------------------------------------
(* Around the handlers.  Schedule changes lock the occurrences they close,   *)
(* catalogue edits the reward.  A profile switch or an expired parent mode   *)
(* updates the session's row.  Midnight locks nothing: that it closes a      *)
(* habit's occurrence after Submit compared its date is not modelled.        *)

Elsewhere ==
  /\ \/ \E o \in Occurrences : Free(<<"occurrences", o>>, "update") /\ Reschedule(o)
     \/ \E c \in Children, r \in Rewards : Free(<<"rewards", r>>, "update") /\ Reprice(c, r)
  /\ UNCHANGED <<lockVars, job, requestVars, demoted, saw>>

Demote(s) ==
  /\ Free(<<"sessions", s>>, "no_key_update")
  /\ demoted' = demoted \cup {s}
  /\ UNCHANGED <<vars, lockVars, job, requestVars, saw>>

TxNext ==
  \/ \E p \in Procs :
       \/ \E k \in Keys : Deliver(p, k)
       \/ Advance(p)
       \/ Commit(p)
       \/ GiveUp(p)
  \/ Elsewhere
  \/ \E s \in Switching : Demote(s)

TxSpec == TxInit /\ [][TxNext]_txVars

-----------------------------------------------------------------------------
(* Safety *)

\* However their statements interleave, the handlers are as good as one after
\* the other: a commit makes, on the committed rows, one step of PointsLedger
\* whose checks all hold at that moment.
Serializable == Spec

\* A key takes effect once, however often and however concurrently it is sent.
ExecutedOnce == \A k \in Keys : effects[k] <= 1

\* Whatever came between, a child submits and withdraws, and a parent decides and
\* reverses, the very occurrence that the page showed: in that state, after those
\* attempts, at that price.  The handlers compare nothing but the version, once
\* they have locked the row (completions/service.go:296, points/service.go:277).
ActsOnShown ==
  \A p \in Procs :
    (Commit(p) /\ Asker(p).op \in Versioned) => Row(Asker(p).occurrence) = screen[job[p]]

ActsAsShown == [][ActsOnShown]_txVars

\* Handlers that lock their session commit only while it has the mode they
\* checked: a profile switch or a lapse of parent mode waits for them.
LocksSession == {"Submit", "Withdraw", "Approve", "Reject", "Reverse", "Correct"}

CommitsUnder(ops) ==
  \A p \in Procs : (Commit(p) /\ Asker(p).op \in ops) => Asker(p).session \notin demoted

AuthorityHeld == [][CommitsUnder(LocksSession)]_txVars

\* docs/phase-4-validation.md:13, docs/phase-4-security-contract.md:50: parent
\* mutations re-check the mode in their transactions, so that a concurrent
\* profile switch or idle lock does not retain privilege.
ParentOps ==
  {"Approve", "Reject", "Reverse", "Correct", "CancelTask", "EditTask", "Fulfil",
   "CancelRedemption"}

AuthorityHeldByParents == [][CommitsUnder(ParentOps)]_txVars

\* docs/phase-5-scheduling-contract.md:82: a task is edited only while nobody
\* has attempted it.  The statement that checks this may see attempts as they
\* were before it waited for the task's rows; the price a child has submitted
\* under is kept all the same.
EditsUnattempted ==
  [][\A o \in Tasks : points'[o] # points[o] => attempts[o] = <<>>]_txVars
=============================================================================
