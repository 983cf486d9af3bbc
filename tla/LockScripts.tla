---------------------------- MODULE LockScripts -----------------------------
(***************************************************************************)
(* Which rows the handlers of points and rewards lock, in which order.  A   *)
(* statement that locks several rows is one step per row; an INSERT locks   *)
(* the rows its foreign keys name.  Left out are locks that cannot block    *)
(* anybody: those on rows already held as strongly, on rows reached only    *)
(* through a row held for update (attempts through their occurrence,        *)
(* versions through their habit, schedules through their assignment, a      *)
(* debit through its redemption), on new rows, and on users and             *)
(* memberships, which nothing locks.                                        *)
(*                                                                         *)
(* A request is a record whose fields name its session, its idempotency key *)
(* and the rows it works on.  The rows of a statement that locks several    *)
(* are listed in the order in which the statement meets them.               *)
(***************************************************************************)
EXTENDS RowLocks

Session(r, mode) == Take("sessions", r.session, mode)
Family(mode)     == Take("families", "family", mode)
Child(c, mode)   == Take("children", c, mode)
Occurrence(o, mode) == Take("occurrences", o, mode)

ForUpdate(table, id) == Take(table, id, "update")
Written(table, id)   == Take(table, id, "no_key_update")
Referenced(table, id) == Take(table, id, "key_share")

\* The rows of a table, one by one.
Each(table, ids, mode) == [i \in DOMAIN ids |-> Take(table, ids[i], mode)]

\* The unlocked look at the session's mode that the handlers of rewards,
\* habits, routines and children start with (requireParent, parent, child).
Look(r) == <<Session(r, "read")>>

LockParentUnlocked(r) == Look(r)    \* mutant

LockParent(r) == <<Session(r, "update")>>

\* Mutants: the session first; the session not at all.
LockChildActorReversed(r) == <<Session(r, "update"), Child(r.child, "update")>>
LockChildActorUnlocked(r) == <<Child(r.child, "update"), Session(r, "read")>>

LockChildActor(r) == <<Child(r.child, "update"), Session(r, "update")>>

\* Mutant: the key is looked up, and inserted by the commit.
ReserveUnlocked(r) ==
  <<Take("idempotency_records", <<r.session, r.key>>, "read"),
    Family("key_share"), Session(r, "key_share")>>

\* Mutant: nothing is stored under the key.
ReserveSkipped(r) == <<Family("key_share"), Session(r, "key_share")>>

\* INSERT INTO idempotency_records waits for a transaction that inserted the
\* same key and locks the key's family and session against deletion.
Reserve(r) == <<Take("idempotency_records", <<r.session, r.key>>, "update"),
                Family("key_share"), Session(r, "key_share")>>

\* INSERT INTO audit_events, where no reservation has taken these locks.
Audit(r) == <<Family("key_share"), Session(r, "key_share")>>

ReadBalance == <<Take("point_ledger", "sum", "read")>>

-----------------------------------------------------------------------------
(* Completions and points *)

\* Mutant: the occurrence is read without a lock.
SubmitScriptUnlocked(r) ==
  LockChildActor(r) \o Reserve(r) \o <<Occurrence(r.occurrence, "read")>>

SubmitScript(r) ==
  LockChildActor(r) \o Reserve(r) \o <<Occurrence(r.occurrence, "update")>>

WithdrawScript(r) == SubmitScript(r)

RejectScript(r) ==
  LockParent(r) \o Reserve(r) \o <<Occurrence(r.occurrence, "update")>>

ApproveScript(r) == RejectScript(r) \o <<Child(r.child, "update")>>

ReverseScriptUnserialized(r) == RejectScript(r) \o ReadBalance    \* mutant: no child lock

ReverseScript(r) == ApproveScript(r) \o ReadBalance

CorrectScript(r) == LockParent(r) \o Reserve(r) \o <<Child(r.child, "update")>>

-----------------------------------------------------------------------------
(* One-off tasks *)

TaskLocks(r) ==
  <<ForUpdate("one_off_tasks", r.task), ForUpdate("occurrences", r.taskOccurrence)>>

CancelTaskScript(r) == Look(r) \o Reserve(r) \o TaskLocks(r)

\* The statement that locks the task and its occurrence reads the attempts as
\* they were when it began; moving the task names the group it moves to.
UpdateTaskScript(r) ==
  Look(r) \o Reserve(r) \o <<Take("completion_attempts", r.taskOccurrence, "read")>>
    \o TaskLocks(r) \o <<Referenced("routine_groups", r.group)>>

-----------------------------------------------------------------------------
(* Rewards *)

RedeemScript(r) ==
  Look(r) \o <<Child(r.child, "update")>> \o Reserve(r)
    \o <<Family("share"), Take("rewards", r.reward, "update")>> \o ReadBalance

DecideScript(r) ==
  Look(r) \o Reserve(r)
    \o <<Child(r.child, "update"), Take("reward_redemptions", r.redemption, "update")>>

\* replaceEligibility inserts a row for every selected child, as the client lists
\* them.
CreateRewardScript(r) == Look(r) \o Reserve(r) \o Each("children", r.children, "key_share")

ArchiveRewardScript(r) == Look(r) \o Reserve(r) \o <<Take("rewards", r.reward, "update")>>

UpdateRewardScript(r) == ArchiveRewardScript(r) \o Each("children", r.children, "key_share")

PutPolicyScript(r) == Look(r) \o Reserve(r) \o <<Family("update")>>

\* updateHousehold with rewardsEnabled, behind the parent-mode check of the route.
SetRewardsScript(r) == PutPolicyScript(r)

ChildEligibilityScript(r) == Look(r) \o <<Child(r.child, "update")>>
=============================================================================
