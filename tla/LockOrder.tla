----------------------------- MODULE LockOrder ------------------------------
(***************************************************************************)
(* Every handler that locks more than one row, as a sequence of lock        *)
(* statements, run against every other: which pairs can wait for each other *)
(* for ever, and that a request ends all the same, because the database     *)
(* aborts one transaction of every deadlock.                                *)
(***************************************************************************)
EXTENDS LockScripts

CONSTANTS
  Rows,             \* ids of rows
  IdOrder,          \* pairs of children: the one with the smaller id first
  Requests,         \* the requests that may arrive
  NoRequest,        \* what an idle process serves
  AssignmentOf,     \* the assignment of a habit's occurrence
  HabitOf           \* the habit of an assignment

VARIABLE serving        \* the request a process works on

vars == <<lockVars, serving>>

-----------------------------------------------------------------------------
(* Scheduling.  What a schedule change deletes are unstarted occurrences.   *)

\* parentProgress, the children in the order of their nicknames.
ParentProgressScript(r) == Look(r) \o Each("children", r.children, "update")

\* ensureDate: every active child, every active habit, then an INSERT of the
\* missing occurrences.  (It also waits for who is deleting one of them, and
\* those wait for nothing after that which this transaction holds.)
EnsureDateScript(r) ==
  Each("children", r.children, "share") \o Each("habits", r.habits, "share")
    \o <<Family("key_share")>> \o Each("habit_assignments", r.assignments, "key_share")

UpdateHabitScript(r) ==
  Look(r) \o Reserve(r) \o <<ForUpdate("habits", r.habit)>>
    \o Each("occurrences", r.habitOccurrences, "update")

\* Assignments that started before the last day are cut short; later ones are
\* deleted unless they have occurrences, then the unstarted occurrences are.
DeactivateHabitScript(r) ==
  Look(r) \o Reserve(r) \o <<ForUpdate("habits", r.habit)>>
    \o Each("habit_assignments", r.assignments, "no_key_update")
    \o Each("habit_assignments", r.unused, "update")
    \o Each("occurrences", r.habitOccurrences, "update")

CreateAssignmentScript(r) ==
  Look(r) \o Reserve(r)
    \o <<ForUpdate("habits", r.habit), ForUpdate("children", r.child),
         Referenced("routine_groups", r.group)>>

CreateAssignmentsScript(r) ==
  Look(r) \o Reserve(r) \o <<ForUpdate("habits", r.habit)>>
    \o Each("children", r.children, "update") \o Each("routine_groups", r.groups, "key_share")

\* A change that does not start with the assignment replaces it by a new row.
UpdateAssignmentScript(r) ==
  Look(r) \o Reserve(r) \o <<ForUpdate("habit_assignments", r.assignment)>>
    \o Each("occurrences", r.habitOccurrences, "update")
    \o <<Referenced("habits", r.habit), Referenced("children", r.child),
         Referenced("routine_groups", r.group)>>

DeactivateAssignmentScript(r) ==
  Look(r) \o Reserve(r) \o <<ForUpdate("habit_assignments", r.assignment)>>
    \o Each("occurrences", r.habitOccurrences, "update")

CreateTaskScript(r) ==
  Look(r) \o Reserve(r) \o <<Referenced("children", r.child), Referenced("routine_groups", r.group)>>

-----------------------------------------------------------------------------
(* Profiles *)

UpdateChildScript(r) == Look(r) \o <<Written("children", r.child)>> \o Audit(r)

\* Archive demotes the sessions the child is using.
ArchiveChildScript(r) ==
  Look(r) \o <<ForUpdate("children", r.child), Written("sessions", r.childSession)>> \o Audit(r)

EnterScript(r) ==
  <<ForUpdate("children", r.child), Session(r, "no_key_update")>> \o Audit(r)

LeaveScript(r) == <<Session(r, "update")>> \o Audit(r)

-----------------------------------------------------------------------------
(* Routine groups *)

CreateGroupScript(r) == Look(r) \o Reserve(r)

UpdateGroupScript(r) == Look(r) \o Reserve(r) \o <<ForUpdate("routine_groups", r.group)>>

ReorderGroupsScript(r) ==
  Look(r) \o Reserve(r) \o Each("routine_groups", r.groups, "no_key_update")

\* Assignments move one after the other: the unstarted occurrences of one are
\* deleted, then an INSERT of its replacement names its habit and child.  A move
\* is one of the occurrences with both of them.
Replace(moves) ==
  [i \in 1 .. 3 * Len(moves) |->
    LET move == moves[(i + 2) \div 3]
    IN CASE i % 3 = 1 -> ForUpdate("occurrences", move.occurrence)
         [] i % 3 = 2 -> Referenced("habits", move.habit)
         [] i % 3 = 0 -> Referenced("children", move.child)]

\* What belongs to the archived group moves to its destination, if it has one.
\* (Without tasks, it is the first assignment that names the destination.)
MoveItems(r) ==
  Each("occurrences", r.taskOccurrences, "no_key_update")
    \o Each("one_off_tasks", r.tasks, "no_key_update")
    \o Each("routine_groups", r.destination, "key_share")
    \o Each("habit_assignments", r.assignments, "update") \o Replace(r.moves)

\* At the end the groups that are left are renumbered.
ArchiveGroupScript(r) ==
  Look(r) \o Reserve(r) \o <<ForUpdate("routine_groups", r.group)>>
    \o MoveItems(r) \o Each("routine_groups", r.groups, "no_key_update")

-----------------------------------------------------------------------------
Ops ==
  {"Submit", "Withdraw", "Approve", "Reject", "Reverse", "Correct", "Redeem", "Decide",
   "CreateReward", "UpdateReward", "ArchiveReward", "PutPolicy", "SetRewards",
   "ChildEligibility", "ParentProgress", "EnsureDate", "UpdateHabit", "DeactivateHabit",
   "CreateAssignment", "CreateAssignments", "UpdateAssignment", "DeactivateAssignment",
   "CreateTask", "UpdateTask", "CancelTask", "UpdateChild", "ArchiveChild", "Enter", "Leave",
   "CreateGroup", "UpdateGroup", "ReorderGroups", "ArchiveGroup"}

ScriptOf(r) ==
  CASE r.op = "Submit"               -> SubmitScript(r)
    [] r.op = "Withdraw"             -> WithdrawScript(r)
    [] r.op = "Approve"              -> ApproveScript(r)
    [] r.op = "Reject"               -> RejectScript(r)
    [] r.op = "Reverse"              -> ReverseScript(r)
    [] r.op = "Correct"              -> CorrectScript(r)
    [] r.op = "Redeem"               -> RedeemScript(r)
    [] r.op = "Decide"               -> DecideScript(r)
    [] r.op = "CreateReward"         -> CreateRewardScript(r)
    [] r.op = "UpdateReward"         -> UpdateRewardScript(r)
    [] r.op = "ArchiveReward"        -> ArchiveRewardScript(r)
    [] r.op = "PutPolicy"            -> PutPolicyScript(r)
    [] r.op = "SetRewards"           -> SetRewardsScript(r)
    [] r.op = "ChildEligibility"     -> ChildEligibilityScript(r)
    [] r.op = "ParentProgress"       -> ParentProgressScript(r)
    [] r.op = "EnsureDate"           -> EnsureDateScript(r)
    [] r.op = "UpdateHabit"          -> UpdateHabitScript(r)
    [] r.op = "DeactivateHabit"      -> DeactivateHabitScript(r)
    [] r.op = "CreateAssignment"     -> CreateAssignmentScript(r)
    [] r.op = "CreateAssignments"    -> CreateAssignmentsScript(r)
    [] r.op = "UpdateAssignment"     -> UpdateAssignmentScript(r)
    [] r.op = "DeactivateAssignment" -> DeactivateAssignmentScript(r)
    [] r.op = "CreateTask"           -> CreateTaskScript(r)
    [] r.op = "UpdateTask"           -> UpdateTaskScript(r)
    [] r.op = "CancelTask"           -> CancelTaskScript(r)
    [] r.op = "UpdateChild"          -> UpdateChildScript(r)
    [] r.op = "ArchiveChild"         -> ArchiveChildScript(r)
    [] r.op = "Enter"                -> EnterScript(r)
    [] r.op = "Leave"                -> LeaveScript(r)
    [] r.op = "CreateGroup"          -> CreateGroupScript(r)
    [] r.op = "UpdateGroup"          -> UpdateGroupScript(r)
    [] r.op = "ReorderGroups"        -> ReorderGroupsScript(r)
    [] r.op = "ArchiveGroup"         -> ArchiveGroupScript(r)

\* The lists of rows a request works on.
Lists(r) ==
  {r.children, r.habits, r.assignments, r.unused, r.habitOccurrences, r.tasks,
   r.taskOccurrences, r.groups, r.destination}

\* A key belongs to one route of one session; ORDER BY id meets children in the
\* order of their ids; a statement meets the rows its WHERE clause selects.
Described(r) ==
  /\ r.op \in Ops
  /\ Lists(r) \subseteq Seq(Rows)
  /\ r.moves \in Seq([occurrence : Rows, habit : Rows, child : Rows])
  /\ \A s \in Requests : (r.session = s.session /\ r.key = s.key) => r.op = s.op
  /\ r.op \in {"EnsureDate", "CreateAssignments"} =>
       \A i, j \in DOMAIN r.children : i < j => <<r.children[i], r.children[j]>> \in IdOrder
  /\ \A i \in DOMAIN r.habitOccurrences :
       LET o == r.habitOccurrences[i]
       IN /\ r.op \in {"UpdateHabit", "DeactivateHabit"} => HabitOf[AssignmentOf[o]] = r.habit
          /\ r.op \in {"UpdateAssignment", "DeactivateAssignment"} => AssignmentOf[o] = r.assignment
  /\ r.op = "DeactivateHabit" =>
       /\ \A i \in DOMAIN r.assignments : HabitOf[r.assignments[i]] = r.habit
       /\ \A i \in DOMAIN r.unused : HabitOf[r.unused[i]] = r.habit
  /\ r.op = "ArchiveGroup" =>
       \A i \in DOMAIN r.moves :
         \E j \in DOMAIN r.assignments : AssignmentOf[r.moves[i].occurrence] = r.assignments[j]

LockAssumption ==
  /\ \A r \in Requests : Described(r)
  /\ \A c, d \in Rows : <<c, d>> \in IdOrder => <<d, c>> \notin IdOrder
  /\ \A r, s \in Requests :
       \A i \in DOMAIN r.taskOccurrences, j \in DOMAIN s.habitOccurrences :
         r.taskOccurrences[i] # s.habitOccurrences[j]

ASSUME LockAssumption

-----------------------------------------------------------------------------
Init == Idle /\ serving = [p \in Procs |-> NoRequest]

Deliver(p, r) == Begin(p, ScriptOf(r)) /\ serving' = [serving EXCEPT ![p] = r]

Advance(p) == Pass(p) /\ UNCHANGED serving

Stop(p) == End(p) /\ serving' = [serving EXCEPT ![p] = NoRequest]

CommitForgotten(p) == Running(p) /\ ~ Waiting(p) /\ UNCHANGED vars    \* mutant

Commit(p) == Running(p) /\ ~ Waiting(p) /\ Stop(p)

\* A check fails, the client goes away, the process dies.
GiveUp(p) == Running(p) /\ Stop(p)

\* The database picks a transaction of a deadlock and fails its statement;
\* no handler retries.
Detect(p) ==
  /\ \E D \in SUBSET Procs : p \in D /\ Deadlocked(D)
  /\ Stop(p)

Next ==
  \E p \in Procs :
    \/ \E r \in Requests : Deliver(p, r)
    \/ Advance(p)
    \/ Commit(p)
    \/ GiveUp(p)
    \/ Detect(p)

\* Waiters for a row are served in turn, hence strong fairness; nothing obliges
\* a request to give up.
Fairness ==
  /\ \A p \in Procs : SF_vars(Advance(p)) /\ WF_vars(Commit(p))
  /\ WF_vars(\E p \in Procs : Detect(p))

Spec == Init /\ [][Next]_vars /\ Fairness

-----------------------------------------------------------------------------
(* The deadlocks of the code, by their cause: a pair of row locks that two   *)
(* handlers take in opposite orders.                                        *)

Pairs(S, T) == {{s, t} : s \in S, t \in T}

\* A session's row against a child's.
SessionDeadlocks ==
  Pairs({"Approve", "Reverse", "Correct"},
        {"Submit", "Withdraw", "Redeem", "UpdateChild", "ArchiveChild", "Enter"})
  \cup Pairs({"Submit", "Withdraw"},
             {"Correct", "Decide", "CreateReward", "UpdateReward", "CreateAssignment",
              "CreateAssignments", "UpdateAssignment", "CreateTask", "ArchiveGroup"})

KnownDeadlocks ==
  \* the chore's row against the child's
  Pairs({"Approve", "Reverse", "UpdateAssignment", "ArchiveGroup"}, {"Submit", "Withdraw"})
  \* the reward's row against the child's
  \cup Pairs({"UpdateReward"}, {"Redeem"})
  \* the habit's row against a child's
  \cup Pairs({"CreateAssignment", "CreateAssignments"}, {"EnsureDate"})
  \* assignments of a habit that was created after materialisation locked the habits
  \cup Pairs({"DeactivateHabit"}, {"EnsureDate"})
  \* children in the order of their ids, of their nicknames, or as the client lists them
  \cup Pairs({"CreateAssignments", "EnsureDate", "CreateReward", "UpdateReward",
              "ParentProgress"}, {"ParentProgress"})
  \cup Pairs({"CreateReward", "UpdateReward"}, {"CreateAssignments"})
  \* the family's row, locked first weakly and then strongly by both
  \cup Pairs({"PutPolicy", "SetRewards"}, {"PutPolicy", "SetRewards"})
  \* the assignment's row, or its occurrence's, against the habit's
  \cup Pairs({"UpdateAssignment"}, {"UpdateHabit", "DeactivateHabit"})
  \* occurrences of an assignment, met in an order of their own by two deletions
  \cup Pairs({"DeactivateAssignment"}, {"UpdateHabit", "DeactivateHabit"})
  \* groups, in the order a statement meets them
  \cup Pairs({"ReorderGroups"}, {"ReorderGroups"})
  \* the rows of a group against the group's, each other's or their child's
  \cup Pairs({"ArchiveGroup"},
             {"CreateAssignment", "CreateAssignments", "UpdateAssignment", "UpdateHabit",
              "DeactivateHabit", "UpdateTask", "CancelTask", "EnsureDate", "ParentProgress",
              "Approve", "Reverse", "ReorderGroups", "ArchiveGroup"})

\* The sessions whose rows a request locks.
SessionsOf(r) ==
  {r.session} \cup (IF r.op = "ArchiveChild" THEN {r.childSession} ELSE {})

\* Two requests that wait for each other are one of the known pairs, and the
\* pairs around a session's row need both requests to lock the same session: any
\* other two handlers of the API take their locks in orders that agree.
DeadlocksAreKnown ==
  \A p, q \in Procs :
    (p # q /\ Deadlocked({p, q})) =>
      LET ops == {serving[p].op, serving[q].op}
      IN \/ ops \in KnownDeadlocks
         \/ /\ ops \in SessionDeadlocks
            /\ SessionsOf(serving[p]) \cap SessionsOf(serving[q]) # {}

\* No request waits for ever: its locks are granted in turn, or the database
\* breaks the deadlock it is part of.
EveryRequestEnds == \A p \in Procs : Running(p) ~> ~ Running(p)

\* docs/phase-9-routines-rewards-contract.md:215 promises of a redemption's races
\* with approval, correction, reversal, reward edit and archive, feature disable,
\* child archive and cancellation: a legal winner, and no deadlock.
RedeemNeverDeadlocks ==
  \A p, q \in Procs :
    (p # q /\ Deadlocked({p, q})) => "Redeem" \notin {serving[p].op, serving[q].op}
=============================================================================
