---------------------------- MODULE MCLockOrder -----------------------------
(* LockOrder for TLC: two requests at a time, each of one handler and from one *)
(* of two sessions: Alice's, or that of the tablet, which the first child uses. *)
(* Every request works on the same rows, where handlers can meet; Alice's may  *)
(* also list them in another order, and be about a task instead of a habit's   *)
(* occurrence.  A request's key is its handler's: the scope of a key is its    *)
(* route.                                                                      *)
EXTENDS LockOrder, TLC

MCRows ==
  {"ann", "ben", "habit", "weekdays", "weekends", "holidays", "monday", "tuesday", "saturday",
   "task", "due", "morning", "evening"}

MCIdOrder == {<<"ann", "ben">>}

\* Three assignments of a habit, one of them without occurrences.
MCAssignmentOf ==
  [o \in {"monday", "tuesday", "saturday"} |-> IF o = "saturday" THEN "weekends" ELSE "weekdays"]
MCHabitOf == [a \in {"weekdays", "weekends", "holidays"} |-> "habit"]

Household ==
  [child |-> "ann", childSession |-> "tablet", habit |-> "habit", assignment |-> "weekdays",
   habits |-> <<"habit">>, task |-> "task", taskOccurrence |-> "due", tasks |-> <<"task">>,
   taskOccurrences |-> <<"due">>, reward |-> "reward", redemption |-> "redemption"]

Moved(occurrence, child) == [occurrence |-> occurrence, habit |-> "habit", child |-> child]

\* The statements that lock several rows meet them in one order or in the other.
Listed ==
  [children |-> <<"ann", "ben">>, groups |-> <<"morning", "evening">>, group |-> "morning",
   destination |-> <<"evening">>, assignments |-> <<"weekdays", "weekends">>,
   unused |-> <<"holidays">>, habitOccurrences |-> <<"monday", "tuesday">>,
   moves |-> <<Moved("monday", "ann"), Moved("saturday", "ben")>>, occurrence |-> "monday"]

ListedOtherwise ==
  [children |-> <<"ben", "ann">>, groups |-> <<"evening", "morning">>, group |-> "evening",
   destination |-> <<"morning">>, assignments |-> <<"weekends", "weekdays">>,
   unused |-> <<"holidays", "weekends">>, habitOccurrences |-> <<"tuesday", "monday">>,
   moves |-> <<Moved("tuesday", "ann"), Moved("monday", "ann")>>, occurrence |-> "due"]

Request(op, session, lists) == [op |-> op, session |-> session, key |-> op] @@ Household @@ lists

\* Handlers that list rows, or whose chore may be a habit's or a task.
Varied ==
  {"Submit", "Withdraw", "Approve", "Reject", "Reverse", "CreateReward", "UpdateReward",
   "ParentProgress", "EnsureDate", "UpdateHabit", "DeactivateHabit", "UpdateAssignment",
   "DeactivateAssignment", "ReorderGroups", "ArchiveGroup"}

\* Materialisation meets children by their ids all the same, but the habit may be
\* one it has not locked; all assignments may start after the day a habit ends.
Otherwise(op, session) ==
  LET r == Request(op, session, ListedOtherwise)
  IN CASE op = "EnsureDate"      -> [r EXCEPT !.children = <<"ann", "ben">>, !.habits = <<>>,
                                              !.assignments = <<"weekends", "holidays">>]
       [] op = "DeactivateHabit" -> [r EXCEPT !.assignments = <<>>]
       [] OTHER                  -> r

MCRequests ==
  {Request(op, s, Listed) : op \in Ops, s \in {"alice", "tablet"}}
  \cup {Otherwise(op, "alice") : op \in Varied}

\* A child redeems the reward that a parent edits.
MCRewardRequests ==
  {r \in MCRequests : <<r.op, r.session>> \in {<<"Redeem", "tablet">>, <<"UpdateReward", "alice">>}}
=============================================================================
