SPECIFICATION Spec
CONSTANTS
  Procs = {p1, p2}
  NoRequest = NoRequest
  Rows <- MCRows
  IdOrder <- MCIdOrder
  AssignmentOf <- MCAssignmentOf
  HabitOf <- MCHabitOf
  Requests <- MCRewardRequests
INVARIANT RedeemNeverDeadlocks
