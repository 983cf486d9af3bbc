SPECIFICATION Spec
CONSTANTS
  Procs = {p1, p2}
  NoRequest = NoRequest
  Rows <- MCRows
  IdOrder <- MCIdOrder
  AssignmentOf <- MCAssignmentOf
  HabitOf <- MCHabitOf
  Requests <- MCRequests
INVARIANT DeadlocksAreKnown
PROPERTY EveryRequestEnds
