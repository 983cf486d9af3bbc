SPECIFICATION Spec
CONSTANTS
  Requests = {r1, r2}
  SessionIds = {s1, s2}
  Children = {c1}
  Keys <- MCKeys
  Window = 1
  Limit = 1
  MaxKeys = 1
  Idle = 1
  MaxTime = 2
SYMMETRY Symmetry
INVARIANTS TypeOK NoProfileOfArchived FailuresBounded KeysBounded
PROPERTIES ModeIsChosen
