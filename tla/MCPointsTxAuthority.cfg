SPECIFICATION TxSpec
CONSTANTS
  c1 = c1
  o1 = o1
  r1 = r1
  d1 = d1
  d2 = d2
  m1 = m1
  NoChild = NoChild
  NoKey = NoKey
  Procs = {p1, p2}
  Keys = {"Submit", "CancelTask"}
  Request <- MCRequest
  Switching = {"bob"}
  Children = {c1}
  Occurrences = {o1}
  Tasks = {o1}
  ChildOf <- MCChildOf
  PointValues = {1}
  Rewards = {r1}
  Redemptions = {d1}
  Corrections = {m1}
  Amounts = {1}
  Costs = {1}
  MaxAttempts = 2
  MaxEdits = 9
SYMMETRY Symmetry
PROPERTY AuthorityHeldByParents
CHECK_DEADLOCK FALSE
