SPECIFICATION Spec
CONSTANTS
  c1 = c1
  c2 = c2
  o1 = o1
  r1 = r1
  d1 = d1
  d2 = d2
  k1 = k1
  NoChild = NoChild
  Children = {c1, c2}
  Occurrences = {o1}
  Tasks = {o1}
  ChildOf <- MCChildOf
  PointValues = {1, 2}
  Rewards = {r1}
  Redemptions = {d1, d2}
  Corrections = {k1}
  Amounts = {1}
  Costs = {1, 2}
  MaxAttempts = 2
  MaxEdits = 1
INVARIANTS TypeOK AttemptsAgree LedgerAgrees Solvent Conservation
PROPERTIES PostedOnce KeepsAccounts
