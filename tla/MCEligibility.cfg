SPECIFICATION Spec
CONSTANTS
  chore = chore
  Occurrences = {chore}
  DateOf <- MCDateOf
  Terms <- MCTerms
  WeekLength = 3
  MaxDay = 7
  MaxPolicies = 3
  MaxLag = 1
INVARIANTS TypeOK AwardsCount ReversalsDiscount OverlapOnlyOnReturn RequestsEarned
PROPERTIES PastGoverned
CHECK_DEADLOCK FALSE
