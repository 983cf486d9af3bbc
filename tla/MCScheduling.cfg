SPECIFICATION Spec
CONSTANTS
  Pages = {p1}
  Children = {c1}
  Ids = {a1, a2, a3}
  daily = daily
  weekdays = weekdays
  Plans = {daily, weekdays}
  DueOn <- MCDueOn
  Titles = {t1, t2}
  MaxDay = 3
  MaxVersions = 3
  Opened = {2}
SYMMETRY Symmetry
INVARIANTS TypeOK VersionsTile HabitHolds FreshIsCurrent SplitNeverCollides
PROPERTIES DaysChangeHands NothingForArchived
