SPECIFICATION Spec
CONSTANTS
  first = first
  second = second
  third = third
  fourth = fourth
  Free = Free
  Runs = {first, second, third, fourth}
  TriggerId <- MCTriggerId
  MaxSize = 2
  Limits = {1, 2}
  Followed = {first}
  MaxDecisions = 1
  MaxTime = 1
CHECK_DEADLOCK FALSE
SYMMETRY MCAlike
INVARIANTS
  TypeOK
  StoreKeepsLatest
  RowsAreConsistent
PROPERTIES
  RunsNewestFirst
  PollsOnlyAdvance
