SPECIFICATION FairSpec
CONSTANTS
  a = a
  b = b
  Peers = {a, b}
  Budgets <- LivenessBudgets
  MaxInFlight = 30
  Leaves = FALSE
  DialsAtOnce = 1
  ClosesNew = FALSE
PROPERTIES
  DialsAreAnswered
  HalfOpenEnds
CHECK_DEADLOCK FALSE
