SPECIFICATION Spec
CONSTANTS
  a = a
  b = b
  Peers = {a, b}
  Budgets <- SafetyBudgets
  MaxInFlight = 2
  Leaves = TRUE
  DialsAtOnce = 1
  ClosesNew = FALSE
INVARIANTS
  IncarnationsAreApart
  OneConnection
CHECK_DEADLOCK FALSE
