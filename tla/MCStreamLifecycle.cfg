SPECIFICATION FairSpec
CONSTANTS
  d = d
  a = a
  Dialer = d
  Acceptor = a
  q1 = q1
  q2 = q2
  Qos = {q1, q2}
  Reliable = {q1}
  EpochCount = 3
  FirstEpoch <- Seeds
  Budgets <- LifecycleBudgets
INVARIANTS CreatedWasMade ClosedWasEnded
PROPERTIES Converges DialerWins
CHECK_DEADLOCK FALSE
