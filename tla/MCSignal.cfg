SPECIFICATION FairSpec
CONSTANTS
  Threads = {t1, t2, t3}
  Margin = 3
  MaxCount = 2
  MaxWakes = 4
INVARIANTS
  NoLostWakeup
PROPERTIES
  CountServesWaiters
