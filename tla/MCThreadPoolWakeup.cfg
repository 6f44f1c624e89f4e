\* One worker, one task and nobody who calls anything afterwards.
SPECIFICATION FairPoolSpec
CONSTANTS
  Workers = {w1}
  Counts = {1}
  MaxTasks = 1
  MaxSets = 0
PROPERTIES
  EveryTaskRuns
CHECK_DEADLOCK FALSE
