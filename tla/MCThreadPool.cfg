\* Up to two threads and two calls of set_threads_count(), with tasks that add
\* tasks, until the pool is destroyed.  No call starts a third thread.
SPECIFICATION FairPoolSpec
CONSTANTS
  Workers = {w1, w2}
  Counts = {0, 1, 2}
  MaxTasks = 3
  MaxSets = 2
INVARIANTS
  PoolServes
PROPERTIES
  CallsReturn
\* a pool nobody uses, and one that is destroyed, come to rest
CHECK_DEADLOCK FALSE
