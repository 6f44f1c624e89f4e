\* Two writers, messages of one and of two packets, and a ring that wraps.
SPECIFICATION FairSpec
CONSTANTS
  Writers = {w1, w2}
  Lengths = {1, 2}
  Size = 2
  Budget = 1
  MaxRuns = 1
  MaxPackets = 3
  MaxHeartbeats = 1
  None = None
INVARIANTS
  EndsAgree
PROPERTIES
  ImplementsFifo
  EverythingArrives
\* the sender may panic, and everything may have been delivered
CHECK_DEADLOCK FALSE
