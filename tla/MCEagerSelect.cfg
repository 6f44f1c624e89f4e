\* Sleeps of 1, 2, 2, ... ticks
SPECIFICATION FairSpec
CONSTANTS
  Streams = {s1, s2}
  Sleep = 1
  MaxSleep = 2
  Period = 3
  Offset = 1
  Handling = 1
  MaxPackets = 2
INVARIANTS
  HeartbeatIsInTime
  ReservedIsThere
PROPERTIES
  EveryoneIsServed
\* the application may have closed the connection
CHECK_DEADLOCK FALSE
