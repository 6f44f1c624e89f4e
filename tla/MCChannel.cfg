\* Two senders, two receivers, and a ring of two slots that is used twice.
SPECIFICATION FairSpec
CONSTANTS
  Senders = {s1, s2}
  Receivers = {r1, r2}
  Size = 2
  Margin = 9
  Nothing = Nothing
  MaxItems = 3
INVARIANTS
  SlotsAreSafe
PROPERTIES
  ImplementsQueue
  EverythingIsReceived
  CloseUnblocks
\* receivers wait for items when nobody sends any more
CHECK_DEADLOCK FALSE
