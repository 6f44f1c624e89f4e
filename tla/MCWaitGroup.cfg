SPECIFICATION FairGroupSpec
CONSTANTS
  Futures = {f1, f2}
  Groups = {g1, g2}
  Values = {f2}
  Clients = {c1, c2}
  Filler = c1
  Shared = {g1}
  Wanted <- MCWanted
  f1 = f1
  f2 = f2
  g1 = g1
  g2 = g2
  Awaited = {g1, f1}
  Mapped = {g1, f1, f2}
  MaxMaps = 1
  WordSize = 8
  Nobody = nobody
INVARIANTS
  CountIsOwed
  DeadGroupIsLeftAlone
PROPERTIES
  NobodyWaitsForever
\* the clients may have nothing more to do
CHECK_DEADLOCK FALSE
