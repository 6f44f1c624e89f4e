SPECIFICATION FairPartsSpec
CONSTANTS
  Indices = {0, 1, 2, 3, 4, 5}
  Values = {a, b}
  Sizes = {1, 3, 4}
  None = None
  Streams = {0, 1, 3, 6}
  End = End
  Descriptors = {3, 4}
  NoFd = NoFd
  opener = opener
  closer = closer
  Callers = {opener, closer}
  Opener = opener
  MaxCalls = 4
  Contents = {0, 1, 2}
  Default = 0
  NoMessage = NoMessage
  IgnoreSameValue = TRUE
  MaxEditors = 2
  p = p
  q = q
  StreamUsers = {p, q}
  NoThread = NoThread
  Classes = {"ostream", "istream", "iostream"}
  Statements <- MCStatements
  MaxThrows = 1
  Units = {0, 2}
  Items = {a, b}
  NoValue = NoValue
  MaxSize = 3
INVARIANTS
  RangesAreHeldIndices
  PipelineIsItsReference
  DescriptorsAreOwned
  PacketsAreReadBack
  LateSubscribersGetTheValue
  StatementsStayWhole
  IndicesKeepTheirValues
  ResultsAreClamped
  LossesAreReported
  IndicesAreDealtOut
PROPERTIES
  ImplementsOrdererSpec
  EveryStreamIsHeard
  DestructionEnds
CHECK_DEADLOCK FALSE
