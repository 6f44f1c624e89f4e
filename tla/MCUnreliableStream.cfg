SPECIFICATION Spec
CONSTANTS
  Payload = 4
  FramesLeftSize = 2
  SeqCount = 16
  FirstNumbers = {0, 13}
  Sizes = {3, 5, 7}
  MaxMessages = 2
  Lag = 4
INVARIANTS NothingIsMissing BufferIsSound
CHECK_DEADLOCK FALSE
