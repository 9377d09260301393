SPECIFICATION Spec
CONSTANTS
  NL = NL
  NUL = NUL
  Writers = {w1}
  PipeSize = 1
  ChunkSize = 2
  QuitStatus = {"nonzero"}
  Closers = {"err"}
  MaxTuples = 2
  MaxWindows = 0
  InitOnFirstTuple = TRUE
  HasErrPort = TRUE
  Text <- MCText
  Program <- MCChatty
  Payload <- MCPayload
PROPERTY KeepsPromise
