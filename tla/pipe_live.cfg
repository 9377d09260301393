SPECIFICATION FairSpec
CONSTANTS
  NL = NL
  NUL = NUL
  Writers = {w1}
  PipeSize = 1
  ChunkSize = 2
  QuitStatus = {"zero"}
  Closers = {"out", "err"}
  MaxTuples = 2
  MaxWindows = 1
  InitOnFirstTuple = FALSE
  HasErrPort = FALSE
  Text <- MCText
  Program <- MCFilter
  Payload <- MCPayload
PROPERTY FinalCompletes
PROPERTY ShutdownCompletes
