SPECIFICATION PipelineSpec
CONSTANTS
  NL = NL
  NUL = NUL
  Writers = {w1, w2}
  PipeSize = 1
  ChunkSize = 2
  QuitStatus = {"zero", "nonzero"}
  Closers = {"out"}
  MaxTuples = 3
  MaxWindows = 0
  InitOnFirstTuple = TRUE
  HasErrPort = FALSE
  MaxUnacked = 1
  Text <- MCText
  Program <- MCScript
  Payload <- MCDocument
INVARIANT ResultsBelong
INVARIANT OneShell
PROPERTY GateReopens
