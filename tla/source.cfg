SPECIFICATION FairSpec
CONSTANTS
  NL = NL
  NUL = NUL
  PipeSize = 1
  ChunkSize = 2
  QuitStatus = {"zero", "nonzero", "signal"}
  Closers = {"out", "err"}
  Callers = {c1, c2}
  Runs = 2
  MaxWindows = 1
  HasErrPort = TRUE
  Text <- MCText
  Program <- MCProgram
\* Without any command the FinalMarker waits for ever.
CHECK_DEADLOCK FALSE
INVARIANT ReportsOwnCode
INVARIANT AbortsOnFailure
INVARIANT OwnDescriptorsOnceStarted
PROPERTY KeepsPromise
PROPERTY FinalCompletes
PROPERTY ShutdownCompletes
