SPECIFICATION Spec
CONSTANTS
  NL = NL
  NUL = NUL
  Writers = {w1, w2}
  PipeSize = 2
  ChunkSize = 2
  QuitStatus = {"zero", "nonzero", "signal"}
  Closers = {"out", "err"}
  MaxTuples = 2
  MaxWindows = 0
  InitOnFirstTuple = FALSE
  HasErrPort = FALSE
  Text <- MCText
  Program <- MCFilter
  Payload <- MCPayload
SYMMETRY MCSymmetry
INVARIANT TypeOK
INVARIANT LinesIntact
INVARIANT InputConsumed
INVARIANT NoSpuriousAbort
INVARIANT AbortHasCause
INVARIANT OwnDescriptors
INVARIANT NothingLeft
