SPECIFICATION Spec
CONSTANTS
  Threads = {"one", "two"}
  hasCommandPort = TRUE
  NTop = 2
  Defaults = {20, 200}
  Garbage = {0, 3}
  Digits = 2
  MaxTraining = 2
  MaxDocuments = 2
  Terms <- MCTerms
  Stumps <- MCStumps
  Trainings <- MCTrainings
  Documents <- MCDocuments
  Idf <- MCIdf
INVARIANT CorpusAsTrained
INVARIANT ListsByFormula
CHECK_DEADLOCK FALSE
