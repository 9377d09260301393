SPECIFICATION Spec
CONSTANTS
  Operators = {A, B}
  DataFiles <- MCDataFiles
  Vocabulary <- MCVocabulary
  MaxWords = 1
  MaxTexts = 0
  A = A
  B = B
INVARIANTS
  LastUse
CHECK_DEADLOCK FALSE
