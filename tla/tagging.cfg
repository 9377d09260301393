SPECIFICATION Spec
CONSTANTS
  Operators = {A}
  DataFiles <- MCDataFiles
  Vocabulary <- MCVocabulary
  MaxWords = 3
  MaxTexts = 2
  A = A
  B = B
INVARIANTS
  LastUse
  NothingLeft
  KnownWordsKeepListedTags
  StartTagsAsDefined
CHECK_DEADLOCK FALSE
