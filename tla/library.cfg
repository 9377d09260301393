SPECIFICATION MCSpec
CONSTANTS
  k1 = k1
  k2 = k2
  k3 = k3
  Value = {k1, k2, k3}
  Object = {k1, k3}
  NULL = NULL
  Junk = Junk
  Bool_TRUE = Bool_TRUE
  Bool_FALSE = Bool_FALSE
  Class <- MCClass
  HashOf <- MCHashOf
  DEFAULT_HT_SIZE = 2
  Hints = {1, 3}
  MAX_GROW_STEP = 2
  MaxLength = 3
  MaxStorage = 4
  Alphabet <- MCAlphabet
  MaxText = 4
  TagOf <- MCTagOf
  UintBits = 8
  wordsize = 6
  hashvalues <- MCHashValues
INVARIANTS
  InvariantConditions
  ChainsWellFormed
  SplitFits
  TokenizerSeparates
  ListsAligned
  NounPhrasesAreMaximal
  NgramsAsDefined
  NgramsCounted
PROPERTIES
  ImplementsDeque
  ImplementsDictionary
CHECK_DEADLOCK FALSE
VIEW MCView
