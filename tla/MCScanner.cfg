CONSTANTS
  Keywords <- MCKeywords
  UINT64_MAX = 100
  Tapes <- MCTapes
SPECIFICATION Spec
INVARIANT TypeOK
INVARIANT TokenStringsAreOwned
PROPERTY EventuallyFreed
PROPERTY TokenizerSpec
