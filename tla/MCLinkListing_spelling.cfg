CONSTANTS
  Backend = {"memory"}
  Id = {1, 2}
  TypeSeq <- MCTypeSeq
  Spelling <- MCCapitals
  Lower <- MCLower
  PageSize = 2
  ListCap = 3
  AskedLimit = {}
  DefaultLimit = 2
SPECIFICATION Spec
INVARIANTS
  EveryTypeListed
