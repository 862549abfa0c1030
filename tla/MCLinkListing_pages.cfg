CONSTANTS
  Backend = {"memory", "sqlite", "redis"}
  Id = {1, 2, 3}
  TypeSeq <- MCTypeSeq
  Spelling = {"album", "event"}
  Lower <- MCLower
  PageSize = 2
  ListCap = 3
  AskedLimit = {0}
  DefaultLimit = 1
SPECIFICATION FairSpec
INVARIANTS
  TypeOK
  NoneSkipped
  NoneTwice
  OnlyListable
PROPERTIES
  PagesMoveOn
  ListingEnds
