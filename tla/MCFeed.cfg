SPECIFICATION FairSpec
CONSTANTS
  Timestamp <- MCTimestamp
  NoCursor = NoCursor
  NoLimit = NoLimit
  Limit <- MCLimit
  DefaultLimit = 2
  MaxLimit = 2
  MaxPost = 4
INVARIANTS
  TypeOK
  WalkMissesOnlyTies
PROPERTIES
  NoPostTwice
  WalkTerminates
