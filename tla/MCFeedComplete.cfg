SPECIFICATION Spec
CONSTANTS
  Timestamp <- MCTimestamp
  NoCursor = NoCursor
  NoLimit = NoLimit
  Limit <- MCLimit
  DefaultLimit = 2
  MaxLimit = 2
  MaxPost = 3
INVARIANTS
  WalkIsComplete
