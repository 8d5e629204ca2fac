SPECIFICATION Spec
CONSTANTS
  Timestamp <- MCTimestamp
  NotFound = NotFound
  MaxPost = 4
INVARIANTS
  RepliesFollowTheirParents
PROPERTIES
  ThreadIsComplete
