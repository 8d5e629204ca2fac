SPECIFICATION FairSpec
CONSTANTS
  MaxMsg = 2
  BufSize = 5
  Payload <- MCPayload
  Capacity = 1
  Window = 1
  MaxFrame = 3
  MaxPost = 1
CHECK_DEADLOCK FALSE
INVARIANTS
  TypeOK
  Aligned
  OnlyTheClientDisconnects
  InOrder
PROPERTIES
  FramesAreAnswered
  ImplementsDialogue
