SPECIFICATION FairSpec
CONSTANTS
  reader = reader
  sleeper = sleeper
  Client <- MCClient
  Reader <- MCReader
  Capacity = 1
  Window = 1
  Batch = 2
  Stamp <- MCStamp
  Limit = {1, 2}
  MaxPost = 2
  MaxFaults = 1
INVARIANTS
  TypeOK
  NothingSlips
  PostsAreAnnounced
PROPERTIES
  ReadersAreTold
  ReadersAreAnswered
