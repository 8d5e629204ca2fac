SPECIFICATION ContentSpec
CONSTANTS
  d1 = d1
  garbage = garbage
  t1 = t1
  t2 = t2
  NoDevice = NoDevice
  Device <- MCDevice
  Point <- MCPoint
  Uncompressed <- MCUncompressed
  Task <- MCTask
  BlobOfInteger <- MCBlobOfInteger
  MaxKey = 1
  MaxFaults = 1
  MaxPost = 2
  MaxReport = 1
SYMMETRY Symmetry
INVARIANTS
  ContentTypeOK
  AuthorsAreRegistered
  ParentsComeFirst
  JoinsLoseNoReport
PROPERTIES
  ImplementsCommunity
