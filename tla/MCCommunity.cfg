SPECIFICATION FairSpec
CONSTANTS
  d1 = d1
  c1 = c1
  garbage = garbage
  t1 = t1
  t2 = t2
  NoDevice = NoDevice
  Point <- MCPoint
  Uncompressed <- MCUncompressed
  Task <- MCTask
  BlobOfInteger <- MCBlobOfInteger
  Device <- MCDevice
  MaxKey = 2
  MaxFaults = 2
INVARIANTS
  TypeOK
  RegistrationNeedsKey
  MemberCount
  EveryDeviceCanBeRewrapped
  OrphansNeedFaults
PROPERTIES
  ImplementsMembership
  RequestsTerminate
