SPECIFICATION HandshakeFairSpec
CONSTANTS
  k1 = k1
  k2 = k2
  k3 = k3
  k4 = k4
  k5 = k5
  c1 = c1
  c2 = c2
  NoKey = NoKey
  Key <- MCKey
  Client <- MCClient
  Tables = 2
  MaxCrash = 2
  MaxFaults = 2
  PointSize = 2
  TagSize = 2
INVARIANTS
  HandshakeTypeOK
  ServesOnlyWhenReady
  ServedKeyIsStored
  CrashesKeepIdentity
  RefusedForCause
  OpenForTheIdentity
PROPERTIES
  ServesAgain
  HandshakesEnd
