SPECIFICATION Spec
CONSTANTS
  k1 = k1
  k2 = k2
  k3 = k3
  k4 = k4
  k5 = k5
  c1 = c1
  c2 = c2
  NoKey = NoKey
  Key <- MCKey
  Client <- MCClient
  Tables = 2
  MaxCrash = 1
  MaxFaults = 1
INVARIANTS
  IdentityStaysKnown
