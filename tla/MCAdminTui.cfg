SPECIFICATION Spec
CONSTANTS
  d1 = d1
  d2 = d2
  Device <- MCDevice
  NoDevice = NoDevice
  NoReport = NoReport
  ReportedAt <- MCReportedAt
  ReportLimit = 2
  MaxReport = 3
SYMMETRY Symmetry
INVARIANTS
  TypeOK
  ReportUnderCursor
  DeviceUnderCursor
