SPECIFICATION MCSpec
CONSTANTS
  d1 = d1
  d2 = d2
  a = a
  b = b
  Devices <- TwoDevices
  Tasks <- TwoTasks
  Old <- OneOld
  MaxOps = 4
  MaxRestarts = 1
  MaxFailures = 1
SYMMETRY Symmetric
INVARIANTS
  TypeOK
  PlacedAsLogged
  NeverNowhere
  InOneArchive
  ShownAsLogged
\* The bounds let the devices come to rest.
CHECK_DEADLOCK FALSE
