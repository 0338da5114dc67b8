SPECIFICATION Spec
CONSTANTS
  Clients <- ThreeDevices
  MaxClockSize = 3
  Entities <- OneEntity
  Stamps = {1, 2, 3}
  SharedTime = TRUE
  MaxEdits = 1
  MaxFailures = 1
  MaxRestarts = 0
  MaxAttempts = 3
INVARIANTS Converged NewestEditWins
\* The bound on edits lets the devices come to rest.
CHECK_DEADLOCK FALSE
