SPECIFICATION Spec
CONSTANTS
  Clients <- TwoDevices
  MaxClockSize = 2
  Entities <- OneEntity
  Stamps = {1, 2}
  SharedTime = FALSE
  MaxEdits = 2
  MaxFailures = 1
  MaxRestarts = 1
  MaxAttempts = 1
INVARIANTS TypeOK NothingMissed SyncedIsStored
\* The bound on edits lets the devices come to rest.
CHECK_DEADLOCK FALSE
