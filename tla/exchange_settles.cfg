SPECIFICATION FairSpec
CONSTANTS
  Clients <- TwoDevices
  MaxClockSize = 1
  Entities <- OneEntity
  Stamps = {1, 2}
  SharedTime = FALSE
  MaxEdits = 1
  MaxFailures = 2
  MaxRestarts = 2
  MaxAttempts = 3
PROPERTY Settles
\* The bound on edits lets the devices come to rest.
CHECK_DEADLOCK FALSE
