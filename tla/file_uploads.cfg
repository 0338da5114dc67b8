SPECIFICATION FairSpec
CONSTANTS
  Clients <- TwoDevices
  MaxClockSize = 20
  Joined <- Nobody
  Founders <- OneDevice
  StartVersion = 1
  MaxRecent = 1
  ChunkSize = 1
  ChunksTogether = TRUE
  CycleWithinTtl = TRUE
  GuardedCreate = TRUE
  EditsAtHydration = FALSE
  MaxEdits = 2
  MaxForces = 0
  MaxFailures = 1
  MaxRestarts = 1
INVARIANTS TypeOK SnapshotShowsRecent SeenMeansEqual
PROPERTIES OnlyChoicesDiscard Settles
\* The bound on edits lets the devices come to rest.
CHECK_DEADLOCK FALSE
