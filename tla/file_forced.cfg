SPECIFICATION Spec
CONSTANTS
  Clients <- ThreeDevices
  MaxClockSize = 20
  Joined <- ThreeDevices
  Founders <- Nobody
  StartVersion = 12
  MaxRecent = 2
  ChunkSize = 3
  ChunksTogether = TRUE
  CycleWithinTtl = TRUE
  GuardedCreate = TRUE
  EditsAtHydration = FALSE
  MaxEdits = 1
  MaxForces = 1
  MaxFailures = 0
  MaxRestarts = 0
INVARIANT SeenMeansEqual
PROPERTIES OnlyChoicesDiscard WritesFollowReads
\* The bound on edits lets the devices come to rest.
CHECK_DEADLOCK FALSE
