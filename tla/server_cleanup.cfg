SPECIFICATION Spec
CONSTANTS
  Clients <- MCClients
  MaxClockSize = 2
  Handlers <- MCHandlers
  Instances <- MCOneInstance
  Home <- MCOneHome
  Ops <- MCOps
  Requests <- MCRestorePoints
  MaxSeq = 3
  MaxTime = 2
  MaxWipes = 0
INVARIANTS
  DeletedIsCovered
  CachedResultsAreStored
PROPERTIES
  BehavesAsLog
  NewRowsGoLast
  FirstImportIsAlone
