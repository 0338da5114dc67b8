SPECIFICATION Spec
CONSTANTS
  Clients <- MCClients
  MaxClockSize = 2
  Handlers <- MCHandlers
  Instances <- MCOneInstance
  Home <- MCOneHome
  Ops <- MCOps
  Requests <- MCCleanSlate
  MaxSeq = 4
  MaxTime = 1
  MaxWipes = 0
PROPERTIES
  RetriedSnapshotKeepsHistory
