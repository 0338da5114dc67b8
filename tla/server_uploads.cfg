SPECIFICATION Spec
CONSTANTS
  Clients <- MCClients
  MaxClockSize = 1
  Handlers <- MCHandlers
  Instances <- MCTwoInstances
  Home <- MCTwoHomes
  Ops <- MCOps
  Requests <- MCUploads
  MaxSeq = 4
  MaxTime = 1
  MaxWipes = 0
PROPERTIES
  BehavesAsLog
INVARIANTS
  TypeOK
  CounterCoversRows
  SeenPriorWriter
  FullStateClockCovers
