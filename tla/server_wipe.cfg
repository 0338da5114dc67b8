SPECIFICATION Spec
CONSTANTS
  Clients <- MCClients
  MaxClockSize = 2
  Handlers <- MCHandlers
  Instances <- MCTwoInstances
  Home <- MCTwoHomes
  Ops <- MCOps
  Requests <- MCWipe
  MaxSeq = 2
  MaxTime = 1
  MaxWipes = 1
PROPERTIES
  NumbersArePublished
