SPECIFICATION Spec
CONSTANTS
  d1 = d1
  d2 = d2
  a = a
  b = b
  c = c
  Devices <- TwoDevices
  Tasks <- ThreeTasks
  Projects <- TwoProjects
  INBOX = "inbox"
  Tags <- OneTag
  None = "none"
  MaxOps = 2
SYMMETRY Symmetric
INVARIANTS ReplayNeverThrows
CHECK_DEADLOCK FALSE
