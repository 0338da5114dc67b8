SPECIFICATION MCSpec
CONSTANTS
  d1 = d1
  d2 = d2
  a = a
  b = b
  c = c
  Devices <- TwoDevices
  Tasks <- ThreeTasks
  Projects <- TwoProjects
  INBOX = "inbox"
  Tags <- OneTag
  None = "none"
  MaxOps = 3
SYMMETRY Symmetric
INVARIANTS TypeOK OwnEditsKeepConsistent FamiliesAgree RepairedIsValid InOnePlace RepairLosesNoTask RepairShowsRooted Converged
CHECK_DEADLOCK FALSE
