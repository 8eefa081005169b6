SPECIFICATION Spec
CHECK_DEADLOCK FALSE
CONSTANTS
  Owners = {o1}
  Apps = {a1, a2}
  Requests <- AllRequests
  AppLimit = 1
  Hour = 1
  Days30 = 1
  MaxMemories = 1
  MaxText = 2
  MaxEntry = 3
  MaxTime = 2
INVARIANTS WordingKept
PROPERTIES DeletedStaysDeleted
SYMMETRY Symmetry
