SPECIFICATION TidySpec
CHECK_DEADLOCK FALSE
CONSTANTS
  Owners = {}
  Apps = {a1}
  Requests <- AppRequests
  AppLimit = 1
  Hour = 1
  Days30 = 2
  MaxMemories = 3
  MaxText = 3
  MaxEntry = 2
  MaxTime = 1
  UndoAlone = TRUE
  CHECKPOINT_RETENTION = 1
  MaxRuns = 2
INVARIANTS TidyInv RollbackRestores IndexServed AppChangesPerHour
PROPERTIES DeletedStaysDeleted RunKeepsWordings
