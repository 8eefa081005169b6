SPECIFICATION TidySpec
CHECK_DEADLOCK FALSE
CONSTANTS
  Owners = {}
  Apps = {a1}
  Requests <- SavesOnly
  AppLimit = 1
  Hour = 1
  Days30 = 2
  MaxMemories = 4
  MaxText = 4
  MaxEntry = 1
  MaxTime = 0
  UndoAlone = TRUE
  CHECKPOINT_RETENTION = 2
  MaxRuns = 2
PROPERTIES AnyRollbackKeepsAll
