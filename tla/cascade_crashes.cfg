SPECIFICATION FairSpec
CONSTANTS
  Memories = {m1, m2}
  MaxQueueDepth = 4
  MaxAttempts = 2
  Sweepers = {}
  SweepLimit = 1
  Operators = {}
  Faults = {"crash","sqlite"}
  MaxSeq = 4
CHECK_DEADLOCK FALSE
INVARIANTS
  SettledMemoriesAgree
PROPERTIES
  ReplicaSpec
  NeverOvertakesFresh
