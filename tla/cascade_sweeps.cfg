SPECIFICATION FairSpec
CONSTANTS
  Memories = {m1, m2}
  MaxQueueDepth = 2
  MaxAttempts = 2
  Sweepers = {s1, s2}
  SweepLimit = 2
  Operators = {}
  Faults = {"crash", "killed", "transient"}
  MaxSeq = 3
CHECK_DEADLOCK FALSE
INVARIANTS
  QueueSound
PROPERTIES
  QueueDrains
