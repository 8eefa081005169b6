SPECIFICATION Spec
CONSTANTS
  Memories = {m1, m2}
  MaxQueueDepth = 1
  MaxAttempts = 2
  Sweepers = {}
  SweepLimit = 1
  Operators = {o1, o2}
  Faults = {"transient", "permanent", "killed"}
  MaxSeq = 3
SYMMETRY Symmetry
CHECK_DEADLOCK FALSE
INVARIANTS
  NothingForgotten
  OneOverflowEventPerEpisode
PROPERTIES
  ResolvedOnce
