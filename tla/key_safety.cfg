SPECIFICATION Spec
CONSTANTS
  Folders = {"home", "default"}
  Home = "home"
  Default = "default"
  OpenedFolders = {}
  Reads = 2
  LocklessUse = FALSE
  Faults <- OneWriter
  MaxFaults = 1
  MaxStops = 3
  MaxKeys = 3
  MaxErasures = 2
  MaxTrips = 2
INVARIANTS ErasedStaysGone KeyFitsVault
PROPERTIES LastCopyKept KeepsPromise
