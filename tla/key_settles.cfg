SPECIFICATION FairSpec
CONSTANTS
  Folders = {"home", "default"}
  Home = "home"
  Default = "default"
  OpenedFolders = {}
  Reads = 3
  LocklessUse = TRUE
  Faults <- NoGarbling
  MaxFaults = 2
  MaxStops = 1
  MaxKeys = 2
  MaxErasures = 1
  MaxTrips = 1
PROPERTIES ErasedNeverOpened MoveFinishes ErasureFinishes
