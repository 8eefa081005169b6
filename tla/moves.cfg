SPECIFICATION Spec
CHECK_DEADLOCK FALSE
CONSTANTS
  Folders = {home, usb, disk}
  Home = home
  NoFolder = NoFolder
  Windows = {w1, w2}
  Keepers = {kp}
  Nobody = Nobody
  Entries = {db}
  MAX_ATTEMPTS = 2
  PatientPerson = TRUE
  MaxMoves = 1
  MaxSaves = 1
  MaxTroubles = 1
INVARIANTS MoveInv NamedVaultComplete
PROPERTIES OthersKept VaultSpec MoveEnds OldCopyGoes
