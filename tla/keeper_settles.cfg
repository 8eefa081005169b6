SPECIFICATION Spec
\* The calls may all be over, the bounds spent and the vault served by nobody.
CHECK_DEADLOCK FALSE
CONSTANTS
  Keepers = {k1, k2}
  Claimants = {c1}
  Calls = {a1}
  Nobody = Nobody
  MaxClaims = 1
  MaxTroubles = 2
PROPERTIES ClaimTaken CallEnds
