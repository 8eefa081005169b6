SPECIFICATION Spec
\* The calls may all be over, the bounds spent and the vault served by nobody.
CHECK_DEADLOCK FALSE
CONSTANTS
  Keepers = {k1, k2}
  Claimants = {c1, c2}
  Calls = {a1, a2}
  Nobody = Nobody
  MaxClaims = 2
  MaxTroubles = 1
INVARIANTS HandoverInv NotSentNeverRuns DrainedCleanly
PROPERTIES IntentGoesFirst
SYMMETRY Symmetry
