SPECIFICATION Spec
CONSTANTS
  Processes = {keeper, desktop}
  Desktop = desktop
  Refusing = {desktop}
  Users = {u1, u2}
  FirstUser = u1
  Nobody = Nobody
  MaxWait = 1
  Minute = 2
  Hour = 3
  MaxGrants = 2
  MaxTroubles = 2
INVARIANTS TokenInv
PROPERTIES ReplayNeedsLoss CallsLimited NewGrantSupersedes LeaseArrives
