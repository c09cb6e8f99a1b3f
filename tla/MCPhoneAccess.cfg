SPECIFICATION Spec
CONSTANTS
  k1 = k1
  k2 = k2
  Call = {k1, k2}
  h1 = h1
  h2 = h2
  h3 = h3
  Challenge = {h1, h2, h3}
  Nothing = Nothing
  MaxAttempts = 1
  MaxPerHour = 2
  AutoApproval = {TRUE, FALSE}
  Off = {"INACTIVE"}
SYMMETRY CallSymmetry
INVARIANTS
  TypeOK
  IssuanceLimits
  OneUsePerCode
  UsableWasSent
PROPERTIES
  LatestCodeOnly
