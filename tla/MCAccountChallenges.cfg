SPECIFICATION Spec
CONSTANTS
  c1 = c1
  c2 = c2
  h1 = h1
  h2 = h2
  h3 = h3
  ip1 = ip1
  p1 = p1
  Call = {c1, c2}
  Challenge = {h1, h2, h3}
  Nothing = Nothing
  Ip = {ip1}
  Phone = {p1}
  AccountMax = 2
  IpMax = 3
  MaxCalls = 4
  MaxSignIns = 3
  MaxAttempts = 1
  MaxPerHour = 2
SYMMETRY Symmetry
INVARIANTS
  TypeOK
  RequestsAreCounted
  UsedOrSuperseded
  DeadlocksHaveCause
PROPERTIES
  LocksHaveCause
