SPECIFICATION Spec
CONSTANTS
  c1 = c1
  c2 = c2
  Call = {c1, c2}
  Session = {1, 2}
  Token = {11, 12, 13}
  Nothing = Nothing
  MaxRecoveries = 2
SYMMETRY CallSymmetry
INVARIANTS
  TypeOK
  OneLiveToken
  EndedHasNoLiveToken
  ReuseEndsSession
  SessionFollowsPassword
