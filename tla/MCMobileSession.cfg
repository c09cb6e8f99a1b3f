CONSTANTS
  s1 = s1
  s2 = s2
  f1 = f1
  f2 = f2
  None = None
  Session <- MCSession
  Flow <- MCFlow
  MaxRenewals = 1
  MaxEvents = 2
SPECIFICATION FairSpec
CHECK_DEADLOCK FALSE
INVARIANTS
  TypeOK
  OwnReuse
  ShownIsStored
  SignedOutIsGone
PROPERTIES
  CheckingEnds
