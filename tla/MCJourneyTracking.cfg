CONSTANTS
  j1 = j1
  j2 = j2
  f1 = f1
  f2 = f2
  None = None
  Journey = {j1}
  Flow <- MCFlow
  QueueLimit = 2
  MaxPoints = 3
  MaxFaults = 1
SPECIFICATION FairSpec
CHECK_DEADLOCK FALSE
INVARIANTS
  TypeOK
  QueuedOnce
PROPERTIES
  SlotFreed
