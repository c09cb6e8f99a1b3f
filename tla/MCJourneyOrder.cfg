CONSTANTS
  j1 = j1
  j2 = j2
  f1 = f1
  f2 = f2
  None = None
  Journey <- MCJourney
  Flow <- MCFlow
  QueueLimit = 2
  MaxPoints = 3
  MaxFaults = 1
SPECIFICATION Spec
CHECK_DEADLOCK FALSE
INVARIANTS
  UploadsInOrder
