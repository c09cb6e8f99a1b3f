SPECIFICATION Spec
CONSTANTS
  w1 = w1
  w2 = w2
  note = note
  push = push
  code = code
  remind = remind
  Event = {push, remind}
  Reminder = {remind}
  AssignPush = push
  InApp = {remind}
  Conditional = {remind}
  Worker = {w1, w2}
  Token = {1, 2, 3, 4}
  NoToken = 0
  BatchSize = 2
  MaxAttempts = 2
  MaxFaults = 2
  MaxAssigns = 2
SYMMETRY WorkerSymmetry
INVARIANTS
  TypeOK
  StatusIsLastResult
  RetryBudget
  LeaseExclusion
PROPERTIES
  ImplementsLifecycle
