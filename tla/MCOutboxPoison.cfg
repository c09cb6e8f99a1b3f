SPECIFICATION FairSpec
CONSTANTS
  w1 = w1
  w2 = w2
  note = note
  push = push
  code = code
  remind = remind
  Event = {note, push, remind}
  Reminder = {remind}
  AssignPush = push
  InApp = {note}
  Conditional = {remind}
  Worker = {w1}
  Token = {1, 2, 3, 4}
  NoToken = 0
  BatchSize = 3
  MaxAttempts = 1
  MaxFaults = 0
  MaxAssigns = 2
PROPERTIES
  NoEventBlocksOthers
