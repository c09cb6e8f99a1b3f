SPECIFICATION FairSpec
CONSTANTS
  w1 = w1
  w2 = w2
  note = note
  push = push
  code = code
  remind = remind
  Event = {note, push, code}
  Reminder = {}
  AssignPush = push
  InApp = {note}
  Conditional = {code}
  Worker = {w1, w2}
  Token = {1, 2, 3, 4}
  NoToken = 0
  BatchSize = 1
  MaxAttempts = 2
  MaxFaults = 1
  MaxAssigns = 0
PROPERTIES
  EveryEventSettles
  VoidIsGivenUp
