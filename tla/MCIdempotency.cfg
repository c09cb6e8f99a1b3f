SPECIFICATION WrapperSpec
CONSTANTS
  c1 = c1
  c2 = c2
  c3 = c3
  plain = plain
  first = first
  second = second
  a = a
  b = b
  Attempt = {c1, c2, c3}
  Key = {plain, first, second}
  Payload = {a, b}
  None = None
  Checked = {first}
  Unchecked = {second}
  MaxAborts = 1
INVARIANTS
  OncePerKey
  DoneIsRecorded
  RefusedHadNoEffect
