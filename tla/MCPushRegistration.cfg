CONSTANTS
  alice = alice
  bob = bob
  c1 = c1
  c2 = c2
  None = None
  User <- MCUser
  Call <- MCCall
  MaxToken = 4
  MaxSignIns = 2
  UserOf <- MCUserOf
  MaxEvents = 2
SPECIFICATION Spec
CHECK_DEADLOCK FALSE
INVARIANTS
  TypeOK
  SignOutSilences
  ShownIsReached
