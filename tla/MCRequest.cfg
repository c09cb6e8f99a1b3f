SPECIFICATION Spec
CONSTANTS
  p1 = p1
  p2 = p2
  s1 = s1
  s2 = s2
  c1 = c1
  c2 = c2
  Provider = {p1, p2}
  Site = {s1, s2}
  Call = {c1, c2}
  Nobody = Nobody
  NoSite = NoSite
  MaxTime = 2
  MaxStarts = 2
  MaxChoices = 2
SYMMETRY Symmetric
INVARIANTS
  OneProvider
  DisposedWhereSent
PROPERTIES
  NoLostEdit
  ImplementsRequestLifecycle
