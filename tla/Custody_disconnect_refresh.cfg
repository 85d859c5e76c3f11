CONSTANTS
  c1 = c1
  c2 = c2
  c3 = c3
  d1 = d1
  d2 = d2
  o1 = o1
  b1 = b1
  b2 = b2
  w1 = w1
  w2 = w2
  tangent = tangent
  Companion = {c1}
  Did = {d1}
  Origin = {o1}
  Binder = {b1}
  Worker = {w1}
  Catalog <- MCCatalog
  Forum = tangent
  None = None
  New = New
  FlightLimit = 1
  MaxSignIns = 1
  MaxRotations = 1
  MaxEnrollments = 1
SPECIFICATION Spec
PROPERTY OnlySignInBinds
