CONSTANTS
  c1 = c1
  c2 = c2
  c3 = c3
  d1 = d1
  d2 = d2
  o1 = o1
  b1 = b1
  b2 = b2
  w1 = w1
  w2 = w2
  tangent = tangent
  Companion = {c1, c2}
  Did = {d1, d2}
  Origin = {o1}
  Binder = {b1, b2}
  Worker = {w1, w2}
  Catalog <- MCCatalog
  Forum = tangent
  None = None
  New = New
  FlightLimit = 2
  MaxSignIns = 3
  MaxRotations = 1
  MaxEnrollments = 2
SPECIFICATION FairSpec
CONSTRAINT SignInsApart
ACTION_CONSTRAINT SecondAfterFirst
INVARIANTS
  TypeOK
  DeletedHoldsNothing
  TokenCurrent
  OneEnrollmentPerPlace
  OneFlightPerCompanion
  BoundMirrorsAccount
PROPERTIES
  HandshakesKeepSessions
  RefreshesEnd
  StoreAsPromised
  KeysComeOnce
