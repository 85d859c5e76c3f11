CONSTANTS
  m1 = m1
  m2 = m2
  s1 = s1
  s2 = s2
  c1 = c1
  u1 = u1
  u2 = u2
  default = default
  other = other
  Manager = {}
  Serve = {s1}
  OneShot = {}
  Forced = {}
  Solo = {}
  PortOf <- PortsOf
  Update = {u1, u2}
  MaxFiles = 4
  MaxFaults = 0
  MayRefuse = FALSE
  None = None
  Torn = Torn
SPECIFICATION Spec
INVARIANT
  SavedStays
CHECK_DEADLOCK FALSE
