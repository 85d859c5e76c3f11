CONSTANTS
  m1 = m1
  m2 = m2
  s1 = s1
  s2 = s2
  c1 = c1
  u1 = u1
  u2 = u2
  default = default
  other = other
  Manager = {m1}
  Serve = {s1, s2}
  OneShot = {c1}
  Forced = {m1}
  Solo = {m1, c1}
  PortOf <- PortsOf
  Update = {u1, u2}
  MaxFiles = 13
  MaxFaults = 2
  MayRefuse = TRUE
  None = None
  Torn = Torn
SPECIFICATION Spec
SYMMETRY Updates
INVARIANTS
  TypeOK
  LockExclusive
  SnapshotWhole
  PageUrlCleared
PROPERTIES
  UpdatesKept
  AcknowledgedOnDisk
CONSTRAINT Promised
CHECK_DEADLOCK FALSE
