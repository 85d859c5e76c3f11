CONSTANTS
  e1 = e1
  i1 = i1
  i2 = i2
  i3 = i3
  mcp = mcp
  k1 = k1
  Enrollment = {e1}
  Item = {i1, i2, i3}
  Directed = {i1, i2}
  Caller = {mcp}
  Checker = {k1}
  RecordLimit = 2
  PageLimit = 2
  PreviewLimit = 1
  MaxRevisions = 4
  MaxSyncs = 3
  None = None
SPECIFICATION Spec
SYMMETRY Interchangeable
INVARIANTS
  TypeOK
  RecordsCoalesce
  DeliveredOnce
PROPERTIES
  ItemsGoOneWay
CHECK_DEADLOCK FALSE
