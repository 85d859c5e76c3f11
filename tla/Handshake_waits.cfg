CONSTANTS
  c1 = c1
  c2 = c2
  o1 = o1
  o2 = o2
  mcp = mcp
  r1 = r1
  r2 = r2
  Companion = {c1}
  Deletable = {c1}
  Origin = {o1, o2}
  Caller = {mcp}
  Resumer = {r1, r2}
  MaxTickets = 2
SPECIFICATION FairSpec
INVARIANTS
  TypeOK
  FinishedNotResumed
  NoWaitLost
PROPERTIES
  WaitsAnswered
  SharesStore
  WaitsGoOnce
CHECK_DEADLOCK FALSE
