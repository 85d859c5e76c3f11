CONSTANTS
  c1 = c1
  c2 = c2
  o1 = o1
  o2 = o2
  mcp = mcp
  r1 = r1
  r2 = r2
  Companion = {c1}
  Deletable = {}
  Origin = {o1}
  Caller = {mcp}
  Resumer = {r1}
  MaxTickets = 2
SPECIFICATION Spec
INVARIANTS
  SignInReachesWait
