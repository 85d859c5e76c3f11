CONSTANTS
  c1 = c1
  c2 = c2
  Call = {c1, c2}
  AuthServer = AuthServer
  Pds = Pds
  Nobody = Nobody
  MaxNonces = 3
SPECIFICATION FairSpec
INVARIANTS
  TypeOK
  RetryRecovers
PROPERTIES
  Promise
  CallsEnd
CHECK_DEADLOCK FALSE
