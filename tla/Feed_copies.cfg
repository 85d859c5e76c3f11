CONSTANTS
  t1 = t1
  t2 = t2
  p1 = p1
  s1 = s1
  s2 = s2
  Writer = {t1, t2}
  Page = {p1}
  Stream = {s1, s2}
  Nobody = Nobody
  SseLimit = 1
  MaxChanges = 1
  MaxBreaks = 2
  MaxLoads = 1
SPECIFICATION FairSpec
INVARIANTS
  TypeOK
  SlotsBounded
  CopyConverges
PROPERTIES
  StreamsEnd
  FramesDelivered
CHECK_DEADLOCK FALSE
