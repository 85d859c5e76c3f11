CONSTANTS
  x1 = x1
  x2 = x2
  warn = warn
  post = post
  watch = watch
  Context = {x1, x2}
  Key = {warn}
  Unknown = Unknown
  Intent = {post, watch}
  OwnKey = {post}
  MaxMessages = 5
  MaxChanges = 1
  Paced = TRUE
  None = None
SPECIFICATION FairSpec
INVARIANTS
  TypeOK
  ListCurrent
  AppliedOnce
PROPERTIES
  EveryRequestEnds
  InTurn
CHECK_DEADLOCK FALSE
