SPECIFICATION FairSpec
CONSTANTS
  s1 = s1
  s2 = s2
  r1 = r1
  c1 = c1
  c2 = c2
  N = 2
  Size = 1
  Remote = 1
  Sync <- OneSync
  Reader <- NoOne
  Teller <- OneTeller
  Foreign <- NoOne
  Bad <- Second
  MaxEvents = 1
  MayRefuse = TRUE
  Overlap = FALSE
  MaxCrashes = 1
PROPERTIES Delivered EveryBlockIsTold
CHECK_DEADLOCK FALSE
