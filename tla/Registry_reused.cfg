SPECIFICATION FairSpec
CONSTANTS
  s1 = s1
  s2 = s2
  Projects = 2
  N = 2
  Theirs = 1
  Sync <- OneSync
  FirstRows <- NeverPushed
  Beside = FALSE
  MayLose = TRUE
  MayDie = TRUE
INVARIANTS KeptWhileQueued
PROPERTIES Settled
CHECK_DEADLOCK FALSE
