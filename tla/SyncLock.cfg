SPECIFICATION HalvesSpec
CONSTANTS
  p1 = p1
  p2 = p2
  r0 = r0
  r1 = r1
  r2 = r2
  Proc <- Both
  Renewing <- OnlyP1
  Mortal <- OnlyP1
  Lease = 4
  Bound = 2
  Slack = 1
  Items = 4
  MaxNow = 5
  MaxJumps = 1
  Row <- RowsAll
  Large <- OnlyR2
  Stored <- OnlyR0
  Early <- OnlyR0
  Pub <- Both
  MayDie <- Both
  Missing = FALSE
  DiesLate = FALSE
  Takeovers = 1
INVARIANTS MutualExclusion EveryAppendOnce NoFusedLine
PROPERTIES StaleMeansStopped  DeadHolderIsReplaced SettledStaysSettled
CHECK_DEADLOCK FALSE
