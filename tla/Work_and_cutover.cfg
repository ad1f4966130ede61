SPECIFICATION HalvesSpec
CONSTANTS
  a = a
  b = b
  s1 = s1
  s2 = s2
  s3 = s3
  x = x
  y = y
  Clones <- TwoClones
  Session <- Sessions
  Home <- Homes
  Criteria = {x, y}
  Verbs <- AnyTwoThenOne
  Seeds <- SomeLogs
  Kinds = {"decision", "convention", "objective"}
  MaxLines = 4
INVARIANTS DoneIsAccounted DispatchStandsOnApproval ReadsAsItsMeaning ReadingsAgree WithdrawnIsOut
CHECK_DEADLOCK FALSE
