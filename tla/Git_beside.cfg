SPECIFICATION SpecGit
CONSTANTS
  a = a
  b = b
  s1 = s1
  s2 = s2
  s3 = s3
  Trees = {a, b}
  Sessions = {s1, s2, s3}
  Home <- TwoAndOne
  Kinds = {"report"}
  Beside = TRUE
  MayDie = FALSE
  MaxLines = 3
INVARIANT RecordedIsKept
CHECK_DEADLOCK FALSE
