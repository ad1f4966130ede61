SPECIFICATION HalvesSpec
CONSTANTS
  c1 = c1
  c2 = c2
  Clones <- TwoClones
  Skew <- OneClock
  Verbs = {"add", "propose", "confirm", "retract", "start", "block", "done", "undo", "narrow"}
  MaxEvents = 4
  a = a
  b = b
  s1 = s1
  s2 = s2
  s3 = s3
  Trees = {a, b}
  Sessions = {s1, s2, s3}
  Home <- TwoAndOne
  Kinds = {"report", "done"}
  Beside = FALSE
  MayDie = TRUE
  MaxLines = 2
SYMMETRY Interchangeable
INVARIANTS FoldsToItsMeaning RecordedIsKept SyncedMeansShared
PROPERTIES NothingRevives UndoRestores
CHECK_DEADLOCK FALSE
