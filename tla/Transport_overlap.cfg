SPECIFICATION HalvesSpec
CONSTANTS
  s1 = s1
  s2 = s2
  r1 = r1
  c1 = c1
  c2 = c2
  N = 2
  Size = 2
  Remote = 1
  Sync <- TwoSyncs
  Reader <- OneReader
  Teller <- NoOne
  Foreign <- First
  Bad <- NoOne
  MaxEvents = 4
  MayRefuse = TRUE
  Overlap = TRUE
  MaxCrashes = 0
  g1 = g1
  g2 = g2
  h1 = h1
  h2 = h2
  unit = unit
  gate = gate
  LinkOrder <- TwoRepos
  Identity <- Apart
  Mainless = {g2}
  Hashes = {h1, h2}
  Moving = {h1}
  Units <- OneUnit
  Reports <- SomeReports
  Decisions = {gate}
  Blocks <- Gates
  Starts <- OneStart
  Folders = 2
  MaxMoves = 2
  MaxActs = 2
  MaxFolds = 2
INVARIANTS SentMeansStored  
PROPERTIES  ImplementsRecordStore
CHECK_DEADLOCK FALSE
SYMMETRY EitherSync
