SPECIFICATION HalvesSpec
CONSTANTS
  r1 = r1
  c1 = c1
  o1 = o1
  s1 = s1
  s2 = s2
  Paths <- AllPaths
  Tops <- AllTops
  Repos = {r1, c1, o1}
  Identity <- Identities
  NoClaim = NoClaim
  Trees <- Planted
  Slugs = {s1, s2}
  Folder = Folder
  Gone = Gone
  None = None
  MaxActs = 3
  MaxMoves = 2
  MaxDeaths = 1
  a1 = a1
  a2 = a2
  d1 = d1
  d2 = d2
  p1 = p1
  p2 = p2
  p3 = p3
  w = w
  Sessions = {a1, a2}
  Digests = {d1, d2}
  StorePaths = {p1, p2, p3}
  Units = {w}
  MaxRecords = 2
  MaxFaults = 1
SYMMETRY Alike
INVARIANTS AnswersForItsOwn JudgedTheSameFromAnywhere LiveHasItsBytes
PROPERTY LinksLeaveByName
CHECK_DEADLOCK FALSE
