SPECIFICATION TiersSpec
CONSTANTS
  s1 = s1
  s2 = s2
  Sessions = {s1}
  Projects = {"p", "q"}
  Scopes = {"p"}
  Sizes = {2}
  Cap <- TwoEach
  PerToken = 1
  Verbs = {"confirm"}
  Seeds <- JustRefilled
  MaxWrites = 1
PROPERTY CapsHold
CHECK_DEADLOCK FALSE
