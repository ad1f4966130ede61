SPECIFICATION TiersSpec
CONSTANTS
  s1 = s1
  s2 = s2
  Sessions <- TwoSessions
  Projects = {"p", "q"}
  Scopes = {"p", "workspace"}
  Sizes = {1, 2}
  Cap <- TwoEach
  PerToken = 1
  Verbs = {"add", "propose", "rule", "place", "ask", "confirm", "retracted", "done"}
  Seeds <- Starts
  MaxWrites = 1
SYMMETRY Interchangeable
PROPERTIES KeepsToItsRoom OnlyTheNamedMove
CHECK_DEADLOCK FALSE
