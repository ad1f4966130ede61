SPECIFICATION HalvesSpec
CONSTANTS
    Clones = {c1, c2}
    Verbs <- AnyTwoThenOne
    Seed <- SmallPlan
    i = i
    l = l
    k1 = k1
    k2 = k2
    Installers = {i}
    Loaders = {l}
    Documents <- Lists
    Releases <- Published
    MaxLapsed = 1
    MaxFaults = 1
SYMMETRY EachClone
CHECK_DEADLOCK FALSE
INVARIANT RunsWhatItVerified
PROPERTIES RevisionCarries OutcomesStayClosed RevocationsStay MarkKeepsItsWord
