SPECIFICATION FairSpec
CONSTANTS
    p1 = p1
    p2 = p2
    p3 = p3
    Procs = {p1, p2}
    MaxGrants = 2
    MaxGen = 2
    MaxCommands = 4
    MaxFaults = 1
CHECK_DEADLOCK FALSE
INVARIANTS NoFalseAlarm
PROPERTIES  EveryCommandEnds
