CONSTANTS
    Nil = Nil
    t1 = t1
    t2 = t2
    t3 = t3
    Task = {t1, t2, t3}
    Builder = {b1, b2}
    Graphs <- AllGraphs
    Scenarios <- AllScenarios
SPECIFICATION FairSpec
CHECK_DEADLOCK FALSE
INVARIANTS InOrder CyclesExcused Settled SkippedForAReason
PROPERTIES DoneIsFinal BuildEnds
