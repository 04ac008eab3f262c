CONSTANTS
    Nil = Nil
    NKeys = 2
    NGlobs = 2
    Typings = {1, 2}
    Inputs = {{1}, {1, 2}}
    AutoInputs = {{2}}
    MaxUpdates = 3
    Overlap = 2
    Faults = {"lost", "late"}
    MaxFaults = 1
CONSTRAINT Bounds
SPECIFICATION Spec
INVARIANTS FollowsSnapshots NeededIsWatched CountedIsWatched NoGap
