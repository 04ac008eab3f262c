CONSTANTS
    Nil = Nil
    NKeys = 1
    NGlobs = 2
    Typings = {}
    AutoInputs = {{}}
    Inputs = {{1}, {1, 2}}
    MaxUpdates = 3
    Overlap = 0
    Faults = {"lost", "late"}
    MaxFaults = 1
SPECIFICATION Spec
INVARIANT RetryRecovers
