CONSTANTS
    Nil = Nil
    Off = Off
    Project = {p1}
    Info = {Off, a, b}
    Files = {f1, f2}
    MaxUpdates = 3
    MaxToggles = 1
    MaxFaults = 1
SPECIFICATION FairSpec
CHECK_DEADLOCK FALSE
INVARIANTS PendingIsCurrent InputsAreAttended NothingAfterClose
PROPERTIES CloseEnds
