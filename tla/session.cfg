CONSTANTS
    Nil = Nil
    disp = disp
    api = api
    native = native
    Thread = {disp, api, native}
    File = {f}
    Does <- Clients
    Faults = {"error", "panic"}
    MaxCalls = 3
    MaxFires = 1
CONSTRAINT TimersOrCalls
SPECIFICATION Spec
INVARIANTS NothingForgotten UpdateIsComing QuietAfterClose RefreshAgrees
