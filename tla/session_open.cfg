CONSTANTS
    Nil = Nil
    disp = disp
    api = api
    native = native
    Thread = {disp, native}
    File = {f}
    Does <- OpenAndWatch
    Faults = {}
    MaxCalls = 2
    MaxFires = 0
SPECIFICATION Spec
INVARIANT BatchesAreOrderly
