CONSTANTS
    Nil = Nil
    Cleaner = {w1,w2}
    Direct = {x1,x2}
    r1 = r1
    f1 = f1
    Request = {r1}
    File = {f1}
    Thread = {t1,t2}
    Call = {c1,c2,c3}
    QuerySlots = 1
    Asks <- Mixed
    Nests <- OwnClass
    Faults = {"error", "panic", "discard"}
    IdleTimeout = 1
    MaxTime = 2
SPECIFICATION Spec
CONSTRAINT ClockPinsOrCalls
SYMMETRY Symmetry
INVARIANTS LeasesExclude PoolAgrees CanceledNeverReissued SleeperHasWaker NothingDangles TimersAgree
