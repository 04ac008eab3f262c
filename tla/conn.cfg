CONSTANTS
    Nil = Nil
    Disp = Disp
    Observer = Observer
    Watch = {wt}
    Msg = {m1,m2}
    Id = {i1}
    Worker = {w1}
    MaxCalls = 1
    MayEnd = TRUE
ACTION_CONSTRAINT EndsOnce
SPECIFICATION FairSpec
INVARIANTS PendingIsAwaited IdsAgree RequestsHold
PROPERTIES AllAnswered StopsWhenOver
CHECK_DEADLOCK FALSE
