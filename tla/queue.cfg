CONSTANTS
    Nil = Nil
    Proc = {p1,p2,p3}
    Item = {a,b}
    Ctx = {x}
    Capacity = 2
    MaxItems = 3
SPECIFICATION FairSpec
INVARIANTS SleeperHasWaker FunctionsEnd
PROPERTIES Implements CanceledReturns
