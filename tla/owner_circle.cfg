CONSTANTS
    Nil = Nil
    base = base
    app = app
    Thread = {t1,t2}
    Key = {app, base}
    Owner = {o1,o2}
    Call = {c1,c2,c3,c4}
    Entry = {e1,e2,e3,e4,e5}
    Extends <- Circle
    Names <- CircleNames
    Faults = {"error"}
SPECIFICATION Spec
SYMMETRY Symmetry
CONSTRAINT OwnersFirst
INVARIANTS KeysAreOwned OwnershipIsExact NoLostWakeup
