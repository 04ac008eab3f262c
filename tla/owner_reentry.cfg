CONSTANTS
    Nil = Nil
    base = base
    app = app
    Thread = {t1}
    Key = {app, base}
    Owner = {o1}
    Call = {c1,c2}
    Entry = {e1,e2,e3}
    Extends <- Circle
    Names <- CircleNames
    Faults = {}
SPECIFICATION Spec

INVARIANTS NeverReenters
