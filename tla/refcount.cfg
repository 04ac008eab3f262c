CONSTANTS
    k1 = k1
    k2 = k2
    Nil = Nil
    Thread = {t1, t2}
    Key = {k1, k2}
    Call = {c1, c2, c3}
    Nests <- OrderedNests
    DisableDeletion = FALSE
SPECIFICATION FairSpec
INVARIANTS LeasesHold NoLostWakeup
PROPERTIES ImplementsLeaseTable CallsReturn
