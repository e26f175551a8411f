\* One node that crashes and starts again.
CONSTANTS
    Messages = {m1, m2}
    Events = {}
    Gateways = {g1}
    Tasks = {t1, t2}
    Home <- OneHome
    Kinds = {"send", "edit"}
    CacheMax = 6
    LiveMax = 6
    MaxOps = 4
    MaxCrashes = 1
    MaxLosses = 0
    g1 = g1
    g2 = g2
    t1 = t1
    t2 = t2
SPECIFICATION Spec
INVARIANT FrameNumbersUnique
CHECK_DEADLOCK FALSE
