\* Two nodes, all kinds of request, one crash, one loss of the Redis data.
CONSTANTS
    Messages = {m1, m2, m3}
    Events = {e1}
    Gateways = {g1, g2}
    Tasks = {t1, t2}
    Home <- TwoHomes
    Kinds = {"send", "edit", "delete", "react", "group"}
    CacheMax = 2
    LiveMax = 2
    MaxOps = 3
    MaxCrashes = 1
    MaxLosses = 1
    g1 = g1
    g2 = g2
    t1 = t1
    t2 = t2
SPECIFICATION Spec
SYMMETRY Symmetry
INVARIANTS
    TypeOK
    CacheFaithful
    MessagesReplayed
PROPERTIES
    LogSpec
CHECK_DEADLOCK FALSE
