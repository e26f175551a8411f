\* Two users of a browser of any version, their records encrypted or not (Persistence); a
\* cache of three messages and a backfill (History); two texts, one with a timer (ClientStore);
\* three numbers for texts, edits and deletions, a text of the user, a connection that breaks or
\* a page that is reloaded (ConvList).
\* The parameters of the other scenarios stand in the module, one set for each.
CONSTANTS
    Accounts = {"u1", "u2"}
    FromVersions = {1, 2, 3, 4, 5}
    MaxPosts = 2
    MaxPatches = 1
    MaxPuts = 3
    CacheMax = 3
    LiveMax = 2
    PageMax = 2
    ScrollMax = 2
    MinKeep = 2
    MaxNumber = 6
    MaxDrops = 1
    MaxReloads = 1
    MaxScrolls = 1
    Texts = {"a", "b"}
    Attachments = {}
    Theirs = {}
    Expirable = {"a"}
    QueueMax = 2
    MaxPageLoads = 1
    InView = TRUE
    MaxNumbers = 3
    MaxTexts = 1
    MaxBreaks = 1
SPECIFICATION ClientSpec
INVARIANTS
    ClientTypeOK
    StoreConsistent
    UnackedIsQueued
    NoHole
    StoredIsCurrent
    RowIsCurrent
PROPERTIES
    RecentBackfilled
    ScrollSeesWindow
CHECK_DEADLOCK FALSE
