SPECIFICATION FeaturesSpec
CONSTANTS
    \* Pins: four messages, two requests at a time, a limit of two.
    Messages = {"m1", "m2", "m3", "m4"}
    Tasks = {"t1", "t2"}
    PinMax = 2
    MaxOps = 4
    \* ViewOnce: two users, two views at a time, one node that dies.  One device, for devices
    \* do nothing to each other: what each of them hears and is sent is free.
    Viewers = {"ann", "bob"}
    Views = {"t1", "t2"}
    Screens = {"d1"}
    MaxCrashes = 1
    \* Polls: two voters, two votes at a time, two devices, one connection that breaks.
    Voters = {"ann", "bob"}
    Options = {"o1", "o2"}
    Booths = {"t1", "t2"}
    Devices = {"d1", "d2"}
    MaxVotes = 2
    MaxDrops = 1
    \* Disappearing: two nodes that sweep, one of which fails, an edit or deletion by a user.
    Timed = {"m1", "m2"}
    Sweepers = {"n1", "n2"}
    Requests = {"r1"}
    Kinds = {"edit", "delete"}
    MaxFails = 1
    MaxRequests = 1
    \* Settings: two requests at a time, three in all, one that fails, two connections or
    \* pages that are lost.
    Setters = {"t1", "t2"}
    MaxSets = 3
    MaxRefusals = 1
    MaxOutages = 2
    \* Portability: two texts, pages of two, a message of one user, a deletion, a failing insert.
    Words <- Strings
    Files <- Chats
    Known = {"ann"}
    Bodies <- Plain
    PAGE = 2
    MaxSent = 1
    MaxGone = 1
    MaxFailures = 1
    \* Replica: one request at a time, two in all, one broken connection, one SYNC_REQ or
    \* backfill.
    ChangeKinds = {"edit", "delete", "expire", "react"}
    Slots = {"r1"}
    Syncs = {"q1"}
    MaxChanges = 2
    MaxBreaks = 1
    MaxReads = 1
INVARIANTS
    FeaturesTypeOK
    PinsBounded CopiesAgree
    ViewedIsErased VotesCount SettingsAgree CleanCopiesAgree
    ExpiryReachesAll ExportsAreFaithful
CHECK_DEADLOCK FALSE
