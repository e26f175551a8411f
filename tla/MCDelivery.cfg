\* Two devices of one user; a bucket of two tokens, a refill of half a token per tick;
\* two overlapping sends at a time, two connections, a gap of one is replayed and a larger
\* one fetched.
CONSTANTS
    u1 = u1
    s1 = s1
    s2 = s2
    w1 = w1
    w2 = w2
    Users = {u1}
    Sessions = {s1, s2}
    Owner <- TwoDevices
    RateCap = 4
    TokenUnits = 2
    MaxBackpressure = 2
    MaxFrame = 2
    MaxClock = 4
    Writers <- TwoWriters
    MaxSessions = 2
    LiveMax = 1
    MaxMessages = 2
SPECIFICATION DeliverySpec
INVARIANTS
    DeliveryTypeOK
    IndexedHearBroadcasts
    MembersAreIndexed
    LoadIsBounded
    NoGapWhileConnected
SYMMETRY SameDevicesAndWriters
CHECK_DEADLOCK FALSE
