SPECIFICATION FairSpec
CONSTANTS
    AuthFailMax = 3
    Rejection = "other"
    MaxDrops = 0
    MaxStale = 1
PROPERTIES ComesBack
CHECK_DEADLOCK FALSE
