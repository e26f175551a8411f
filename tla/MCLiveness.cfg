\* A client that gives up at the second refusal, two connections cut and two stale tokens.
\* The parameters of the other scenarios stand in the module.
CONSTANTS
    AuthFailMax = 1
    Rejection = "UNAUTH"
    MaxDrops = 2
    MaxStale = 2
SPECIFICATION LivenessSpec
INVARIANTS
    OneConnection
PROPERTIES
    ComesBack
    SendAnswered
    LiveMessagesArrive
    DueIsSwept
    SignsFollow
CHECK_DEADLOCK FALSE
