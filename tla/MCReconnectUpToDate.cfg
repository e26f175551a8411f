\* Two messages by two writers, two sessions, a replay of one.
SPECIFICATION ReconnectSpec
CONSTANTS
    Writers = {"w1", "w2"}
    MaxSessions = 2
    LiveMax = 1
    MaxMessages = 2
INVARIANT FullyUpToDate
CHECK_DEADLOCK FALSE
