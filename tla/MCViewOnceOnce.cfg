\* One view-once message: two users, two views at a time, two devices and no crash.
CONSTANTS
    Viewers = {ann, bob}
    Views = {t1, t2}
    Screens = {d1, d2}
    MaxCrashes = 0
SPECIFICATION ViewOnceSpec
INVARIANTS
    ConsumedOnce
CHECK_DEADLOCK FALSE
