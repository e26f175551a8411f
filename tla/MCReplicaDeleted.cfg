\* One message, one request at a time, one broken connection, no SYNC_REQ or backfill.
SPECIFICATION ReplicaSpec
CONSTANTS
    ChangeKinds = {"delete"}
    Slots = {"r1"}
    MaxChanges = 1
    MaxBreaks = 1
    Syncs = {"q1"}
    MaxReads = 0
INVARIANT DeletedStaysDeleted
CHECK_DEADLOCK FALSE
