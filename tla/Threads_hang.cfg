SPECIFICATION SyncSpec
CONSTANTS
    Workers = {"a", "b"}
    Ops = {"lock", "unlock", "wait", "signal"}
    MaxPending = 2
INVARIANT NoSleepOnFree
CHECK_DEADLOCK FALSE
