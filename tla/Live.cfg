SPECIFICATION LiveSpec
CONSTANTS
    Tasks = {"a", "b"}
    Lines = {}
    Notifs = {"bell"}
    MaxPending = 1
    Watch <- NoWatch
    Endpoints = {"ep"}
    Bell <- OneBell
    Polls <- PollsB
    RecvUntil = {"none", "ahead", "past"}
    RING_CAP = 1
    MAX_WAITERS = 1
    MaxSends = 2
INVARIANT PollerHears
PROPERTIES BandServed DeadIsReaped TimedRecvReturns
CHECK_DEADLOCK FALSE
