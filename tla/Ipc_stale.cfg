SPECIFICATION CallsSpec
CONSTANTS
    Tasks = {"a", "b"}
    Lines = {}
    Notifs = {}
    MaxPending = 2
    Watch <- NoWatch
    Endpoints = {"ep"}
    Bell <- NoBell
    Polls = {}
    RecvUntil = {"ahead"}
    RING_CAP = 1
    MAX_WAITERS = 2
    MaxSends = 3
INVARIANT WaiterReceives
