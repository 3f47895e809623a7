SPECIFICATION ProgressSpec
CONSTANTS
    Tasks = {"server"}
    Lines = {"client", "irq"}
    Notifs = {1, 2}
    Watch <- MCWatch
    MaxPending = 1
INVARIANT NoSleepOnSignal
PROPERTIES WaitsReturn InterruptServed HeldGoesOut InputHeard
CHECK_DEADLOCK FALSE
