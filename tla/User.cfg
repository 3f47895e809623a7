SPECIFICATION UserSpec
CONSTANTS
    Workers = {"a", "b"}
    Ops <- AllOps
    MaxPending = 1
    Threads = {"main", "t1", "t2"}
    Main = "main"
    MAX_THREADS = 2
    MAX_TLS_DTORS = 2
    ROUNDS = 1
    MaxStray = 1
    Callers = {"a", "b"}
    Opener = "a"
    MAX_FDS = 2
    MAX_WAITABLES = 2
    PIPE_CAPACITY = 2
    MaxBytes = 3
    MaxSignals = 1
    MaxCalls = 2
    \* two windows of two clients on a screen of three pixels; one may lie beside it
    Clients = {1, 2}
    Width = 3
    MAX_SURFACES = 2
    MaxId = 3
    Buffers = 2
    Spots = {0, 1, 2, 3}
    Extents = {1, 2}
    \* two threads that print; a line of two bytes; one handler registers the other
    Speakers = {"t", "u"}
    Chars = {"a", "b", "c", "d", "e", "nl"}
    Texts <- MCTexts
    NL = "nl"
    LINE = 2
    Handlers = {1, 2}
    Registers = {1}
    MAX_ATEXIT = 2
    MaxSpoken = 2
    \* two threads, two files and one descriptor; the server answers five requests and generations wrap
    Accessors = {"r", "s"}
    Names = {"a", "b"}
    SizeOf <- MCSizeOf
    PAGE = 1
    FILE_FDS = 1
    MAX_OPEN = 2
    Gens = 2
    MAX_REQUESTS = 5
    Counts = {1, 2}
    Targets = {0, 1}
INVARIANTS
    LocksExclude ParkersApart WaiterHears ReadsItsFile ReadsItsOwn BlocksTile NoOldPixels
    FinishedIsClean LibraryAnswers ListsEachOnce SaidAndDone
CHECK_DEADLOCK FALSE
