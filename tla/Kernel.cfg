SPECIFICATION KernelSpec
CONSTANTS
    Cores = {"c0", "c1"}
    Width = 3
    Tasks = {1, 2}
    Spaces = {1, 2}
    SpaceOf <- MCSpaceOf
    Frames = 1
    MaxPages = 1
    Lines = {1}
    MaxBorn = 2
    MaxTable = 2
    FAIRNESS_EVERY = 8
    TableSize = 3
    \* a tree that lists one core more than there are stacks for
    Listed = 4
    MAX_CPUS = 3
    \* frequencies that do and do not divide the second, short of the clock's end
    TimerCores = {1, 2}
    Sleepers = {1, 2}
    Freqs = {6, 7, 10}
    SECOND = 20
    TICK_HZ = 2
    MIN_NANOS = 1
    LAST = 60
    Deadlines = {5, 12}
    MaxCount = 9
    \* a heap of eight units that begins at an odd one
    HeapStart = 1
    HeapSize = 8
    Layouts <- MCLayouts
    \* too few frames for everything the two threads map
    UserTasks = {1, 2}
    AddressSpaceOf <- MCThreadsOf
    PoolFrames = 9
    HeapPages = 2
    Objects = {1}
    \* one stream in the table and one beyond it
    Streams = {0, 1}
    STRTAB = 1
    Bindings <- MCBindings
    Pages = {0, 1}
    FAN = 2
    TableFrames = {1, 2, 3, 4, 5}
    CMDQ = 2
    EVENTQ = 1
    MaxBinds = 2
    MaxEvents = 3
INVARIANTS
    OneGuard LowerBandsWaitBounded RaceVerdictHonest FiresOnTime AuthoritySound PoolExact HeapExact
    FramesHeldOnce NodesKnowTheirParent SmmuSound OnlyFreeMemory StartsWhole
PROPERTIES InRequestOrder EndpointIsChannel
CHECK_DEADLOCK FALSE
