SPECIFICATION VmSpec
CONSTANTS
    UserTasks = {1, 2, 3}
    AddressSpaceOf <- OneProcess
    PoolFrames = 12
    HeapPages = 4
    Objects = {}
INVARIANT HeapFresh
CHECK_DEADLOCK FALSE
