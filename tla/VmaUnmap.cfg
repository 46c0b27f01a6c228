SPECIFICATION VmaSpec
CONSTANTS
    USER_VIRT_START = 0
    USER_VIRT_END = 9
    AddrBound = 12
    BootAreas <- MCBootAreas
    Hints = {0, 2, 3, 6}
    AreaLengths = {1, 2}
    MaxVmas = 7
    MaxUnmaps = 1
    NilNode = NilNode
INVARIANTS
    UnmapSparesOthers
CHECK_DEADLOCK FALSE
