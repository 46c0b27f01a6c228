SPECIFICATION MachineSpec
CONSTANTS
    Parts = {"link", "socket", "route", "sched", "vma", "cache", "queue", "controller", "keyboard", "mouse",
             "stdin", "fd", "vector", "list", "ring", "hash", "strings", "paging"}
    Skbs = {b1, b2, b3}
    QUEUE_SIZE = 2
    Frames <- MCFrames
    IPs = {"lo", "ip1", "ip2"}
    MACs = {"m0", "m1", "m2"}
    ARP_CACHE_SIZE = 2
    LoIP = "lo"
    LoMAC = "m0"
    NoSkb = NoSkb
    SockIds = {s1, s2}
    Binds <- MCBinds
    Peers <- MCPeers
    Segments <- MCSegments
    RCV_BUF_SIZE = 2
    SND_BUF_SIZE = 1
    LenWords = 16
    Lengths = {1, 2}
    AddrBits = {1, 2, 3}
    Nets <- MCNets
    Masks <- MCMasks
    MAX_ROUTES = 3
    NoRoute = NoRoute
    Tasks = {idle, ta, tb}
    Idle = idle
    NoTask = NoTask
    Priorities = {0}
    CFS_MIN_GRANULARITY = 1
    CFS_LATENCY = 2
    LoadWords = 65536
    MaxClock = 2
    MaxCalls = 3
    USER_VIRT_START = 0
    USER_VIRT_END = 9
    AddrBound = 12
    BootAreas <- MCBootAreas
    Hints = {0, 1, 2, 3, 5, 6, 7}
    AreaLengths = {1}
    MaxVmas = 9
    MaxUnmaps = 1
    NilNode = NilNode
    BUFFER_CACHE_SIZE = 2
    HASH_SIZE = 2
    Sectors = {0, 1, 2}
    DiskValues = {0}
    MaxRefs = 2
    Bios = {r1, r2, r3}
    RequestSectors = {1}
    NoBuf = NoBuf
    NoBio = NoBio
    KEYBOARD_BUFFER_SIZE = 3
    MOUSE_BUFFER_SIZE = 2
    Scancodes = {16, 30, 31, 42}
    MouseBytes = {0, 25, 248}
    StdinSize = 2
    Chars = {"x", "nl"}
    Newline = "nl"
    ReadCounts = {1, 3}
    MaxTyped = 6
    MAX_FD = 5
    FIRST_FD = 2
    Paths = {"p1", "p2"}
    NoPath = NoPath
    NoChar = NoChar
    Items = {x1, x2}
    VECTOR_INITIAL_CAPACITY = 1
    RingCapacity = 3
    HashCapacity = 4
    MaxItems = 3
    HashKeys = {"k1", "k2", "k3"}
    HashOf <- MCHashOf
    NoItem = NoItem
    NoNode = NoNode
    PTE_COUNT = 2
    BootTable = 1
    PTE_NX = 100
    Pool = {20, 21, 22, 23, 24, 25}
    CallerPages = {30}
    MapAddrs = {6, 12}
    MapCounts = {1, 2}
    VMALLOC_START = 12
    VMALLOC_REGION_SIZE = 3
INVARIANTS
    BuffersOwned
    ArpKnowsLast
    StreamInOrder
    RouteIsLongest
    RunnableCounted
    TreeBalanced
    FindsTheArea
    HeldBuffersStay
    RequestsInOrder
    InputInOrder
    StdinInOrder
    SequencesAgree
    TablesFind
    TranslatesAsMapped
CHECK_DEADLOCK FALSE
