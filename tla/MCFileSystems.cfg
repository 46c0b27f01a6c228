SPECIFICATION FSSpec
CONSTANTS
    FifoTasks = {t1, t2}
    FifoIds = {f1, f2}
    FifoTraffic = {f1}
    FIFO_MAX_SIZE = 2
    FifoData <- MCFifoData
    FifoCounts = {1, 2}
    MaxRefs = 2
    Junk = Junk
    RamIds = {r1, r2, r3, r4}
    NoRam = NoRam
    RAMDISK_MAX_DEVICES = 3
    RamSizes = {1}
    RamValues = {0, 1}
    RamSectors = {0, 1}
    RANDOM_SIZE = 2
    Inodes = {i1, i2, i3}
    TmpRoot = TmpRoot
    TmpFiles = {i1, i2}
    MAX_SIZE = 4
    TmpData <- MCTmpData
    MaxOffset = 1
    NoInode = NoInode
    TmpJunk = TmpJunk
    Filesystems = {"A"}
    Tree <- MCTree
    VfsPaths <- MCPaths
    VfsTargets <- MCTargets
    VfsFlags = {"RDWR"}
    Vnodes = {0, 1, 2, 3}
    FileIds = {x1}
    MAX_FD = 2
    MAX_DENTRY_CACHE = 1
    MaxDentries = 2
    MaxVfsRefs = 1
    PosBits = 1
    NoFile = NoFile
INVARIANTS
    RamdiskTable
    ChildrenLinked
    TmpfsKeepsData
    ReferencesCounted
PROPERTIES
    FifoImplements
    CloseReleases
CHECK_DEADLOCK FALSE
