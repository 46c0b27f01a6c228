SPECIFICATION MemSpec
CONSTANTS
    MaxPages = 6
    BitmapBits = 8
    BitmapPages = {2}
    FreeAtBoot = {0, 3, 4, 5}
    MaxBlock = 2
    MaxReserved = 1
    Caches = {2048, 4096}
    Requests = {2000, 4000, 5000}
    HeapUnits = 3
INVARIANTS
    ObjectsInsidePage
