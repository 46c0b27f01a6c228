SPECIFICATION MemSpec
CONSTANTS
    MaxPages = 6
    BitmapBits = 8
    BitmapPages = {2}
    FreeAtBoot = {0, 3, 4, 5}
    MaxBlock = 2
    MaxReserved = 1
    Caches = {1024, 2048}
    Requests = {1000, 2000, 5000}
    HeapUnits = 3
INVARIANTS
    PagesExclusive
    FreePagesTracks
    SlabsSorted
    ObjectsExclusive
    SlabPagesExclusive
