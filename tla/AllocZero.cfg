SPECIFICATION PhysSpec
CONSTANTS
    MaxPages = 6
    BitmapBits = 8
    BitmapPages = {2}
    FreeAtBoot = {0, 3, 4, 5}
    MaxBlock = 2
    MaxReserved = 1
PROPERTIES
    AllocFailsOnlyWhenFull
