SPECIFICATION Spec
CONSTANTS
    SectorSize = 2
    NUM_DIRECT = 2
    LEVEL_LIMIT = 3
    NumSectors = 30
    FreeMapFileSize = 16
    DirectoryFileSize = 3
    Sizes = {3, 5, 9, 17}
INVARIANT NoLeak
