SPECIFICATION Spec
CONSTANTS
    SectorSize = 1
    NUM_DIRECT = 2
    LEVEL_LIMIT = 2
    NumSectors = 12
    FreeMapFileSize = 1
    DirectoryFileSize = 1
    NumDirEntries = 2
    FILE_OPEN_LIMIT = 1
    Name = {a, b}
    FileSize = {1, 3}
    MaxDepth = 3
    RootPath = rootPath
    LongPath = longPath
INVARIANTS TypeOK RemovalSucceeds NoSharedSector TreeIsSound AllReachable
PROPERTY OthersUntouched
SYMMETRY NameSymmetry
