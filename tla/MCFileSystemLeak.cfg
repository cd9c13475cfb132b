SPECIFICATION Spec
CONSTANTS
    SectorSize = 1
    NUM_DIRECT = 2
    LEVEL_LIMIT = 2
    NumSectors = 11
    FreeMapFileSize = 1
    DirectoryFileSize = 1
    NumDirEntries = 2
    FILE_OPEN_LIMIT = 2
    Name = {a, b}
    FileSize = {1}
    MaxDepth = 2
    RootPath = rootPath
    LongPath = longPath
INVARIANT NoLeak
