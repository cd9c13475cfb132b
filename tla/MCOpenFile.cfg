SPECIFICATION Spec
CONSTANTS
    OpenFile = {f, g}
    SectorSize = 2
    FileLength = 5
    Byte = {0, 1}
    Zero = 0
    MaxBytes = 4
INVARIANT TypeOK
PROPERTIES OnlyTheRequest WriteIsComplete ReadReturnsTheFile
