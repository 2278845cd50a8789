\* Coalescing either way: into the tail, and through a temporary file.
SPECIFICATION HistorySpec
CONSTANTS
    NumDiffs = 3
    NumBlocks = 1
    SectorsPerBlock = 2
    NumLocators = 2
    Args <- EitherWay
    Modes <- PlainModes
    Writable = {0}
    Faults = {"read", "write", "fsync", "create", "rename", "unlink", "room"}
INVARIANTS TypeOK OnlyChangingParentBreaks StraysAreUnlinked DiskKeepsContent ClientSeesContent
