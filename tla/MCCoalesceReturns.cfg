SPECIFICATION FairSpec
CONSTANTS
    NumDiffs = 3
    NumBlocks = 2
    SectorsPerBlock = 1
    NumLocators = 1
    Args <- Either
    Modes <- WritingMode
    Writable = {}
    Faults = {"create", "rename", "room"}
PROPERTIES NoTemporaryFileLeft CallsReturn
