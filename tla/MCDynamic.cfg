SPECIFICATION HistorySpec
CONSTANTS
    DiskType = "EVhd_Dynamic"
    NumBlocks = 2
    SectorsPerBlock = 2
    VhdSizeInSectors = 3
    Data <- AllData
    Zero = "zero"
    Parent <- ParentSectors
    Garbage = "garbage"
    Written <- New
    MaxSlots = 2
    Ranges <- MixedRanges
    Modes <- AllModes
    Faults = {"read", "write", "fsync"}
INVARIANTS TypeOK TablesSound FooterAtEnd PureBitmapsFull
PROPERTY ImplementsVirtualDisk
