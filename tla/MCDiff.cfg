SPECIFICATION HistorySpec
CONSTANTS
    DiskType = "EVhd_Diff"
    NumBlocks = 2
    SectorsPerBlock = 2
    VhdSizeInSectors = 3
    Data <- AllData
    Zero = "zero"
    Parent <- ParentSectors
    Garbage = "garbage"
    Written <- New
    MaxSlots = 2
    Ranges <- BlockRanges
    Modes <- AllModes
    Faults = {"read", "write", "fsync"}
INVARIANTS BatCoherent PureBitmapsFull
PROPERTIES ImplementsVirtualDisk UniformReadsReturnContent
