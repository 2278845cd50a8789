SPECIFICATION Spec
CONSTANTS
    DiskType = "EVhd_Diff"
    NumBlocks = 1
    SectorsPerBlock = 2
    VhdSizeInSectors = 2
    Data <- AllData
    Zero = "zero"
    Parent <- ParentSectors
    Garbage = "garbage"
    Written <- New
    MaxSlots = 1
    Ranges <- BothSectors
    Modes <- PlainMode
    Faults = {}
PROPERTY ReadsReturnContent
