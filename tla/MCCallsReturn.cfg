SPECIFICATION FairSpec
CONSTANTS
    DiskType = "EVhd_Dynamic"
    NumBlocks = 2
    SectorsPerBlock = 2
    VhdSizeInSectors = 3
    Data <- AllData
    Zero = "zero"
    Parent <- ParentSectors
    Garbage = "garbage"
    Written <- New
    MaxSlots = 3
    Ranges <- LastOrWhole
    Modes <- WritingModes
    Faults = {"fsync", "batRead"}
INVARIANT AppendedBlocksFlushed
PROPERTY CallsReturn
