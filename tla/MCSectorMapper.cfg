SPECIFICATION Spec
CONSTANTS
    b1 = b1
    b2 = b2
    b3 = b3
    Blocks <- ThreeBlocks
    NumBits = 2
    MaxPages = 2
    TrimEnabled = TRUE
    IOFaults = TRUE
INVARIANTS TypeOK CacheCoherent DirtyTracked ValidPagesListed ListWellFormed
PROPERTY ImplementsAllocBitmaps
SYMMETRY Interchangeable
