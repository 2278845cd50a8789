\* Operations and searches over the words of a bit vector, and its scans.
SPECIFICATION FairSpec
CONSTANTS
  WordBits = 4
  ByteBits = 2
  NumBits = 9
  Operands <- MCOperands
  Streams <- MCStreams
INVARIANTS
  TypeOK
  TestsAreOfBits
  FindsNearest
  UpdatesExact
PROPERTIES
  ImplementsBitScan
  ScanEnds
