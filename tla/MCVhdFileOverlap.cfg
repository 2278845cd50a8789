\* A dynamic VHD of 129 blocks: its table does not fit the sectors it is given.
SPECIFICATION Spec
CONSTANTS
  Requests <- Overlapping
  Faults = {}
  MaxSize = 9000
INVARIANT FooterIsLastSector
