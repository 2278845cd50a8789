SPECIFICATION FairSpec

CONSTANTS
  Procs = {p1, p2}
  Files <- MCFiles
  Chain <- MCChain
  Inodes = {i1, i2, i3}
  NoInode = NoInode
  Modes <- MCModes
  MaxClients = 1
  Faults = {"write", "die"}

INVARIANTS
  NothingLeaks
  WritersAlone

PROPERTIES
  WholeFilesStay
  CallsReturn
