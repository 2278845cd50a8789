\* Files of each type, made, opened, extended and synced, with all faults.
SPECIFICATION Spec
CONSTANTS
  Requests <- FilesMade
  Faults = {"write", "fsync", "parent", "power"}
  MaxSize = 4500
INVARIANTS
  TypeOK
  FreshFileSound
  StaysOpenable
  EntriesSurvive
  BlocksApart
  GeometryKeepsSize
