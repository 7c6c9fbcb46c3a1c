SPECIFICATION FairSpec
CONSTANTS
  N = 3
  MaxLength = 2
  MaxChanges = 1
  MaxFaults = 2
CHECK_DEADLOCK FALSE
INVARIANTS
  TypeOK
  SavedIsWhole
  FilesAreClosed
  StopsSoon
PROPERTIES
  BothEnd
