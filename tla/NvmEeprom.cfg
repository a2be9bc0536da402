\* A window of 27 bytes that begins and ends in the middle of a page: two
\* records fit in all layouts but that of the largest slots.
SPECIFICATION Spec
CONSTANTS
  Tables <- MCTables
  Images <- MCImages
  MemSize = 32
  BaseAddr = 3
  WindowSize = 27
  PageBytes = 8
  EraseChunk = 3
  WriteVerify = TRUE
  DropsWrites = TRUE
  MaxFaults = 1
  MaxRequests = 4
  Bad = bad
INVARIANTS
  TypeOK
PROPERTIES
  NeighboursKept
  ImplementsRecordStore
CHECK_DEADLOCK FALSE
