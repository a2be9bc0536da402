\* One window of two lines, and three slots: one append fits after a
\* checkpoint of both lines, and a request may dirty both.
SPECIFICATION Spec
CONSTANTS
  NumLines = 2
  LinesPerWindow = 2
  NumSlots = 3
  Values = {v1}
  Blank = blank
  Faults <- TolerableFaults
  ReadFaults <- CopyReads
  MaxSeq = 3
VIEW Seen
INVARIANTS
  TypeOK
  IInv
  RebootAgrees
  OkIsDurable
  AppendsOnErasedSlot
  RoomForAppends
PROPERTIES
  NeverUnrecoverable
