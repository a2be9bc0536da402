\* Requests return whatever the flash does.
SPECIFICATION FairSpec
CONSTANTS
  NumLines = 1
  LinesPerWindow = 1
  NumSlots = 2
  Values = {v1}
  Blank = blank
  Faults <- FewFaults
  ReadFaults <- AllReads
  MaxSeq = 4
PROPERTIES
  RequestReturns
