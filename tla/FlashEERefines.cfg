\* Two windows of one line: requests that cross windows, reads that load one
\* window while the other was dirty.
SPECIFICATION Spec
CONSTANTS
  NumLines = 2
  LinesPerWindow = 1
  NumSlots = 3
  Values = {v1}
  Blank = blank
  Faults <- FewFaults
  ReadFaults <- CopyReads
  MaxSeq = 3
VIEW Seen
INVARIANTS
  ReadsWhatIsStored
PROPERTIES
  ImplementsLogicalStore
