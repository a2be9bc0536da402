\* A port read may fail while a cache window is loaded over a valid one.
SPECIFICATION Spec
CONSTANTS
  NumLines = 2
  LinesPerWindow = 1
  NumSlots = 3
  Values = {v1}
  Blank = blank
  Faults <- NoFaults
  ReadFaults <- LoadReads
  MaxSeq = 3
INVARIANTS
  ReadsWhatIsStored
