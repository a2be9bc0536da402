\* A payload program that fails may leave the slot partly programmed.
SPECIFICATION Spec
CONSTANTS
  NumLines = 2
  LinesPerWindow = 1
  NumSlots = 3
  Values = {v1}
  Blank = blank
  Faults <- TornPayload
  ReadFaults <- NoReads
  MaxSeq = 3
PROPERTIES
  NeverUnrecoverable
