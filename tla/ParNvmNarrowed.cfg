SPECIFICATION Spec
CONSTANTS
  a = a  b = b
  byte = byte  word = word
  Garbage = Garbage  None = None
  Ids <- MCIds  Types <- MCTypes
  MaxSlots = 2
  Values <- Wide
  Tables <- NarrowedTables
  HasStoredId = TRUE  AppendsTail = TRUE
  Tears = {}
  Faults = {}
INVARIANT ValuesRetained
