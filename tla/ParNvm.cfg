SPECIFICATION Spec
CONSTANTS
  a = a  b = b
  byte = byte  word = word
  Garbage = Garbage  None = None
  Ids <- MCIds  Types <- MCTypes
  MaxSlots = 2
  Values <- MCValues
  Tables <- MCTables
  HasStoredId = TRUE  AppendsTail = TRUE
  Tears <- AllTears
  Faults <- AllFaults
INVARIANTS TypeOK SaveSurvives StoreShowsValues
PROPERTY RewriteIsAtomic
