SPECIFICATION Spec
CONSTANTS
  a = a  b = b
  byte = byte  word = word
  Garbage = Garbage  None = None
  Ids <- MCIds  Types <- MCTypes
  MaxSlots = 2
  Values <- MCValues
  Tables <- OneTable
  HasStoredId = FALSE  AppendsTail = FALSE
  Tears = {}
  Faults = {"record"}
INVARIANT AnsweredSurvives
