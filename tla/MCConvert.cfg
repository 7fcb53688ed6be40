CONSTANTS
  U8Max = 31
  U16Max = 63
  U32Max = 127
  MaxFields = 8
  FieldCap = 8
  LineCap = 22
  JsonMaxDepth = 3
  HashLen = 2
  Finite <- Numbers
  Special <- NotNumbers
  Six <- RoundSix
  Tables <- AllTables
  Truncated <- CutTables
SPECIFICATION Spec
INVARIANTS ImportInvertsExport  AllOrNothing
CHECK_DEADLOCK FALSE
