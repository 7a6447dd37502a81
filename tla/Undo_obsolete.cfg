CONSTANTS
  a = a
  A = A
  Char <- Letters
  Up <- Upper
  Marker <- NoMarkers
  Nowhere = Nowhere
  Typed <- OneLetter
  Regions <- SecondLetter
  MaxSize = 2
  MaxInsert = 1
  MaxList = 6
  MaxTime = 1
  TickAtSave = TRUE
SPECIFICATION UndoSpec
PROPERTY UndoesWholeUnits
