CONSTANTS
  a = a
  A = A
  Char <- Letters
  Up <- Upper
  Marker <- NoMarkers
  Nowhere = Nowhere
  Typed <- OneLetter
  Regions <- SecondLetter
  MaxSize = 2
  MaxInsert = 1
  MaxList = 4
  MaxTime = 1
  TickAtSave = TRUE
SPECIFICATION UndoSpec
INVARIANTS LeadsBack UnmodifiedMeansSaved FirstChangeRecorded
PROPERTY UndoesWholeUnitsUnlessSaved
