CONSTANTS
  a = a
  b = b
  Char <- TwoChars
  Marker <- NoMarkers
  Nowhere = Nowhere
  Junk = Junk
  MaxSize = 4
  MaxInsert = 2
  Chunk = 2
  Extra = 0
  FirstGap = 0
SPECIFICATION HintSpec
VIEW Text
INVARIANTS RegionsUnchangedUnlessOverrun EndUnchanged
