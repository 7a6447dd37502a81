CONSTANTS
  a = a
  b = b
  Char <- TwoChars
  Marker <- NoMarkers
  Nowhere = Nowhere
  Junk = Junk
  MaxSize = 3
  MaxInsert = 2
  Chunk = 1
  Extra = 0
  FirstGap = 0
SPECIFICATION HintSpec
VIEW Text
INVARIANT RegionsUnchanged
