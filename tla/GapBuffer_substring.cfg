CONSTANTS
  a = a
  b = b
  m1 = m1
  Char <- TwoChars
  Marker <- OneMarker
  Nowhere = Nowhere
  Junk = Junk
  MaxSize = 4
  MaxInsert = 2
  Chunk = 2
  Extra = 1
  FirstGap = 1
SPECIFICATION Spec
VIEW OutsideGapOnly
PROPERTY InsertsTheSubstring
