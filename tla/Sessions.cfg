SPECIFICATION Spec
CONSTANTS
  Buffers = {b1, b2}
  Values = {v1, v2}
  NoValue = NoValue
  MaxDepth = 2
  ScreenHeight = 5
  ScreenWidth = 5
  WindowMinHeight = 2
  WindowMinWidth = 1
  MaxWindows = 4
  MaxSaved = 1
  Program <- MCProgram
  Subjects <- MCTexts
  Gaps <- MCGaps
  NREGS = 2
  MaxFailures = 12
  MaxText = 3
  Tags = {"a"}
  Conditions = {"error", "other"}
  max_lisp_eval_depth = 4
  MaxStack = 12
  BufferList <- AutoSaved
  Large <- LargeTexts
  MaxModiff = 3
  MaxSent = 2
  MaxChanges = 2
  Conses = {c1}
  StaticSlots = {s1}
  StackSlots = {t1}
  STRING_BLOCK_SIZE = 4
  STRING_BLOCK_OUTSIZE = 3
  Lengths = {1, 2, 3}
  MaxStrings = 3
CONSTRAINT PositionsKept
VIEW SessionView
SYMMETRY Alike
INVARIANTS SetUpForC ScreenCovered OneSelected LiveBuffersShown FindsWhatItMeans PointsIntoItsString PositionsInText ListsMatchStack ChangesAreKept MailIsKept StorageWellFormed
PROPERTIES SwappingUnnoticed LetsRestore MarkersKeepPlace UnwindFormsRun CollectsGarbageOnly
CHECK_DEADLOCK FALSE
