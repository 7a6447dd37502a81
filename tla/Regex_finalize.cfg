SPECIFICATION MatcherSpec
CONSTANTS
  Program <- MCProgram
  Texts <- MCTexts
  Gaps <- MCGaps
  NREGS = 2
  MaxFailures = 12
INVARIANT FinalizesOnlyIfSafe
CHECK_DEADLOCK FALSE
