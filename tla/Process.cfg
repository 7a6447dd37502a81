SPECIFICATION Spec
CONSTANTS
  p1 = p1
  p2 = p2
  Processes <- MCProcesses
  Nobody = Nobody
  MaxOutput = 1
  Busy <- OneBusy
  Buffered <- OneBuffered
INVARIANTS OutputBeforeNotice EventsTick AnnouncedOnce
PROPERTY DeathIsReported
CONSTRAINT OneAccident
