CONSTANTS
  a = a
  b = b
  Key <- TwoKeys
  CtrlG = CtrlG
  Junk = Junk
  NoKey = NoKey
  Size = 2
  TtyMax = 2
SPECIFICATION KbdSpec
PROPERTY ImplementsKeyFifo
