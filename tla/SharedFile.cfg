CONSTANTS
  e1 = e1
  e2 = e2
  Editors <- TwoEditors
  Empty = Empty
  Free = Free
  Ghost = Ghost
SPECIFICATION Spec
CONSTRAINT UpToAnAccident
SYMMETRY Alike
INVARIANTS LockedForUs ModifiedMeansToldSo UnmodifiedMeansOnDisk SaveLosesNothing
CHECK_DEADLOCK FALSE
