SPECIFICATION Spec
CONSTANTS
  f1 = f1
  f2 = f2
  f3 = f3
  NoFrame = NoFrame
  Pages <- MCPages
  Frames <- MCFrames
  NumSet = 1
  NumWay = 2
  Ptes = 2
  Sparsity = TRUE
  MshrSize = 2
  PqSize = 1
  Footprints <- MCFootprints
  MaxStat = 4
SYMMETRY Symmetry
INVARIANT SlotsCoherent
CHECK_DEADLOCK FALSE
