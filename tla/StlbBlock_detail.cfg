SPECIFICATION Spec
CONSTANTS
  f1 = f1
  f2 = f2
  f3 = f3
  NoFrame = NoFrame
  Pages <- MCPages
  Frames <- MCFrames
  NumSet = 1
  NumWay = 2
  Ptes = 2
  Sparsity = FALSE
  MshrSize = 2
  PqSize = 1
  Footprints <- MCFootprints
  MaxStat = 4
SYMMETRY Symmetry
INVARIANTS TypeOK LruPermutation OnePlace StatisticsConsistent
PROPERTIES OnlyLruReplaced RefinesTranslationCache
CHECK_DEADLOCK FALSE
