SPECIFICATION Spec
CONSTANTS
  Pages <- MCPages
  Frames = {f1, f2}
  TableSize = 2
  LineEntries = 2
  PwcSets <- MCPwcSets
  PwcWays <- MCPwcWays
  Ways <- MCWays
  Garbage = {0, 1}
  PtwStartLevels = {1, 2}
  MaxWalks = 3
INVARIANTS TypeOK PwcIsLru FootprintsExact
CHECK_DEADLOCK FALSE
SYMMETRY SymFrames
