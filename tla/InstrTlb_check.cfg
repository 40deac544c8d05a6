SPECIFICATION Spec
CONSTANTS
  PagesOf <- MCPagesOf
  Frames = {1, 2}
  TlbWays = 1
  TlbMshrs = 1
  StlbWays = 2
  StlbMshrs = 2
  LinePages = 2
  FctbSize = 2
  Stalls = {1}
  MaxCycle = 2
  MaxCalls = 1
  PqSize = 2
  Never = 9
INVARIANTS TypeOK TlbsAgree MissesOnTheirWay OneWalkPerLine
PROPERTIES ImplementsPrefetchBuffer
CHECK_DEADLOCK FALSE
