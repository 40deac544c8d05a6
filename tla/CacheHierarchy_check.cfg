SPECIFICATION FairSpec
CONSTANTS
  lx = lx
  la = la
  lb = lb
  NoLine = NoLine
  CodeLines <- MCCode
  DataLines <- MCData
  Ways <- MCWays
  MshrSize <- MCMshr
  RqSize <- MCRq
  WqSize <- MCWq
  PqSize <- MCPq
  Prefetches <- MCPrefetches
  MaxRequests = 4
INVARIANTS TypeOK EachMissAnsweredOnce OneCopyPerL1
PROPERTY ModifiedHandedDown DemandsComplete
CHECK_DEADLOCK FALSE
