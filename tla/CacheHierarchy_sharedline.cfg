SPECIFICATION FairSpec
CONSTANTS
  lx = lx
  la = la
  lb = lb
  NoLine = NoLine
  CodeLines <- MCShared
  DataLines <- MCShared
  Ways <- MCSmallWays
  MshrSize <- MCSmallMshr
  RqSize <- MCSmallRq
  WqSize <- MCWq
  PqSize <- MCPq
  Prefetches <- MCSharedPrefetches
  MaxRequests = 3
PROPERTY DemandsComplete
CHECK_DEADLOCK FALSE
