SPECIFICATION FairSpec
CONSTANTS
  a1 = a1
  a2 = a2
  a3 = a3
  p1 = p1
  b1 = b1
  b2 = b2
  NoAddr = NoAddr
  DataAddrs <- MCData
  PtwAddrs <- MCPtw
  Banks <- MCBanks
  BankOf <- MCBankOf
  RowOf <- MCRowOf
  NoRow = 99
  RqSize = 2
  WqSize = 3
  HighWm = 3
  LowWm = 2
  RowMissCycles = 1
  CasCycles = 2
  ReturnTime = 2
  TurnAround = 2
  MaxArrivals = 5
INVARIANTS TypeOK BankBinding ReadsAwaited
PROPERTIES BusRespected Drains
