SPECIFICATION FairSpec
CONSTANTS
  Programs <- MCPrograms
  ROB_SIZE = 3
  LQ_SIZE = 2
  SQ_SIZE = 2
  STA_SIZE = 4
  SCHEDULER_SIZE = 3
  FRONT_END = 2
  WQ_SIZE = 2
INVARIANTS TypeOK BookkeepingExact StoresInProgramOrder
PROPERTIES ImplementsDataflow AllRetire
CHECK_DEADLOCK FALSE
