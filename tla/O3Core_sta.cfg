SPECIFICATION Spec
CONSTANTS
  Programs <- MCStores
  ROB_SIZE = 2
  LQ_SIZE = 2
  SQ_SIZE = 2
  STA_SIZE = 4
  SCHEDULER_SIZE = 2
  FRONT_END = 2
  WQ_SIZE = 2
INVARIANTS SanityCheckHolds
CHECK_DEADLOCK FALSE
