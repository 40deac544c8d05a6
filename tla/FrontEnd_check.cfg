SPECIFICATION FairSpec
CONSTANTS
  Programs <- MCPrograms
  IFETCH_SIZE = 3
  DECODE_SIZE = 2
  ROB_SIZE = 2
INVARIANTS TypeOK InProgramOrder NothingWaitsInVain
PROPERTY AllRetire
CHECK_DEADLOCK FALSE
