SPECIFICATION Spec
CONSTANTS
  Pages <- MCPages
  TagSpan = 4
  Continuations <- MCContinuations
  Period = 6
  MaxMisses = 24
  Warmup = 18
  HLen <- MCHLen
  MaxHist = 3
  Rows = {0, 1, 2}
  Ways = {0, 1, 2}
  Row <- MCRow
  Tag <- MCTag
  ConfMax = 2
  UReset = 3
  Slots <- MCSlots
  Sets <- MCSets
  Assoc <- MCAssoc
  Hash <- MCHash
  ConfLimit = 2
  ResetFreq = 7
  LineEntries = 4
  EnableFp = FALSE
  EnablePrefFp = TRUE
INVARIANTS TypeOK ContextsUnique TrainedByOccurrence Learns EntriesTrue
PROPERTY SuccessorsKept
CHECK_DEADLOCK FALSE
