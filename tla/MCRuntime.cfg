SPECIFICATION FairSpec
CONSTANTS
  MeterCapacity = 2
  GyCapacity = 2
  RecordCapacity = 2
  MeterBatch = 1
  WantsFile = TRUE
  MaxStarts = 2
  MaxInputs = 4
INVARIANTS NothingLost StopSettles FinalCounters
PROPERTY StopReturns
CHECK_DEADLOCK FALSE
