SPECIFICATION FairSpec
CONSTANTS
  RawMax = 1
  EventsMax = 1
  MaxReads = 3
  MaxProcs = 2
  Excluded = {1}
PROPERTY StartReturns
CHECK_DEADLOCK FALSE
