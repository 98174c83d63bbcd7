SPECIFICATION FairSpec
CONSTANTS
  RawMax = 1
  EventsMax = 1
  MaxReads = 3
  MaxProcs = 2
  Excluded = {1}
INVARIANTS TypeOK NothingElseIsSilent NobodyIsBlamed
PROPERTIES GapsReachTheLog StopReturns
CHECK_DEADLOCK FALSE
