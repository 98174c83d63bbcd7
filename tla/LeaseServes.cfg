SPECIFICATION FairSpec
CONSTANTS
  Clients = {c1, c2}
  None = None
  MaxCut = 1
  MaxFired = 1
INVARIANTS TypeOK CountersAreTrue
PROPERTIES ImplementsSession AbandonedStops
CHECK_DEADLOCK FALSE
