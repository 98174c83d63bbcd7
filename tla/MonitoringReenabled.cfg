CONSTANTS
  o1 = o1
  o2 = o2
  o3 = o3
  p1 = p1
  p2 = p2
  v1 = v1
  v2 = v2
  None = None
  Objects = {o1}
  Paths = {p1}
  Volumes = {v1}
  Home <- MCHome
  Vol <- MCVol
  Sacl0 <- MCSacl
  Policy0 <- MCPolicy
  Names0 <- MCNames
  Modes = {"markers"}
  Gaps = {"reenabled"}
  MaxEvents = 2
SPECIFICATION Spec
CHECK_DEADLOCK FALSE
INVARIANTS
  PolicyIsJournalled
