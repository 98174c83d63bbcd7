SPECIFICATION Spec
CONSTANTS
  Files = {A, B}
  Objects = {o1}
  Keys = {k1}
  Irps = {i1, i2}
  None = None
  NameMax = 1
  PendingMax = 1
  ParkedMax = 1
  ShareMax = 1
  MaxReads = 2
  MaxOpens = 2
  MaxMissed = 1
INVARIANTS TypeOK NamesAreTrue OutcomesAreTrue ReadsAreAccounted
SYMMETRY Interchangeable
CHECK_DEADLOCK FALSE
