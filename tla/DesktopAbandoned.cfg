SPECIFICATION Spec
CONSTANTS
  Told <- SomeReports
  Drives = {d1, d2}
  Nothing = Nothing
  MaxMoves = 1
INVARIANTS RulesAreNamed
CHECK_DEADLOCK FALSE
