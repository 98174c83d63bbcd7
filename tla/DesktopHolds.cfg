SPECIFICATION FairSpec
CONSTANTS
  Told <- SomeReports
  Drives = {d1}
  Nothing = Nothing
  MaxMoves = 2
INVARIANTS TypeOK RulesAreNamed
PROPERTIES InstallationStays NothingIsLeftRunning StatesReachTheWindow CommandsEnd DrivesAreAskedFor
CHECK_DEADLOCK FALSE
