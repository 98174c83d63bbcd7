CONSTANTS
  vc = vc
  vd = vd
  vx = vx
  a = a
  f = f
  b = b
  j = j
  s = s
  old = old
  fresh = fresh
  g = g
  x = x
  None = None
  New = New
  Dead = Dead
  Volumes = {vc, vd, vx}
  Letters = {"C", "D"}
  Things = {a, f, b, j, s, old, fresh, g, x}
  Names = {"a", "b", "f", "g", "j", "l", "s", "z"}
  Kind <- MCKind
  Vol <- MCVol
  Leads <- MCLeads
  Allowed <- MCAllowed
  Format <- MCFormat
  Removable = {vd, vx}
  Place0 <- MCPlace
  Letter0 <- MCLetter
  Spots <- MCSpots
  Folders <- MCFolders
  Log <- MCLog
  MaxEvents = 4
SPECIFICATION Spec
INVARIANTS
  TypeOK
  OnlyTheOwners
  SecondHandleIsTheFirst
  EveryFolderAnswered
  ChoiceAndBindAgree
  RulesCover
  NothingStaysOpen
PROPERTIES
  AdmittedWhereItStands
  WatchedStayWhereTheyAre
