SPECIFICATION Spec
CONSTANTS
  Designs = {d1, d2}
  Settings = {s1, s2}
  Results = {r1}
  Descriptions = {edit}
  NoDescription = NoDescription
  UndoLevels = 1
  UndoMargin = 1
  MaxSimulations = 1
  SilentSources = {"options", "extensions"}
  EventSlots = TRUE
  MaxModId = 2
  MaxHistory = 3
  d1 = d1
  d2 = d2
  s1 = s1
  s2 = s2
  r1 = r1
  edit = edit
CONSTRAINT WithinBounds
SYMMETRY ValueSymmetry
INVARIANTS
  CleanIsUnchanged
PROPERTIES
  UndoneIsReachable
