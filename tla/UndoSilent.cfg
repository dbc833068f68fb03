SPECIFICATION Spec
CONSTANTS
  Designs = {d1, d2}
  Settings = {s1, s2}
  Results = {r1}
  Descriptions = {edit}
  NoDescription = NoDescription
  UndoLevels = 1
  UndoMargin = 1
  MaxSimulations = 2
  SilentSources = {"options"}
  EventSlots = FALSE
  MaxModId = 2
  MaxHistory = 2
  d1 = d1
  d2 = d2
  s1 = s1
  s2 = s2
  r1 = r1
  edit = edit
CONSTRAINT WithinBounds
SYMMETRY ValueSymmetry
INVARIANTS
  SavedButForSilent
