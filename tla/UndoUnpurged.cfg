SPECIFICATION Spec
CONSTANTS
  Designs = {d1}
  Settings = {s1}
  Results = {r1}
  Descriptions = {edit}
  NoDescription = NoDescription
  UndoLevels = 1
  UndoMargin = 1
  MaxSimulations = 0
  SilentSources = {}
  EventSlots = FALSE
  MaxModId = 9
  MaxHistory = 9
  d1 = d1
  s1 = s1
  r1 = r1
  edit = edit
CONSTRAINT WithinBounds
SYMMETRY ValueSymmetry
INVARIANTS
  LevelsArePurged
