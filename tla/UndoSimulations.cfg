SPECIFICATION Spec
CONSTANTS
  Designs = {d1}
  Settings = {s1, s2}
  Results = {r1}
  Descriptions = {edit}
  NoDescription = NoDescription
  UndoLevels = 1
  UndoMargin = 1
  MaxSimulations = 2
  SilentSources = {}
  EventSlots = FALSE
  MaxModId = 1
  MaxHistory = 3
  d1 = d1
  s1 = s1
  s2 = s2
  r1 = r1
  edit = edit
CONSTRAINT WithinBounds
SYMMETRY ValueSymmetry
INVARIANTS
  NoRedoWhileDirty
PROPERTIES
  ImplementsTimeline
