SPECIFICATION Spec
CONSTANTS
  Designs = {d1, d2}
  Settings = {s1}
  Results = {r1}
  Descriptions = {edit, paste}
  NoDescription = NoDescription
  UndoLevels = 2
  UndoMargin = 2
  MaxSimulations = 0
  SilentSources = {}
  EventSlots = FALSE
  MaxModId = 5
  MaxHistory = 5
  d1 = d1
  d2 = d2
  s1 = s1
  r1 = r1
  edit = edit
  paste = paste
CONSTRAINT WithinBounds
SYMMETRY ValueSymmetry
INVARIANTS
  TypeOK
  StepIsLabelled
  SavedIsUnchanged
PROPERTIES
  PurgeKeepsLevels
  UndoKeepsWork
