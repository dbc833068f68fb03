SPECIFICATION MCSpec
CONSTANTS
  f1 = f1
  t1 = t1
  w1 = w1
  w2 = w2
  decal1 = decal1
  decal2 = decal2
  Nothing = Nothing
  NoWindow = NoWindow
  File = {f1}
  TempName = {t1}
  Window = {w1, w2}
  MaxWork = 2
  MaxEvents = 2
  MaxCrashes = 1
  FilesAtOnce = 1
  Decals <- MCDecals
  Content <- MCContent
INVARIANTS
  TypeOK
  WorkIsKept
  WindowsOutliveTheirCalls
  FlagsFollowCalls
PROPERTIES
  ImplementsStore
  OnlyTheRenameReplaces
  OperationsEnd
CHECK_DEADLOCK FALSE
