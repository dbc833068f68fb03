SPECIFICATION MCSpec
CONSTANTS
  core1 = core1
  core2 = core2
  booster1 = booster1
  c1 = c1
  c2 = c2
  o1 = o1
  o2 = o2
  Core = {core1, core2}
  Booster = {booster1}
  Configuration = {c1, c2}
  Option = {o1, o2}
  Root = Root
  Default = Default
  Zero = Zero
  None = None
  Invalid = Invalid
  InitialTree <- MCTree
  MaxSteps = 2
INVARIANTS
  TypeOK
  ConfigurationsFollowTree
  ActivenessIsKept
  UpToDateIsCurrent
  SimulationsHaveTheirConfiguration
CHECK_DEADLOCK FALSE
