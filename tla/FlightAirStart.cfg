SPECIFICATION FairSpec
CONSTANTS
    LastStage = 1
    CoreStages <- StrapCore
    UpperStage <- StrapUpper
    Motors <- StrapMotors
    Devices <- StrapDevices
    StageOf <- StrapStageOf
    Assembly <- StrapStageOf
    BurnTime <- StrapBurnTime
    TimePoints <- StrapTimePoints
    Designs <- AirStartOnly
    Plugged = Plugged
    None = None
    MaxTime = 9
    MaxAltitude = 2
    StepSizes = {1}
    MinStep = 1
    Troubles = {}
    Vetoed = {}
INVARIANTS
    BurnsOutOnce
