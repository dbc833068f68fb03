SPECIFICATION FairSpec
CONSTANTS
    LastStage = 1
    CoreStages <- StrapCore
    UpperStage <- StrapUpper
    Motors <- StrapMotors
    Devices <- StrapDevices
    StageOf <- StrapStageOf
    Assembly <- StrapStageOf
    BurnTime <- StrapBurnTime
    TimePoints <- StrapTimePoints
    Designs <- StrapDesigns
    Plugged = Plugged
    None = None
    MaxTime = 7
    MaxAltitude = 2
    StepSizes = {1, 2}
    MinStep = 2
    Troubles = {"ACTIVE_LENGTH_ZERO", "NO_CP", "ACTIVE_MASS_ZERO", "TUMBLE", "EXCEPTION"}
    Vetoed = {"IGNITION", "STAGE_SEPARATION"}
INVARIANTS
    StagesFlyOnce
PROPERTIES
    FlightEnds
