SPECIFICATION FairSpec
CONSTANTS
    LastStage = 2
    CoreStages <- StackCore
    UpperStage <- StackUpper
    Motors <- StackMotors
    Devices <- StackDevices
    StageOf <- StackStageOf
    Assembly <- StackStageOf
    BurnTime <- StackBurnTime
    TimePoints <- StackTimePoints
    Designs <- StackDesigns
    Plugged = Plugged
    None = None
    MaxTime = 12
    MaxAltitude = 2
    StepSizes = {1, 2, 3}
    MinStep = 2
    Troubles = {}
    Vetoed = {}
INVARIANTS
    TypeOK
    EventsAttached
    MotorEventsInOrder
    DeploymentsRemembered
    SeparationsRemembered
    SeparationFirst
    HappensOnce
PROPERTIES
    WaitingMotorsUntouched
    DeploysOnce
    StagesSplitOnly
    FlightEnds
