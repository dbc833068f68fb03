---------------------------- MODULE FlightEngine ----------------------------
(***************************************************************************)
(* The event loop of a flight simulation (BasicEventSimulationEngine.cpp,  *)
(* SimulationStatus.cpp, FlightEventActivation.cpp, MotorClusterState.cpp  *)
(* of src/src).                                                            *)
(*                                                                         *)
(* A flight is simulated branch by branch.  A branch has a status: the     *)
(* stages it still carries, the time, the altitude, the flags, the         *)
(* deployed recovery devices and a queue of flight events.  The loop       *)
(* handles every event that is due, takes one integration step, queues     *)
(* what the step brought about, and starts again.  Handling an event may   *)
(* queue ignitions, separations and deployments, and a separation splits   *)
(* the status in two: the engine flies on with the upper stages and keeps  *)
(* the booster's status on a stack.  The motor states are shared by all    *)
(* the statuses of a flight.                                               *)
(*                                                                         *)
(* The physics is abstracted to its outcome: a step takes some time and    *)
(* moves the rocket by at most one level of altitude.  One unit of time    *)
(* stands for the millisecond below which the code does not go.            *)
(***************************************************************************)
EXTENDS Integers, Sequences, FiniteSets, Bags

CONSTANTS
    LastStage,     \* the stages are numbered 0 (the sustainer) to LastStage
    CoreStages,    \* the stages that are children of the rocket
    UpperStage,    \* stage |-> the stage it is attached to (-1: none)
    Motors,        \* the motor clusters, each in a mount of its own
    Devices,       \* the recovery devices
    StageOf,       \* motor or device |-> number of its stage
    Assembly,      \* motor or device |-> the airframe assembly it sits in
    BurnTime,      \* motor |-> duration of its thrust curve
    TimePoints,    \* motor |-> times of the points of its thrust curve
    Designs,       \* the flight configurations to simulate
    Plugged,       \* the ejection delay of a motor without ejection charge
    None,          \* "no motor or device", "no altitude change"
    MaxTime,       \* the maximum simulation time
    MaxAltitude,   \* bound of the abstract altitude
    StepSizes,     \* durations a flight step can take
    MinStep,       \* the step below which the Runge-Kutta steppers do not go
    Troubles,      \* what the calculators may find wrong in this flight
    Vetoed         \* event types a simulation listener may refuse

Stages == 0..LastStage
RocketStage == -1            \* Rocket::getStageNumber()
NoStage == LastStage + 1     \* no source: ordered before every stage

IgnitionEvents == {"AUTOMATIC", "LAUNCH", "EJECTION_CHARGE", "BURNOUT", "NEVER"}
SeparationEvents == {"LAUNCH", "IGNITION", "BURNOUT", "EJECTION", "UPPER_IGNITION",
                     "ALTITUDE_ASCENDING", "APOGEE", "ALTITUDE_DESCENDING", "NEVER"}
DeployEvents == {"LAUNCH", "EJECTION", "APOGEE", "ALTITUDE",
                 "LOWER_STAGE_SEPARATION", "NEVER"}

(* A flight configuration: which stages it flies with, and what sets off   *)
(* each motor, each stage and each recovery device.                        *)
DesignType == [active : SUBSET Stages,
               ignition : [Motors -> IgnitionEvents],
               ignitionDelay : [Motors -> Nat],
               ejectionDelay : [Motors -> Nat \cup {Plugged}],
               separation : [Stages -> SeparationEvents],
               separationDelay : [Stages -> Nat],
               separationAltitude : [Stages -> Nat],
               deployment : [Devices -> DeployEvents],
               deployDelay : [Devices -> Nat],
               deployAltitude : [Devices -> Nat]]

ASSUME StagesAssumption ==
    /\ LastStage \in Nat
    /\ CoreStages \subseteq Stages
    /\ UpperStage \in [Stages -> Stages \cup {-1}]

ASSUME PartsAssumption ==
    /\ StageOf \in [Motors \cup Devices -> Stages]
    /\ DOMAIN Assembly = Motors \cup Devices
    /\ \A c, d \in Motors \cup Devices :
          Assembly[c] = Assembly[d] => StageOf[c] = StageOf[d]
    /\ BurnTime \in [Motors -> Nat]
    /\ TimePoints \in [Motors -> SUBSET Nat]

ASSUME DesignsAssumption ==
    /\ Designs \subseteq DesignType
    /\ Plugged \notin Nat

ASSUME NoneAssumption ==
    None \notin Nat

ASSUME BoundsAssumption ==
    /\ MaxTime \in Nat
    /\ MaxAltitude \in Nat
    /\ StepSizes \subseteq Nat \ {0}
    /\ MinStep \in Nat
    /\ 1 \in StepSizes

VARIABLES
    design,        \* the flight configuration that is simulated
    pc,            \* where the engine is
    ret,           \* handleEvents: whether the branch goes on
    status,        \* m_currentStatus
    toSimulate,    \* m_toSimulate: the stack of separated statuses
    motors,        \* the shared motor states
    flown          \* m_flightData: the branches that have ended

vars == <<design, pc, ret, status, toSimulate, motors, flown>>

-----------------------------------------------------------------------------
(* Flight events and their order.                                          *)

Ordinal == [LAUNCH |-> 0, IGNITION |-> 1, LIFTOFF |-> 2, LAUNCHROD |-> 3,
            BURNOUT |-> 4, EJECTION_CHARGE |-> 5, STAGE_SEPARATION |-> 6,
            APOGEE |-> 7, RECOVERY_DEVICE_DEPLOYMENT |-> 8, GROUND_HIT |-> 9,
            SIMULATION_END |-> 10, ALTITUDE |-> 11, TUMBLE |-> 12, SIM_ABORT |-> 14]

EventTypes == DOMAIN Ordinal

(* stage: the stage number of the source; item: the motor or the device the *)
(* event is about; change: the altitudes an ALTITUDE event spans.           *)
EventType == [type : EventTypes, time : Nat, stage : RocketStage..NoStage,
              item : Motors \cup Devices \cup {None},
              change : (Nat \X Nat) \cup {None}]

FlightEvent(type, time, stage, item) ==
    [type |-> type, time |-> time, stage |-> stage, item |-> item, change |-> None]

(* compareTo: earlier first, then no source, then the bigger stage number,  *)
(* then the order of the types.                                             *)
Before(e, f) ==
    \/ e.time < f.time
    \/ e.time = f.time /\ e.stage > f.stage
    \/ e.time = f.time /\ e.stage = f.stage /\ Ordinal[e.type] < Ordinal[f.type]

Add(s, events) == [s EXCEPT !.queue = @ (+) SetToBag(events)]

(* n equal events at once, none for n = 0.                                  *)
AddCopies(s, e, n) == [s EXCEPT !.queue = @ (+) [x \in (IF n = 0 THEN {} ELSE {e}) |-> n]]

Abort(s) == FlightEvent("SIM_ABORT", s.time, NoStage, None)

-----------------------------------------------------------------------------
(* The status of a branch.                                                  *)

Below == -1     \* a maximum altitude under every altitude (minus infinity)

StatusOK(s) ==
    /\ s = [active |-> s.active, time |-> s.time, z |-> s.z, maxAlt |-> s.maxAlt,
            motorIgnited |-> s.motorIgnited, liftoff |-> s.liftoff,
            launchRodCleared |-> s.launchRodCleared, apogeeReached |-> s.apogeeReached,
            tumbling |-> s.tumbling, landed |-> s.landed,
            deployed |-> s.deployed, queue |-> s.queue]
    /\ s.active \subseteq Stages /\ s.deployed \subseteq Devices
    /\ s.time \in Nat /\ s.z \in 0..MaxAltitude /\ s.maxAlt \in Below..MaxAltitude
    /\ {s.motorIgnited, s.liftoff, s.launchRodCleared,
        s.apogeeReached, s.tumbling, s.landed} \subseteq BOOLEAN
    /\ IsABag(s.queue) /\ BagToSet(s.queue) \subseteq EventType

IsStageActive(s, n) == n = -1 \/ n \in s.active

ActiveMotors(s) == {m \in Motors : IsStageActive(s, StageOf[m])}

(* isAttached: no source, the rocket itself, or a component of a stage the  *)
(* branch still has.                                                        *)
IsAttached(active, e) == e.stage \in {NoStage, RocketStage} \cup active

RemoveUnattached(queue, active) ==
    [e \in {x \in BagToSet(queue) : IsAttached(active, x)} |-> queue[e]]

\* Mutants: the events of the stages that leave are kept; none is kept.
KeptWithAllEvents(s, active) == [s EXCEPT !.active = active]
KeptWithoutEvents(s, active) == [s EXCEPT !.active = active, !.queue = EmptyBag]

Kept(s, active) ==
    [s EXCEPT !.active = active, !.queue = RemoveUnattached(@, active)]

ThrustStates == {"ARMED", "THRUSTING", "DELAYING", "SPENT"}

MotorType == [state : ThrustStates, ignitionTime : Nat \cup {None}]

HasEjectionCharge(m) == design.ejectionDelay[m] # Plugged

Ignite(motor, time) ==
    IF motor.state = "ARMED" THEN [state |-> "THRUSTING", ignitionTime |-> time] ELSE motor

\* Mutant: the motor goes on thrusting.
BurnOutIgnored(motor, charge) == motor

BurnOut(motor, charge) ==
    [motor EXCEPT !.state = IF ~charge THEN "SPENT"
                            ELSE IF @ = "THRUSTING" THEN "DELAYING" ELSE @]

Expend(motor) == [motor EXCEPT !.state = IF @ = "DELAYING" THEN "SPENT" ELSE @]

-----------------------------------------------------------------------------
(* What an event sets off (FlightEventActivation.cpp).                      *)

Ascends(e, alt) == e.type = "ALTITUDE" /\ e.change # None
                   /\ e.change[1] <= alt /\ e.change[2] >= alt
Descends(e, alt) == e.type = "ALTITUDE" /\ e.change # None
                    /\ e.change[1] >= alt /\ e.change[2] <= alt

(* The bottom core stage the branch still has is its launch stage.          *)
IsLaunchStage(s, n) == n \in CoreStages /\ n \in s.active
                       /\ \A k \in CoreStages \cap s.active : k <= n

IsFromStageBelow(e, n) == e.stage \in Stages /\ UpperStage[e.stage] = n

Ignites(s, e, m) ==
    LET rule == design.ignition[m]
        atLaunch == rule = "AUTOMATIC" /\ IsLaunchStage(s, StageOf[m])
        atEjection == rule = "AUTOMATIC" /\ ~IsLaunchStage(s, StageOf[m])
    IN \/ (rule = "LAUNCH" \/ atLaunch) /\ e.type = "LAUNCH"
       \/ (rule = "EJECTION_CHARGE" \/ atEjection)
          /\ e.type = "EJECTION_CHARGE" /\ IsFromStageBelow(e, StageOf[m])
       \/ rule = "BURNOUT" /\ e.type = "BURNOUT" /\ IsFromStageBelow(e, StageOf[m])

Separates(e, n) ==
    LET rule == design.separation[n]
    IN \/ rule \in {"LAUNCH", "APOGEE"} /\ e.type = rule
       \/ rule \in {"IGNITION", "BURNOUT"} /\ e.type = rule /\ e.stage = n
       \/ rule = "EJECTION" /\ e.type = "EJECTION_CHARGE" /\ e.stage = n
       \/ rule = "UPPER_IGNITION" /\ e.type = "IGNITION" /\ n = e.stage + 1
       \/ rule = "ALTITUDE_ASCENDING" /\ Ascends(e, design.separationAltitude[n])
       \/ rule = "ALTITUDE_DESCENDING" /\ Descends(e, design.separationAltitude[n])

Deploys(e, d) ==
    LET rule == design.deployment[d]
    IN \/ rule \in {"LAUNCH", "APOGEE"} /\ e.type = rule
       \/ rule = "EJECTION" /\ e.type = "EJECTION_CHARGE" /\ Assembly[e.item] = Assembly[d]
       \/ rule = "ALTITUDE" /\ Descends(e, design.deployAltitude[d])
       \/ rule = "LOWER_STAGE_SEPARATION"
          /\ e.type = "STAGE_SEPARATION" /\ StageOf[d] + 1 = e.stage

QueueIgnitions(s, e) ==
    Add(s, {FlightEvent("IGNITION", s.time + design.ignitionDelay[m], StageOf[m], m) :
              m \in {x \in ActiveMotors(s) : Ignites(s, e, x)}})

\* Mutant: the first stage that can separate is skipped.
QueueSeparationsFrom2(s, e) ==
    Add(s, {FlightEvent("STAGE_SEPARATION", e.time + design.separationDelay[n], n, None) :
              n \in {x \in s.active \ {0, 1} : Separates(e, x)}})

QueueSeparations(s, e) ==
    Add(s, {FlightEvent("STAGE_SEPARATION", e.time + design.separationDelay[n], n, None) :
              n \in {x \in s.active \ {0} : Separates(e, x)}})

(* A deployment is queued at least a millisecond after what sets it off.    *)
\* Mutant: the configured delay as it is.
AsConfigured(delay) == delay

AtLeastOne(delay) == IF delay < 1 THEN 1 ELSE delay

QueueDeployments(s, e) ==
    Add(s, {FlightEvent("RECOVERY_DEVICE_DEPLOYMENT",
                        e.time + AtLeastOne(design.deployDelay[d]), StageOf[d], d) :
              d \in {x \in Devices \ s.deployed :
                       IsStageActive(s, StageOf[x]) /\ Deploys(e, x)}})

-----------------------------------------------------------------------------
(* Taking the next event, and the outcome of the geometry check.            *)

Firsts(queue) == {e \in BagToSet(queue) : \A f \in BagToSet(queue) : ~Before(f, e)}

(* Which of several equal events comes first is left open.  Until a motor   *)
(* has ignited the time jumps to the next event, which is therefore due.    *)
Due(s) == {e \in Firsts(s.queue) : s.motorIgnited => e.time <= s.time}

Poll(s, e) ==
    [s EXCEPT !.time = IF ~s.motorIgnited /\ e.time > @ THEN e.time ELSE @,
              !.queue = @ (-) SetToBag({e})]

Triggered(s, e) == QueueDeployments(QueueSeparations(QueueIgnitions(Poll(s, e), e), e), e)

(* What checkGeometry may find, for a status that is about to be flown.     *)
Geometries == SUBSET (Troubles \cap {"ACTIVE_LENGTH_ZERO", "NO_CP"})

CheckGeometry(s, found) ==
    LET s1 == IF "ACTIVE_LENGTH_ZERO" \in found THEN Add(s, {Abort(s)}) ELSE s
    IN IF "NO_CP" \notin found THEN s1
       ELSE IF 0 \in s.active THEN Add(s1, {Abort(s)})
       ELSE Add(s1, {FlightEvent("TUMBLE", s.time, NoStage, None)})

-----------------------------------------------------------------------------
(* simulate: the first status, with its sanity checks, and the LAUNCH.      *)

FirstStatus(d) ==
    LET s == [active |-> d.active, time |-> 0, z |-> 0, maxAlt |-> Below,
              motorIgnited |-> FALSE, liftoff |-> FALSE, launchRodCleared |-> FALSE,
              apogeeReached |-> FALSE, tumbling |-> FALSE, landed |-> FALSE,
              deployed |-> {}, queue |-> EmptyBag]
        noStage == IF d.active = {} THEN 1 ELSE 0
        noMotor == IF ActiveMotors(s) = {} THEN 1 ELSE 0
    IN Add(AddCopies(s, Abort(s), noStage + noMotor),
           {FlightEvent("LAUNCH", 0, RocketStage, None)})

Init == /\ design \in Designs
        /\ pc = "branch"
        /\ ret = TRUE
        /\ status = FirstStatus(design)
        /\ toSimulate = <<FirstStatus(design)>>
        /\ motors = [m \in Motors |-> [state |-> "ARMED", ignitionTime |-> None]]
        /\ flown = <<>>

(* simulateBranch: the last status put on the stack is the next branch.     *)
StartBranch ==
    /\ pc = "branch" /\ toSimulate # <<>>
    /\ \E found \in Geometries : status' = CheckGeometry(Head(toSimulate), found)
    /\ toSimulate' = Tail(toSimulate)
    /\ pc' = "events"
    /\ ret' = TRUE
    /\ UNCHANGED <<design, motors, flown>>

EndSimulation ==
    /\ pc = "branch" /\ toSimulate = <<>>
    /\ pc' = "done"
    /\ UNCHANGED <<design, ret, status, toSimulate, motors, flown>>

-----------------------------------------------------------------------------
(* handleEvents: one action for each kind of event.                         *)

(* The next event e, of one of the types, which no listener refuses.        *)
Taken(types, e) ==
    /\ pc = "events"
    /\ e \in Due(status)
    /\ e.type \in types

(* A listener refuses the event: only the ignitions it sets off are queued. *)
HandleVetoed ==
    /\ \E e \in Due(status) :
          /\ Taken(Vetoed, e)
          /\ status' = QueueIgnitions(Poll(status, e), e)
    /\ UNCHANGED <<design, pc, ret, toSimulate, motors, flown>>

HandleFlag ==
    /\ \E e \in Due(status) :
          /\ Taken({"LAUNCH", "ALTITUDE", "LIFTOFF", "LAUNCHROD", "APOGEE"}, e)
          /\ status' = [Triggered(status, e) EXCEPT
                           !.liftoff = @ \/ e.type = "LIFTOFF",
                           !.launchRodCleared = @ \/ e.type = "LAUNCHROD",
                           !.apogeeReached = @ \/ e.type = "APOGEE"]
    /\ UNCHANGED <<design, pc, ret, toSimulate, motors, flown>>

(* An ignition of a motor that was lit earlier is ignored.                  *)
IsLate(s, m) == motors[m].ignitionTime # None /\ motors[m].ignitionTime < s.time

HandleIgnition ==
    /\ \E e \in Due(status) :
          /\ Taken({"IGNITION"}, e)
          /\ LET s == Triggered(status, e)
                 m == e.item
             IN IF IsLate(s, m)
                THEN status' = s /\ UNCHANGED motors
                ELSE /\ motors' = [motors EXCEPT ![m] = Ignite(@, e.time)]
                     /\ status' = Add([s EXCEPT !.motorIgnited = TRUE],
                          {FlightEvent("ALTITUDE", t, e.stage, None) : t \in TimePoints[m]}
                          \cup {FlightEvent("BURNOUT", s.time + BurnTime[m], e.stage, m)})
    /\ UNCHANGED <<design, pc, ret, toSimulate, flown>>

HandleBurnout ==
    /\ \E e \in Due(status) :
          /\ Taken({"BURNOUT"}, e)
          /\ LET s == Triggered(status, e)
                 m == e.item
                 charge == HasEjectionCharge(m)
             IN /\ motors' = [motors EXCEPT ![m] = BurnOut(@, charge)]
                /\ status' = Add(s, (IF s.liftoff THEN {} ELSE {Abort(s)})
                     \cup (IF ~charge THEN {}
                           ELSE {FlightEvent("EJECTION_CHARGE",
                                             s.time + design.ejectionDelay[m], StageOf[m], m)}))
    /\ UNCHANGED <<design, pc, ret, toSimulate, flown>>

HandleEjectionCharge ==
    /\ \E e \in Due(status) :
          /\ Taken({"EJECTION_CHARGE"}, e)
          /\ motors' = [motors EXCEPT ![e.item] = Expend(@)]
          /\ status' = Triggered(status, e)
    /\ UNCHANGED <<design, pc, ret, toSimulate, flown>>

\* Mutants: one stage too many leaves; the booster forgets what is deployed;
\* the booster waits at the wrong end of the stack.
BoosterFromAbove(s, n) == Kept([s EXCEPT !.maxAlt = Below], {k \in s.active : k >= n - 1})
BoosterUndeployed(s, n) ==
    Kept([s EXCEPT !.maxAlt = Below, !.deployed = {}], {k \in s.active : k >= n})
PushLast(stack, s) == Append(stack, s)

(* The booster takes stage n and everything below, the upper stages go on.  *)
Booster(s, n) == Kept([s EXCEPT !.maxAlt = Below], {k \in s.active : k >= n})
UpperPart(s, n) == Kept(s, {k \in s.active : k < n})
Push(stack, s) == <<s>> \o stack

HandleStageSeparation ==
    /\ \E e \in Due(status) :
          /\ Taken({"STAGE_SEPARATION"}, e)
          /\ LET s == Triggered(status, e)
                 n == e.stage
             IN IF ~IsStageActive(s, n - 1)
                THEN status' = s /\ UNCHANGED toSimulate
                ELSE /\ toSimulate' = Push(toSimulate, Booster(s, n))
                     /\ \E found \in Geometries : status' = CheckGeometry(UpperPart(s, n), found)
    /\ UNCHANGED <<design, pc, ret, motors, flown>>

(* Motors of the branch that may still give thrust.                         *)
Burning(s) == {m \in ActiveMotors(s) : motors[m].state = "THRUSTING"}

HandleDeployment ==
    /\ \E e \in Due(status) :
          /\ Taken({"RECOVERY_DEVICE_DEPLOYMENT"}, e)
          /\ LET s == Triggered(status, e)
                 d == e.item
             IN IF ~IsStageActive(s, e.stage) \/ d \in s.deployed
                THEN status' = s
                ELSE \E thrusting \in 0..Cardinality(Burning(s)) :
                        status' = AddCopies([s EXCEPT !.liftoff = TRUE,
                                                      !.deployed = @ \cup {d}],
                                            Abort(s), thrusting)
    /\ UNCHANGED <<design, pc, ret, toSimulate, motors, flown>>

(* The last step on impact may still find that the rocket weighs nothing.   *)
HandleGroundHit ==
    /\ \E e \in Due(status), found \in SUBSET (Troubles \cap {"ACTIVE_MASS_ZERO"}) :
          /\ Taken({"GROUND_HIT"}, e)
          /\ LET s == [Triggered(status, e) EXCEPT !.landed = TRUE]
             IN status' = IF found = {} THEN s ELSE Add(s, {Abort(s)})
    /\ UNCHANGED <<design, pc, ret, toSimulate, motors, flown>>

(* Tumbling is inhibited under a parachute and on the ground, and aborts    *)
(* the branch when the last step had too much thrust.                       *)
HandleTumble ==
    /\ \E e \in Due(status), tooMuchThrust \in BOOLEAN :
          /\ Taken({"TUMBLE"}, e)
          /\ LET s == Triggered(status, e)
             IN status' = IF s.deployed # {} \/ s.landed THEN s
                          ELSE IF tooMuchThrust THEN Add(s, {Abort(s)})
                          ELSE [s EXCEPT !.tumbling = TRUE]
    /\ UNCHANGED <<design, pc, ret, toSimulate, motors, flown>>

(* SIM_ABORT and SIMULATION_END end the branch, once every event that is    *)
(* due has been handled.                                                    *)
HandleEnd ==
    /\ \E e \in Due(status) :
          /\ Taken({"SIM_ABORT", "SIMULATION_END"}, e)
          /\ status' = Triggered(status, e)
    /\ ret' = FALSE
    /\ UNCHANGED <<design, pc, toSimulate, motors, flown>>

(* No event is due: the branch ends, or is given a step.                    *)
EventsHandled ==
    /\ pc = "events" /\ Due(status) = {}
    /\ LET goesOn == ret /\ status.time < MaxTime
           s == IF status.motorIgnited THEN status ELSE Add(status, {Abort(status)})
       IN /\ status' = s
          /\ ret' = goesOn
          /\ pc' = IF goesOn THEN "step" ELSE "branch"
          /\ flown' = IF goesOn THEN flown
                      ELSE Append(flown, [active |-> s.active, deployed |-> s.deployed])
    /\ UNCHANGED <<design, toSimulate, motors>>

-----------------------------------------------------------------------------
(* takeStep and addStepEvents.                                              *)

Wait(s, e) == IF e.time - s.time < 1 THEN 1 ELSE e.time - s.time

(* selectStepper: a Runge-Kutta stepper, unless the branch has landed,      *)
(* tumbles or hangs under a parachute.                                      *)
OnFlightStepper(s) == ~s.landed /\ ~s.tumbling /\ s.deployed = {}

(* How long the step may take: on the ground exactly to the next event, and *)
(* no step at all without one; in flight at most to the next event, but a   *)
(* Runge-Kutta step that is too small is raised "even at the cost of not    *)
(* being *quite* on an event" (computeTimeStep).                            *)
StepTimes(s) ==
    IF s.landed
    THEN IF s.queue = EmptyBag THEN {0} ELSE {Wait(s, e) : e \in Firsts(s.queue)}
    ELSE {dt \in StepSizes : \/ \A e \in Firsts(s.queue) : dt <= Wait(s, e)
                             \/ OnFlightStepper(s) /\ dt <= MinStep}

\* Mutant: the rocket may sink into the ground.
StepAltitudesUnclamped(s) == {s.z - 1, s.z, s.z + 1}

StepAltitudes(s) ==
    IF s.landed THEN {s.z} ELSE {z \in 0..MaxAltitude : z - s.z \in {-1, 0, 1}}

(* What the calculators may report during a step from s.  The tumble        *)
(* detector is silent on the launch rod, under a parachute, on the ground   *)
(* and once the rocket tumbles.                                             *)
StepTroubles(s) ==
    SUBSET (Troubles \cap
              (IF s.landed THEN {}
               ELSE {"ACTIVE_MASS_ZERO"}
                    \cup (IF s.tumbling \/ s.deployed # {} \/ ~s.launchRodCleared
                          THEN {} ELSE {"TUMBLE"})))

When(condition, e) == IF condition THEN {e} ELSE {}

\* Mutant: a rocket that lies on the ground hits it again.
HitsGroundAgain(t) == t.liftoff /\ t.z = 0

HitsGround(t) == t.liftoff /\ t.z = 0 /\ ~t.landed

(* The events of the step from s to t.  Altitude 0 is the ground, and the   *)
(* rocket has left the launch rod on every level above it.                  *)
StepEvents(s, t, found) ==
    When(~t.landed, [FlightEvent("ALTITUDE", t.time, RocketStage, None)
                        EXCEPT !.change = <<s.z, t.z>>])
    \cup When(~t.liftoff /\ t.z > 0, FlightEvent("LIFTOFF", t.time, NoStage, None))
    \cup When(HitsGround(t), FlightEvent("GROUND_HIT", t.time, NoStage, None))
    \cup When(t.liftoff /\ ~t.launchRodCleared /\ t.z > 0,
              FlightEvent("LAUNCHROD", t.time, NoStage, None))
    \cup When(~t.apogeeReached /\ t.z < t.maxAlt,
              FlightEvent("APOGEE", s.time, RocketStage, None))
    \cup When("TUMBLE" \in found, FlightEvent("TUMBLE", t.time, NoStage, None))
    \cup When("ACTIVE_MASS_ZERO" \in found, Abort(s))

\* Mutant: nothing ends a branch at rest.
AddNoEnd(s) == s

(* At rest with nothing left to happen, the simulation of the branch ends.  *)
AddEndWhenIdle(s) ==
    IF s.landed /\ s.queue = EmptyBag
    THEN Add(s, {FlightEvent("SIMULATION_END", s.time, NoStage, None)}) ELSE s

Step ==
    /\ pc = "step"
    /\ \E dt \in StepTimes(status), z \in StepAltitudes(status), found \in StepTroubles(status) :
          LET t == [status EXCEPT !.time = @ + dt, !.z = z,
                                  !.maxAlt = IF z > @ THEN z ELSE @]
          IN status' = AddEndWhenIdle(Add(t, StepEvents(status, t, found)))
    /\ pc' = "events"
    /\ UNCHANGED <<design, ret, toSimulate, motors, flown>>

(* A SimulationException leaves the loop, in a handler or in a step: the    *)
(* run ends, the statuses still on the stack are never simulated.           *)
Fail ==
    /\ pc \in {"events", "step"} /\ "EXCEPTION" \in Troubles
    /\ pc' = "failed"
    /\ UNCHANGED <<design, ret, status, toSimulate, motors, flown>>

(* Nothing moves once the run has ended.                                    *)
Terminated == pc \in {"done", "failed"} /\ UNCHANGED vars

Handle == \/ HandleVetoed \/ HandleFlag \/ HandleIgnition \/ HandleBurnout
          \/ HandleEjectionCharge \/ HandleStageSeparation \/ HandleDeployment
          \/ HandleGroundHit \/ HandleTumble \/ HandleEnd

Next == \/ StartBranch \/ EndSimulation
        \/ Handle \/ EventsHandled
        \/ Step \/ Fail
        \/ Terminated

Spec == Init /\ [][Next]_vars

(* The engine is one loop on one thread: it keeps going.                    *)
FairSpec == Spec /\ WF_vars(Next)

-----------------------------------------------------------------------------
(* Properties.                                                              *)

(* The statuses of the flight: the branch in flight, then the waiting ones. *)
InFlight == pc \in {"events", "step", "failed"}
Statuses == (IF InFlight THEN <<status>> ELSE <<>>) \o toSimulate

(* Every variable has its type.                                             *)
TypeOK ==
    /\ design \in Designs
    /\ pc \in {"branch", "events", "step", "done", "failed"}
    /\ ret \in BOOLEAN
    /\ StatusOK(status)
    /\ \A i \in DOMAIN toSimulate : StatusOK(toSimulate[i])
    /\ motors \in [Motors -> MotorType]
    /\ \A i \in DOMAIN flown : flown[i].active \subseteq Stages
                               /\ flown[i].deployed \subseteq Devices

(* removeUnattachedEvents: no branch ever has an event in its queue whose   *)
(* source has left it with another branch.                                  *)
EventsAttached ==
    \A i \in DOMAIN Statuses : \A e \in BagToSet(Statuses[i].queue) :
        IsAttached(Statuses[i].active, e)

(* The motor states are shared by every status ("igniting one ignites it    *)
(* for every status that holds it", SimulationStatus.h), yet the branch in  *)
(* flight leaves the motors of the waiting branches as they were when those *)
(* separated.                                                               *)
WaitingMotorsUntouched ==
    [][\A i \in DOMAIN toSimulate : \A m \in ActiveMotors(toSimulate[i]) :
          motors'[m] = motors[m]]_vars

(* A motor burns out after it was lit and fires its charge after it burned  *)
(* out, on whichever branch its stage ends up.                              *)
MotorEventsInOrder ==
    \A i \in DOMAIN Statuses : \A e \in BagToSet(Statuses[i].queue) :
       /\ e.type = "BURNOUT" =>
             /\ motors[e.item].ignitionTime # None
             /\ e.time >= motors[e.item].ignitionTime + BurnTime[e.item]
       /\ e.type = "EJECTION_CHARGE" => motors[e.item].state \in {"DELAYING", "SPENT"}

(* A recovery device opens at most once in a flight: never in two branches  *)
(* and never again in the branch it opened in, however many charges,        *)
(* separations and altitudes set it off.                                    *)
DeploysOnce ==
    [][pc = "events" =>
         \A d \in status'.deployed \ status.deployed :
            /\ IsStageActive(status, StageOf[d])
            /\ \A i \in DOMAIN toSimulate : d \notin toSimulate[i].deployed
            /\ \A i \in DOMAIN flown : d \notin flown[i].deployed]_vars

DeploymentPending(s, d) ==
    \E e \in BagToSet(s.queue) : e.type = "RECOVERY_DEVICE_DEPLOYMENT" /\ e.item = d

SeparationPending(s, n) ==
    \E e \in BagToSet(s.queue) : e.type = "STAGE_SEPARATION" /\ e.stage = n

(* What set the device d off has happened to the branch s.                  *)
SetOff(s, d) ==
    \/ design.deployment[d] = "APOGEE" /\ s.apogeeReached
    \/ design.deployment[d] = "EJECTION"
       /\ \E m \in Motors : /\ Assembly[m] = Assembly[d]
                            /\ motors[m].state = "SPENT" /\ HasEjectionCharge(m)

(* A device that was set off is open or will be: a separation, an abort or  *)
(* a landing in between does not make the branch forget it.                 *)
DeploymentsRemembered ==
    \A i \in DOMAIN Statuses : \A d \in Devices :
        LET s == Statuses[i]
        IN SetOff(s, d) /\ StageOf[d] \in s.active =>
              d \in s.deployed \/ DeploymentPending(s, d)

(* A separation that apogee set off is carried out or will be.              *)
SeparationsRemembered ==
    \A i \in DOMAIN Statuses : \A n \in Stages :
        LET s == Statuses[i]
        IN s.apogeeReached /\ design.separation[n] = "APOGEE" /\ {n - 1, n} \subseteq s.active
              => SeparationPending(s, n)

(* "Delay event by at least 1ms to allow stage separation to occur first": *)
(* when one event sets off both the separation of a stage and a recovery    *)
(* device, and the device is not configured to open earlier, no branch has  *)
(* the device open while the stages still hang together.                    *)
SeparationFirst ==
    \A i \in DOMAIN Statuses : \A d \in Statuses[i].deployed : \A n \in Stages :
        {n - 1, n} \subseteq Statuses[i].active =>
           /\ ~(design.deployment[d] = "LOWER_STAGE_SEPARATION" /\ n = StageOf[d] + 1)
           /\ ~(/\ design.deployment[d] \in {"LAUNCH", "APOGEE"}
                /\ design.separation[n] = design.deployment[d]
                /\ (\/ design.separationDelay[n] < 1
                    \/ design.separationDelay[n] < design.deployDelay[d]))

(* Apogee, the launch rod and the ground are passed once in a branch.       *)
HappensOnce ==
    \A i \in DOMAIN Statuses :
        LET s == Statuses[i]
            passed == {t \in {"APOGEE", "LAUNCHROD", "GROUND_HIT"} :
                          [APOGEE |-> s.apogeeReached, LAUNCHROD |-> s.launchRodCleared,
                           GROUND_HIT |-> s.landed][t]}
        IN \A e \in BagToSet(s.queue) : e.type \notin passed

(* Whatever the design and the physics, the simulation comes to an end.     *)
FlightEnds == <>(pc \in {"done", "failed"})

(* handleIgnition: "Ignore all after the first": a lit motor is not given a *)
(* second burnout.                                                          *)
BurnsOutOnce ==
    \A i \in DOMAIN Statuses : \A e \in BagToSet(Statuses[i].queue) :
        e.type = "BURNOUT" => Statuses[i].queue[e] = 1

(* handleIgnition: "an altitude event for every point in the thrust curve   *)
(* to set the RK4 simulation time steps": the points lie ahead.             *)
ThrustPointsAhead ==
    [][pc = "events" =>
         \A e \in BagToSet(status'.queue) \ BagToSet(status.queue) :
            e.type = "ALTITUDE" => e.time >= status'.time]_vars

Branches == INSTANCE FlightBranches WITH
    AllStages <- Stages,
    rocket <- design.active,
    flying <- [i \in DOMAIN Statuses |-> Statuses[i].active],
    ended <- [i \in DOMAIN flown |-> flown[i].active]

(* The branches of the flight are the branches FlightBranches promises.     *)
StagesSplitOnly == Branches!Spec
StagesFlyOnce == Branches!StagesFlyOnce
=============================================================================
