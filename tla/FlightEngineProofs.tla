------------------------- MODULE FlightEngineProofs -------------------------
(* What TLAPS proves about FlightEngine, for any rocket, any flight         *)
(* configurations and any bounds.                                           *)
EXTENDS FlightEngine, SequenceTheorems, TLAPS

-----------------------------------------------------------------------------
(* The invariant: every status has its type and its events concern parts    *)
(* that it still carries.                                                   *)

BagsOf(S) == UNION {[X -> Nat \ {0}] : X \in SUBSET S}

(* An event about a motor or a device has it as its item and comes from its *)
(* stage; a separation comes from a stage that has one above.               *)
EngineEvents ==
    {e \in EventType :
        /\ e.type \in {"IGNITION", "BURNOUT", "EJECTION_CHARGE"} =>
              e.item \in Motors /\ e.stage = StageOf[e.item]
        /\ e.type = "RECOVERY_DEVICE_DEPLOYMENT" =>
              e.item \in Devices /\ e.stage = StageOf[e.item]
        /\ e.type = "STAGE_SEPARATION" => e.stage \in Stages \ {0}}

Status == [active : SUBSET Stages, time : Nat, z : 0..MaxAltitude,
           maxAlt : Below..MaxAltitude,
           motorIgnited : BOOLEAN, liftoff : BOOLEAN, launchRodCleared : BOOLEAN,
           apogeeReached : BOOLEAN, tumbling : BOOLEAN, landed : BOOLEAN,
           deployed : SUBSET Devices, queue : BagsOf(EngineEvents)]

Attached(active) == {e \in EngineEvents : IsAttached(active, e)}

Sound(s) == s \in Status /\ DOMAIN s.queue \subseteq Attached(s.active)

Flown == [active : SUBSET Stages, deployed : SUBSET Devices]

EngineInvariant ==
    /\ design \in Designs
    /\ pc \in {"branch", "events", "step", "done", "failed"}
    /\ ret \in BOOLEAN
    /\ Sound(status)
    /\ toSimulate \in Seq({s \in Status : Sound(s)})
    /\ motors \in [Motors -> MotorType]
    /\ flown \in Seq(Flown)

-----------------------------------------------------------------------------
(* Bags.                                                                    *)

LEMMA BagFacts ==
    ASSUME NEW S, NEW B \in BagsOf(S)
    PROVE  /\ DOMAIN B \subseteq S /\ B \in [DOMAIN B -> Nat \ {0}]
           /\ IsABag(B) /\ BagToSet(B) = DOMAIN B
BY DEF BagsOf, IsABag, BagToSet

LEMMA BagOfFunction ==
    ASSUME NEW S, NEW X \in SUBSET S, NEW B \in [X -> Nat \ {0}]
    PROVE  B \in BagsOf(S) /\ DOMAIN B = X
BY DEF BagsOf

LEMMA BagAdd ==
    ASSUME NEW S, NEW B \in BagsOf(S), NEW C \in BagsOf(S)
    PROVE  B (+) C \in BagsOf(S) /\ DOMAIN (B (+) C) = DOMAIN B \cup DOMAIN C
<1>1. /\ DOMAIN B \subseteq S /\ B \in [DOMAIN B -> Nat \ {0}]
      /\ DOMAIN C \subseteq S /\ C \in [DOMAIN C -> Nat \ {0}]
  BY BagFacts
<1>2. B (+) C \in [DOMAIN B \cup DOMAIN C -> Nat \ {0}]
  BY <1>1 DEF (+)
<1> QED
  BY <1>1, <1>2, BagOfFunction

LEMMA BagTake ==
    ASSUME NEW S, NEW B \in BagsOf(S), NEW X
    PROVE  B (-) SetToBag(X) \in BagsOf(S) /\ DOMAIN (B (-) SetToBag(X)) \subseteq DOMAIN B
<1> DEFINE F == [e \in DOMAIN B |-> IF e \in DOMAIN SetToBag(X) THEN B[e] - SetToBag(X)[e] ELSE B[e]]
           Y == {e \in DOMAIN F : F[e] > 0}
<1>1. DOMAIN B \subseteq S /\ B \in [DOMAIN B -> Nat \ {0}]
  BY BagFacts
<1>2. F \in [DOMAIN B -> Int]
  BY <1>1 DEF SetToBag
<1>3. B (-) SetToBag(X) = [e \in Y |-> F[e]]
  BY DEF (-)
<1>4. [e \in Y |-> F[e]] \in [Y -> Nat \ {0}] /\ Y \subseteq DOMAIN B
  <2> HIDE DEF F
  <2> QED
    BY <1>2
<1> DEFINE T == [e \in Y |-> F[e]]
<1> HIDE DEF F, Y
<1>5. Y \in SUBSET S /\ T \in [Y -> Nat \ {0}]
  BY <1>1, <1>4
<1> HIDE DEF T
<1>6. T \in BagsOf(S) /\ DOMAIN T = Y
  BY <1>5, BagOfFunction
<1> QED
  BY <1>3, <1>4, <1>6 DEF T

LEMMA BagOfSet ==
    ASSUME NEW S, NEW X \in SUBSET S
    PROVE  SetToBag(X) \in BagsOf(S) /\ DOMAIN SetToBag(X) = X
BY DEF BagsOf, SetToBag

-----------------------------------------------------------------------------
(* What the operators on a status keep.                                     *)

(* A status whose queue is replaced.                                        *)
SameBut(s, t) ==
    /\ t.active = s.active /\ t.time = s.time /\ t.z = s.z /\ t.deployed = s.deployed
    /\ t.motorIgnited = s.motorIgnited

LEMMA QueueReplaced ==
    ASSUME NEW s \in Status, NEW q \in BagsOf(EngineEvents),
           DOMAIN q \subseteq Attached(s.active)
    PROVE  /\ Sound([s EXCEPT !.queue = q])
           /\ SameBut(s, [s EXCEPT !.queue = q])
BY DEF Sound, Status, SameBut

LEMMA AddSound ==
    ASSUME NEW s, Sound(s), NEW E \in SUBSET Attached(s.active)
    PROVE  Sound(Add(s, E)) /\ SameBut(s, Add(s, E))
<1>1. s \in Status /\ s.queue \in BagsOf(EngineEvents) /\ DOMAIN s.queue \subseteq Attached(s.active)
  BY DEF Sound, Status
<1> DEFINE added == SetToBag(E)
<1>2. added \in BagsOf(EngineEvents) /\ DOMAIN added = E
  BY BagOfSet DEF Attached
<1> HIDE DEF added
<1>3. /\ s.queue (+) added \in BagsOf(EngineEvents)
      /\ DOMAIN (s.queue (+) added) = DOMAIN s.queue \cup DOMAIN added
  <2>1. s.queue \in BagsOf(EngineEvents)
    BY <1>1
  <2>2. added \in BagsOf(EngineEvents)
    BY <1>2
  <2> QED
    BY ONLY ZenonT(40), <2>1, <2>2, BagAdd
<1> QED
  BY <1>1, <1>2, <1>3, QueueReplaced DEF Add, added

LEMMA AddCopiesSound ==
    ASSUME NEW s, Sound(s), NEW e \in Attached(s.active), NEW n \in Nat
    PROVE  Sound(AddCopies(s, e, n)) /\ SameBut(s, AddCopies(s, e, n))
<1> DEFINE X == IF n = 0 THEN {} ELSE {e}
           C == [x \in X |-> n]
<1>1. s \in Status /\ s.queue \in BagsOf(EngineEvents) /\ DOMAIN s.queue \subseteq Attached(s.active)
  BY DEF Sound, Status
<1>2. X \in SUBSET EngineEvents /\ C \in [X -> Nat \ {0}] /\ X \subseteq Attached(s.active)
  BY DEF Attached
<1> HIDE DEF X
<1>3. C \in BagsOf(EngineEvents) /\ DOMAIN C = X
  BY <1>2, BagOfFunction
<1> HIDE DEF C
<1>4. /\ s.queue (+) C \in BagsOf(EngineEvents)
      /\ DOMAIN (s.queue (+) C) = DOMAIN s.queue \cup DOMAIN C
  BY ZenonT(40), <1>1, <1>3, BagAdd
<1> QED
  BY <1>1, <1>2, <1>3, <1>4, QueueReplaced DEF AddCopies, C, X

LEMMA KeptSound ==
    ASSUME NEW s, Sound(s), NEW active \in SUBSET Stages
    PROVE  /\ Sound(Kept(s, active))
           /\ Kept(s, active).active = active
           /\ Kept(s, active).deployed = s.deployed
           /\ Kept(s, active).time = s.time
<1> DEFINE q == RemoveUnattached(s.queue, active)
           X == {x \in BagToSet(s.queue) : IsAttached(active, x)}
<1>1. s \in Status /\ s.queue \in BagsOf(EngineEvents) /\ DOMAIN s.queue \subseteq Attached(s.active)
  BY DEF Sound, Status
<1>2. /\ DOMAIN s.queue \subseteq EngineEvents /\ s.queue \in [DOMAIN s.queue -> Nat \ {0}]
      /\ BagToSet(s.queue) = DOMAIN s.queue
  BY <1>1, BagFacts
<1>3. X \in SUBSET EngineEvents /\ q \in [X -> Nat \ {0}] /\ X \subseteq Attached(active)
  BY <1>2 DEF RemoveUnattached, Attached
<1> HIDE DEF q, X
<1>4. q \in BagsOf(EngineEvents) /\ DOMAIN q = X
  BY <1>3, BagOfFunction
<1>5. Kept(s, active) = [s EXCEPT !.active = active, !.queue = q]
  BY <1>1 DEF Kept, q, Status
<1> QED
  BY <1>1, <1>3, <1>4, <1>5 DEF Sound, Status

-----------------------------------------------------------------------------
(* The events that are queued.                                              *)

PlainTypes == EventTypes \ {"IGNITION", "BURNOUT", "EJECTION_CHARGE",
                            "RECOVERY_DEVICE_DEPLOYMENT", "STAGE_SEPARATION"}

LEMMA EventTypesAre ==
    EventTypes = {"LAUNCH", "IGNITION", "LIFTOFF", "LAUNCHROD", "BURNOUT", "EJECTION_CHARGE",
                  "STAGE_SEPARATION", "APOGEE", "RECOVERY_DEVICE_DEPLOYMENT", "GROUND_HIT",
                  "SIMULATION_END", "ALTITUDE", "TUMBLE", "SIM_ABORT"}
BY DEF EventTypes, Ordinal

LEMMA StageNumbers ==
    /\ LastStage \in Nat /\ Stages \subseteq RocketStage..NoStage
    /\ RocketStage \in RocketStage..NoStage /\ NoStage \in RocketStage..NoStage
    /\ -1 \notin Stages
    /\ \A c \in Motors \cup Devices : StageOf[c] \in Stages
BY StagesAssumption, PartsAssumption DEF Stages, RocketStage, NoStage

LEMMA EventTyped ==
    ASSUME NEW type \in EventTypes, NEW time \in Nat, NEW stage \in RocketStage..NoStage,
           NEW item \in Motors \cup Devices \cup {None}
    PROVE  FlightEvent(type, time, stage, item) \in EventType
BY DEF FlightEvent, EventType

LEMMA PlainEvent ==
    ASSUME NEW active \in SUBSET Stages, NEW type \in PlainTypes, NEW time \in Nat,
           NEW stage \in {NoStage, RocketStage} \cup active
    PROVE  FlightEvent(type, time, stage, None) \in Attached(active)
<1>1. FlightEvent(type, time, stage, None) \in EventType
  BY StageNumbers, EventTyped DEF PlainTypes
<1> QED
  BY <1>1 DEF PlainTypes, Attached, EngineEvents, IsAttached, FlightEvent

LEMMA MotorEvent ==
    ASSUME NEW active \in SUBSET Stages, NEW type \in {"IGNITION", "BURNOUT", "EJECTION_CHARGE"},
           NEW time \in Nat, NEW m \in Motors, StageOf[m] \in active
    PROVE  FlightEvent(type, time, StageOf[m], m) \in Attached(active)
<1>1. FlightEvent(type, time, StageOf[m], m) \in EventType
  BY StageNumbers, EventTypesAre, EventTyped
<1> QED
  BY <1>1 DEF Attached, EngineEvents, IsAttached, FlightEvent

LEMMA DeploymentEvent ==
    ASSUME NEW active \in SUBSET Stages, NEW time \in Nat, NEW d \in Devices, StageOf[d] \in active
    PROVE  FlightEvent("RECOVERY_DEVICE_DEPLOYMENT", time, StageOf[d], d) \in Attached(active)
<1>1. FlightEvent("RECOVERY_DEVICE_DEPLOYMENT", time, StageOf[d], d) \in EventType
  BY StageNumbers, EventTypesAre, EventTyped
<1> QED
  BY <1>1 DEF Attached, EngineEvents, IsAttached, FlightEvent

LEMMA SeparationEvent ==
    ASSUME NEW active \in SUBSET Stages, NEW time \in Nat, NEW n \in active \ {0}
    PROVE  FlightEvent("STAGE_SEPARATION", time, n, None) \in Attached(active)
<1>1. FlightEvent("STAGE_SEPARATION", time, n, None) \in EventType
  BY StageNumbers, EventTypesAre, EventTyped
<1> QED
  BY <1>1 DEF Attached, EngineEvents, IsAttached, FlightEvent

LEMMA DesignTyped ==
    ASSUME design \in Designs
    PROVE  design \in DesignType
BY DesignsAssumption

-----------------------------------------------------------------------------
(* What an event sets off.                                                  *)

LEMMA QueueIgnitionsSound ==
    ASSUME NEW s, Sound(s), design \in Designs, NEW e
    PROVE  Sound(QueueIgnitions(s, e)) /\ SameBut(s, QueueIgnitions(s, e))
<1> DEFINE E == {FlightEvent("IGNITION", s.time + design.ignitionDelay[m], StageOf[m], m) :
                    m \in {x \in ActiveMotors(s) : Ignites(s, e, x)}}
<1>1. s.active \in SUBSET Stages /\ s.time \in Nat
  BY DEF Sound, Status
<1>2. \A m \in ActiveMotors(s) : m \in Motors /\ StageOf[m] \in s.active
  BY StageNumbers DEF ActiveMotors, IsStageActive
<1>3. \A m \in Motors : s.time + design.ignitionDelay[m] \in Nat
  <2>1. design.ignitionDelay \in [Motors -> Nat]
    BY DesignTyped DEF DesignType
  <2> QED
    BY <1>1, <2>1
<1>4. E \in SUBSET Attached(s.active)
  BY <1>1, <1>2, <1>3, MotorEvent
<1> QED
  BY <1>4, AddSound DEF QueueIgnitions

LEMMA QueueSeparationsSound ==
    ASSUME NEW s, Sound(s), design \in Designs, NEW e \in EngineEvents
    PROVE  Sound(QueueSeparations(s, e)) /\ SameBut(s, QueueSeparations(s, e))
<1> DEFINE E == {FlightEvent("STAGE_SEPARATION", e.time + design.separationDelay[n], n, None) :
                    n \in {x \in s.active \ {0} : Separates(e, x)}}
<1>1. s.active \in SUBSET Stages /\ e.time \in Nat
  BY DEF Sound, Status, EngineEvents, EventType
<1>2. \A n \in Stages : e.time + design.separationDelay[n] \in Nat
  <2>1. design.separationDelay \in [Stages -> Nat]
    BY DesignTyped DEF DesignType
  <2> QED
    BY <1>1, <2>1
<1>3. E \in SUBSET Attached(s.active)
  BY <1>1, <1>2, SeparationEvent
<1> QED
  BY <1>3, AddSound DEF QueueSeparations

LEMMA QueueDeploymentsSound ==
    ASSUME NEW s, Sound(s), design \in Designs, NEW e \in EngineEvents
    PROVE  Sound(QueueDeployments(s, e)) /\ SameBut(s, QueueDeployments(s, e))
<1> DEFINE E == {FlightEvent("RECOVERY_DEVICE_DEPLOYMENT",
                             e.time + AtLeastOne(design.deployDelay[d]), StageOf[d], d) :
                    d \in {x \in Devices \ s.deployed :
                             IsStageActive(s, StageOf[x]) /\ Deploys(e, x)}}
<1>1. s.active \in SUBSET Stages /\ e.time \in Nat
  BY DEF Sound, Status, EngineEvents, EventType
<1>2. \A d \in Devices : e.time + AtLeastOne(design.deployDelay[d]) \in Nat
  <2>1. design.deployDelay \in [Devices -> Nat]
    BY DesignTyped DEF DesignType
  <2> QED
    BY <1>1, <2>1 DEF AtLeastOne
<1>3. \A d \in Devices : IsStageActive(s, StageOf[d]) => StageOf[d] \in s.active
  BY StageNumbers DEF IsStageActive
<1>4. E \in SUBSET Attached(s.active)
  BY <1>1, <1>2, <1>3, DeploymentEvent
<1> QED
  BY <1>4, AddSound DEF QueueDeployments

(* Taking an event keeps the rest of the queue; the time may jump to it.    *)
LEMMA PollSound ==
    ASSUME NEW s, Sound(s), NEW e \in EngineEvents
    PROVE  /\ Sound(Poll(s, e))
           /\ Poll(s, e).active = s.active /\ Poll(s, e).deployed = s.deployed
<1> DEFINE q == s.queue (-) SetToBag({e})
           t == IF ~s.motorIgnited /\ e.time > s.time THEN e.time ELSE s.time
<1>1. s \in Status /\ s.queue \in BagsOf(EngineEvents) /\ DOMAIN s.queue \subseteq Attached(s.active)
  BY DEF Sound, Status
<1>2. q \in BagsOf(EngineEvents) /\ DOMAIN q \subseteq DOMAIN s.queue
  BY <1>1, BagTake
<1>3. t \in Nat
  BY <1>1 DEF Status, EngineEvents, EventType
<1>4. Poll(s, e) = [s EXCEPT !.time = t, !.queue = q]
  BY <1>1 DEF Poll, Status
<1> HIDE DEF q, t
<1> QED
  BY <1>1, <1>2, <1>3, <1>4 DEF Sound, Status

LEMMA TriggeredSound ==
    ASSUME NEW s, Sound(s), design \in Designs, NEW e \in EngineEvents
    PROVE  /\ Sound(Triggered(s, e))
           /\ Triggered(s, e).active = s.active /\ Triggered(s, e).deployed = s.deployed
BY PollSound, QueueIgnitionsSound, QueueSeparationsSound, QueueDeploymentsSound
   DEF Triggered, SameBut

-----------------------------------------------------------------------------
(* The handlers.                                                            *)

(* The event that is handled concerns a part of the branch.                 *)
LEMMA DueEvent ==
    ASSUME NEW s, Sound(s), NEW e \in Due(s)
    PROVE  e \in EngineEvents /\ e \in Attached(s.active)
<1>1. s.queue \in BagsOf(EngineEvents) /\ DOMAIN s.queue \subseteq Attached(s.active)
  BY DEF Sound, Status
<1>2. e \in DOMAIN s.queue
  BY <1>1, BagFacts DEF Due, Firsts
<1> QED
  BY <1>1, <1>2 DEF Attached

LEMMA AbortEvent ==
    ASSUME NEW s, Sound(s)
    PROVE  Abort(s) \in Attached(s.active)
<1>1. s.active \in SUBSET Stages /\ s.time \in Nat
  BY DEF Sound, Status
<1>2. "SIM_ABORT" \in PlainTypes
  BY EventTypesAre DEF PlainTypes
<1> QED
  BY <1>1, <1>2, PlainEvent DEF Abort

LEMMA AbortSound ==
    ASSUME NEW s, Sound(s)
    PROVE  Sound(Add(s, {Abort(s)})) /\ SameBut(s, Add(s, {Abort(s)}))
BY AbortEvent, AddSound

(* A step that leaves the stack and the flown branches alone.               *)
LEMMA SoundStep ==
    ASSUME EngineInvariant, Sound(status'), motors' \in [Motors -> MotorType],
           pc' \in {"branch", "events", "step", "done", "failed"}, ret' \in BOOLEAN,
           UNCHANGED <<design, toSimulate, flown>>
    PROVE  EngineInvariant'
BY DEF EngineInvariant

LEMMA VetoedSound ==
    ASSUME EngineInvariant, HandleVetoed
    PROVE  EngineInvariant' /\ status'.active = status.active
<1>1. PICK e \in Due(status) : status' = QueueIgnitions(Poll(status, e), e)
  BY DEF HandleVetoed
<1>2. Sound(status) /\ design \in Designs
  BY DEF EngineInvariant
<1>3. Sound(status') /\ status'.active = status.active
  BY <1>1, <1>2, DueEvent, PollSound, QueueIgnitionsSound DEF SameBut
<1> QED
  BY <1>3, SoundStep DEF HandleVetoed, EngineInvariant

LEMMA FlagSound ==
    ASSUME EngineInvariant, HandleFlag
    PROVE  EngineInvariant' /\ status'.active = status.active
<1>1. PICK e \in Due(status) :
         status' = [Triggered(status, e) EXCEPT
                      !.liftoff = @ \/ e.type = "LIFTOFF",
                      !.launchRodCleared = @ \/ e.type = "LAUNCHROD",
                      !.apogeeReached = @ \/ e.type = "APOGEE"]
  BY DEF HandleFlag
<1> DEFINE s == Triggered(status, e)
<1>2. Sound(s) /\ s.active = status.active
  BY DueEvent, TriggeredSound DEF EngineInvariant
<1> HIDE DEF s
<1>3. ASSUME NEW a \in BOOLEAN, NEW b \in BOOLEAN, NEW c \in BOOLEAN
      PROVE  LET t == [s EXCEPT !.liftoff = a, !.launchRodCleared = b, !.apogeeReached = c]
             IN Sound(t) /\ t.active = s.active
  BY <1>2 DEF Sound, Status
<1>4. /\ (s.liftoff \/ e.type = "LIFTOFF") \in BOOLEAN
      /\ (s.launchRodCleared \/ e.type = "LAUNCHROD") \in BOOLEAN
      /\ (s.apogeeReached \/ e.type = "APOGEE") \in BOOLEAN
  OBVIOUS
<1>5. status' = [s EXCEPT !.liftoff = s.liftoff \/ e.type = "LIFTOFF",
                          !.launchRodCleared = s.launchRodCleared \/ e.type = "LAUNCHROD",
                          !.apogeeReached = s.apogeeReached \/ e.type = "APOGEE"]
  BY <1>1, <1>2 DEF s, Sound, Status
<1>6. Sound(status') /\ status'.active = status.active
  BY <1>2, <1>3, <1>4, <1>5
<1> QED
  BY <1>6, SoundStep DEF HandleFlag, EngineInvariant

LEMMA IgnitionSound ==
    ASSUME EngineInvariant, HandleIgnition
    PROVE  EngineInvariant' /\ status'.active = status.active
<1>1. PICK e \in Due(status) :
         /\ Taken({"IGNITION"}, e)
         /\ LET s == Triggered(status, e)
                m == e.item
            IN IF IsLate(s, m)
               THEN status' = s /\ UNCHANGED motors
               ELSE /\ motors' = [motors EXCEPT ![m] = Ignite(@, e.time)]
                    /\ status' = Add([s EXCEPT !.motorIgnited = TRUE],
                         {FlightEvent("ALTITUDE", t, e.stage, None) : t \in TimePoints[m]}
                         \cup {FlightEvent("BURNOUT", s.time + BurnTime[m], e.stage, m)})
  BY DEF HandleIgnition
<1> DEFINE s == Triggered(status, e)
           m == e.item
           lit == [s EXCEPT !.motorIgnited = TRUE]
           points == {FlightEvent("ALTITUDE", t, e.stage, None) : t \in TimePoints[m]}
           burnout == FlightEvent("BURNOUT", s.time + BurnTime[m], e.stage, m)
<1>2. /\ Sound(s) /\ s.active = status.active
      /\ e \in EngineEvents /\ e \in Attached(status.active)
  BY DueEvent, TriggeredSound DEF EngineInvariant
<1>3. /\ m \in Motors /\ e.stage = StageOf[m] /\ e.stage \in s.active /\ e.time \in Nat
  <2>1. m \in Motors /\ e.stage = StageOf[m] /\ e.time \in Nat
    BY <1>1, <1>2 DEF Taken, EngineEvents, EventType
  <2>2. StageOf[m] \in Stages /\ NoStage \notin Stages /\ RocketStage \notin Stages
    BY <2>1, StageNumbers DEF Stages, NoStage, RocketStage
  <2> QED
    BY <1>2, <2>1, <2>2 DEF Attached, IsAttached
<1>4. CASE IsLate(s, m)
  BY <1>1, <1>2, <1>4, SoundStep DEF HandleIgnition, EngineInvariant
<1>5. CASE ~IsLate(s, m)
  <2>1. motors' \in [Motors -> MotorType]
    <3>1. motors \in [Motors -> MotorType]
      BY DEF EngineInvariant
    <3>2. Ignite(motors[m], e.time) \in MotorType
      BY <1>3, <3>1 DEF Ignite, MotorType, ThrustStates
    <3> QED
      BY <1>1, <1>5, <3>1, <3>2
  <2>2. Sound(lit) /\ lit.active = s.active /\ s.active \in SUBSET Stages /\ s.time \in Nat
    <3> HIDE DEF s
    <3> QED
      BY <1>2 DEF Sound, Status
  <2>3. points \subseteq Attached(s.active)
    <3>1. "ALTITUDE" \in PlainTypes
      BY EventTypesAre DEF PlainTypes
    <3>2. TimePoints[m] \subseteq Nat
      BY <1>3, PartsAssumption
    <3> QED
      BY <1>3, <2>2, <3>1, <3>2, PlainEvent
  <2>4. burnout \in Attached(s.active)
    <3>1. s.time + BurnTime[m] \in Nat
      BY <1>3, <2>2, PartsAssumption
    <3> QED
      BY <1>3, <2>2, <3>1, MotorEvent
  <2>5. status' = Add(lit, points \cup {burnout})
    BY <1>1, <1>5
  <2> HIDE DEF s, lit, points, burnout
  <2>6. Sound(status') /\ status'.active = status.active
    BY <1>2, <2>2, <2>3, <2>4, <2>5, AddSound DEF SameBut
  <2> QED
    BY <2>1, <2>6, SoundStep DEF HandleIgnition, EngineInvariant
<1> QED
  BY <1>4, <1>5

LEMMA BurnoutSound ==
    ASSUME EngineInvariant, HandleBurnout
    PROVE  EngineInvariant' /\ status'.active = status.active
<1>1. PICK e \in Due(status) :
         /\ Taken({"BURNOUT"}, e)
         /\ LET s == Triggered(status, e)
                m == e.item
                charge == HasEjectionCharge(m)
            IN /\ motors' = [motors EXCEPT ![m] = BurnOut(@, charge)]
               /\ status' = Add(s, (IF s.liftoff THEN {} ELSE {Abort(s)})
                    \cup (IF ~charge THEN {}
                          ELSE {FlightEvent("EJECTION_CHARGE",
                                            s.time + design.ejectionDelay[m], StageOf[m], m)}))
  BY DEF HandleBurnout
<1> DEFINE s == Triggered(status, e)
           m == e.item
           charge == HasEjectionCharge(m)
           abort == IF s.liftoff THEN {} ELSE {Abort(s)}
           ejection == IF ~charge THEN {}
                       ELSE {FlightEvent("EJECTION_CHARGE",
                                         s.time + design.ejectionDelay[m], StageOf[m], m)}
<1>2. /\ Sound(s) /\ s.active = status.active
      /\ e \in EngineEvents /\ e \in Attached(status.active)
  BY DueEvent, TriggeredSound DEF EngineInvariant
<1>3. m \in Motors /\ StageOf[m] \in s.active
  <2>1. m \in Motors /\ e.stage = StageOf[m]
    BY <1>1, <1>2 DEF Taken, EngineEvents
  <2>2. StageOf[m] \in Stages /\ NoStage \notin Stages /\ RocketStage \notin Stages
    BY <2>1, StageNumbers DEF Stages, NoStage, RocketStage
  <2> QED
    BY <1>2, <2>1, <2>2 DEF Attached, IsAttached
<1>4. motors' \in [Motors -> MotorType]
  <2>1. motors \in [Motors -> MotorType]
    BY DEF EngineInvariant
  <2>2. BurnOut(motors[m], charge) \in MotorType
    BY <1>3, <2>1 DEF BurnOut, MotorType, ThrustStates
  <2> QED
    BY <1>1, <2>1, <2>2
<1>5. s.active \in SUBSET Stages /\ s.time \in Nat
  BY <1>2 DEF Sound, Status
<1>6. abort \subseteq Attached(s.active)
  BY <1>2, AbortEvent
<1>7. ejection \subseteq Attached(s.active)
  <2>1. CASE charge
    <3>1. design.ejectionDelay \in [Motors -> Nat \cup {Plugged}]
      BY DesignTyped DEF DesignType, EngineInvariant
    <3>2. s.time + design.ejectionDelay[m] \in Nat
      BY <1>3, <1>5, <2>1, <3>1 DEF HasEjectionCharge
    <3> QED
      BY <1>3, <1>5, <3>2, MotorEvent
  <2>2. CASE ~charge
    BY <2>2
  <2> QED
    BY <2>1, <2>2
<1>8. status' = Add(s, abort \cup ejection)
  BY <1>1
<1> HIDE DEF s, abort, ejection
<1>9. Sound(status') /\ status'.active = status.active
  BY <1>2, <1>6, <1>7, <1>8, AddSound DEF SameBut
<1> QED
  BY <1>4, <1>9, SoundStep DEF HandleBurnout, EngineInvariant

LEMMA EjectionChargeSound ==
    ASSUME EngineInvariant, HandleEjectionCharge
    PROVE  EngineInvariant' /\ status'.active = status.active
<1>1. PICK e \in Due(status) :
         /\ Taken({"EJECTION_CHARGE"}, e)
         /\ motors' = [motors EXCEPT ![e.item] = Expend(@)]
         /\ status' = Triggered(status, e)
  BY DEF HandleEjectionCharge
<1>2. Sound(status') /\ status'.active = status.active /\ e \in EngineEvents
  BY <1>1, DueEvent, TriggeredSound DEF EngineInvariant
<1>3. motors' \in [Motors -> MotorType]
  <2>1. motors \in [Motors -> MotorType] /\ e.item \in Motors
    BY <1>1, <1>2 DEF EngineInvariant, Taken, EngineEvents
  <2>2. Expend(motors[e.item]) \in MotorType
    BY <2>1 DEF Expend, MotorType, ThrustStates
  <2> QED
    BY <1>1, <2>1, <2>2
<1> QED
  BY <1>2, <1>3, SoundStep DEF HandleEjectionCharge, EngineInvariant

LEMMA CheckGeometrySound ==
    ASSUME NEW s, Sound(s), NEW found
    PROVE  /\ Sound(CheckGeometry(s, found))
           /\ CheckGeometry(s, found).active = s.active
           /\ CheckGeometry(s, found).deployed = s.deployed
<1> DEFINE t == IF "ACTIVE_LENGTH_ZERO" \in found THEN Add(s, {Abort(s)}) ELSE s
           tumble == FlightEvent("TUMBLE", s.time, NoStage, None)
<1>1. Sound(t) /\ SameBut(s, t)
  BY AbortEvent, AddSound DEF SameBut
<1>2. s.active \in SUBSET Stages /\ s.time \in Nat /\ "TUMBLE" \in PlainTypes
  BY EventTypesAre DEF Sound, Status, PlainTypes
<1>3. {tumble} \in SUBSET Attached(t.active) /\ {Abort(s)} \in SUBSET Attached(t.active)
  BY <1>1, <1>2, PlainEvent, AbortEvent DEF SameBut
<1>4. CheckGeometry(s, found) \in {t, Add(t, {Abort(s)}), Add(t, {tumble})}
  BY DEF CheckGeometry
<1> HIDE DEF t, tumble
<1> QED
  BY <1>1, <1>3, <1>4, AddSound DEF SameBut

LEMMA StageSeparationSound ==
    ASSUME EngineInvariant, HandleStageSeparation
    PROVE  EngineInvariant'
<1>1. PICK e \in Due(status) :
         /\ Taken({"STAGE_SEPARATION"}, e)
         /\ LET s == Triggered(status, e)
                n == e.stage
            IN IF ~IsStageActive(s, n - 1)
               THEN status' = s /\ UNCHANGED toSimulate
               ELSE /\ toSimulate' = Push(toSimulate, Booster(s, n))
                    /\ \E found \in Geometries : status' = CheckGeometry(UpperPart(s, n), found)
  BY DEF HandleStageSeparation
<1> DEFINE s == Triggered(status, e)
           n == e.stage
           start == [s EXCEPT !.maxAlt = Below]
           lower == {k \in s.active : k >= n}
           upper == {k \in s.active : k < n}
<1>2. Sound(s)
  BY DueEvent, TriggeredSound DEF EngineInvariant
<1> HIDE DEF s
<1>3. s.active \in SUBSET Stages
  BY <1>2 DEF Sound, Status
<1>4. Sound(start)
  BY <1>2, BoundsAssumption DEF Sound, Status, Below
<1>5. Sound(Booster(s, n)) /\ Sound(UpperPart(s, n))
  <2>1. lower \in SUBSET Stages /\ upper \in SUBSET Stages
    BY <1>3
  <2> HIDE DEF start
  <2> QED
    BY <1>2, <1>4, <2>1, KeptSound DEF Booster, UpperPart, start
<1>6. CASE ~IsStageActive(s, n - 1)
  BY <1>1, <1>2, <1>6, SoundStep DEF HandleStageSeparation, EngineInvariant, s
<1>7. CASE IsStageActive(s, n - 1)
  <2>1. /\ toSimulate' = Push(toSimulate, Booster(s, n))
        /\ \E found \in Geometries : status' = CheckGeometry(UpperPart(s, n), found)
    BY <1>1, <1>7 DEF s
  <2>2. Sound(status')
    BY <1>5, <2>1, CheckGeometrySound
  <2>3. toSimulate' \in Seq({x \in Status : Sound(x)})
    <3> DEFINE W == {x \in Status : Sound(x)}
    <3>1. Booster(s, n) \in W
      BY <1>5 DEF Sound
    <3>2. toSimulate \in Seq(W)
      BY DEF EngineInvariant
    <3> HIDE DEF W
    <3>3. <<Booster(s, n)>> \in Seq(W)
      BY <3>1
    <3> QED
      BY <2>1, <3>2, <3>3, ConcatProperties DEF Push, W
  <2> QED
    BY <2>2, <2>3 DEF HandleStageSeparation, EngineInvariant
<1> QED
  BY <1>6, <1>7

LEMMA DeploymentSound ==
    ASSUME EngineInvariant, HandleDeployment
    PROVE  EngineInvariant' /\ status'.active = status.active
<1>1. PICK e \in Due(status) :
         /\ Taken({"RECOVERY_DEVICE_DEPLOYMENT"}, e)
         /\ LET s == Triggered(status, e)
                d == e.item
            IN IF ~IsStageActive(s, e.stage) \/ d \in s.deployed
               THEN status' = s
               ELSE \E thrusting \in 0..Cardinality(Burning(s)) :
                       status' = AddCopies([s EXCEPT !.liftoff = TRUE,
                                                     !.deployed = @ \cup {d}],
                                           Abort(s), thrusting)
  BY DEF HandleDeployment
<1> DEFINE s == Triggered(status, e)
           d == e.item
           D == s.deployed \cup {d}
           open == [s EXCEPT !.liftoff = TRUE, !.deployed = D]
<1>2. Sound(s) /\ s.active = status.active /\ d \in Devices
  BY <1>1, DueEvent, TriggeredSound DEF EngineInvariant, Taken, EngineEvents
<1> HIDE DEF s
<1>3. D \in SUBSET Devices
  BY <1>2 DEF Sound, Status
<1> HIDE DEF D
<1>4. Sound(open) /\ open.active = s.active
  BY <1>2, <1>3 DEF Sound, Status
<1>5. [s EXCEPT !.liftoff = TRUE, !.deployed = @ \cup {d}] = open
  BY <1>2 DEF Sound, Status, D
<1>6. Abort(s) \in Attached(open.active)
  BY <1>2, <1>4, AbortEvent
<1> HIDE DEF open
<1>7. Sound(status') /\ status'.active = status.active
  <2>1. CASE status' = s
    BY <1>2, <2>1
  <2>2. ASSUME NEW k \in 0..Cardinality(Burning(s)), status' = AddCopies(open, Abort(s), k)
        PROVE  Sound(status') /\ status'.active = s.active
    <3>1. k \in Nat
      OBVIOUS
    <3> QED
      BY <1>4, <1>6, <2>2, <3>1, AddCopiesSound DEF SameBut
  <2> QED
    BY <1>1, <1>2, <1>5, <2>1, <2>2 DEF s
<1> QED
  BY <1>7, SoundStep DEF HandleDeployment, EngineInvariant

LEMMA GroundHitSound ==
    ASSUME EngineInvariant, HandleGroundHit
    PROVE  EngineInvariant' /\ status'.active = status.active
<1>1. PICK e \in Due(status) :
        \E found \in SUBSET (Troubles \cap {"ACTIVE_MASS_ZERO"}) :
           LET s == [Triggered(status, e) EXCEPT !.landed = TRUE]
           IN status' = IF found = {} THEN s ELSE Add(s, {Abort(s)})
  BY DEF HandleGroundHit
<1> DEFINE t == Triggered(status, e)
           s == [t EXCEPT !.landed = TRUE]
<1>2. Sound(t) /\ t.active = status.active
  BY DueEvent, TriggeredSound DEF EngineInvariant
<1>3. status' \in {s, Add(s, {Abort(s)})}
  BY <1>1
<1> HIDE DEF t
<1>4. Sound(s) /\ s.active = t.active
  BY <1>2 DEF Sound, Status
<1> HIDE DEF s
<1>5. Sound(status') /\ status'.active = status.active
  BY <1>2, <1>3, <1>4, AbortSound DEF SameBut
<1> QED
  BY <1>5, SoundStep DEF HandleGroundHit, EngineInvariant

LEMMA TumbleSound ==
    ASSUME EngineInvariant, HandleTumble
    PROVE  EngineInvariant' /\ status'.active = status.active
<1>1. PICK e \in Due(status) : \E tooMuchThrust \in BOOLEAN :
         LET s == Triggered(status, e)
         IN status' = IF s.deployed # {} \/ s.landed THEN s
                      ELSE IF tooMuchThrust THEN Add(s, {Abort(s)})
                      ELSE [s EXCEPT !.tumbling = TRUE]
  BY DEF HandleTumble
<1> DEFINE s == Triggered(status, e)
           u == [s EXCEPT !.tumbling = TRUE]
<1>2. Sound(s) /\ s.active = status.active
  BY DueEvent, TriggeredSound DEF EngineInvariant
<1>3. status' \in {s, Add(s, {Abort(s)}), u}
  BY <1>1
<1> HIDE DEF s
<1>4. Sound(u) /\ u.active = s.active
  BY <1>2 DEF Sound, Status
<1> HIDE DEF u
<1>5. Sound(status') /\ status'.active = status.active
  BY <1>2, <1>3, <1>4, AbortSound DEF SameBut
<1> QED
  BY <1>5, SoundStep DEF HandleTumble, EngineInvariant

LEMMA EndSound ==
    ASSUME EngineInvariant, HandleEnd
    PROVE  EngineInvariant' /\ status'.active = status.active
<1>1. PICK e \in Due(status) : status' = Triggered(status, e)
  BY DEF HandleEnd
<1>2. Sound(status') /\ status'.active = status.active
  BY <1>1, DueEvent, TriggeredSound DEF EngineInvariant
<1> QED
  BY <1>2, SoundStep DEF HandleEnd, EngineInvariant

-----------------------------------------------------------------------------
(* The other steps of the engine.                                           *)

LEMMA StartBranchSound ==
    ASSUME EngineInvariant, StartBranch
    PROVE  EngineInvariant'
<1> DEFINE W == {x \in Status : Sound(x)}
<1>1. toSimulate \in Seq(W) /\ toSimulate # <<>>
  BY DEF EngineInvariant, StartBranch
<1> HIDE DEF W
<1>2. Head(toSimulate) \in W /\ toSimulate' \in Seq(W)
  BY <1>1, HeadTailProperties DEF StartBranch
<1>3. Sound(status')
  BY <1>2, CheckGeometrySound DEF StartBranch, W
<1> QED
  BY <1>2, <1>3 DEF StartBranch, EngineInvariant, W

LEMMA EventsHandledSound ==
    ASSUME EngineInvariant, EventsHandled
    PROVE  EngineInvariant' /\ status'.active = status.active /\ status'.active = status.active
<1> DEFINE goesOn == ret /\ status.time < MaxTime
           s == IF status.motorIgnited THEN status ELSE Add(status, {Abort(status)})
           b == [active |-> s.active, deployed |-> s.deployed]
<1>1. Sound(s) /\ s.active = status.active
  BY AbortSound DEF EngineInvariant, SameBut
<1>2. /\ status' = s /\ ret' = goesOn
      /\ pc' = IF goesOn THEN "step" ELSE "branch"
      /\ flown' = IF goesOn THEN flown ELSE Append(flown, b)
  BY DEF EventsHandled
<1>3. ret' \in BOOLEAN /\ pc' \in {"step", "branch"}
  BY <1>2 DEF EngineInvariant
<1> HIDE DEF s, goesOn
<1>4. b \in Flown
  BY <1>1 DEF Sound, Status, Flown
<1> HIDE DEF b
<1>5. flown' \in Seq(Flown)
  BY <1>2, <1>4, AppendProperties DEF EngineInvariant
<1> QED
  BY <1>1, <1>2, <1>3, <1>5 DEF EventsHandled, EngineInvariant

LEMMA StepTimesTyped ==
    ASSUME NEW s, Sound(s), NEW dt \in StepTimes(s)
    PROVE  dt \in Nat
<1>1. s.queue \in BagsOf(EngineEvents) /\ s.time \in Nat
  BY DEF Sound, Status
<1>2. \A e \in Firsts(s.queue) : e.time \in Nat
  BY <1>1, BagFacts DEF Firsts, EngineEvents, EventType
<1>3. \A e \in Firsts(s.queue) : Wait(s, e) \in Nat
  BY <1>1, <1>2 DEF Wait
<1>4. CASE s.landed
  BY <1>3, <1>4 DEF StepTimes
<1>5. CASE ~s.landed
  BY <1>5, BoundsAssumption DEF StepTimes
<1> QED
  BY <1>4, <1>5

LEMMA StepEventsAttached ==
    ASSUME NEW s, Sound(s), NEW t, Sound(t), t.active = s.active, NEW found
    PROVE  StepEvents(s, t, found) \in SUBSET Attached(s.active)
<1> DEFINE A == Attached(s.active)
           plain == FlightEvent("ALTITUDE", t.time, RocketStage, None)
           climb == [plain EXCEPT !.change = <<s.z, t.z>>]
<1>1. /\ s.active \in SUBSET Stages /\ s.time \in Nat /\ t.time \in Nat
      /\ s.z \in Nat /\ t.z \in Nat
  BY BoundsAssumption DEF Sound, Status
<1>2. {"ALTITUDE", "LIFTOFF", "GROUND_HIT", "LAUNCHROD", "APOGEE", "TUMBLE"} \subseteq PlainTypes
  BY EventTypesAre DEF PlainTypes
<1>3. climb \in A
  <2>1. plain \in A /\ plain.type = "ALTITUDE" /\ plain \in EventType
    BY <1>1, <1>2, PlainEvent DEF FlightEvent, Attached, EngineEvents
  <2>2. <<s.z, t.z>> \in Nat \X Nat
    BY <1>1
  <2> DEFINE c == <<s.z, t.z>>
             x == [plain EXCEPT !.change = c]
  <2> HIDE DEF plain, c
  <2>3. x \in EventType /\ x.type = "ALTITUDE" /\ x.stage = plain.stage
    BY <2>1, <2>2 DEF EventType, c
  <2> HIDE DEF x
  <2>4. x \in A
    BY <2>1, <2>3 DEF Attached, EngineEvents, IsAttached
  <2> QED
    BY <2>4 DEF x, c
<1>4. /\ FlightEvent("LIFTOFF", t.time, NoStage, None) \in A
      /\ FlightEvent("GROUND_HIT", t.time, NoStage, None) \in A
      /\ FlightEvent("LAUNCHROD", t.time, NoStage, None) \in A
      /\ FlightEvent("APOGEE", s.time, RocketStage, None) \in A
      /\ FlightEvent("TUMBLE", t.time, NoStage, None) \in A
  BY <1>1, <1>2, PlainEvent
<1>5. Abort(s) \in A
  BY AbortEvent
<1> HIDE DEF A, climb
<1> QED
  BY <1>3, <1>4, <1>5 DEF StepEvents, When, A, climb, plain

LEMMA StepSound ==
    ASSUME EngineInvariant, Step
    PROVE  EngineInvariant' /\ status'.active = status.active /\ status'.active = status.active
<1>1. PICK dt \in StepTimes(status), z \in StepAltitudes(status), found \in StepTroubles(status) :
         LET t == [status EXCEPT !.time = @ + dt, !.z = z,
                                 !.maxAlt = IF z > @ THEN z ELSE @]
         IN status' = AddEndWhenIdle(Add(t, StepEvents(status, t, found)))
  BY DEF Step
<1> DEFINE time == status.time + dt
           top == IF z > status.maxAlt THEN z ELSE status.maxAlt
           t == [status EXCEPT !.time = time, !.z = z, !.maxAlt = top]
           u == Add(t, StepEvents(status, t, found))
<1>2. Sound(status) /\ status \in Status
  BY DEF EngineInvariant, Sound
<1>3. time \in Nat
  BY <1>2, StepTimesTyped DEF Status
<1>4. z \in 0..MaxAltitude
  BY <1>2 DEF StepAltitudes, Status
<1>5. top \in Below..MaxAltitude
  BY <1>2, <1>4, BoundsAssumption DEF Status, Below
<1> HIDE DEF time, top
<1>6. Sound(t) /\ t.active = status.active
  BY <1>2, <1>3, <1>4, <1>5 DEF Sound, Status
<1>7. status' = AddEndWhenIdle(u)
  BY <1>1, <1>2 DEF time, top, Status
<1> HIDE DEF t
<1>8. Sound(u) /\ u.active = status.active
  BY <1>2, <1>6, StepEventsAttached, AddSound DEF SameBut
<1> HIDE DEF u
<1>9. Sound(status') /\ status'.active = status.active
  <2> DEFINE end == FlightEvent("SIMULATION_END", u.time, NoStage, None)
  <2>1. end \in Attached(u.active)
    <3>1. u.active \in SUBSET Stages /\ u.time \in Nat /\ "SIMULATION_END" \in PlainTypes
      BY <1>8, EventTypesAre DEF Sound, Status, PlainTypes
    <3> QED
      BY <3>1, PlainEvent
  <2>2. status' \in {u, Add(u, {end})}
    BY <1>7 DEF AddEndWhenIdle
  <2> HIDE DEF end
  <2> QED
    BY <1>8, <2>1, <2>2, AddSound DEF SameBut
<1> QED
  BY <1>9, SoundStep DEF Step, EngineInvariant

-----------------------------------------------------------------------------
(* The theorems.                                                            *)

LEMMA FirstStatusSound ==
    ASSUME design \in Designs
    PROVE  Sound(FirstStatus(design)) /\ FirstStatus(design).active = design.active
<1> DEFINE s == [active |-> design.active, time |-> 0, z |-> 0, maxAlt |-> Below,
                 motorIgnited |-> FALSE, liftoff |-> FALSE, launchRodCleared |-> FALSE,
                 apogeeReached |-> FALSE, tumbling |-> FALSE, landed |-> FALSE,
                 deployed |-> {}, queue |-> EmptyBag]
           noStage == IF design.active = {} THEN 1 ELSE 0
           noMotor == IF ActiveMotors(s) = {} THEN 1 ELSE 0
           launch == FlightEvent("LAUNCH", 0, RocketStage, None)
           u == AddCopies(s, Abort(s), noStage + noMotor)
<1>1. design.active \in SUBSET Stages
  BY DesignTyped DEF DesignType
<1>2. EmptyBag \in BagsOf(EngineEvents) /\ DOMAIN EmptyBag = {}
  BY DEF EmptyBag, SetToBag, BagsOf
<1>3. Sound(s) /\ s.active = design.active
  BY <1>1, <1>2, BoundsAssumption DEF Sound, Status, Below
<1>4. noStage + noMotor \in Nat
  OBVIOUS
<1>5. FirstStatus(design) = Add(u, {launch})
  BY DEF FirstStatus
<1> HIDE DEF s, noStage, noMotor
<1>6. Sound(u) /\ u.active = design.active
  BY <1>3, <1>4, AbortEvent, AddCopiesSound DEF SameBut
<1>7. launch \in Attached(design.active)
  BY <1>1, EventTypesAre, PlainEvent DEF PlainTypes
<1> HIDE DEF u, launch
<1> QED
  BY <1>5, <1>6, <1>7, AddSound DEF SameBut

LEMMA InitSound == Init => EngineInvariant
<1> SUFFICES ASSUME Init PROVE EngineInvariant
  OBVIOUS
<1>1. Sound(FirstStatus(design))
  BY FirstStatusSound DEF Init
<1>2. toSimulate \in Seq({s \in Status : Sound(s)})
  <2> DEFINE W == {s \in Status : Sound(s)}
  <2>1. FirstStatus(design) \in W
    BY <1>1 DEF Sound
  <2> HIDE DEF W
  <2>2. <<FirstStatus(design)>> \in Seq(W)
    BY <2>1
  <2> QED
    BY <2>2 DEF Init, W
<1>3. motors \in [Motors -> MotorType]
  BY DEF Init, MotorType, ThrustStates
<1>4. flown \in Seq(Flown)
  BY DEF Init
<1> QED
  BY <1>1, <1>2, <1>3, <1>4 DEF Init, EngineInvariant

(* The strengthening is inductive: whatever event is handled and whatever a *)
(* step brings about, every branch keeps its type and its queue concerns    *)
(* only what the branch still carries.                                      *)
THEOREM EngineStaysSound == Spec => []EngineInvariant
<1>1. EngineInvariant /\ [Next]_vars => EngineInvariant'
  <2> SUFFICES ASSUME EngineInvariant, [Next]_vars
               PROVE  EngineInvariant'
    OBVIOUS
  <2>1. CASE Handle
    BY <2>1, VetoedSound, FlagSound, IgnitionSound, BurnoutSound, EjectionChargeSound,
       StageSeparationSound, DeploymentSound, GroundHitSound, TumbleSound, EndSound
       DEF Handle
  <2>2. CASE StartBranch
    BY <2>2, StartBranchSound
  <2>3. CASE EndSimulation
    BY <2>3 DEF EndSimulation, EngineInvariant
  <2>4. CASE EventsHandled
    BY <2>4, EventsHandledSound
  <2>5. CASE Step
    BY <2>5, StepSound
  <2>6. CASE Fail
    BY <2>6 DEF Fail, EngineInvariant
  <2>7. CASE UNCHANGED vars
    BY <2>7 DEF vars, EngineInvariant
  <2> QED
    BY <2>1, <2>2, <2>3, <2>4, <2>5, <2>6, <2>7 DEF Next, Terminated
<1> QED
  BY InitSound, <1>1, PTL DEF Spec

LEMMA StatusTyped ==
    ASSUME NEW s \in Status
    PROVE  StatusOK(s)
<1>1. s.queue \in BagsOf(EngineEvents)
  BY DEF Status
<1>2. IsABag(s.queue) /\ BagToSet(s.queue) \subseteq EventType
  BY <1>1, BagFacts DEF EngineEvents
<1>3. s = [active |-> s.active, time |-> s.time, z |-> s.z, maxAlt |-> s.maxAlt,
           motorIgnited |-> s.motorIgnited, liftoff |-> s.liftoff,
           launchRodCleared |-> s.launchRodCleared, apogeeReached |-> s.apogeeReached,
           tumbling |-> s.tumbling, landed |-> s.landed,
           deployed |-> s.deployed, queue |-> s.queue]
  BY DEF Status
<1>4. /\ s.active \subseteq Stages /\ s.deployed \subseteq Devices
      /\ s.time \in Nat /\ s.z \in 0..MaxAltitude /\ s.maxAlt \in Below..MaxAltitude
      /\ {s.motorIgnited, s.liftoff, s.launchRodCleared,
          s.apogeeReached, s.tumbling, s.landed} \subseteq BOOLEAN
  BY DEF Status
<1> QED
  BY <1>2, <1>3, <1>4 DEF StatusOK

(* Every variable of the engine has its type.                               *)
THEOREM EngineTyped == Spec => []TypeOK
<1>1. EngineInvariant => TypeOK
  <2> SUFFICES ASSUME EngineInvariant PROVE TypeOK
    OBVIOUS
  <2>1. \A i \in DOMAIN toSimulate : toSimulate[i] \in Status
    BY DEF EngineInvariant
  <2>2. \A i \in DOMAIN flown : flown[i] \in Flown
    BY DEF EngineInvariant
  <2> QED
    BY <2>1, <2>2, StatusTyped DEF EngineInvariant, Sound, TypeOK, Flown
<1> QED
  BY EngineStaysSound, <1>1, PTL

(* No branch ever has an event in its queue whose source left it with       *)
(* another branch: removeUnattachedEvents at a separation is enough,        *)
(* because every event queued later comes from a part of the branch.        *)
THEOREM EventsStayAttached == Spec => []EventsAttached
<1>1. EngineInvariant => EventsAttached
  <2> SUFFICES ASSUME EngineInvariant PROVE EventsAttached
    OBVIOUS
  <2> DEFINE W == {s \in Status : Sound(s)}
  <2>1. \A s \in W : \A e \in BagToSet(s.queue) : IsAttached(s.active, e)
    BY BagFacts DEF Sound, Status, Attached
  <2>2. status \in W /\ toSimulate \in Seq(W)
    BY DEF EngineInvariant, Sound
  <2> HIDE DEF W
  <2>3. (IF InFlight THEN <<status>> ELSE <<>>) \in Seq(W)
    BY <2>2
  <2>4. Statuses \in Seq(W)
    BY <2>2, <2>3, ConcatProperties DEF Statuses
  <2> QED
    BY <2>1, <2>4 DEF EventsAttached
<1> QED
  BY EngineStaysSound, <1>1, PTL

-----------------------------------------------------------------------------
(* FlightEngine implements FlightBranches: for any rocket and any flight    *)
(* configuration, staging only ever splits the branch in flight.            *)

(* The stages of the branches in a list.                                    *)

Actives(q) == [i \in DOMAIN q |-> q[i].active]

LEMMA PairIsConcat ==
    ASSUME NEW T, NEW a \in T, NEW b \in T
    PROVE  <<a>> \o <<b>> = <<a, b>>
<1> DEFINE ab == <<a>> \o <<b>>
<1>1. <<a>> \in Seq(T) /\ <<b>> \in Seq(T) /\ <<a, b>> \in Seq(T)
  OBVIOUS
<1>2. ab \in Seq(T) /\ Len(ab) = 2 /\ ab[1] = a /\ ab[2] = b
  BY <1>1
<1>3. Len(<<a, b>>) = 2 /\ <<a, b>>[1] = a /\ <<a, b>>[2] = b
  OBVIOUS
<1> HIDE DEF ab
<1>4. ASSUME NEW i \in 1..2 PROVE ab[i] = <<a, b>>[i]
  <2>1. i = 1 \/ i = 2
    OBVIOUS
  <2> QED
    BY <1>2, <1>3, <2>1
<1>5. ab = <<a, b>>
  BY <1>1, <1>2, <1>3, <1>4, SeqEqual
<1> QED
  BY <1>5 DEF ab

LEMMA ActivesTyped ==
    ASSUME NEW T, NEW q \in Seq(T), NEW S, \A i \in DOMAIN q : q[i].active \in S
    PROVE  Actives(q) \in Seq(S) /\ Len(Actives(q)) = Len(q)
<1>1. Len(q) \in Nat /\ DOMAIN q = 1..Len(q)
  OBVIOUS
<1>2. Actives(q) \in [1..Len(q) -> S]
  BY <1>1 DEF Actives
<1> QED
  BY <1>1, <1>2

LEMMA ActivesOfCons ==
    ASSUME NEW s, NEW T, NEW q \in Seq(T)
    PROVE  Actives(<<s>> \o q) = <<s.active>> \o Actives(q)
<1> DEFINE a == <<s>> \o q
           b == <<s.active>> \o Actives(q)
<1>1. Len(q) \in Nat /\ DOMAIN q = 1..Len(q)
  OBVIOUS
<1>2. Actives(q) \in Seq({q[i].active : i \in DOMAIN q}) /\ Len(Actives(q)) = Len(q)
  BY ActivesTyped
<1>3. DOMAIN a = 1..(Len(q) + 1) /\ DOMAIN b = 1..(Len(q) + 1)
  BY <1>1, <1>2
<1>4. ASSUME NEW i \in 1..(Len(q) + 1)
      PROVE  a[i].active = b[i]
  <2>1. CASE i = 1
    BY <1>1, <1>2, <2>1
  <2>2. CASE i # 1
    <3>1. i - 1 \in 1..Len(q)
      BY <1>1, <2>2
    <3>2. a[i] = q[i - 1] /\ b[i] = Actives(q)[i - 1]
      BY <1>1, <1>2, <2>2
    <3> QED
      BY <1>1, <3>1, <3>2 DEF Actives
  <2> QED
    BY <2>1, <2>2
<1>5. b = [i \in 1..(Len(q) + 1) |-> b[i]]
  BY <1>2, <1>3
<1> QED
  BY <1>3, <1>4, <1>5 DEF Actives

LEMMA ActivesOfHead ==
    ASSUME NEW T, NEW q \in Seq(T), q # <<>>
    PROVE  /\ q = <<Head(q)>> \o Tail(q)
           /\ Tail(q) \in Seq(T)
           /\ Actives(q) = <<Head(q).active>> \o Actives(Tail(q))
<1>1. q = <<Head(q)>> \o Tail(q) /\ Tail(q) \in Seq(T)
  OBVIOUS
<1> QED
  BY <1>1, ActivesOfCons

LEMMA ActivesOfAppend ==
    ASSUME NEW T, NEW q \in Seq(T), NEW s
    PROVE  Actives(Append(q, s)) = Append(Actives(q), s.active)
<1> DEFINE a == Append(q, s)
           b == Append(Actives(q), s.active)
<1>1. Len(q) \in Nat /\ DOMAIN q = 1..Len(q)
  OBVIOUS
<1>2. Actives(q) \in Seq({q[i].active : i \in DOMAIN q}) /\ Len(Actives(q)) = Len(q)
  BY ActivesTyped
<1>3. DOMAIN a = 1..(Len(q) + 1) /\ DOMAIN b = 1..(Len(q) + 1)
  BY <1>1, <1>2
<1>4. ASSUME NEW i \in 1..(Len(q) + 1)
      PROVE  a[i].active = b[i]
  <2>1. CASE i = Len(q) + 1
    BY <1>1, <1>2, <2>1
  <2>2. CASE i # Len(q) + 1
    <3>1. i \in 1..Len(q)
      BY <1>1, <2>2
    <3>2. a[i] = q[i] /\ b[i] = Actives(q)[i]
      BY <1>1, <1>2, <3>1
    <3> QED
      BY <1>1, <3>1, <3>2 DEF Actives
  <2> QED
    BY <2>1, <2>2
<1>5. b = [i \in 1..(Len(q) + 1) |-> b[i]]
  BY <1>2, <1>3
<1> QED
  BY <1>3, <1>4, <1>5 DEF Actives

-----------------------------------------------------------------------------
(* The list of branches of FlightBranches, and how the engine changes it.   *)

Flying == Actives(Statuses)
Ended == Actives(flown)

LEMMA Lists ==
    ASSUME EngineInvariant
    PROVE  /\ Actives(toSimulate) \in Seq(SUBSET Stages)
           /\ InFlight => Flying = <<status.active>> \o Actives(toSimulate)
           /\ ~InFlight => Flying = Actives(toSimulate)
<1>1. toSimulate \in Seq({s \in Status : Sound(s)})
  BY DEF EngineInvariant
<1>2. \A i \in DOMAIN toSimulate : toSimulate[i].active \in SUBSET Stages
  BY <1>1 DEF Status
<1>3. Actives(toSimulate) \in Seq(SUBSET Stages)
  BY <1>1, <1>2, ActivesTyped
<1>4. InFlight => Flying = <<status.active>> \o Actives(toSimulate)
  BY <1>1, ActivesOfCons DEF Flying, Statuses
<1>5. ~InFlight => Flying = Actives(toSimulate)
  BY <1>1 DEF Flying, Statuses
<1> QED
  BY <1>3, <1>4, <1>5

(* While a branch is in flight, handling an event or taking a step leaves   *)
(* the branches as they are, but for a separation.                          *)
LEMMA InFlightUnchanged ==
    ASSUME EngineInvariant, EngineInvariant', InFlight, InFlight',
           status'.active = status.active, UNCHANGED <<design, toSimulate, flown>>
    PROVE  UNCHANGED <<design.active, Flying, Ended>>
<1>1. Flying = <<status.active>> \o Actives(toSimulate)
  BY Lists
<1>2. Flying' = <<status'.active>> \o Actives(toSimulate')
  <2>1. toSimulate' \in Seq({s \in Status : Sound(s)})
    BY DEF EngineInvariant
  <2> QED
    BY <2>1, ActivesOfCons DEF Flying, Statuses
<1> QED
  BY <1>1, <1>2 DEF Ended

(* The branch that is started was the first of those waiting.               *)
LEMMA StartBranchUnchanged ==
    ASSUME EngineInvariant, EngineInvariant', StartBranch
    PROVE  UNCHANGED <<design.active, Flying, Ended>>
<1> DEFINE W == {s \in Status : Sound(s)}
<1>1. toSimulate \in Seq(W) /\ toSimulate # <<>> /\ toSimulate' = Tail(toSimulate)
  BY DEF EngineInvariant, StartBranch
<1>2. status'.active = Head(toSimulate).active
  <2> HIDE DEF W
  <2>1. Head(toSimulate) \in W
    BY <1>1, HeadTailProperties
  <2> QED
    BY <2>1, CheckGeometrySound DEF StartBranch, W
<1> HIDE DEF W
<1>3. Flying = Actives(toSimulate)
  BY Lists DEF InFlight, StartBranch
<1>4. /\ Tail(toSimulate) \in Seq(W)
      /\ Actives(toSimulate) = <<Head(toSimulate).active>> \o Actives(Tail(toSimulate))
  BY <1>1, ActivesOfHead
<1>5. Flying' = <<status'.active>> \o Actives(toSimulate')
  <2>1. InFlight'
    BY DEF StartBranch, InFlight
  <2> QED
    BY <1>1, <1>4, <2>1, ActivesOfCons DEF Flying, Statuses
<1> QED
  BY <1>1, <1>2, <1>3, <1>4, <1>5 DEF StartBranch, Ended

(* A branch that has no more events and is not given a step has ended.      *)
LEMMA EventsHandledEnds ==
    ASSUME EngineInvariant, EngineInvariant', EventsHandled,
           status'.active = status.active, ~InFlight'
    PROVE  Branches!End
<1>1. /\ pc = "events" /\ UNCHANGED <<design, toSimulate>>
      /\ flown' = Append(flown, [active |-> status'.active, deployed |-> status'.deployed])
  BY DEF EventsHandled, InFlight
<1>2. Flying = <<status.active>> \o Actives(toSimulate) /\ Actives(toSimulate) \in Seq(SUBSET Stages)
  BY <1>1, Lists DEF InFlight
<1>3. Flying # <<>> /\ Head(Flying) = status.active /\ Tail(Flying) = Actives(toSimulate)
  BY <1>2
<1>4. Flying' = Actives(toSimulate)
  <2>1. toSimulate' \in Seq({s \in Status : Sound(s)})
    BY DEF EngineInvariant
  <2> QED
    BY <1>1, <2>1 DEF Flying, Statuses
<1>5. Ended' = Append(Ended, Head(Flying))
  <2>1. flown \in Seq(Flown)
    BY DEF EngineInvariant
  <2> QED
    BY <1>1, <1>3, <2>1, ActivesOfAppend DEF Ended
<1> QED
  BY <1>1, <1>3, <1>4, <1>5 DEF Branches!End, Flying, Ended, Actives

(* A separation splits the branch in flight, or is ignored.                 *)
LEMMA SeparationSplits ==
    ASSUME EngineInvariant, EngineInvariant', HandleStageSeparation
    PROVE  \/ \E n \in Stages : Branches!Split(n)
           \/ UNCHANGED <<design.active, Flying, Ended>>
<1>1. PICK e \in Due(status) :
         /\ Taken({"STAGE_SEPARATION"}, e)
         /\ LET s == Triggered(status, e)
                n == e.stage
            IN IF ~IsStageActive(s, n - 1)
               THEN status' = s /\ UNCHANGED toSimulate
               ELSE /\ toSimulate' = Push(toSimulate, Booster(s, n))
                    /\ \E found \in Geometries : status' = CheckGeometry(UpperPart(s, n), found)
  BY DEF HandleStageSeparation
<1> DEFINE s == Triggered(status, e)
           n == e.stage
           start == [s EXCEPT !.maxAlt = Below]
           lower == {k \in s.active : k >= n}
           upper == {k \in s.active : k < n}
<1>2. /\ Sound(s) /\ s.active = status.active
      /\ e \in EngineEvents /\ e \in Attached(status.active)
  BY DueEvent, TriggeredSound DEF EngineInvariant
<1>3. n \in Stages \ {0} /\ n \in status.active
  <2>1. n \in Stages \ {0}
    BY <1>1, <1>2 DEF Taken, EngineEvents
  <2>2. NoStage \notin Stages /\ RocketStage \notin Stages
    BY StageNumbers DEF Stages, NoStage, RocketStage
  <2> QED
    BY <1>2, <2>1, <2>2 DEF Attached, IsAttached
<1>4. InFlight /\ InFlight' /\ UNCHANGED <<design, flown>>
  BY DEF HandleStageSeparation, Taken, InFlight
<1> HIDE DEF s
<1>5. CASE ~IsStageActive(s, n - 1)
  BY <1>1, <1>2, <1>4, <1>5, InFlightUnchanged DEF s
<1>6. CASE IsStageActive(s, n - 1)
  <2>1. /\ toSimulate' = <<Booster(s, n)>> \o toSimulate
        /\ \E found \in Geometries : status' = CheckGeometry(UpperPart(s, n), found)
    BY <1>1, <1>6 DEF s, Push
  <2>2. n - 1 \in status.active
    <3>1. n - 1 # -1
      BY <1>3, StagesAssumption DEF Stages
    <3> QED
      BY <1>2, <1>6, <3>1 DEF IsStageActive
  <2>3. Booster(s, n).active = lower /\ status'.active = upper
    <3>1. lower \in SUBSET Stages /\ upper \in SUBSET Stages
      BY <1>2 DEF Sound, Status
    <3>2. Sound(start)
      BY <1>2, BoundsAssumption DEF Sound, Status, Below
    <3> HIDE DEF start, lower, upper
    <3>3. Booster(s, n).active = lower
      BY <3>1, <3>2, KeptSound DEF Booster, start, lower
    <3>4. Sound(UpperPart(s, n)) /\ UpperPart(s, n).active = upper
      BY <1>2, <3>1, KeptSound DEF UpperPart, upper
    <3> QED
      BY <2>1, <3>3, <3>4, CheckGeometrySound
  <2>4. Flying = <<status.active>> \o Actives(toSimulate) /\ Actives(toSimulate) \in Seq(SUBSET Stages)
    BY <1>4, Lists
  <2>5. Flying' = <<upper>> \o (<<lower>> \o Actives(toSimulate))
    <3>1. toSimulate \in Seq({x \in Status : Sound(x)}) /\ toSimulate' \in Seq({x \in Status : Sound(x)})
      BY DEF EngineInvariant
    <3>2. Actives(toSimulate') = <<lower>> \o Actives(toSimulate)
      BY <2>1, <2>3, <3>1, ActivesOfCons
    <3>3. Flying' = <<status'.active>> \o Actives(toSimulate')
      BY <1>4, <3>1, ActivesOfCons DEF Flying, Statuses
    <3> QED
      BY <2>3, <3>2, <3>3
  <2>6. upper = Branches!Upper(status.active, n) /\ lower = Branches!Lower(status.active, n)
    BY <1>2 DEF Branches!Upper, Branches!Lower
  <2> HIDE DEF upper, lower
  <2>7. Flying # <<>> /\ Head(Flying) = status.active /\ Tail(Flying) = Actives(toSimulate)
    BY <2>4
  <2>8. Flying' = <<upper, lower>> \o Tail(Flying)
    <3>1. upper \in SUBSET Stages /\ lower \in SUBSET Stages
      BY <1>2 DEF upper, lower, Sound, Status
    <3>2. Flying' = <<upper, lower>> \o Actives(toSimulate)
      <4> DEFINE T == SUBSET Stages
      <4>1. upper \in T /\ lower \in T /\ Actives(toSimulate) \in Seq(T)
        BY <2>4, <3>1
      <4> HIDE DEF T
      <4>2. \A x, y \in Seq(T) : (x \o y) \o Actives(toSimulate) = x \o (y \o Actives(toSimulate))
        BY <4>1, ConcatAssociative
      <4>3. <<upper>> \in Seq(T) /\ <<lower>> \in Seq(T)
        BY <4>1
      <4>4. <<upper>> \o <<lower>> = <<upper, lower>>
        BY <4>1, PairIsConcat
      <4> QED
        BY <2>5, <4>2, <4>3, <4>4, Zenon
    <3> QED
      BY <2>7, <3>2, Zenon
  <2>9. Branches!Split(n)
    BY <1>3, <1>4, <2>2, <2>6, <2>7, <2>8 DEF Branches!Split, Flying, Actives
  <2> QED
    BY <1>3, <2>9
<1> QED
  BY <1>5, <1>6

-----------------------------------------------------------------------------
(* The theorems.                                                            *)

(* The engine implements FlightBranches: it starts with one branch, the     *)
(* whole rocket, and each of its steps splits the branch in flight, ends    *)
(* it, or changes no branch at all.                                         *)
THEOREM StagingSplitsOnly == Spec => StagesSplitOnly
<1>1. Init => Branches!Init
  <2> SUFFICES ASSUME Init PROVE Branches!Init
    OBVIOUS
  <2>1. design.active \in SUBSET Stages
    BY DesignTyped DEF Init, DesignType
  <2>2. Statuses = <<FirstStatus(design)>>
    BY DEF Init, Statuses, InFlight
  <2>3. FirstStatus(design).active = design.active
    BY FirstStatusSound DEF Init
  <2>4. Flying = <<design.active>>
    BY <2>2, <2>3 DEF Flying, Actives
  <2>5. Ended = <<>>
    BY DEF Init, Ended, Actives
  <2> QED
    BY <2>1, <2>4, <2>5 DEF Branches!Init, Flying, Ended, Actives
<1>2. /\ EngineInvariant /\ EngineInvariant' /\ [Next]_vars
      => [Branches!Next]_<<design.active, Flying, Ended>>
  <2> SUFFICES ASSUME EngineInvariant, EngineInvariant', [Next]_vars
               PROVE  [Branches!Next]_<<design.active, Flying, Ended>>
    OBVIOUS
  <2>1. CASE Handle
    <3>1. CASE HandleStageSeparation
      BY <3>1, SeparationSplits DEF Branches!Next
    <3>2. CASE ~HandleStageSeparation
      <4>1. status'.active = status.active
        BY <2>1, <3>2, VetoedSound, FlagSound, IgnitionSound, BurnoutSound, EjectionChargeSound,
           DeploymentSound, GroundHitSound, TumbleSound, EndSound
           DEF Handle
      <4>2. InFlight /\ InFlight' /\ UNCHANGED <<design, toSimulate, flown>>
        BY <2>1, <3>2 DEF Handle, HandleVetoed, HandleFlag, HandleIgnition, HandleBurnout,
           HandleEjectionCharge, HandleDeployment, HandleGroundHit, HandleTumble, HandleEnd,
           Taken, InFlight
      <4> QED
        BY <4>1, <4>2, InFlightUnchanged
    <3> QED
      BY <3>1, <3>2
  <2>2. CASE StartBranch
    BY <2>2, StartBranchUnchanged
  <2>3. CASE EndSimulation
    BY <2>3 DEF EndSimulation, InFlight, Flying, Statuses, Ended
  <2>4. CASE EventsHandled
    <3>1. status'.active = status.active
      BY <2>4, EventsHandledSound
    <3>2. CASE InFlight'
      <4>1. InFlight /\ UNCHANGED <<design, toSimulate, flown>>
        BY <2>4, <3>2 DEF EventsHandled, InFlight
      <4> QED
        BY <3>1, <3>2, <4>1, InFlightUnchanged
    <3>3. CASE ~InFlight'
      BY <2>4, <3>1, <3>3, EventsHandledEnds DEF Branches!Next
    <3> QED
      BY <3>2, <3>3
  <2>5. CASE Step
    <3>1. InFlight /\ InFlight' /\ UNCHANGED <<design, toSimulate, flown>>
      BY <2>5 DEF Step, InFlight
    <3> QED
      BY <2>5, <3>1, StepSound, InFlightUnchanged
  <2>6. CASE Fail
    <3>1. InFlight /\ InFlight'
      BY <2>6 DEF Fail, InFlight
    <3> QED
      BY <2>6, <3>1 DEF Fail, Flying, Statuses, Ended
  <2>7. CASE UNCHANGED vars
    BY <2>7 DEF vars, InFlight, Flying, Statuses, Ended
  <2> QED
    BY <2>1, <2>2, <2>3, <2>4, <2>5, <2>6, <2>7 DEF Next, Terminated
<1>3. Spec => []EngineInvariant
  BY EngineStaysSound
<1> QED
  BY <1>1, <1>2, <1>3, PTL DEF Spec, StagesSplitOnly, Branches!Spec, Flying, Ended, Actives

Staging == INSTANCE FlightBranchesProofs WITH
    AllStages <- Stages,
    rocket <- design.active,
    flying <- Flying,
    ended <- Ended

(* Whatever sets the separations off and in whatever order, no stage of the *)
(* flight is lost and none is simulated in two branches.                    *)
THEOREM FlightStagesFlyOnce == Spec => []StagesFlyOnce
<1>1. Stages \subseteq Int
  BY DEF Stages
<1>2. Staging!Spec => []Staging!StagesFlyOnce
  BY <1>1, Staging!EveryStageFliesOnce
<1>3. StagesSplitOnly => Staging!Spec
  BY PTL DEF StagesSplitOnly, Branches!Spec, Staging!Spec, Branches!Init, Staging!Init,
     Branches!Next, Staging!Next, Branches!End, Staging!End, Branches!Split, Staging!Split,
     Branches!Upper, Staging!Upper, Branches!Lower, Staging!Lower, Flying, Ended, Actives
<1>4. Staging!StagesFlyOnce => StagesFlyOnce
  BY DEF Staging!StagesFlyOnce, StagesFlyOnce, Branches!StagesFlyOnce, Flying, Ended, Actives
<1> QED
  BY StagingSplitsOnly, <1>2, <1>3, <1>4, PTL

-----------------------------------------------------------------------------
(* The motors, which all statuses share.                                    *)

(* The motor of an event that is due is one of the branch in flight.        *)
LEMMA DueMotor ==
    ASSUME EngineInvariant, NEW e \in Due(status),
           e.type \in {"IGNITION", "BURNOUT", "EJECTION_CHARGE"}
    PROVE  e.item \in Motors /\ StageOf[e.item] \in status.active
<1>1. e \in EngineEvents /\ e \in Attached(status.active)
  BY DueEvent DEF EngineInvariant
<1>2. e.item \in Motors /\ e.stage = StageOf[e.item]
  BY <1>1 DEF EngineEvents
<1>3. StageOf[e.item] \in Stages /\ NoStage \notin Stages /\ RocketStage \notin Stages
  BY <1>2, StageNumbers DEF Stages, NoStage, RocketStage
<1> QED
  BY <1>1, <1>2, <1>3 DEF Attached, IsAttached

LEMMA OnlyOwnMotors ==
    ASSUME EngineInvariant, Next, NEW m \in Motors, motors'[m] # motors[m]
    PROVE  InFlight /\ StageOf[m] \in status.active
<1>1. \A k, v : [motors EXCEPT ![k] = v][m] # motors[m] => k = m
  BY DEF EngineInvariant
<1>2. PICK e \in Due(status) :
         /\ Taken({"IGNITION", "BURNOUT", "EJECTION_CHARGE"}, e)
         /\ e.item = m
  <2>1. CASE HandleIgnition
    <3>1. PICK e \in Due(status) :
             /\ Taken({"IGNITION"}, e)
             /\ \/ UNCHANGED motors
                \/ motors' = [motors EXCEPT ![e.item] = Ignite(@, e.time)]
      BY <2>1 DEF HandleIgnition
    <3> QED
      BY <1>1, <3>1 DEF Taken
  <2>2. CASE HandleBurnout
    <3>1. PICK e \in Due(status) :
             /\ Taken({"BURNOUT"}, e)
             /\ motors' = [motors EXCEPT ![e.item] = BurnOut(@, HasEjectionCharge(e.item))]
      BY <2>2 DEF HandleBurnout
    <3> QED
      BY <1>1, <3>1 DEF Taken
  <2>3. CASE HandleEjectionCharge
    <3>1. PICK e \in Due(status) :
             /\ Taken({"EJECTION_CHARGE"}, e)
             /\ motors' = [motors EXCEPT ![e.item] = Expend(@)]
      BY <2>3 DEF HandleEjectionCharge
    <3> QED
      BY <1>1, <3>1 DEF Taken
  <2>4. CASE ~(HandleIgnition \/ HandleBurnout \/ HandleEjectionCharge)
    BY <2>4 DEF Next, Handle, StartBranch, EndSimulation, HandleVetoed, HandleFlag,
       HandleStageSeparation, HandleDeployment, HandleGroundHit, HandleTumble, HandleEnd,
       EventsHandled, Step, Fail, Terminated, vars
  <2> QED
    BY <2>1, <2>2, <2>3, <2>4
<1> QED
  BY <1>2, DueMotor DEF Taken, InFlight

LEMMA WaitingStagesApart ==
    ASSUME EngineInvariant, StagesFlyOnce, InFlight, NEW i \in DOMAIN toSimulate
    PROVE  toSimulate[i].active \cap status.active = {}
<1> DEFINE q == Actives(toSimulate)
           branch == Flying \o Ended
<1>1. /\ toSimulate \in Seq({s \in Status : Sound(s)})
      /\ q \in Seq(SUBSET Stages)
      /\ Flying = <<status.active>> \o q
  BY Lists DEF EngineInvariant
<1>2. Len(q) = Len(toSimulate) /\ Len(toSimulate) \in Nat /\ i \in 1..Len(q)
      /\ q[i] = toSimulate[i].active
  BY <1>1 DEF Actives
<1>3. Ended \in Seq(SUBSET Stages)
  <2>1. flown \in Seq(Flown)
    BY DEF EngineInvariant
  <2>2. \A j \in DOMAIN flown : flown[j] \in Flown
    BY <2>1
  <2>3. \A j \in DOMAIN flown : flown[j].active \in SUBSET Stages
    BY <2>2 DEF Flown
  <2> QED
    BY <2>1, <2>3, ActivesTyped DEF Ended
<1> HIDE DEF q
<1>4. /\ Flying \in Seq(SUBSET Stages) /\ Len(Flying) = Len(q) + 1
      /\ Flying[1] = status.active /\ Flying[i + 1] = q[i]
  <2>1. status.active \in SUBSET Stages
    BY DEF EngineInvariant, Sound, Status
  <2> QED
    BY <1>1, <1>2, <2>1
<1>5. /\ 1 \in DOMAIN branch /\ branch[1] = Flying[1]
      /\ i + 1 \in DOMAIN branch /\ branch[i + 1] = Flying[i + 1]
  BY <1>2, <1>3, <1>4
<1>6. \A j, k \in DOMAIN branch : j # k => branch[j] \cap branch[k] = {}
  BY DEF StagesFlyOnce, Branches!StagesFlyOnce, Flying, Ended, Actives
<1> HIDE DEF branch
<1>7. i + 1 # 1
  BY <1>2
<1> QED
  BY <1>2, <1>4, <1>5, <1>6, <1>7

(* "Igniting one ignites it for every status that holds it": still, nothing *)
(* that happens to the branch in flight changes a motor of a branch that    *)
(* waits. It needs both earlier theorems: an event about a motor is only    *)
(* handled by the branch that carries the motor, and no two branches carry  *)
(* the same.                                                                *)
THEOREM WaitingMotorsKept == Spec => WaitingMotorsUntouched
<1> DEFINE Untouched == \A i \in DOMAIN toSimulate : \A m \in ActiveMotors(toSimulate[i]) :
                           motors'[m] = motors[m]
<1>1. EngineInvariant /\ StagesFlyOnce /\ [Next]_vars => [Untouched]_vars
  <2> SUFFICES ASSUME EngineInvariant, StagesFlyOnce, Next,
                      NEW i \in DOMAIN toSimulate, NEW m \in ActiveMotors(toSimulate[i])
               PROVE  motors'[m] = motors[m]
    OBVIOUS
  <2>1. m \in Motors /\ StageOf[m] \in toSimulate[i].active
    BY StageNumbers DEF ActiveMotors, IsStageActive
  <2> QED
    BY <2>1, OnlyOwnMotors, WaitingStagesApart
<1> QED
  BY EngineStaysSound, FlightStagesFlyOnce, <1>1, PTL DEF Spec, WaitingMotorsUntouched
=============================================================================
