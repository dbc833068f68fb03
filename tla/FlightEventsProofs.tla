-------------------------- MODULE FlightEventsProofs --------------------------
(* What TLAPS proves about the events of a branch: what is queued is not    *)
(* forgotten, comes in its order, and happens once.                         *)
EXTENDS FlightEngineProofs, WellFoundedInduction

-----------------------------------------------------------------------------
(* The first events of a queue.                                             *)

NatOrder == {p \in Nat \X Nat : p[1] < p[2]}

LEMMA NatOrderIsWellFounded == IsWellFoundedOn(NatOrder, Nat)
BY NatLessThanWellFounded DEF OpToRel, NatOrder

LEMMA LeastNatural ==
    ASSUME NEW T \in SUBSET Nat, T # {}
    PROVE  \E n \in T : \A m \in T : n <= m
<1>1. PICK n \in T : \A m \in T : <<m, n>> \notin NatOrder
  BY NatOrderIsWellFounded, WFMin
<1>2. ASSUME NEW m \in T PROVE n <= m
  <2>1. <<m, n>> \in Nat \X Nat /\ <<m, n>>[1] = m /\ <<m, n>>[2] = n
    OBVIOUS
  <2>2. ~(m < n)
    BY <1>1, <2>1 DEF NatOrder
  <2> QED
    BY <2>2
<1> QED
  BY <1>2

LEMMA OrdinalIsNatural == \A type \in EventTypes : Ordinal[type] \in Nat
BY DEF EventTypes, Ordinal

(* No queue that is not empty is without a first event: earliest, then from *)
(* the highest stage number, then the least type.                           *)
LEMMA FirstEvent ==
    ASSUME NEW s, Sound(s), NEW x \in DOMAIN s.queue
    PROVE  \E f \in Firsts(s.queue) : f.time <= x.time
<1> DEFINE Q == DOMAIN s.queue
           Times == {y.time : y \in Q}
<1>1. Q \subseteq EngineEvents /\ BagToSet(s.queue) = Q
  BY BagFacts DEF Sound, Status
<1>2. \A y \in Q : /\ y.time \in Nat /\ y.stage \in RocketStage..NoStage
                   /\ NoStage - y.stage \in Nat /\ Ordinal[y.type] \in Nat
  <2>1. NoStage \in Int /\ RocketStage \in Int
    BY StageNumbers DEF NoStage, RocketStage
  <2> QED
    BY <1>1, <2>1, OrdinalIsNatural DEF EngineEvents, EventType
<1> HIDE DEF Q
<1>3. PICK a \in Q : \A y \in Q : a.time <= y.time
  <2>1. Times \in SUBSET Nat /\ Times # {}
    BY <1>2 DEF Q
  <2>2. PICK n \in Times : \A m \in Times : n <= m
    BY <2>1, LeastNatural
  <2> QED
    BY <2>2
<1> DEFINE Earliest == {y \in Q : y.time = a.time}
           Heights == {NoStage - y.stage : y \in Earliest}
<1>4. PICK b \in Earliest : \A y \in Earliest : y.stage <= b.stage
  <2>1. Heights \in SUBSET Nat /\ Heights # {}
    BY <1>2, <1>3
  <2> HIDE DEF Earliest
  <2>2. PICK n \in Heights : \A m \in Heights : n <= m
    BY <2>1, LeastNatural
  <2>3. PICK b \in Earliest : n = NoStage - b.stage
    BY <2>2
  <2>4. \A y \in Earliest : NoStage - b.stage <= NoStage - y.stage
    BY <2>2, <2>3
  <2>5. \A y \in Earliest : y.stage \in Int /\ NoStage \in Int
    BY <1>2, StageNumbers DEF Earliest, NoStage, RocketStage
  <2> QED
    BY <2>3, <2>4, <2>5
<1> DEFINE Lowest == {y \in Earliest : y.stage = b.stage}
           Ordinals == {Ordinal[y.type] : y \in Lowest}
<1>5. PICK f \in Lowest : \A y \in Lowest : Ordinal[f.type] <= Ordinal[y.type]
  <2>1. Ordinals \in SUBSET Nat /\ Ordinals # {}
    BY <1>2, <1>4
  <2> HIDE DEF Lowest
  <2>2. PICK n \in Ordinals : \A m \in Ordinals : n <= m
    BY <2>1, LeastNatural
  <2> QED
    BY <2>2
<1>6. f \in Q /\ f.time = a.time /\ f.stage = b.stage
  BY <1>4, <1>5
<1>7. ASSUME NEW y \in Q, Before(y, f) PROVE FALSE
  <2>1. y.time \in Nat /\ f.time \in Nat /\ a.time <= y.time
    BY <1>2, <1>3, <1>6
  <2>2. y.time = f.time
    BY <1>6, <1>7, <2>1 DEF Before
  <2>3. y.stage <= f.stage /\ y.stage \in Int /\ f.stage \in Int
    BY <1>2, <1>4, <1>6, <2>2, StageNumbers DEF NoStage, RocketStage
  <2>4. y.stage = f.stage /\ Ordinal[y.type] < Ordinal[f.type]
    BY <1>7, <2>1, <2>2, <2>3 DEF Before
  <2>5. y \in Lowest
    BY <1>6, <2>2, <2>4
  <2> QED
    BY <1>2, <1>5, <1>6, <2>4, <2>5
<1>8. f \in Firsts(s.queue)
  BY <1>1, <1>6, <1>7 DEF Firsts
<1> QED
  BY <1>3, <1>6, <1>8 DEF Q

(* When no event is due, nothing in the queue lies behind.                  *)
LEMMA NothingDue ==
    ASSUME NEW s, Sound(s), Due(s) = {}, NEW x \in DOMAIN s.queue
    PROVE  x.time > s.time
<1>1. PICK f \in Firsts(s.queue) : f.time <= x.time
  BY FirstEvent
<1>2. s.motorIgnited /\ ~(f.time <= s.time)
  BY <1>1 DEF Due
<1>3. f.time \in Nat /\ x.time \in Nat /\ s.time \in Nat
  BY <1>1, BagFacts DEF Firsts, Sound, Status, EngineEvents, EventType
<1> QED
  BY <1>1, <1>2, <1>3

-----------------------------------------------------------------------------
(* What is in a queue that events are added to or taken from.               *)

LEMMA AddQueue ==
    ASSUME NEW s, Sound(s), NEW E \in SUBSET EngineEvents
    PROVE  /\ Add(s, E) = [s EXCEPT !.queue = Add(s, E).queue]
           /\ DOMAIN Add(s, E).queue = DOMAIN s.queue \cup E
           /\ \A x \in DOMAIN s.queue \ E : Add(s, E).queue[x] = s.queue[x]
           /\ \A x \in E \ DOMAIN s.queue : Add(s, E).queue[x] = 1
<1> DEFINE q == s.queue (+) SetToBag(E)
<1>1. s \in Status /\ s.queue \in BagsOf(EngineEvents)
  BY DEF Sound, Status
<1>2. SetToBag(E) \in BagsOf(EngineEvents) /\ DOMAIN SetToBag(E) = E
  BY BagOfSet
<1>3. DOMAIN q = DOMAIN s.queue \cup DOMAIN SetToBag(E)
  <2>1. SetToBag(E) \in BagsOf(EngineEvents)
    BY <1>2
  <2> QED
    BY ZenonT(40), <1>1, <2>1, BagAdd
<1>4. \A x \in DOMAIN s.queue \ E : q[x] = s.queue[x]
  BY <1>1, <1>2, BagFacts DEF (+)
<1>5. \A x \in E \ DOMAIN s.queue : q[x] = 1
  BY <1>1, <1>2 DEF (+), SetToBag
<1> HIDE DEF q
<1>6. Add(s, E) = [s EXCEPT !.queue = q]
  BY DEF Add, q
<1> QED
  BY <1>1, <1>2, <1>3, <1>4, <1>5, <1>6 DEF Status

LEMMA AddCopiesQueue ==
    ASSUME NEW s, Sound(s), NEW e \in EngineEvents, NEW n \in Nat
    PROVE  /\ AddCopies(s, e, n) = [s EXCEPT !.queue = AddCopies(s, e, n).queue]
           /\ DOMAIN s.queue \subseteq DOMAIN AddCopies(s, e, n).queue
           /\ DOMAIN AddCopies(s, e, n).queue \subseteq DOMAIN s.queue \cup {e}
           /\ \A x \in DOMAIN s.queue \ {e} : AddCopies(s, e, n).queue[x] = s.queue[x]
<1> DEFINE X == IF n = 0 THEN {} ELSE {e}
           C == [x \in X |-> n]
           q == s.queue (+) C
<1>1. s \in Status /\ s.queue \in BagsOf(EngineEvents)
  BY DEF Sound, Status
<1>2. X \in SUBSET EngineEvents /\ C \in [X -> Nat \ {0}] /\ X \subseteq {e}
  OBVIOUS
<1> HIDE DEF X
<1>3. C \in BagsOf(EngineEvents) /\ DOMAIN C = X
  BY <1>2, BagOfFunction
<1> HIDE DEF C
<1>4. DOMAIN q = DOMAIN s.queue \cup X
  BY ZenonT(40), <1>1, <1>3, BagAdd
<1>5. \A x \in DOMAIN s.queue \ X : q[x] = s.queue[x]
  BY <1>1, <1>3, BagFacts DEF (+)
<1> HIDE DEF q
<1>6. AddCopies(s, e, n) = [s EXCEPT !.queue = q]
  BY DEF AddCopies, q, C, X
<1> QED
  BY <1>1, <1>2, <1>4, <1>5, <1>6 DEF Status

LEMMA KeptQueue ==
    ASSUME NEW s, Sound(s), NEW active \in SUBSET Stages
    PROVE  LET t == Kept(s, active)
           IN  /\ t = [s EXCEPT !.active = active, !.queue = t.queue]
               /\ DOMAIN t.queue = {x \in DOMAIN s.queue : IsAttached(active, x)}
               /\ \A x \in DOMAIN t.queue : t.queue[x] = s.queue[x]
<1> DEFINE q == RemoveUnattached(s.queue, active)
<1>1. s \in Status /\ BagToSet(s.queue) = DOMAIN s.queue
  BY BagFacts DEF Sound, Status
<1>2. /\ DOMAIN q = {x \in DOMAIN s.queue : IsAttached(active, x)}
      /\ \A x \in DOMAIN q : q[x] = s.queue[x]
  BY <1>1 DEF RemoveUnattached
<1> HIDE DEF q
<1>3. Kept(s, active) = [s EXCEPT !.active = active, !.queue = q]
  BY <1>1 DEF Kept, q, Status
<1> QED
  BY <1>1, <1>2, <1>3 DEF Status

LEMMA TakeQueue ==
    ASSUME NEW S, NEW B \in BagsOf(S), NEW e \in DOMAIN B
    PROVE  LET C == B (-) SetToBag({e})
           IN  /\ DOMAIN B \ {e} \subseteq DOMAIN C /\ DOMAIN C \subseteq DOMAIN B
               /\ \A x \in DOMAIN C : C[x] <= B[x]
               /\ B[e] = 1 => e \notin DOMAIN C
<1> DEFINE F == [x \in DOMAIN B |-> IF x \in DOMAIN SetToBag({e}) THEN B[x] - SetToBag({e})[x] ELSE B[x]]
           Y == {x \in DOMAIN F : F[x] > 0}
           C == B (-) SetToBag({e})
<1>1. B \in [DOMAIN B -> Nat \ {0}]
  BY BagFacts
<1>2. F = [x \in DOMAIN B |-> IF x = e THEN B[x] - 1 ELSE B[x]]
  BY DEF SetToBag
<1>3. C = [x \in Y |-> F[x]]
  BY DEF (-)
<1> HIDE DEF F, C
<1>4. DOMAIN C = {x \in DOMAIN B : F[x] > 0} /\ \A x \in DOMAIN C : C[x] = F[x]
  BY <1>2, <1>3
<1>5. \A x \in DOMAIN B : F[x] = (IF x = e THEN B[x] - 1 ELSE B[x]) /\ B[x] \in Nat \ {0}
  BY <1>1, <1>2
<1>6. /\ DOMAIN B \ {e} \subseteq DOMAIN C /\ DOMAIN C \subseteq DOMAIN B
      /\ \A x \in DOMAIN C : C[x] <= B[x]
      /\ B[e] = 1 => e \notin DOMAIN C
  BY <1>4, <1>5
<1> QED
  BY <1>6 DEF C

-----------------------------------------------------------------------------
(* What handling an event makes of a status.                                *)

OnceTypes == {"APOGEE", "LAUNCHROD", "GROUND_HIT"}

(* t is s without e and with nothing but ignitions added: e was refused.    *)
Refused(s, e, t) ==
    /\ t.active = s.active /\ t.deployed = s.deployed
    /\ t.time >= s.time /\ t.time >= e.time
    /\ t.apogeeReached = s.apogeeReached /\ t.launchRodCleared = s.launchRodCleared
    /\ t.landed = s.landed
    /\ DOMAIN s.queue \ {e} \subseteq DOMAIN t.queue
    /\ \A x \in DOMAIN t.queue \ DOMAIN s.queue : x.type = "IGNITION"
    /\ \A x \in DOMAIN t.queue : x.type \in OnceTypes =>
          /\ x \in DOMAIN s.queue /\ t.queue[x] <= s.queue[x]
          /\ x = e => s.queue[e] # 1

Separation(e, n) ==
    FlightEvent("STAGE_SEPARATION", e.time + design.separationDelay[n], n, None)
Deployment(e, d) ==
    FlightEvent("RECOVERY_DEVICE_DEPLOYMENT", e.time + AtLeastOne(design.deployDelay[d]),
                StageOf[d], d)

(* The queue of t has what e sets off in place of e, and may have events of *)
(* other types besides.                                                     *)
SetsOff(s, e, t) ==
    /\ t.active = s.active /\ t.time >= s.time /\ t.time >= e.time
    /\ DOMAIN s.queue \ {e} \subseteq DOMAIN t.queue
    /\ \A n \in s.active \ {0} : Separates(e, n) => Separation(e, n) \in DOMAIN t.queue
    /\ \A d \in Devices \ s.deployed :
          StageOf[d] \in s.active /\ Deploys(e, d) => Deployment(e, d) \in DOMAIN t.queue
    /\ \A x \in DOMAIN t.queue \ DOMAIN s.queue :
          x.type = "RECOVERY_DEVICE_DEPLOYMENT" =>
             /\ x.item \in Devices \ s.deployed /\ Deploys(e, x.item)
             /\ x = Deployment(e, x.item)
    /\ \A x \in DOMAIN t.queue : x.type \in OnceTypes =>
          /\ x \in DOMAIN s.queue /\ t.queue[x] <= s.queue[x]
          /\ x = e => s.queue[e] # 1

LEMMA PollRefuses ==
    ASSUME NEW s, Sound(s), NEW e \in Due(s)
    PROVE  /\ Refused(s, e, Poll(s, e))
           /\ Poll(s, e) = [s EXCEPT !.time = Poll(s, e).time, !.queue = Poll(s, e).queue]
           /\ DOMAIN Poll(s, e).queue \subseteq DOMAIN s.queue
           /\ Poll(s, e).time \in Nat
<1> DEFINE q == s.queue (-) SetToBag({e})
           now == IF ~s.motorIgnited /\ e.time > s.time THEN e.time ELSE s.time
<1>1. s \in Status /\ s.queue \in BagsOf(EngineEvents) /\ e \in DOMAIN s.queue
  BY BagFacts DEF Sound, Status, Due, Firsts
<1>2. /\ DOMAIN s.queue \ {e} \subseteq DOMAIN q /\ DOMAIN q \subseteq DOMAIN s.queue
      /\ \A x \in DOMAIN q : q[x] <= s.queue[x]
      /\ s.queue[e] = 1 => e \notin DOMAIN q
  BY <1>1, TakeQueue
<1>3. e.time \in Nat /\ s.time \in Nat
  BY <1>1, DueEvent DEF Status, EngineEvents, EventType
<1>4. now \in Nat /\ now >= s.time /\ now >= e.time
  BY <1>3 DEF Due
<1>5. Poll(s, e) = [s EXCEPT !.time = now, !.queue = q]
  BY <1>1 DEF Poll, Status
<1> HIDE DEF q, now
<1> QED
  BY <1>1, <1>2, <1>4, <1>5 DEF Refused, Status, OnceTypes

LEMMA IgnitionsRefuse ==
    ASSUME NEW s, Sound(s), NEW e \in Due(s), design \in Designs
    PROVE  LET t == QueueIgnitions(Poll(s, e), e)
           IN  /\ Refused(s, e, t)
               /\ t = [s EXCEPT !.time = t.time, !.queue = t.queue]
<1> DEFINE p == Poll(s, e)
           E == {FlightEvent("IGNITION", p.time + design.ignitionDelay[m], StageOf[m], m) :
                    m \in {x \in ActiveMotors(p) : Ignites(p, e, x)}}
           t == QueueIgnitions(p, e)
<1>1. /\ Refused(s, e, p) /\ p = [s EXCEPT !.time = p.time, !.queue = p.queue]
      /\ DOMAIN p.queue \subseteq DOMAIN s.queue
      /\ p.time \in Nat /\ Sound(p) /\ s \in Status
  BY PollRefuses, DueEvent, PollSound DEF Sound
<1>2. E \in SUBSET EngineEvents
  <2>1. p.active \in SUBSET Stages
    BY <1>1 DEF Sound, Status
  <2>2. \A m \in ActiveMotors(p) : m \in Motors /\ StageOf[m] \in p.active
    BY <2>1, StageNumbers DEF ActiveMotors, IsStageActive
  <2>3. design.ignitionDelay \in [Motors -> Nat]
    BY DesignTyped DEF DesignType
  <2>4. \A m \in Motors : p.time + design.ignitionDelay[m] \in Nat
    BY <1>1, <2>3
  <2>5. \A m \in ActiveMotors(p) :
          FlightEvent("IGNITION", p.time + design.ignitionDelay[m], StageOf[m], m) \in Attached(p.active)
    BY <2>1, <2>2, <2>4, MotorEvent
  <2> QED
    BY <2>5 DEF Attached
<1>3. \A x \in E : x.type = "IGNITION"
  BY DEF FlightEvent
<1>4. t = Add(p, E)
  BY DEF QueueIgnitions
<1> HIDE DEF p, E, t
<1>5. /\ t = [p EXCEPT !.queue = t.queue]
      /\ DOMAIN t.queue = DOMAIN p.queue \cup E
      /\ \A x \in DOMAIN p.queue \ E : t.queue[x] = p.queue[x]
  BY <1>1, <1>2, <1>4, AddQueue
<1>6. t = [s EXCEPT !.time = t.time, !.queue = t.queue]
  BY <1>1, <1>5 DEF Sound, Status
<1>7. /\ t.active = p.active /\ t.deployed = p.deployed /\ t.time = p.time
      /\ t.apogeeReached = p.apogeeReached /\ t.launchRodCleared = p.launchRodCleared
      /\ t.landed = p.landed
  BY <1>1, <1>5 DEF Sound, Status
<1>8. Refused(s, e, t)
  BY <1>1, <1>3, <1>5, <1>7 DEF Refused, OnceTypes
<1> QED
  BY <1>6, <1>8 DEF p, t

(* The separations and deployments that e sets off are added in turn.       *)
LEMMA TriggeredSetsOff ==
    ASSUME NEW s, Sound(s), NEW e \in Due(s), design \in Designs
    PROVE  LET t == Triggered(s, e)
           IN  /\ SetsOff(s, e, t)
               /\ t = [s EXCEPT !.time = t.time, !.queue = t.queue]
               /\ \A x \in DOMAIN t.queue \ DOMAIN s.queue :
                     x.type \in {"IGNITION", "STAGE_SEPARATION", "RECOVERY_DEVICE_DEPLOYMENT"}
<1> DEFINE a == QueueIgnitions(Poll(s, e), e)
           b == QueueSeparations(a, e)
           t == QueueDeployments(b, e)
           Off == {n \in a.active \ {0} : Separates(e, n)}
           Open == {d \in Devices \ b.deployed : IsStageActive(b, StageOf[d]) /\ Deploys(e, d)}
           E == {Separation(e, n) : n \in Off}
           F == {Deployment(e, d) : d \in Open}
<1>1. e \in EngineEvents /\ e.time \in Nat /\ s \in Status
  BY DueEvent DEF EngineEvents, EventType, Sound
<1>2. /\ Refused(s, e, a) /\ a = [s EXCEPT !.time = a.time, !.queue = a.queue]
      /\ Sound(a)
  BY <1>1, IgnitionsRefuse, PollSound, QueueIgnitionsSound
<1>3. Sound(b) /\ b = Add(a, E) /\ Sound(t) /\ t = Add(b, F)
  BY <1>1, <1>2, QueueSeparationsSound, QueueDeploymentsSound
     DEF QueueSeparations, QueueDeployments, Separation, Deployment
<1>4. E \in SUBSET EngineEvents
  <2>1. a.active \in SUBSET Stages
    BY <1>2 DEF Sound, Status
  <2>2. design.separationDelay \in [Stages -> Nat]
    BY DesignTyped DEF DesignType
  <2>3. \A n \in Stages : e.time + design.separationDelay[n] \in Nat
    BY <1>1, <2>2
  <2>4. \A n \in Off : Separation(e, n) \in Attached(a.active)
    BY <2>1, <2>3, SeparationEvent DEF Separation
  <2> QED
    BY <2>4 DEF Attached
<1>5. F \in SUBSET EngineEvents /\ \A d \in Open : StageOf[d] \in b.active
  <2>1. b.active \in SUBSET Stages
    BY <1>3 DEF Sound, Status
  <2>2. design.deployDelay \in [Devices -> Nat]
    BY DesignTyped DEF DesignType
  <2>3. \A d \in Devices : e.time + AtLeastOne(design.deployDelay[d]) \in Nat
    BY <1>1, <2>2 DEF AtLeastOne
  <2>4. \A d \in Open : StageOf[d] \in b.active
    BY StageNumbers DEF IsStageActive
  <2>5. \A d \in Open : Deployment(e, d) \in Attached(b.active)
    BY <2>1, <2>3, <2>4, DeploymentEvent DEF Deployment
  <2> QED
    BY <2>4, <2>5 DEF Attached
<1>6. /\ \A x \in E : x.type = "STAGE_SEPARATION"
      /\ \A x \in F : x.type = "RECOVERY_DEVICE_DEPLOYMENT"
      /\ \A d : Deployment(e, d).item = d
  BY DEF FlightEvent, Separation, Deployment
<1> HIDE DEF a, E, F
<1>7. /\ b = [a EXCEPT !.queue = b.queue]
      /\ DOMAIN b.queue = DOMAIN a.queue \cup E
      /\ \A x \in DOMAIN a.queue \ E : b.queue[x] = a.queue[x]
  BY <1>2, <1>3, <1>4, AddQueue
<1>8. b.active = s.active /\ b.deployed = s.deployed /\ b.time = a.time
  BY <1>1, <1>2, <1>7 DEF Sound, Status
<1> HIDE DEF b, Open
<1>9. /\ t = [b EXCEPT !.queue = t.queue]
      /\ DOMAIN t.queue = DOMAIN b.queue \cup F
      /\ \A x \in DOMAIN b.queue \ F : t.queue[x] = b.queue[x]
  BY <1>3, <1>5, AddQueue
<1> HIDE DEF t, Off
<1>10. t.active = s.active /\ t.deployed = s.deployed /\ t.time = a.time
  BY <1>3, <1>8, <1>9 DEF Sound, Status
<1>11. t = [s EXCEPT !.time = t.time, !.queue = t.queue]
  <2>1. a \in Status /\ b \in Status
    BY <1>2, <1>3 DEF Sound
  <2>2. b = [s EXCEPT !.time = b.time, !.queue = b.queue]
    BY <1>1, <1>2, <1>7, <2>1 DEF Status
  <2> QED
    BY <1>1, <1>9, <2>1, <2>2 DEF Status
<1>12. ASSUME NEW n \in s.active \ {0}, Separates(e, n)
       PROVE  Separation(e, n) \in DOMAIN t.queue
  <2>1. n \in Off
    BY <1>2, <1>12 DEF Off, Refused
  <2> QED
    BY <1>7, <1>9, <2>1 DEF E
<1>13. ASSUME NEW d \in Devices \ s.deployed, StageOf[d] \in s.active, Deploys(e, d)
       PROVE  Deployment(e, d) \in DOMAIN t.queue
  <2>1. d \in Open
    BY <1>8, <1>13 DEF Open, IsStageActive
  <2> QED
    BY <1>9, <2>1 DEF F
<1>14. ASSUME NEW x \in DOMAIN t.queue \ DOMAIN s.queue
       PROVE  /\ x \in F \/ x.type \in {"IGNITION", "STAGE_SEPARATION"}
              /\ x.type \in {"IGNITION", "STAGE_SEPARATION", "RECOVERY_DEVICE_DEPLOYMENT"}
  BY <1>2, <1>6, <1>7, <1>9 DEF Refused
<1>15. \A x \in F : x.item \in Devices \ s.deployed /\ Deploys(e, x.item) /\ x = Deployment(e, x.item)
  BY <1>6, <1>8 DEF F, Open
<1>16. ASSUME NEW x \in DOMAIN t.queue, x.type \in OnceTypes
       PROVE  /\ x \in DOMAIN s.queue /\ t.queue[x] <= s.queue[x]
              /\ x = e => s.queue[e] # 1
  <2>1. x \notin F /\ x \notin E
    BY <1>6, <1>16 DEF OnceTypes
  <2>2. x \in DOMAIN a.queue /\ t.queue[x] = a.queue[x]
    BY <1>7, <1>9, <2>1
  <2> QED
    BY <1>2, <1>16, <2>2 DEF Refused
<1>17. DOMAIN s.queue \ {e} \subseteq DOMAIN t.queue /\ t.time >= s.time /\ t.time >= e.time
  BY <1>2, <1>7, <1>9, <1>10 DEF Refused
<1>18. SetsOff(s, e, t)
  BY <1>10, <1>12, <1>13, <1>14, <1>15, <1>16, <1>17 DEF SetsOff
<1> QED
  BY <1>11, <1>14, <1>18 DEF Triggered, t, b, a

RememberedTypes == {"BURNOUT", "EJECTION_CHARGE", "STAGE_SEPARATION", "RECOVERY_DEVICE_DEPLOYMENT"}

(* e was handled, which made t of s.                                        *)
Handled(s, e, t) ==
    /\ SetsOff(s, e, t)
    /\ t.deployed = IF e.type = "RECOVERY_DEVICE_DEPLOYMENT" THEN s.deployed \cup {e.item}
                                                             ELSE s.deployed
    /\ t.apogeeReached = (s.apogeeReached \/ e.type = "APOGEE")
    /\ t.launchRodCleared = (s.launchRodCleared \/ e.type = "LAUNCHROD")
    /\ t.landed = (s.landed \/ e.type = "GROUND_HIT")
    /\ \A x \in DOMAIN t.queue \ DOMAIN s.queue :
          /\ x.type = "BURNOUT" =>
                /\ e.type = "IGNITION" /\ x.item = e.item
                /\ x.time = t.time + BurnTime[e.item]
          /\ x.type = "EJECTION_CHARGE" =>
                /\ e.type = "BURNOUT" /\ x.item = e.item /\ HasEjectionCharge(e.item)

(* p has the flags and the parts of t, or some of them, at a later time.    *)
Continues(p, t) ==
    /\ p.active \subseteq t.active /\ p.deployed = t.deployed /\ p.time >= t.time
    /\ p.apogeeReached = t.apogeeReached /\ p.launchRodCleared = t.launchRodCleared
    /\ p.landed = t.landed
    /\ \A x \in DOMAIN t.queue : IsAttached(p.active, x) => x \in DOMAIN p.queue
    /\ \A x \in DOMAIN p.queue \ DOMAIN t.queue : x.type \notin RememberedTypes

AddsNoneOnce(p, t) ==
    \A x \in DOMAIN p.queue : x.type \in OnceTypes =>
        x \in DOMAIN t.queue /\ p.queue[x] <= t.queue[x]

LEMMA SetsOffGrown ==
    ASSUME NEW s, NEW e, NEW t, SetsOff(s, e, t), NEW u, NEW E,
           u.active = t.active, u.time = t.time,
           DOMAIN t.queue \subseteq DOMAIN u.queue, DOMAIN u.queue \subseteq DOMAIN t.queue \cup E,
           \A x \in DOMAIN t.queue \ E : u.queue[x] = t.queue[x],
           \A x \in E : x.type \notin OnceTypes \cup {"RECOVERY_DEVICE_DEPLOYMENT"}
    PROVE  SetsOff(s, e, u)
<1>1. ASSUME NEW x \in DOMAIN u.queue, x.type \in OnceTypes
      PROVE  /\ x \in DOMAIN s.queue /\ u.queue[x] <= s.queue[x]
             /\ x = e => s.queue[e] # 1
  <2>1. x \in DOMAIN t.queue /\ u.queue[x] = t.queue[x]
    BY <1>1
  <2> QED
    BY <1>1, <2>1 DEF SetsOff
<1>2. \A x \in DOMAIN u.queue \ DOMAIN s.queue : x.type = "RECOVERY_DEVICE_DEPLOYMENT" =>
         x \in DOMAIN t.queue
  OBVIOUS
<1> QED
  BY <1>1, <1>2 DEF SetsOff

LEMMA ContinuesItself ==
    ASSUME NEW s, Sound(s)
    PROVE  Continues(s, s) /\ AddsNoneOnce(s, s)
<1>1. s.time \in Nat /\ s.queue \in [DOMAIN s.queue -> Nat \ {0}]
  BY BagFacts DEF Sound, Status
<1> QED
  BY <1>1 DEF Continues, AddsNoneOnce

LEMMA ContinuesOn ==
    ASSUME NEW p, Sound(p), NEW t, Sound(t), NEW u, Sound(u), Continues(p, t), Continues(t, u)
    PROVE  Continues(p, u)
<1>1. p.time \in Nat /\ t.time \in Nat /\ u.time \in Nat
  BY DEF Sound, Status
<1>2. \A x : IsAttached(p.active, x) => IsAttached(t.active, x)
  BY DEF Continues, IsAttached
<1> QED
  BY <1>1, <1>2 DEF Continues

LEMMA ContinuesFurther ==
    ASSUME NEW p, Sound(p), NEW t, Sound(t), NEW u, Sound(u),
           Continues(p, t), AddsNoneOnce(p, t), Continues(t, u), AddsNoneOnce(t, u)
    PROVE  Continues(p, u) /\ AddsNoneOnce(p, u)
<1>1. Continues(p, u)
  BY ContinuesOn
<1>2. ASSUME NEW x \in DOMAIN p.queue, x.type \in OnceTypes
      PROVE  x \in DOMAIN u.queue /\ p.queue[x] <= u.queue[x]
  <2>1. x \in DOMAIN t.queue /\ x \in DOMAIN u.queue
        /\ p.queue[x] <= t.queue[x] /\ t.queue[x] <= u.queue[x]
    BY <1>2 DEF AddsNoneOnce
  <2>2. p.queue[x] \in Nat /\ t.queue[x] \in Nat /\ u.queue[x] \in Nat
    BY <1>2, <2>1, BagFacts DEF Sound, Status
  <2> QED
    BY <2>1, <2>2
<1> QED
  BY <1>1, <1>2 DEF AddsNoneOnce

LEMMA AddContinues ==
    ASSUME NEW s, Sound(s), NEW E \in SUBSET EngineEvents,
           \A x \in E : x.type \notin RememberedTypes
    PROVE  /\ Continues(Add(s, E), s)
           /\ (\A x \in E : x.type \notin OnceTypes) => AddsNoneOnce(Add(s, E), s)
<1> DEFINE t == Add(s, E)
<1>1. /\ t = [s EXCEPT !.queue = t.queue] /\ DOMAIN t.queue = DOMAIN s.queue \cup E
      /\ \A x \in DOMAIN s.queue \ E : t.queue[x] = s.queue[x]
  BY AddQueue
<1> HIDE DEF t
<1>2. s \in Status /\ s.time \in Nat /\ s.queue \in [DOMAIN s.queue -> Nat \ {0}]
  BY BagFacts DEF Sound, Status
<1>3. /\ t.active = s.active /\ t.deployed = s.deployed /\ t.time = s.time
      /\ t.apogeeReached = s.apogeeReached /\ t.launchRodCleared = s.launchRodCleared
      /\ t.landed = s.landed
  BY <1>1, <1>2 DEF Status
<1>4. Continues(t, s)
  BY <1>1, <1>2, <1>3 DEF Continues
<1>5. ASSUME \A x \in E : x.type \notin OnceTypes PROVE AddsNoneOnce(t, s)
  BY <1>1, <1>2, <1>5 DEF AddsNoneOnce
<1> QED
  BY <1>4, <1>5 DEF t

LEMMA KeptContinues ==
    ASSUME NEW s, Sound(s), NEW active \in SUBSET s.active
    PROVE  Continues(Kept(s, active), s) /\ AddsNoneOnce(Kept(s, active), s)
<1> DEFINE t == Kept(s, active)
<1>1. active \in SUBSET Stages /\ s \in Status /\ s.time \in Nat
      /\ s.queue \in [DOMAIN s.queue -> Nat \ {0}]
  BY BagFacts DEF Sound, Status
<1>2. /\ t = [s EXCEPT !.active = active, !.queue = t.queue]
      /\ DOMAIN t.queue = {x \in DOMAIN s.queue : IsAttached(active, x)}
      /\ \A x \in DOMAIN t.queue : t.queue[x] = s.queue[x]
  BY <1>1, KeptQueue
<1> HIDE DEF t
<1>3. /\ t.active = active /\ t.deployed = s.deployed /\ t.time = s.time
      /\ t.apogeeReached = s.apogeeReached /\ t.launchRodCleared = s.launchRodCleared
      /\ t.landed = s.landed
  BY <1>1, <1>2 DEF Status
<1>4. Continues(t, s) /\ AddsNoneOnce(t, s)
  BY <1>1, <1>2, <1>3 DEF Continues, AddsNoneOnce
<1> QED
  BY <1>4 DEF t

LEMMA AbortContinues ==
    ASSUME NEW s, Sound(s)
    PROVE  Continues(Add(s, {Abort(s)}), s) /\ AddsNoneOnce(Add(s, {Abort(s)}), s)
<1>1. {Abort(s)} \in SUBSET EngineEvents
  BY AbortEvent DEF Attached
<1>2. Abort(s).type = "SIM_ABORT"
  BY DEF Abort, FlightEvent
<1> QED
  BY <1>1, <1>2, AddContinues DEF RememberedTypes, OnceTypes

LEMMA CheckGeometryContinues ==
    ASSUME NEW s, Sound(s), NEW found
    PROVE  Continues(CheckGeometry(s, found), s) /\ AddsNoneOnce(CheckGeometry(s, found), s)
<1> DEFINE t == IF "ACTIVE_LENGTH_ZERO" \in found THEN Add(s, {Abort(s)}) ELSE s
           tumble == FlightEvent("TUMBLE", s.time, NoStage, None)
           u == CheckGeometry(s, found)
<1>1. Sound(t) /\ SameBut(s, t) /\ Continues(t, s) /\ AddsNoneOnce(t, s)
  BY AbortEvent, AddSound, AbortContinues, ContinuesItself DEF SameBut
<1>2. tumble \in EngineEvents /\ tumble.type = "TUMBLE"
  <2>1. s.active \in SUBSET Stages /\ s.time \in Nat /\ "TUMBLE" \in PlainTypes
    BY EventTypesAre DEF Sound, Status, PlainTypes
  <2> QED
    BY <2>1, PlainEvent DEF Attached, FlightEvent
<1>3. Abort(s) \in EngineEvents /\ Abort(s).type = "SIM_ABORT"
  BY AbortEvent DEF Attached, Abort, FlightEvent
<1>4. u \in {t, Add(t, {Abort(s)}), Add(t, {tumble})}
  BY DEF CheckGeometry
<1>5. Sound(u)
  BY CheckGeometrySound
<1> HIDE DEF t, tumble, u
<1>6. Continues(u, t) /\ AddsNoneOnce(u, t)
  BY <1>1, <1>2, <1>3, <1>4, AddContinues, ContinuesItself DEF RememberedTypes, OnceTypes
<1>7. Continues(u, s) /\ AddsNoneOnce(u, s)
  BY <1>1, <1>5, <1>6, ContinuesFurther
<1> QED
  BY <1>7 DEF u

-----------------------------------------------------------------------------
(* What each handler makes of the branch in flight.                         *)

LEMMA HandledGrown ==
    ASSUME NEW s, Sound(s), NEW e \in Due(s), design \in Designs, NEW u, NEW E,
           u.active = s.active, u.time = Triggered(s, e).time,
           DOMAIN Triggered(s, e).queue \subseteq DOMAIN u.queue,
           DOMAIN u.queue \subseteq DOMAIN Triggered(s, e).queue \cup E,
           \A x \in DOMAIN Triggered(s, e).queue \ E : u.queue[x] = Triggered(s, e).queue[x],
           \A x \in E : x.type \notin OnceTypes \cup {"RECOVERY_DEVICE_DEPLOYMENT"},
           \A x \in E : x.type = "BURNOUT" =>
              /\ e.type = "IGNITION" /\ x.item = e.item
              /\ x.time = u.time + BurnTime[e.item],
           \A x \in E : x.type = "EJECTION_CHARGE" =>
              e.type = "BURNOUT" /\ x.item = e.item /\ HasEjectionCharge(e.item),
           u.deployed = (IF e.type = "RECOVERY_DEVICE_DEPLOYMENT"
                         THEN s.deployed \cup {e.item} ELSE s.deployed),
           u.apogeeReached = (s.apogeeReached \/ e.type = "APOGEE"),
           u.launchRodCleared = (s.launchRodCleared \/ e.type = "LAUNCHROD"),
           u.landed = (s.landed \/ e.type = "GROUND_HIT")
    PROVE  Handled(s, e, u)
<1> DEFINE t == Triggered(s, e)
<1>1. /\ SetsOff(s, e, t) /\ t.active = s.active
      /\ \A x \in DOMAIN t.queue \ DOMAIN s.queue :
            x.type \in {"IGNITION", "STAGE_SEPARATION", "RECOVERY_DEVICE_DEPLOYMENT"}
  <2>1. /\ SetsOff(s, e, t)
        /\ \A x \in DOMAIN t.queue \ DOMAIN s.queue :
              x.type \in {"IGNITION", "STAGE_SEPARATION", "RECOVERY_DEVICE_DEPLOYMENT"}
    BY TriggeredSetsOff
  <2> HIDE DEF t
  <2> QED
    BY <2>1 DEF SetsOff
<1> HIDE DEF t
<1>2. SetsOff(s, e, u)
  BY <1>1, SetsOffGrown DEF t
<1>3. \A x \in DOMAIN u.queue \ DOMAIN s.queue : x \in E \/ x \in DOMAIN t.queue \ DOMAIN s.queue
  BY DEF t
<1> QED
  BY <1>1, <1>2, <1>3 DEF Handled

(* What Triggered leaves alone.                                             *)
LEMMA TriggeredLeaves ==
    ASSUME NEW s, Sound(s), NEW e \in Due(s), design \in Designs
    PROVE  LET t == Triggered(s, e)
           IN  /\ Sound(t) /\ t.active = s.active /\ t.deployed = s.deployed
               /\ t.apogeeReached = s.apogeeReached /\ t.launchRodCleared = s.launchRodCleared
               /\ t.landed = s.landed /\ t.motorIgnited = s.motorIgnited
               /\ t.time \in Nat /\ t.time >= s.time /\ t.time >= e.time
<1> DEFINE t == Triggered(s, e)
<1>1. Sound(t) /\ t = [s EXCEPT !.time = t.time, !.queue = t.queue]
  BY DueEvent, TriggeredSound, TriggeredSetsOff
<1>2. t.time >= s.time /\ t.time >= e.time
  BY TriggeredSetsOff DEF SetsOff
<1> HIDE DEF t
<1>3. s \in Status /\ t \in Status
  BY <1>1 DEF Sound
<1> QED
  BY <1>1, <1>2, <1>3 DEF t, Status

(* An event that changes no flag, and leaves nothing but what it triggers.  *)
LEMMA HandledPlainly ==
    ASSUME NEW s, Sound(s), NEW e \in Due(s), design \in Designs,
           e.type \notin {"APOGEE", "LAUNCHROD", "GROUND_HIT", "RECOVERY_DEVICE_DEPLOYMENT"}
    PROVE  Handled(s, e, Triggered(s, e))
<1> DEFINE t == Triggered(s, e)
           E == {}
<1>1. /\ t.active = s.active /\ t.deployed = s.deployed
      /\ t.apogeeReached = s.apogeeReached /\ t.launchRodCleared = s.launchRodCleared
      /\ t.landed = s.landed
      /\ {s.apogeeReached, s.launchRodCleared, s.landed} \subseteq BOOLEAN
  BY TriggeredLeaves DEF Sound, Status
<1>2. /\ t.apogeeReached = (s.apogeeReached \/ e.type = "APOGEE")
      /\ t.launchRodCleared = (s.launchRodCleared \/ e.type = "LAUNCHROD")
      /\ t.landed = (s.landed \/ e.type = "GROUND_HIT")
      /\ t.deployed = (IF e.type = "RECOVERY_DEVICE_DEPLOYMENT"
                       THEN s.deployed \cup {e.item} ELSE s.deployed)
  BY <1>1
<1>3. \A x : x \notin E
  OBVIOUS
<1> HIDE DEF t, E
<1>4. DOMAIN t.queue \subseteq DOMAIN t.queue \cup E
  OBVIOUS
<1> QED
  BY <1>1, <1>2, <1>3, <1>4, HandledGrown DEF t

(* The same with an event of no consequence added.                          *)
LEMMA HandledAdding ==
    ASSUME NEW s, Sound(s), NEW e \in Due(s), design \in Designs, NEW u, Sound(u),
           u.active = s.active, u.time = Triggered(s, e).time,
           u.queue = Triggered(s, e).queue,
           u.deployed = (IF e.type = "RECOVERY_DEVICE_DEPLOYMENT"
                         THEN s.deployed \cup {e.item} ELSE s.deployed),
           u.apogeeReached = (s.apogeeReached \/ e.type = "APOGEE"),
           u.launchRodCleared = (s.launchRodCleared \/ e.type = "LAUNCHROD"),
           u.landed = (s.landed \/ e.type = "GROUND_HIT"),
           NEW E \in SUBSET EngineEvents,
           \A x \in E : x.type \notin OnceTypes \cup {"RECOVERY_DEVICE_DEPLOYMENT"},
           \A x \in E : x.type = "BURNOUT" =>
              /\ e.type = "IGNITION" /\ x.item = e.item
              /\ x.time = u.time + BurnTime[e.item],
           \A x \in E : x.type = "EJECTION_CHARGE" =>
              e.type = "BURNOUT" /\ x.item = e.item /\ HasEjectionCharge(e.item)
    PROVE  Handled(s, e, u) /\ Handled(s, e, Add(u, E))
<1> DEFINE t == Triggered(s, e)
           v == Add(u, E)
<1>1. \A x \in {} : FALSE
  OBVIOUS
<1>2. Handled(s, e, u)
  BY <1>1, HandledGrown
<1>3. /\ v = [u EXCEPT !.queue = v.queue]
      /\ DOMAIN v.queue = DOMAIN u.queue \cup E
      /\ \A x \in DOMAIN u.queue \ E : v.queue[x] = u.queue[x]
  BY AddQueue
<1> HIDE DEF v
<1>4. /\ v.active = u.active /\ v.time = u.time /\ v.deployed = u.deployed
      /\ v.apogeeReached = u.apogeeReached /\ v.launchRodCleared = u.launchRodCleared
      /\ v.landed = u.landed
  BY <1>3 DEF Sound, Status
<1>5. Handled(s, e, v)
  BY <1>3, <1>4, HandledGrown
<1> QED
  BY <1>2, <1>5 DEF v

LEMMA AbortIsPlain ==
    ASSUME NEW s, Sound(s)
    PROVE  {Abort(s)} \in SUBSET EngineEvents /\ Abort(s).type = "SIM_ABORT"
BY AbortEvent DEF Attached, Abort, FlightEvent

(* p is the branch, or one of the two branches, that t becomes.             *)
Parts(e, t, p) ==
    /\ Sound(p) /\ Continues(p, t) /\ AddsNoneOnce(p, t)
    /\ e.type = "STAGE_SEPARATION" => ~({e.stage - 1, e.stage} \subseteq p.active)

(* What handling e, which makes t of the branch, does to its motor.         *)
MotorEffect(e, t) ==
    \/ /\ e.type = "IGNITION"
       /\ motors' = [motors EXCEPT ![e.item] = Ignite(@, e.time)]
    \/ /\ e.type = "IGNITION" /\ UNCHANGED motors
       /\ \A x \in DOMAIN t.queue \ DOMAIN status.queue : x.type # "BURNOUT"
    \/ /\ e.type = "BURNOUT"
       /\ motors' = [motors EXCEPT ![e.item] = BurnOut(@, HasEjectionCharge(e.item))]
    \/ /\ e.type = "EJECTION_CHARGE"
       /\ motors' = [motors EXCEPT ![e.item] = Expend(@)]
    \/ /\ e.type \notin {"IGNITION", "BURNOUT", "EJECTION_CHARGE"}
       /\ UNCHANGED motors

RefusedNow(e) ==
    e.type \in Vetoed /\ Refused(status, e, status') /\ UNCHANGED <<toSimulate, motors>>

HandledNow(e) ==
    \E t : /\ Sound(t) /\ Handled(status, e, t) /\ MotorEffect(e, t)
           /\ Parts(e, t, status')
           /\ \/ UNCHANGED toSimulate
              \/ \E b : Parts(e, t, b) /\ toSimulate' = <<b>> \o toSimulate

(* A handler that queues nothing behind the one branch it leaves.           *)
LEMMA HandledWhole ==
    ASSUME EngineInvariant, NEW e \in Due(status), Sound(status'),
           Handled(status, e, status'), MotorEffect(e, status'),
           e.type # "STAGE_SEPARATION", UNCHANGED toSimulate
    PROVE  HandledNow(e)
<1>1. Parts(e, status', status')
  BY ContinuesItself DEF Parts
<1> QED
  BY <1>1 DEF HandledNow

LEMMA VetoedOutcome ==
    ASSUME EngineInvariant, HandleVetoed
    PROVE  \E e \in Due(status) : RefusedNow(e)
<1>1. PICK e \in Due(status) :
         Taken(Vetoed, e) /\ status' = QueueIgnitions(Poll(status, e), e)
  BY DEF HandleVetoed
<1>2. Refused(status, e, status')
  BY <1>1, IgnitionsRefuse DEF EngineInvariant
<1> QED
  BY <1>1, <1>2 DEF HandleVetoed, RefusedNow, Taken

LEMMA FlagOutcome ==
    ASSUME EngineInvariant, EngineInvariant', HandleFlag
    PROVE  \E e \in Due(status) : HandledNow(e)
<1>1. PICK e \in Due(status) :
         /\ Taken({"LAUNCH", "ALTITUDE", "LIFTOFF", "LAUNCHROD", "APOGEE"}, e)
         /\ status' = [Triggered(status, e) EXCEPT
                         !.liftoff = @ \/ e.type = "LIFTOFF",
                         !.launchRodCleared = @ \/ e.type = "LAUNCHROD",
                         !.apogeeReached = @ \/ e.type = "APOGEE"]
  BY DEF HandleFlag
<1> DEFINE t == Triggered(status, e)
<1>2. /\ Sound(t) /\ t.active = status.active /\ t.deployed = status.deployed
      /\ t.apogeeReached = status.apogeeReached /\ t.launchRodCleared = status.launchRodCleared
      /\ t.landed = status.landed
  BY TriggeredLeaves DEF EngineInvariant
<1>3. status' = [t EXCEPT !.liftoff = @ \/ e.type = "LIFTOFF",
                          !.launchRodCleared = @ \/ e.type = "LAUNCHROD",
                          !.apogeeReached = @ \/ e.type = "APOGEE"]
  BY <1>1
<1> HIDE DEF t
<1>4. /\ status'.active = status.active /\ status'.time = t.time /\ status'.queue = t.queue
      /\ status'.deployed = status.deployed /\ status'.landed = status.landed
      /\ status'.apogeeReached = (status.apogeeReached \/ e.type = "APOGEE")
      /\ status'.launchRodCleared = (status.launchRodCleared \/ e.type = "LAUNCHROD")
  BY <1>2, <1>3 DEF Sound, Status
<1>5. /\ e.type \in {"LAUNCH", "ALTITUDE", "LIFTOFF", "LAUNCHROD", "APOGEE"}
      /\ status.landed \in BOOLEAN /\ Sound(status) /\ Sound(status') /\ design \in Designs
  BY <1>1 DEF Taken, EngineInvariant, Sound, Status
<1>6. {} \in SUBSET EngineEvents /\ \A x \in {} : FALSE
  OBVIOUS
<1>7. Handled(status, e, status')
  BY <1>4, <1>5, <1>6, HandledAdding DEF t
<1>8. MotorEffect(e, status')
  BY <1>5 DEF MotorEffect, HandleFlag
<1> QED
  BY <1>5, <1>7, <1>8, HandledWhole DEF HandleFlag

LEMMA IgnitionOutcome ==
    ASSUME EngineInvariant, EngineInvariant', HandleIgnition
    PROVE  \E e \in Due(status) : HandledNow(e)
<1>1. PICK e \in Due(status) :
         /\ Taken({"IGNITION"}, e)
         /\ LET s == Triggered(status, e)
                m == e.item
            IN IF IsLate(s, m)
               THEN status' = s /\ UNCHANGED motors
               ELSE /\ motors' = [motors EXCEPT ![m] = Ignite(@, e.time)]
                    /\ status' = Add([s EXCEPT !.motorIgnited = TRUE],
                         {FlightEvent("ALTITUDE", t, e.stage, None) : t \in TimePoints[m]}
                         \cup {FlightEvent("BURNOUT", s.time + BurnTime[m], e.stage, m)})
  BY DEF HandleIgnition
<1> DEFINE s == Triggered(status, e)
           m == e.item
           lit == [s EXCEPT !.motorIgnited = TRUE]
           points == {FlightEvent("ALTITUDE", t, e.stage, None) : t \in TimePoints[m]}
           burnout == FlightEvent("BURNOUT", s.time + BurnTime[m], e.stage, m)
<1>2. /\ Sound(s) /\ s.active = status.active /\ s.deployed = status.deployed
      /\ s.apogeeReached = status.apogeeReached /\ s.launchRodCleared = status.launchRodCleared
      /\ s.landed = status.landed /\ s.time \in Nat
  BY TriggeredLeaves DEF EngineInvariant
<1>3. /\ e.type = "IGNITION" /\ Sound(status) /\ Sound(status') /\ design \in Designs
      /\ UNCHANGED toSimulate
      /\ {status.apogeeReached, status.launchRodCleared, status.landed} \subseteq BOOLEAN
  BY <1>1 DEF Taken, EngineInvariant, HandleIgnition, Sound, Status
<1>4. m \in Motors /\ e.stage = StageOf[m] /\ StageOf[m] \in status.active
  <2>1. m \in Motors /\ StageOf[m] \in status.active
    BY <1>3, DueMotor
  <2>2. e \in EngineEvents
    BY <1>3, DueEvent
  <2> QED
    BY <1>3, <2>1, <2>2 DEF EngineEvents
<1>5. CASE IsLate(s, m)
  <2>1. status' = s /\ UNCHANGED motors
    BY <1>1, <1>5
  <2>2. Handled(status, e, s) /\ SetsOff(status, e, s)
    BY <1>3, HandledPlainly DEF Handled
  <2>3. \A x \in DOMAIN s.queue \ DOMAIN status.queue : x.type # "BURNOUT"
    BY <1>3, TriggeredSetsOff
  <2> HIDE DEF s
  <2>4. MotorEffect(e, status')
    BY <1>3, <2>1, <2>3 DEF MotorEffect
  <2> QED
    BY <1>3, <2>1, <2>2, <2>4, HandledWhole
<1>6. CASE ~IsLate(s, m)
  <2>1. /\ motors' = [motors EXCEPT ![m] = Ignite(@, e.time)]
        /\ status' = Add(lit, points \cup {burnout})
    BY <1>1, <1>6
  <2>2. points \cup {burnout} \in SUBSET EngineEvents
    <3>1. status.active \in SUBSET Stages
      BY <1>3 DEF Sound, Status
    <3>2. s.time + BurnTime[m] \in Nat /\ TimePoints[m] \subseteq Nat
      BY <1>2, <1>4, PartsAssumption
    <3>3. burnout \in Attached(status.active)
      BY <1>4, <3>1, <3>2, MotorEvent
    <3>4. points \subseteq Attached(status.active)
      <4>1. "ALTITUDE" \in PlainTypes
        BY EventTypesAre DEF PlainTypes
      <4> QED
        BY <1>4, <3>1, <3>2, <4>1, PlainEvent
    <3> QED
      BY <3>3, <3>4 DEF Attached
  <2>3. /\ \A x \in points : x.type = "ALTITUDE"
        /\ burnout.type = "BURNOUT" /\ burnout.item = m
        /\ burnout.time = s.time + BurnTime[m]
    BY DEF FlightEvent
  <2> DEFINE E == points \cup {burnout}
  <2>4. s.queue = Triggered(status, e).queue /\ s.time = Triggered(status, e).time
    OBVIOUS
  <2>5. /\ \A x \in E : x.type \notin OnceTypes \cup {"RECOVERY_DEVICE_DEPLOYMENT"}
        /\ \A x \in E : x.type = "BURNOUT" =>
              x.item = e.item /\ x.time = s.time + BurnTime[e.item]
        /\ \A x \in E : x.type # "EJECTION_CHARGE"
    BY <2>3 DEF OnceTypes
  <2> HIDE DEF s, points, burnout, E
  <2>6. /\ Sound(lit) /\ lit.active = s.active /\ lit.time = s.time /\ lit.queue = s.queue
        /\ lit.deployed = s.deployed /\ lit.apogeeReached = s.apogeeReached
        /\ lit.launchRodCleared = s.launchRodCleared /\ lit.landed = s.landed
    BY <1>2 DEF Sound, Status
  <2> HIDE DEF lit
  <2>7. Handled(status, e, status')
    BY <1>2, <1>3, <2>1, <2>2, <2>4, <2>5, <2>6, HandledAdding DEF E
  <2>8. MotorEffect(e, status')
    BY <1>3, <2>1 DEF MotorEffect
  <2> QED
    BY <1>3, <2>7, <2>8, HandledWhole
<1> QED
  BY <1>5, <1>6

LEMMA BurnoutOutcome ==
    ASSUME EngineInvariant, EngineInvariant', HandleBurnout
    PROVE  \E e \in Due(status) : HandledNow(e)
<1>1. PICK e \in Due(status) :
         /\ Taken({"BURNOUT"}, e)
         /\ LET s == Triggered(status, e)
                m == e.item
                charge == HasEjectionCharge(m)
            IN /\ motors' = [motors EXCEPT ![m] = BurnOut(@, charge)]
               /\ status' = Add(s, (IF s.liftoff THEN {} ELSE {Abort(s)})
                    \cup (IF ~charge THEN {}
                          ELSE {FlightEvent("EJECTION_CHARGE",
                                            s.time + design.ejectionDelay[m], StageOf[m], m)}))
  BY DEF HandleBurnout
<1> DEFINE s == Triggered(status, e)
           m == e.item
           abort == IF s.liftoff THEN {} ELSE {Abort(s)}
           ejection == IF ~HasEjectionCharge(m) THEN {}
                       ELSE {FlightEvent("EJECTION_CHARGE",
                                         s.time + design.ejectionDelay[m], StageOf[m], m)}
           E == abort \cup ejection
<1>2. /\ Sound(s) /\ s.active = status.active /\ s.deployed = status.deployed
      /\ s.apogeeReached = status.apogeeReached /\ s.launchRodCleared = status.launchRodCleared
      /\ s.landed = status.landed /\ s.time \in Nat
  BY TriggeredLeaves DEF EngineInvariant
<1>3. /\ e.type = "BURNOUT" /\ Sound(status) /\ Sound(status') /\ design \in Designs
      /\ UNCHANGED toSimulate
      /\ {status.apogeeReached, status.launchRodCleared, status.landed} \subseteq BOOLEAN
  BY <1>1 DEF Taken, EngineInvariant, HandleBurnout, Sound, Status
<1>4. m \in Motors /\ StageOf[m] \in status.active
  BY <1>3, DueMotor
<1>5. /\ motors' = [motors EXCEPT ![m] = BurnOut(@, HasEjectionCharge(m))]
      /\ status' = Add(s, E)
  BY <1>1
<1>6. s.queue = Triggered(status, e).queue /\ s.time = Triggered(status, e).time
  OBVIOUS
<1> HIDE DEF s
<1>7. abort \in SUBSET EngineEvents /\ \A x \in abort : x.type = "SIM_ABORT"
  BY <1>2, AbortIsPlain
<1>8. ejection \in SUBSET EngineEvents
  <2>1. CASE HasEjectionCharge(m)
    <3>1. design.ejectionDelay \in [Motors -> Nat \cup {Plugged}]
      BY <1>3, DesignTyped DEF DesignType
    <3>2. s.time + design.ejectionDelay[m] \in Nat
      BY <1>2, <1>4, <2>1, <3>1 DEF HasEjectionCharge
    <3>3. status.active \in SUBSET Stages
      BY <1>3 DEF Sound, Status
    <3> QED
      BY <1>4, <3>2, <3>3, MotorEvent DEF Attached
  <2>2. CASE ~HasEjectionCharge(m)
    BY <2>2
  <2> QED
    BY <2>1, <2>2
<1>9. \A x \in ejection : x.type = "EJECTION_CHARGE" /\ x.item = m /\ HasEjectionCharge(m)
  BY DEF FlightEvent
<1> HIDE DEF abort, ejection
<1>10. /\ E \in SUBSET EngineEvents
       /\ \A x \in E : x.type \notin OnceTypes \cup {"RECOVERY_DEVICE_DEPLOYMENT"}
       /\ \A x \in E : x.type # "BURNOUT"
       /\ \A x \in E : x.type = "EJECTION_CHARGE" => x.item = e.item /\ HasEjectionCharge(e.item)
  BY <1>7, <1>8, <1>9 DEF OnceTypes
<1> HIDE DEF E
<1>11. Handled(status, e, status')
  BY <1>2, <1>3, <1>5, <1>6, <1>10, HandledAdding
<1>12. MotorEffect(e, status')
  BY <1>3, <1>5 DEF MotorEffect
<1> QED
  BY <1>3, <1>11, <1>12, HandledWhole

LEMMA EjectionChargeOutcome ==
    ASSUME EngineInvariant, EngineInvariant', HandleEjectionCharge
    PROVE  \E e \in Due(status) : HandledNow(e)
<1>1. PICK e \in Due(status) :
         /\ Taken({"EJECTION_CHARGE"}, e)
         /\ motors' = [motors EXCEPT ![e.item] = Expend(@)]
         /\ status' = Triggered(status, e)
  BY DEF HandleEjectionCharge
<1>2. e.type = "EJECTION_CHARGE"
  BY <1>1 DEF Taken
<1>3. Handled(status, e, status') /\ Sound(status')
  BY <1>1, <1>2, HandledPlainly DEF EngineInvariant
<1>4. MotorEffect(e, status')
  BY <1>1, <1>2 DEF MotorEffect
<1> QED
  BY <1>2, <1>3, <1>4, HandledWhole DEF HandleEjectionCharge

LEMMA EndOutcome ==
    ASSUME EngineInvariant, EngineInvariant', HandleEnd
    PROVE  \E e \in Due(status) : HandledNow(e)
<1>1. PICK e \in Due(status) :
         /\ Taken({"SIM_ABORT", "SIMULATION_END"}, e)
         /\ status' = Triggered(status, e)
  BY DEF HandleEnd
<1>2. e.type \in {"SIM_ABORT", "SIMULATION_END"}
  BY <1>1 DEF Taken
<1>3. Handled(status, e, status') /\ Sound(status')
  BY <1>1, <1>2, HandledPlainly DEF EngineInvariant
<1>4. MotorEffect(e, status')
  BY <1>2 DEF MotorEffect, HandleEnd
<1> QED
  BY <1>2, <1>3, <1>4, HandledWhole DEF HandleEnd

LEMMA TumbleOutcome ==
    ASSUME EngineInvariant, EngineInvariant', HandleTumble
    PROVE  \E e \in Due(status) : HandledNow(e)
<1>1. PICK e \in Due(status) : \E tooMuchThrust \in BOOLEAN :
         /\ Taken({"TUMBLE"}, e)
         /\ LET s == Triggered(status, e)
            IN status' = IF s.deployed # {} \/ s.landed THEN s
                         ELSE IF tooMuchThrust THEN Add(s, {Abort(s)})
                         ELSE [s EXCEPT !.tumbling = TRUE]
  BY DEF HandleTumble
<1> DEFINE s == Triggered(status, e)
           u == [s EXCEPT !.tumbling = TRUE]
<1>2. /\ Sound(s) /\ s.active = status.active /\ s.deployed = status.deployed
      /\ s.apogeeReached = status.apogeeReached /\ s.launchRodCleared = status.launchRodCleared
      /\ s.landed = status.landed /\ s.time \in Nat
  BY TriggeredLeaves DEF EngineInvariant
<1>3. /\ e.type = "TUMBLE" /\ Sound(status) /\ Sound(status') /\ design \in Designs
      /\ {status.apogeeReached, status.launchRodCleared, status.landed} \subseteq BOOLEAN
  BY <1>1 DEF Taken, EngineInvariant, Sound, Status
<1>4. status' \in {s, Add(s, {Abort(s)}), u}
  BY <1>1
<1>5. s.queue = Triggered(status, e).queue /\ s.time = Triggered(status, e).time
  OBVIOUS
<1> HIDE DEF s
<1>6. /\ Sound(u) /\ u.active = s.active /\ u.deployed = s.deployed
      /\ u.apogeeReached = s.apogeeReached /\ u.launchRodCleared = s.launchRodCleared
      /\ u.landed = s.landed /\ u.queue = s.queue /\ u.time = s.time
  BY <1>2 DEF Sound, Status
<1> HIDE DEF u
<1> DEFINE E == {Abort(s)}
<1>7. /\ E \in SUBSET EngineEvents
      /\ \A x \in E : x.type \notin OnceTypes \cup {"RECOVERY_DEVICE_DEPLOYMENT", "BURNOUT", "EJECTION_CHARGE"}
  BY <1>2, AbortIsPlain DEF OnceTypes
<1> HIDE DEF E
<1>8. Handled(status, e, s) /\ Handled(status, e, Add(s, E))
  BY <1>2, <1>3, <1>5, <1>7, HandledAdding
<1>9. Handled(status, e, u)
  BY <1>2, <1>3, <1>5, <1>6, <1>7, HandledAdding
<1>10. Handled(status, e, status')
  BY <1>4, <1>8, <1>9 DEF E
<1>11. MotorEffect(e, status') /\ UNCHANGED toSimulate
  BY <1>3 DEF MotorEffect, HandleTumble
<1> QED
  BY <1>3, <1>10, <1>11, HandledWhole

LEMMA GroundHitOutcome ==
    ASSUME EngineInvariant, EngineInvariant', HandleGroundHit
    PROVE  \E e \in Due(status) : HandledNow(e)
<1>1. PICK e \in Due(status) :
        \E found \in SUBSET (Troubles \cap {"ACTIVE_MASS_ZERO"}) :
           /\ Taken({"GROUND_HIT"}, e)
           /\ LET s == [Triggered(status, e) EXCEPT !.landed = TRUE]
              IN status' = IF found = {} THEN s ELSE Add(s, {Abort(s)})
  BY DEF HandleGroundHit
<1> DEFINE s == Triggered(status, e)
           u == [s EXCEPT !.landed = TRUE]
<1>2. /\ Sound(s) /\ s.active = status.active /\ s.deployed = status.deployed
      /\ s.apogeeReached = status.apogeeReached /\ s.launchRodCleared = status.launchRodCleared
      /\ s.landed = status.landed /\ s.time \in Nat
  BY TriggeredLeaves DEF EngineInvariant
<1>3. /\ e.type = "GROUND_HIT" /\ Sound(status) /\ Sound(status') /\ design \in Designs
      /\ {status.apogeeReached, status.launchRodCleared, status.landed} \subseteq BOOLEAN
  BY <1>1 DEF Taken, EngineInvariant, Sound, Status
<1>4. status' \in {u, Add(u, {Abort(u)})}
  BY <1>1
<1>5. s.queue = Triggered(status, e).queue /\ s.time = Triggered(status, e).time
  OBVIOUS
<1> HIDE DEF s
<1>6. /\ Sound(u) /\ u.active = s.active /\ u.deployed = s.deployed
      /\ u.apogeeReached = s.apogeeReached /\ u.launchRodCleared = s.launchRodCleared
      /\ u.landed = TRUE /\ u.queue = s.queue /\ u.time = s.time
  BY <1>2 DEF Sound, Status
<1> HIDE DEF u
<1> DEFINE E == {Abort(u)}
<1>7. /\ E \in SUBSET EngineEvents
      /\ \A x \in E : x.type \notin OnceTypes \cup {"RECOVERY_DEVICE_DEPLOYMENT", "BURNOUT", "EJECTION_CHARGE"}
  BY <1>6, AbortIsPlain DEF OnceTypes
<1> HIDE DEF E
<1>8. Handled(status, e, u) /\ Handled(status, e, Add(u, E))
  BY <1>2, <1>3, <1>5, <1>6, <1>7, HandledAdding
<1>9. Handled(status, e, status')
  BY <1>4, <1>8 DEF E
<1>10. MotorEffect(e, status') /\ UNCHANGED toSimulate
  BY <1>3 DEF MotorEffect, HandleGroundHit
<1> QED
  BY <1>3, <1>9, <1>10, HandledWhole

LEMMA DeploymentOutcome ==
    ASSUME EngineInvariant, EngineInvariant', HandleDeployment
    PROVE  \E e \in Due(status) : HandledNow(e)
<1>1. PICK e \in Due(status) :
         /\ Taken({"RECOVERY_DEVICE_DEPLOYMENT"}, e)
         /\ LET s == Triggered(status, e)
                d == e.item
            IN IF ~IsStageActive(s, e.stage) \/ d \in s.deployed
               THEN status' = s
               ELSE \E thrusting \in 0..Cardinality(Burning(s)) :
                       status' = AddCopies([s EXCEPT !.liftoff = TRUE,
                                                     !.deployed = @ \cup {d}],
                                           Abort(s), thrusting)
  BY DEF HandleDeployment
<1> DEFINE s == Triggered(status, e)
           d == e.item
           D == s.deployed \cup {d}
           open == [s EXCEPT !.liftoff = TRUE, !.deployed = D]
<1>2. /\ Sound(s) /\ s.active = status.active /\ s.deployed = status.deployed
      /\ s.apogeeReached = status.apogeeReached /\ s.launchRodCleared = status.launchRodCleared
      /\ s.landed = status.landed /\ s.time \in Nat
  BY TriggeredLeaves DEF EngineInvariant
<1>3. /\ e.type = "RECOVERY_DEVICE_DEPLOYMENT" /\ Sound(status) /\ Sound(status')
      /\ design \in Designs
      /\ {status.apogeeReached, status.launchRodCleared, status.landed} \subseteq BOOLEAN
  BY <1>1 DEF Taken, EngineInvariant, Sound, Status
<1>4. d \in Devices /\ IsStageActive(s, e.stage)
  <2>1. e \in EngineEvents /\ e \in Attached(status.active)
    BY <1>3, DueEvent
  <2>2. d \in Devices /\ e.stage = StageOf[d]
    BY <1>3, <2>1 DEF EngineEvents
  <2>3. StageOf[d] \in Stages /\ NoStage \notin Stages /\ RocketStage \notin Stages
    BY <2>2, StageNumbers DEF Stages, NoStage, RocketStage
  <2> QED
    BY <1>2, <2>1, <2>2, <2>3 DEF Attached, IsAttached, IsStageActive
<1>5. s.queue = Triggered(status, e).queue /\ s.time = Triggered(status, e).time
  OBVIOUS
<1>6. \/ status' = s /\ d \in s.deployed
      \/ \E k \in 0..Cardinality(Burning(s)) :
            status' = AddCopies([s EXCEPT !.liftoff = TRUE, !.deployed = @ \cup {d}], Abort(s), k)
  BY <1>1, <1>4
<1> HIDE DEF s
<1>7. MotorEffect(e, status') /\ UNCHANGED toSimulate
  BY <1>3 DEF MotorEffect, HandleDeployment
<1>8. CASE status' = s /\ d \in s.deployed
  <2>1. status.deployed \cup {d} = s.deployed
    BY <1>2, <1>8
  <2>2. {} \in SUBSET EngineEvents /\ \A x \in {} : FALSE
    OBVIOUS
  <2>3. Handled(status, e, s)
    BY <1>2, <1>3, <1>5, <2>1, <2>2, HandledAdding
  <2> QED
    BY <1>3, <1>7, <1>8, <2>3, HandledWhole
<1>9. ASSUME NEW k \in 0..Cardinality(Burning(s)),
             status' = AddCopies([s EXCEPT !.liftoff = TRUE, !.deployed = @ \cup {d}], Abort(s), k)
      PROVE  HandledNow(e)
  <2>1. D \in SUBSET Devices /\ k \in Nat
    BY <1>2, <1>4 DEF Sound, Status
  <2>2. [s EXCEPT !.liftoff = TRUE, !.deployed = @ \cup {d}] = open
    BY <1>2 DEF Sound, Status
  <2>3. D = status.deployed \cup {d}
    BY <1>2
  <2> HIDE DEF D
  <2>4. /\ Sound(open) /\ open.active = s.active /\ open.deployed = D
        /\ open.apogeeReached = s.apogeeReached /\ open.launchRodCleared = s.launchRodCleared
        /\ open.landed = s.landed /\ open.queue = s.queue /\ open.time = s.time
    BY <1>2, <2>1 DEF Sound, Status
  <2> HIDE DEF open
  <2>5. Abort(s) \in EngineEvents /\ Abort(s).type = "SIM_ABORT"
    BY <1>2, AbortIsPlain
  <2>6. status' = AddCopies(open, Abort(s), k)
    BY <1>9, <2>2
  <2>7. /\ status' = [open EXCEPT !.queue = status'.queue]
        /\ DOMAIN open.queue \subseteq DOMAIN status'.queue
        /\ DOMAIN status'.queue \subseteq DOMAIN open.queue \cup {Abort(s)}
        /\ \A x \in DOMAIN open.queue \ {Abort(s)} : status'.queue[x] = open.queue[x]
    BY <2>1, <2>4, <2>5, <2>6, AddCopiesQueue
  <2>8. /\ status'.active = open.active /\ status'.time = open.time
        /\ status'.deployed = open.deployed
        /\ status'.apogeeReached = open.apogeeReached
        /\ status'.launchRodCleared = open.launchRodCleared /\ status'.landed = open.landed
    BY <2>4, <2>7 DEF Sound, Status
  <2> DEFINE E == {Abort(s)}
  <2>9. \A x \in E : x.type = "SIM_ABORT"
    BY <2>5
  <2>10. /\ DOMAIN status'.queue \subseteq DOMAIN open.queue \cup E
         /\ \A x \in DOMAIN open.queue \ E : status'.queue[x] = open.queue[x]
    BY <2>7
  <2> HIDE DEF E
  <2>11. Handled(status, e, status')
    <3>1. /\ \A x \in E : x.type \notin OnceTypes \cup {"RECOVERY_DEVICE_DEPLOYMENT"}
          /\ \A x \in E : x.type # "BURNOUT" /\ x.type # "EJECTION_CHARGE"
      BY <2>9 DEF OnceTypes
    <3>2. /\ status'.active = status.active /\ status'.time = Triggered(status, e).time
          /\ DOMAIN Triggered(status, e).queue \subseteq DOMAIN status'.queue
          /\ DOMAIN status'.queue \subseteq DOMAIN Triggered(status, e).queue \cup E
          /\ \A x \in DOMAIN Triggered(status, e).queue \ E :
                status'.queue[x] = Triggered(status, e).queue[x]
      BY <1>2, <1>5, <2>4, <2>7, <2>8, <2>10
    <3>3. /\ status'.deployed = (IF e.type = "RECOVERY_DEVICE_DEPLOYMENT"
                                THEN status.deployed \cup {e.item} ELSE status.deployed)
          /\ status'.apogeeReached = (status.apogeeReached \/ e.type = "APOGEE")
          /\ status'.launchRodCleared = (status.launchRodCleared \/ e.type = "LAUNCHROD")
          /\ status'.landed = (status.landed \/ e.type = "GROUND_HIT")
      BY <1>2, <1>3, <2>3, <2>4, <2>8
    <3> QED
      BY <1>3, <3>1, <3>2, <3>3, HandledGrown
  <2> QED
    BY <1>3, <1>7, <2>11, HandledWhole
<1> QED
  BY <1>6, <1>8, <1>9

LEMMA SeparationOutcome ==
    ASSUME EngineInvariant, EngineInvariant', HandleStageSeparation
    PROVE  \E e \in Due(status) : HandledNow(e)
<1>1. PICK e \in Due(status) :
         /\ Taken({"STAGE_SEPARATION"}, e)
         /\ LET s == Triggered(status, e)
                n == e.stage
            IN IF ~IsStageActive(s, n - 1)
               THEN status' = s /\ UNCHANGED toSimulate
               ELSE /\ toSimulate' = Push(toSimulate, Booster(s, n))
                    /\ \E found \in Geometries : status' = CheckGeometry(UpperPart(s, n), found)
  BY DEF HandleStageSeparation
<1> DEFINE s == Triggered(status, e)
           n == e.stage
           start == [s EXCEPT !.maxAlt = Below]
           lower == {k \in s.active : k >= n}
           upper == {k \in s.active : k < n}
<1>2. Sound(s)
  BY TriggeredLeaves DEF EngineInvariant
<1>3. /\ e.type = "STAGE_SEPARATION" /\ Sound(status) /\ Sound(status') /\ design \in Designs
      /\ UNCHANGED motors
  BY <1>1 DEF Taken, EngineInvariant, HandleStageSeparation
<1>4. n \in Stages \ {0}
  <2>1. e \in EngineEvents
    BY <1>3, DueEvent
  <2> QED
    BY <1>3, <2>1 DEF EngineEvents
<1>5. Handled(status, e, s)
  BY <1>3, HandledPlainly
<1>6. MotorEffect(e, s)
  BY <1>3 DEF MotorEffect
<1> HIDE DEF s
<1>7. CASE ~IsStageActive(s, n - 1)
  <2>1. status' = s /\ UNCHANGED toSimulate
    BY <1>1, <1>7 DEF s
  <2>2. n - 1 \notin s.active
    BY <1>7 DEF IsStageActive
  <2>3. Parts(e, s, s)
    BY <1>2, <2>2, ContinuesItself DEF Parts
  <2> QED
    BY <1>2, <1>5, <1>6, <2>1, <2>3 DEF HandledNow
<1>8. CASE IsStageActive(s, n - 1)
  <2>1. toSimulate' = <<Booster(s, n)>> \o toSimulate
    BY <1>1, <1>8 DEF s, Push
  <2>2. PICK found \in Geometries : status' = CheckGeometry(UpperPart(s, n), found)
    BY <1>1, <1>8 DEF s
  <2>3. s.active \in SUBSET Stages /\ n \in Int /\ \A k \in Stages : k \in Int
    BY <1>2, <1>4 DEF Sound, Status, Stages
  <2>4. lower \in SUBSET s.active /\ upper \in SUBSET s.active /\ n \notin upper /\ n - 1 \notin lower
    BY <2>3
  <2>5. Sound(start) /\ start.active = s.active /\ Continues(start, s) /\ AddsNoneOnce(start, s)
    <3>1. Sound(start)
      BY <1>2, BoundsAssumption DEF Sound, Status, Below
    <3>2. /\ start.active = s.active /\ start.time = s.time /\ start.queue = s.queue
          /\ start.deployed = s.deployed /\ start.apogeeReached = s.apogeeReached
          /\ start.launchRodCleared = s.launchRodCleared /\ start.landed = s.landed
      BY <1>2 DEF Sound, Status
    <3> HIDE DEF start
    <3> QED
      BY <1>2, <3>1, <3>2, ContinuesItself DEF Continues, AddsNoneOnce
  <2> HIDE DEF lower, upper, start
  <2>6. Parts(e, s, Booster(s, n))
    <3>1. Booster(s, n) = Kept(start, lower)
      BY DEF Booster, start, lower
    <3>2. lower \in SUBSET Stages /\ lower \in SUBSET start.active
      BY <2>3, <2>4, <2>5
    <3>3. Sound(Booster(s, n)) /\ Booster(s, n).active = lower
      BY <2>5, <3>1, <3>2, KeptSound
    <3>4. Continues(Booster(s, n), start) /\ AddsNoneOnce(Booster(s, n), start)
      BY <2>5, <3>1, <3>2, KeptContinues
    <3>5. Continues(Booster(s, n), s) /\ AddsNoneOnce(Booster(s, n), s)
      BY <1>2, <2>5, <3>3, <3>4, ContinuesFurther
    <3> QED
      BY <2>4, <3>3, <3>5 DEF Parts
  <2>7. Parts(e, s, status')
    <3>1. UpperPart(s, n) = Kept(s, upper) /\ upper \in SUBSET Stages
      BY <2>3, <2>4 DEF UpperPart, upper
    <3> DEFINE u == UpperPart(s, n)
    <3>2. Sound(u) /\ u.active = upper
      BY <1>2, <3>1, KeptSound
    <3>3. Continues(u, s) /\ AddsNoneOnce(u, s)
      BY <1>2, <2>4, <3>1, KeptContinues
    <3> HIDE DEF u
    <3>4. status' = CheckGeometry(u, found)
      BY <2>2 DEF u
    <3>5. status'.active = upper /\ Continues(status', u) /\ AddsNoneOnce(status', u)
      BY <3>2, <3>4, CheckGeometryContinues, CheckGeometrySound
    <3>6. Continues(status', s) /\ AddsNoneOnce(status', s)
      BY <1>2, <1>3, <3>2, <3>3, <3>5, ContinuesFurther
    <3> QED
      BY <1>3, <2>4, <3>5, <3>6 DEF Parts
  <2> QED
    BY <1>2, <1>5, <1>6, <2>1, <2>6, <2>7 DEF HandledNow
<1> QED
  BY <1>7, <1>8

(* Every handler refuses the event or handles it.                           *)
LEMMA HandleOutcome ==
    ASSUME EngineInvariant, EngineInvariant', Handle
    PROVE  /\ \E e \in Due(status) : RefusedNow(e) \/ HandledNow(e)
           /\ pc = "events" /\ pc' = "events" /\ UNCHANGED <<design, flown>>
<1>1. \E e \in Due(status) : RefusedNow(e) \/ HandledNow(e)
  BY VetoedOutcome, FlagOutcome, IgnitionOutcome, BurnoutOutcome, EjectionChargeOutcome,
     SeparationOutcome, DeploymentOutcome, GroundHitOutcome, TumbleOutcome, EndOutcome
     DEF Handle
<1>2. pc = "events" /\ pc' = "events" /\ UNCHANGED <<design, flown>>
  BY DEF Handle, HandleVetoed, HandleFlag, HandleIgnition, HandleBurnout, HandleEjectionCharge,
     HandleStageSeparation, HandleDeployment, HandleGroundHit, HandleTumble, HandleEnd, Taken
<1> QED
  BY <1>1, <1>2

-----------------------------------------------------------------------------
(* What the other steps make of the branches.                               *)

LEMMA EventsHandledOutcome ==
    ASSUME EngineInvariant, EngineInvariant', EventsHandled
    PROVE  /\ Continues(status', status) /\ AddsNoneOnce(status', status)
           /\ Due(status) = {} /\ UNCHANGED <<design, toSimulate, motors>>
<1>1. status' \in {status, Add(status, {Abort(status)})}
  BY DEF EventsHandled
<1>2. Sound(status)
  BY DEF EngineInvariant
<1> QED
  BY <1>1, <1>2, AbortContinues, ContinuesItself DEF EventsHandled

LEMMA StartBranchOutcome ==
    ASSUME EngineInvariant, EngineInvariant', StartBranch
    PROVE  /\ toSimulate # <<>> /\ toSimulate' = Tail(toSimulate)
           /\ Sound(Head(toSimulate))
           /\ Continues(status', Head(toSimulate)) /\ AddsNoneOnce(status', Head(toSimulate))
           /\ pc' = "events" /\ UNCHANGED <<design, motors>>
<1>1. Head(toSimulate) \in {s \in Status : Sound(s)}
  <2> DEFINE W == {s \in Status : Sound(s)}
  <2>1. toSimulate \in Seq(W) /\ toSimulate # <<>>
    BY DEF EngineInvariant, StartBranch
  <2> HIDE DEF W
  <2>2. Head(toSimulate) \in W
    BY <2>1, HeadTailProperties
  <2> QED
    BY <2>2 DEF W
<1> QED
  BY <1>1, CheckGeometryContinues DEF StartBranch

(* The flag that an event of each of the types that happen once sets.       *)
Passed(s, type) ==
    \/ type = "APOGEE" /\ s.apogeeReached
    \/ type = "LAUNCHROD" /\ s.launchRodCleared
    \/ type = "GROUND_HIT" /\ s.landed

LEMMA StepEventTypes ==
    ASSUME NEW s, Sound(s), NEW t, Sound(t), t.active = s.active, t.time >= s.time, NEW found
    PROVE  LET E == StepEvents(s, t, found)
           IN  /\ E \in SUBSET EngineEvents
               /\ \A x \in E : x.type \notin RememberedTypes
               /\ \A x \in E : x.type \in OnceTypes =>
                     /\ x.time <= t.time /\ ~Passed(t, x.type)
                     /\ \A y \in E : y.type = x.type => y = x
<1> DEFINE E == StepEvents(s, t, found)
           climb == [FlightEvent("ALTITUDE", t.time, RocketStage, None)
                        EXCEPT !.change = <<s.z, t.z>>]
           liftoff == FlightEvent("LIFTOFF", t.time, NoStage, None)
           hit == FlightEvent("GROUND_HIT", t.time, NoStage, None)
           rod == FlightEvent("LAUNCHROD", t.time, NoStage, None)
           top == FlightEvent("APOGEE", s.time, RocketStage, None)
           tumble == FlightEvent("TUMBLE", t.time, NoStage, None)
<1>1. E \in SUBSET EngineEvents
  BY StepEventsAttached DEF Attached
<1>2. \A x \in E : \/ x \in {climb, liftoff, tumble, Abort(s)}
                   \/ x = hit /\ ~t.landed
                   \/ x = rod /\ ~t.launchRodCleared
                   \/ x = top /\ ~t.apogeeReached
  BY DEF StepEvents, When, HitsGround
<1>3. /\ climb.type = "ALTITUDE" /\ liftoff.type = "LIFTOFF" /\ tumble.type = "TUMBLE"
      /\ Abort(s).type = "SIM_ABORT"
      /\ hit.type = "GROUND_HIT" /\ rod.type = "LAUNCHROD" /\ top.type = "APOGEE"
      /\ hit.time = t.time /\ rod.time = t.time /\ top.time = s.time
  BY DEF FlightEvent, Abort
<1>4. s.time \in Nat /\ t.time \in Nat
  BY DEF Sound, Status
<1> HIDE DEF E, climb, liftoff, hit, rod, top, tumble
<1>5. \A x \in E : x.type \notin RememberedTypes
  BY <1>2, <1>3 DEF RememberedTypes
<1>6. ASSUME NEW x \in E, x.type \in OnceTypes
      PROVE  /\ x.time <= t.time /\ ~Passed(t, x.type)
             /\ \A y \in E : y.type = x.type => y = x
  <2>1. \/ x = hit /\ ~t.landed
        \/ x = rod /\ ~t.launchRodCleared
        \/ x = top /\ ~t.apogeeReached
    BY <1>2, <1>3, <1>6 DEF OnceTypes
  <2>2. x.time <= t.time /\ ~Passed(t, x.type)
    BY <1>3, <1>4, <2>1 DEF Passed
  <2>3. ASSUME NEW y \in E, y.type = x.type PROVE y = x
    <3>1. y \in {hit, rod, top}
      BY <1>2, <1>3, <2>1, <2>3
    <3> QED
      BY <1>3, <2>1, <2>3, <3>1
  <2> QED
    BY <2>2, <2>3
<1> QED
  BY <1>1, <1>5, <1>6 DEF E

LEMMA StepOutcome ==
    ASSUME EngineInvariant, EngineInvariant', Step
    PROVE  /\ pc = "step" /\ pc' = "events" /\ Continues(status', status)
           /\ \A x \in DOMAIN status'.queue \ DOMAIN status.queue : x.type \in OnceTypes =>
                 /\ status'.queue[x] = 1
                 /\ x.time <= status'.time /\ ~Passed(status', x.type)
                 /\ \A y \in DOMAIN status'.queue \ DOMAIN status.queue :
                       y.type = x.type => y = x
           /\ UNCHANGED <<design, toSimulate, motors>>
<1>1. PICK dt \in StepTimes(status), z \in StepAltitudes(status), found \in StepTroubles(status) :
         LET t == [status EXCEPT !.time = @ + dt, !.z = z,
                                 !.maxAlt = IF z > @ THEN z ELSE @]
         IN status' = AddEndWhenIdle(Add(t, StepEvents(status, t, found)))
  BY DEF Step
<1> DEFINE time == status.time + dt
           top == IF z > status.maxAlt THEN z ELSE status.maxAlt
           t == [status EXCEPT !.time = time, !.z = z, !.maxAlt = top]
           E == StepEvents(status, t, found)
           u == Add(t, E)
           end == FlightEvent("SIMULATION_END", u.time, NoStage, None)
<1>2. Sound(status) /\ status \in Status
  BY DEF EngineInvariant, Sound
<1>3. time \in Nat /\ time >= status.time
  BY <1>2, StepTimesTyped DEF Status
<1>4. z \in 0..MaxAltitude
  BY <1>2 DEF StepAltitudes, Status
<1>5. top \in Below..MaxAltitude
  BY <1>2, <1>4, BoundsAssumption DEF Status, Below
<1> HIDE DEF time, top
<1>6. /\ Sound(t) /\ t.active = status.active /\ t.time = time /\ t.queue = status.queue
      /\ t.deployed = status.deployed /\ t.apogeeReached = status.apogeeReached
      /\ t.launchRodCleared = status.launchRodCleared /\ t.landed = status.landed
  BY <1>2, <1>3, <1>4, <1>5 DEF Sound, Status
<1>7. status' = AddEndWhenIdle(u)
  BY <1>1, <1>2 DEF time, top, Status
<1> HIDE DEF t
<1>8. Continues(t, status)
  BY <1>2, <1>3, <1>6, ContinuesItself DEF Continues
<1>9. /\ E \in SUBSET EngineEvents
      /\ \A x \in E : x.type \notin RememberedTypes
      /\ \A x \in E : x.type \in OnceTypes =>
            /\ x.time <= t.time /\ ~Passed(t, x.type)
            /\ \A y \in E : y.type = x.type => y = x
  BY <1>2, <1>3, <1>6, StepEventTypes
<1>10. Sound(u) /\ u.active = t.active
  BY <1>2, <1>6, StepEventsAttached, AddSound DEF SameBut
<1> HIDE DEF E
<1>11. /\ u = [t EXCEPT !.queue = u.queue]
       /\ DOMAIN u.queue = DOMAIN t.queue \cup E
       /\ \A x \in DOMAIN t.queue \ E : u.queue[x] = t.queue[x]
       /\ \A x \in E \ DOMAIN t.queue : u.queue[x] = 1
  BY <1>6, <1>9, AddQueue
<1>12. Continues(u, t)
  BY <1>6, <1>9, AddContinues
<1> HIDE DEF u
<1>13. /\ u.time = t.time /\ u.apogeeReached = t.apogeeReached
       /\ u.launchRodCleared = t.launchRodCleared /\ u.landed = t.landed
  BY <1>6, <1>11 DEF Sound, Status
<1>14. {end} \in SUBSET EngineEvents /\ end.type = "SIMULATION_END"
  <2>1. u.active \in SUBSET Stages /\ u.time \in Nat /\ "SIMULATION_END" \in PlainTypes
    BY <1>10, EventTypesAre DEF Sound, Status, PlainTypes
  <2> QED
    BY <2>1, PlainEvent DEF Attached, FlightEvent
<1>15. status' \in {u, Add(u, {end})}
  BY <1>7 DEF AddEndWhenIdle
<1> HIDE DEF end
<1>16. Continues(status', u) /\ AddsNoneOnce(status', u)
  BY <1>10, <1>14, <1>15, AddContinues, ContinuesItself DEF RememberedTypes, OnceTypes
<1>17. \A x \in DOMAIN status'.queue : x.type \in OnceTypes => status'.queue[x] = u.queue[x]
  <2>1. CASE status' = u
    BY <2>1
  <2>2. CASE status' = Add(u, {end})
    BY <1>10, <1>14, <1>16, <2>2, AddQueue DEF AddsNoneOnce, OnceTypes
  <2> QED
    BY <1>15, <2>1, <2>2
<1>18. Continues(status', status)
  <2>1. Sound(status')
    BY DEF EngineInvariant
  <2>2. Continues(u, status)
    BY <1>2, <1>6, <1>8, <1>10, <1>12, ContinuesOn
  <2> QED
    BY <1>2, <1>10, <1>16, <2>1, <2>2, ContinuesOn
<1>19. ASSUME NEW x \in DOMAIN status'.queue \ DOMAIN status.queue, x.type \in OnceTypes
       PROVE  /\ status'.queue[x] = 1
              /\ x.time <= status'.time /\ ~Passed(status', x.type)
              /\ \A y \in DOMAIN status'.queue \ DOMAIN status.queue :
                    y.type = x.type => y = x
  <2>1. x \in E /\ x \notin DOMAIN t.queue /\ status'.queue[x] = u.queue[x]
    BY <1>6, <1>11, <1>16, <1>17, <1>19 DEF AddsNoneOnce
  <2>2. status'.time >= t.time /\ status'.time \in Nat /\ t.time \in Nat /\ x.time \in Nat
    BY <1>6, <1>9, <1>13, <1>16, <2>1 DEF Continues, EngineInvariant, Sound, Status, EngineEvents, EventType
  <2>3. ~Passed(status', x.type)
    BY <1>9, <1>13, <1>16, <1>19, <2>1 DEF Passed, Continues
  <2>4. ASSUME NEW y \in DOMAIN status'.queue \ DOMAIN status.queue, y.type = x.type
        PROVE  y = x
    <3>1. y \in E
      BY <1>6, <1>11, <1>16, <1>19, <2>4 DEF AddsNoneOnce
    <3> QED
      BY <1>9, <1>19, <2>1, <2>4, <3>1
  <2> QED
    BY <1>9, <1>11, <1>19, <2>1, <2>2, <2>3, <2>4
<1> QED
  BY <1>18, <1>19 DEF Step

-----------------------------------------------------------------------------
(* What every branch keeps: V holds the statuses that have it before a step *)
(* and W those that have it afterwards.                                     *)

LEMMA ElementsOfSequences ==
    /\ \A T, q : q \in Seq(T) => \A i \in DOMAIN q : q[i] \in T
    /\ \A T, q, b : q \in Seq(T) /\ b \in T => <<b>> \o q \in Seq(T)
    /\ \A T, q : q \in Seq(T) /\ q # <<>> => Head(q) = q[1] /\ 1 \in DOMAIN q /\ Tail(q) \in Seq(T)
    /\ \A T, U, q : q \in Seq(U) /\ (\A i \in DOMAIN q : q[i] \in T) => q \in Seq(T)
<1>1. \A T, q : q \in Seq(T) => \A i \in DOMAIN q : q[i] \in T
  OBVIOUS
<1>2. ASSUME NEW T, NEW q \in Seq(T), NEW b \in T PROVE <<b>> \o q \in Seq(T)
  <2>1. <<b>> \in Seq(T)
    OBVIOUS
  <2> QED
    BY <2>1, ConcatProperties
<1>3. ASSUME NEW T, NEW q \in Seq(T), q # <<>>
      PROVE  Head(q) = q[1] /\ 1 \in DOMAIN q /\ Tail(q) \in Seq(T)
  BY <1>3
<1>4. ASSUME NEW T, NEW U, NEW q \in Seq(U), \A i \in DOMAIN q : q[i] \in T
      PROVE  q \in Seq(T)
  <2>1. q \in [1..Len(q) -> U] /\ Len(q) \in Nat /\ DOMAIN q = 1..Len(q)
    OBVIOUS
  <2>2. q \in [1..Len(q) -> T]
    BY <1>4, <2>1
  <2> QED
    BY <2>1, <2>2
<1> QED
  BY <1>1, <1>2, <1>3, <1>4

Have(V) ==
    /\ InFlight => status \in V
    /\ \A i \in DOMAIN toSimulate : toSimulate[i] \in V

(* A status of V, its successors, the branches that wait and the branch in  *)
(* flight are in W after a step.                                            *)
Keep(V, W) ==
    /\ UNCHANGED <<design, motors>> =>
          \A s \in V : \A p : Sound(s) /\ Sound(p) /\ Continues(p, s) /\ AddsNoneOnce(p, s) => p \in W
    /\ Handle => \A i \in DOMAIN toSimulate : toSimulate[i] \in W
    /\ Handle => \A e \in Due(status) : RefusedNow(e) => status' \in W
    /\ Handle => \A e \in Due(status) : \A t, p :
          Sound(t) /\ Handled(status, e, t) /\ MotorEffect(e, t) /\ Parts(e, t, p) => p \in W
    /\ Step => status' \in W

LEMMA BranchesStep ==
    ASSUME EngineInvariant, EngineInvariant', [Next]_vars, NEW V, NEW W, Have(V), Keep(V, W)
    PROVE  /\ InFlight' => status' \in W
           /\ \A i \in DOMAIN toSimulate' : toSimulate'[i] \in W
<1> USE DEF Have, Keep
<1> DEFINE S == {s \in Status : Sound(s)}
<1>1. /\ toSimulate \in Seq(S) /\ toSimulate' \in Seq(S) /\ Sound(status) /\ Sound(status')
      /\ \A i \in DOMAIN toSimulate : Sound(toSimulate[i])
  <2>1. toSimulate \in Seq(S) /\ toSimulate' \in Seq(S) /\ Sound(status) /\ Sound(status')
    BY DEF EngineInvariant
  <2>2. \A i \in DOMAIN toSimulate : toSimulate[i] \in S
    BY <2>1, ElementsOfSequences
  <2> QED
    BY <2>1, <2>2
<1> HIDE DEF S
<1>2. UNCHANGED <<design, motors>> => \A s \in V : Sound(s) => s \in W
  BY ContinuesItself
<1>3. CASE Handle
  <2>1. PICK e \in Due(status) : RefusedNow(e) \/ HandledNow(e)
    BY <1>3, HandleOutcome
  <2>2. \A i \in DOMAIN toSimulate : toSimulate[i] \in W
    BY <1>3
  <2>3. CASE RefusedNow(e)
    BY <1>3, <2>2, <2>3 DEF RefusedNow
  <2>4. CASE HandledNow(e)
    <3>1. PICK t : /\ Sound(t) /\ Handled(status, e, t) /\ MotorEffect(e, t)
                   /\ Parts(e, t, status')
                   /\ \/ UNCHANGED toSimulate
                      \/ \E b : Parts(e, t, b) /\ toSimulate' = <<b>> \o toSimulate
      BY <2>4 DEF HandledNow
    <3>2. status' \in W
      BY <1>3, <3>1
    <3>3. ASSUME NEW b, Parts(e, t, b), toSimulate' = <<b>> \o toSimulate
          PROVE  \A i \in DOMAIN toSimulate' : toSimulate'[i] \in W
      <4>1. b \in W
        BY <1>3, <3>1, <3>3
      <4>2. toSimulate \in Seq(W)
        BY <1>1, <2>2, ElementsOfSequences
      <4>3. toSimulate' \in Seq(W)
        BY <3>3, <4>1, <4>2, ElementsOfSequences
      <4> QED
        BY <4>3, ElementsOfSequences
    <3> QED
      BY <2>2, <3>1, <3>2, <3>3
  <2> QED
    BY <2>1, <2>3, <2>4
<1>4. CASE StartBranch
  <2>1. /\ toSimulate # <<>> /\ toSimulate' = Tail(toSimulate)
        /\ Continues(status', Head(toSimulate)) /\ AddsNoneOnce(status', Head(toSimulate))
        /\ UNCHANGED <<design, motors>>
    BY <1>4, StartBranchOutcome
  <2>2. Head(toSimulate) = toSimulate[1] /\ 1 \in DOMAIN toSimulate
    BY <1>1, <2>1, ElementsOfSequences
  <2>3. status' \in W
    BY <1>1, <2>1, <2>2
  <2>4. \A i \in DOMAIN toSimulate : toSimulate[i] \in W
    BY <1>1, <1>2, <2>1
  <2>5. toSimulate \in Seq(W)
    BY <1>1, <2>4, ElementsOfSequences
  <2>6. toSimulate' \in Seq(W)
    BY <2>1, <2>5, ElementsOfSequences
  <2> QED
    BY <2>3, <2>6, ElementsOfSequences
<1>5. CASE EndSimulation
  BY <1>1, <1>2, <1>5 DEF EndSimulation, InFlight
<1>6. CASE EventsHandled
  <2>1. /\ InFlight /\ Continues(status', status) /\ AddsNoneOnce(status', status)
        /\ UNCHANGED <<design, toSimulate, motors>>
    BY <1>6, EventsHandledOutcome DEF EventsHandled, InFlight
  <2> QED
    BY <1>1, <1>2, <2>1
<1>7. CASE Step
  BY <1>1, <1>2, <1>7, StepOutcome
<1>8. CASE Fail
  BY <1>1, <1>2, <1>8 DEF Fail, InFlight
<1>9. CASE UNCHANGED vars
  BY <1>1, <1>2, <1>9 DEF vars, InFlight
<1> QED
  BY <1>3, <1>4, <1>5, <1>6, <1>7, <1>8, <1>9 DEF Next, Terminated

LEMMA StatusesHave ==
    ASSUME EngineInvariant, NEW V, Have(V)
    PROVE  \A i \in DOMAIN Statuses : Statuses[i] \in V
<1> USE DEF Have
<1>1. toSimulate \in Seq(V)
  BY ElementsOfSequences DEF EngineInvariant
<1>2. CASE InFlight
  <2>1. Statuses = <<status>> \o toSimulate
    BY <1>2 DEF Statuses
  <2> QED
    BY <1>1, <1>2, <2>1, ElementsOfSequences
<1>3. CASE ~InFlight
  <2>1. Statuses = toSimulate
    BY <1>1, <1>3 DEF Statuses
  <2> QED
    BY <2>1
<1> QED
  BY <1>2, <1>3

-----------------------------------------------------------------------------
(* Apogee, the launch rod and the ground are passed once.                   *)

(* An event of a type that happens once is due, queued once, the only one   *)
(* of its type, and has not happened.                                       *)
Once(s) ==
    \A x \in DOMAIN s.queue : x.type \in OnceTypes =>
        /\ x.time <= s.time /\ s.queue[x] = 1 /\ ~Passed(s, x.type)
        /\ \A y \in DOMAIN s.queue : y.type = x.type => y = x

OnceInvariant ==
    /\ InFlight => Once(status)
    /\ \A i \in DOMAIN toSimulate : Once(toSimulate[i])
    /\ pc = "step" => \A x \in DOMAIN status.queue : x.type \notin OnceTypes

LEMMA OnceContinues ==
    ASSUME NEW s, Sound(s), NEW p, Sound(p), Once(s), Continues(p, s), AddsNoneOnce(p, s)
    PROVE  Once(p)
<1> SUFFICES ASSUME NEW x \in DOMAIN p.queue, x.type \in OnceTypes
             PROVE  /\ x.time <= p.time /\ p.queue[x] = 1 /\ ~Passed(p, x.type)
                    /\ \A y \in DOMAIN p.queue : y.type = x.type => y = x
  BY DEF Once
<1>1. x \in DOMAIN s.queue /\ p.queue[x] <= s.queue[x]
  BY DEF AddsNoneOnce
<1>2. /\ x.time <= s.time /\ s.queue[x] = 1 /\ ~Passed(s, x.type)
      /\ \A y \in DOMAIN s.queue : y.type = x.type => y = x
  BY <1>1 DEF Once
<1>3. /\ s.time \in Nat /\ p.time \in Nat /\ x.time \in Nat
      /\ p.queue[x] \in Nat \ {0} /\ p.time >= s.time
  BY BagFacts DEF Sound, Status, EngineEvents, EventType, Continues
<1>4. ~Passed(p, x.type)
  BY <1>2 DEF Passed, Continues
<1>5. \A y \in DOMAIN p.queue : y.type = x.type => y \in DOMAIN s.queue
  BY DEF AddsNoneOnce
<1> QED
  BY <1>1, <1>2, <1>3, <1>4, <1>5

LEMMA OnceRefused ==
    ASSUME NEW s, Sound(s), NEW e \in DOMAIN s.queue, NEW t, Sound(t), Once(s), Refused(s, e, t)
    PROVE  Once(t)
<1> SUFFICES ASSUME NEW x \in DOMAIN t.queue, x.type \in OnceTypes
             PROVE  /\ x.time <= t.time /\ t.queue[x] = 1 /\ ~Passed(t, x.type)
                    /\ \A y \in DOMAIN t.queue : y.type = x.type => y = x
  BY DEF Once
<1>1. x \in DOMAIN s.queue /\ t.queue[x] <= s.queue[x]
  BY DEF Refused
<1>2. /\ x.time <= s.time /\ s.queue[x] = 1 /\ ~Passed(s, x.type)
      /\ \A y \in DOMAIN s.queue : y.type = x.type => y = x
  BY <1>1 DEF Once
<1>3. /\ s.time \in Nat /\ t.time \in Nat /\ x.time \in Nat
      /\ t.queue[x] \in Nat \ {0} /\ t.time >= s.time
  BY BagFacts DEF Sound, Status, EngineEvents, EventType, Refused
<1>4. ~Passed(t, x.type)
  BY <1>2 DEF Passed, Refused
<1>5. \A y \in DOMAIN t.queue : y.type = x.type => y \in DOMAIN s.queue
  BY DEF Refused
<1> QED
  BY <1>1, <1>2, <1>3, <1>4, <1>5

LEMMA OnceHandled ==
    ASSUME NEW s, Sound(s), NEW e \in DOMAIN s.queue, NEW t, Sound(t), Once(s), Handled(s, e, t)
    PROVE  Once(t)
<1> SUFFICES ASSUME NEW x \in DOMAIN t.queue, x.type \in OnceTypes
             PROVE  /\ x.time <= t.time /\ t.queue[x] = 1 /\ ~Passed(t, x.type)
                    /\ \A y \in DOMAIN t.queue : y.type = x.type => y = x
  BY DEF Once
<1>1. x \in DOMAIN s.queue /\ t.queue[x] <= s.queue[x] /\ (x = e => s.queue[e] # 1)
  BY DEF Handled, SetsOff
<1>2. /\ x.time <= s.time /\ s.queue[x] = 1 /\ ~Passed(s, x.type)
      /\ \A y \in DOMAIN s.queue : y.type = x.type => y = x
  BY <1>1 DEF Once
<1>3. /\ s.time \in Nat /\ t.time \in Nat /\ x.time \in Nat
      /\ t.queue[x] \in Nat \ {0} /\ t.time >= s.time
  BY BagFacts DEF Sound, Status, EngineEvents, EventType, Handled, SetsOff
<1>4. e.type # x.type
  BY <1>1, <1>2
<1>5. ~Passed(t, x.type)
  <2>1. /\ t.apogeeReached = (s.apogeeReached \/ e.type = "APOGEE")
        /\ t.launchRodCleared = (s.launchRodCleared \/ e.type = "LAUNCHROD")
        /\ t.landed = (s.landed \/ e.type = "GROUND_HIT")
        /\ {s.apogeeReached, s.launchRodCleared, s.landed} \subseteq BOOLEAN
    BY DEF Handled, Sound, Status
  <2> QED
    BY <1>2, <1>4, <2>1 DEF Passed
<1>6. \A y \in DOMAIN t.queue : y.type = x.type => y \in DOMAIN s.queue
  BY DEF Handled, SetsOff
<1> QED
  BY <1>1, <1>2, <1>3, <1>5, <1>6

LEMMA OnceStep ==
    ASSUME EngineInvariant, EngineInvariant', OnceInvariant, Step
    PROVE  Once(status')
<1>1. /\ pc = "step" /\ Continues(status', status)
      /\ \A x \in DOMAIN status'.queue \ DOMAIN status.queue : x.type \in OnceTypes =>
            /\ status'.queue[x] = 1
            /\ x.time <= status'.time /\ ~Passed(status', x.type)
            /\ \A y \in DOMAIN status'.queue \ DOMAIN status.queue :
                  y.type = x.type => y = x
  BY StepOutcome
<1>2. \A x \in DOMAIN status.queue : x.type \notin OnceTypes
  BY <1>1 DEF OnceInvariant
<1> QED
  BY <1>1, <1>2 DEF Once

LEMMA DueIsQueued ==
    ASSUME NEW s, Sound(s), NEW e \in Due(s)
    PROVE  e \in DOMAIN s.queue
BY BagFacts DEF Sound, Status, Due, Firsts

LEMMA OnceInductive == EngineInvariant /\ EngineInvariant' /\ OnceInvariant /\ [Next]_vars => OnceInvariant'
<1> SUFFICES ASSUME EngineInvariant, EngineInvariant', OnceInvariant, [Next]_vars
             PROVE  OnceInvariant'
  OBVIOUS
<1> DEFINE V == {s \in Status : Once(s)}
<1>1. Sound(status) /\ Sound(status') /\ status \in Status /\ status' \in Status
  BY DEF EngineInvariant, Sound
<1>2. Have(V)
  BY <1>1, ElementsOfSequences DEF EngineInvariant, OnceInvariant, Have
<1>3. \A s \in V : \A p : Sound(s) /\ Sound(p) /\ Continues(p, s) /\ AddsNoneOnce(p, s) => p \in V
  BY OnceContinues DEF Sound
<1>4. ASSUME Handle, NEW e \in Due(status)
      PROVE  Once(status) /\ e \in DOMAIN status.queue
  BY <1>1, <1>4, HandleOutcome, DueIsQueued DEF OnceInvariant, InFlight
<1>5. ASSUME Handle, NEW e \in Due(status), RefusedNow(e)
      PROVE  status' \in V
  BY <1>1, <1>4, <1>5, OnceRefused DEF RefusedNow
<1>6. ASSUME Handle, NEW e \in Due(status), NEW t, NEW p,
             Sound(t), Handled(status, e, t), Parts(e, t, p)
      PROVE  p \in V
  <2>1. Once(t)
    BY <1>1, <1>4, <1>6, OnceHandled
  <2> QED
    BY <1>6, <2>1, OnceContinues DEF Parts, Sound
<1>7. Step => status' \in V
  BY <1>1, OnceStep
<1> HIDE DEF V
<1>8. Keep(V, V)
  <2>1. Handle => \A i \in DOMAIN toSimulate : toSimulate[i] \in V
    BY <1>2 DEF Have
  <2> QED
    BY <1>3, <1>5, <1>6, <1>7, <2>1 DEF Keep
<1>9. /\ InFlight' => status' \in V
      /\ \A i \in DOMAIN toSimulate' : toSimulate'[i] \in V
  BY <1>2, <1>8, BranchesStep
<1>10. pc' = "step" => \A x \in DOMAIN status'.queue : x.type \notin OnceTypes
  <2> SUFFICES ASSUME pc' = "step", NEW x \in DOMAIN status'.queue, x.type \in OnceTypes
               PROVE  FALSE
    OBVIOUS
  <2>1. CASE EventsHandled
    <3>1. AddsNoneOnce(status', status) /\ Due(status) = {} /\ InFlight
      BY <2>1, EventsHandledOutcome DEF EventsHandled, InFlight
    <3>2. x \in DOMAIN status.queue
      BY <3>1 DEF AddsNoneOnce
    <3>3. x.time > status.time /\ x.time <= status.time
      BY <1>1, <3>1, <3>2, NothingDue DEF OnceInvariant, Once
    <3>4. x.time \in Nat /\ status.time \in Nat
      BY <1>1, <3>2, BagFacts DEF Status, EngineEvents, EventType
    <3> QED
      BY <3>3, <3>4
  <2>2. CASE UNCHANGED vars
    BY <2>2 DEF vars, OnceInvariant
  <2>3. CASE ~EventsHandled /\ ~UNCHANGED vars
    <3>1. pc' # "step"
      BY <2>3, HandleOutcome DEF Next, StartBranch, EndSimulation, Step, Fail, Terminated
    <3> QED
      BY <3>1
  <2> QED
    BY <2>1, <2>2, <2>3
<1> QED
  BY <1>9, <1>10 DEF OnceInvariant, V

LEMMA FirstStatusQueue ==
    ASSUME design \in Designs
    PROVE  LET s == FirstStatus(design)
           IN  /\ Sound(s) /\ s.time = 0 /\ s.deployed = {}
               /\ ~s.apogeeReached /\ ~s.launchRodCleared /\ ~s.landed
               /\ \A x \in DOMAIN s.queue : x.type \in {"LAUNCH", "SIM_ABORT"}
<1> DEFINE s == [active |-> design.active, time |-> 0, z |-> 0, maxAlt |-> Below,
                 motorIgnited |-> FALSE, liftoff |-> FALSE, launchRodCleared |-> FALSE,
                 apogeeReached |-> FALSE, tumbling |-> FALSE, landed |-> FALSE,
                 deployed |-> {}, queue |-> EmptyBag]
           noStage == IF design.active = {} THEN 1 ELSE 0
           noMotor == IF ActiveMotors(s) = {} THEN 1 ELSE 0
           launch == FlightEvent("LAUNCH", 0, RocketStage, None)
           u == AddCopies(s, Abort(s), noStage + noMotor)
           f == FirstStatus(design)
<1>1. design.active \in SUBSET Stages
  BY DesignTyped DEF DesignType
<1>2. EmptyBag \in BagsOf(EngineEvents) /\ DOMAIN EmptyBag = {}
  BY DEF EmptyBag, SetToBag, BagsOf
<1>3. Sound(s) /\ DOMAIN s.queue = {}
  BY <1>1, <1>2, BoundsAssumption DEF Sound, Status, Below
<1>4. noStage + noMotor \in Nat
  OBVIOUS
<1>5. f = Add(u, {launch})
  BY DEF FirstStatus
<1>6. Abort(s) \in EngineEvents /\ Abort(s).type = "SIM_ABORT"
  BY <1>3, AbortIsPlain
<1>7. {launch} \in SUBSET EngineEvents /\ launch.type = "LAUNCH"
  BY <1>1, EventTypesAre, PlainEvent DEF PlainTypes, Attached, FlightEvent
<1>8. /\ s.time = 0 /\ s.deployed = {}
      /\ ~s.apogeeReached /\ ~s.launchRodCleared /\ ~s.landed
  OBVIOUS
<1> HIDE DEF s, noStage, noMotor, launch
<1>9. /\ u = [s EXCEPT !.queue = u.queue]
      /\ DOMAIN u.queue \subseteq DOMAIN s.queue \cup {Abort(s)}
  BY <1>3, <1>4, <1>6, AddCopiesQueue
<1>10. Sound(u)
  BY <1>3, <1>4, AbortEvent, AddCopiesSound
<1> HIDE DEF u, f
<1>11. f = [u EXCEPT !.queue = f.queue] /\ DOMAIN f.queue = DOMAIN u.queue \cup {launch}
  BY <1>5, <1>7, <1>10, AddQueue
<1>12. Sound(f)
  BY FirstStatusSound DEF f
<1>13. u \in Status /\ s \in Status /\ f \in Status
  BY <1>3, <1>10, <1>12 DEF Sound
<1>14. /\ u.time = 0 /\ u.deployed = {}
       /\ ~u.apogeeReached /\ ~u.launchRodCleared /\ ~u.landed
  BY <1>8, <1>9, <1>13 DEF Status
<1>15. /\ f.time = 0 /\ f.deployed = {}
       /\ ~f.apogeeReached /\ ~f.launchRodCleared /\ ~f.landed
  BY <1>11, <1>13, <1>14 DEF Status
<1>16. \A x \in DOMAIN f.queue : x.type \in {"LAUNCH", "SIM_ABORT"}
  BY <1>3, <1>6, <1>7, <1>9, <1>11
<1> QED
  BY <1>12, <1>15, <1>16 DEF f

LEMMA OneBranchAtFirst ==
    ASSUME Init
    PROVE  /\ ~InFlight /\ pc = "branch"
           /\ \A i \in DOMAIN toSimulate : toSimulate[i] = FirstStatus(design)
BY DEF Init, InFlight

LEMMA OnceInitially == Init => OnceInvariant
<1> SUFFICES ASSUME Init PROVE OnceInvariant
  OBVIOUS
<1>1. \A x \in DOMAIN FirstStatus(design).queue : x.type \in {"LAUNCH", "SIM_ABORT"}
  BY FirstStatusQueue DEF Init
<1>2. Once(FirstStatus(design))
  BY <1>1 DEF Once, OnceTypes
<1> QED
  BY <1>2, OneBranchAtFirst DEF OnceInvariant

LEMMA OnceAlways == Spec => []OnceInvariant
BY EngineStaysSound, OnceInitially, OnceInductive, PTL DEF Spec

(* Whatever the calculators report and whatever a listener refuses, no      *)
(* event that a branch has handled once (apogee, the end of the launch rod, *)
(* the ground) is ever queued for it again: addStepEvents queues it only    *)
(* when none is waiting, since every step is taken with all due events      *)
(* handled, and a separation copies the flags with the queue.               *)
THEOREM FlightEventsHappenOnce == Spec => []HappensOnce
<1>1. EngineInvariant /\ OnceInvariant => HappensOnce
  <2> SUFFICES ASSUME EngineInvariant, OnceInvariant PROVE HappensOnce
    OBVIOUS
  <2> DEFINE V == {s \in Status : Once(s)}
  <2>1. Have(V)
    BY ElementsOfSequences DEF EngineInvariant, OnceInvariant, Sound, Have
  <2> HIDE DEF V
  <2>2. \A i \in DOMAIN Statuses : Statuses[i] \in V
    BY <2>1, StatusesHave
  <2>3. ASSUME NEW i \in DOMAIN Statuses, NEW x \in BagToSet(Statuses[i].queue)
        PROVE  LET s == Statuses[i]
                   passed == {t \in {"APOGEE", "LAUNCHROD", "GROUND_HIT"} :
                                 [APOGEE |-> s.apogeeReached, LAUNCHROD |-> s.launchRodCleared,
                                  GROUND_HIT |-> s.landed][t]}
               IN x.type \notin passed
    <3> DEFINE s == Statuses[i]
    <3>1. s \in Status /\ Once(s) /\ x \in DOMAIN s.queue
      BY <2>2, <2>3, BagFacts DEF V, Status
    <3> HIDE DEF s
    <3>2. x.type \in OnceTypes => ~Passed(s, x.type)
      BY <3>1 DEF Once
    <3> QED
      BY <3>2 DEF Passed, OnceTypes, s
  <2> QED
    BY <2>3 DEF HappensOnce
<1> QED
  BY EngineStaysSound, OnceAlways, <1>1, PTL

-----------------------------------------------------------------------------
(* What set a device or a separation off is not forgotten.                  *)

LEMMA WaitingMotors ==
    ASSUME EngineInvariant, StagesFlyOnce, Handle, NEW i \in DOMAIN toSimulate,
           NEW m \in Motors, StageOf[m] \in toSimulate[i].active
    PROVE  motors'[m] = motors[m]
BY OnlyOwnMotors, WaitingStagesApart DEF Next

(* A motor with an ejection charge is spent by firing the charge.           *)
LEMMA SpentByItsCharge ==
    ASSUME EngineInvariant, NEW e, NEW t, MotorEffect(e, t),
           NEW m \in Motors, HasEjectionCharge(m),
           motors'[m].state = "SPENT", motors[m].state # "SPENT"
    PROVE  e.type = "EJECTION_CHARGE" /\ e.item = m
<1>1. motors \in [Motors -> MotorType]
  BY DEF EngineInvariant
<1>2. \A k, v : [motors EXCEPT ![k] = v][m] # motors[m] =>
         k = m /\ [motors EXCEPT ![k] = v][m] = v
  BY <1>1
<1>3. motors'[m] # motors[m]
  OBVIOUS
<1>4. Ignite(motors[m], e.time).state # "SPENT"
  BY DEF Ignite
<1>5. BurnOut(motors[m], HasEjectionCharge(m)).state # "SPENT"
  <2>1. motors[m] \in MotorType
    BY <1>1
  <2> QED
    BY <2>1 DEF BurnOut, MotorType
<1>6. CASE motors' = [motors EXCEPT ![e.item] = Ignite(@, e.time)]
  BY <1>2, <1>3, <1>4, <1>6
<1>7. CASE motors' = [motors EXCEPT ![e.item] = BurnOut(@, HasEjectionCharge(e.item))]
  <2> DEFINE v == BurnOut(motors[e.item], HasEjectionCharge(e.item))
  <2>1. motors' = [motors EXCEPT ![e.item] = v]
    BY <1>7
  <2> HIDE DEF v
  <2>2. e.item = m /\ motors'[m] = v
    BY <1>2, <1>3, <2>1
  <2>3. v = BurnOut(motors[m], HasEjectionCharge(m))
    BY <2>2, Zenon DEF v
  <2> QED
    BY <1>5, <2>2, <2>3
<1>8. CASE e.type = "EJECTION_CHARGE" /\ motors' = [motors EXCEPT ![e.item] = Expend(@)]
  BY <1>2, <1>3, <1>8
<1> QED
  BY <1>3, <1>6, <1>7, <1>8 DEF MotorEffect

Expended(mm, d) ==
    \E m \in Motors : Assembly[m] = Assembly[d] /\ mm[m].state = "SPENT" /\ HasEjectionCharge(m)

SetOffBy(s, mm, d) ==
    \/ design.deployment[d] = "APOGEE" /\ s.apogeeReached
    \/ design.deployment[d] = "EJECTION" /\ Expended(mm, d)

Opens(s, d) ==
    \/ d \in s.deployed
    \/ \E x \in DOMAIN s.queue : x.type = "RECOVERY_DEVICE_DEPLOYMENT" /\ x.item = d

(* With the motors mm, the branch s has not forgotten a device.             *)
RecallsDevices(s, mm) ==
    \A d \in Devices : StageOf[d] \in s.active /\ SetOffBy(s, mm, d) => Opens(s, d)

LEMMA DeploymentAttached ==
    ASSUME NEW s, Sound(s), NEW x \in DOMAIN s.queue, x.type = "RECOVERY_DEVICE_DEPLOYMENT"
    PROVE  x.item \in Devices /\ x.stage = StageOf[x.item] /\ StageOf[x.item] \in s.active
<1>1. x \in EngineEvents /\ x \in Attached(s.active)
  BY DEF Sound, Attached
<1>2. x.item \in Devices /\ x.stage = StageOf[x.item]
  BY <1>1 DEF EngineEvents
<1>3. StageOf[x.item] \in Stages /\ NoStage \notin Stages /\ RocketStage \notin Stages
  BY <1>2, StageNumbers DEF Stages, NoStage, RocketStage
<1> QED
  BY <1>1, <1>2, <1>3 DEF Attached, IsAttached

LEMMA RecallsContinues ==
    ASSUME NEW s, Sound(s), NEW p, Continues(p, s), NEW mm, RecallsDevices(s, mm)
    PROVE  RecallsDevices(p, mm)
<1> SUFFICES ASSUME NEW d \in Devices, StageOf[d] \in p.active, SetOffBy(p, mm, d)
             PROVE  Opens(p, d)
  BY DEF RecallsDevices
<1>1. StageOf[d] \in s.active /\ SetOffBy(s, mm, d)
  BY DEF Continues, SetOffBy
<1>2. Opens(s, d)
  BY <1>1 DEF RecallsDevices
<1>3. ASSUME NEW x \in DOMAIN s.queue, x.type = "RECOVERY_DEVICE_DEPLOYMENT", x.item = d
      PROVE  x \in DOMAIN p.queue
  <2>1. x.stage = StageOf[d]
    BY <1>3, DeploymentAttached
  <2> QED
    BY <2>1 DEF Continues, IsAttached
<1> QED
  BY <1>2, <1>3 DEF Opens, Continues

LEMMA RecallsRefused ==
    ASSUME NEW s, Sound(s), NEW e, e.type # "RECOVERY_DEVICE_DEPLOYMENT",
           NEW t, Refused(s, e, t), NEW mm, RecallsDevices(s, mm)
    PROVE  RecallsDevices(t, mm)
<1> SUFFICES ASSUME NEW d \in Devices, StageOf[d] \in t.active, SetOffBy(t, mm, d)
             PROVE  Opens(t, d)
  BY DEF RecallsDevices
<1>1. Opens(s, d)
  BY DEF RecallsDevices, Refused, SetOffBy
<1> QED
  BY <1>1 DEF Opens, Refused

LEMMA RecallsHandled ==
    ASSUME EngineInvariant, NEW e \in Due(status), NEW t, Handled(status, e, t),
           MotorEffect(e, t), RecallsDevices(status, motors)
    PROVE  RecallsDevices(t, motors')
<1> SUFFICES ASSUME NEW d \in Devices, StageOf[d] \in t.active, SetOffBy(t, motors', d)
             PROVE  Opens(t, d)
  BY DEF RecallsDevices
<1>1. StageOf[d] \in status.active /\ e \in DOMAIN status.queue
  BY DueIsQueued DEF Handled, SetsOff, EngineInvariant
<1>2. CASE SetOffBy(status, motors, d)
  <2>1. Opens(status, d)
    BY <1>1, <1>2 DEF RecallsDevices
  <2>2. status.deployed \subseteq t.deployed
    BY DEF Handled
  <2>3. \A x \in DOMAIN status.queue : x.type = "RECOVERY_DEVICE_DEPLOYMENT" /\ x.item = d =>
           x \in DOMAIN t.queue \/ d \in t.deployed
    BY DEF Handled, SetsOff
  <2> QED
    BY <2>1, <2>2, <2>3 DEF Opens
<1>3. CASE ~SetOffBy(status, motors, d)
  <2>1. Deploys(e, d)
    <3>1. CASE design.deployment[d] = "APOGEE" /\ t.apogeeReached
      <4>1. e.type = "APOGEE"
        BY <1>3, <3>1 DEF SetOffBy, Handled
      <4> QED
        BY <3>1, <4>1 DEF Deploys
    <3>2. CASE design.deployment[d] = "EJECTION" /\ Expended(motors', d)
      <4>1. PICK m \in Motors : /\ Assembly[m] = Assembly[d] /\ motors'[m].state = "SPENT"
                                /\ HasEjectionCharge(m)
        BY <3>2 DEF Expended
      <4>2. motors[m].state # "SPENT"
        BY <1>3, <3>2, <4>1 DEF SetOffBy, Expended
      <4>3. e.type = "EJECTION_CHARGE" /\ e.item = m
        BY <4>1, <4>2, SpentByItsCharge
      <4> QED
        BY <3>2, <4>1, <4>3 DEF Deploys
    <3> QED
      BY <3>1, <3>2 DEF SetOffBy
  <2>2. d \in status.deployed \/ Deployment(e, d) \in DOMAIN t.queue
    BY <1>1, <2>1 DEF Handled, SetsOff
  <2>3. Deployment(e, d).type = "RECOVERY_DEVICE_DEPLOYMENT" /\ Deployment(e, d).item = d
    BY DEF Deployment, FlightEvent
  <2> QED
    BY <2>2, <2>3 DEF Opens, Handled
<1> QED
  BY <1>2, <1>3

(* A branch that waits has its motors left alone, so nothing sets its       *)
(* devices off meanwhile.                                                   *)
LEMMA RecallsWaiting ==
    ASSUME EngineInvariant, StagesFlyOnce, Handle, NEW i \in DOMAIN toSimulate,
           RecallsDevices(toSimulate[i], motors)
    PROVE  RecallsDevices(toSimulate[i], motors')
<1> SUFFICES ASSUME NEW d \in Devices, StageOf[d] \in toSimulate[i].active,
                    SetOffBy(toSimulate[i], motors', d)
             PROVE  SetOffBy(toSimulate[i], motors, d)
  BY DEF RecallsDevices
<1>1. \A m \in Motors : Assembly[m] = Assembly[d] => motors'[m] = motors[m]
  BY WaitingMotors, PartsAssumption
<1> QED
  BY <1>1 DEF SetOffBy, Expended

DevicesRecalled ==
    /\ InFlight => RecallsDevices(status, motors)
    /\ \A i \in DOMAIN toSimulate : RecallsDevices(toSimulate[i], motors)

LEMMA DevicesRecalledInductive ==
    ASSUME "RECOVERY_DEVICE_DEPLOYMENT" \notin Vetoed,
           EngineInvariant, EngineInvariant', StagesFlyOnce, DevicesRecalled, [Next]_vars
    PROVE  DevicesRecalled'
<1> DEFINE V == {s \in Status : RecallsDevices(s, motors)}
           W == {s \in Status : RecallsDevices(s, motors')}
<1>1. Sound(status) /\ Sound(status') /\ status \in Status /\ status' \in Status
  BY DEF EngineInvariant, Sound
<1>2. Have(V)
  BY <1>1, ElementsOfSequences DEF EngineInvariant, DevicesRecalled, Have
<1>3. ASSUME UNCHANGED <<design, motors>>, NEW s \in V, NEW p, Sound(s), Sound(p), Continues(p, s)
      PROVE  p \in W
  BY <1>3, RecallsContinues DEF Sound
<1>4. ASSUME Handle, NEW i \in DOMAIN toSimulate
      PROVE  toSimulate[i] \in W
  BY <1>2, <1>4, RecallsWaiting DEF Have
<1>5. Handle => RecallsDevices(status, motors)
  BY HandleOutcome DEF DevicesRecalled, InFlight
<1>6. ASSUME Handle, NEW e \in Due(status), RefusedNow(e)
      PROVE  status' \in W
  BY <1>1, <1>5, <1>6, RecallsRefused DEF RefusedNow
<1>7. ASSUME Handle, NEW e \in Due(status), NEW t, NEW p,
             Sound(t), Handled(status, e, t), MotorEffect(e, t), Parts(e, t, p)
      PROVE  p \in W
  <2>1. RecallsDevices(t, motors')
    BY <1>5, <1>7, RecallsHandled
  <2> QED
    BY <1>7, <2>1, RecallsContinues DEF Parts, Sound
<1>8. ASSUME Step PROVE status' \in W
  <2>1. status \in V /\ Continues(status', status) /\ UNCHANGED <<design, motors>>
    BY <1>2, <1>8, StepOutcome DEF Have, InFlight
  <2> QED
    BY <1>1, <1>3, <2>1
<1> HIDE DEF V, W
<1>9. Keep(V, W)
  BY <1>3, <1>4, <1>6, <1>7, <1>8 DEF Keep
<1>10. /\ InFlight' => status' \in W
       /\ \A i \in DOMAIN toSimulate' : toSimulate'[i] \in W
  BY <1>2, <1>9, BranchesStep
<1>11. design' = design
  BY HandleOutcome, StartBranchOutcome, EventsHandledOutcome, StepOutcome
     DEF Next, EndSimulation, Fail, Terminated, vars
<1> QED
  BY <1>10, <1>11 DEF DevicesRecalled, W, RecallsDevices, SetOffBy, Expended, HasEjectionCharge

LEMMA DevicesRecalledAlways ==
    ASSUME "RECOVERY_DEVICE_DEPLOYMENT" \notin Vetoed
    PROVE  Spec => []DevicesRecalled
<1>1. Init => DevicesRecalled
  <2> SUFFICES ASSUME Init PROVE DevicesRecalled
    OBVIOUS
  <2>1. ~FirstStatus(design).apogeeReached /\ \A m \in Motors : motors[m].state = "ARMED"
    BY FirstStatusQueue DEF Init
  <2>2. RecallsDevices(FirstStatus(design), motors)
    BY <2>1 DEF RecallsDevices, SetOffBy, Expended
  <2> QED
    BY <2>2, OneBranchAtFirst DEF DevicesRecalled
<1> QED
  BY EngineStaysSound, FlightStagesFlyOnce, <1>1, DevicesRecalledInductive, PTL DEF Spec

(* A device that apogee or an ejection charge set off is open or queued to  *)
(* open, in the branch that carries it, whatever separations, aborts and    *)
(* landings come in between, provided no listener refuses deployments.      *)
THEOREM FlightDeploymentsRemembered ==
    ASSUME "RECOVERY_DEVICE_DEPLOYMENT" \notin Vetoed
    PROVE  Spec => []DeploymentsRemembered
<1>1. EngineInvariant /\ DevicesRecalled => DeploymentsRemembered
  <2> SUFFICES ASSUME EngineInvariant, DevicesRecalled PROVE DeploymentsRemembered
    OBVIOUS
  <2> DEFINE V == {s \in Status : RecallsDevices(s, motors)}
  <2>1. Have(V)
    BY ElementsOfSequences DEF EngineInvariant, DevicesRecalled, Sound, Have
  <2> HIDE DEF V
  <2>2. \A i \in DOMAIN Statuses : Statuses[i] \in V
    BY <2>1, StatusesHave
  <2>3. ASSUME NEW s \in V, NEW d \in Devices, SetOff(s, d), StageOf[d] \in s.active
        PROVE  d \in s.deployed \/ DeploymentPending(s, d)
    <3>1. RecallsDevices(s, motors) /\ BagToSet(s.queue) = DOMAIN s.queue
      BY BagFacts DEF V, Status
    <3>2. SetOffBy(s, motors, d)
      BY <2>3 DEF SetOff, SetOffBy, Expended
    <3> QED
      BY <2>3, <3>1, <3>2 DEF RecallsDevices, Opens, DeploymentPending
  <2> QED
    BY <2>2, <2>3 DEF DeploymentsRemembered
<1> QED
  BY EngineStaysSound, DevicesRecalledAlways, <1>1, PTL

Comes(s, n) ==
    \E x \in DOMAIN s.queue : x.type = "STAGE_SEPARATION" /\ x.stage = n

(* The branch s has not forgotten a separation that apogee set off.         *)
RecallsStages(s) ==
    \A n \in Stages :
        s.apogeeReached /\ design.separation[n] = "APOGEE" /\ {n - 1, n} \subseteq s.active
        => Comes(s, n)

LEMMA StagesContinue ==
    ASSUME NEW s, NEW p, Continues(p, s), RecallsStages(s)
    PROVE  RecallsStages(p)
<1> SUFFICES ASSUME NEW n \in Stages, p.apogeeReached, design.separation[n] = "APOGEE",
                    {n - 1, n} \subseteq p.active
             PROVE  Comes(p, n)
  BY DEF RecallsStages
<1>1. Comes(s, n)
  BY DEF RecallsStages, Continues
<1> QED
  BY <1>1 DEF Comes, Continues, IsAttached

LEMMA StagesRefused ==
    ASSUME NEW s, NEW e, e.type # "STAGE_SEPARATION", NEW t, Refused(s, e, t), RecallsStages(s)
    PROVE  RecallsStages(t)
<1> SUFFICES ASSUME NEW n \in Stages, t.apogeeReached, design.separation[n] = "APOGEE",
                    {n - 1, n} \subseteq t.active
             PROVE  Comes(t, n)
  BY DEF RecallsStages
<1>1. Comes(s, n)
  BY DEF RecallsStages, Refused
<1> QED
  BY <1>1 DEF Comes, Refused

LEMMA StagesHandled ==
    ASSUME NEW s, NEW e, NEW t, Handled(s, e, t), NEW p, Parts(e, t, p), RecallsStages(s)
    PROVE  RecallsStages(p)
<1> SUFFICES ASSUME NEW n \in Stages, p.apogeeReached, design.separation[n] = "APOGEE",
                    {n - 1, n} \subseteq p.active
             PROVE  Comes(p, n)
  BY DEF RecallsStages
<1>1. t.apogeeReached /\ {n - 1, n} \subseteq t.active /\ t.active = s.active
  BY DEF Parts, Continues, Handled, SetsOff
<1>2. Comes(t, n)
  <2>1. CASE s.apogeeReached
    <3>1. PICK x \in DOMAIN s.queue : x.type = "STAGE_SEPARATION" /\ x.stage = n
      BY <1>1, <2>1 DEF RecallsStages, Comes
    <3>2. x # e
      BY <3>1 DEF Parts
    <3>3. x \in DOMAIN t.queue
      BY <3>1, <3>2 DEF Handled, SetsOff
    <3> QED
      BY <3>1, <3>3 DEF Comes
  <2>2. CASE ~s.apogeeReached
    <3>1. e.type = "APOGEE"
      BY <1>1, <2>2 DEF Handled
    <3>2. Separates(e, n)
      BY <3>1 DEF Separates
    <3>3. n \in s.active \ {0}
      <4>1. -1 \notin Stages /\ n - 1 \in Stages
        BY <1>1, StageNumbers DEF Parts, Sound, Status, Continues
      <4> QED
        BY <1>1, <4>1
    <3>4. Separation(e, n) \in DOMAIN t.queue
      BY <3>2, <3>3 DEF Handled, SetsOff
    <3>5. Separation(e, n).type = "STAGE_SEPARATION" /\ Separation(e, n).stage = n
      BY DEF Separation, FlightEvent
    <3> QED
      BY <3>4, <3>5 DEF Comes
  <2> QED
    BY <2>1, <2>2
<1> QED
  BY <1>2 DEF Parts, Comes, Continues, IsAttached

StagesRecalled ==
    /\ InFlight => RecallsStages(status)
    /\ \A i \in DOMAIN toSimulate : RecallsStages(toSimulate[i])

LEMMA StagesRecalledInductive ==
    ASSUME "STAGE_SEPARATION" \notin Vetoed,
           EngineInvariant, EngineInvariant', StagesRecalled, [Next]_vars
    PROVE  StagesRecalled'
<1> DEFINE V == {s \in Status : RecallsStages(s)}
<1>1. Sound(status) /\ Sound(status') /\ status \in Status /\ status' \in Status
  BY DEF EngineInvariant, Sound
<1>2. Have(V)
  BY <1>1, ElementsOfSequences DEF EngineInvariant, StagesRecalled, Have
<1>3. ASSUME NEW s \in V, NEW p, Sound(p), Continues(p, s)
      PROVE  p \in V
  BY <1>3, StagesContinue DEF Sound
<1>4. Handle => RecallsStages(status)
  BY HandleOutcome DEF StagesRecalled, InFlight
<1>5. ASSUME Handle, NEW e \in Due(status), RefusedNow(e)
      PROVE  status' \in V
  BY <1>1, <1>4, <1>5, StagesRefused DEF RefusedNow
<1>6. ASSUME Handle, NEW e \in Due(status), NEW t, NEW p,
             Handled(status, e, t), Parts(e, t, p)
      PROVE  p \in V
  BY <1>4, <1>6, StagesHandled DEF Parts, Sound
<1>7. ASSUME Step PROVE status' \in V
  <2>1. status \in V /\ Continues(status', status)
    BY <1>2, <1>7, StepOutcome DEF Have, InFlight
  <2> QED
    BY <1>1, <1>3, <2>1
<1> HIDE DEF V
<1>8. Keep(V, V)
  <2>1. Handle => \A i \in DOMAIN toSimulate : toSimulate[i] \in V
    BY <1>2 DEF Have
  <2> QED
    BY <1>3, <1>5, <1>6, <1>7, <2>1 DEF Keep
<1>9. /\ InFlight' => status' \in V
      /\ \A i \in DOMAIN toSimulate' : toSimulate'[i] \in V
  BY <1>2, <1>8, BranchesStep
<1>10. design' = design
  BY HandleOutcome, StartBranchOutcome, EventsHandledOutcome, StepOutcome
     DEF Next, EndSimulation, Fail, Terminated, vars
<1> QED
  BY <1>9, <1>10 DEF StagesRecalled, V, RecallsStages

LEMMA StagesRecalledAlways ==
    ASSUME "STAGE_SEPARATION" \notin Vetoed
    PROVE  Spec => []StagesRecalled
<1>1. Init => StagesRecalled
  <2> SUFFICES ASSUME Init PROVE StagesRecalled
    OBVIOUS
  <2>1. RecallsStages(FirstStatus(design))
    BY FirstStatusQueue DEF Init, RecallsStages
  <2> QED
    BY <2>1, OneBranchAtFirst DEF StagesRecalled
<1> QED
  BY EngineStaysSound, <1>1, StagesRecalledInductive, PTL DEF Spec

(* A separation that apogee set off stays queued in the branch that has     *)
(* both stages until it is carried out, provided no listener refuses        *)
(* separations.                                                             *)
THEOREM FlightSeparationsRemembered ==
    ASSUME "STAGE_SEPARATION" \notin Vetoed
    PROVE  Spec => []SeparationsRemembered
<1>1. EngineInvariant /\ StagesRecalled => SeparationsRemembered
  <2> SUFFICES ASSUME EngineInvariant, StagesRecalled PROVE SeparationsRemembered
    OBVIOUS
  <2> DEFINE V == {s \in Status : RecallsStages(s)}
  <2>1. Have(V)
    BY ElementsOfSequences DEF EngineInvariant, StagesRecalled, Sound, Have
  <2> HIDE DEF V
  <2>2. \A i \in DOMAIN Statuses : Statuses[i] \in V
    BY <2>1, StatusesHave
  <2>3. ASSUME NEW s \in V, NEW n \in Stages, s.apogeeReached,
               design.separation[n] = "APOGEE", {n - 1, n} \subseteq s.active
        PROVE  SeparationPending(s, n)
    <3>1. RecallsStages(s) /\ BagToSet(s.queue) = DOMAIN s.queue
      BY BagFacts DEF V, Status
    <3>2. Comes(s, n)
      BY <2>3, <3>1 DEF RecallsStages
    <3> QED
      BY <3>1, <3>2 DEF Comes, SeparationPending
  <2> QED
    BY <2>2, <2>3 DEF SeparationsRemembered
<1> QED
  BY EngineStaysSound, StagesRecalledAlways, <1>1, PTL

-----------------------------------------------------------------------------
(* A motor is lit, burns out and fires its charge in this order.            *)

MotorTypes == {"BURNOUT", "EJECTION_CHARGE"}

(* With the motors mm, the events of s about motors come in their order:    *)
(* none of its motors was lit after now, a motor that is to burn out was    *)
(* lit a burn time before, one that is to fire its charge has burned out.   *)
InOrder(s, mm) ==
    /\ \A x \in DOMAIN s.queue : x.type = "BURNOUT" =>
          /\ mm[x.item].ignitionTime # None
          /\ x.time >= mm[x.item].ignitionTime + BurnTime[x.item]
    /\ \A x \in DOMAIN s.queue : x.type = "EJECTION_CHARGE" =>
          mm[x.item].state \in {"DELAYING", "SPENT"}
    /\ \A m \in Motors : StageOf[m] \in s.active /\ mm[m].ignitionTime # None =>
          mm[m].ignitionTime <= s.time

Lit(mm) == \A m \in Motors : mm[m].state = "ARMED" <=> mm[m].ignitionTime = None

LEMMA MotorOfEvent ==
    ASSUME NEW s, Sound(s), NEW x \in DOMAIN s.queue, x.type \in MotorTypes
    PROVE  x.item \in Motors /\ StageOf[x.item] \in s.active
<1>1. x \in EngineEvents /\ x \in Attached(s.active)
  BY DEF Sound, Attached
<1>2. x.item \in Motors /\ x.stage = StageOf[x.item]
  BY <1>1 DEF EngineEvents, MotorTypes
<1>3. StageOf[x.item] \in Stages /\ NoStage \notin Stages /\ RocketStage \notin Stages
  BY <1>2, StageNumbers DEF Stages, NoStage, RocketStage
<1> QED
  BY <1>1, <1>2, <1>3 DEF Attached, IsAttached

LEMMA OrderContinues ==
    ASSUME NEW s, Sound(s), NEW p, Sound(p), Continues(p, s),
           NEW mm \in [Motors -> MotorType], InOrder(s, mm)
    PROVE  InOrder(p, mm)
<1>1. \A x \in DOMAIN p.queue : x.type \in MotorTypes => x \in DOMAIN s.queue
  BY DEF Continues, RememberedTypes, MotorTypes
<1>2. ASSUME NEW m \in Motors, StageOf[m] \in p.active, mm[m].ignitionTime # None
      PROVE  mm[m].ignitionTime <= p.time
  <2>1. mm[m].ignitionTime <= s.time /\ s.time <= p.time
    BY <1>2 DEF InOrder, Continues
  <2>2. mm[m].ignitionTime \in Nat /\ s.time \in Nat /\ p.time \in Nat
    BY <1>2 DEF MotorType, Sound, Status
  <2> QED
    BY <2>1, <2>2
<1> QED
  BY <1>1, <1>2 DEF InOrder, MotorTypes

LEMMA OrderRefused ==
    ASSUME NEW s, Sound(s), NEW e, NEW p, Sound(p), Refused(s, e, p),
           NEW mm \in [Motors -> MotorType], InOrder(s, mm)
    PROVE  InOrder(p, mm)
<1>1. \A x \in DOMAIN p.queue : x.type \in MotorTypes => x \in DOMAIN s.queue
  BY DEF Refused, MotorTypes
<1>2. ASSUME NEW m \in Motors, StageOf[m] \in p.active, mm[m].ignitionTime # None
      PROVE  mm[m].ignitionTime <= p.time
  <2>1. mm[m].ignitionTime <= s.time /\ s.time <= p.time
    BY <1>2 DEF InOrder, Refused
  <2>2. mm[m].ignitionTime \in Nat /\ s.time \in Nat /\ p.time \in Nat
    BY <1>2 DEF MotorType, Sound, Status
  <2> QED
    BY <2>1, <2>2
<1> QED
  BY <1>1, <1>2 DEF InOrder, MotorTypes

(* Nothing turns a motor back, and only its ignition lights it.             *)
LEMMA MotorsAdvance ==
    ASSUME EngineInvariant, NEW e \in Due(status), NEW t, MotorEffect(e, t),
           Lit(motors), InOrder(status, motors), NEW m \in Motors
    PROVE  /\ motors'[m] \in MotorType
           /\ motors'[m].state = "ARMED" <=> motors'[m].ignitionTime = None
           /\ motors[m].ignitionTime # None => motors'[m].ignitionTime = motors[m].ignitionTime
           /\ motors[m].ignitionTime = None /\ motors'[m].ignitionTime # None =>
                 motors'[m].ignitionTime = e.time
           /\ motors[m].state \in {"DELAYING", "SPENT"} => motors'[m].state \in {"DELAYING", "SPENT"}
<1>1. /\ motors \in [Motors -> MotorType] /\ motors[m] \in MotorType
      /\ e \in DOMAIN status.queue /\ e.time \in Nat /\ Sound(status)
  BY DueEvent, DueIsQueued DEF EngineInvariant, EngineEvents, EventType
<1>2. \A k, v : [motors EXCEPT ![k] = v][m] # motors[m] =>
         k = m /\ [motors EXCEPT ![k] = v][m] = v
  BY <1>1
<1>3. motors[m].state = "ARMED" <=> motors[m].ignitionTime = None
  BY DEF Lit
<1>4. CASE motors'[m] = motors[m]
  BY <1>1, <1>3, <1>4
<1>5. CASE e.type = "IGNITION" /\ motors' = [motors EXCEPT ![e.item] = Ignite(@, e.time)]
           /\ motors'[m] # motors[m]
  <2>1. motors'[m] = Ignite(motors[m], e.time)
    BY <1>2, <1>5
  <2> QED
    BY <1>1, <1>3, <1>5, <2>1, NoneAssumption DEF Ignite, MotorType, ThrustStates
<1>6. CASE e.type = "BURNOUT" /\ motors' = [motors EXCEPT ![e.item] = BurnOut(@, HasEjectionCharge(e.item))]
           /\ motors'[m] # motors[m]
  <2> DEFINE charge == HasEjectionCharge(e.item)
  <2>1. e.item = m /\ motors'[m] = BurnOut(motors[m], charge)
    BY <1>2, <1>6
  <2>2. motors[m].ignitionTime # None /\ motors[m].state # "ARMED"
    BY <1>1, <1>3, <1>6, <2>1 DEF InOrder
  <2> HIDE DEF charge
  <2>3. /\ BurnOut(motors[m], charge).ignitionTime = motors[m].ignitionTime
        /\ BurnOut(motors[m], charge).state \in {"DELAYING", "SPENT"}
        /\ BurnOut(motors[m], charge) \in MotorType
    BY <1>1, <2>2 DEF BurnOut, MotorType, ThrustStates
  <2> QED
    BY <2>1, <2>2, <2>3
<1>7. CASE e.type = "EJECTION_CHARGE" /\ motors' = [motors EXCEPT ![e.item] = Expend(@)]
           /\ motors'[m] # motors[m]
  <2>1. motors'[m] = Expend(motors[m])
    BY <1>2, <1>7
  <2>2. /\ Expend(motors[m]).ignitionTime = motors[m].ignitionTime
        /\ Expend(motors[m]) \in MotorType
        /\ Expend(motors[m]).state = IF motors[m].state = "DELAYING" THEN "SPENT" ELSE motors[m].state
    BY <1>1 DEF Expend, MotorType, ThrustStates
  <2> QED
    BY <1>3, <2>1, <2>2
<1> QED
  BY <1>4, <1>5, <1>6, <1>7 DEF MotorEffect

LEMMA OrderHandled ==
    ASSUME EngineInvariant, NEW e \in Due(status), NEW t, Sound(t), Handled(status, e, t),
           MotorEffect(e, t), Lit(motors), InOrder(status, motors)
    PROVE  InOrder(t, motors')
<1>1. /\ motors \in [Motors -> MotorType] /\ Sound(status) /\ e \in DOMAIN status.queue
      /\ e.time \in Nat /\ status.time \in Nat /\ t.time \in Nat
      /\ t.time >= status.time /\ t.time >= e.time /\ t.active = status.active
  BY SMTT(30), DueEvent, DueIsQueued
     DEF EngineInvariant, EngineEvents, EventType, Sound, Status, Handled, SetsOff
<1>2. ASSUME NEW m \in Motors, StageOf[m] \in t.active, motors'[m].ignitionTime # None
      PROVE  motors'[m].ignitionTime \in Nat /\ motors'[m].ignitionTime <= t.time
  <2>1. motors'[m] \in MotorType
    BY MotorsAdvance
  <2>2. motors'[m].ignitionTime \in Nat
    BY <1>2, <2>1 DEF MotorType
  <2>3. CASE motors[m].ignitionTime = None
    BY <1>1, <1>2, <2>3, MotorsAdvance
  <2>4. CASE motors[m].ignitionTime # None
    <3>1. motors'[m].ignitionTime = motors[m].ignitionTime
      BY <2>4, MotorsAdvance
    <3>2. motors[m].ignitionTime <= status.time
      BY <1>1, <1>2, <2>4 DEF InOrder
    <3> QED
      BY <1>1, <2>2, <3>1, <3>2
  <2> QED
    BY <2>2, <2>3, <2>4
<1>3. ASSUME NEW x \in DOMAIN t.queue, x.type = "BURNOUT"
      PROVE  /\ motors'[x.item].ignitionTime # None
             /\ x.time >= motors'[x.item].ignitionTime + BurnTime[x.item]
  <2>1. CASE x \in DOMAIN status.queue
    <3>1. x.item \in Motors
      BY <1>1, <1>3, <2>1, MotorOfEvent DEF MotorTypes
    <3>2. /\ motors[x.item].ignitionTime # None
          /\ x.time >= motors[x.item].ignitionTime + BurnTime[x.item]
      BY <1>3, <2>1 DEF InOrder
    <3> QED
      BY <3>1, <3>2, MotorsAdvance
  <2>2. CASE x \notin DOMAIN status.queue
    <3>1. /\ e.type = "IGNITION" /\ x.item = e.item
          /\ x.time = t.time + BurnTime[e.item]
      BY <1>3, <2>2 DEF Handled
    <3>2. e.item \in Motors /\ StageOf[e.item] \in t.active
      BY <1>1, <3>1, DueMotor
    <3>3. motors' = [motors EXCEPT ![e.item] = Ignite(@, e.time)]
      BY <1>3, <2>2, <3>1 DEF MotorEffect
    <3>4. motors'[e.item] = Ignite(motors[e.item], e.time)
      BY <1>1, <3>2, <3>3
    <3>5. motors'[e.item].ignitionTime # None
      BY <1>1, <3>2, <3>4, NoneAssumption DEF Ignite, Lit
    <3>6. motors'[e.item].ignitionTime \in Nat /\ motors'[e.item].ignitionTime <= t.time
      BY <1>2, <3>2, <3>5
    <3>7. BurnTime[e.item] \in Nat
      BY <3>2, PartsAssumption
    <3> QED
      BY <1>1, <3>1, <3>5, <3>6, <3>7
  <2> QED
    BY <2>1, <2>2
<1>4. ASSUME NEW x \in DOMAIN t.queue, x.type = "EJECTION_CHARGE"
      PROVE  motors'[x.item].state \in {"DELAYING", "SPENT"}
  <2>1. CASE x \in DOMAIN status.queue
    <3>1. x.item \in Motors /\ motors[x.item].state \in {"DELAYING", "SPENT"}
      BY <1>1, <1>4, <2>1, MotorOfEvent DEF MotorTypes, InOrder
    <3> QED
      BY <3>1, MotorsAdvance
  <2>2. CASE x \notin DOMAIN status.queue
    <3>1. e.type = "BURNOUT" /\ x.item = e.item
      BY <1>4, <2>2 DEF Handled
    <3>2. e.item \in Motors
      BY <1>1, <3>1, DueMotor
    <3> DEFINE charge == HasEjectionCharge(e.item)
    <3>3. motors' = [motors EXCEPT ![e.item] = BurnOut(@, charge)]
      BY <3>1 DEF MotorEffect
    <3> HIDE DEF charge
    <3>4. motors'[e.item] = BurnOut(motors[e.item], charge)
      BY <1>1, <3>2, <3>3
    <3>5. motors[e.item] \in MotorType /\ motors[e.item].state # "ARMED"
      BY <1>1, <3>1, <3>2 DEF InOrder, Lit
    <3> QED
      BY <3>1, <3>4, <3>5 DEF BurnOut, MotorType, ThrustStates
  <2> QED
    BY <2>1, <2>2
<1> QED
  BY <1>2, <1>3, <1>4 DEF InOrder

LEMMA OrderWaiting ==
    ASSUME EngineInvariant, StagesFlyOnce, Handle, NEW i \in DOMAIN toSimulate,
           Sound(toSimulate[i]), InOrder(toSimulate[i], motors)
    PROVE  InOrder(toSimulate[i], motors')
<1> DEFINE s == toSimulate[i]
<1>1. \A m \in Motors : StageOf[m] \in s.active => motors'[m] = motors[m]
  BY WaitingMotors
<1>2. \A x \in DOMAIN s.queue : x.type \in MotorTypes =>
         x.item \in Motors /\ StageOf[x.item] \in s.active
  BY MotorOfEvent
<1> HIDE DEF s
<1>3. InOrder(s, motors)
  BY DEF s
<1>4. InOrder(s, motors')
  BY <1>1, <1>2, <1>3 DEF InOrder, MotorTypes
<1> QED
  BY <1>4 DEF s

MotorsInOrder ==
    /\ Lit(motors)
    /\ InFlight => InOrder(status, motors)
    /\ \A i \in DOMAIN toSimulate : InOrder(toSimulate[i], motors)

LEMMA MotorsInOrderInductive ==
    ASSUME EngineInvariant, EngineInvariant', StagesFlyOnce, MotorsInOrder, [Next]_vars
    PROVE  MotorsInOrder'
<1> DEFINE V == {s \in Status : InOrder(s, motors)}
           W == {s \in Status : InOrder(s, motors')}
<1>1. /\ Sound(status) /\ Sound(status') /\ status \in Status /\ status' \in Status
      /\ motors \in [Motors -> MotorType] /\ motors' \in [Motors -> MotorType]
  BY DEF EngineInvariant, Sound
<1>2. Have(V) /\ \A i \in DOMAIN toSimulate : Sound(toSimulate[i])
  BY <1>1, ElementsOfSequences DEF EngineInvariant, MotorsInOrder, Have
<1>3. ASSUME UNCHANGED <<design, motors>>, NEW s \in V, NEW p, Sound(s), Sound(p), Continues(p, s)
      PROVE  p \in W
  BY <1>1, <1>3, OrderContinues DEF Sound
<1>4. ASSUME Handle, NEW i \in DOMAIN toSimulate
      PROVE  toSimulate[i] \in W
  BY <1>2, <1>4, OrderWaiting DEF Have
<1>5. Handle => InOrder(status, motors) /\ Lit(motors)
  BY HandleOutcome DEF MotorsInOrder, InFlight
<1>6. ASSUME Handle, NEW e \in Due(status), RefusedNow(e)
      PROVE  status' \in W
  BY <1>1, <1>5, <1>6, OrderRefused DEF RefusedNow
<1>7. ASSUME Handle, NEW e \in Due(status), NEW t, NEW p,
             Sound(t), Handled(status, e, t), MotorEffect(e, t), Parts(e, t, p)
      PROVE  p \in W
  <2>1. InOrder(t, motors')
    BY <1>5, <1>7, OrderHandled
  <2> QED
    BY <1>1, <1>7, <2>1, OrderContinues DEF Parts, Sound
<1>8. ASSUME Step PROVE status' \in W
  <2>1. status \in V /\ Continues(status', status) /\ UNCHANGED <<design, motors>>
    BY <1>2, <1>8, StepOutcome DEF Have, InFlight
  <2> QED
    BY <1>1, <1>3, <2>1
<1>9. Lit(motors')
  <2>1. CASE Handle
    <3>1. PICK e \in Due(status) : RefusedNow(e) \/ HandledNow(e)
      BY <2>1, HandleOutcome
    <3>2. CASE RefusedNow(e)
      BY <1>5, <2>1, <3>2 DEF RefusedNow
    <3>3. CASE HandledNow(e)
      <4>1. PICK t : MotorEffect(e, t)
        BY <3>3 DEF HandledNow
      <4> QED
        BY <1>5, <2>1, <4>1, MotorsAdvance DEF Lit
    <3> QED
      BY <3>1, <3>2, <3>3
  <2>2. CASE ~Handle
    <3>1. motors' = motors
      BY <2>2, StartBranchOutcome, EventsHandledOutcome, StepOutcome
         DEF Next, EndSimulation, Fail, Terminated, vars
    <3> QED
      BY <3>1 DEF MotorsInOrder
  <2> QED
    BY <2>1, <2>2
<1> HIDE DEF V, W
<1>10. Keep(V, W)
  BY <1>3, <1>4, <1>6, <1>7, <1>8 DEF Keep
<1>11. /\ InFlight' => status' \in W
       /\ \A i \in DOMAIN toSimulate' : toSimulate'[i] \in W
  BY <1>2, <1>10, BranchesStep
<1> QED
  BY <1>9, <1>11 DEF MotorsInOrder, W, InOrder, Lit

LEMMA MotorsInOrderAlways == Spec => []MotorsInOrder
<1>1. Init => MotorsInOrder
  <2> SUFFICES ASSUME Init PROVE MotorsInOrder
    OBVIOUS
  <2>1. \A m \in Motors : motors[m].state = "ARMED" /\ motors[m].ignitionTime = None
    BY DEF Init
  <2>2. \A x \in DOMAIN FirstStatus(design).queue : x.type \in {"LAUNCH", "SIM_ABORT"}
    BY FirstStatusQueue DEF Init
  <2>3. InOrder(FirstStatus(design), motors)
    BY <2>1, <2>2 DEF InOrder
  <2> QED
    BY <2>1, <2>3, OneBranchAtFirst DEF MotorsInOrder, Lit
<1> QED
  BY EngineStaysSound, FlightStagesFlyOnce, <1>1, MotorsInOrderInductive, PTL DEF Spec

(* On whichever branch its stage ends up, a motor burns out a burn time     *)
(* after it was lit, at the earliest, and fires its charge after it burned  *)
(* out: an ignition that is ignored because the motor burns already queues  *)
(* no burnout that would come too early.                                    *)
THEOREM FlightMotorEventsInOrder == Spec => []MotorEventsInOrder
<1>1. EngineInvariant /\ MotorsInOrder => MotorEventsInOrder
  <2> SUFFICES ASSUME EngineInvariant, MotorsInOrder PROVE MotorEventsInOrder
    OBVIOUS
  <2> DEFINE V == {s \in Status : InOrder(s, motors)}
  <2>1. Have(V)
    BY ElementsOfSequences DEF EngineInvariant, MotorsInOrder, Sound, Have
  <2>2. \A s \in V : BagToSet(s.queue) = DOMAIN s.queue
    BY BagFacts DEF Status
  <2> HIDE DEF V
  <2>3. \A i \in DOMAIN Statuses : Statuses[i] \in V
    BY <2>1, StatusesHave
  <2> QED
    BY <2>2, <2>3 DEF MotorEventsInOrder, InOrder, V
<1> QED
  BY EngineStaysSound, MotorsInOrderAlways, <1>1, PTL

-----------------------------------------------------------------------------
(* Stages separate before the device between them opens.                    *)

Opening(s, d, x) ==
    x \in DOMAIN s.queue /\ x.type = "RECOVERY_DEVICE_DEPLOYMENT" /\ x.item = d

(* The separation of stage n and the device d are set off together, and the *)
(* device is not configured to open earlier.                                *)
Together(n, d) ==
    /\ design.deployment[d] \in {"LAUNCH", "APOGEE"}
    /\ design.separation[n] = design.deployment[d]
    /\ (\/ design.separationDelay[n] < 1
        \/ design.separationDelay[n] < design.deployDelay[d])

(* While stages n - 1 and n hang together, a device that waits for their    *)
(* separation is not even queued, and one that is set off together with it  *)
(* is closed and queued behind it.                                          *)
SeparatesFirst(s) ==
    \A d \in Devices : \A n \in Stages : {n - 1, n} \subseteq s.active =>
       /\ design.deployment[d] = "LOWER_STAGE_SEPARATION" /\ n = StageOf[d] + 1 =>
             d \notin s.deployed /\ \A x : ~Opening(s, d, x)
       /\ Together(n, d) =>
             /\ d \notin s.deployed
             /\ \A x : Opening(s, d, x) =>
                   \E y \in DOMAIN s.queue :
                      y.type = "STAGE_SEPARATION" /\ y.stage = n /\ y.time < x.time

LEMMA FirstContinues ==
    ASSUME NEW s, NEW p, Continues(p, s), SeparatesFirst(s)
    PROVE  SeparatesFirst(p)
<1> SUFFICES ASSUME NEW d \in Devices, NEW n \in Stages, {n - 1, n} \subseteq p.active
             PROVE  /\ design.deployment[d] = "LOWER_STAGE_SEPARATION" /\ n = StageOf[d] + 1 =>
                          d \notin p.deployed /\ \A x : ~Opening(p, d, x)
                    /\ Together(n, d) =>
                          /\ d \notin p.deployed
                          /\ \A x : Opening(p, d, x) =>
                                \E y \in DOMAIN p.queue :
                                   y.type = "STAGE_SEPARATION" /\ y.stage = n /\ y.time < x.time
  BY DEF SeparatesFirst
<1>1. {n - 1, n} \subseteq s.active /\ p.deployed = s.deployed
  BY DEF Continues
<1>2. \A x : Opening(p, d, x) => Opening(s, d, x)
  BY DEF Opening, Continues, RememberedTypes
<1>3. \A y \in DOMAIN s.queue : y.stage = n => y \in DOMAIN p.queue
  BY DEF Continues, IsAttached
<1> QED
  BY <1>1, <1>2, <1>3 DEF SeparatesFirst

LEMMA FirstRefused ==
    ASSUME NEW s, NEW e, e.type # "STAGE_SEPARATION", NEW p, Refused(s, e, p), SeparatesFirst(s)
    PROVE  SeparatesFirst(p)
<1> SUFFICES ASSUME NEW d \in Devices, NEW n \in Stages, {n - 1, n} \subseteq p.active
             PROVE  /\ design.deployment[d] = "LOWER_STAGE_SEPARATION" /\ n = StageOf[d] + 1 =>
                          d \notin p.deployed /\ \A x : ~Opening(p, d, x)
                    /\ Together(n, d) =>
                          /\ d \notin p.deployed
                          /\ \A x : Opening(p, d, x) =>
                                \E y \in DOMAIN p.queue :
                                   y.type = "STAGE_SEPARATION" /\ y.stage = n /\ y.time < x.time
  BY DEF SeparatesFirst
<1>1. {n - 1, n} \subseteq s.active /\ p.deployed = s.deployed
  BY DEF Refused
<1>2. \A x : Opening(p, d, x) => Opening(s, d, x)
  BY DEF Opening, Refused
<1>3. \A y \in DOMAIN s.queue : y.type = "STAGE_SEPARATION" => y \in DOMAIN p.queue
  BY DEF Refused
<1> QED
  BY <1>1, <1>2, <1>3 DEF SeparatesFirst

(* What e sets off together is queued in this order, and a device does not  *)
(* come before the separation that is queued ahead of it.                   *)
LEMMA FirstHandled ==
    ASSUME NEW s, Sound(s), design \in Designs, NEW e \in Due(s), NEW t, Handled(s, e, t),
           NEW p, Parts(e, t, p), SeparatesFirst(s)
    PROVE  SeparatesFirst(p)
<1> SUFFICES ASSUME NEW d \in Devices, NEW n \in Stages, {n - 1, n} \subseteq p.active
             PROVE  /\ design.deployment[d] = "LOWER_STAGE_SEPARATION" /\ n = StageOf[d] + 1 =>
                          d \notin p.deployed /\ \A x : ~Opening(p, d, x)
                    /\ Together(n, d) =>
                          /\ d \notin p.deployed
                          /\ \A x : Opening(p, d, x) =>
                                \E y \in DOMAIN p.queue :
                                   y.type = "STAGE_SEPARATION" /\ y.stage = n /\ y.time < x.time
  BY DEF SeparatesFirst
<1>1. /\ {n - 1, n} \subseteq s.active /\ p.deployed = t.deployed
      /\ e.type = "STAGE_SEPARATION" => e.stage # n
  BY DEF Parts, Continues, Handled, SetsOff
<1>2. \A x : Opening(p, d, x) => Opening(t, d, x)
  BY DEF Opening, Parts, Continues, RememberedTypes
<1>3. \A y \in DOMAIN t.queue : y.stage = n => y \in DOMAIN p.queue
  BY DEF Parts, Continues, IsAttached
<1>4. /\ e \in DOMAIN s.queue /\ e.time \in Nat
      /\ \A y \in DOMAIN s.queue : y.time \in Nat /\ ~Before(y, e)
  BY BagFacts DEF Due, Firsts, Sound, Status, EngineEvents, EventType
<1>5. \A x : Opening(t, d, x) => \/ Opening(s, d, x)
                                 \/ Deploys(e, d) /\ x = Deployment(e, d)
  BY DEF Opening, Handled, SetsOff
<1>6. d \in t.deployed => d \in s.deployed \/ Opening(s, d, e)
  BY <1>4 DEF Handled, Opening
<1>7. ASSUME design.deployment[d] = "LOWER_STAGE_SEPARATION", n = StageOf[d] + 1
      PROVE  d \notin p.deployed /\ \A x : ~Opening(p, d, x)
  <2>1. d \notin s.deployed /\ \A x : ~Opening(s, d, x)
    BY <1>1, <1>7 DEF SeparatesFirst
  <2>2. ~Deploys(e, d)
    BY <1>1, <1>7 DEF Deploys
  <2> QED
    BY <1>1, <1>2, <1>5, <1>6, <2>1, <2>2
<1>8. ASSUME Together(n, d)
      PROVE  /\ d \notin p.deployed
             /\ \A x : Opening(p, d, x) =>
                   \E y \in DOMAIN p.queue :
                      y.type = "STAGE_SEPARATION" /\ y.stage = n /\ y.time < x.time
  <2>1. /\ d \notin s.deployed
        /\ \A x : Opening(s, d, x) =>
              \E y \in DOMAIN s.queue :
                 y.type = "STAGE_SEPARATION" /\ y.stage = n /\ y.time < x.time
    BY <1>1, <1>8 DEF SeparatesFirst
  <2>2. ~Opening(s, d, e)
    <3> SUFFICES ASSUME Opening(s, d, e) PROVE FALSE
      OBVIOUS
    <3>1. PICK y \in DOMAIN s.queue : y.time < e.time
      BY <2>1
    <3> QED
      BY <1>4, <3>1 DEF Before
  <2>3. ASSUME NEW x, Opening(s, d, x)
        PROVE  \E y \in DOMAIN t.queue :
                  y.type = "STAGE_SEPARATION" /\ y.stage = n /\ y.time < x.time
    <3>1. PICK y \in DOMAIN s.queue :
             y.type = "STAGE_SEPARATION" /\ y.stage = n /\ y.time < x.time
      BY <2>1, <2>3
    <3>2. y # e
      BY <1>1, <3>1
    <3>3. y \in DOMAIN t.queue
      BY <3>2 DEF Handled, SetsOff
    <3> QED
      BY <3>1, <3>3
  <2>4. ASSUME Deploys(e, d)
        PROVE  \E y \in DOMAIN t.queue : /\ y.type = "STAGE_SEPARATION" /\ y.stage = n
                                         /\ y.time < Deployment(e, d).time
    <3>1. e.type = design.deployment[d] /\ design.deployment[d] \in {"LAUNCH", "APOGEE"}
      BY <1>8, <2>4 DEF Together, Deploys
    <3>2. Separates(e, n)
      BY <1>8, <3>1 DEF Together, Separates
    <3>3. n \in s.active \ {0}
      <4>1. -1 \notin Stages /\ n - 1 \in Stages
        BY <1>1, StageNumbers DEF Sound, Status
      <4> QED
        BY <1>1, <4>1
    <3>4. Separation(e, n) \in DOMAIN t.queue
      BY <3>2, <3>3 DEF Handled, SetsOff
    <3>5. /\ design.separationDelay[n] \in Nat /\ design.deployDelay[d] \in Nat
      <4>1. design \in DesignType
        BY DesignTyped
      <4> QED
        BY <4>1 DEF DesignType
    <3>6. design.separationDelay[n] < AtLeastOne(design.deployDelay[d])
          /\ AtLeastOne(design.deployDelay[d]) \in Nat
      BY <1>8, <3>5 DEF Together, AtLeastOne
    <3>7. /\ Separation(e, n).time = e.time + design.separationDelay[n]
          /\ Separation(e, n).type = "STAGE_SEPARATION" /\ Separation(e, n).stage = n
          /\ Deployment(e, d).time = e.time + AtLeastOne(design.deployDelay[d])
      BY DEF Separation, Deployment, FlightEvent
    <3> QED
      BY <1>4, <3>4, <3>5, <3>6, <3>7
  <2>5. d \notin p.deployed
    BY <1>1, <1>6, <2>1, <2>2
  <2>6. ASSUME NEW x, Opening(p, d, x)
        PROVE  \E y \in DOMAIN p.queue :
                  y.type = "STAGE_SEPARATION" /\ y.stage = n /\ y.time < x.time
    <3>1. \E y \in DOMAIN t.queue :
             y.type = "STAGE_SEPARATION" /\ y.stage = n /\ y.time < x.time
      BY <1>2, <1>5, <2>3, <2>4, <2>6
    <3> QED
      BY <1>3, <3>1
  <2> QED
    BY <2>5, <2>6
<1> QED
  BY <1>7, <1>8

StagesFirst ==
    /\ InFlight => SeparatesFirst(status)
    /\ \A i \in DOMAIN toSimulate : SeparatesFirst(toSimulate[i])

LEMMA StagesFirstInductive ==
    ASSUME "STAGE_SEPARATION" \notin Vetoed,
           EngineInvariant, EngineInvariant', StagesFirst, [Next]_vars
    PROVE  StagesFirst'
<1> DEFINE V == {s \in Status : SeparatesFirst(s)}
<1>1. /\ Sound(status) /\ Sound(status') /\ status \in Status /\ status' \in Status
      /\ design \in Designs
  BY DEF EngineInvariant, Sound
<1>2. Have(V)
  BY <1>1, ElementsOfSequences DEF EngineInvariant, StagesFirst, Have
<1>3. ASSUME NEW s \in V, NEW p, Sound(p), Continues(p, s)
      PROVE  p \in V
  BY <1>3, FirstContinues DEF Sound
<1>4. Handle => SeparatesFirst(status)
  BY HandleOutcome DEF StagesFirst, InFlight
<1>5. ASSUME Handle, NEW e \in Due(status), RefusedNow(e)
      PROVE  status' \in V
  BY <1>1, <1>4, <1>5, FirstRefused DEF RefusedNow
<1>6. ASSUME Handle, NEW e \in Due(status), NEW t, NEW p,
             Handled(status, e, t), Parts(e, t, p)
      PROVE  p \in V
  BY <1>1, <1>4, <1>6, FirstHandled DEF Parts, Sound
<1>7. ASSUME Step PROVE status' \in V
  <2>1. status \in V /\ Continues(status', status)
    BY <1>2, <1>7, StepOutcome DEF Have, InFlight
  <2> QED
    BY <1>1, <1>3, <2>1
<1> HIDE DEF V
<1>8. Keep(V, V)
  <2>1. Handle => \A i \in DOMAIN toSimulate : toSimulate[i] \in V
    BY <1>2 DEF Have
  <2> QED
    BY <1>3, <1>5, <1>6, <1>7, <2>1 DEF Keep
<1>9. /\ InFlight' => status' \in V
      /\ \A i \in DOMAIN toSimulate' : toSimulate'[i] \in V
  BY <1>2, <1>8, BranchesStep
<1>10. design' = design
  BY HandleOutcome, StartBranchOutcome, EventsHandledOutcome, StepOutcome
     DEF Next, EndSimulation, Fail, Terminated, vars
<1> QED
  BY <1>9, <1>10 DEF StagesFirst, V, SeparatesFirst, Together

LEMMA StagesFirstAlways ==
    ASSUME "STAGE_SEPARATION" \notin Vetoed
    PROVE  Spec => []StagesFirst
<1>1. Init => StagesFirst
  <2> SUFFICES ASSUME Init PROVE StagesFirst
    OBVIOUS
  <2>1. /\ FirstStatus(design).deployed = {}
        /\ \A x \in DOMAIN FirstStatus(design).queue : x.type \in {"LAUNCH", "SIM_ABORT"}
    BY FirstStatusQueue DEF Init
  <2>2. SeparatesFirst(FirstStatus(design))
    BY <2>1 DEF SeparatesFirst, Opening
  <2> QED
    BY <2>2, OneBranchAtFirst DEF StagesFirst
<1> QED
  BY EngineStaysSound, <1>1, StagesFirstInductive, PTL DEF Spec

(* "Delay event by at least 1ms to allow stage separation to occur first":  *)
(* with the delay, no branch ever has a device open between stages that     *)
(* still hang together, provided no listener refuses separations. The       *)
(* millisecond is enough because events are handled in the order of their   *)
(* times, whatever else is queued in between.                               *)
THEOREM FlightSeparationFirst ==
    ASSUME "STAGE_SEPARATION" \notin Vetoed
    PROVE  Spec => []SeparationFirst
<1>1. EngineInvariant /\ StagesFirst => SeparationFirst
  <2> SUFFICES ASSUME EngineInvariant, StagesFirst PROVE SeparationFirst
    OBVIOUS
  <2> DEFINE V == {s \in Status : SeparatesFirst(s)}
  <2>1. Have(V)
    BY ElementsOfSequences DEF EngineInvariant, StagesFirst, Sound, Have
  <2>2. \A s \in V : SeparatesFirst(s) /\ s.deployed \subseteq Devices
    BY DEF Status
  <2> HIDE DEF V
  <2>3. \A i \in DOMAIN Statuses : Statuses[i] \in V
    BY <2>1, StatusesHave
  <2> QED
    BY <2>2, <2>3 DEF SeparationFirst, SeparatesFirst, Together
<1> QED
  BY EngineStaysSound, StagesFirstAlways, <1>1, PTL

-----------------------------------------------------------------------------
(* A device opens once in a flight.                                         *)

Elements(q) == {q[i] : i \in DOMAIN q}

LEMMA ElementsOf ==
    /\ \A T, q, b : q \in Seq(T) /\ b \in T => Elements(<<b>> \o q) = {b} \cup Elements(q)
    /\ \A T, q : q \in Seq(T) /\ q # <<>> =>
          Head(q) \in Elements(q) /\ Elements(Tail(q)) \subseteq Elements(q)
    /\ \A T, q, b : q \in Seq(T) /\ b \in T => Elements(Append(q, b)) = {b} \cup Elements(q)
<1>1. ASSUME NEW T, NEW q \in Seq(T), NEW b \in T
      PROVE  Elements(<<b>> \o q) = {b} \cup Elements(q)
  <2> DEFINE c == <<b>> \o q
  <2>1. DOMAIN q = 1..Len(q) /\ Len(q) \in Nat
    OBVIOUS
  <2>2. DOMAIN c = 1..(Len(q) + 1) /\ c[1] = b /\ \A i \in 1..Len(q) : c[i + 1] = q[i]
    BY <2>1
  <2> HIDE DEF c
  <2>3. Elements(c) \subseteq {b} \cup Elements(q)
    <3>1. ASSUME NEW i \in DOMAIN c PROVE c[i] \in {b} \cup Elements(q)
      <4>1. CASE i = 1
        BY <2>2, <4>1
      <4>2. CASE i # 1
        <5>1. i - 1 \in 1..Len(q) /\ i = (i - 1) + 1
          BY <2>1, <2>2, <4>2
        <5>2. c[i] = q[i - 1]
          BY <2>2, <5>1
        <5> QED
          BY <2>1, <5>1, <5>2 DEF Elements
      <4> QED
        BY <4>1, <4>2
    <3> QED
      BY <3>1 DEF Elements
  <2>4. {b} \cup Elements(q) \subseteq Elements(c)
    <3>1. b \in Elements(c)
      <4>1. 1 \in DOMAIN c
        BY <2>1, <2>2
      <4> QED
        BY <2>2, <4>1 DEF Elements
    <3>2. ASSUME NEW i \in DOMAIN q PROVE q[i] \in Elements(c)
      <4>1. i + 1 \in DOMAIN c /\ c[i + 1] = q[i]
        BY <2>1, <2>2
      <4> QED
        BY <4>1 DEF Elements
    <3> QED
      BY <3>1, <3>2 DEF Elements
  <2> QED
    BY <2>3, <2>4 DEF c
<1>2. ASSUME NEW T, NEW q \in Seq(T), q # <<>>
      PROVE  Head(q) \in Elements(q) /\ Elements(Tail(q)) \subseteq Elements(q)
  <2>1. Head(q) = q[1] /\ 1 \in DOMAIN q /\ Len(q) \in Nat /\ DOMAIN q = 1..Len(q)
    BY <1>2
  <2>2. DOMAIN Tail(q) = 1..(Len(q) - 1) /\ \A i \in 1..(Len(q) - 1) : Tail(q)[i] = q[i + 1]
    BY <1>2
  <2>3. \A i \in DOMAIN Tail(q) : Tail(q)[i] = q[i + 1] /\ i + 1 \in DOMAIN q
    BY <2>1, <2>2
  <2> QED
    BY <2>1, <2>3 DEF Elements
<1>3. ASSUME NEW T, NEW q \in Seq(T), NEW b \in T
      PROVE  Elements(Append(q, b)) = {b} \cup Elements(q)
  <2> DEFINE c == Append(q, b)
  <2>1. DOMAIN q = 1..Len(q) /\ Len(q) \in Nat
    OBVIOUS
  <2>2. /\ DOMAIN c = 1..(Len(q) + 1) /\ c[Len(q) + 1] = b
        /\ \A i \in 1..Len(q) : c[i] = q[i]
    BY <2>1
  <2> HIDE DEF c
  <2>3. DOMAIN c = {Len(q) + 1} \cup DOMAIN q /\ \A i \in DOMAIN q : c[i] = q[i]
    BY <2>1, <2>2
  <2> QED
    BY <2>2, <2>3 DEF Elements, c
<1> QED
  BY <1>1, <1>2, <1>3

(* What is open in b and sits in a stage of a is open in a.                 *)
Shares(b, a) == \A d \in b.deployed : StageOf[d] \in a.active => d \in a.deployed

Live == Elements(toSimulate) \cup (IF InFlight THEN {status} ELSE {})

OpenInvariant == \A a \in Live : \A b \in Live \cup Elements(flown) : Shares(b, a)

LEMMA LiveBranches ==
    ASSUME EngineInvariant
    PROVE  /\ toSimulate \in Seq({s \in Status : Sound(s)})
           /\ flown \in Seq(Flown)
           /\ \A a \in Live : Sound(a)
<1>1. toSimulate \in Seq({s \in Status : Sound(s)}) /\ flown \in Seq(Flown) /\ Sound(status)
  BY DEF EngineInvariant
<1>2. \A a \in Elements(toSimulate) : Sound(a)
  BY <1>1, ElementsOfSequences DEF Elements
<1> QED
  BY <1>1, <1>2 DEF Live

(* No branch changes but for what it drops: nothing opens.                  *)
LEMMA OpenKept ==
    ASSUME OpenInvariant,
           \A a \in Live' : \E c \in Live : a.active \subseteq c.active /\ a.deployed = c.deployed,
           \A b \in Elements(flown') : \E c \in Live \cup Elements(flown) : b.deployed = c.deployed
    PROVE  OpenInvariant'
<1> SUFFICES ASSUME NEW a \in Live', NEW b \in Live' \cup Elements(flown')
             PROVE  Shares(b, a)
  BY DEF OpenInvariant, Shares
<1>1. PICK c \in Live : a.active \subseteq c.active /\ a.deployed = c.deployed
  OBVIOUS
<1>2. PICK f \in Live \cup Elements(flown) : b.deployed = f.deployed
  OBVIOUS
<1>3. Shares(f, c)
  BY DEF OpenInvariant
<1> QED
  BY <1>1, <1>2, <1>3 DEF Shares

(* Handling an event opens at most a device of a stage of the branch.       *)
LEMMA HandleOpens ==
    ASSUME EngineInvariant, EngineInvariant', Handle
    PROVE  \E D : /\ status.deployed \subseteq D
                  /\ \A d \in D \ status.deployed : StageOf[d] \in status.active
                  /\ status'.deployed = D
                  /\ \A a \in Live' : \/ a \in Elements(toSimulate)
                                      \/ a.active \subseteq status.active /\ a.deployed = D
<1>1. PICK e \in Due(status) : RefusedNow(e) \/ HandledNow(e)
  BY HandleOutcome
<1>2. Sound(status) /\ e \in DOMAIN status.queue /\ InFlight'
  BY HandleOutcome, DueIsQueued DEF EngineInvariant, InFlight
<1>3. CASE RefusedNow(e)
  <2>1. /\ status'.deployed = status.deployed /\ status'.active = status.active
        /\ toSimulate' = toSimulate
    BY <1>3 DEF RefusedNow, Refused
  <2>2. \A a \in Live' : a \in Elements(toSimulate) \/ a = status'
    BY <1>2, <2>1 DEF Live
  <2> QED
    BY <2>1, <2>2
<1>4. CASE HandledNow(e)
  <2>1. PICK t : /\ Sound(t) /\ Handled(status, e, t) /\ Parts(e, t, status')
                 /\ \/ UNCHANGED toSimulate
                    \/ \E b : Parts(e, t, b) /\ toSimulate' = <<b>> \o toSimulate
    BY <1>4 DEF HandledNow
  <2>2. t.active = status.active
        /\ t.deployed = IF e.type = "RECOVERY_DEVICE_DEPLOYMENT" THEN status.deployed \cup {e.item}
                                                                 ELSE status.deployed
    BY <2>1 DEF Handled, SetsOff
  <2>3. \A d \in t.deployed \ status.deployed : StageOf[d] \in status.active
    BY <1>2, <2>2, DeploymentAttached
  <2>4. \A p : Parts(e, t, p) => p.active \subseteq status.active /\ p.deployed = t.deployed
    BY <2>2 DEF Parts, Continues
  <2>5. ASSUME NEW a \in Live'
        PROVE  a \in Elements(toSimulate) \/ a = status'
               \/ \E b : Parts(e, t, b) /\ a = b
    <3>1. CASE UNCHANGED toSimulate
      BY <1>2, <3>1 DEF Live
    <3>2. ASSUME NEW b, Parts(e, t, b), toSimulate' = <<b>> \o toSimulate
          PROVE  a \in Elements(toSimulate) \/ a = status' \/ a = b
      <4> DEFINE T == {s \in Status : Sound(s)} \cup {b}
      <4>1. toSimulate \in Seq(T) /\ b \in T
        <5>1. \A i \in DOMAIN toSimulate : toSimulate[i] \in T
          BY LiveBranches, ElementsOfSequences
        <5> QED
          BY <5>1, LiveBranches, ElementsOfSequences
      <4> HIDE DEF T
      <4>2. Elements(toSimulate') = {b} \cup Elements(toSimulate)
        BY <3>2, <4>1, ElementsOf
      <4> QED
        BY <1>2, <4>2 DEF Live
    <3> QED
      BY <2>1, <3>1, <3>2
  <2>6. status.deployed \subseteq t.deployed
    BY <2>2
  <2>7. status'.deployed = t.deployed
    BY <2>1, <2>4
  <2> QED
    BY <2>1, <2>3, <2>4, <2>5, <2>6, <2>7
<1> QED
  BY <1>1, <1>3, <1>4

LEMMA OpenHandle ==
    ASSUME EngineInvariant, EngineInvariant', StagesFlyOnce, OpenInvariant, Handle
    PROVE  OpenInvariant'
<1>1. PICK D : /\ status.deployed \subseteq D
               /\ \A d \in D \ status.deployed : StageOf[d] \in status.active
               /\ \A a \in Live' : \/ a \in Elements(toSimulate)
                                   \/ a.active \subseteq status.active /\ a.deployed = D
  BY HandleOpens
<1>2. InFlight /\ flown' = flown /\ status \in Live
  BY HandleOutcome DEF InFlight, Live
<1>3. \A w \in Elements(toSimulate) : w \in Live /\ w.active \cap status.active = {}
  BY <1>2, WaitingStagesApart DEF Elements, Live
<1> SUFFICES ASSUME NEW a \in Live', NEW b \in Live' \cup Elements(flown')
             PROVE  Shares(b, a)
  BY DEF OpenInvariant, Shares
<1>4. CASE a \in Elements(toSimulate) /\ b \in Elements(toSimulate) \cup Elements(flown)
  BY <1>3, <1>4 DEF OpenInvariant
<1>5. CASE a.active \subseteq status.active /\ a.deployed = D
           /\ b \in Elements(toSimulate) \cup Elements(flown)
  <2>1. Shares(b, status)
    BY <1>2, <1>3, <1>5 DEF OpenInvariant
  <2> QED
    BY <1>1, <1>5, <2>1 DEF Shares
<1>6. CASE a \in Elements(toSimulate) /\ b.deployed = D
  <2>1. Shares(status, a) /\ a.active \cap status.active = {}
    BY <1>2, <1>3, <1>6 DEF OpenInvariant
  <2> QED
    BY <1>1, <1>6, <2>1 DEF Shares
<1>7. CASE a.deployed = D /\ b.deployed = D
  BY <1>7 DEF Shares
<1> QED
  BY <1>1, <1>2, <1>4, <1>5, <1>6, <1>7

LEMMA OpenInductive ==
    ASSUME EngineInvariant, EngineInvariant', StagesFlyOnce, OpenInvariant, [Next]_vars
    PROVE  OpenInvariant'
<1>1. CASE Handle
  BY <1>1, OpenHandle
<1>2. CASE StartBranch
  <2>1. /\ toSimulate # <<>> /\ toSimulate' = Tail(toSimulate)
        /\ Continues(status', Head(toSimulate)) /\ pc = "branch" /\ flown' = flown
    BY <1>2, StartBranchOutcome DEF StartBranch
  <2>2. Head(toSimulate) \in Elements(toSimulate) /\ Elements(toSimulate') \subseteq Elements(toSimulate)
    BY <2>1, ElementsOf, LiveBranches
  <2>3. \A a \in Live' : \E c \in Live : a.active \subseteq c.active /\ a.deployed = c.deployed
    BY <2>1, <2>2 DEF Live, Continues
  <2> QED
    BY <2>1, <2>3, OpenKept
<1>3. CASE EndSimulation \/ Fail \/ UNCHANGED vars
  <2>1. Live' \subseteq Live /\ flown' = flown
    BY <1>3 DEF EndSimulation, Fail, vars, Live, InFlight
  <2> QED
    BY <2>1, OpenKept
<1>4. CASE EventsHandled
  <2>1. InFlight /\ Continues(status', status) /\ toSimulate' = toSimulate
    BY <1>4, EventsHandledOutcome DEF EventsHandled, InFlight
  <2>2. \A a \in Live' : \E c \in Live : a.active \subseteq c.active /\ a.deployed = c.deployed
    BY <2>1 DEF Live, Continues
  <2> DEFINE b == [active |-> status'.active, deployed |-> status'.deployed]
  <2>3. flown' = flown \/ flown' = Append(flown, b)
    BY <1>4 DEF EventsHandled
  <2>4. b \in Flown /\ b.deployed = status.deployed
    BY <2>1 DEF EngineInvariant, Sound, Status, Flown, Continues
  <2> HIDE DEF b
  <2>5. \A c \in Elements(flown') : c = b \/ c \in Elements(flown)
    <3>1. flown \in Seq(Flown) /\ b \in Flown
      BY <2>4, LiveBranches
    <3>2. Elements(Append(flown, b)) = {b} \cup Elements(flown)
      BY <3>1, ElementsOf
    <3>3. CASE flown' = flown
      BY <3>3 DEF Elements
    <3>4. CASE flown' = Append(flown, b)
      <4>1. Elements(flown') = Elements(Append(flown, b))
        BY ONLY <3>4 DEF Elements
      <4> QED
        BY <4>1, <3>2
    <3> QED
      BY <2>3, <3>3, <3>4
  <2> QED
    BY <2>1, <2>2, <2>4, <2>5, OpenKept DEF Live
<1>5. CASE Step
  <2>1. /\ InFlight /\ Continues(status', status) /\ toSimulate' = toSimulate /\ flown' = flown
    BY <1>5, StepOutcome DEF Step, InFlight
  <2>2. \A a \in Live' : \E c \in Live : a.active \subseteq c.active /\ a.deployed = c.deployed
    BY <2>1 DEF Live, Continues
  <2> QED
    BY <2>1, <2>2, OpenKept
<1> QED
  BY <1>1, <1>2, <1>3, <1>4, <1>5 DEF Next, Terminated

LEMMA OpenAlways == Spec => []OpenInvariant
<1>1. Init => OpenInvariant
  <2> SUFFICES ASSUME Init PROVE OpenInvariant
    OBVIOUS
  <2>1. FirstStatus(design).deployed = {}
    BY FirstStatusQueue DEF Init
  <2>2. \A b \in Live \cup Elements(flown) : b.deployed = {}
    BY <2>1 DEF Init, Live, Elements, InFlight
  <2> QED
    BY <2>2 DEF OpenInvariant, Shares
<1> QED
  BY EngineStaysSound, FlightStagesFlyOnce, <1>1, OpenInductive, PTL DEF Spec

(* A recovery device opens at most once in a flight. A branch only opens    *)
(* devices of its own stages, and a separation gives both branches the list *)
(* of what is open: so a device that is open anywhere is open in the branch *)
(* that has its stage, and the handler leaves it alone there.               *)
THEOREM FlightDeploysOnce == Spec => DeploysOnce
<1> DEFINE OpensOnce ==
              pc = "events" =>
                \A d \in status'.deployed \ status.deployed :
                   /\ IsStageActive(status, StageOf[d])
                   /\ \A i \in DOMAIN toSimulate : d \notin toSimulate[i].deployed
                   /\ \A i \in DOMAIN flown : d \notin flown[i].deployed
<1>1. EngineInvariant /\ EngineInvariant' /\ OpenInvariant /\ [Next]_vars => [OpensOnce]_vars
  <2> SUFFICES ASSUME EngineInvariant, EngineInvariant', OpenInvariant, Next, pc = "events",
                      NEW d \in status'.deployed \ status.deployed
               PROVE  /\ IsStageActive(status, StageOf[d])
                      /\ \A i \in DOMAIN toSimulate : d \notin toSimulate[i].deployed
                      /\ \A i \in DOMAIN flown : d \notin flown[i].deployed
    BY DEF vars
  <2>1. Handle
    <3>1. ~EventsHandled
      BY EventsHandledOutcome DEF Continues
    <3> QED
      BY <3>1 DEF Next, StartBranch, EndSimulation, Step, Fail, Terminated, vars
  <2>2. StageOf[d] \in status.active
    BY <2>1, HandleOpens
  <2>3. status \in Live
    BY DEF Live, InFlight
  <2>4. \A b \in Live \cup Elements(flown) : d \notin b.deployed
    BY <2>2, <2>3 DEF OpenInvariant, Shares
  <2> QED
    BY <2>2, <2>4 DEF IsStageActive, Live, Elements
<1> QED
  BY EngineStaysSound, OpenAlways, <1>1, PTL DEF Spec, DeploysOnce
=============================================================================
