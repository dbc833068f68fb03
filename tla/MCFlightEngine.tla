--------------------------- MODULE MCFlightEngine ---------------------------
(***************************************************************************)
(* Rockets and flight configurations on which FlightEngine is checked.     *)
(***************************************************************************)
EXTENDS FlightEngine, TLC

(* A stack of three stages, a motor and a recovery device in each.          *)
StackStageOf == [sustainer |-> 0, second |-> 1, first |-> 2,
                 main |-> 0, chute |-> 1, tail |-> 2]
StackMotors == {"sustainer", "second", "first"}
StackDevices == {"main", "chute", "tail"}
StackCore == 0..2
StackUpper == 0 :> -1 @@ 1 :> 0 @@ 2 :> 1
StackBurnTime == [sustainer |-> 2, second |-> 2, first |-> 1]
StackTimePoints == [m \in StackMotors |-> {}]

(* Without its first stage.  The booster's charge lights the sustainer,     *)
(* drops the booster and opens its parachute.                               *)
Charge == [active |-> {0, 1},
           ignition |-> [m \in StackMotors |-> "AUTOMATIC"],
           ignitionDelay |-> [m \in StackMotors |-> 0],
           ejectionDelay |-> [m \in StackMotors |-> 1],
           separation |-> [n \in 0..2 |-> "EJECTION"],
           separationDelay |-> [n \in 0..2 |-> 0],
           separationAltitude |-> [n \in 0..2 |-> 1],
           deployment |-> [d \in StackDevices |-> "EJECTION"],
           deployDelay |-> [d \in StackDevices |-> 0],
           deployAltitude |-> [d \in StackDevices |-> 1]]

(* The booster's burnout lights the sustainer, which drops the booster.     *)
Burnout == [Charge EXCEPT !.ignition["sustainer"] = "BURNOUT",
                          !.separation[1] = "UPPER_IGNITION",
                          !.deployment = [main |-> "APOGEE", chute |-> "ALTITUDE", tail |-> "NEVER"],
                          !.ejectionDelay["sustainer"] = Plugged]

(* The stages stay together up to apogee, the booster's parachute opens     *)
(* before or after.                                                         *)
AtApogee == [Charge EXCEPT !.ignition["sustainer"] = "NEVER",
                           !.separation[1] = "APOGEE",
                           !.deployment = [main |-> "APOGEE", chute |-> "EJECTION", tail |-> "NEVER"],
                           !.ejectionDelay["second"] = 3]
Together == [AtApogee EXCEPT !.deployment["chute"] = "ALTITUDE", !.separationDelay[1] = 2]

(* The booster is dropped on the way up.                                    *)
Ascending == [Charge EXCEPT !.separation[1] = "ALTITUDE_ASCENDING",
                            !.separationDelay[1] = 1,
                            !.deployment = [main |-> "LOWER_STAGE_SEPARATION",
                                            chute |-> "APOGEE", tail |-> "NEVER"]]

(* All three stages: the upper of the two boosters separates at its         *)
(* burnout, or both do at apogee, the upper one first or last.              *)
Boosters == [Charge EXCEPT !.active = 0..2,
                           !.ignition["sustainer"] = "NEVER",
                           !.separation[1] = "BURNOUT",
                           !.deployment = [main |-> "APOGEE", chute |-> "NEVER", tail |-> "EJECTION"]]
Upper == [Boosters EXCEPT !.ignition["second"] = "NEVER",
                          !.separation = 0 :> "NEVER" @@ 1 :> "APOGEE" @@ 2 :> "NEVER",
                          !.deployment["tail"] = "APOGEE"]
Lower == [Upper EXCEPT !.separation[2] = "APOGEE",
                       !.separationDelay[1] = 1,
                       !.deployment["main"] = "LOWER_STAGE_SEPARATION"]

StackDesigns == {Charge, Burnout, AtApogee, Together, Ascending, Boosters, Upper, Lower}

(* A sustainer with a set of strap-on boosters (stage 1): two motors that   *)
(* burn out at the same instant, two charges for the boosters' parachute,   *)
(* and in AirStart two ignitions of the core's motor.                       *)
StrapStageOf == [core |-> 0, left |-> 1, right |-> 1, main |-> 0, straps |-> 1]
StrapMotors == {"core", "left", "right"}
StrapDevices == {"main", "straps"}
StrapCore == {0}
StrapUpper == 0 :> -1 @@ 1 :> 0
StrapBurnTime == [m \in StrapMotors |-> 2]
StrapTimePoints == [m \in StrapMotors |-> IF m = "core" THEN {0, 2} ELSE {}]

AtLaunch == [active |-> {0, 1},
             ignition |-> [m \in StrapMotors |-> "LAUNCH"],
             ignitionDelay |-> [m \in StrapMotors |-> 0],
             ejectionDelay |-> [m \in StrapMotors |-> IF m = "core" THEN 2 ELSE 0],
             separation |-> 0 :> "NEVER" @@ 1 :> "EJECTION",
             separationDelay |-> [n \in {0, 1} |-> 0],
             separationAltitude |-> [n \in {0, 1} |-> 1],
             deployment |-> [d \in StrapDevices |-> "EJECTION"],
             deployDelay |-> [d \in StrapDevices |-> 0],
             deployAltitude |-> [d \in StrapDevices |-> 1]]
AirStart == [AtLaunch EXCEPT !.ignition["core"] = "BURNOUT"]
LateSeparation == [AtLaunch EXCEPT !.separationDelay[1] = 2]
StrapDesigns == {LateSeparation, AirStart}
AirStartOnly == {AirStart}
=============================================================================
