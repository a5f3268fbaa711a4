----------------------- MODULE PlatoonController_proofs -----------------------
(***************************************************************************)
(* Theorems about PlatoonController: they hold for every set of speeds,    *)
(* every answer of the enclave, every client, platoon and route.           *)
(***************************************************************************)
EXTENDS PlatoonController, FiniteSetTheorems, TLAPS

USE ConstantsAssumption DEF ConstantsAssumption, Controllers, Index, Origins

(* The Boolean variables, and the others. *)
Flags == /\ ignore \in BOOLEAN /\ caccInit \in BOOLEAN
         /\ asked \in BOOLEAN /\ onward \in BOOLEAN /\ vetoed \in BOOLEAN

Values ==
    /\ now \in Nat \ {0} /\ egoUpdated \in Nat
    /\ phase \in {"traci", "plan", "move", "change", "advantage", "gone"}
    /\ controller \in Controllers
    /\ egoSpeed \in Speed \cup {0}
    /\ followSpeed \in Speed \cup {0} /\ followSet \in Nat /\ followOf \in Origins
    /\ freeSpeed \in Speed \cup {0} /\ freeAt \in Nat
    /\ radarTime \in Nat /\ radarOf \in Origins
    /\ approved \subseteq Speed
    /\ received \subseteq {"leader", "front"}
    /\ position \in Index \cup {-1} /\ nCars \in 1..MaxCars
    /\ initialized \subseteq Index /\ nInitialized \in Nat

(* While the model is asked what a lane change would gain, the vehicle is not
   where it wants to be and its goal is on the edge: the neighbour lane exists. *)
Lanes == /\ laneAction \in {"DRIVER_CHOICE", "STAY_IN_CURRENT_LANE",
                            "MOVE_TO_FIXED_LANE"}
         /\ fixedLane \in Int
         /\ lanes \in EdgeLanes /\ lane \in 0..(lanes - 1)
         /\ phase = "advantage" => lane # Destination /\ DestinationOnEdge

Shape == Flags /\ Values /\ Lanes

(* Every action leaves the flags Boolean. *)
LEMMA FlagsStep ==
    ASSUME Shape, [Next]_vars
    PROVE  Flags'
<1>. USE DEF timeVars, egoVars, speedVars, radarVars, dataVars, laneVars,
     planVars, enclaveVars, Flags, Shape
<1>1. ASSUME NEW c \in Controllers, SetActiveController(c) PROVE Flags'
  BY <1>1, Zenon DEF SetActiveController, Client
<1>2. ASSUME NEW a \in {"DRIVER_CHOICE", "STAY_IN_CURRENT_LANE"},
     SetLaneChangeAction(a) PROVE Flags'
  BY <1>2, Zenon DEF SetLaneChangeAction, Client
<1>3. ASSUME NEW l \in FixedLanes, SetFixedLane(l) PROVE Flags'
  BY <1>3, Zenon DEF SetFixedLane, Client
<1>4. CASE SetLeaderInformation
  BY <1>4, Zenon DEF SetLeaderInformation, Client
<1>5. CASE SetPrecedingInformation
  BY <1>5, Zenon DEF SetPrecedingInformation, Client
<1>6. ASSUME NEW i \in Index, SetVehicleData(i) PROVE Flags'
  BY <1>6, Zenon DEF SetVehicleData, Client
<1>7. ASSUME NEW i \in Index, SetPosition(i) PROVE Flags'
  BY <1>7, Zenon DEF SetPosition, ResetConsensus, Client
<1>8. ASSUME NEW n \in 1..MaxCars, SetPlatoonSize(n) PROVE Flags'
  BY <1>8, Zenon DEF SetPlatoonSize, ResetConsensus, Client
<1>9. CASE StartStep
  BY <1>9, Zenon DEF StartStep
<1>10. CASE PlanEnds
  BY <1>10, Zenon DEF PlanEnds, Planning
<1>11. CASE Arrive
  BY <1>11, Zenon DEF Arrive
<1>12. ASSUME NEW s \in Speed, NEW ok \in Verdicts, PlanLeader(s, ok) PROVE
     Flags'
  BY <1>12, Zenon DEF PlanLeader, Planning, FollowSpeed, Measure, Store, Judge
<1>13. ASSUME NEW s \in Speed, NEW ok \in Verdicts, NEW arrives \in BOOLEAN,
     PlanOnward(s, ok, arrives) PROVE Flags'
  BY <1>13, Zenon DEF PlanOnward, Planning, FreeSpeed, Judge
<1>14. ASSUME NEW s \in Speed, NEW k \in EdgeLanes, NEW l \in 0..(k - 1),
     ExecuteMove(s, k, l) PROVE Flags'
  BY <1>14, Zenon DEF ExecuteMove, MoveHelper
<1>15. CASE LaneReached
  BY <1>15, Zenon DEF LaneReached, Changing, NextStep
<1>16. CASE StartAdvantage
  BY <1>16, Zenon DEF StartAdvantage, Changing
<1>17. ASSUME NEW s \in Speed, NEW ok \in Verdicts, AskAdvantage(s, ok) PROVE
     Flags'
  BY <1>17, Zenon DEF AskAdvantage, FollowSpeed, Measure, Store, Judge
<1>18. ASSUME NEW s \in Speed, NEW ok \in Verdicts, UnguardedAsk(s, ok) PROVE
     Flags'
  BY <1>18, Zenon DEF UnguardedAsk, Changing, FollowSpeed, Measure, Store, Judge
<1>19. ASSUME NEW blocked \in BOOLEAN, EndAdvantage(blocked) PROVE Flags'
  BY <1>19, Zenon DEF EndAdvantage, NextStep, DestinationOnEdge, Destination
<1>20. ASSUME NEW l \in 0..(lanes - 1), KeepOrChangeLane(l) PROVE Flags'
  BY <1>20, Zenon DEF KeepOrChangeLane, Changing, NextStep
<1>21. CASE UNCHANGED vars
  BY <1>21 DEF vars
<1>. QED
  BY <1>1, <1>2, <1>3, <1>4, <1>5, <1>6, <1>7, <1>8, <1>9, <1>10, <1>11, <1>12,
       <1>13, <1>14, <1>15, <1>16, <1>17, <1>18, <1>19, <1>20, <1>21 DEF Next,
       ClientStep, Move, ChangeLane, Terminated

(* A call of the car-following model keeps the types of the speeds, of what the
   radar measured and of what the enclave approved. *)
SpeedTypes ==
    /\ followSpeed \in Speed \cup {0} /\ followSet \in Nat /\ followOf \in Origins
    /\ freeSpeed \in Speed \cup {0} /\ freeAt \in Nat
    /\ radarTime \in Nat /\ radarOf \in Origins
    /\ approved \subseteq Speed

LEMMA FollowSpeedTypes ==
    ASSUME Shape, NEW who \in Origins, NEW s \in Speed, NEW ok \in Verdicts,
           FollowSpeed(who, s, ok)
    PROVE  SpeedTypes'
<1>1. radarTime' \in Nat /\ radarOf' \in Origins
  BY DEF Shape, Values, FollowSpeed, Measure, radarVars
<1>2. followSpeed' \in Speed \cup {0} /\ followSet' \in Nat /\ followOf' \in Origins
  BY DEF Shape, Values, FollowSpeed, Store
<1>3. approved' \subseteq Speed
  BY DEF Shape, Values, FollowSpeed, Judge, enclaveVars
<1>4. freeSpeed' \in Speed \cup {0} /\ freeAt' \in Nat
  BY DEF Shape, Values, FollowSpeed
<1>5. QED  BY <1>1, <1>2, <1>3, <1>4 DEF SpeedTypes

(* Every action keeps the types of the other values. *)
LEMMA ValuesStep ==
    ASSUME Shape, [Next]_vars
    PROVE  Values'
<1>. USE DEF timeVars, egoVars, speedVars, radarVars, dataVars, laneVars,
     planVars, enclaveVars, Values, Shape
<1>1. ASSUME NEW c \in Controllers, SetActiveController(c) PROVE Values'
  BY <1>1 DEF SetActiveController, Client
<1>2. ASSUME NEW a \in {"DRIVER_CHOICE", "STAY_IN_CURRENT_LANE"},
     SetLaneChangeAction(a) PROVE Values'
  BY <1>2 DEF SetLaneChangeAction, Client
<1>3. ASSUME NEW l \in FixedLanes, SetFixedLane(l) PROVE Values'
  BY <1>3 DEF SetFixedLane, Client
<1>4. CASE SetLeaderInformation
  BY <1>4 DEF SetLeaderInformation, Client
<1>5. CASE SetPrecedingInformation
  BY <1>5 DEF SetPrecedingInformation, Client
<1>6. ASSUME NEW i \in Index, SetVehicleData(i) PROVE Values'
  BY <1>6 DEF SetVehicleData, Client
<1>7. ASSUME NEW i \in Index, SetPosition(i) PROVE Values'
  BY <1>7 DEF SetPosition, ResetConsensus, Client
<1>8. ASSUME NEW n \in 1..MaxCars, SetPlatoonSize(n) PROVE Values'
  BY <1>8 DEF SetPlatoonSize, ResetConsensus, Client
<1>9. CASE StartStep
  BY <1>9 DEF StartStep
<1>10. CASE PlanEnds
  BY <1>10 DEF PlanEnds, Planning
<1>11. CASE Arrive
  BY <1>11 DEF Arrive
<1>12. ASSUME NEW s \in Speed, NEW ok \in Verdicts, PlanLeader(s, ok) PROVE
     Values'
  <2>1. SpeedTypes'
    BY <1>12, FollowSpeedTypes DEF PlanLeader
  <2>2. QED  BY <1>12, <2>1 DEF PlanLeader, Planning, SpeedTypes
<1>13. ASSUME NEW s \in Speed, NEW ok \in Verdicts, NEW arrives \in BOOLEAN,
     PlanOnward(s, ok, arrives) PROVE Values'
  <2>1. /\ freeSpeed' \in Speed \cup {0} /\ freeAt' \in Nat
        /\ approved' \subseteq Speed
        /\ UNCHANGED <<followSpeed, followSet, followOf>>
    BY <1>13 DEF PlanOnward, FreeSpeed, Judge
  <2>2. QED  BY <1>13, <2>1 DEF PlanOnward, Planning
<1>14. ASSUME NEW s \in Speed, NEW k \in EdgeLanes, NEW l \in 0..(k - 1),
     ExecuteMove(s, k, l) PROVE Values'
  BY <1>14 DEF ExecuteMove, MoveHelper
<1>15. CASE LaneReached
  BY <1>15 DEF LaneReached, Changing, NextStep
<1>16. CASE StartAdvantage
  BY <1>16 DEF StartAdvantage, Changing
<1>17. ASSUME NEW s \in Speed, NEW ok \in Verdicts, AskAdvantage(s, ok) PROVE
     Values'
  <2>1. SpeedTypes'
    BY <1>17, FollowSpeedTypes DEF AskAdvantage
  <2>2. QED  BY <1>17, <2>1 DEF AskAdvantage, SpeedTypes
<1>18. ASSUME NEW s \in Speed, NEW ok \in Verdicts, UnguardedAsk(s, ok) PROVE
     Values'
  <2>1. SpeedTypes'
    BY <1>18, FollowSpeedTypes DEF UnguardedAsk
  <2>2. QED  BY <1>18, <2>1 DEF UnguardedAsk, Changing, SpeedTypes
<1>19. ASSUME NEW blocked \in BOOLEAN, EndAdvantage(blocked) PROVE Values'
  BY <1>19 DEF EndAdvantage, NextStep, DestinationOnEdge, Destination
<1>20. ASSUME NEW l \in 0..(lanes - 1), KeepOrChangeLane(l) PROVE Values'
  BY <1>20 DEF KeepOrChangeLane, Changing, NextStep
<1>21. CASE UNCHANGED vars
  BY <1>21 DEF vars
<1>. QED
  BY <1>1, <1>2, <1>3, <1>4, <1>5, <1>6, <1>7, <1>8, <1>9, <1>10, <1>11, <1>12,
       <1>13, <1>14, <1>15, <1>16, <1>17, <1>18, <1>19, <1>20, <1>21 DEF Next,
       ClientStep, Move, ChangeLane, Terminated

(* The vehicle stays on its edge, and a change of lane goes where there is a
   lane. *)
LEMMA LanesStep ==
    ASSUME Shape, [Next]_vars
    PROVE  Lanes'
<1>. USE DEF timeVars, egoVars, speedVars, radarVars, dataVars, laneVars,
     planVars, enclaveVars, Lanes, Shape, Values, DestinationOnEdge, Destination
<1>1. ASSUME NEW c \in Controllers, SetActiveController(c) PROVE Lanes'
  BY <1>1 DEF SetActiveController, Client
<1>2. ASSUME NEW a \in {"DRIVER_CHOICE", "STAY_IN_CURRENT_LANE"},
     SetLaneChangeAction(a) PROVE Lanes'
  BY <1>2 DEF SetLaneChangeAction, Client
<1>3. ASSUME NEW l \in FixedLanes, SetFixedLane(l) PROVE Lanes'
  BY <1>3 DEF SetFixedLane, Client
<1>4. CASE SetLeaderInformation
  BY <1>4 DEF SetLeaderInformation, Client
<1>5. CASE SetPrecedingInformation
  BY <1>5 DEF SetPrecedingInformation, Client
<1>6. ASSUME NEW i \in Index, SetVehicleData(i) PROVE Lanes'
  BY <1>6 DEF SetVehicleData, Client
<1>7. ASSUME NEW i \in Index, SetPosition(i) PROVE Lanes'
  BY <1>7 DEF SetPosition, ResetConsensus, Client
<1>8. ASSUME NEW n \in 1..MaxCars, SetPlatoonSize(n) PROVE Lanes'
  BY <1>8 DEF SetPlatoonSize, ResetConsensus, Client
<1>9. CASE StartStep
  BY <1>9 DEF StartStep
<1>10. CASE PlanEnds
  BY <1>10 DEF PlanEnds, Planning
<1>11. CASE Arrive
  BY <1>11 DEF Arrive
<1>12. ASSUME NEW s \in Speed, NEW ok \in Verdicts, PlanLeader(s, ok) PROVE
     Lanes'
  BY <1>12 DEF PlanLeader, Planning, FollowSpeed, Measure, Store, Judge
<1>13. ASSUME NEW s \in Speed, NEW ok \in Verdicts, NEW arrives \in BOOLEAN,
     PlanOnward(s, ok, arrives) PROVE Lanes'
  BY <1>13 DEF PlanOnward, Planning, FreeSpeed, Judge
<1>14. ASSUME NEW s \in Speed, NEW k \in EdgeLanes, NEW l \in 0..(k - 1),
     ExecuteMove(s, k, l) PROVE Lanes'
  BY <1>14 DEF ExecuteMove, MoveHelper
<1>15. CASE LaneReached
  BY <1>15 DEF LaneReached, Changing, NextStep
<1>16. CASE StartAdvantage
  BY <1>16 DEF StartAdvantage, Changing
<1>17. ASSUME NEW s \in Speed, NEW ok \in Verdicts, AskAdvantage(s, ok) PROVE
     Lanes'
  BY <1>17 DEF AskAdvantage, FollowSpeed, Measure, Store, Judge
<1>18. ASSUME NEW s \in Speed, NEW ok \in Verdicts, UnguardedAsk(s, ok) PROVE
     Lanes'
  BY <1>18 DEF UnguardedAsk, Changing, FollowSpeed, Measure, Store, Judge
<1>19. ASSUME NEW blocked \in BOOLEAN, EndAdvantage(blocked) PROVE Lanes'
  BY <1>19 DEF EndAdvantage, NextStep, DestinationOnEdge, Destination
<1>20. ASSUME NEW l \in 0..(lanes - 1), KeepOrChangeLane(l) PROVE Lanes'
  BY <1>20 DEF KeepOrChangeLane, Changing, NextStep
<1>21. CASE UNCHANGED vars
  BY <1>21 DEF vars
<1>. QED
  BY <1>1, <1>2, <1>3, <1>4, <1>5, <1>6, <1>7, <1>8, <1>9, <1>10, <1>11, <1>12,
       <1>13, <1>14, <1>15, <1>16, <1>17, <1>18, <1>19, <1>20, <1>21 DEF Next,
       ClientStep, Move, ChangeLane, Terminated

(* ignoreModifications is set exactly while the lane changer asks. *)
IgnoredWhileAsking == ignore <=> phase = "advantage"

(* What followSpeed and freeSpeed stored was allowed. *)
StoredWasAllowed == /\ followSpeed \in approved \cup {0}
                    /\ freeSpeed \in approved \cup {0}

(* No time stamp is ahead of the clock, and a step begins with older ones. *)
StampsPast == /\ followSet <= now /\ radarTime <= now
              /\ phase = "traci" => followSet < now /\ radarTime < now

(* What planMove has asked so far in this step tells what is stored. *)
PlannedNow ==
    phase \in {"plan", "move"} =>
        /\ ~asked => followSet < now
        /\ Automatic /\ ~vetoed /\ asked => followSet = now /\ followOf = "first"
        /\ Automatic /\ ~vetoed /\ onward => freeAt = now

(* The lane changer resets ignoreModifications before anything else happens. *)
LEMMA IgnoredStep ==
    ASSUME Shape, IgnoredWhileAsking, [Next]_vars
    PROVE  IgnoredWhileAsking'
<1>. USE DEF timeVars, egoVars, speedVars, radarVars, dataVars, laneVars,
     planVars, enclaveVars, IgnoredWhileAsking, Shape
<1>1. CASE ClientStep
  BY <1>1 DEF ClientStep, SetActiveController, Client, SetLaneChangeAction,
       SetFixedLane, SetLeaderInformation, SetPrecedingInformation,
       SetVehicleData, SetPosition, ResetConsensus, SetPlatoonSize
<1>2. CASE StartStep
  BY <1>2 DEF StartStep
<1>3. CASE PlanEnds
  BY <1>3 DEF PlanEnds, Planning
<1>4. CASE Arrive
  BY <1>4 DEF Arrive
<1>5. ASSUME NEW s \in Speed, NEW ok \in Verdicts, PlanLeader(s, ok) PROVE
     IgnoredWhileAsking'
  BY <1>5 DEF PlanLeader, Planning, FollowSpeed, Measure, Store, Judge
<1>6. ASSUME NEW s \in Speed, NEW ok \in Verdicts, NEW arrives \in BOOLEAN,
     PlanOnward(s, ok, arrives) PROVE IgnoredWhileAsking'
  BY <1>6 DEF PlanOnward, Planning, FreeSpeed, Judge
<1>7. ASSUME NEW s \in Speed, NEW k \in EdgeLanes, NEW l \in 0..(k - 1),
     ExecuteMove(s, k, l) PROVE IgnoredWhileAsking'
  BY <1>7 DEF ExecuteMove, MoveHelper
<1>8. CASE LaneReached
  BY <1>8 DEF LaneReached, Changing, NextStep
<1>9. CASE StartAdvantage
  BY <1>9 DEF StartAdvantage, Changing
<1>10. ASSUME NEW s \in Speed, NEW ok \in Verdicts, AskAdvantage(s, ok) PROVE
     IgnoredWhileAsking'
  BY <1>10 DEF AskAdvantage, FollowSpeed, Measure, Store, Judge
<1>11. ASSUME NEW s \in Speed, NEW ok \in Verdicts, UnguardedAsk(s, ok) PROVE
     IgnoredWhileAsking'
  BY <1>11 DEF UnguardedAsk, Changing, FollowSpeed, Measure, Store, Judge
<1>12. ASSUME NEW blocked \in BOOLEAN, EndAdvantage(blocked) PROVE
     IgnoredWhileAsking'
  BY <1>12 DEF EndAdvantage, NextStep, DestinationOnEdge, Destination
<1>13. ASSUME NEW l \in 0..(lanes - 1), KeepOrChangeLane(l) PROVE
     IgnoredWhileAsking'
  BY <1>13 DEF KeepOrChangeLane, Changing, NextStep
<1>14. CASE UNCHANGED vars
  BY <1>14 DEF vars
<1>. QED
  BY <1>1, <1>2, <1>3, <1>4, <1>5, <1>6, <1>7, <1>8, <1>9, <1>10, <1>11, <1>12,
       <1>13, <1>14 DEF Next, Move, ChangeLane, Terminated

(* A speed is stored only together with its permission. *)
LEMMA AllowedStep ==
    ASSUME StoredWasAllowed, [Next]_vars
    PROVE  StoredWasAllowed'
<1>. USE DEF timeVars, egoVars, speedVars, radarVars, dataVars, laneVars,
     planVars, enclaveVars, StoredWasAllowed
<1>1. CASE ClientStep
  BY <1>1 DEF ClientStep, SetActiveController, Client, SetLaneChangeAction,
       SetFixedLane, SetLeaderInformation, SetPrecedingInformation,
       SetVehicleData, SetPosition, ResetConsensus, SetPlatoonSize
<1>2. CASE StartStep
  BY <1>2 DEF StartStep
<1>3. CASE PlanEnds
  BY <1>3 DEF PlanEnds, Planning
<1>4. CASE Arrive
  BY <1>4 DEF Arrive
<1>5. ASSUME NEW s \in Speed, NEW ok \in Verdicts, PlanLeader(s, ok) PROVE
     StoredWasAllowed'
  BY <1>5 DEF PlanLeader, Planning, FollowSpeed, Measure, Store, Judge
<1>6. ASSUME NEW s \in Speed, NEW ok \in Verdicts, NEW arrives \in BOOLEAN,
     PlanOnward(s, ok, arrives) PROVE StoredWasAllowed'
  BY <1>6 DEF PlanOnward, Planning, FreeSpeed, Judge
<1>7. ASSUME NEW s \in Speed, NEW k \in EdgeLanes, NEW l \in 0..(k - 1),
     ExecuteMove(s, k, l) PROVE StoredWasAllowed'
  BY <1>7 DEF ExecuteMove, MoveHelper
<1>8. CASE LaneReached
  BY <1>8 DEF LaneReached, Changing, NextStep
<1>9. CASE StartAdvantage
  BY <1>9 DEF StartAdvantage, Changing
<1>10. ASSUME NEW s \in Speed, NEW ok \in Verdicts, AskAdvantage(s, ok) PROVE
     StoredWasAllowed'
  BY <1>10 DEF AskAdvantage, FollowSpeed, Measure, Store, Judge
<1>11. ASSUME NEW s \in Speed, NEW ok \in Verdicts, UnguardedAsk(s, ok) PROVE
     StoredWasAllowed'
  BY <1>11 DEF UnguardedAsk, Changing, FollowSpeed, Measure, Store, Judge
<1>12. ASSUME NEW blocked \in BOOLEAN, EndAdvantage(blocked) PROVE
     StoredWasAllowed'
  BY <1>12 DEF EndAdvantage, NextStep, DestinationOnEdge, Destination
<1>13. ASSUME NEW l \in 0..(lanes - 1), KeepOrChangeLane(l) PROVE
     StoredWasAllowed'
  BY <1>13 DEF KeepOrChangeLane, Changing, NextStep
<1>14. CASE UNCHANGED vars
  BY <1>14 DEF vars
<1>. QED
  BY <1>1, <1>2, <1>3, <1>4, <1>5, <1>6, <1>7, <1>8, <1>9, <1>10, <1>11, <1>12,
       <1>13, <1>14 DEF Next, Move, ChangeLane, Terminated

(* Time passes only after a step. *)
LEMMA StampsStep ==
    ASSUME Shape, StampsPast, [Next]_vars
    PROVE  StampsPast'
<1>. USE DEF timeVars, egoVars, speedVars, radarVars, dataVars, laneVars,
     planVars, enclaveVars, StampsPast, Shape, Values
<1>1. CASE ClientStep
  BY <1>1 DEF ClientStep, SetActiveController, Client, SetLaneChangeAction,
       SetFixedLane, SetLeaderInformation, SetPrecedingInformation,
       SetVehicleData, SetPosition, ResetConsensus, SetPlatoonSize
<1>2. CASE StartStep
  BY <1>2 DEF StartStep
<1>3. CASE PlanEnds
  BY <1>3 DEF PlanEnds, Planning
<1>4. CASE Arrive
  BY <1>4 DEF Arrive
<1>5. ASSUME NEW s \in Speed, NEW ok \in Verdicts, PlanLeader(s, ok) PROVE
     StampsPast'
  BY <1>5 DEF PlanLeader, Planning, FollowSpeed, Measure, Store, Judge
<1>6. ASSUME NEW s \in Speed, NEW ok \in Verdicts, NEW arrives \in BOOLEAN,
     PlanOnward(s, ok, arrives) PROVE StampsPast'
  BY <1>6 DEF PlanOnward, Planning, FreeSpeed, Judge
<1>7. ASSUME NEW s \in Speed, NEW k \in EdgeLanes, NEW l \in 0..(k - 1),
     ExecuteMove(s, k, l) PROVE StampsPast'
  BY <1>7 DEF ExecuteMove, MoveHelper
<1>8. CASE LaneReached
  BY <1>8 DEF LaneReached, Changing, NextStep
<1>9. CASE StartAdvantage
  BY <1>9 DEF StartAdvantage, Changing
<1>10. ASSUME NEW s \in Speed, NEW ok \in Verdicts, AskAdvantage(s, ok) PROVE
     StampsPast'
  BY <1>10 DEF AskAdvantage, FollowSpeed, Measure, Store, Judge
<1>11. ASSUME NEW s \in Speed, NEW ok \in Verdicts, UnguardedAsk(s, ok) PROVE
     StampsPast'
  BY <1>11 DEF UnguardedAsk, Changing, FollowSpeed, Measure, Store, Judge
<1>12. ASSUME NEW blocked \in BOOLEAN, EndAdvantage(blocked) PROVE StampsPast'
  BY <1>12 DEF EndAdvantage, NextStep, DestinationOnEdge, Destination
<1>13. ASSUME NEW l \in 0..(lanes - 1), KeepOrChangeLane(l) PROVE StampsPast'
  BY <1>13 DEF KeepOrChangeLane, Changing, NextStep
<1>14. CASE UNCHANGED vars
  BY <1>14 DEF vars
<1>. QED
  BY <1>1, <1>2, <1>3, <1>4, <1>5, <1>6, <1>7, <1>8, <1>9, <1>10, <1>11, <1>12,
       <1>13, <1>14 DEF Next, Move, ChangeLane, Terminated

(* In a step without veto the first leader is the one that is stored, and the
   last question for a free road. *)
LEMMA PlannedStep ==
    ASSUME Shape, IgnoredWhileAsking, StampsPast, PlannedNow, [Next]_vars
    PROVE  PlannedNow'
<1>. USE DEF timeVars, egoVars, speedVars, radarVars, dataVars, laneVars,
     planVars, enclaveVars, PlannedNow, Shape, Values, StampsPast,
     IgnoredWhileAsking, Automatic
<1>1. CASE ClientStep
  BY <1>1 DEF ClientStep, SetActiveController, Client, SetLaneChangeAction,
       SetFixedLane, SetLeaderInformation, SetPrecedingInformation,
       SetVehicleData, SetPosition, ResetConsensus, SetPlatoonSize
<1>2. CASE StartStep
  BY <1>2 DEF StartStep
<1>3. CASE PlanEnds
  BY <1>3 DEF PlanEnds, Planning
<1>4. CASE Arrive
  BY <1>4 DEF Arrive
<1>5. ASSUME NEW s \in Speed, NEW ok \in Verdicts, PlanLeader(s, ok) PROVE
     PlannedNow'
  <2>1. /\ phase = "plan" /\ ~ignore /\ now' = now /\ controller' = controller
        /\ asked' = TRUE /\ onward' = onward /\ freeAt' = freeAt
    BY <1>5 DEF PlanLeader, Planning, FollowSpeed
  <2>2. ASSUME Automatic', ~vetoed' PROVE followSet' = now /\ followOf' = "first"
    <3>1. /\ Store(IF asked THEN "later" ELSE "first", s, ok)
          /\ ok /\ ~vetoed
      BY <1>5, <2>1, <2>2, Zenon DEF PlanLeader, FollowSpeed, Judge
    <3>2. CASE asked
      BY <2>1, <2>2, <3>1, <3>2 DEF Store
    <3>3. CASE ~asked
      BY <2>1, <2>2, <3>1, <3>3 DEF Store
    <3>. QED
      BY <3>2, <3>3
  <2>3. ASSUME Automatic', ~vetoed', onward' PROVE freeAt' = now
    <3>1. ~vetoed
      BY <1>5, <2>1, <2>3, Zenon DEF PlanLeader, FollowSpeed, Judge
    <3>. QED
      BY <2>1, <2>3, <3>1
  <2>. QED
    BY <2>1, <2>2, <2>3, Zenon
<1>6. ASSUME NEW s \in Speed, NEW ok \in Verdicts, NEW arrives \in BOOLEAN,
     PlanOnward(s, ok, arrives) PROVE PlannedNow'
  BY <1>6 DEF PlanOnward, Planning, FreeSpeed, Judge
<1>7. ASSUME NEW s \in Speed, NEW k \in EdgeLanes, NEW l \in 0..(k - 1),
     ExecuteMove(s, k, l) PROVE PlannedNow'
  BY <1>7 DEF ExecuteMove, MoveHelper
<1>8. CASE ChangeLane
  BY <1>8 DEF ChangeLane, LaneReached, Changing, NextStep, StartAdvantage,
       AskAdvantage, FollowSpeed, Measure, Store, Judge, UnguardedAsk,
       EndAdvantage, DestinationOnEdge, Destination, KeepOrChangeLane
<1>9. CASE UNCHANGED vars
  BY <1>9 DEF vars
<1>. QED
  BY <1>1, <1>2, <1>3, <1>4, <1>5, <1>6, <1>7, <1>8, <1>9 DEF Next, Move,
       Terminated

(* In the rest of the step the radar shows what planMove asked about first, and
   it still does when the client reads it, one step later. *)
Measured ==
    /\ phase \in {"plan", "move", "change", "advantage"} =>
          IF asked THEN radarTime = now /\ radarOf = "first" ELSE radarTime < now
    /\ phase = "traci" =>
          IF asked THEN radarTime = now - 1 /\ radarOf = "first"
                   ELSE radarTime < now - 1 \/ radarTime = 0

(* Unless a lane change asks unguarded, the radar keeps the first leader of the
   step. *)
LEMMA MeasuredStep ==
    ASSUME ~Unguarded, Shape, IgnoredWhileAsking, StampsPast, Measured, [Next]_vars
    PROVE  Measured'
<1>. USE DEF timeVars, egoVars, speedVars, radarVars, dataVars, laneVars,
     planVars, enclaveVars, Measured, Shape, Values, StampsPast,
     IgnoredWhileAsking
<1>1. CASE ClientStep
  BY <1>1 DEF ClientStep, SetActiveController, Client, SetLaneChangeAction,
       SetFixedLane, SetLeaderInformation, SetPrecedingInformation,
       SetVehicleData, SetPosition, ResetConsensus, SetPlatoonSize
<1>2. CASE StartStep
  BY <1>2 DEF StartStep
<1>3. CASE PlanEnds
  BY <1>3 DEF PlanEnds, Planning
<1>4. CASE Arrive
  BY <1>4 DEF Arrive
<1>5. ASSUME NEW s \in Speed, NEW ok \in Verdicts, PlanLeader(s, ok) PROVE
     Measured'
  BY <1>5 DEF PlanLeader, Planning, FollowSpeed, Measure, Store, Judge
<1>6. ASSUME NEW s \in Speed, NEW ok \in Verdicts, NEW arrives \in BOOLEAN,
     PlanOnward(s, ok, arrives) PROVE Measured'
  BY <1>6 DEF PlanOnward, Planning, FreeSpeed, Judge
<1>7. ASSUME NEW s \in Speed, NEW k \in EdgeLanes, NEW l \in 0..(k - 1),
     ExecuteMove(s, k, l) PROVE Measured'
  BY <1>7 DEF ExecuteMove, MoveHelper
<1>8. CASE LaneReached
  BY <1>8 DEF LaneReached, Changing, NextStep
<1>9. CASE StartAdvantage
  BY <1>9 DEF StartAdvantage, Changing
<1>10. ASSUME NEW s \in Speed, NEW ok \in Verdicts, AskAdvantage(s, ok) PROVE
     Measured'
  BY <1>10 DEF AskAdvantage, FollowSpeed, Measure, Store, Judge
<1>11. ASSUME NEW s \in Speed, NEW ok \in Verdicts, UnguardedAsk(s, ok) PROVE
     Measured'
  BY <1>11 DEF UnguardedAsk, Changing, FollowSpeed, Measure, Store, Judge
<1>12. ASSUME NEW blocked \in BOOLEAN, EndAdvantage(blocked) PROVE Measured'
  BY <1>12 DEF EndAdvantage, NextStep, DestinationOnEdge, Destination
<1>13. ASSUME NEW l \in 0..(lanes - 1), KeepOrChangeLane(l) PROVE Measured'
  BY <1>13 DEF KeepOrChangeLane, Changing, NextStep
<1>14. CASE UNCHANGED vars
  BY <1>14 DEF vars
<1>. QED
  BY <1>1, <1>2, <1>3, <1>4, <1>5, <1>6, <1>7, <1>8, <1>9, <1>10, <1>11, <1>12,
       <1>13, <1>14 DEF Next, Move, ChangeLane, Terminated

AskedOnly == LaneChanging => UNCHANGED <<speedVars, radarVars>>

(* No step of the lane changer changes what the model keeps, unless it asks
   unguarded. *)
LEMMA AsksStep ==
    ASSUME ~Unguarded, Shape, IgnoredWhileAsking, [Next]_vars
    PROVE  AskedOnly
<1>. USE DEF timeVars, egoVars, speedVars, radarVars, dataVars, laneVars,
     planVars, enclaveVars, AskedOnly, LaneChanging,
     IgnoredWhileAsking
<1>1. CASE ClientStep
  BY <1>1 DEF ClientStep, SetActiveController, Client, SetLaneChangeAction,
       SetFixedLane, SetLeaderInformation, SetPrecedingInformation,
       SetVehicleData, SetPosition, ResetConsensus, SetPlatoonSize
<1>2. CASE Move
  BY <1>2 DEF Move, StartStep, PlanEnds, Planning, Arrive, PlanLeader,
       FollowSpeed, Measure, Store, Judge, PlanOnward, FreeSpeed, ExecuteMove,
       MoveHelper
<1>3. CASE LaneReached
  BY <1>3 DEF LaneReached, Changing, NextStep
<1>4. CASE StartAdvantage
  BY <1>4 DEF StartAdvantage, Changing
<1>5. ASSUME NEW s \in Speed, NEW ok \in Verdicts, AskAdvantage(s, ok) PROVE AskedOnly
  BY <1>5 DEF AskAdvantage, FollowSpeed, Measure, Store, Judge
<1>6. ASSUME NEW s \in Speed, NEW ok \in Verdicts, UnguardedAsk(s, ok) PROVE AskedOnly
  BY <1>6 DEF UnguardedAsk, Changing, FollowSpeed, Measure, Store, Judge
<1>7. ASSUME NEW blocked \in BOOLEAN, EndAdvantage(blocked) PROVE AskedOnly
  BY <1>7 DEF EndAdvantage, NextStep, DestinationOnEdge, Destination
<1>8. ASSUME NEW l \in 0..(lanes - 1), KeepOrChangeLane(l) PROVE AskedOnly
  BY <1>8 DEF KeepOrChangeLane, Changing, NextStep
<1>9. CASE UNCHANGED vars
  BY <1>9 DEF vars
<1>. QED
  BY <1>1, <1>2, <1>3, <1>4, <1>5, <1>6, <1>7, <1>8, <1>9 DEF Next, ChangeLane,
       Terminated

(* nInitialized counts the other members whose data have arrived. *)
Counted == /\ initialized \subseteq 0..(nCars - 1)
           /\ nInitialized = Cardinality(initialized \ {position})

CaccComplete == caccInit => received = {"leader", "front"}

(* Data are counted once for each other member, in whatever order they arrive.
   *)
LEMMA CountedStep ==
    ASSUME ~LateData, Shape, Counted, [Next]_vars
    PROVE  Counted'
<1>. USE DEF timeVars, egoVars, speedVars, radarVars, dataVars, laneVars,
     planVars, enclaveVars, Counted, Shape, Values
<1>1. ASSUME NEW c \in Controllers, SetActiveController(c) PROVE Counted'
  BY <1>1 DEF SetActiveController, Client
<1>2. ASSUME NEW a \in {"DRIVER_CHOICE", "STAY_IN_CURRENT_LANE"},
     SetLaneChangeAction(a) PROVE Counted'
  BY <1>2 DEF SetLaneChangeAction, Client
<1>3. ASSUME NEW l \in FixedLanes, SetFixedLane(l) PROVE Counted'
  BY <1>3 DEF SetFixedLane, Client
<1>4. CASE SetLeaderInformation
  BY <1>4 DEF SetLeaderInformation, Client
<1>5. CASE SetPrecedingInformation
  BY <1>5 DEF SetPrecedingInformation, Client
<1>6. ASSUME NEW i \in Index, SetVehicleData(i) PROVE Counted'
  <2>1. /\ i \in 0..(nCars - 1) /\ nCars' = nCars /\ position' = position
        /\ initialized' = initialized \cup {i}
    BY <1>6 DEF SetVehicleData
  <2>2. IsFiniteSet(initialized \ {position})
    <3>1. IsFiniteSet(0..(nCars - 1))
      BY FS_Interval
    <3>2. (initialized \ {position}) \in SUBSET (0..(nCars - 1))
      OBVIOUS
    <3>. QED
      BY <3>1, <3>2, FS_Subset
  <2>3. CASE i \in initialized \/ i = position
    <3>1. initialized' \ {position} = initialized \ {position}
      BY <2>1, <2>3
    <3>. QED
      BY <1>6, <2>1, <2>3, <3>1 DEF SetVehicleData
  <2>4. CASE i \notin initialized /\ i # position
    <3>1. initialized' \ {position} = (initialized \ {position}) \cup {i}
      BY <2>1, <2>4
    <3>2. Cardinality(initialized' \ {position}) = nInitialized + 1
      BY <2>2, <2>4, <3>1, FS_AddElement
    <3>. QED
      BY <1>6, <2>1, <2>4, <3>1, <3>2 DEF SetVehicleData
  <2>. QED
    BY <2>3, <2>4
<1>7. ASSUME NEW i \in Index, SetPosition(i) PROVE Counted'
    BY <1>7, FS_EmptySet DEF SetPosition, ResetConsensus
<1>8. ASSUME NEW n \in 1..MaxCars, SetPlatoonSize(n) PROVE Counted'
    BY <1>8, FS_EmptySet DEF SetPlatoonSize, ResetConsensus
<1>9. CASE Move
  BY <1>9 DEF Move, StartStep, PlanEnds, Planning, Arrive, PlanLeader,
       FollowSpeed, Measure, Store, Judge, PlanOnward, FreeSpeed, ExecuteMove,
       MoveHelper
<1>10. CASE ChangeLane
  BY <1>10 DEF ChangeLane, LaneReached, Changing, NextStep, StartAdvantage,
       AskAdvantage, FollowSpeed, Measure, Store, Judge, UnguardedAsk,
       EndAdvantage, DestinationOnEdge, Destination, KeepOrChangeLane
<1>11. CASE UNCHANGED vars
  BY <1>11 DEF vars
<1>. QED
  BY <1>1, <1>2, <1>3, <1>4, <1>5, <1>6, <1>7, <1>8, <1>9, <1>10, <1>11 DEF
       Next, ClientStep, Terminated

(* CACC is initialised by whichever of its two messages comes last. *)
LEMMA CaccStep ==
    ASSUME Shape, CaccComplete, [Next]_vars
    PROVE  CaccComplete'
<1>. USE DEF timeVars, egoVars, speedVars, radarVars, dataVars, laneVars,
     planVars, enclaveVars, CaccComplete, Shape, Flags, Values
<1>1. ASSUME NEW c \in Controllers, SetActiveController(c) PROVE CaccComplete'
  BY <1>1 DEF SetActiveController, Client
<1>2. ASSUME NEW a \in {"DRIVER_CHOICE", "STAY_IN_CURRENT_LANE"},
     SetLaneChangeAction(a) PROVE CaccComplete'
  BY <1>2 DEF SetLaneChangeAction, Client
<1>3. ASSUME NEW l \in FixedLanes, SetFixedLane(l) PROVE CaccComplete'
  BY <1>3 DEF SetFixedLane, Client
<1>4. CASE SetLeaderInformation
  <2>1. received' = received \cup {"leader"} /\ caccInit' = (caccInit \/ "front" \in received)
    BY <1>4 DEF SetLeaderInformation
  <2>2. CASE caccInit
    BY <2>1, <2>2
  <2>3. CASE "front" \in received
    BY <2>1, <2>3
  <2>. QED
    BY <2>1, <2>2, <2>3, Zenon
<1>5. CASE SetPrecedingInformation
  <2>1. received' = received \cup {"front"} /\ caccInit' = (caccInit \/ "leader" \in received)
    BY <1>5 DEF SetPrecedingInformation
  <2>2. CASE caccInit
    BY <2>1, <2>2
  <2>3. CASE "leader" \in received
    BY <2>1, <2>3
  <2>. QED
    BY <2>1, <2>2, <2>3, Zenon
<1>6. ASSUME NEW i \in Index, SetVehicleData(i) PROVE CaccComplete'
  BY <1>6 DEF SetVehicleData, Client
<1>7. ASSUME NEW i \in Index, SetPosition(i) PROVE CaccComplete'
  BY <1>7 DEF SetPosition, ResetConsensus, Client
<1>8. ASSUME NEW n \in 1..MaxCars, SetPlatoonSize(n) PROVE CaccComplete'
  BY <1>8 DEF SetPlatoonSize, ResetConsensus, Client
<1>9. CASE Move
  BY <1>9 DEF Move, StartStep, PlanEnds, Planning, Arrive, PlanLeader,
       FollowSpeed, Measure, Store, Judge, PlanOnward, FreeSpeed, ExecuteMove,
       MoveHelper
<1>10. CASE ChangeLane
  BY <1>10 DEF ChangeLane, LaneReached, Changing, NextStep, StartAdvantage,
       AskAdvantage, FollowSpeed, Measure, Store, Judge, UnguardedAsk,
       EndAdvantage, DestinationOnEdge, Destination, KeepOrChangeLane
<1>11. CASE UNCHANGED vars
  BY <1>11 DEF vars
<1>. QED
  BY <1>1, <1>2, <1>3, <1>4, <1>5, <1>6, <1>7, <1>8, <1>9, <1>10, <1>11 DEF
       Next, ClientStep, Terminated

(* A lane to move to was accepted by setFixedLane. *)
TargetAccepted == laneAction = "MOVE_TO_FIXED_LANE" => fixedLane >= 0

(* On whatever edge it is used, the fixed lane is not negative. *)
LEMMA TargetStep ==
    ASSUME Shape, TargetAccepted, [Next]_vars
    PROVE  TargetAccepted'
<1>. USE DEF timeVars, egoVars, speedVars, radarVars, dataVars, laneVars,
     planVars, enclaveVars, TargetAccepted, Shape, Lanes
<1>1. ASSUME NEW c \in Controllers, SetActiveController(c) PROVE TargetAccepted'
  BY <1>1 DEF SetActiveController, Client
<1>2. ASSUME NEW a \in {"DRIVER_CHOICE", "STAY_IN_CURRENT_LANE"},
     SetLaneChangeAction(a) PROVE TargetAccepted'
  BY <1>2 DEF SetLaneChangeAction, Client
<1>3. ASSUME NEW l \in FixedLanes, SetFixedLane(l) PROVE TargetAccepted'
  BY <1>3 DEF SetFixedLane, Client
<1>4. CASE SetLeaderInformation
  BY <1>4 DEF SetLeaderInformation, Client
<1>5. CASE SetPrecedingInformation
  BY <1>5 DEF SetPrecedingInformation, Client
<1>6. ASSUME NEW i \in Index, SetVehicleData(i) PROVE TargetAccepted'
  BY <1>6 DEF SetVehicleData, Client
<1>7. ASSUME NEW i \in Index, SetPosition(i) PROVE TargetAccepted'
  BY <1>7 DEF SetPosition, ResetConsensus, Client
<1>8. ASSUME NEW n \in 1..MaxCars, SetPlatoonSize(n) PROVE TargetAccepted'
  BY <1>8 DEF SetPlatoonSize, ResetConsensus, Client
<1>9. CASE Move
  BY <1>9 DEF Move, StartStep, PlanEnds, Planning, Arrive, PlanLeader,
       FollowSpeed, Measure, Store, Judge, PlanOnward, FreeSpeed, ExecuteMove,
       MoveHelper
<1>10. CASE LaneReached
  BY <1>10 DEF LaneReached, Changing, NextStep
<1>11. CASE StartAdvantage
  BY <1>11 DEF StartAdvantage, Changing
<1>12. ASSUME NEW s \in Speed, NEW ok \in Verdicts, AskAdvantage(s, ok) PROVE
     TargetAccepted'
  BY <1>12 DEF AskAdvantage, FollowSpeed, Measure, Store, Judge
<1>13. ASSUME NEW s \in Speed, NEW ok \in Verdicts, UnguardedAsk(s, ok) PROVE
     TargetAccepted'
  BY <1>13 DEF UnguardedAsk, Changing, FollowSpeed, Measure, Store, Judge
<1>14. ASSUME NEW blocked \in BOOLEAN, EndAdvantage(blocked) PROVE TargetAccepted'
  BY <1>14 DEF EndAdvantage, NextStep, DestinationOnEdge, Destination
<1>15. ASSUME NEW l \in 0..(lanes - 1), KeepOrChangeLane(l) PROVE TargetAccepted'
  BY <1>15 DEF KeepOrChangeLane, Changing, NextStep
<1>16. CASE UNCHANGED vars
  BY <1>16 DEF vars
<1>. QED
  BY <1>1, <1>2, <1>3, <1>4, <1>5, <1>6, <1>7, <1>8, <1>9, <1>10, <1>11, <1>12,
       <1>13, <1>14, <1>15, <1>16 DEF Next, ClientStep, ChangeLane, Terminated

(* followSpeed goes before freeSpeed. *)
DrivesKept ==
    Driven /\ Automatic =>
        /\ phase = "move"
        /\ egoSpeed' = IF followSet = now THEN followSpeed ELSE freeSpeed

(* The speed that is driven is one of the two that are kept. *)
LEMMA DrivenStep ==
    ASSUME Shape, [Next]_vars
    PROVE  DrivesKept
<1>. USE DEF timeVars, egoVars, speedVars, radarVars, dataVars, laneVars,
     planVars, enclaveVars, DrivesKept, Driven, Automatic, Shape, Values
<1>1. CASE ClientStep
  BY <1>1 DEF ClientStep, SetActiveController, Client, SetLaneChangeAction,
       SetFixedLane, SetLeaderInformation, SetPrecedingInformation,
       SetVehicleData, SetPosition, ResetConsensus, SetPlatoonSize
<1>2. CASE StartStep
  BY <1>2 DEF StartStep
<1>3. CASE PlanEnds
  BY <1>3 DEF PlanEnds, Planning
<1>4. CASE Arrive
  BY <1>4 DEF Arrive
<1>5. ASSUME NEW s \in Speed, NEW ok \in Verdicts, PlanLeader(s, ok) PROVE DrivesKept
  BY <1>5 DEF PlanLeader, Planning, FollowSpeed, Measure, Store, Judge
<1>6. ASSUME NEW s \in Speed, NEW ok \in Verdicts, NEW arrives \in BOOLEAN,
     PlanOnward(s, ok, arrives) PROVE DrivesKept
  BY <1>6 DEF PlanOnward, Planning, FreeSpeed, Judge
<1>7. ASSUME NEW s \in Speed, NEW k \in EdgeLanes, NEW l \in 0..(k - 1),
     ExecuteMove(s, k, l) PROVE DrivesKept
  BY <1>7 DEF ExecuteMove, MoveHelper
<1>8. CASE ChangeLane
  BY <1>8 DEF ChangeLane, LaneReached, Changing, NextStep, StartAdvantage,
       AskAdvantage, FollowSpeed, Measure, Store, Judge, UnguardedAsk,
       EndAdvantage, DestinationOnEdge, Destination, KeepOrChangeLane
<1>9. CASE UNCHANGED vars
  BY <1>9 DEF vars
<1>. QED
  BY <1>1, <1>2, <1>3, <1>4, <1>5, <1>6, <1>7, <1>8, <1>9 DEF Next, Move,
       Terminated

-----------------------------------------------------------------------------
(* The invariants hold initially. *)
LEMMA Initially ==
    ASSUME Init
    PROVE  /\ Shape /\ IgnoredWhileAsking /\ StoredWasAllowed /\ StampsPast
           /\ PlannedNow /\ Measured /\ Counted /\ CaccComplete /\ TargetAccepted
<1>1. Shape
  <2>1. Flags
    BY Zenon DEF Init, Flags
  <2>2. Values
    BY DEF Init, Values
  <2>3. Lanes
    BY DEF Init, Lanes
  <2>. QED
    BY <2>1, <2>2, <2>3 DEF Shape
<1>2. IgnoredWhileAsking
  BY DEF Init, IgnoredWhileAsking
<1>3. StoredWasAllowed /\ TargetAccepted
  BY DEF Init, StoredWasAllowed, TargetAccepted
<1>4. StampsPast /\ PlannedNow /\ Measured
  BY DEF Init, StampsPast, PlannedNow, Measured
<1>5. Counted
  <2>1. {} \ {position} = {}
    OBVIOUS
  <2>. QED
    BY <2>1, FS_EmptySet DEF Init, Counted
<1>6. CaccComplete
  BY Zenon DEF Init, CaccComplete
<1>. QED
  BY <1>1, <1>2, <1>3, <1>4, <1>5, <1>6

(* Flags, Values and Lanes together are inductive. *)
LEMMA ShapeKept == Spec => []Shape
<1>1. Init => Shape
  BY Initially
<1>2. Shape /\ [Next]_vars => Shape'
  BY FlagsStep, ValuesStep, LanesStep DEF Shape
<1>. QED
  BY <1>1, <1>2, PTL DEF Spec

(* Every variable keeps its type, whatever the speeds, the lanes and the client. *)
THEOREM TypeCorrect == Spec => []TypeOK
<1>1. Shape => TypeOK
  <2>1. ASSUME Shape PROVE TypeOK
    <3>1. /\ ignore \in BOOLEAN /\ caccInit \in BOOLEAN
          /\ asked \in BOOLEAN /\ onward \in BOOLEAN /\ vetoed \in BOOLEAN
      BY <2>1, Zenon DEF Shape, Flags
    <3>2. Values /\ Lanes
      BY <2>1 DEF Shape
    <3>. QED
      BY <3>1, <3>2, Zenon DEF Values, Lanes, TypeOK
  <2>. QED
    BY <2>1
<1>. QED
  BY <1>1, ShapeKept, PTL

(* ignoreModifications never outlives the question of the lane changer. *)
LEMMA IgnoredKept == Spec => []IgnoredWhileAsking
<1>1. Init => IgnoredWhileAsking
  BY Initially
<1>2. Shape /\ IgnoredWhileAsking /\ [Next]_vars => IgnoredWhileAsking'
  BY IgnoredStep
<1>. QED
  BY <1>1, <1>2, ShapeKept, PTL DEF Spec

(* The time stamps are never ahead. *)
LEMMA StampsKept == Spec => []StampsPast
<1>1. Init => StampsPast
  BY Initially
<1>2. Shape /\ StampsPast /\ [Next]_vars => StampsPast'
  BY StampsStep
<1>. QED
  BY <1>1, <1>2, ShapeKept, PTL DEF Spec

(* Under automatic control moveHelper drives no speed the enclave never allowed,
   in whatever order verdicts, questions and controller changes come. *)
THEOREM ApprovedCorrect == Spec => OnlyApprovedSpeeds
<1>1. Init => StoredWasAllowed
  BY Initially
<1>2. StoredWasAllowed /\ [Next]_vars => StoredWasAllowed'
  BY AllowedStep
<1>3. Shape /\ StoredWasAllowed /\ [Next]_vars
      => [Driven /\ Automatic => egoSpeed' \in approved \cup {0}]_vars
  BY DrivenStep DEF StoredWasAllowed, DrivesKept
<1>. QED
  BY <1>1, <1>2, <1>3, ShapeKept, PTL DEF Spec, OnlyApprovedSpeeds

(* In a step without veto moveHelper drives what followSpeed computed in this step
   for the first leader if planMove asked about one, and the free speed otherwise:
   that of this step if planMove went on along the free road, and an older one
   only if it asked nothing. *)
THEOREM FreshCorrect == Spec => SpeedIsFresh
<1>1. Init => PlannedNow
  BY Initially
<1>2. Shape /\ IgnoredWhileAsking /\ StampsPast /\ PlannedNow /\ [Next]_vars
      => PlannedNow'
  BY PlannedStep
<1>3. Shape /\ PlannedNow /\ [Next]_vars
      => [Driven /\ Automatic /\ ~vetoed =>
            /\ asked => /\ followSet = now /\ followOf = "first"
                        /\ egoSpeed' = followSpeed
            /\ ~asked => egoSpeed' = freeSpeed
            /\ ~asked /\ onward => freeAt = now]_vars
  <2>1. ASSUME Shape, PlannedNow, [Next]_vars, Driven, Automatic, ~vetoed
        PROVE  /\ asked => /\ followSet = now /\ followOf = "first"
                           /\ egoSpeed' = followSpeed
               /\ ~asked => egoSpeed' = freeSpeed
               /\ ~asked /\ onward => freeAt = now
    <3>1. /\ phase = "move"
          /\ egoSpeed' = IF followSet = now THEN followSpeed ELSE freeSpeed
      BY <2>1, DrivenStep DEF DrivesKept
    <3>2. CASE asked
      BY <2>1, <3>1, <3>2 DEF PlannedNow
    <3>3. CASE ~asked
      BY <2>1, <3>1, <3>3 DEF PlannedNow, Shape, Values
    <3>. QED
      BY <3>2, <3>3
  <2>. QED
    BY <2>1
<1>. QED
  BY <1>1, <1>2, <1>3, ShapeKept, IgnoredKept, StampsKept, PTL DEF Spec, SpeedIsFresh

(* If only MSCACCLaneChanger asks during lane changes, getRadarMeasurements tells
   the client the first leader of the last step, or that there was none. *)
THEOREM RadarCorrect ==
    ASSUME ~Unguarded
    PROVE  Spec => []RadarHonest
<1>1. Init => Measured
  BY Initially
<1>2. Shape /\ IgnoredWhileAsking /\ StampsPast /\ Measured /\ [Next]_vars
      => Measured'
  BY MeasuredStep
<1>3. Shape /\ Measured => RadarHonest
  <2>1. ASSUME Shape, Measured, phase = "traci", radarTime # 0
        PROVE  /\ RadarValid <=> asked
               /\ RadarValid => radarOf = "first"
    <3>1. CASE asked
      BY <2>1, <3>1 DEF Shape, Values, Measured, RadarValid
    <3>2. CASE ~asked
      BY <2>1, <3>2 DEF Shape, Values, Measured, RadarValid
    <3>. QED
      BY <3>1, <3>2
  <2>. QED
    BY <2>1 DEF RadarHonest
<1>. QED
  BY <1>1, <1>2, <1>3, ShapeKept, IgnoredKept, StampsKept, PTL DEF Spec

(* Under the same assumption a lane change leaves the radar and the stored speeds
   as they are. *)
THEOREM OnlyAsksCorrect ==
    ASSUME ~Unguarded
    PROVE  Spec => LaneChangerOnlyAsks
<1>1. Shape /\ IgnoredWhileAsking /\ [Next]_vars
      => [LaneChanging => UNCHANGED <<speedVars, radarVars>>]_vars
  BY AsksStep DEF AskedOnly
<1>. QED
  BY <1>1, ShapeKept, IgnoredKept, PTL DEF Spec, LaneChangerOnlyAsks

(* If data only come from members of the platoon, a controller that sees nCars - 1
   counted has the data of all the others, and CACC both of its messages. *)
THEOREM DataCorrect ==
    ASSUME ~LateData
    PROVE  Spec => []DataBeforeUse
<1>1. Init => Counted /\ CaccComplete
  BY Initially
<1>2. Shape /\ Counted /\ [Next]_vars => Counted'
  BY CountedStep
<1>3. Shape /\ CaccComplete /\ [Next]_vars => CaccComplete'
  BY CaccStep
<1>4. Shape /\ Counted /\ CaccComplete => DataBeforeUse
  <2>1. ASSUME Shape, Counted, nInitialized = nCars - 1, position \in 0..(nCars - 1)
        PROVE  Others \subseteq initialized
    <3>1. nCars \in Nat \ {0}
      BY <2>1 DEF Shape, Values
    <3>2. IsFiniteSet(0..(nCars - 1)) /\ Cardinality(0..(nCars - 1)) = nCars
      BY <3>1, FS_Interval
    <3>3. IsFiniteSet(Others) /\ Cardinality(Others) = nCars - 1
      <4>. DEFINE M == 0..(nCars - 1)
      <4>1. IsFiniteSet(M) /\ Cardinality(M) = nCars /\ position \in M
        BY <2>1, <3>2
      <4>. HIDE DEF M
      <4>2. /\ IsFiniteSet(M \ {position})
            /\ Cardinality(M \ {position}) = Cardinality(M) - 1
        BY <4>1, FS_RemoveElement
      <4>. QED
        BY <4>1, <4>2 DEF Others, M
    <3>4. (initialized \ {position}) \in SUBSET Others
      BY <2>1 DEF Counted, Others
    <3>5. Cardinality(Others) = Cardinality(initialized \ {position})
      BY <2>1, <3>3 DEF Counted
    <3>6. Others = initialized \ {position}
      BY <3>3, <3>4, <3>5, FS_Subset
    <3>. QED
      BY <3>6
  <2>. QED
    BY <2>1, Zenon DEF DataBeforeUse, CaccComplete
<1>. QED
  BY <1>1, <1>2, <1>3, <1>4, ShapeKept, PTL DEF Spec

(* On whatever edge the client chose a lane of the usual road, the assertion of
   MSCACCLaneChanger::change does not fail on an edge with no fewer lanes than
   that road. *)
THEOREM DestinationCorrect == Spec => []DestinationExists
<1>1. Init => TargetAccepted
  BY Initially
<1>2. Shape /\ TargetAccepted /\ [Next]_vars => TargetAccepted'
  BY TargetStep
<1>3. Shape /\ TargetAccepted => DestinationExists
  BY DEF UsualLanes, Shape, Lanes, TargetAccepted, DestinationExists, MovesToFixedLane, DestinationOnEdge, Destination
<1>. QED
  BY <1>1, <1>2, <1>3, ShapeKept, PTL DEF Spec
=============================================================================
