------------------------- MODULE PlatoonController -------------------------
(***************************************************************************)
(* One vehicle with the Plexe car-following model (MSCFModel_CC), the      *)
(* enclave that checks its speeds and the lane changer that obeys its      *)
(* platoon manager (MSCACCLaneChanger).  In every step the TraCI client    *)
(* sends its commands, MSVehicle::planMove asks the model for speeds lane  *)
(* by lane, moveHelper picks the speed that is driven and the lane changer *)
(* may ask the model again.                                                *)
(*                                                                         *)
(* Definitions named X_Y are altered forms of the definition X after them, *)
(* with the mistake Y; no specification uses them.                         *)
(*                                                                         *)
(* One unit of "now" is DELTA_T.  The control laws are abstracted: a speed *)
(* is any element of Speed; what is kept is which call computed it, for    *)
(* which leader, and what the enclave said.                                *)
(***************************************************************************)
EXTENDS Integers, FiniteSets

CONSTANTS
    Speed,          \* speeds the control laws and the engine may yield
    MaxCars,        \* MAX_N_CARS
    LanesCount,     \* myLanesCount, the lanesCount attribute of the model
    EdgeLanes,      \* numbers of lanes the edges of the route may have
    FixedLanes,     \* lanes the client asks for
    ClientCommands, \* what the client sends
    Verdicts,       \* what the enclave may answer
    Unguarded,      \* followSpeed is also called by lane changes of the driver and
                    \* of neighbours, which do not set ignoreModifications
    LateData,       \* data of a vehicle beyond the current platoon size may arrive
    Horizon         \* bound: the vehicle arrives at this time at the latest

Controllers == {"DRIVER", "ACC", "CACC", "FAKED_CACC", "PLOEG", "CONSENSUS"}
Commands == {"controller", "action", "fixedLane", "position", "size", "data",
             "leader", "preceding"}

ASSUME ConstantsAssumption ==
    /\ Speed \subseteq Nat
    /\ MaxCars \in Nat \ {0} /\ LanesCount \in Nat \ {0}
    /\ EdgeLanes \subseteq Nat \ {0} /\ EdgeLanes # {}
    /\ FixedLanes \subseteq Int
    /\ ClientCommands \subseteq Commands
    /\ Verdicts \subseteq BOOLEAN
    /\ Unguarded \in BOOLEAN /\ LateData \in BOOLEAN
    /\ Horizon \in Nat

Index == 0..(MaxCars - 1)

VARIABLES
    now, phase,
    controller,      \* activeController
    ignore,          \* ignoreModifications
    egoSpeed, egoUpdated,            \* egoSpeed, egoDataLastUpdate
    followSpeed, followSet,          \* controllerFollowSpeed, followSpeedSetTime
    freeSpeed,                       \* controllerFreeSpeed
    radarTime, radarOf,              \* radarLastUpdate; whose distance was measured
    received,                        \* leaderInitialized, frontInitialized
    caccInit,                        \* caccInitialized
    position, nCars,
    initialized, nInitialized,
    laneAction, fixedLane,           \* laneChangeAction, fixedLane
    lane, lanes,                     \* lane index and number of lanes of the edge
    asked,           \* planMove has asked followSpeed about a leader in this step
    onward,          \* it has asked freeSpeed in this step
    approved,        \* history: speeds the enclave has allowed
    vetoed,          \* history: the enclave has refused a speed in this step
    followOf,        \* history: the leader followSpeed was computed for
    freeAt           \* history: when freeSpeed was computed

timeVars  == <<now, phase>>
egoVars   == <<egoSpeed, egoUpdated>>
speedVars == <<followSpeed, followSet, followOf, freeSpeed, freeAt>>
radarVars == <<radarTime, radarOf>>
dataVars  == <<received, caccInit, position, nCars, initialized, nInitialized>>
laneVars  == <<laneAction, fixedLane, lane, lanes>>
planVars  == <<asked, onward>>
enclaveVars == <<approved, vetoed>>
vars == <<timeVars, controller, ignore, egoVars, speedVars, radarVars,
          dataVars, laneVars, planVars, enclaveVars>>
-----------------------------------------------------------------------------
(* What the client does between the steps. *)

Client(command) == phase = "traci" /\ command \in ClientCommands

(* switchOnACC is the case c = "ACC". *)
SetActiveController(c) ==
    /\ Client("controller")
    /\ controller' = c
    /\ UNCHANGED <<timeVars, ignore, egoVars, speedVars, radarVars, dataVars,
                   laneVars, planVars, enclaveVars>>

(* TraCI lets the client choose between these two only. *)
SetLaneChangeAction(a) ==
    /\ Client("action")
    /\ a \in {"DRIVER_CHOICE", "STAY_IN_CURRENT_LANE"}
    /\ laneAction' = a
    /\ UNCHANGED <<timeVars, controller, ignore, egoVars, speedVars, radarVars,
                   dataVars, fixedLane, lane, lanes, planVars, enclaveVars>>

(* A negative lane is refused, too: it is compared as an unsigned number. *)
SetFixedLane_SignedCompare(l) ==
    /\ Client("fixedLane")
    /\ l < lanes
    /\ fixedLane' = l
    /\ laneAction' = "MOVE_TO_FIXED_LANE"
    /\ UNCHANGED <<timeVars, controller, ignore, egoVars, speedVars, radarVars,
                   dataVars, lane, lanes, planVars, enclaveVars>>
SetFixedLane(l) ==
    /\ Client("fixedLane")
    /\ l >= 0 /\ l < lanes
    /\ fixedLane' = l
    /\ laneAction' = "MOVE_TO_FIXED_LANE"
    /\ UNCHANGED <<timeVars, controller, ignore, egoVars, speedVars, radarVars,
                   dataVars, lane, lanes, planVars, enclaveVars>>

SetLeaderInformation ==
    /\ Client("leader")
    /\ received' = received \cup {"leader"}
    /\ caccInit' = (caccInit \/ "front" \in received)
    /\ UNCHANGED <<timeVars, controller, ignore, egoVars, speedVars, radarVars,
                   position, nCars, initialized, nInitialized, laneVars,
                   planVars, enclaveVars>>

SetPrecedingInformation ==
    /\ Client("preceding")
    /\ received' = received \cup {"front"}
    /\ caccInit' = (caccInit \/ "leader" \in received)
    /\ UNCHANGED <<timeVars, controller, ignore, egoVars, speedVars, radarVars,
                   position, nCars, initialized, nInitialized, laneVars,
                   planVars, enclaveVars>>

(* CC_SET_VEHICLE_DATA for the vehicle i of the platoon. *)
SetVehicleData(i) ==
    /\ Client("data")
    /\ LateData \/ i < nCars
    /\ nInitialized' = IF i \notin initialized /\ i # position
                       THEN nInitialized + 1 ELSE nInitialized
    /\ initialized' = initialized \cup {i}
    /\ UNCHANGED <<timeVars, controller, ignore, egoVars, speedVars, radarVars,
                   received, caccInit, position, nCars, laneVars, planVars,
                   enclaveVars>>

ResetConsensus == initialized' = {} /\ nInitialized' = 0

SetPosition_KeepsData(p) ==
    /\ Client("position")
    /\ position' = p
    /\ UNCHANGED <<initialized, nInitialized>>
    /\ UNCHANGED <<timeVars, controller, ignore, egoVars, speedVars, radarVars,
                   received, caccInit, nCars, laneVars, planVars, enclaveVars>>
SetPosition(p) ==
    /\ Client("position")
    /\ position' = p
    /\ ResetConsensus
    /\ UNCHANGED <<timeVars, controller, ignore, egoVars, speedVars, radarVars,
                   received, caccInit, nCars, laneVars, planVars, enclaveVars>>

SetPlatoonSize(n) ==
    /\ Client("size")
    /\ nCars' = n
    /\ ResetConsensus
    /\ UNCHANGED <<timeVars, controller, ignore, egoVars, speedVars, radarVars,
                   received, caccInit, position, laneVars, planVars, enclaveVars>>
-----------------------------------------------------------------------------
(* MSCFModel_CC::followSpeed for the leader who: s is the speed _v computes
   from the control law and the engine, ok the verdict of the enclave.  The
   status of the enclave call is not read; a failed one leaves the verdict
   uninitialised, hence arbitrary.

   ignoreModifications protects the radar and the stored speeds only.  What _v
   writes all the same is scratch data that no property here is about, and is
   left out: the ACC acceleration a FAKED_CACC reports, the vehicle's own entry
   in the data of its platoon (CONSENSUS) and the gear, the last two of which
   every call sets anew before it reads them. *)
Measure(who) == IF radarTime # now /\ ~ignore
                THEN radarTime' = now /\ radarOf' = who
                ELSE UNCHANGED radarVars

Judge(s, ok) == /\ approved' = IF ok THEN approved \cup {s} ELSE approved
                /\ vetoed' = (vetoed \/ ~ok)

Store_WhileIgnoring(who, s, ok) ==
    IF ok /\ followSet # now
    THEN followSpeed' = s /\ followSet' = now /\ followOf' = who
    ELSE UNCHANGED <<followSpeed, followSet, followOf>>
Store_EveryCall(who, s, ok) ==
    IF ok /\ ~ignore
    THEN followSpeed' = s /\ followSet' = now /\ followOf' = who
    ELSE UNCHANGED <<followSpeed, followSet, followOf>>
Store(who, s, ok) ==
    IF ok /\ followSet # now /\ ~ignore
    THEN followSpeed' = s /\ followSet' = now /\ followOf' = who
    ELSE UNCHANGED <<followSpeed, followSet, followOf>>

FollowSpeed(who, s, ok) ==
    /\ Measure(who)
    /\ IF controller = "DRIVER"
       THEN UNCHANGED <<followSpeed, followSet, followOf, enclaveVars>>
       ELSE Store(who, s, ok) /\ Judge(s, ok)
    /\ UNCHANGED <<freeSpeed, freeAt>>

(* MSCFModel_CC::freeSpeed: other than in followSpeed, the last call counts. *)
FreeSpeed_Vetoed(s, ok) ==
    /\ IF controller = "DRIVER"
       THEN UNCHANGED <<freeSpeed, freeAt, enclaveVars>>
       ELSE /\ freeSpeed' = s /\ freeAt' = now
            /\ Judge(s, ok)
    /\ UNCHANGED <<followSpeed, followSet, followOf>>
FreeSpeed(s, ok) ==
    /\ IF controller = "DRIVER"
       THEN UNCHANGED <<freeSpeed, freeAt, enclaveVars>>
       ELSE /\ IF ok /\ ~ignore THEN freeSpeed' = s /\ freeAt' = now
                                ELSE UNCHANGED <<freeSpeed, freeAt>>
            /\ Judge(s, ok)
    /\ UNCHANGED <<followSpeed, followSet, followOf>>
-----------------------------------------------------------------------------
(* MSVehicle::planMoveInternal looks at one lane after the other: at leaders on
   the lane, on its shadow lane and on the link behind it, at a stop, a red
   light or the end of the road, and at the next lane. *)
Planning == phase = "plan" /\ UNCHANGED <<now, controller, ignore, egoVars,
                                          dataVars, laneVars>>

StartStep ==
    /\ phase = "traci"
    /\ phase' = "plan"
    /\ asked' = FALSE /\ onward' = FALSE /\ vetoed' = FALSE
    /\ UNCHANGED <<now, controller, ignore, egoVars, speedVars, radarVars,
                   dataVars, laneVars, approved>>

(* adaptToLeader for a leader with a gap.  Without a gap it is stopSpeed that is
   asked, which keeps no state. *)
PlanLeader(s, ok) ==
    /\ Planning
    /\ FollowSpeed(IF asked THEN "later" ELSE "first", s, ok)
    /\ asked' = TRUE
    /\ UNCHANGED <<phase, onward>>

(* The next lane, or the end of the route on this one. *)
PlanOnward(s, ok, arrives) ==
    /\ Planning
    /\ FreeSpeed(s, ok)
    /\ onward' = TRUE
    /\ phase' = IF arrives THEN "move" ELSE "plan"
    /\ UNCHANGED <<radarVars, asked>>

(* A stop, a red light, a dead end (on the first lane, too: then freeSpeed is
   not asked at all), or it is far enough away. *)
PlanEnds ==
    /\ Planning
    /\ phase' = "move"
    /\ UNCHANGED <<radarVars, speedVars, enclaveVars, planVars>>

(* moveHelper: the speed to drive.  The edge may change with the move, and with
   it the number and the index of the lane. *)
MoveHelper(s) ==
    CASE controller = "DRIVER" -> s
      [] controller # "DRIVER" /\ followSet = now -> followSpeed
      [] OTHER -> freeSpeed

ExecuteMove(s, k, l) ==
    /\ phase = "move" /\ now < Horizon
    /\ k = lanes \/ k \in EdgeLanes
    /\ l \in 0..(k - 1)
    /\ egoSpeed' = MoveHelper(s)
    /\ egoUpdated' = now
    /\ lanes' = k /\ lane' = l
    /\ phase' = "change"
    /\ UNCHANGED <<now, controller, ignore, speedVars, radarVars, dataVars,
                   laneAction, fixedLane, planVars, enclaveVars>>

Arrive ==
    /\ phase = "move"
    /\ phase' = "gone"
    /\ UNCHANGED <<now, controller, ignore, egoVars, speedVars, radarVars,
                   dataVars, laneVars, planVars, enclaveVars>>
-----------------------------------------------------------------------------
(* MSCACCLaneChanger::change.  On an edge with more or fewer lanes than usual
   the lanes are counted from the left. *)
Destination == fixedLane + (lanes - LanesCount)

(* On an edge with one lane there is no lane changer. *)
MovesToFixedLane == laneAction = "MOVE_TO_FIXED_LANE" /\ lanes > 1

(* assert(destination < ...getLanes().size() && destination >= 0): where it fails
   the program ends.  What a build without assertions does is left out. *)
DestinationOnEdge == Destination \in 0..(lanes - 1)

Changing == phase = "change" /\ UNCHANGED <<controller, egoVars, dataVars,
                                            fixedLane, lanes, planVars>>

NextStep == phase' = "traci" /\ now' = now + 1

(* The lane is reached, ... *)
LaneReached ==
    /\ Changing
    /\ MovesToFixedLane /\ lane = Destination
    /\ laneAction' = "STAY_IN_CURRENT_LANE"
    /\ NextStep
    /\ UNCHANGED <<ignore, speedVars, radarVars, lane, enclaveVars>>

(* ... or the neighbour lane in its direction is looked at.  Where there is no
   such lane for the vehicle class nothing is asked. *)
StartAdvantage_NotIgnored ==
    /\ Changing
    /\ MovesToFixedLane /\ lane # Destination
    /\ DestinationOnEdge
    /\ phase' = "advantage"
    /\ UNCHANGED <<now, ignore, speedVars, radarVars, laneAction, lane, enclaveVars>>
StartAdvantage ==
    /\ Changing
    /\ MovesToFixedLane /\ lane # Destination
    /\ DestinationOnEdge
    /\ phase' = "advantage"
    /\ ignore' = TRUE
    /\ UNCHANGED <<now, speedVars, radarVars, laneAction, lane, enclaveVars>>

AskAdvantage(s, ok) ==
    /\ phase = "advantage"
    /\ FollowSpeed("beside", s, ok)
    /\ UNCHANGED <<timeVars, controller, ignore, egoVars, dataVars, laneVars,
                   planVars>>

EndAdvantage_WrongWay(blocked) ==
    /\ phase = "advantage"
    /\ ignore' = FALSE
    /\ lane' = IF blocked THEN lane
               ELSE IF lane < Destination THEN lane - 1 ELSE lane + 1
    /\ NextStep
    /\ UNCHANGED <<controller, egoVars, speedVars, radarVars, dataVars,
                   laneAction, fixedLane, lanes, planVars, enclaveVars>>
EndAdvantage(blocked) ==
    /\ phase = "advantage"
    /\ ignore' = FALSE
    /\ lane' = IF blocked THEN lane
               ELSE IF lane < Destination THEN lane + 1 ELSE lane - 1
    /\ NextStep
    /\ UNCHANGED <<controller, egoVars, speedVars, radarVars, dataVars,
                   laneAction, fixedLane, lanes, planVars, enclaveVars>>

(* Nothing to do, the vehicle is still changing lanes, the neighbour lane is
   forbidden, or the driver changes the lane. *)
KeepOrChangeLane(l) ==
    /\ Changing
    /\ l \in 0..(lanes - 1) /\ l - lane \in {-1, 0, 1}
    /\ laneAction # "DRIVER_CHOICE" => l = lane
    /\ lane' = l
    /\ NextStep
    /\ UNCHANGED <<ignore, speedVars, radarVars, laneAction, enclaveVars>>

(* A lane change of the driver (MSLaneChanger::change) asks the model of the
   vehicle, and one of a neighbour that of its follower, without
   setIgnoreModifications. *)
UnguardedAsk(s, ok) ==
    /\ Unguarded
    /\ Changing
    /\ FollowSpeed("beside", s, ok)
    /\ UNCHANGED <<timeVars, ignore, laneAction, lane>>
-----------------------------------------------------------------------------
(* The vehicle was inserted at the end of the step before. *)
Init ==
    /\ now = 1 /\ phase = "traci"
    /\ controller = "DRIVER" /\ ignore = FALSE
    /\ egoSpeed = 0 /\ egoUpdated = 0
    /\ followSpeed = 0 /\ followSet = 0 /\ followOf = "none"
    /\ freeSpeed = 0 /\ freeAt = 0
    /\ radarTime = 0 /\ radarOf = "none"
    /\ received = {} /\ caccInit = FALSE
    /\ position = -1 /\ nCars = MaxCars
    /\ initialized = {} /\ nInitialized = 0
    /\ laneAction = "DRIVER_CHOICE" /\ fixedLane = -1
    /\ lanes \in EdgeLanes /\ lane \in 0..(lanes - 1)
    /\ asked = FALSE /\ onward = FALSE
    /\ approved = {} /\ vetoed = FALSE

ClientStep == \/ \E c \in Controllers : SetActiveController(c)
              \/ \E a \in {"DRIVER_CHOICE", "STAY_IN_CURRENT_LANE"} :
                    SetLaneChangeAction(a)
              \/ \E l \in FixedLanes : SetFixedLane(l)
              \/ SetLeaderInformation \/ SetPrecedingInformation
              \/ \E i \in Index : SetVehicleData(i) \/ SetPosition(i)
              \/ \E n \in 1..MaxCars : SetPlatoonSize(n)

Move == \/ StartStep \/ PlanEnds \/ Arrive
        \/ \E s \in Speed, ok \in Verdicts : \/ PlanLeader(s, ok)
                                          \/ PlanOnward(s, ok, TRUE)
                                          \/ PlanOnward(s, ok, FALSE)
        \/ \E s \in Speed, k \in EdgeLanes : \E l \in 0..(k - 1) :
              ExecuteMove(s, k, l)

ChangeLane == \/ LaneReached \/ StartAdvantage
              \/ \E s \in Speed, ok \in Verdicts : \/ AskAdvantage(s, ok)
                                                \/ UnguardedAsk(s, ok)
              \/ \E blocked \in BOOLEAN : EndAdvantage(blocked)
              \/ \E l \in 0..(lanes - 1) : KeepOrChangeLane(l)

Terminated == phase = "gone" /\ UNCHANGED vars

Next == ClientStep \/ Move \/ ChangeLane \/ Terminated

Spec == Init /\ [][Next]_vars
-----------------------------------------------------------------------------
Origins == {"none", "first", "later", "beside"}

(* Every variable keeps its type. *)
TypeOK ==
    /\ now \in Nat \ {0}
    /\ phase \in {"traci", "plan", "move", "change", "advantage", "gone"}
    /\ controller \in Controllers /\ ignore \in BOOLEAN
    /\ egoSpeed \in Speed \cup {0} /\ egoUpdated \in Nat
    /\ followSpeed \in Speed \cup {0} /\ followSet \in Nat /\ followOf \in Origins
    /\ freeSpeed \in Speed \cup {0} /\ freeAt \in Nat
    /\ radarTime \in Nat /\ radarOf \in Origins
    /\ received \subseteq {"leader", "front"} /\ caccInit \in BOOLEAN
    /\ position \in Index \cup {-1} /\ nCars \in 1..MaxCars
    /\ initialized \subseteq Index /\ nInitialized \in Nat
    /\ laneAction \in {"DRIVER_CHOICE", "STAY_IN_CURRENT_LANE", "MOVE_TO_FIXED_LANE"}
    /\ fixedLane \in Int
    /\ lanes \in EdgeLanes /\ lane \in 0..(lanes - 1)
    /\ asked \in BOOLEAN /\ onward \in BOOLEAN
    /\ approved \subseteq Speed /\ vetoed \in BOOLEAN

Automatic == controller # "DRIVER"
Driven == egoUpdated' # egoUpdated  \* moveHelper was called

(* Under automatic control moveHelper returns no speed that the enclave never
   allowed, however its verdicts, the calls of followSpeed and freeSpeed and the
   changes of the controller fall together; only the initial 0 needs no
   permission. *)
OnlyApprovedSpeeds ==
    [][Driven /\ Automatic => egoSpeed' \in approved \cup {0}]_vars

(* In a step without veto planMove decides what is driven: if it asked about a
   leader, the speed computed in this step for the first one; if it only went on
   along the free road, the speed computed in this step for that.  What a later
   leader, a lane change or an earlier step left behind is not driven.  One case
   is excluded because the code has no fresh speed there: with a stop or a red
   light on the first lane planMove asks nothing, and moveHelper drives the free
   speed of an older step - but still that one and no older followSpeed. *)
SpeedIsFresh ==
    [][Driven /\ Automatic /\ ~vetoed =>
          /\ asked => /\ followSet = now /\ followOf = "first"
                      /\ egoSpeed' = followSpeed
          /\ ~asked => egoSpeed' = freeSpeed
          /\ ~asked /\ onward => freeAt = now]_vars

(* getRadarMeasurements reports what it did not measure as "no vehicle". *)
RadarValid == now = radarTime + 1

(* What the client reads as radar data between the steps is the distance of the
   leader the vehicle had in the last step: it is valid exactly if there was
   one.  (The initial time stamp 0 is left out; at the time DELTA_T it counts as
   a measurement.) *)
RadarHonest ==
    phase = "traci" /\ radarTime # 0 =>
        /\ RadarValid <=> asked
        /\ RadarValid => radarOf = "first"

LaneChanging == phase \in {"change", "advantage"}

(* The lane changer only wants to know what it would gain: "the state of the
   vehicle should not be changed" (CC_VehicleVariables.h).  As far as the code
   guards it that holds: a question of the lane changer leaves the radar and the
   stored speeds as they are, whatever the controller and the verdict.  The
   scratch data named above FollowSpeed are not part of the claim: they do
   change. *)
LaneChangerOnlyAsks ==
    [][LaneChanging => UNCHANGED <<speedVars, radarVars>>]_vars

Others == (0..(nCars - 1)) \ {position}

(* The controllers use platoon data only once all they need has arrived, in
   whatever order: CACC that of the leader and the vehicle in front, CONSENSUS
   that of every other member of the platoon. *)
DataBeforeUse ==
    /\ caccInit => received = {"leader", "front"}
    /\ nInitialized = nCars - 1 /\ position \in 0..(nCars - 1) =>
          Others \subseteq initialized

(* Both sides of the lane arithmetic are the usual ones: the client asked for a
   lane of the usual road, and the edge has no fewer lanes than that. *)
UsualLanes == fixedLane < LanesCount /\ LanesCount <= lanes

(* A lane that the client asked for on one edge exists on every other edge where
   the vehicle is to change to it, if UsualLanes holds there: the assertion in
   MSCACCLaneChanger::change does not fail.  Outside UsualLanes it does.  A lane
   accepted on a wider edge may lie left of the road,
   and on a narrower edge the destination may be negative, as the comment above
   the assertion says; both happen in the run and are excluded by name. *)
DestinationExists ==
    phase = "change" /\ MovesToFixedLane /\ UsualLanes => DestinationOnEdge

(* "Don't set the change and return the current speed": when the enclave refused
   every speed of this step the vehicle keeps the one it has. *)
VetoKeepsSpeed ==
    [][Driven /\ Automatic /\ vetoed /\ followSet # now /\ freeAt # now =>
          egoSpeed' = egoSpeed]_vars
=============================================================================
