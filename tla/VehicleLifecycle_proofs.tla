----------------------- MODULE VehicleLifecycle_proofs -----------------------
(***************************************************************************)
(* Theorems about VehicleLifecycle for every network demand, every number  *)
(* of vehicles and every value of the options.                             *)
(***************************************************************************)
EXTENDS VehicleLifecycle, SequenceLemmas, FiniteSetTheorems, TLAPS

-----------------------------------------------------------------------------
(* Type correctness. *)

(* The ids a repetition of a flow uses are vehicle ids. *)
LEMMA FlowIdType ==
    ASSUME NEW f \in Flow, NEW n \in Nat, NEW q \in Nat, n + q <= Len(FlowVeh[f])
    PROVE  \A i \in 1..q : n + i \in 1..Len(FlowVeh[f]) /\ FlowVeh[f][n + i] \in Veh
<1>1. FlowVeh[f] \in Seq(Veh) /\ Len(FlowVeh[f]) \in Nat
  BY ConstantsAssumption, LenProperties
<1>2. \A i \in 1..q : n + i \in 1..Len(FlowVeh[f])
  BY <1>1
<1>3. QED  BY <1>1, <1>2, ElementOfSeq

(* The record of a flow keeps its type when a repetition is done. *)
LEMMA RepeatedType ==
    ASSUME TypeOK, NEW f \in Flow, NEW q \in Nat, NEW v \in Veh \cup {None}
    PROVE  Repeated(f, q, v) \in [Flow -> [active : BOOLEAN, vehicle : Veh \cup {None},
                                           done : Nat, index : Nat]]
  BY DEF TypeOK, Repeated

(* leaveLane keeps the types of what it clears. *)
LEMMA ResumeType ==
    ASSUME TypeOK, NEW v \in Veh, ResumeFromStopping(v)
    PROVE  /\ stop' \in [Veh -> {"none", "ahead", "reached", "boarded"}]
           /\ registered' \subseteq Veh /\ waiting' \subseteq Veh
           /\ personWait' \in Int
<1>1. stop' \in [Veh -> {"none", "ahead", "reached", "boarded"}]
  BY DEF TypeOK, ResumeFromStopping
<1>2. personWait' \in Int
  BY DEF TypeOK, ResumeFromStopping
<1>3. registered' \subseteq Veh /\ waiting' \subseteq Veh
  BY DEF TypeOK, ResumeFromStopping
<1>4. QED  BY <1>1, <1>2, <1>3

(* A vehicle that leaves its lane keeps the lists of waiting vehicles well typed. *)
LEMMA LeaveLaneType ==
    ASSUME TypeOK, NEW v \in Veh, LeaveLane(v)
    PROVE  /\ stop' \in [Veh -> {"none", "ahead", "reached", "boarded"}]
           /\ registered' \subseteq Veh /\ waiting' \subseteq Veh
           /\ personWait' \in Int
  BY ResumeType DEF TypeOK, LeaveLane, stopVars

(* Unblocking a flow keeps the flows well typed. *)
LEMMA CheckFlowWaitType ==
    ASSUME TypeOK, NEW v \in Veh, CheckFlowWait(v)
    PROVE  flow' \in [Flow -> [active : BOOLEAN, vehicle : Veh \cup {None},
                               done : Nat, index : Nat]]
<1>1. flow \in [Flow -> [active : BOOLEAN, vehicle : Veh \cup {None},
                        done : Nat, index : Nat]]
  BY DEF TypeOK
<1>2. ASSUME NEW f \in Flow
      PROVE  [flow[f] EXCEPT !.vehicle = None]
                \in [active : BOOLEAN, vehicle : Veh \cup {None}, done : Nat, index : Nat]
  BY <1>1
<1>3. QED  BY <1>1, <1>2 DEF CheckFlowWait

(* Every variable keeps its type. *)
THEOREM TypeCorrect == Spec => []TypeOK
<1>1. Init => TypeOK
  BY ConstantsAssumption DEF Init, TypeOK, Phases
<1>2. TypeOK /\ [Next]_vars => TypeOK'
  <2> SUFFICES ASSUME TypeOK, [Next]_vars  PROVE TypeOK'
    OBVIOUS
  <2> USE DEF TypeOK, Phases, counterVars, emitVars, flowVars, transferVars,
              stopVars, loaderVars, timeVars
  <2>1. CASE Client
    <3>1. ASSUME NEW v \in Veh, NEW d \in (now..Horizon) \cup {-1}, TraciAdd(v, d)
          PROVE  TypeOK'
      <4>1. d \in Int
        OBVIOUS
      <4>2. QED  BY <3>1, <4>1 DEF TraciAdd, Build
    <3>2. ASSUME NEW v \in Veh, TraciRemove(v)  PROVE TypeOK'
      <4>1. LeaveLane(v)
        BY <3>2 DEF TraciRemove, OnRemovalFromNet
      <4>2. QED
        BY <3>2, <4>1, LeaveLaneType
           DEF TraciRemove, OnRemovalFromNet, ScheduleVehicleRemoval
    <3>3. ASSUME NEW v \in Veh, TraciMoveTo(v)  PROVE TypeOK'
      <4>1. LeaveLane(v)
        BY <3>3 DEF TraciMoveTo, OnRemovalFromNet
      <4>2. QED
        BY <3>3, <4>1, LeaveLaneType
           DEF TraciMoveTo, OnRemovalFromNet, EnterLane
    <3>4. ASSUME NEW i \in DOMAIN pending, TraciClearPending(i)  PROVE TypeOK'
      <4>1. RemoveAt(pending, i) \in Seq(Veh)
        BY RemoveAtElements
      <4>2. QED  BY <3>4, <4>1 DEF TraciClearPending, DiscardVehicle
    <3>5. ASSUME TraciAddInvalid  PROVE TypeOK'
      BY <3>5 DEF TraciAddInvalid
    <3>6. ASSUME TraciClose  PROVE TypeOK'
      BY <3>6 DEF TraciClose
    <3>7. QED  BY <2>1, <3>1, <3>2, <3>3, <3>4, <3>5, <3>6 DEF Client
  <2>2. CASE Traffic
    <3>1. ASSUME NEW v \in Veh, Leave(v)  PROVE TypeOK'
      <4>1. LeaveLane(v)
        BY <3>1 DEF Leave, OnRemovalFromNet
      <4>2. QED
        BY <3>1, <4>1, LeaveLaneType
           DEF Leave, OnRemovalFromNet, ScheduleVehicleRemoval
    <3>2. ASSUME NEW v \in Veh, ReachStop(v)  PROVE TypeOK'
      BY <3>2 DEF ReachStop
    <3>3. ASSUME NEW v \in Veh, Park(v)  PROVE TypeOK'
      BY <3>3 DEF Park
    <3>4. ASSUME NEW v \in Veh, Teleport(v)  PROVE TypeOK'
      BY <3>4, LeaveLaneType DEF Teleport
    <3>12. ASSUME NEW v \in Veh, TeleportOnLastEdge(v)  PROVE TypeOK'
      <4>1. LeaveLane(v)
        BY <3>12 DEF TeleportOnLastEdge, OnRemovalFromNet
      <4>2. QED
        BY <3>12, <4>1, LeaveLaneType
           DEF TeleportOnLastEdge, OnRemovalFromNet, ScheduleVehicleRemoval
    <3>5. ASSUME NEW v \in Veh, NEW b \in BOOLEAN, WaitAtStop(v, b)  PROVE TypeOK'
      <4>1. personWait' \in Int
        BY <3>5 DEF WaitAtStop
      <4>2. /\ registered' \subseteq Veh
            /\ stop' \in [Veh -> {"none", "ahead", "reached", "boarded"}]
        BY <3>5 DEF WaitAtStop
      <4>3. QED  BY <3>5, <4>1, <4>2 DEF WaitAtStop
    <3>6. ASSUME NEW v \in Veh, NEW b \in BOOLEAN, LeaveStop(v, b)  PROVE TypeOK'
      BY <3>6, ResumeType DEF LeaveStop
    <3>7. ASSUME NEW v \in Veh, TeleportEnds(v)  PROVE TypeOK'
      BY <3>7 DEF TeleportEnds
    <3>8. ASSUME NEW v \in Veh, TeleportBeyondArrival(v)  PROVE TypeOK'
      BY <3>8, LeaveLaneType DEF TeleportBeyondArrival, ScheduleVehicleRemoval
    <3>9. ASSUME NEW v \in Veh, ParkingEnds(v)  PROVE TypeOK'
      BY <3>9 DEF ParkingEnds
    <3>10. ASSUME NEW e \in Edge, Vaporization(e)  PROVE TypeOK'
      BY <3>10 DEF Vaporization
    <3>11. QED  BY <2>2, <3>1, <3>2, <3>3, <3>4, <3>5, <3>6, <3>7, <3>8, <3>9,
                   <3>10, <3>12 DEF Traffic
  <2>3. CASE Demand
    <3>1. ASSUME NEW v \in Veh, NEW d \in 0..FileHorizon, LoadVehicle(v, d)
          PROVE  TypeOK'
      <4>1. d \in Int
        BY ConstantsAssumption
      <4>2. /\ loc' \in [Veh -> {"none", "waiting", "lane", "teleport", "parking"}]
            /\ stop' \in [Veh -> {"none", "ahead", "reached", "boarded"}]
            /\ depart' \in [Veh -> Int]
        BY <3>1, <4>1 DEF LoadVehicle, Build
      <4>3. QED  BY <3>1, <4>1, <4>2 DEF LoadVehicle, Build
    <3>2. ASSUME NEW v \in Veh, LoadTriggered(v)  PROVE TypeOK'
      BY <3>2 DEF LoadTriggered, Build
    <3>3. ASSUME NEW v \in Veh, LoadDiscarded(v)  PROVE TypeOK'
      BY <3>3 DEF LoadDiscarded, DiscardUnbuilt
    <3>4. ASSUME NEW v \in Veh, PersonTakesVehicle(v)  PROVE TypeOK'
      BY <3>4 DEF PersonTakesVehicle
    <3>5. ASSUME NEW f \in Flow, FlowSkip(f)  PROVE TypeOK'
      BY <3>5 DEF FlowSkip
    <3>6. ASSUME NEW f \in Flow, FlowClose(f)  PROVE TypeOK'
      <4>1. flow' \in [Flow -> [active : BOOLEAN, vehicle : Veh \cup {None},
                                done : Nat, index : Nat]]
        <5>1. CASE Exhausted(f)
          BY <3>6, <5>1 DEF FlowClose
        <5>2. CASE ~Exhausted(f)
          BY <3>6, <5>2 DEF FlowClose
        <5>3. QED  BY <5>1, <5>2
      <4>2. QED  BY <3>6, <4>1 DEF FlowClose
    <3>7. ASSUME NEW f \in Flow, FlowDiscarded(f)  PROVE TypeOK'
      <4>1. flow' \in [Flow -> [active : BOOLEAN, vehicle : Veh \cup {None},
                                done : Nat, index : Nat]]
        BY <3>7, RepeatedType DEF FlowDiscarded
      <4>2. /\ loaded' \in Nat /\ ended' \in Nat /\ discarded' \in Nat
            /\ running' = running
        BY <3>7 DEF FlowDiscarded, DiscardUnbuilt
      <4>3. QED  BY <3>7, <4>1, <4>2 DEF FlowDiscarded
    <3>8. ASSUME NEW f \in Flow, NEW q \in Quotas, FlowRepetition(f, q)
          PROVE  TypeOK'
      <4>1. /\ q \in Nat /\ q > 0
            /\ flow[f].index \in Nat /\ flow[f].index + q <= Len(FlowVeh[f])
        BY <3>8, ConstantsAssumption DEF FlowRepetition
      <4>2. NextIds(f, q) \subseteq Veh /\ FlowVeh[f][flow[f].index + q] \in Veh
        BY <4>1, FlowIdType DEF NextIds
      <4>3. flow' \in [Flow -> [active : BOOLEAN, vehicle : Veh \cup {None},
                                done : Nat, index : Nat]]
        BY <3>8, <4>1, <4>2, RepeatedType DEF FlowRepetition
      <4>4. \A n \in Nat : DepartOf(f, n) \in Int
        BY ConstantsAssumption DEF DepartOf
      <4>5. depart' \in [Veh -> Int]
        <5>1. DepartOf(f, flow[f].done) \in Int /\ DepartOf(f, flow[f].done + 1) \in Int
          BY <4>4
        <5>2. QED  BY <3>8, <5>1 DEF FlowRepetition
      <4>6. loc' \in [Veh -> {"none", "waiting", "lane", "teleport", "parking"}]
        BY <3>8 DEF FlowRepetition
      <4>7. stop' \in [Veh -> {"none", "ahead", "reached", "boarded"}]
        BY <3>8 DEF FlowRepetition
      <4>8. queue' \subseteq Veh /\ loaded' \in Nat /\ flowOpen' \in Flow
        <5>1. queue' \subseteq Veh
          BY <3>8, <4>2 DEF FlowRepetition
        <5>2. loaded' \in Nat
          BY <3>8, <4>1 DEF FlowRepetition
        <5>3. flowOpen' \in Flow
          BY <3>8 DEF FlowRepetition
        <5>4. QED  BY <5>1, <5>2, <5>3
      <4>9. UNCHANGED <<timeVars, running, ended, discarded, emitVars, flowTodo,
                        transferVars, registered, waiting, personWait, loaderVars,
                        vaporizing, riders>>
        BY <3>8 DEF FlowRepetition
      <4>10. QED  BY <4>3, <4>5, <4>6, <4>7, <4>8, <4>9
    <3>9. ASSUME IdClash  PROVE TypeOK'
      BY <3>9 DEF IdClash
    <3>10. QED  BY <2>3, <3>1, <3>2, <3>3, <3>4, <3>5, <3>6, <3>7, <3>8, <3>9
                DEF Demand
  <2>4. CASE Insertion
    <3>1. ASSUME NEW v \in Veh, Release(v)  PROVE TypeOK'
      BY <3>1, AppendElements DEF Release
    <3>2. ASSUME NEW v \in Veh, TryInsertOnRoad(v)  PROVE TypeOK'
      BY <3>2, TailElements DEF TryInsertOnRoad, Trying
    <3>3. ASSUME NEW v \in Veh, TryInsertSucceeds(v)  PROVE TypeOK'
      <4>1. pending' \in Seq(Veh)
        BY <3>3, TailElements DEF TryInsertSucceeds, Trying
      <4>2. flow' \in [Flow -> [active : BOOLEAN, vehicle : Veh \cup {None},
                                done : Nat, index : Nat]]
        BY <3>3, CheckFlowWaitType DEF TryInsertSucceeds
      <4>3. /\ loc' \in [Veh -> {"none", "waiting", "lane", "teleport", "parking"}]
            /\ running' \in Int
            /\ UNCHANGED <<loaded, ended, discarded>>
        BY <3>3 DEF TryInsertSucceeds, EnterLane
      <4>4. QED  BY <3>3, <4>1, <4>2, <4>3 DEF TryInsertSucceeds
    <3>4. ASSUME NEW v \in Veh, NEW b \in BOOLEAN, TryInsertFails(v, b)
          PROVE  TypeOK'
      <4>1. pending' \in Seq(Veh) /\ Append(refused, v) \in Seq(Veh)
        BY <3>4, TailElements, AppendElements DEF TryInsertFails, Trying
      <4>2. EdgeOf[v] \in Edge
        BY ConstantsAssumption
      <4>3. flow' \in [Flow -> [active : BOOLEAN, vehicle : Veh \cup {None},
                                done : Nat, index : Nat]]
        BY <3>4, CheckFlowWaitType DEF TryInsertFails
      <4>4. DiscardVehicle(v) \/ UNCHANGED <<loc, counterVars>>
        BY <3>4 DEF TryInsertFails
      <4>6. loc' \in [Veh -> {"none", "waiting", "lane", "teleport", "parking"}]
        BY <4>4 DEF DiscardVehicle
      <4>7. /\ loaded' = loaded /\ running' = running
            /\ ended' \in Nat /\ discarded' \in Nat
        BY <4>4 DEF DiscardVehicle
      <4>5. refused' \in Seq(Veh) /\ aborted' \subseteq Veh
        BY <3>4, <4>1 DEF TryInsertFails
      <4>8. QED  BY <3>4, <4>1, <4>2, <4>3, <4>5, <4>6, <4>7 DEF TryInsertFails
    <3>5. ASSUME NEW passed \in SUBSET ToSet(pending), StartEmit(passed)
          PROVE  TypeOK'
      BY <3>5, ToSetByIndex DEF StartEmit
    <3>6. ASSUME EmitSkip  PROVE TypeOK'
      BY <3>6, TailElements, AppendElements DEF EmitSkip
    <3>7. QED  BY <2>4, <3>1, <3>2, <3>3, <3>4, <3>5, <3>6 DEF Insertion
  <2>5. CASE EndPhase
    <3>1. CASE StartStep
      BY <3>1 DEF StartStep
    <3>2. CASE EndEvents
      BY <3>2 DEF EndEvents
    <3>3. CASE EndMove
      BY <3>3 DEF EndMove
    <3>4. CASE EndLoad
      BY <3>4 DEF EndLoad
    <3>5. CASE EndPersons
      BY <3>5 DEF EndPersons
    <3>6. CASE EndFlows
      BY <3>6 DEF EndFlows
    <3>7. CASE EndEmit
      BY <3>7 DEF EndEmit
    <3>8. CASE EndStep
      BY <3>8 DEF EndStep
    <3>9. QED  BY <2>5, <3>1, <3>2, <3>3, <3>4, <3>5, <3>6, <3>7, <3>8
               DEF EndPhase
  <2>6. CASE UNCHANGED vars
    BY <2>6 DEF vars
  <2>7. QED  BY <2>1, <2>2, <2>3, <2>4, <2>5, <2>6 DEF Next, Terminated
<1>3. QED  BY <1>1, <1>2, PTL DEF Spec
-----------------------------------------------------------------------------
(* Where the vehicles are.  Two assumptions keep out what the code gets wrong: the
   client moves no vehicle that has not departed, and a person who asks for a
   vehicle with depart="triggered" again, at a stop of its route, meets it on the
   road and without --device.rerouting, so that tryInsert takes it out of the
   insertion queue in the same step. *)
PlainMoves == "moveToUndeparted" \notin ClientCommands
RidersMeetOnRoad ==
    \A v \in TrigVeh : StopOf[v] = "none" \/ (StopOf[v] # "parking" /\ ~PreCheck)

(* Only a vehicle on a lane or parking is at a stop, and persons look for those
   and for the vehicles with a triggered depart that nobody has taken yet. *)
StopsSound ==
    \A v \in Veh :
       /\ StopOf[v] = "none" => stop[v] = "none"
       /\ Stopped(v) => /\ v \in waiting \/ v \in TrigVeh
                        /\ loc[v] \in {"lane", "parking"}
       /\ loc[v] = "parking" => StopOf[v] = "parking"
       /\ v \in registered => Stopped(v)
       /\ v \in waiting => Stopped(v) \/ (v \in TrigVeh /\ loc[v] = "waiting")

(* A vehicle that departed is in the insertion queue only from the moment a person
   takes it until tryInsert comes to it. *)
RidePhases == {"persons", "flows", "candidates", "emit", "error"}
Riding(v) == /\ v \in TrigVeh /\ loc[v] = "lane" /\ Stopped(v) /\ v \notin waiting
             /\ v \notin ToSet(refused) /\ phase \in RidePhases

(* WaitsOnce, but for the vehicles that are taken on the road. *)
Lined ==
    /\ \A v \in Veh : loc[v] = "waiting" => v \in Queued \cup AwaitingRider
    /\ \A v \in Queued : loc[v] = "waiting" \/ Riding(v)
    /\ queue \cap (ToSet(pending) \cup ToSet(refused)) = {}
    /\ Queued \cap AwaitingRider = {}
    /\ ToSet(pending) \cap ToSet(refused) = {}
    /\ IsInjective(pending) /\ IsInjective(refused)

(* What departed or is pending was due, and nothing that is due stays in the heap. *)
DueFirst ==
    /\ \A v \in Departed \cup ToSet(pending) \cup ToSet(refused) : depart[v] <= now
    /\ phase \in {"emit", "transfer"} => \A v \in queue : depart[v] > now

Shape == StopsSound /\ Lined /\ TransferExact /\ DueFirst

(* What leaving the lane does to the stop and to the waiting lists. *)
LEMMA LeaveLaneEffect ==
    ASSUME TypeOK, StopsSound, NEW v \in Veh, LeaveLane(v), loc[v] # "waiting"
    PROVE  /\ registered' = registered \ {v} /\ waiting' = waiting \ {v}
           /\ stop' \in [Veh -> {"none", "ahead", "reached", "boarded"}]
           /\ \A u \in Veh : u # v => stop'[u] = stop[u]
           /\ stop'[v] \notin {"reached", "boarded"}
           /\ StopOf[v] = "none" => stop'[v] = "none"
           /\ personWait' = IF v \in registered THEN personWait - 1 ELSE personWait
  <1>1. CASE Stopped(v)
    BY <1>1 DEF TypeOK, StopsSound, LeaveLane, Stopped, ResumeFromStopping
  <1>2. CASE ~Stopped(v)
    BY <1>2 DEF TypeOK, StopsSound, LeaveLane, Stopped, stopVars
  <1>3. QED BY <1>1, <1>2

(* Who takes a vehicle on the road does so without automatic routing. *)
LEMMA RidingNeedsStop ==
    ASSUME TypeOK, Shape, RidersMeetOnRoad, NEW v \in Veh, Riding(v)
    PROVE  ~PreCheck /\ depart[v] <= now
<1>1. stop[v] # "none" /\ v \in TrigVeh /\ v \in Departed
  BY DEF Riding, Stopped, Departed
<1>2. StopOf[v] # "none" /\ depart[v] <= now
  BY <1>1 DEF Shape, StopsSound, DueFirst
<1>3. QED  BY <1>1, <1>2 DEF RidersMeetOnRoad

(* Outside the phases in which vehicles are taken and inserted, everything in the
   insertion queue waits for its departure. *)
LEMMA QueuedWait ==
    ASSUME TypeOK, Shape, phase \notin RidePhases, NEW v \in Queued
    PROVE  loc[v] = "waiting" /\ v \in Veh
  BY ToSetByIndex DEF Shape, Lined, Riding, TypeOK, Queued

(* The elements of the two vectors are vehicles. *)
LEMMA QueuedVehicles == ASSUME TypeOK  PROVE Queued \subseteq Veh
  BY ToSetByIndex DEF TypeOK, Queued

(* A vehicle that is not waiting for its departure leaves its lane. *)
LEMMA LeavingShape ==
    ASSUME TypeOK, Shape, NEW v \in Veh, LeaveLane(v), loc[v] \notin {"none", "waiting"},
           phase \notin RidePhases, NEW x \in {"none", "lane", "teleport"},
           loc' = [loc EXCEPT ![v] = x],
           teleporting' = IF x = "teleport" THEN teleporting \cup {v} ELSE teleporting \ {v},
           parking' = parking \ {v},
           UNCHANGED <<queue, pending, refused, depart, phase, now>>
    PROVE  Shape'
<1>1. /\ registered' = registered \ {v} /\ waiting' = waiting \ {v}
      /\ \A u \in Veh : u # v => stop'[u] = stop[u]
      /\ stop'[v] \notin {"reached", "boarded"}
      /\ StopOf[v] = "none" => stop'[v] = "none"
  BY LeaveLaneEffect DEF Shape
<1>2. StopsSound'
  BY <1>1 DEF Shape, StopsSound, TypeOK, Stopped
<1>3. Lined'
  <2>1. AwaitingRider' = AwaitingRider
    BY <1>1 DEF AwaitingRider, TypeOK
  <2>2. \A u \in Veh : loc'[u] = "waiting" <=> loc[u] = "waiting"
    BY DEF TypeOK
  <2>3. Queued' = Queued /\ \A u \in Queued : loc'[u] = "waiting"
    BY <2>2, QueuedWait DEF Queued
  <2>4. QED BY <2>1, <2>2, <2>3 DEF Shape, Lined
<1>4. TransferExact'
  BY DEF Shape, TransferExact, TypeOK
<1>5. DueFirst'
  BY DEF Shape, DueFirst, Departed, TypeOK
<1>6. QED  BY <1>2, <1>3, <1>4, <1>5 DEF Shape

(* Only the stop of a vehicle on the road changes. *)
LEMMA StopShape ==
    ASSUME TypeOK, Shape, NEW v \in Veh, loc[v] \in {"lane", "parking"},
           phase \notin RidePhases,
           UNCHANGED <<loc, queue, pending, refused, teleporting, parking, depart,
                       phase, now>>,
           \A u \in Veh : u # v => stop'[u] = stop[u],
           StopOf[v] = "none" => stop'[v] = "none",
           registered' \subseteq registered \cup {v},
           v \in registered' => Stopped(v)',
           \/ Stopped(v)' /\ waiting' = waiting \cup {v}
           \/ Stopped(v)' /\ Stopped(v) /\ UNCHANGED waiting
           \/ ~Stopped(v)' /\ waiting' = waiting \ {v}
    PROVE  Shape'
<1>1. StopsSound'
  <2>1. CASE Stopped(v)' /\ waiting' = waiting \cup {v}
    BY <2>1 DEF Shape, StopsSound, TypeOK, Stopped
  <2>2. CASE Stopped(v)' /\ Stopped(v) /\ UNCHANGED waiting
    BY <2>2 DEF Shape, StopsSound, TypeOK, Stopped
  <2>3. CASE ~Stopped(v)' /\ waiting' = waiting \ {v}
    BY <2>3 DEF Shape, StopsSound, TypeOK, Stopped
  <2>4. QED  BY <2>1, <2>2, <2>3
<1>2. Lined'
  <2>1. AwaitingRider' = AwaitingRider
    BY DEF AwaitingRider, TypeOK
  <2>2. Queued' = Queued /\ \A u \in Queued : loc'[u] = "waiting"
    BY QueuedWait DEF Queued
  <2>3. QED BY <2>1, <2>2 DEF Shape, Lined
<1>3. TransferExact' /\ DueFirst'
  BY DEF Shape, TransferExact, DueFirst, Departed
<1>4. QED  BY <1>1, <1>2, <1>3 DEF Shape

(* A vehicle is built. *)
LEMMA BuildShape ==
    ASSUME TypeOK, Shape, NEW S \in SUBSET Veh, \A v \in S : loc[v] = "none",
           phase \notin {"emit", "transfer"},
           loc' = [v \in Veh |-> IF v \in S THEN "waiting" ELSE loc[v]],
           stop' = [v \in Veh |-> IF v \notin S THEN stop[v]
                         ELSE IF StopOf[v] = "none" THEN "none" ELSE "ahead"],
           \A v \in Veh \ S : depart'[v] = depart[v],
           UNCHANGED <<pending, refused, teleporting, parking, registered, phase, now>>,
           \/ UNCHANGED waiting /\ queue' = queue \cup S
           \/ S \subseteq TrigVeh /\ waiting' = waiting \cup S /\ UNCHANGED queue
    PROVE  Shape'
<1>1. S \cap waiting = {} /\ S \cap Queued = {} /\ \A v \in S : ~Stopped(v)
  <2>1. \A v \in S : v \notin waiting /\ ~Stopped(v)
    BY DEF Shape, StopsSound
  <2>2. \A v \in S : v \notin Queued
    BY DEF Shape, Lined, Riding
  <2>3. QED  BY <2>1, <2>2
<1>2. StopsSound'
  BY <1>1 DEF Shape, StopsSound, TypeOK, Stopped
<1>3. Lined'
  <2>1. Queued \subseteq Veh
    BY QueuedVehicles
  <2>2. \A v \in Queued : loc'[v] = "waiting" \/ Riding(v)'
    <3> TAKE v \in Queued
    <3>1. v \in Veh /\ v \notin S /\ loc'[v] = loc[v] /\ stop'[v] = stop[v]
      BY <1>1, <2>1
    <3>2. v \in waiting' => v \in waiting
      BY <3>1
    <3>3. QED  BY <3>1, <3>2 DEF Shape, Lined, Riding, Stopped
  <2>3. CASE UNCHANGED waiting /\ queue' = queue \cup S
    <3>1. AwaitingRider' = AwaitingRider /\ Queued' = Queued \cup S
      BY <2>3, <1>1 DEF AwaitingRider, Queued, TypeOK
    <3>2. S \cap AwaitingRider = {}
      BY <1>1 DEF AwaitingRider
    <3>3. S \cap (ToSet(pending) \cup ToSet(refused)) = {}
      BY <1>1 DEF Queued
    <3>4. \A v \in S : loc'[v] = "waiting"
      OBVIOUS
    <3>5. \A v \in Veh : loc'[v] = "waiting" => v \in S \/ loc[v] = "waiting"
      OBVIOUS
    <3>6. QED BY <2>2, <2>3, <3>1, <3>2, <3>3, <3>4, <3>5 DEF Shape, Lined
  <2>4. CASE S \subseteq TrigVeh /\ waiting' = waiting \cup S /\ UNCHANGED queue
    <3>1. AwaitingRider' = AwaitingRider \cup S /\ Queued' = Queued
      BY <2>4, <1>1 DEF AwaitingRider, Queued, TypeOK
    <3>2. \A v \in Veh : loc'[v] = "waiting" => v \in S \/ loc[v] = "waiting"
      OBVIOUS
    <3>3. QED BY <1>1, <2>2, <2>4, <3>1, <3>2 DEF Shape, Lined
  <2>5. QED BY <2>3, <2>4
<1>4. TransferExact'
  BY <1>1 DEF Shape, TransferExact, TypeOK
<1>5. DueFirst'
  <2>1. Departed' = Departed /\ Departed \cap S = {}
    BY DEF Departed
  <2>2. \A v \in Departed \cup ToSet(pending) \cup ToSet(refused) : v \in Veh \ S
    BY <1>1, <2>1, QueuedVehicles DEF Queued, Departed
  <2>3. QED  BY <2>1, <2>2 DEF Shape, DueFirst
<1>6. QED  BY <1>2, <1>3, <1>4, <1>5 DEF Shape

(* Building one vehicle keeps the invariant. *)
LEMMA BuildOneShape ==
    ASSUME TypeOK, Shape, NEW v \in Veh, NEW d, loc[v] = "none", Build(v, d),
           phase \notin {"emit", "transfer"},
           UNCHANGED <<pending, refused, teleporting, parking, registered, phase, now>>,
           \/ UNCHANGED waiting /\ queue' = queue \cup {v}
           \/ v \in TrigVeh /\ waiting' = waiting \cup {v} /\ UNCHANGED queue
    PROVE  Shape'
<1> DEFINE S == {v}
<1>1. loc' = [u \in Veh |-> IF u \in S THEN "waiting" ELSE loc[u]]
  BY DEF Build, TypeOK
<1>2. stop' = [u \in Veh |-> IF u \notin S THEN stop[u]
                            ELSE IF StopOf[u] = "none" THEN "none" ELSE "ahead"]
  BY DEF Build, TypeOK
<1>3. /\ S \in SUBSET Veh /\ \A u \in S : loc[u] = "none"
      /\ \/ UNCHANGED waiting /\ queue' = queue \cup S
         \/ S \subseteq TrigVeh /\ waiting' = waiting \cup S /\ UNCHANGED queue
  OBVIOUS
<1>4. \A u \in Veh \ S : depart'[u] = depart[u]
  BY DEF Build, TypeOK
<1> HIDE DEF S
<1>5. QED  BY <1>1, <1>2, <1>3, <1>4, BuildShape

(* A vehicle in the insertion queue is handled: it departs or is discarded. *)
LEMMA HandledShape ==
    ASSUME TypeOK, Shape, NEW v \in ToSet(pending), loc[v] = "waiting",
           pending' \in Seq(Veh), ToSet(pending') = ToSet(pending) \ {v},
           IsInjective(pending'),
           NEW x \in {"none", "lane"}, loc' = [loc EXCEPT ![v] = x],
           UNCHANGED <<queue, refused, teleporting, parking, stopVars, depart, phase, now>>
    PROVE  Shape'
<1>1. v \in Veh /\ v \notin AwaitingRider
      /\ v \notin queue /\ v \notin ToSet(refused)
  BY QueuedVehicles DEF Shape, Lined, Queued
<1>2. StopsSound'
  BY <1>1 DEF Shape, StopsSound, TypeOK, Stopped, stopVars, AwaitingRider
<1>3. Lined'
  <2>1. AwaitingRider' = AwaitingRider
    BY <1>1 DEF AwaitingRider, TypeOK, stopVars
  <2>2. Queued' = Queued \ {v}
    BY <1>1 DEF Queued
  <2>3. \A u \in Veh : u # v => loc'[u] = loc[u]
    BY DEF TypeOK
  <2>4. loc'[v] # "waiting"
    BY <1>1 DEF TypeOK
  <2>5. \A u \in Queued' : loc'[u] = "waiting" \/ Riding(u)'
    BY <2>2, <2>3, QueuedVehicles DEF Shape, Lined, Riding, Stopped, stopVars
  <2>6. QED
    BY <1>1, <2>1, <2>2, <2>3, <2>4, <2>5 DEF Shape, Lined
<1>4. TransferExact'
  BY <1>1 DEF Shape, TransferExact, TypeOK
<1>5. DueFirst'
  <2>1. Departed' \subseteq Departed \cup {v}
    BY DEF Departed, TypeOK
  <2>2. QED  BY <2>1 DEF Shape, DueFirst
<1>6. QED  BY <1>2, <1>3, <1>4, <1>5 DEF Shape

(* Vehicles are passed on within the insertion queue, or leave it for the lane they
   are on. *)
LEMMA PassedOnShape ==
    ASSUME TypeOK, Shape, Queued' \subseteq Queued,
           \A u \in Queued \ Queued' : loc[u] = "lane",
           \A u \in Queued' : loc[u] = "waiting" \/ Riding(u)',
           queue' \cap (ToSet(pending') \cup ToSet(refused')) = {},
           ToSet(pending') \cap ToSet(refused') = {},
           IsInjective(pending'), IsInjective(refused'),
           \A u \in ToSet(pending') \cup ToSet(refused') : depart[u] <= now,
           phase' \in {"emit", "transfer"} => \A u \in queue' : depart[u] > now,
           UNCHANGED <<loc, teleporting, parking, stopVars, depart, now>>
    PROVE  Shape'
<1>1. StopsSound'
  BY DEF Shape, StopsSound, Stopped, stopVars
<1>2. Lined'
  <2>1. AwaitingRider' = AwaitingRider
    BY DEF AwaitingRider, stopVars
  <2>2. QED  BY <2>1 DEF Shape, Lined
<1>3. TransferExact'
  BY DEF Shape, TransferExact
<1>4. DueFirst'
  BY DEF Shape, DueFirst, Departed
<1>5. QED  BY <1>1, <1>2, <1>3, <1>4 DEF Shape

(* A person takes a vehicle that waits for one, for its departure or at a stop. *)
LEMMA TakenShape ==
    ASSUME TypeOK, Shape, RidersMeetOnRoad, NEW v \in Veh, PersonTakesVehicle(v)
    PROVE  Shape'
<1>1. /\ v \in waiting \cap TrigVeh /\ phase = "persons"
      /\ queue' = queue \cup {v} /\ waiting' = waiting \ {v}
      /\ UNCHANGED <<loc, stop, registered, pending, refused, teleporting, parking,
                     depart, phase, now>>
  BY DEF PersonTakesVehicle, emitVars, transferVars, timeVars
<1>2. StopsSound'
  BY <1>1 DEF Shape, StopsSound, Stopped
<1>3. Lined'
  <2>1. Queued' = Queued \cup {v}
    BY <1>1 DEF Queued
  <2>2. AwaitingRider' = AwaitingRider \ {v}
    BY <1>1 DEF AwaitingRider
  <2>3. v \notin Queued
    <3>1. CASE loc[v] = "waiting"
      BY <1>1, <3>1 DEF AwaitingRider, Shape, Lined
    <3>2. CASE loc[v] # "waiting"
      BY <1>1, <3>2 DEF Shape, Lined, Riding
    <3>3. QED  BY <3>1, <3>2
  <2>4. loc[v] = "waiting" \/ Riding(v)'
    <3> SUFFICES ASSUME loc[v] # "waiting"  PROVE Riding(v)'
      OBVIOUS
    <3>1. Stopped(v) /\ loc[v] \in {"lane", "parking"} /\ stop[v] # "none"
      BY <1>1 DEF Shape, StopsSound, Stopped
    <3>2. loc[v] = "lane"
      BY <1>1, <3>1 DEF Shape, StopsSound, RidersMeetOnRoad
    <3>3. v \notin ToSet(refused)
      BY <2>3 DEF Queued
    <3>4. QED
      BY <1>1, <3>1, <3>2, <3>3 DEF Riding, Stopped, RidePhases
  <2>5. \A u \in Queued : loc[u] = "waiting" \/ Riding(u)'
    BY <1>1 DEF Shape, Lined, Riding, Stopped
  <2>6. queue' \cap (ToSet(pending') \cup ToSet(refused')) = {}
    BY <1>1, <2>3 DEF Queued, Shape, Lined
  <2>7. QED  BY <1>1, <2>1, <2>2, <2>3, <2>4, <2>5, <2>6 DEF Shape, Lined
<1>4. TransferExact' /\ DueFirst'
  BY <1>1 DEF Shape, TransferExact, DueFirst, Departed
<1>5. QED  BY <1>2, <1>3, <1>4 DEF Shape

(* Nothing of what Shape is about changes, but for the time and the phase. *)
LEMMA SameShape ==
    ASSUME TypeOK, TypeOK', Shape, now' >= now,
           \/ phase \in RidePhases => phase' \in RidePhases
           \/ \A v \in Queued : ~Riding(v),
           phase' \in {"emit", "transfer"} => \A u \in queue : depart[u] > now',
           UNCHANGED <<loc, stopVars, queue, pending, refused, teleporting, parking,
                       depart>>
    PROVE  Shape'
<1>1. StopsSound' /\ TransferExact'
  BY DEF Shape, StopsSound, TransferExact, Stopped, stopVars
<1>2. AwaitingRider' = AwaitingRider /\ Queued' = Queued
  BY DEF AwaitingRider, Queued, stopVars
<1>3. \A v \in Queued : loc[v] = "waiting" \/ Riding(v)'
  BY DEF Shape, Lined, Riding, Stopped, stopVars
<1>4. Lined'
  BY <1>2, <1>3 DEF Shape, Lined
<1>5. DueFirst'
  <2>1. \A v \in Departed \cup ToSet(pending) \cup ToSet(refused) : depart[v] <= now'
    <3>1. now \in Int /\ now' \in Int
      BY DEF TypeOK
    <3>2. \A v \in Departed \cup ToSet(pending) \cup ToSet(refused) : depart[v] \in Int
      BY QueuedVehicles DEF TypeOK, Departed, Queued
    <3>3. QED  BY <3>1, <3>2 DEF Shape, DueFirst
  <2>2. QED  BY <2>1 DEF DueFirst, Departed
<1>6. QED  BY <1>1, <1>4, <1>5 DEF Shape

(* A phase in which vehicles are not inserted changes nothing Shape is about. *)
LEMMA SameShapeNow ==
    ASSUME TypeOK, TypeOK', Shape,
           UNCHANGED <<loc, stopVars, queue, pending, refused, teleporting, parking,
                       depart, phase, now>>
    PROVE  Shape'
<1>1. now' >= now /\ (phase' \in {"emit", "transfer"} => \A u \in queue : depart[u] > now')
  BY DEF TypeOK, Shape, DueFirst
<1>2. QED  BY <1>1, SameShape

(* The front of the pending vehicles is taken out. *)
LEMMA PoppedPending ==
    ASSUME TypeOK, Shape, NEW v, Trying(v), pending' = Tail(pending)
    PROVE  /\ v \in ToSet(pending) /\ v \in Veh /\ (loc[v] # "lane" => loc[v] = "waiting")
           /\ pending' \in Seq(Veh) /\ IsInjective(pending')
           /\ ToSet(pending') = ToSet(pending) \ {v}
<1>1. pending # <<>> /\ v = Head(pending) /\ pending \in Seq(Veh)
  BY DEF Trying, TypeOK
<1>2. /\ v \in Veh /\ pending' \in Seq(Veh)
      /\ ToSet(pending) = {v} \cup ToSet(pending')
  BY <1>1, TailElements
<1>3. IsInjective(pending') /\ v \notin ToSet(pending')
  BY <1>1, TailDistinct DEF Shape, Lined
<1>4. loc[v] # "lane" => loc[v] = "waiting"
  BY <1>2 DEF Shape, Lined, Queued, Riding
<1>5. QED  BY <1>2, <1>3, <1>4

(* Every vehicle that waits for its departure waits in exactly one place, once,
   every vehicle out of the network is with MSVehicleTransfer, and the stops of
   the vehicles agree with the lists persons look into. *)
THEOREM ShapeKept ==
    ASSUME PlainMoves, RidersMeetOnRoad
    PROVE  Spec => []Shape
<1>1. Init => Shape
  <2> SUFFICES ASSUME Init  PROVE Shape
    OBVIOUS
  <2>1. ToSet(pending) = {} /\ ToSet(refused) = {}
        /\ IsInjective(pending) /\ IsInjective(refused)
    BY DEF Init, ToSet, IsInjective
  <2>2. QED
    BY <2>1 DEF Init, Shape, StopsSound, Lined, TransferExact, DueFirst, Stopped,
                Queued, AwaitingRider, Departed
<1>2. TypeOK /\ TypeOK' /\ Shape /\ [Next]_vars => Shape'
  <2> SUFFICES ASSUME TypeOK, TypeOK', Shape, [Next]_vars  PROVE Shape'
    OBVIOUS
  <2> USE DEF counterVars, emitVars, flowVars, transferVars, stopVars, loaderVars,
              timeVars, RidePhases
  <2>1. CASE Client
    <3>1. ASSUME NEW v \in Veh, NEW d \in (now..Horizon) \cup {-1}, TraciAdd(v, d)
          PROVE  Shape'
      <4>1. loc[v] = "none"
        BY <3>1 DEF TraciAdd
      <4>2. QED  BY <3>1, <4>1, BuildOneShape DEF TraciAdd
    <3>2. ASSUME NEW v \in Veh, TraciRemove(v)  PROVE Shape'
      BY <3>2, LeavingShape
         DEF TraciRemove, OnRemovalFromNet, ScheduleVehicleRemoval, Departed
    <3>3. ASSUME NEW v \in Veh, TraciMoveTo(v)  PROVE Shape'
      BY <3>3, LeavingShape
         DEF TraciMoveTo, OnRemovalFromNet, EnterLane, Departed, PlainMoves
    <3>4. ASSUME NEW i \in DOMAIN pending, TraciClearPending(i)  PROVE Shape'
      <4>1. IsInjective(pending) /\ pending \in Seq(Veh)
        BY DEF Shape, Lined, TypeOK
      <4>2. /\ pending' \in Seq(Veh) /\ pending[i] \in ToSet(pending)
            /\ ToSet(pending') = ToSet(pending) \ {pending[i]}
            /\ IsInjective(pending')
        BY <3>4, <4>1, RemoveAtElements DEF TraciClearPending
      <4>3. loc' = [loc EXCEPT ![pending[i]] = "none"]
        BY <3>4 DEF TraciClearPending, DiscardVehicle
      <4>4. phase \notin RidePhases /\ loc[pending[i]] = "waiting"
        BY <3>4, <4>2, QueuedWait DEF TraciClearPending, Queued
      <4>5. QED  BY <3>4, <4>2, <4>3, <4>4, HandledShape DEF TraciClearPending
    <3>5. ASSUME TraciAddInvalid  PROVE Shape'
      BY <3>5, SameShapeNow DEF TraciAddInvalid
    <3>6. ASSUME TraciClose  PROVE Shape'
      BY <3>6, SameShape DEF TraciClose, TypeOK
    <3>7. QED  BY <2>1, <3>1, <3>2, <3>3, <3>4, <3>5, <3>6 DEF Client
  <2>2. CASE Traffic
    <3>1. ASSUME NEW v \in Veh, Leave(v)  PROVE Shape'
      BY <3>1, LeavingShape DEF Leave, OnRemovalFromNet, ScheduleVehicleRemoval
    <3>2. ASSUME NEW v \in Veh, ReachStop(v)  PROVE Shape'
      <4>1. /\ loc[v] = "lane" /\ StopOf[v] # "none"
            /\ \A u \in Veh : u # v => stop'[u] = stop[u]
            /\ Stopped(v)'
        BY <3>2 DEF ReachStop, Shape, StopsSound, Stopped, TypeOK
      <4>2. QED  BY <3>2, <4>1, StopShape DEF ReachStop
    <3>3. ASSUME NEW v \in Veh, Park(v)  PROVE Shape'
      <4>1. /\ loc[v] = "lane" /\ loc' = [loc EXCEPT ![v] = "parking"]
            /\ teleporting' = teleporting \ {v} /\ parking' = parking \cup {v}
            /\ UNCHANGED <<stopVars, queue, pending, refused, depart, phase, now>>
            /\ StopOf[v] = "parking" /\ phase \notin RidePhases
        BY <3>3 DEF Park
      <4>2. \A u \in Veh : /\ u # v => loc'[u] = loc[u]
                          /\ loc'[v] = "parking"
        BY <4>1 DEF TypeOK
      <4>3. StopsSound'
        BY <4>1, <4>2 DEF Shape, StopsSound, Stopped
      <4>4. Lined'
        <5>1. AwaitingRider' = AwaitingRider
          BY <4>1, <4>2 DEF AwaitingRider
        <5>2. Queued' = Queued
          BY <4>1 DEF Queued
        <5>3. \A u \in Queued : loc'[u] = "waiting"
          BY <4>1, <4>2, QueuedWait
        <5>4. QED  BY <4>1, <4>2, <5>1, <5>2, <5>3 DEF Shape, Lined
      <4>5. TransferExact'
        BY <4>1, <4>2 DEF Shape, TransferExact
      <4>6. DueFirst'
        <5>1. Departed' = Departed
          BY <4>1, <4>2 DEF Departed
        <5>2. QED  BY <4>1, <5>1 DEF Shape, DueFirst
      <4>7. QED  BY <4>3, <4>4, <4>5, <4>6 DEF Shape
    <3>4. ASSUME NEW v \in Veh, Teleport(v)  PROVE Shape'
      BY <3>4, LeavingShape DEF Teleport
    <3>5. ASSUME NEW v \in Veh, TeleportOnLastEdge(v)  PROVE Shape'
      BY <3>5, LeavingShape
         DEF TeleportOnLastEdge, OnRemovalFromNet, ScheduleVehicleRemoval
    <3>6. ASSUME NEW v \in Veh, NEW b \in BOOLEAN, WaitAtStop(v, b)  PROVE Shape'
      <4>1. loc[v] \in {"lane", "parking"} /\ Stopped(v) /\ StopOf[v] # "none"
        BY <3>6 DEF WaitAtStop, AtStop, Shape, StopsSound, TransferExact, Stopped
      <4>2. /\ \A u \in Veh : u # v => stop'[u] = stop[u]
            /\ Stopped(v)' /\ registered' \subseteq registered \cup {v}
        BY <3>6, <4>1 DEF WaitAtStop, Stopped, TypeOK
      <4>3. /\ UNCHANGED <<loc, waiting, queue, pending, refused, teleporting, parking,
                           depart, phase, now>>
            /\ phase \notin RidePhases
        BY <3>6 DEF WaitAtStop, AtStop
      <4>4. QED  BY <4>1, <4>2, <4>3, StopShape
    <3>7. ASSUME NEW v \in Veh, NEW b \in BOOLEAN, LeaveStop(v, b)  PROVE Shape'
      <4>1. loc[v] \in {"lane", "parking"}
        BY <3>7 DEF LeaveStop, AtStop, Shape, TransferExact
      <4>2. /\ \A u \in Veh : u # v => stop'[u] = stop[u]
            /\ stop'[v] = "none" /\ ~Stopped(v)'
            /\ registered' \subseteq registered \cup {v} /\ v \notin registered'
            /\ waiting' = waiting \ {v}
        BY <3>7 DEF LeaveStop, ResumeFromStopping, Stopped, TypeOK
      <4>3. /\ UNCHANGED <<loc, queue, pending, refused, teleporting, parking, depart,
                           phase, now>>
            /\ phase \notin RidePhases
        BY <3>7 DEF LeaveStop, AtStop
      <4>4. QED  BY <4>1, <4>2, <4>3, StopShape
    <3>8. ASSUME NEW v \in Veh, TeleportEnds(v)  PROVE Shape'
      <4>1. /\ loc[v] = "teleport" /\ loc' = [loc EXCEPT ![v] = "lane"]
            /\ teleporting' = teleporting \ {v}
            /\ UNCHANGED <<parking, stopVars, queue, pending, refused, depart, phase,
                           now>>
            /\ phase \notin RidePhases
        BY <3>8 DEF TeleportEnds, Shape, TransferExact
      <4>2. parking' = parking \ {v} /\ ~Stopped(v)
        BY <4>1 DEF Shape, StopsSound, TransferExact
      <4>3. LeaveLane(v)
        BY <4>1, <4>2 DEF LeaveLane
      <4>4. QED  BY <4>1, <4>2, <4>3, LeavingShape
    <3>9. ASSUME NEW v \in Veh, TeleportBeyondArrival(v)  PROVE Shape'
      <4>1. loc[v] = "teleport" /\ v \notin parking
        BY <3>9 DEF TeleportBeyondArrival, Shape, TransferExact
      <4>2. parking' = parking \ {v}
        BY <3>9, <4>1 DEF TeleportBeyondArrival
      <4>3. QED
        BY <3>9, <4>1, <4>2, LeavingShape
           DEF TeleportBeyondArrival, ScheduleVehicleRemoval
    <3>10. ASSUME NEW v \in Veh, ParkingEnds(v)  PROVE Shape'
      <4>1. /\ loc[v] = "parking" /\ loc' = [loc EXCEPT ![v] = "lane"]
            /\ parking' = parking \ {v} /\ ~Stopped(v)
            /\ UNCHANGED <<teleporting, stopVars, queue, pending, refused, depart,
                           phase, now>>
            /\ phase \notin RidePhases
        BY <3>10 DEF ParkingEnds, Shape, TransferExact
      <4>2. teleporting' = teleporting \ {v}
        BY <4>1 DEF Shape, TransferExact
      <4>3. LeaveLane(v)
        BY <4>1 DEF LeaveLane
      <4>4. QED  BY <4>1, <4>2, <4>3, LeavingShape
    <3>11. ASSUME NEW e \in Edge, Vaporization(e)  PROVE Shape'
      BY <3>11, SameShapeNow DEF Vaporization
    <3>12. QED  BY <2>2, <3>1, <3>2, <3>3, <3>4, <3>5, <3>6, <3>7, <3>8, <3>9,
                   <3>10, <3>11 DEF Traffic
  <2>3. CASE Demand
    <3>1. ASSUME NEW v \in Veh, NEW d \in 0..FileHorizon, LoadVehicle(v, d)
          PROVE  Shape'
      <4>1. loc[v] = "none"
        BY <3>1 DEF LoadVehicle
      <4>2. QED  BY <3>1, <4>1, BuildOneShape DEF LoadVehicle
    <3>2. ASSUME NEW v \in Veh, LoadTriggered(v)  PROVE Shape'
      <4>1. loc[v] = "none" /\ v \in TrigVeh
        BY <3>2 DEF LoadTriggered
      <4>2. QED  BY <3>2, <4>1, BuildOneShape DEF LoadTriggered
    <3>3. ASSUME NEW v \in Veh, LoadDiscarded(v)  PROVE Shape'
      BY <3>3, SameShapeNow DEF LoadDiscarded
    <3>4. ASSUME NEW v \in Veh, PersonTakesVehicle(v)  PROVE Shape'
      BY <3>4, TakenShape
    <3>5. ASSUME NEW f \in Flow, FlowSkip(f)  PROVE Shape'
      BY <3>5, SameShapeNow DEF FlowSkip
    <3>6. ASSUME NEW f \in Flow, FlowClose(f)  PROVE Shape'
      BY <3>6, SameShapeNow DEF FlowClose
    <3>7. ASSUME NEW f \in Flow, FlowDiscarded(f)  PROVE Shape'
      BY <3>7, SameShapeNow DEF FlowDiscarded
    <3>8. ASSUME NEW f \in Flow, NEW q \in Quotas, FlowRepetition(f, q)
          PROVE  Shape'
      <4>1. NextIds(f, q) \in SUBSET Veh
        <5>1. /\ q \in Nat /\ flow[f].index \in Nat
              /\ flow[f].index + q <= Len(FlowVeh[f])
          BY <3>8, ConstantsAssumption DEF FlowRepetition, TypeOK
        <5>2. QED  BY <5>1, FlowIdType DEF NextIds
      <4>2. /\ \A v \in NextIds(f, q) : loc[v] = "none"
            /\ loc' = [v \in Veh |-> IF v \in NextIds(f, q) THEN "waiting" ELSE loc[v]]
            /\ stop' = [v \in Veh |-> IF v \notin NextIds(f, q) THEN stop[v]
                                      ELSE IF StopOf[v] = "none" THEN "none" ELSE "ahead"]
            /\ phase = "flows" /\ queue' = queue \cup NextIds(f, q)
            /\ UNCHANGED <<pending, refused, teleporting, parking, registered, waiting,
                           phase, now>>
        BY <3>8 DEF FlowRepetition, Visiting
      <4>3. \A v \in Veh \ NextIds(f, q) : depart'[v] = depart[v]
        <5>1. /\ q \in Nat /\ q > 0
              /\ depart' = [v \in Veh |->
                     IF v = FlowVeh[f][flow[f].index + 1] THEN DepartOf(f, flow[f].done)
                     ELSE IF v \in NextIds(f, q) THEN DepartOf(f, flow[f].done + 1)
                     ELSE depart[v]]
          BY <3>8, ConstantsAssumption DEF FlowRepetition
        <5>2. FlowVeh[f][flow[f].index + 1] \in NextIds(f, q)
          BY <5>1 DEF NextIds
        <5>3. QED  BY <5>1, <5>2
      <4>4. QED  BY <4>1, <4>2, <4>3, BuildShape
    <3>9. ASSUME IdClash  PROVE Shape'
      <4>1. /\ phase \in RidePhases => phase' \in RidePhases
            /\ now' >= now /\ phase' \notin {"emit", "transfer"}
        BY <3>9 DEF IdClash, TypeOK
      <4>2. QED  BY <3>9, <4>1, SameShape DEF IdClash
    <3>10. QED  BY <2>3, <3>1, <3>2, <3>3, <3>4, <3>5, <3>6, <3>7, <3>8, <3>9
                DEF Demand
  <2>4. CASE Insertion
    <3>1. ASSUME NEW v \in Veh, Release(v)  PROVE Shape'
      <4>1. /\ v \in queue /\ queue' = queue \ {v}
            /\ pending' = Append(pending, v) /\ refused' = refused
            /\ UNCHANGED <<loc, teleporting, parking, stopVars>>
        BY <3>1 DEF Release
      <4>2. /\ pending \in Seq(Veh) /\ IsInjective(pending)
            /\ v \notin ToSet(pending) /\ v \notin ToSet(refused)
        BY <4>1 DEF Shape, Lined, TypeOK
      <4>3. ToSet(pending') = ToSet(pending) \cup {v} /\ IsInjective(pending')
        BY <4>1, <4>2, AppendElements
      <4>4. QED
        <5>1. /\ phase = "candidates" /\ phase' = phase /\ UNCHANGED <<depart, now>>
              /\ depart[v] <= now
          BY <3>1 DEF Release
        <5>2. Queued' = Queued
          BY <4>1, <4>3 DEF Queued
        <5>3. \A u \in Queued : loc[u] = "waiting" \/ Riding(u)'
          BY <4>1, <5>1 DEF Shape, Lined, Riding, Stopped
        <5>4. \A u \in ToSet(pending') \cup ToSet(refused') : depart[u] <= now
          BY <4>1, <4>3, <5>1 DEF Shape, DueFirst
        <5>5. queue' \cap (ToSet(pending') \cup ToSet(refused')) = {}
          BY <4>1, <4>3 DEF Shape, Lined
        <5>6. /\ ToSet(pending') \cap ToSet(refused') = {}
              /\ IsInjective(pending') /\ IsInjective(refused')
          BY <4>1, <4>2, <4>3 DEF Shape, Lined
        <5>7. QED
          BY <4>1, <5>1, <5>2, <5>3, <5>4, <5>5, <5>6, PassedOnShape
    <3>2. ASSUME NEW v \in Veh, TryInsertOnRoad(v)  PROVE Shape'
      <4>1. /\ v \in ToSet(pending) /\ IsInjective(pending')
            /\ ToSet(pending') = ToSet(pending) \ {v}
        BY <3>2, PoppedPending DEF TryInsertOnRoad
      <4>2. /\ loc[v] = "lane" /\ phase = "emit"
            /\ UNCHANGED <<queue, refused, loc, teleporting, parking, stopVars, depart,
                           phase, now>>
        BY <3>2 DEF TryInsertOnRoad, Trying
      <4>3. Queued' \subseteq Queued /\ Queued \ Queued' \subseteq {v}
        BY <4>1, <4>2 DEF Queued
      <4>4. \A u \in Queued' : loc[u] = "waiting" \/ Riding(u)'
        BY <4>2, <4>3 DEF Shape, Lined, Riding, Stopped
      <4>5. QED
        BY <4>1, <4>2, <4>3, <4>4, PassedOnShape DEF Shape, Lined, DueFirst
    <3>3. ASSUME NEW v \in Veh, TryInsertSucceeds(v)  PROVE Shape'
      BY <3>3, PoppedPending, HandledShape DEF TryInsertSucceeds, EnterLane
    <3>4. ASSUME NEW v \in Veh, NEW b \in BOOLEAN, TryInsertFails(v, b)
          PROVE  Shape'
      <4>1. /\ v \in ToSet(pending)
            /\ pending' \in Seq(Veh) /\ IsInjective(pending')
            /\ ToSet(pending') = ToSet(pending) \ {v}
        BY <3>4, PoppedPending DEF TryInsertFails
      <4>2. UNCHANGED <<queue, teleporting, parking, stopVars>>
        BY <3>4 DEF TryInsertFails
      <4>3. \/ DiscardVehicle(v) /\ UNCHANGED refused
            \/ refused' = Append(refused, v) /\ UNCHANGED loc
        BY <3>4 DEF TryInsertFails
      <4>4. CASE DiscardVehicle(v) /\ UNCHANGED refused
        <5>1. loc[v] = "waiting" /\ UNCHANGED <<depart, phase, now>>
          BY <3>4, PoppedPending DEF TryInsertFails
        <5>2. QED  BY <4>1, <4>2, <4>4, <5>1, HandledShape DEF DiscardVehicle
      <4>5. CASE refused' = Append(refused, v) /\ UNCHANGED loc
        <5>1. /\ refused \in Seq(Veh) /\ IsInjective(refused)
              /\ v \notin ToSet(refused) /\ v \notin queue
          BY <4>1 DEF Shape, Lined, TypeOK
        <5>2. ToSet(refused') = ToSet(refused) \cup {v} /\ IsInjective(refused')
          BY <4>5, <5>1, AppendElements
        <5>3. /\ phase = "emit" /\ loc[v] = "waiting" /\ UNCHANGED <<depart, phase, now>>
          BY <3>4, PoppedPending DEF TryInsertFails, Trying
        <5>4. Queued' = Queued
          BY <4>1, <4>2, <5>2 DEF Queued
        <5>5. \A u \in Queued : loc[u] = "waiting" \/ Riding(u)'
          <6> TAKE u \in Queued
          <6> SUFFICES ASSUME Riding(u)  PROVE Riding(u)'
            BY DEF Shape, Lined
          <6>1. u \notin ToSet(refused')
            BY <5>2, <5>3 DEF Riding
          <6>2. QED  BY <4>2, <4>5, <5>3, <6>1 DEF Riding, Stopped
        <5>6. QED
          BY <4>1, <4>2, <4>5, <5>1, <5>2, <5>3, <5>4, <5>5, PassedOnShape
             DEF Shape, Lined, DueFirst
      <4>6. QED  BY <4>3, <4>4, <4>5
    <3>5. ASSUME NEW passed \in SUBSET ToSet(pending), StartEmit(passed)
          PROVE  Shape'
      <4>1. \/ phase \in RidePhases => phase' \in RidePhases
            \/ \A v \in Queued : ~Riding(v)
        <5> SUFFICES ASSUME NEW v \in Queued, Riding(v), phase' \notin RidePhases
                     PROVE  FALSE
          OBVIOUS
        <5>1. ~PreCheck /\ depart[v] <= now
          BY QueuedVehicles, RidingNeedsStop
        <5>2. pending = <<>> /\ \A u \in queue : depart[u] > now
          BY <3>5, <5>1 DEF StartEmit
        <5>3. v \in queue
          BY <5>2 DEF Riding, Queued, ToSet
        <5>4. depart[v] > now /\ depart[v] \in Int /\ now \in Int
          BY <5>2, <5>3 DEF TypeOK
        <5>5. QED  BY <5>1, <5>4
      <4>2. /\ now' >= now /\ \A u \in queue : depart[u] > now'
            /\ UNCHANGED <<loc, stopVars, queue, pending, refused, teleporting, parking,
                           depart>>
        BY <3>5 DEF StartEmit, TypeOK
      <4>3. QED  BY <4>1, <4>2, SameShape
    <3>6. ASSUME EmitSkip  PROVE Shape'
      <4> DEFINE v == Head(pending)
      <4>1. /\ pending # <<>> /\ pending \in Seq(Veh) /\ refused \in Seq(Veh)
            /\ pending' = Tail(pending) /\ refused' = Append(refused, v)
            /\ IsInjective(pending) /\ IsInjective(refused)
        BY <3>6 DEF EmitSkip, TypeOK, Shape, Lined
      <4>2. /\ v \in Veh /\ ToSet(pending) = {v} \cup ToSet(pending')
            /\ IsInjective(pending') /\ v \notin ToSet(pending')
        BY <4>1, TailElements, TailDistinct
      <4>3. v \notin ToSet(refused) /\ v \notin queue
        BY <4>2 DEF Shape, Lined
      <4> HIDE DEF v
      <4>4. ToSet(refused') = ToSet(refused) \cup {v} /\ IsInjective(refused')
        BY <4>1, <4>2, <4>3, AppendElements
      <4>5. /\ UNCHANGED <<queue, loc, teleporting, parking, stopVars, depart, phase, now>>
            /\ phase = "emit" /\ PreCheck
        BY <3>6 DEF EmitSkip
      <4>6. Queued' = Queued
        BY <4>2, <4>4, <4>5 DEF Queued
      <4>7. \A u \in Queued : loc[u] = "waiting"
        BY <4>5, QueuedVehicles, RidingNeedsStop DEF Shape, Lined
      <4>8. QED
        BY <4>2, <4>3, <4>4, <4>5, <4>6, <4>7, PassedOnShape DEF Shape, Lined, DueFirst
    <3>7. QED  BY <2>4, <3>1, <3>2, <3>3, <3>4, <3>5, <3>6 DEF Insertion
  <2>5. CASE EndPhase
    <3>1. CASE EndEmit
      <4>1. /\ pending = <<>> /\ pending' = refused /\ refused' = <<>>
            /\ UNCHANGED <<queue, loc, teleporting, parking, stopVars, depart, now>>
            /\ phase = "emit"
        BY <3>1 DEF EndEmit
      <4>2. ToSet(pending) = {} /\ ToSet(refused') = {} /\ IsInjective(refused')
        BY <4>1 DEF ToSet, IsInjective
      <4>3. Queued' = Queued
        BY <4>1, <4>2 DEF Queued
      <4>4. ASSUME NEW v \in Queued  PROVE loc[v] = "waiting"
        <5> SUFFICES ASSUME Riding(v)  PROVE FALSE
          BY <4>4 DEF Shape, Lined
        <5>1. v \in queue
          BY <4>2 DEF Riding, Queued
        <5>2. depart[v] <= now /\ depart[v] > now
          BY <4>1, <5>1, QueuedVehicles, RidingNeedsStop DEF Shape, DueFirst
        <5>3. depart[v] \in Int /\ now \in Int
          BY <5>1 DEF TypeOK
        <5>4. QED  BY <5>2, <5>3
      <4>5. QED
        BY <4>1, <4>2, <4>3, <4>4, PassedOnShape DEF Shape, Lined, DueFirst
    <3>2. CASE ~EndEmit
      <4>1. /\ phase \in RidePhases => phase' \in RidePhases
            /\ phase' \notin {"emit", "transfer"}
            /\ UNCHANGED <<loc, stopVars, queue, pending, refused, teleporting, parking,
                           depart>>
        BY <2>5, <3>2
           DEF EndPhase, StartStep, EndEvents, EndMove, EndLoad, EndPersons, EndFlows,
               EndStep
      <4>2. now' >= now
        BY <2>5, <3>2
           DEF EndPhase, StartStep, EndEvents, EndMove, EndLoad, EndPersons, EndFlows,
               EndStep, TypeOK
      <4>3. QED  BY <4>1, <4>2, SameShape
    <3>3. QED  BY <3>1, <3>2
  <2>6. CASE UNCHANGED vars
    BY <2>6, SameShapeNow DEF vars
  <2>7. QED  BY <2>1, <2>2, <2>3, <2>4, <2>5, <2>6 DEF Next, Terminated
<1>3. QED  BY <1>1, <1>2, TypeCorrect, PTL DEF Spec
-----------------------------------------------------------------------------
(* The counters of MSVehicleControl. *)

(* There are finitely many departed vehicles. *)
LEMMA DepartedFinite == IsFiniteSet(Departed) /\ Cardinality(Departed) \in Nat
<1>1. Departed \subseteq Veh /\ IsFiniteSet(Veh)
  BY ConstantsAssumption DEF Departed
<1>2. QED  BY <1>1, FS_Subset, FS_CardinalityType

(* scheduleVehicleRemoval of a departed vehicle keeps the running counter. *)
LEMMA RemovalCounted ==
    ASSUME TypeOK, RunningIsDeparted, NEW v \in Departed, ScheduleVehicleRemoval(v)
    PROVE  RunningIsDeparted'
<1>1. Departed' = Departed \ {v}
  BY DEF Departed, ScheduleVehicleRemoval, TypeOK
<1>2. Cardinality(Departed \ {v}) = Cardinality(Departed) - 1
  BY DepartedFinite, FS_RemoveElement
<1>3. QED  BY <1>1, <1>2 DEF RunningIsDeparted, ScheduleVehicleRemoval

(* enterLaneAtInsertion counts a departure if it is one. *)
LEMMA EntryCounted ==
    ASSUME TypeOK, RunningIsDeparted, NEW v \in Veh, EnterLane(v)
    PROVE  RunningIsDeparted'
<1>1. Departed' = Departed \cup {v}
  BY DEF Departed, EnterLane, TypeOK
<1>2. CASE v \in Departed
  BY <1>1, <1>2 DEF RunningIsDeparted, EnterLane
<1>3. CASE v \notin Departed
  <2>1. Cardinality(Departed \cup {v}) = Cardinality(Departed) + 1
    BY <1>3, DepartedFinite, FS_AddElement
  <2>2. QED  BY <1>1, <1>3, <2>1 DEF RunningIsDeparted, EnterLane
<1>4. QED  BY <1>2, <1>3

(* A step that changes neither the counter nor who has departed. *)
LEMMA DepartureUnchanged ==
    ASSUME RunningIsDeparted, UNCHANGED running,
           \A u \in Veh : loc'[u] # loc[u] => u \notin Departed /\ u \notin Departed'
    PROVE  RunningIsDeparted'
<1>1. Departed' = Departed
  BY DEF Departed
<1>2. QED  BY <1>1 DEF RunningIsDeparted

(* The running counter is the number of departed vehicles that exist: every
   way onto the first lane is counted once and every removal of a departed
   vehicle is counted once. *)
THEOREM RunningCorrect ==
    ASSUME PlainMoves, RidersMeetOnRoad
    PROVE  Spec => []RunningIsDeparted
<1>1. Init => RunningIsDeparted
  <2> SUFFICES ASSUME Init  PROVE RunningIsDeparted
    OBVIOUS
  <2>1. Departed = {}
    BY DEF Init, Departed
  <2>2. QED  BY <2>1, FS_EmptySet DEF Init, RunningIsDeparted
<1>2. TypeOK /\ Shape /\ RunningIsDeparted /\ [Next]_vars => RunningIsDeparted'
  <2> SUFFICES ASSUME TypeOK, Shape, RunningIsDeparted, [Next]_vars
               PROVE  RunningIsDeparted'
    OBVIOUS
  <2> USE DEF counterVars
  <2>1. CASE Client
    <3>1. ASSUME NEW v \in Veh, NEW d \in (now..Horizon) \cup {-1}, TraciAdd(v, d)
          PROVE  RunningIsDeparted'
      BY <3>1, DepartureUnchanged DEF TraciAdd, Build, TypeOK, Departed
    <3>2. ASSUME NEW v \in Veh, TraciRemove(v)  PROVE RunningIsDeparted'
      BY <3>2, RemovalCounted DEF TraciRemove
    <3>3. ASSUME NEW v \in Veh, TraciMoveTo(v)  PROVE RunningIsDeparted'
      BY <3>3, EntryCounted DEF TraciMoveTo
    <3>4. ASSUME NEW i \in DOMAIN pending, TraciClearPending(i)
          PROVE  RunningIsDeparted'
      <4>1. loc[pending[i]] = "waiting"
        <5>1. pending[i] \in ToSet(pending) /\ pending[i] \in Veh
          BY RemoveAtElements, ToSetByIndex DEF TypeOK
        <5>2. QED  BY <3>4, <5>1, QueuedWait DEF TraciClearPending, Queued, RidePhases
      <4>2. QED
        BY <3>4, <4>1, DepartureUnchanged
           DEF TraciClearPending, DiscardVehicle, TypeOK, Departed
    <3>5. CASE TraciAddInvalid
      BY <3>5, DepartureUnchanged DEF TraciAddInvalid
    <3>6. CASE TraciClose
      BY <3>6, DepartureUnchanged DEF TraciClose
    <3>7. QED  BY <2>1, <3>1, <3>2, <3>3, <3>4, <3>5, <3>6 DEF Client
  <2>2. CASE Traffic
    <3>1. ASSUME NEW v \in Veh, Leave(v)  PROVE RunningIsDeparted'
      BY <3>1, RemovalCounted DEF Leave, Departed
    <3>2. ASSUME NEW v \in Veh, TeleportOnLastEdge(v)  PROVE RunningIsDeparted'
      BY <3>2, RemovalCounted DEF TeleportOnLastEdge, Departed
    <3>3. ASSUME NEW v \in Veh, TeleportBeyondArrival(v)
          PROVE  RunningIsDeparted'
      <4>1. loc[v] = "teleport"
        BY <3>3 DEF TeleportBeyondArrival, Shape, TransferExact
      <4>2. QED  BY <3>3, <4>1, RemovalCounted DEF TeleportBeyondArrival, Departed
    <3>4. ASSUME NEW v \in Veh, Park(v) \/ Teleport(v)  PROVE RunningIsDeparted'
      <4>1. /\ v \in Departed /\ running' = running
            /\ loc' \in {[loc EXCEPT ![v] = "parking"], [loc EXCEPT ![v] = "teleport"]}
        BY <3>4 DEF Park, Teleport, Departed
      <4>2. Departed' = Departed
        BY <4>1 DEF Departed, TypeOK
      <4>3. QED  BY <4>1, <4>2 DEF RunningIsDeparted
    <3>5. ASSUME NEW v \in Veh, TeleportEnds(v) \/ ParkingEnds(v)
          PROVE  RunningIsDeparted'
      <4>1. /\ v \in Departed /\ running' = running
            /\ loc' = [loc EXCEPT ![v] = "lane"]
        BY <3>5 DEF TeleportEnds, ParkingEnds, Departed, Shape, TransferExact
      <4>2. Departed' = Departed
        BY <4>1 DEF Departed, TypeOK
      <4>3. QED  BY <4>1, <4>2 DEF RunningIsDeparted
    <3>6. ASSUME NEW v \in Veh, NEW b \in BOOLEAN,
                 ReachStop(v) \/ WaitAtStop(v, b) \/ LeaveStop(v, b)
          PROVE  RunningIsDeparted'
      BY <3>6, DepartureUnchanged DEF ReachStop, WaitAtStop, LeaveStop
    <3>7. ASSUME NEW e \in Edge, Vaporization(e)  PROVE RunningIsDeparted'
      BY <3>7, DepartureUnchanged DEF Vaporization
    <3>8. QED
      BY <2>2, <3>1, <3>2, <3>3, <3>4, <3>5, <3>6, <3>7 DEF Traffic
  <2>3. CASE Demand
    <3>1. ASSUME NEW v \in Veh, NEW d \in 0..FileHorizon, LoadVehicle(v, d)
          PROVE  RunningIsDeparted'
      BY <3>1, DepartureUnchanged DEF LoadVehicle, Build, TypeOK, Departed
    <3>2. ASSUME NEW v \in Veh, LoadTriggered(v)  PROVE RunningIsDeparted'
      BY <3>2, DepartureUnchanged DEF LoadTriggered, Build, TypeOK, Departed
    <3>3. ASSUME NEW v \in Veh, LoadDiscarded(v)  PROVE RunningIsDeparted'
      BY <3>3, DepartureUnchanged DEF LoadDiscarded, DiscardUnbuilt
    <3>4. ASSUME NEW v \in Veh, PersonTakesVehicle(v)  PROVE RunningIsDeparted'
      BY <3>4, DepartureUnchanged DEF PersonTakesVehicle
    <3>5. ASSUME NEW f \in Flow, FlowSkip(f)  PROVE RunningIsDeparted'
      BY <3>5, DepartureUnchanged DEF FlowSkip
    <3>6. ASSUME NEW f \in Flow, FlowClose(f)  PROVE RunningIsDeparted'
      BY <3>6, DepartureUnchanged DEF FlowClose
    <3>7. ASSUME NEW f \in Flow, FlowDiscarded(f)  PROVE RunningIsDeparted'
      BY <3>7, DepartureUnchanged DEF FlowDiscarded, DiscardUnbuilt
    <3>8. ASSUME NEW f \in Flow, NEW q \in Quotas, FlowRepetition(f, q)
          PROVE  RunningIsDeparted'
      BY <3>8, DepartureUnchanged DEF FlowRepetition, Departed
    <3>9. CASE IdClash
      BY <3>9, DepartureUnchanged DEF IdClash
    <3>10. QED  BY <2>3, <3>1, <3>2, <3>3, <3>4, <3>5, <3>6, <3>7, <3>8, <3>9
                DEF Demand
  <2>4. CASE Insertion
    <3>1. ASSUME NEW v \in Veh, TryInsertSucceeds(v)  PROVE RunningIsDeparted'
      BY <3>1, EntryCounted DEF TryInsertSucceeds
    <3>2. ASSUME NEW v \in Veh, NEW b \in BOOLEAN, TryInsertFails(v, b)
          PROVE  RunningIsDeparted'
      <4>1. loc[v] = "waiting"
        BY <3>2, PoppedPending DEF TryInsertFails
      <4>2. DiscardVehicle(v) \/ UNCHANGED <<loc, counterVars>>
        BY <3>2 DEF TryInsertFails
      <4>3. QED
        BY <4>1, <4>2, DepartureUnchanged DEF DiscardVehicle, TypeOK, Departed
    <3>3. ASSUME NEW v \in Veh, Release(v) \/ TryInsertOnRoad(v)
          PROVE  RunningIsDeparted'
      BY <3>3, DepartureUnchanged DEF Release, TryInsertOnRoad
    <3>4. ASSUME NEW passed \in SUBSET ToSet(pending), StartEmit(passed)
          PROVE  RunningIsDeparted'
      BY <3>4, DepartureUnchanged DEF StartEmit
    <3>5. CASE EmitSkip
      BY <3>5, DepartureUnchanged DEF EmitSkip
    <3>6. QED  BY <2>4, <3>1, <3>2, <3>3, <3>4, <3>5 DEF Insertion
  <2>5. CASE EndPhase
    BY <2>5, DepartureUnchanged
       DEF EndPhase, StartStep, EndEvents, EndMove, EndLoad, EndPersons, EndFlows,
           EndEmit, EndStep
  <2>6. CASE UNCHANGED vars
    BY <2>6, DepartureUnchanged DEF vars
  <2>7. QED  BY <2>1, <2>2, <2>3, <2>4, <2>5, <2>6 DEF Next, Terminated
<1>3. QED  BY <1>1, <1>2, TypeCorrect, ShapeKept, PTL DEF Spec

(* --max-num-vehicles holds at every moment, however vehicles depart. *)
THEOREM MaxNumberCorrect ==
    ASSUME PlainMoves
    PROVE  Spec => []MaxNumberKept
<1>1. Init => MaxNumberKept
  BY ConstantsAssumption DEF Init, MaxNumberKept
<1>2. TypeOK /\ MaxNumberKept /\ [Next]_vars => MaxNumberKept'
  <2> SUFFICES ASSUME TypeOK, MaxNumberKept, [Next]_vars, MaxVehicleNumber >= 0
               PROVE  running' <= MaxVehicleNumber
    BY DEF MaxNumberKept
  <2>1. running \in Int /\ running <= MaxVehicleNumber /\ MaxVehicleNumber \in Int
    BY ConstantsAssumption DEF TypeOK, MaxNumberKept
  <2> USE DEF counterVars
  <2>2. ASSUME NEW v \in Veh, TraciMoveTo(v)  PROVE running' <= MaxVehicleNumber
    BY <2>1, <2>2 DEF TraciMoveTo, EnterLane, PlainMoves
  <2>3. ASSUME NEW v \in Veh, TryInsertSucceeds(v)
        PROVE  running' <= MaxVehicleNumber
    BY <2>1, <2>3 DEF TryInsertSucceeds, Attempted, EnterLane
  <2>4. ASSUME NEW v \in Veh, ScheduleVehicleRemoval(v)
        PROVE  running' <= MaxVehicleNumber
    BY <2>1, <2>4 DEF ScheduleVehicleRemoval
  <2>5. ASSUME UNCHANGED running  PROVE running' <= MaxVehicleNumber
    BY <2>1, <2>5
  <2>6. CASE Client
    BY <2>2, <2>4, <2>5, <2>6
       DEF Client, TraciAdd, Build, TraciRemove, TraciClearPending, DiscardVehicle,
           TraciAddInvalid, TraciClose
  <2>7. CASE Traffic
    BY <2>4, <2>5, <2>7
       DEF Traffic, Leave, ReachStop, Park, Teleport, TeleportOnLastEdge, WaitAtStop,
           LeaveStop, TeleportEnds, TeleportBeyondArrival, ParkingEnds, Vaporization
  <2>8. CASE Demand
    BY <2>5, <2>8
       DEF Demand, LoadVehicle, LoadTriggered, LoadDiscarded, Build, DiscardUnbuilt,
           PersonTakesVehicle, FlowSkip, FlowClose, FlowDiscarded, FlowRepetition,
           IdClash
  <2>9. CASE Insertion
    <3>1. ASSUME NEW v \in Veh, NEW b \in BOOLEAN, TryInsertFails(v, b)
          PROVE  UNCHANGED running
      BY <3>1 DEF TryInsertFails, DiscardVehicle
    <3>2. QED
      BY <2>3, <2>5, <2>9, <3>1
         DEF Insertion, Release, TryInsertOnRoad, StartEmit, EmitSkip
  <2>10. CASE EndPhase
    BY <2>5, <2>10
       DEF EndPhase, StartStep, EndEvents, EndMove, EndLoad, EndPersons, EndFlows,
           EndEmit, EndStep
  <2>11. CASE UNCHANGED vars
    BY <2>5, <2>11 DEF vars
  <2>12. QED
    BY <2>6, <2>7, <2>8, <2>9, <2>10, <2>11 DEF Next, Terminated
<1>3. QED  BY <1>1, <1>2, TypeCorrect, PTL DEF Spec

(* No vehicle is brought onto a lane twice, or forgotten, by checkInsertions. *)
COROLLARY TransferCorrect ==
    ASSUME PlainMoves, RidersMeetOnRoad
    PROVE  Spec => []TransferExact
<1>1. Shape => TransferExact
  BY DEF Shape
<1>2. QED  BY <1>1, ShapeKept, PTL

(* If vehicles with depart="triggered" have no stops, then nobody takes a vehicle on
   the road (what happens otherwise is shown by the run "second_rider"). *)
TriggeredWithoutStops == \A v \in TrigVeh : StopOf[v] = "none"

LEMMA NobodyRides ==
    ASSUME TriggeredWithoutStops
    PROVE  /\ RidersMeetOnRoad
           /\ Shape => /\ WaitsOnce
                       /\ \A v \in Veh : Stopped(v) => v \in waiting
<1>1. ASSUME Shape, NEW v \in Veh, Stopped(v)  PROVE v \notin TrigVeh
  BY <1>1 DEF TriggeredWithoutStops, Shape, StopsSound, Stopped
<1>2. ASSUME Shape  PROVE WaitsOnce
  <2>1. \A v \in Queued : loc[v] = "waiting" /\ v \notin AwaitingRider
    BY <1>1, <1>2, ConstantsAssumption DEF Shape, Lined, Riding
  <2>2. QED  BY <1>2, <2>1 DEF Shape, Lined, WaitsOnce, AwaitingRider
<1>3. QED
  BY <1>1, <1>2 DEF TriggeredWithoutStops, RidersMeetOnRoad, Shape, StopsSound

(* Every vehicle waits for its departure in exactly one place, once. *)
COROLLARY WaitsOnceCorrect ==
    ASSUME PlainMoves, TriggeredWithoutStops
    PROVE  Spec => []WaitsOnce
<1>1. RidersMeetOnRoad /\ (Shape => WaitsOnce)
  BY NobodyRides
<1>2. QED  BY <1>1, ShapeKept, PTL

(* Persons find no vehicle to ride in that is gone or has moved on. *)
COROLLARY WaitingCorrect ==
    ASSUME PlainMoves, TriggeredWithoutStops
    PROVE  Spec => []WaitingIsReal
<1>1. RidersMeetOnRoad
  BY NobodyRides
<1>2. TypeOK /\ Shape => WaitingIsReal
  BY NobodyRides DEF TypeOK, Shape, StopsSound, WaitingIsReal, AwaitingRider
<1>3. QED  BY <1>1, <1>2, TypeCorrect, ShapeKept, PTL

(* Both sets the count is about are finite. *)
LEMMA AwaitingFinite ==
    ASSUME TypeOK
    PROVE  /\ IsFiniteSet(AwaitingRider) /\ Cardinality(AwaitingRider) \in Nat
           /\ IsFiniteSet(registered) /\ Cardinality(registered) \in Nat
<1>1. AwaitingRider \subseteq Veh /\ registered \subseteq Veh
  BY DEF AwaitingRider, TypeOK
<1>2. QED  BY <1>1, ConstantsAssumption, FS_Subset, FS_CardinalityType

(* Registering a vehicle, and clearing its registration, is counted once. *)
LEMMA RegistrationCounted ==
    ASSUME TypeOK, PersonWaitExact, AwaitingRider' = AwaitingRider, NEW v \in Veh,
           \/ /\ registered' = registered \ {v}
              /\ personWait' = IF v \in registered THEN personWait - 1 ELSE personWait
           \/ /\ registered' = registered \cup {v}
              /\ personWait' = IF v \in registered THEN personWait ELSE personWait + 1
    PROVE  PersonWaitExact'
<1>1. IsFiniteSet(registered) /\ Cardinality(registered) \in Nat
  BY AwaitingFinite
<1>2. IsFiniteSet(AwaitingRider) /\ Cardinality(AwaitingRider) \in Nat
  BY AwaitingFinite
<1>3. CASE registered' = registered
  <2>1. personWait' = personWait
    BY <1>3
  <2>2. QED  BY <1>3, <2>1 DEF PersonWaitExact
<1>4. CASE v \in registered /\ registered' = registered \ {v}
  <2>1. Cardinality(registered') = Cardinality(registered) - 1
    BY <1>1, <1>4, FS_RemoveElement
  <2>2. personWait' = personWait - 1
    BY <1>4
  <2>3. QED  BY <1>1, <1>2, <2>1, <2>2 DEF PersonWaitExact
<1>5. CASE v \notin registered /\ registered' = registered \cup {v}
  <2>1. Cardinality(registered') = Cardinality(registered) + 1
    BY <1>1, <1>5, FS_AddElement
  <2>2. personWait' = personWait + 1
    BY <1>5
  <2>3. QED  BY <1>1, <1>2, <2>1, <2>2 DEF PersonWaitExact
<1>6. QED  BY <1>3, <1>4, <1>5

(* A vehicle that is not waiting for its departure leaves its lane. *)
LEMMA LeavingKeepsPersonWait ==
    ASSUME TypeOK, Shape, PersonWaitExact, NEW v \in Veh, LeaveLane(v),
           loc[v] # "waiting", \A u \in Veh : u # v => loc'[u] = loc[u],
           loc'[v] # "waiting"
    PROVE  PersonWaitExact'
<1>1. /\ registered' = registered \ {v} /\ waiting' = waiting \ {v}
      /\ personWait' = IF v \in registered THEN personWait - 1 ELSE personWait
  BY LeaveLaneEffect DEF Shape
<1>2. AwaitingRider' = AwaitingRider
  BY <1>1 DEF AwaitingRider, TypeOK
<1>3. QED  BY <1>1, <1>2, RegistrationCounted

(* Nobody is registered, and the vehicles persons look for stay or come back. *)
LEMMA PersonWaitUnchanged ==
    ASSUME TypeOK, PersonWaitExact, UNCHANGED <<registered, personWait, waiting>>,
           \A u \in waiting \cap TrigVeh : loc'[u] = "waiting" <=> loc[u] = "waiting"
    PROVE  PersonWaitExact'
<1>1. AwaitingRider' = AwaitingRider
  BY DEF AwaitingRider, TypeOK
<1>2. QED  BY <1>1 DEF PersonWaitExact

(* myWaitingForPerson counts the vehicles that wait for a person: whoever stops
   waiting is taken out of the count exactly once. *)
THEOREM PersonWaitCorrect ==
    ASSUME PlainMoves, TriggeredWithoutStops
    PROVE  Spec => []PersonWaitExact
<1>1. Init => PersonWaitExact
  <2> SUFFICES ASSUME Init  PROVE PersonWaitExact
    OBVIOUS
  <2>1. registered = {} /\ AwaitingRider = {} /\ personWait = 0
    BY DEF Init, AwaitingRider
  <2>2. QED  BY <2>1, FS_EmptySet DEF PersonWaitExact
<1>2. TypeOK /\ Shape /\ PersonWaitExact /\ [Next]_vars => PersonWaitExact'
  <2> SUFFICES ASSUME TypeOK, Shape, PersonWaitExact, [Next]_vars
               PROVE  PersonWaitExact'
    OBVIOUS
  <2>0. \A u \in Veh : /\ loc[u] = "none" => u \notin waiting
                       /\ u \in waiting \cap TrigVeh /\ loc[u] = "waiting"
                             => u \in AwaitingRider
    BY DEF Shape, StopsSound, AwaitingRider
  <2> USE DEF stopVars
  <2>1. CASE Client
    <3>1. ASSUME NEW v \in Veh, NEW d \in (now..Horizon) \cup {-1}, TraciAdd(v, d)
          PROVE  PersonWaitExact'
      BY <3>1, <2>0, PersonWaitUnchanged DEF TraciAdd, Build, TypeOK
    <3>2. ASSUME NEW v \in Veh, TraciRemove(v)  PROVE PersonWaitExact'
      BY <3>2, LeavingKeepsPersonWait
         DEF TraciRemove, OnRemovalFromNet, ScheduleVehicleRemoval, Departed, TypeOK
    <3>3. ASSUME NEW v \in Veh, TraciMoveTo(v)  PROVE PersonWaitExact'
      BY <3>3, LeavingKeepsPersonWait
         DEF TraciMoveTo, OnRemovalFromNet, EnterLane, PlainMoves, Departed, TypeOK
    <3>4. ASSUME NEW i \in DOMAIN pending, TraciClearPending(i)
          PROVE  PersonWaitExact'
      <4>1. pending[i] \notin AwaitingRider
        <5>1. pending[i] \in ToSet(pending)
          BY RemoveAtElements DEF TypeOK
        <5>2. QED  BY <5>1 DEF Shape, Lined, Queued
      <4>2. \A u \in AwaitingRider : loc'[u] = loc[u]
        BY <3>4, <4>1 DEF TraciClearPending, DiscardVehicle, AwaitingRider, TypeOK
      <4>3. AwaitingRider' = AwaitingRider
        BY <3>4, <4>1 DEF TraciClearPending, DiscardVehicle, AwaitingRider, TypeOK
      <4>4. QED  BY <3>4, <4>3 DEF TraciClearPending, PersonWaitExact
    <3>5. CASE TraciAddInvalid
      BY <3>5, PersonWaitUnchanged DEF TraciAddInvalid
    <3>6. CASE TraciClose
      BY <3>6, PersonWaitUnchanged DEF TraciClose
    <3>7. QED  BY <2>1, <3>1, <3>2, <3>3, <3>4, <3>5, <3>6 DEF Client
  <2>2. CASE Traffic
    <3>1. ASSUME NEW v \in Veh, Leave(v)  PROVE PersonWaitExact'
      BY <3>1, LeavingKeepsPersonWait
         DEF Leave, OnRemovalFromNet, ScheduleVehicleRemoval, TypeOK
    <3>2. ASSUME NEW v \in Veh, TeleportOnLastEdge(v)  PROVE PersonWaitExact'
      BY <3>2, LeavingKeepsPersonWait
         DEF TeleportOnLastEdge, OnRemovalFromNet, ScheduleVehicleRemoval, TypeOK
    <3>3. ASSUME NEW v \in Veh, Teleport(v)  PROVE PersonWaitExact'
      BY <3>3, LeavingKeepsPersonWait DEF Teleport, TypeOK
    <3>4. ASSUME NEW v \in Veh, TeleportBeyondArrival(v)  PROVE PersonWaitExact'
      <4>1. loc[v] = "teleport"
        BY <3>4 DEF TeleportBeyondArrival, Shape, TransferExact
      <4>2. QED
        BY <3>4, <4>1, LeavingKeepsPersonWait
           DEF TeleportBeyondArrival, ScheduleVehicleRemoval, TypeOK
    <3>5. ASSUME NEW v \in Veh, Park(v)  PROVE PersonWaitExact'
      BY <3>5, PersonWaitUnchanged DEF Park, TypeOK
    <3>6. ASSUME NEW v \in Veh, TeleportEnds(v)  PROVE PersonWaitExact'
      BY <3>6, PersonWaitUnchanged DEF TeleportEnds, TypeOK, Shape, TransferExact
    <3>7. ASSUME NEW v \in Veh, ParkingEnds(v)  PROVE PersonWaitExact'
      BY <3>7, PersonWaitUnchanged DEF ParkingEnds, TypeOK, Shape, TransferExact
    <3>8. ASSUME NEW v \in Veh, ReachStop(v)  PROVE PersonWaitExact'
      <4>1. AwaitingRider' = AwaitingRider
        BY <3>8 DEF ReachStop, AwaitingRider, TypeOK
      <4>2. QED  BY <3>8, <4>1 DEF ReachStop, PersonWaitExact
    <3>9. ASSUME NEW v \in Veh, NEW b \in BOOLEAN, WaitAtStop(v, b)
          PROVE  PersonWaitExact'
      <4>1. AwaitingRider' = AwaitingRider
        BY <3>9 DEF WaitAtStop, AwaitingRider
      <4>2. CASE Triggered(v, b)
        BY <3>9, <4>1, <4>2, RegistrationCounted DEF WaitAtStop
      <4>3. CASE ~Triggered(v, b)
        BY <3>9, <4>1, <4>3, RegistrationCounted DEF WaitAtStop
      <4>4. QED  BY <4>2, <4>3
    <3>10. ASSUME NEW v \in Veh, NEW b \in BOOLEAN, LeaveStop(v, b)
           PROVE  PersonWaitExact'
      <4>1. LeaveLane(v)
        BY <3>10 DEF LeaveStop, LeaveLane
      <4>2. loc[v] # "waiting"
        BY <3>10 DEF LeaveStop, AtStop, Shape, TransferExact
      <4>3. QED  BY <3>10, <4>1, <4>2, LeavingKeepsPersonWait DEF LeaveStop
    <3>11. ASSUME NEW e \in Edge, Vaporization(e)  PROVE PersonWaitExact'
      BY <3>11, PersonWaitUnchanged DEF Vaporization
    <3>12. QED  BY <2>2, <3>1, <3>2, <3>3, <3>4, <3>5, <3>6, <3>7, <3>8, <3>9,
                   <3>10, <3>11 DEF Traffic
  <2>3. CASE Demand
    <3>1. ASSUME NEW v \in Veh, NEW d \in 0..FileHorizon, LoadVehicle(v, d)
          PROVE  PersonWaitExact'
      BY <3>1, <2>0, PersonWaitUnchanged DEF LoadVehicle, Build, TypeOK
    <3>2. ASSUME NEW v \in Veh, LoadTriggered(v)  PROVE PersonWaitExact'
      <4>1. AwaitingRider' = AwaitingRider \cup {v} /\ v \notin AwaitingRider
        BY <3>2, <2>0 DEF LoadTriggered, Build, AwaitingRider, TypeOK
      <4>2. Cardinality(AwaitingRider') = Cardinality(AwaitingRider) + 1
        BY <4>1, AwaitingFinite, FS_AddElement
      <4>3. registered' = registered /\ personWait' = personWait + 1
        BY <3>2 DEF LoadTriggered
      <4>4. QED  BY <4>2, <4>3, AwaitingFinite DEF PersonWaitExact
    <3>3. ASSUME NEW v \in Veh, LoadDiscarded(v)  PROVE PersonWaitExact'
      BY <3>3, PersonWaitUnchanged DEF LoadDiscarded
    <3>4. ASSUME NEW v \in Veh, PersonTakesVehicle(v)  PROVE PersonWaitExact'
      <4>1. AwaitingRider' = AwaitingRider \ {v} /\ v \in AwaitingRider
        <5>1. v \in waiting \cap TrigVeh /\ waiting' = waiting \ {v} /\ loc' = loc
          BY <3>4 DEF PersonTakesVehicle
        <5>2. ~Stopped(v)
          BY <5>1 DEF TriggeredWithoutStops, Shape, StopsSound, Stopped
        <5>3. v \in AwaitingRider
          BY <5>1, <5>2 DEF Shape, StopsSound, AwaitingRider
        <5>4. QED  BY <5>1, <5>3 DEF AwaitingRider
      <4>2. Cardinality(AwaitingRider') = Cardinality(AwaitingRider) - 1
        BY <4>1, AwaitingFinite, FS_RemoveElement
      <4>3. registered' = registered /\ personWait' = personWait - 1
        BY <3>4 DEF PersonTakesVehicle
      <4>4. QED  BY <4>2, <4>3, AwaitingFinite DEF PersonWaitExact
    <3>5. ASSUME NEW f \in Flow, FlowSkip(f)  PROVE PersonWaitExact'
      BY <3>5, PersonWaitUnchanged DEF FlowSkip
    <3>6. ASSUME NEW f \in Flow, FlowClose(f)  PROVE PersonWaitExact'
      BY <3>6, PersonWaitUnchanged DEF FlowClose
    <3>7. ASSUME NEW f \in Flow, FlowDiscarded(f)  PROVE PersonWaitExact'
      BY <3>7, PersonWaitUnchanged DEF FlowDiscarded
    <3>8. ASSUME NEW f \in Flow, NEW q \in Quotas, FlowRepetition(f, q)
          PROVE  PersonWaitExact'
      BY <3>8, <2>0, PersonWaitUnchanged DEF FlowRepetition, TypeOK
    <3>9. CASE IdClash
      BY <3>9, PersonWaitUnchanged DEF IdClash
    <3>10. QED  BY <2>3, <3>1, <3>2, <3>3, <3>4, <3>5, <3>6, <3>7, <3>8, <3>9
                DEF Demand
  <2>4. CASE Insertion
    <3>0. ASSUME NEW v \in Veh, NEW x, Trying(v), pending' = Tail(pending),
                 UNCHANGED stopVars, loc' = [loc EXCEPT ![v] = x], x # "waiting"
          PROVE  PersonWaitExact'
      <4>1. v \notin AwaitingRider
        BY <3>0, PoppedPending DEF Shape, Lined, Queued
      <4>2. AwaitingRider' = AwaitingRider
        BY <3>0, <4>1 DEF AwaitingRider, TypeOK
      <4>3. QED  BY <3>0, <4>2 DEF PersonWaitExact
    <3>1. ASSUME NEW v \in Veh, TryInsertSucceeds(v)  PROVE PersonWaitExact'
      BY <3>0, <3>1 DEF TryInsertSucceeds, EnterLane
    <3>2. ASSUME NEW v \in Veh, NEW b \in BOOLEAN, TryInsertFails(v, b)
          PROVE  PersonWaitExact'
      <4>1. DiscardVehicle(v) \/ UNCHANGED <<loc, counterVars>>
        BY <3>2 DEF TryInsertFails
      <4>2. Trying(v) /\ pending' = Tail(pending) /\ UNCHANGED stopVars
        BY <3>2 DEF TryInsertFails
      <4>3. CASE DiscardVehicle(v)
        BY <3>0, <4>2, <4>3 DEF DiscardVehicle
      <4>4. CASE UNCHANGED <<loc, counterVars>>
        BY <4>2, <4>4, PersonWaitUnchanged
      <4>5. QED  BY <4>1, <4>3, <4>4
    <3>3. ASSUME NEW v \in Veh, Release(v)  PROVE PersonWaitExact'
      BY <3>3, PersonWaitUnchanged DEF Release
    <3>4. ASSUME NEW v \in Veh, TryInsertOnRoad(v)  PROVE PersonWaitExact'
      BY <3>4, PersonWaitUnchanged DEF TryInsertOnRoad
    <3>5. ASSUME NEW passed \in SUBSET ToSet(pending), StartEmit(passed)
          PROVE  PersonWaitExact'
      BY <3>5, PersonWaitUnchanged DEF StartEmit
    <3>6. CASE EmitSkip
      BY <3>6, PersonWaitUnchanged DEF EmitSkip
    <3>7. QED  BY <2>4, <3>1, <3>2, <3>3, <3>4, <3>5, <3>6 DEF Insertion
  <2>5. CASE EndPhase
    BY <2>5, PersonWaitUnchanged
       DEF EndPhase, StartStep, EndEvents, EndMove, EndLoad, EndPersons, EndFlows,
           EndEmit, EndStep
  <2>6. CASE UNCHANGED vars
    BY <2>6, PersonWaitUnchanged DEF vars
  <2>7. QED  BY <2>1, <2>2, <2>3, <2>4, <2>5, <2>6 DEF Next, Terminated
<1>3. QED  BY <1>1, <1>2, NobodyRides, TypeCorrect, ShapeKept, PTL DEF Spec
=============================================================================
