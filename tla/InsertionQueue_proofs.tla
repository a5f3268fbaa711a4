------------------------ MODULE InsertionQueue_proofs ------------------------
(***************************************************************************)
(* Theorems about the insertion queue of VehicleLifecycle and about who is *)
(* taken out of the simulation: what emitVehicles does to the vehicles on  *)
(* the road, to those that waited too long and to the flows that wait; the *)
(* counters, and what is left when the run ends.                           *)
(***************************************************************************)
EXTENDS VehicleLifecycle_proofs

-----------------------------------------------------------------------------
(* What a step may be in a phase. *)

(* While emitVehicles runs, vehicles are tried and nothing else happens. *)
LEMMA EmitSteps ==
    ASSUME [Next]_vars, phase = "emit"
    PROVE  \/ \E v \in Veh : \/ TryInsertOnRoad(v) \/ TryInsertSucceeds(v)
                             \/ \E b \in BOOLEAN : TryInsertFails(v, b)
           \/ EmitSkip \/ EndEmit \/ UNCHANGED vars
<1>1. CASE Client
  BY <1>1 DEF Client, TraciAdd, TraciRemove, TraciMoveTo, TraciClearPending,
              TraciAddInvalid, TraciClose
<1>2. CASE Traffic
  BY <1>2 DEF Traffic, Leave, ReachStop, Park, Teleport, TeleportOnLastEdge, WaitAtStop,
              LeaveStop, AtStop, TeleportEnds, TeleportBeyondArrival, ParkingEnds,
              Vaporization
<1>3. CASE Demand
  BY <1>3 DEF Demand, LoadVehicle, LoadTriggered, LoadDiscarded, PersonTakesVehicle,
              FlowSkip, FlowClose, FlowDiscarded, FlowRepetition, IdClash, Visiting
<1>4. CASE Insertion
  BY <1>4 DEF Insertion, Release, StartEmit
<1>5. CASE EndPhase
  BY <1>5 DEF EndPhase, StartStep, EndEvents, EndMove, EndLoad, EndPersons, EndFlows,
              EndStep
<1>6. QED  BY <1>1, <1>2, <1>3, <1>4, <1>5 DEF Next, Terminated

(* In the other phases nothing is refused; emitVehicles is entered by StartEmit only,
   and afterwards the queue rests until the step ends. *)
LEMMA RestSteps ==
    ASSUME [Next]_vars, phase # "emit"
    PROVE  /\ refused' = refused
           /\ \/ \E passed \in SUBSET ToSet(pending) : StartEmit(passed)
              \/ phase' \notin {"emit", "transfer"}
              \/ phase = "transfer" /\ UNCHANGED <<timeVars, depart, queue, emitVars,
                                                   flowVars, loaderVars>>
<1> USE DEF timeVars, emitVars, flowVars, loaderVars
<1>1. CASE Client
  BY <1>1 DEF Client, TraciAdd, TraciRemove, TraciMoveTo, TraciClearPending,
              TraciAddInvalid, TraciClose
<1>2. CASE Traffic
  BY <1>2 DEF Traffic, Leave, ReachStop, Park, Teleport, TeleportOnLastEdge, WaitAtStop,
              LeaveStop, AtStop, TeleportEnds, TeleportBeyondArrival, ParkingEnds,
              Vaporization
<1>3. CASE Demand
  BY <1>3 DEF Demand, LoadVehicle, LoadTriggered, LoadDiscarded, PersonTakesVehicle,
              FlowSkip, FlowClose, FlowDiscarded, FlowRepetition, IdClash, Visiting
<1>4. CASE Insertion
  BY <1>4 DEF Insertion, Release, StartEmit, EmitSkip, TryInsertOnRoad,
              TryInsertSucceeds, TryInsertFails, Trying
<1>5. CASE EndPhase
  BY <1>5 DEF EndPhase, StartStep, EndEvents, EndMove, EndLoad, EndPersons, EndFlows,
              EndEmit, EndStep
<1>6. CASE UNCHANGED vars
  BY <1>6 DEF vars
<1>7. QED  BY <1>1, <1>2, <1>3, <1>4, <1>5, <1>6 DEF Next, Terminated

-----------------------------------------------------------------------------
(* --max-depart-delay. *)

(* The vehicles refused so far in this step did not wait too long, and between the
   steps nobody is left in refusedEmits. *)
Timely == /\ phase # "emit" => refused = <<>>
          /\ phase = "emit" => \A v \in ToSet(refused) : ~Overdue(v)
          /\ SkippedInTime

(* Without automatic routing every pending vehicle is tried in every step, and one
   that waited longer than --max-depart-delay is not pending after it.  (With
   automatic routing the vehicles that find no room are refused unseen.) *)
THEOREM SkippedCorrect ==
    ASSUME ~PreCheck
    PROVE  Spec => []SkippedInTime
<1>1. Init => Timely
  BY DEF Init, Timely, SkippedInTime
<1>2. TypeOK /\ Timely /\ [Next]_vars => Timely'
  <2> SUFFICES ASSUME TypeOK, Timely, [Next]_vars  PROVE Timely'
    OBVIOUS
  <2>1. CASE phase = "emit"
    <3>1. ASSUME NEW v \in Veh, TryInsertOnRoad(v) \/ TryInsertSucceeds(v)
          PROVE  Timely'
      BY <2>1, <3>1
         DEF TryInsertOnRoad, TryInsertSucceeds, Timely, SkippedInTime, Overdue, timeVars
    <3>2. ASSUME NEW v \in Veh, NEW b \in BOOLEAN, TryInsertFails(v, b)
          PROVE  Timely'
      <4>1. UNCHANGED <<phase, now, depart>>
        BY <3>2 DEF TryInsertFails, timeVars
      <4>2. refused' = refused \/ (refused' = Append(refused, v) /\ ~Overdue(v))
        BY <3>2 DEF TryInsertFails
      <4>3. ToSet(refused') \subseteq ToSet(refused) \cup {v}
            /\ (v \in ToSet(refused') => v \in ToSet(refused) \/ ~Overdue(v))
        <5>1. ToSet(Append(refused, v)) = ToSet(refused) \cup {v}
          BY AppendElements DEF TypeOK
        <5>2. QED  BY <4>2, <5>1
      <4>4. QED  BY <2>1, <4>1, <4>3 DEF Timely, SkippedInTime, Overdue
    <3>3. CASE EmitSkip
      BY <3>3 DEF EmitSkip
    <3>4. CASE EndEmit
      BY <2>1, <3>4 DEF EndEmit, Timely, SkippedInTime, Overdue
    <3>5. CASE UNCHANGED vars
      BY <3>5 DEF vars, timeVars, emitVars, Timely, SkippedInTime, Overdue
    <3>6. QED  BY <2>1, <3>1, <3>2, <3>3, <3>4, <3>5, EmitSteps
  <2>2. CASE phase # "emit"
    <3>1. refused' = <<>> /\ ToSet(<<>>) = {}
      BY <2>2, RestSteps DEF Timely, ToSet
    <3>2. ASSUME NEW passed \in SUBSET ToSet(pending), StartEmit(passed)
          PROVE  Timely'
      BY <3>1, <3>2 DEF StartEmit, Timely, SkippedInTime
    <3>3. CASE phase' \notin {"emit", "transfer"}
      BY <3>1, <3>3 DEF Timely, SkippedInTime
    <3>4. CASE phase = "transfer" /\ UNCHANGED <<timeVars, depart, queue, emitVars,
                                                 flowVars, loaderVars>>
      BY <3>1, <3>4 DEF Timely, SkippedInTime, Overdue, timeVars, emitVars
    <3>5. QED  BY <2>2, <3>2, <3>3, <3>4, RestSteps
  <2>3. QED  BY <2>1, <2>2
<1>3. Timely => SkippedInTime
  BY DEF Timely
<1>4. QED  BY <1>1, <1>2, <1>3, TypeCorrect, PTL DEF Spec
-----------------------------------------------------------------------------
(* checkFlowWait. *)

(* Whoever a flow waits for is in the insertion queue and has not departed. *)
FlowsWait == \A f \in Flow : LET v == flow[f].vehicle
                             IN v # None => v \in Queued /\ loc[v] = "waiting"

(* A step that unblocks no flow takes none of the waiting vehicles away. *)
LEMMA WaitersStay ==
    ASSUME FlowsWait, UNCHANGED flow, Queued \subseteq Queued',
           \A v \in Queued : loc[v] = "waiting" => loc'[v] = "waiting"
    PROVE  FlowsWait'
  BY DEF FlowsWait

(* The vehicle that leaves the queue is the one checkFlowWait is called for. *)
LEMMA WaiterGone ==
    ASSUME TypeOK, FlowsWait, NEW v \in Veh, CheckFlowWait(v),
           Queued \ {v} \subseteq Queued',
           \A u \in Veh : u # v => loc'[u] = loc[u]
    PROVE  FlowsWait'
<1>1. ASSUME NEW f \in Flow, flow'[f].vehicle # None
      PROVE  flow'[f].vehicle = flow[f].vehicle /\ flow[f].vehicle # v
  BY <1>1 DEF CheckFlowWait, TypeOK
<1>2. \A f \in Flow : flow[f].vehicle \in Veh \cup {None}
  BY DEF TypeOK
<1>3. QED  BY <1>1, <1>2 DEF FlowsWait

(* A flow waits only for a vehicle that is still to be inserted, if the client does
   not clear pending vehicles: clearPendingVehicles is the way out of the queue that
   does not call checkFlowWait (run "cleared_flow"). *)
THEOREM FlowBlockCorrect ==
    ASSUME PlainMoves, RidersMeetOnRoad, "clearPending" \notin ClientCommands
    PROVE  Spec => []FlowBlockIsReal
<1>1. Init => FlowsWait
  BY DEF Init, FlowsWait
<1>2. TypeOK /\ Shape /\ FlowsWait /\ [Next]_vars => FlowsWait'
  <2> SUFFICES ASSUME TypeOK, Shape, FlowsWait, [Next]_vars  PROVE FlowsWait'
    OBVIOUS
  <2> USE DEF emitVars, flowVars
  <2>1. CASE Client
    <3>1. ASSUME NEW v \in Veh, NEW d \in (now..Horizon) \cup {-1}, TraciAdd(v, d)
          PROVE  FlowsWait'
      BY <3>1, WaitersStay DEF TraciAdd, Build, Queued, TypeOK
    <3>2. ASSUME NEW v \in Veh, TraciRemove(v)  PROVE FlowsWait'
      BY <3>2, WaitersStay
         DEF TraciRemove, ScheduleVehicleRemoval, Departed, Queued, TypeOK
    <3>3. ASSUME NEW v \in Veh, TraciMoveTo(v)  PROVE FlowsWait'
      BY <3>3, WaitersStay
         DEF TraciMoveTo, EnterLane, Departed, PlainMoves, Queued, TypeOK
    <3>4. ASSUME TraciAddInvalid \/ TraciClose  PROVE FlowsWait'
      BY <3>4, WaitersStay DEF TraciAddInvalid, TraciClose, Queued
    <3>5. QED
      BY <2>1, <3>1, <3>2, <3>3, <3>4 DEF Client, TraciClearPending
  <2>2. CASE Traffic
    <3>1. ASSUME NEW v \in Veh, Leave(v) \/ TeleportOnLastEdge(v)  PROVE FlowsWait'
      <4>1. loc[v] = "lane" /\ UNCHANGED <<flow, queue, pending, refused>>
            /\ \A u \in Veh : u # v => loc'[u] = loc[u]
        BY <3>1 DEF Leave, TeleportOnLastEdge, ScheduleVehicleRemoval, TypeOK
      <4>2. QED  BY <4>1, WaitersStay, QueuedVehicles DEF Queued
    <3>2. ASSUME NEW v \in Veh, NEW b \in BOOLEAN,
                 ReachStop(v) \/ WaitAtStop(v, b) \/ LeaveStop(v, b)
          PROVE  FlowsWait'
      BY <3>2, WaitersStay DEF ReachStop, WaitAtStop, LeaveStop, Queued
    <3>3. ASSUME NEW v \in Veh, Park(v) \/ Teleport(v)  PROVE FlowsWait'
      <4>1. loc[v] = "lane" /\ UNCHANGED <<flow, queue, pending, refused>>
            /\ \A u \in Veh : u # v => loc'[u] = loc[u]
        BY <3>3 DEF Park, Teleport, TypeOK
      <4>2. QED  BY <4>1, WaitersStay, QueuedVehicles DEF Queued
    <3>4. ASSUME NEW v \in Veh,
                 TeleportEnds(v) \/ TeleportBeyondArrival(v) \/ ParkingEnds(v)
          PROVE  FlowsWait'
      <4>1. loc[v] # "waiting" /\ UNCHANGED <<flow, queue, pending, refused>>
            /\ \A u \in Veh : u # v => loc'[u] = loc[u]
        BY <3>4 DEF TeleportEnds, TeleportBeyondArrival, ParkingEnds,
                    ScheduleVehicleRemoval, Shape, TransferExact, TypeOK
      <4>2. QED  BY <4>1, WaitersStay, QueuedVehicles DEF Queued
    <3>5. ASSUME NEW e \in Edge, Vaporization(e)  PROVE FlowsWait'
      BY <3>5, WaitersStay DEF Vaporization, Queued
    <3>6. QED  BY <2>2, <3>1, <3>2, <3>3, <3>4, <3>5 DEF Traffic
  <2>3. CASE Demand
    <3>1. ASSUME NEW v \in Veh, NEW d \in 0..FileHorizon, LoadVehicle(v, d)
          PROVE  FlowsWait'
      BY <3>1, WaitersStay DEF LoadVehicle, Build, Queued, TypeOK
    <3>2. ASSUME NEW v \in Veh, LoadTriggered(v)  PROVE FlowsWait'
      BY <3>2, WaitersStay DEF LoadTriggered, Build, Queued, TypeOK
    <3>3. ASSUME NEW v \in Veh, LoadDiscarded(v) \/ PersonTakesVehicle(v)
          PROVE  FlowsWait'
      BY <3>3, WaitersStay DEF LoadDiscarded, PersonTakesVehicle, Queued
    <3>4. ASSUME NEW f \in Flow, FlowSkip(f)  PROVE FlowsWait'
      BY <3>4, WaitersStay DEF FlowSkip, Queued
    <3>8. CASE IdClash
      BY <3>8, WaitersStay DEF IdClash, Queued
    <3>5. ASSUME NEW f \in Flow, FlowClose(f) \/ FlowDiscarded(f)
          PROVE  FlowsWait'
      <4>1. \A g \in Flow : flow'[g].vehicle \in {flow[g].vehicle, None}
        <5>1. CASE FlowClose(f)
          BY <5>1 DEF FlowClose, TypeOK
        <5>2. CASE FlowDiscarded(f)
          BY <5>2 DEF FlowDiscarded, Repeated, TypeOK
        <5>3. QED  BY <3>5, <5>1, <5>2
      <4>2. UNCHANGED <<loc, queue, pending, refused>>
        BY <3>5 DEF FlowClose, FlowDiscarded
      <4>3. QED  BY <4>1, <4>2 DEF FlowsWait, Queued
    <3>6. ASSUME NEW f \in Flow, NEW q \in Quotas, FlowRepetition(f, q)
          PROVE  FlowsWait'
      <4> DEFINE last == FlowVeh[f][flow[f].index + q]
      <4>1. q \in 1..q /\ q \in Nat
        BY <3>6, ConstantsAssumption DEF FlowRepetition
      <4>2. last \in NextIds(f, q) /\ last \in Veh
        <5>1. /\ flow[f].index \in Nat /\ flow[f].index + q <= Len(FlowVeh[f])
          BY <3>6 DEF FlowRepetition, TypeOK
        <5>2. QED  BY <4>1, <5>1, FlowIdType DEF NextIds
      <4>3. /\ loc' = [v \in Veh |-> IF v \in NextIds(f, q) THEN "waiting" ELSE loc[v]]
            /\ queue' = queue \cup NextIds(f, q)
            /\ UNCHANGED <<pending, refused>>
            /\ flow' = Repeated(f, q, last)
        BY <3>6 DEF FlowRepetition
      <4> HIDE DEF last
      <4>4. \A g \in Flow : flow'[g].vehicle = IF g = f THEN last ELSE flow[g].vehicle
        BY <4>3 DEF Repeated, TypeOK
      <4>5. Queued \cup {last} \subseteq Queued' /\ loc'[last] = "waiting"
        BY <4>2, <4>3 DEF Queued
      <4>6. \A v \in Queued : loc[v] = "waiting" => loc'[v] = "waiting"
        BY <4>3, QueuedVehicles
      <4>7. QED  BY <4>4, <4>5, <4>6 DEF FlowsWait
    <3>7. QED  BY <2>3, <3>1, <3>2, <3>3, <3>4, <3>5, <3>6, <3>8 DEF Demand
  <2>4. CASE Insertion
    <3>1. ASSUME NEW v \in Veh, Release(v)  PROVE FlowsWait'
      <4>1. ToSet(Append(pending, v)) = ToSet(pending) \cup {v}
        BY AppendElements DEF TypeOK
      <4>2. UNCHANGED <<loc, flow, refused>> /\ Queued \subseteq Queued'
        BY <3>1, <4>1 DEF Release, Queued
      <4>3. QED  BY <4>2, WaitersStay
    <3>2. ASSUME NEW v \in Veh, TryInsertOnRoad(v)  PROVE FlowsWait'
      <4>1. /\ ToSet(pending') = ToSet(pending) \ {v} /\ loc[v] = "lane"
            /\ UNCHANGED <<loc, flow, queue, refused>>
        BY <3>2, PoppedPending DEF TryInsertOnRoad
      <4>2. Queued \ {v} \subseteq Queued'
        BY <4>1 DEF Queued
      <4>3. QED  BY <4>1, <4>2 DEF FlowsWait
    <3>3. ASSUME NEW v \in Veh, TryInsertSucceeds(v)  PROVE FlowsWait'
      <4>1. /\ ToSet(pending') = ToSet(pending) \ {v}
            /\ UNCHANGED <<queue, refused>> /\ CheckFlowWait(v)
            /\ \A u \in Veh : u # v => loc'[u] = loc[u]
        BY <3>3, PoppedPending DEF TryInsertSucceeds, EnterLane, TypeOK
      <4>2. Queued \ {v} \subseteq Queued'
        BY <4>1 DEF Queued
      <4>3. QED  BY <4>1, <4>2, WaiterGone
    <3>4. ASSUME NEW v \in Veh, NEW b \in BOOLEAN, TryInsertFails(v, b)
          PROVE  FlowsWait'
      <4>1. ToSet(pending') = ToSet(pending) \ {v} /\ UNCHANGED queue
        BY <3>4, PoppedPending DEF TryInsertFails
      <4>2. \/ CheckFlowWait(v) /\ DiscardVehicle(v) /\ UNCHANGED refused
            \/ refused' = Append(refused, v) /\ UNCHANGED <<loc, flow>>
        BY <3>4 DEF TryInsertFails
      <4>3. CASE CheckFlowWait(v) /\ DiscardVehicle(v) /\ UNCHANGED refused
        <5>1. Queued \ {v} \subseteq Queued'
          BY <4>1, <4>3 DEF Queued
        <5>2. \A u \in Veh : u # v => loc'[u] = loc[u]
          BY <4>3 DEF DiscardVehicle, TypeOK
        <5>3. QED  BY <4>3, <5>1, <5>2, WaiterGone
      <4>4. CASE refused' = Append(refused, v) /\ UNCHANGED <<loc, flow>>
        <5>1. ToSet(refused') = ToSet(refused) \cup {v}
          BY <4>4, AppendElements DEF TypeOK
        <5>2. Queued \subseteq Queued'
          BY <4>1, <5>1 DEF Queued
        <5>3. QED  BY <4>4, <5>2, WaitersStay
      <4>5. QED  BY <4>2, <4>3, <4>4
    <3>5. ASSUME NEW passed \in SUBSET ToSet(pending), StartEmit(passed)
          PROVE  FlowsWait'
      BY <3>5, WaitersStay DEF StartEmit, Queued
    <3>6. CASE EmitSkip
      <4>1. /\ Head(pending) \in Veh
            /\ ToSet(pending) = {Head(pending)} \cup ToSet(Tail(pending))
            /\ ToSet(Append(refused, Head(pending))) = ToSet(refused) \cup {Head(pending)}
        BY <3>6, TailElements, AppendElements DEF EmitSkip, TypeOK
      <4>2. Queued \subseteq Queued' /\ UNCHANGED <<loc, flow>>
        BY <3>6, <4>1 DEF EmitSkip, Queued
      <4>3. QED  BY <4>2, WaitersStay
    <3>7. QED  BY <2>4, <3>1, <3>2, <3>3, <3>4, <3>5, <3>6 DEF Insertion
  <2>5. CASE EndPhase
    <3>1. CASE EndEmit
      <4>1. ToSet(<<>>) = {}
        BY DEF ToSet
      <4>2. Queued \subseteq Queued' /\ UNCHANGED <<loc, flow>>
        BY <3>1, <4>1 DEF EndEmit, Queued
      <4>3. QED  BY <4>2, WaitersStay
    <3>2. CASE ~EndEmit
      <4>1. UNCHANGED <<loc, flow, queue, pending, refused>>
        BY <2>5, <3>2
           DEF EndPhase, StartStep, EndEvents, EndMove, EndLoad, EndPersons, EndFlows,
               EndStep
      <4>2. QED  BY <4>1, WaitersStay DEF Queued
    <3>3. QED  BY <3>1, <3>2
  <2>6. CASE UNCHANGED vars
    BY <2>6, WaitersStay DEF vars, Queued
  <2>7. QED  BY <2>1, <2>2, <2>3, <2>4, <2>5, <2>6 DEF Next, Terminated
<1>3. FlowsWait => FlowBlockIsReal
  BY DEF FlowsWait, FlowBlockIsReal
<1>4. QED  BY <1>1, <1>2, <1>3, TypeCorrect, ShapeKept, PTL DEF Spec
-----------------------------------------------------------------------------
(* Who is discarded, and who emitVehicles leaves alone. *)

(* Every vehicle tryInsert is about to insert or to discard waits for its
   departure. *)
LEMMA TriedWaits ==
    ASSUME TypeOK, Shape, NEW v \in Veh,
           TryInsertSucceeds(v) \/ \E b \in BOOLEAN : TryInsertFails(v, b)
    PROVE  loc[v] = "waiting"
<1>1. Trying(v) /\ loc[v] # "lane" /\ pending' = Tail(pending)
  BY DEF TryInsertSucceeds, TryInsertFails
<1>2. QED  BY <1>1, PoppedPending

(* So does every vehicle the client clears. *)
LEMMA ClearedWaits ==
    ASSUME TypeOK, Shape, NEW i \in DOMAIN pending, TraciClearPending(i)
    PROVE  pending[i] \in Veh /\ loc[pending[i]] = "waiting"
<1>1. pending[i] \in ToSet(pending) /\ phase \notin RidePhases
  BY RemoveAtElements DEF TypeOK, TraciClearPending, RidePhases
<1>2. QED  BY <1>1, QueuedWait DEF Queued

(* A vehicle on the road leaves the simulation as an arrival, never as a discarded
   one: tryInsert and clearPendingVehicles, the callers of deleteVehicle with
   "discard", meet only vehicles that have not departed. *)
THEOREM DiscardCorrect ==
    ASSUME PlainMoves, RidersMeetOnRoad
    PROVE  Spec => OnlyWaitingDiscarded
<1>1. TypeOK /\ Shape /\ [Next]_vars =>
        [\A v \in Veh : loc[v] \in {"lane", "teleport", "parking"} /\ loc'[v] = "none"
            => discarded' = discarded /\ running' = running - 1]_vars
  <2> SUFFICES ASSUME TypeOK, Shape, [Next]_vars, NEW u \in Veh, u \in Departed,
                      loc'[u] = "none"
               PROVE  discarded' = discarded /\ running' = running - 1
    BY DEF Departed
  <2> DEFINE Arrival == discarded' = discarded /\ running' = running - 1
  <2>1. ASSUME NEW v \in Veh, ScheduleVehicleRemoval(v)  PROVE Arrival
    BY <2>1 DEF ScheduleVehicleRemoval
  <2>2. ASSUME NEW v \in Veh, loc[v] = "waiting", DiscardVehicle(v)  PROVE FALSE
    BY <2>2 DEF DiscardVehicle, Departed, TypeOK
  <2>3. ASSUME loc'[u] = loc[u]  PROVE FALSE
    BY <2>3 DEF Departed
  <2> SUFFICES Arrival
    OBVIOUS
  <2> HIDE DEF Arrival
  <2>4. CASE Client
    <3>1. ASSUME NEW v \in Veh, NEW d \in (now..Horizon) \cup {-1}, TraciAdd(v, d)  PROVE FALSE
      BY <2>3, <3>1 DEF TraciAdd, Build, TypeOK
    <3>2. ASSUME NEW v \in Veh, TraciMoveTo(v)  PROVE FALSE
      BY <2>3, <3>2 DEF TraciMoveTo, EnterLane, TypeOK
    <3>3. ASSUME NEW i \in DOMAIN pending, TraciClearPending(i)  PROVE FALSE
      BY <2>2, <3>3, ClearedWaits DEF TraciClearPending
    <3>4. QED
      BY <2>1, <2>3, <2>4, <3>1, <3>2, <3>3
         DEF Client, TraciRemove, TraciAddInvalid, TraciClose
  <2>5. CASE Traffic
    <3>1. ASSUME NEW v \in Veh, Park(v) \/ Teleport(v)  PROVE FALSE
      BY <2>3, <3>1 DEF Park, Teleport, TypeOK
    <3>2. ASSUME NEW v \in Veh, TeleportEnds(v) \/ ParkingEnds(v)  PROVE FALSE
      BY <2>3, <3>2 DEF TeleportEnds, ParkingEnds, TypeOK
    <3>3. QED
      BY <2>1, <2>3, <2>5, <3>1, <3>2
         DEF Traffic, Leave, ReachStop, TeleportOnLastEdge, WaitAtStop, LeaveStop,
             TeleportBeyondArrival, Vaporization
  <2>6. CASE Demand
    <3>1. ASSUME NEW v \in Veh, NEW d, Build(v, d)  PROVE FALSE
      BY <2>3, <3>1 DEF Build, TypeOK
    <3>2. ASSUME NEW f \in Flow, NEW q \in Quotas, FlowRepetition(f, q)  PROVE FALSE
      BY <2>3, <3>2 DEF FlowRepetition, TypeOK
    <3>3. QED
      BY <2>3, <2>6, <3>1, <3>2
         DEF Demand, LoadVehicle, LoadTriggered, LoadDiscarded, PersonTakesVehicle,
             FlowSkip, FlowClose, FlowDiscarded, IdClash
  <2>7. CASE Insertion
    <3>1. ASSUME NEW v \in Veh, TryInsertSucceeds(v)  PROVE FALSE
      BY <2>3, <3>1 DEF TryInsertSucceeds, EnterLane, TypeOK
    <3>2. ASSUME NEW v \in Veh, NEW b \in BOOLEAN, TryInsertFails(v, b)  PROVE FALSE
      <4>1. DiscardVehicle(v) \/ UNCHANGED loc
        BY <3>2 DEF TryInsertFails
      <4>2. QED  BY <2>2, <2>3, <3>2, <4>1, TriedWaits
    <3>3. QED
      BY <2>3, <2>7, <3>1, <3>2
         DEF Insertion, Release, TryInsertOnRoad, StartEmit, EmitSkip
  <2>8. CASE EndPhase
    BY <2>3, <2>8
       DEF EndPhase, StartStep, EndEvents, EndMove, EndLoad, EndPersons, EndFlows,
           EndEmit, EndStep
  <2>9. CASE UNCHANGED vars
    BY <2>3, <2>9 DEF vars
  <2>10. QED  BY <2>4, <2>5, <2>6, <2>7, <2>8, <2>9 DEF Next, Terminated
<1>2. QED
  BY <1>1, TypeCorrect, ShapeKept, PTL DEF Spec, OnlyWaitingDiscarded

(* emitVehicles moves no vehicle that has departed: one that a person took at a stop
   is in the insertion queue and on its lane, and tryInsert passes it over. *)
THEOREM SparedCorrect ==
    ASSUME PlainMoves, RidersMeetOnRoad
    PROVE  Spec => InsertionSparesRoad
<1>1. TypeOK /\ Shape /\ [Next]_vars =>
        [phase = "emit" => \A v \in Departed : loc'[v] = loc[v]]_vars
  <2> SUFFICES ASSUME TypeOK, Shape, [Next]_vars, phase = "emit", NEW u \in Departed
               PROVE  loc'[u] = loc[u]
    OBVIOUS
  <2>1. u \in Veh /\ loc[u] # "waiting"
    BY DEF Departed
  <2>2. ASSUME NEW v \in Veh, TryInsertSucceeds(v)  PROVE loc'[u] = loc[u]
    BY <2>1, <2>2, TriedWaits DEF TryInsertSucceeds, EnterLane, TypeOK
  <2>3. ASSUME NEW v \in Veh, NEW b \in BOOLEAN, TryInsertFails(v, b)
        PROVE  loc'[u] = loc[u]
    <3>1. DiscardVehicle(v) \/ UNCHANGED loc
      BY <2>3 DEF TryInsertFails
    <3>2. loc[v] = "waiting"
      BY <2>3, TriedWaits
    <3>3. QED  BY <2>1, <3>1, <3>2 DEF DiscardVehicle, TypeOK
  <2>4. QED
    BY <2>2, <2>3, EmitSteps DEF TryInsertOnRoad, EmitSkip, EndEmit, vars
<1>2. QED
  BY <1>1, TypeCorrect, ShapeKept, PTL DEF Spec, InsertionSparesRoad
-----------------------------------------------------------------------------
(* The counters loaded and ended. *)

(* There are finitely many vehicle objects. *)
LEMMA LiveFinite == Live \subseteq Veh /\ IsFiniteSet(Live) /\ Cardinality(Live) \in Nat
<1>1. Live \subseteq Veh /\ IsFiniteSet(Veh)
  BY ConstantsAssumption DEF Live
<1>2. QED  BY <1>1, FS_Subset, FS_CardinalityType

(* A vehicle is built and counted once. *)
LEMMA BuildCounted ==
    ASSUME TypeOK, LoadedBalance, NEW v \in Veh, NEW d, loc[v] = "none", Build(v, d)
    PROVE  LoadedBalance'
<1>1. Live' = Live \cup {v} /\ v \notin Live
  BY DEF Live, Build, TypeOK
<1>2. Cardinality(Live') = Cardinality(Live) + 1
  BY <1>1, LiveFinite, FS_AddElement
<1>3. loaded' = loaded + 1 /\ ended' = ended
  BY DEF Build
<1>4. QED  BY <1>2, <1>3, LiveFinite DEF LoadedBalance, TypeOK

(* A vehicle is deleted and counted once, whichever of the two ways it goes. *)
LEMMA DeleteCounted ==
    ASSUME TypeOK, LoadedBalance, NEW v \in Live,
           ScheduleVehicleRemoval(v) \/ DiscardVehicle(v)
    PROVE  LoadedBalance'
<1>1. Live' = Live \ {v}
  BY DEF Live, ScheduleVehicleRemoval, DiscardVehicle, TypeOK
<1>2. Cardinality(Live') = Cardinality(Live) - 1
  BY <1>1, LiveFinite, FS_RemoveElement
<1>3. loaded' = loaded /\ ended' = ended + 1
  BY DEF ScheduleVehicleRemoval, DiscardVehicle
<1>4. QED  BY <1>2, <1>3, LiveFinite DEF LoadedBalance, TypeOK

(* A vehicle that is not built counts as loaded and as ended. *)
LEMMA UnbuiltCounted ==
    ASSUME TypeOK, LoadedBalance, UNCHANGED loc, DiscardUnbuilt
    PROVE  LoadedBalance'
<1>1. Live' = Live
  BY DEF Live
<1>2. loaded' = loaded + 1 /\ ended' = ended + 1
  BY DEF DiscardUnbuilt
<1>3. QED  BY <1>1, <1>2, LiveFinite DEF LoadedBalance, TypeOK

(* The same vehicles exist and no counter moves. *)
LEMMA BalanceUnchanged ==
    ASSUME LoadedBalance, UNCHANGED <<loaded, ended>>,
           \A v \in Veh : loc'[v] = loc[v] \/ (loc[v] # "none" /\ loc'[v] # "none")
    PROVE  LoadedBalance'
<1>1. Live' = Live
  BY DEF Live
<1>2. QED  BY <1>1 DEF LoadedBalance

(* The ids of a flow are distinct: a repetition builds as many vehicles as the quota
   asks for. *)
LEMMA NextIdsCounted ==
    ASSUME TypeOK, NEW f \in Flow, NEW q \in Nat,
           flow[f].index + q <= Len(FlowVeh[f])
    PROVE  /\ NextIds(f, q) \subseteq Veh
           /\ IsFiniteSet(NextIds(f, q)) /\ Cardinality(NextIds(f, q)) = q
<1> DEFINE n == flow[f].index
           ids == [i \in 1..q |-> FlowVeh[f][n + i]]
<1>1. n \in Nat /\ FlowVeh[f] \in Seq(Veh) /\ IsInjective(FlowVeh[f])
  BY ConstantsAssumption DEF TypeOK
<1>2. \A i \in 1..q : n + i \in DOMAIN FlowVeh[f] /\ FlowVeh[f][n + i] \in Veh
  BY <1>1, FlowIdType, LenProperties
<1>3. NextIds(f, q) \subseteq Veh
  BY <1>2 DEF NextIds
<1>4. ids \in Bijection(1..q, NextIds(f, q))
  <2>1. ids \in [1..q -> NextIds(f, q)]
    BY DEF NextIds
  <2>2. \A x \in NextIds(f, q) : \E i \in 1..q : ids[i] = x
    BY DEF NextIds
  <2>3. ASSUME NEW i \in 1..q, NEW j \in 1..q, ids[i] = ids[j]  PROVE i = j
    <3>1. n + i = n + j
      BY <1>1, <1>2, <2>3 DEF IsInjective
    <3>2. QED  BY <1>1, <3>1
  <2>4. IsInjective(ids)
    BY <2>3 DEF IsInjective
  <2>5. QED  BY <2>1, <2>2, <2>4 DEF Bijection, Injection, Surjection
<1>5. ExistsBijection(1..q, NextIds(f, q))
  BY <1>4 DEF ExistsBijection
<1>6. QED
  BY <1>3, <1>5, FS_CountingElements, FS_Subset, ConstantsAssumption

(* A repetition of a flow is counted in full. *)
LEMMA RepetitionCounted ==
    ASSUME TypeOK, LoadedBalance, NEW f \in Flow, NEW q \in Quotas, FlowRepetition(f, q)
    PROVE  LoadedBalance'
<1> DEFINE S == NextIds(f, q)
<1>1. /\ q \in Nat /\ loaded' = loaded + q /\ ended' = ended
      /\ flow[f].index + q <= Len(FlowVeh[f])
      /\ \A v \in S : loc[v] = "none"
      /\ loc' = [v \in Veh |-> IF v \in S THEN "waiting" ELSE loc[v]]
  BY ConstantsAssumption DEF FlowRepetition
<1>2. S \subseteq Veh /\ IsFiniteSet(S) /\ Cardinality(S) = q
  BY <1>1, NextIdsCounted
<1> HIDE DEF S
<1>3. Live' = Live \cup S /\ Live \cap S = {}
  BY <1>1, <1>2 DEF Live
<1>4. Cardinality(Live') = Cardinality(Live) + q
  <2>1. Cardinality(Live \cup S) = Cardinality(Live) + Cardinality(S)
                                    - Cardinality(Live \cap S)
    BY <1>2, LiveFinite, FS_Union
  <2>2. Cardinality(Live \cap S) = 0
    BY <1>3, FS_EmptySet
  <2>3. QED  BY <1>1, <1>2, <1>3, <2>1, <2>2, LiveFinite
<1>5. QED  BY <1>1, <1>4, LiveFinite DEF LoadedBalance, TypeOK

(* loaded - ended is the number of vehicle objects: getActiveVehicleCount forgets no
   vehicle and counts none twice.  Failed TraCI "add" commands can only make it too
   large. *)
THEOREM BalanceCorrect ==
    ASSUME PlainMoves, RidersMeetOnRoad
    PROVE  Spec => []LoadedBalance
<1>1. Init => LoadedBalance
  <2> SUFFICES ASSUME Init  PROVE LoadedBalance
    OBVIOUS
  <2>1. Live = {} /\ loaded = 0 /\ ended = 0
    BY DEF Init, Live
  <2>2. QED  BY <2>1, FS_EmptySet DEF LoadedBalance
<1>2. TypeOK /\ Shape /\ LoadedBalance /\ [Next]_vars => LoadedBalance'
  <2> SUFFICES ASSUME TypeOK, Shape, LoadedBalance, [Next]_vars
               PROVE  LoadedBalance'
    OBVIOUS
  <2>0. \A v \in Veh : loc[v] # "none" => v \in Live
    BY DEF Live
  <2> USE DEF counterVars
  <2>1. CASE Client
    <3>1. ASSUME NEW v \in Veh, NEW d \in (now..Horizon) \cup {-1}, TraciAdd(v, d)
          PROVE  LoadedBalance'
      BY <3>1, BuildCounted DEF TraciAdd
    <3>2. ASSUME NEW v \in Veh, TraciRemove(v)  PROVE LoadedBalance'
      BY <2>0, <3>2, DeleteCounted DEF TraciRemove, Departed
    <3>3. ASSUME NEW v \in Veh, TraciMoveTo(v)  PROVE LoadedBalance'
      <4>1. loc[v] # "none"
        BY <3>3 DEF TraciMoveTo, Departed, Live
      <4>2. QED
        BY <3>3, <4>1, BalanceUnchanged DEF TraciMoveTo, EnterLane, TypeOK
    <3>4. ASSUME NEW i \in DOMAIN pending, TraciClearPending(i)
          PROVE  LoadedBalance'
      BY <2>0, <3>4, ClearedWaits, DeleteCounted DEF TraciClearPending
    <3>5. CASE TraciAddInvalid
      <4>1. Live' = Live /\ loaded' = loaded + 1 /\ ended' = ended
            /\ "addInvalid" \in ClientCommands
        BY <3>5 DEF TraciAddInvalid, Live
      <4>2. QED  BY <4>1, LiveFinite DEF LoadedBalance, TypeOK
    <3>6. CASE TraciClose
      BY <3>6, BalanceUnchanged DEF TraciClose
    <3>7. QED  BY <2>1, <3>1, <3>2, <3>3, <3>4, <3>5, <3>6 DEF Client
  <2>2. CASE Traffic
    <3>1. ASSUME NEW v \in Veh, Leave(v) \/ TeleportOnLastEdge(v)
          PROVE  LoadedBalance'
      BY <2>0, <3>1, DeleteCounted DEF Leave, TeleportOnLastEdge
    <3>2. ASSUME NEW v \in Veh, TeleportBeyondArrival(v)  PROVE LoadedBalance'
      BY <2>0, <3>2, DeleteCounted DEF TeleportBeyondArrival, Shape, TransferExact
    <3>3. ASSUME NEW v \in Veh, Park(v) \/ Teleport(v)  PROVE LoadedBalance'
      BY <3>3, BalanceUnchanged DEF Park, Teleport, TypeOK
    <3>4. ASSUME NEW v \in Veh, TeleportEnds(v) \/ ParkingEnds(v)
          PROVE  LoadedBalance'
      BY <3>4, BalanceUnchanged
         DEF TeleportEnds, ParkingEnds, Shape, TransferExact, TypeOK
    <3>5. ASSUME NEW v \in Veh, NEW b \in BOOLEAN,
                 ReachStop(v) \/ WaitAtStop(v, b) \/ LeaveStop(v, b)
          PROVE  LoadedBalance'
      BY <3>5, BalanceUnchanged DEF ReachStop, WaitAtStop, LeaveStop
    <3>6. ASSUME NEW e \in Edge, Vaporization(e)  PROVE LoadedBalance'
      BY <3>6, BalanceUnchanged DEF Vaporization
    <3>7. QED  BY <2>2, <3>1, <3>2, <3>3, <3>4, <3>5, <3>6 DEF Traffic
  <2>3. CASE Demand
    <3>1. ASSUME NEW v \in Veh, NEW d \in 0..FileHorizon,
                 LoadVehicle(v, d)
          PROVE  LoadedBalance'
      BY <3>1, BuildCounted DEF LoadVehicle
    <3>2. ASSUME NEW v \in Veh, LoadTriggered(v)  PROVE LoadedBalance'
      BY <3>2, BuildCounted DEF LoadTriggered
    <3>3. ASSUME NEW v \in Veh, LoadDiscarded(v)  PROVE LoadedBalance'
      BY <3>3, UnbuiltCounted DEF LoadDiscarded
    <3>4. ASSUME NEW v \in Veh, PersonTakesVehicle(v)  PROVE LoadedBalance'
      BY <3>4, BalanceUnchanged DEF PersonTakesVehicle
    <3>5. ASSUME NEW f \in Flow, FlowDiscarded(f)  PROVE LoadedBalance'
      BY <3>5, UnbuiltCounted DEF FlowDiscarded
    <3>6. ASSUME NEW f \in Flow, NEW q \in Quotas, FlowRepetition(f, q)
          PROVE  LoadedBalance'
      BY <3>6, RepetitionCounted
    <3>7. ASSUME NEW f \in Flow, FlowSkip(f) \/ FlowClose(f)  PROVE LoadedBalance'
      BY <3>7, BalanceUnchanged DEF FlowSkip, FlowClose
    <3>8. CASE IdClash
      BY <3>8, BalanceUnchanged DEF IdClash
    <3>9. QED  BY <2>3, <3>1, <3>2, <3>3, <3>4, <3>5, <3>6, <3>7, <3>8 DEF Demand
  <2>4. CASE Insertion
    <3>1. ASSUME NEW v \in Veh, TryInsertSucceeds(v)  PROVE LoadedBalance'
      <4>1. loc[v] # "none"
        BY <3>1, TriedWaits
      <4>2. QED
        BY <3>1, <4>1, BalanceUnchanged DEF TryInsertSucceeds, EnterLane, TypeOK
    <3>2. ASSUME NEW v \in Veh, NEW b \in BOOLEAN, TryInsertFails(v, b)
          PROVE  LoadedBalance'
      <4>1. DiscardVehicle(v) \/ UNCHANGED <<loc, counterVars>>
        BY <3>2 DEF TryInsertFails
      <4>2. v \in Live
        BY <2>0, <3>2, TriedWaits
      <4>3. QED  BY <4>1, <4>2, DeleteCounted, BalanceUnchanged
    <3>3. QED
      BY <2>4, <3>1, <3>2, BalanceUnchanged
         DEF Insertion, Release, TryInsertOnRoad, StartEmit, EmitSkip
  <2>5. CASE EndPhase
    BY <2>5, BalanceUnchanged
       DEF EndPhase, StartStep, EndEvents, EndMove, EndLoad, EndPersons, EndFlows,
           EndEmit, EndStep
  <2>6. CASE UNCHANGED vars
    BY <2>6, BalanceUnchanged DEF vars
  <2>7. QED  BY <2>1, <2>2, <2>3, <2>4, <2>5, <2>6 DEF Next, Terminated
<1>3. QED  BY <1>1, <1>2, TypeCorrect, ShapeKept, PTL DEF Spec
-----------------------------------------------------------------------------
(* The end of the run. *)

(* The last vehicle that was read and is due later is still in the heap, and while a
   step runs the loaders have read on beyond the current time. *)
ReadAhead ==
    /\ lastDepart > now => \E v \in queue : depart[v] = lastDepart
    /\ phase \in {"persons", "flows", "candidates", "emit", "transfer"} =>
          unread = {} \/ lastDepart > now

(* A step that reads nothing and takes nothing out of the heap. *)
LEMMA HeapKeepsLast ==
    ASSUME TypeOK, TypeOK', ReadAhead, UNCHANGED <<lastDepart, unread>>, now' >= now,
           queue \subseteq queue', \A v \in queue : depart'[v] = depart[v],
           phase' \in {"persons", "flows", "candidates", "emit", "transfer"} =>
              /\ phase \in {"persons", "flows", "candidates", "emit", "transfer"}
              /\ now' = now
    PROVE  ReadAhead'
<1>1. lastDepart' > now' => lastDepart > now
  BY DEF TypeOK
<1>2. QED  BY <1>1 DEF ReadAhead

(* What is in the heap exists. *)
LEMMA HeapExists ==
    ASSUME Shape, NEW v \in queue
    PROVE  loc[v] # "none"
  BY DEF Shape, Lined, Queued, Riding

(* The loaders never fall behind. *)
LEMMA ReadAheadKept ==
    ASSUME TypeOK, TypeOK', Shape, ReadAhead, [Next]_vars
    PROVE  ReadAhead'
<1> USE DEF emitVars, loaderVars, timeVars
<1>0. now' >= now \/ ~UNCHANGED now
  BY DEF TypeOK
<1>1. ASSUME NEW v \in Veh, NEW d, loc[v] = "none", Build(v, d)
      PROVE  \A u \in queue : depart'[u] = depart[u]
  BY <1>1, HeapExists DEF Build, TypeOK
<1>2. CASE Client
  <2>1. ASSUME NEW v \in Veh, NEW d \in (now..Horizon) \cup {-1}, TraciAdd(v, d)
        PROVE  ReadAhead'
    BY <1>0, <1>1, <2>1, HeapKeepsLast DEF TraciAdd
  <2>2. CASE ~\E v \in Veh : \E d \in (now..Horizon) \cup {-1} : TraciAdd(v, d)
    <3>1. UNCHANGED <<lastDepart, unread, now, queue, depart>>
      BY <1>2, <2>2 DEF Client, TraciRemove, TraciMoveTo, TraciClearPending,
                        TraciAddInvalid, TraciClose
    <3>2. phase' \notin {"persons", "flows", "candidates", "emit", "transfer"}
      BY <1>2, <2>2 DEF Client, TraciRemove, TraciMoveTo, TraciClearPending,
                        TraciAddInvalid, TraciClose
    <3>3. QED  BY <1>0, <3>1, <3>2, HeapKeepsLast
  <2>3. QED  BY <2>1, <2>2
<1>3. CASE Traffic
  <2>1. UNCHANGED <<lastDepart, unread, now, phase, queue, depart>>
    BY <1>3 DEF Traffic, Leave, ReachStop, Park, Teleport, TeleportOnLastEdge,
                WaitAtStop, LeaveStop, TeleportEnds, TeleportBeyondArrival, ParkingEnds,
                Vaporization
  <2>2. QED  BY <1>0, <2>1, HeapKeepsLast
<1>4. CASE Demand
  <2>1. ASSUME NEW v \in Veh, NEW d \in 0..FileHorizon, LoadVehicle(v, d)
        PROVE  ReadAhead'
    <3>1. /\ lastDepart' = d /\ queue' = queue \cup {v} /\ depart'[v] = d
          /\ phase' \in {"preload", "load"}
      BY <2>1 DEF LoadVehicle, Build, TypeOK
    <3>2. QED  BY <3>1 DEF ReadAhead
  <2>2. ASSUME NEW v \in Veh, LoadTriggered(v) \/ LoadDiscarded(v)
        PROVE  ReadAhead'
    <3>1. /\ UNCHANGED <<lastDepart, now, phase, queue>> /\ phase \in {"preload", "load"}
          /\ \A u \in queue : depart'[u] = depart[u]
      BY <1>1, <2>2 DEF LoadTriggered, LoadDiscarded
    <3>2. QED  BY <3>1 DEF ReadAhead
  <2>3. ASSUME NEW v \in Veh, PersonTakesVehicle(v)  PROVE ReadAhead'
    BY <1>0, <2>3, HeapKeepsLast DEF PersonTakesVehicle
  <2>4. ASSUME NEW f \in Flow, NEW q \in Quotas, FlowRepetition(f, q)
        PROVE  ReadAhead'
    <3>1. \A u \in queue : u \notin NextIds(f, q)
      BY <2>4, HeapExists DEF FlowRepetition
    <3>2. q \in Nat /\ q > 0 /\ FlowVeh[f][flow[f].index + 1] \in NextIds(f, q)
      <4>1. q \in Nat /\ q > 0
        BY <2>4, ConstantsAssumption DEF FlowRepetition
      <4>2. 1 \in 1..q
        BY <4>1
      <4>3. QED  BY <4>1, <4>2 DEF NextIds
    <3>3. \A u \in queue : depart'[u] = depart[u]
      <4>1. \A u \in Veh \ NextIds(f, q) :
               u # FlowVeh[f][flow[f].index + 1] => depart'[u] = depart[u]
        BY <2>4 DEF FlowRepetition
      <4>2. QED  BY <3>1, <3>2, <4>1 DEF TypeOK
    <3>4. UNCHANGED <<lastDepart, unread, now, phase>> /\ queue \subseteq queue'
      BY <2>4 DEF FlowRepetition
    <3>5. QED  BY <1>0, <3>3, <3>4, HeapKeepsLast
  <2>5. ASSUME NEW f \in Flow, FlowSkip(f) \/ FlowClose(f) \/ FlowDiscarded(f)
        PROVE  ReadAhead'
    BY <1>0, <2>5, HeapKeepsLast DEF FlowSkip, FlowClose, FlowDiscarded
  <2>6. CASE IdClash
    BY <1>0, <2>6, HeapKeepsLast DEF IdClash
  <2>7. QED  BY <1>4, <2>1, <2>2, <2>3, <2>4, <2>5, <2>6 DEF Demand
<1>5. CASE Insertion
  <2>1. ASSUME NEW v \in Veh, Release(v)  PROVE ReadAhead'
    <3>1. /\ UNCHANGED <<lastDepart, unread, now, phase, depart>>
          /\ queue' = queue \ {v} /\ depart[v] <= now
      BY <2>1 DEF Release
    <3>2. lastDepart > now => depart[v] # lastDepart
      BY <3>1 DEF TypeOK
    <3>3. QED  BY <3>1, <3>2 DEF ReadAhead
  <2>2. ASSUME NEW v \in Veh, NEW b \in BOOLEAN, TryInsertFails(v, b)
        PROVE  UNCHANGED <<lastDepart, unread, now, phase, queue, depart>>
    BY <2>2 DEF TryInsertFails
  <2>3. ASSUME NEW passed \in SUBSET ToSet(pending), StartEmit(passed)
        PROVE  ReadAhead'
    BY <1>0, <2>3, HeapKeepsLast DEF StartEmit
  <2>4. CASE UNCHANGED <<lastDepart, unread, now, phase, queue, depart>>
    BY <1>0, <2>4, HeapKeepsLast
  <2>5. QED
    BY <1>5, <2>1, <2>2, <2>3, <2>4
       DEF Insertion, TryInsertOnRoad, TryInsertSucceeds, EmitSkip
<1>6. CASE EndPhase
  <2>1. CASE EndLoad
    BY <2>1 DEF EndLoad, ReadAhead
  <2>2. CASE EndStep
    <3>1. /\ UNCHANGED <<lastDepart, unread, queue, depart>> /\ now' >= now
          /\ phase' \notin {"persons", "flows", "candidates", "emit", "transfer"}
      BY <2>2 DEF EndStep, TypeOK
    <3>2. QED  BY <3>1, HeapKeepsLast
  <2>3. CASE StartStep \/ EndEvents \/ EndMove
    BY <1>0, <2>3, HeapKeepsLast DEF StartStep, EndEvents, EndMove
  <2>4. CASE EndPersons \/ EndFlows \/ EndEmit
    BY <1>0, <2>4, HeapKeepsLast DEF EndPersons, EndFlows, EndEmit
  <2>5. QED  BY <1>6, <2>1, <2>2, <2>3, <2>4 DEF EndPhase
<1>7. CASE UNCHANGED vars
  BY <1>0, <1>7, HeapKeepsLast DEF vars
<1>8. QED  BY <1>2, <1>3, <1>4, <1>5, <1>6, <1>7 DEF Next, Terminated

(* The run ends after a step, or when the client closes the connection. *)
LEMMA EndSteps ==
    ASSUME [Next]_vars, phase' = "ended"
    PROVE  EndStep \/ TraciClose \/ (phase = "ended" /\ UNCHANGED vars)
<1> USE DEF timeVars
<1>1. CASE Client
  BY <1>1 DEF Client, TraciAdd, TraciRemove, TraciMoveTo, TraciClearPending,
              TraciAddInvalid
<1>2. CASE Traffic
  BY <1>2 DEF Traffic, Leave, ReachStop, Park, Teleport, TeleportOnLastEdge, WaitAtStop,
              LeaveStop, AtStop, TeleportEnds, TeleportBeyondArrival, ParkingEnds,
              Vaporization
<1>3. CASE Demand
  BY <1>3 DEF Demand, LoadVehicle, LoadTriggered, LoadDiscarded, PersonTakesVehicle,
              FlowSkip, FlowClose, FlowDiscarded, FlowRepetition, IdClash, Visiting
<1>4. CASE Insertion
  BY <1>4 DEF Insertion, Release, StartEmit, EmitSkip, TryInsertOnRoad,
              TryInsertSucceeds, TryInsertFails, Trying
<1>5. CASE EndPhase
  BY <1>5 DEF EndPhase, StartStep, EndEvents, EndMove, EndLoad, EndPersons, EndFlows,
              EndEmit
<1>6. CASE UNCHANGED vars
  BY <1>6 DEF vars
<1>7. QED  BY <1>1, <1>2, <1>3, <1>4, <1>5, <1>6 DEF Next, Terminated

(* When the counters say that nothing is active, whatever exists waits for a person
   and the insertion queue is empty. *)
LEMMA NothingActive ==
    ASSUME TypeOK, Shape, TriggeredWithoutStops, LoadedBalance, PersonWaitExact,
           "addInvalid" \notin ClientCommands, ActiveVehicleCount = 0
    PROVE  Live = registered \cup AwaitingRider /\ Queued = {}
<1> DEFINE S == registered \cup AwaitingRider
<1>1. /\ registered \subseteq Live /\ AwaitingRider \subseteq Live
      /\ registered \cap AwaitingRider = {}
  BY DEF Shape, StopsSound, AwaitingRider, Live, TypeOK
<1>2. Cardinality(S) = Cardinality(registered) + Cardinality(AwaitingRider)
  <2>1. Cardinality(S) = Cardinality(registered) + Cardinality(AwaitingRider)
                            - Cardinality(registered \cap AwaitingRider)
    BY AwaitingFinite, FS_Union
  <2>2. Cardinality(registered \cap AwaitingRider) = 0
    BY <1>1, FS_EmptySet
  <2>3. QED  BY <2>1, <2>2, AwaitingFinite
<1>3. Cardinality(Live) = Cardinality(S)
  <2>1. loaded - ended = Cardinality(Live)
    BY DEF LoadedBalance
  <2>2. loaded - (personWait + ended) = 0
    BY DEF ActiveVehicleCount
  <2>3. personWait = Cardinality(S)
    BY <1>2 DEF PersonWaitExact
  <2>4. loaded \in Int /\ ended \in Int /\ personWait \in Int
        /\ Cardinality(Live) \in Int /\ Cardinality(S) \in Int
    BY <1>2, LiveFinite, AwaitingFinite DEF TypeOK
  <2> HIDE DEF S
  <2>5. QED  BY <2>1, <2>2, <2>3, <2>4
<1>4. Live = S
  BY <1>1, <1>3, LiveFinite, FS_Subset
<1>5. ASSUME NEW v \in Queued  PROVE FALSE
  <2>1. v \in Veh /\ loc[v] = "waiting" /\ v \notin AwaitingRider
    BY NobodyRides, QueuedVehicles DEF WaitsOnce
  <2>2. v \in registered
    BY <1>4, <2>1 DEF Live
  <2>3. QED  BY <2>1, <2>2 DEF Shape, StopsSound
<1>6. QED  BY <1>4, <1>5

(* When the run ends by itself, the route files are read, the flows are done and the
   vehicles that still exist all wait for a person: the counters, the lists of waiting
   vehicles and the read-ahead of the loaders never let a run end early. *)
THEOREM EndCorrect ==
    ASSUME TriggeredWithoutStops
    PROVE  Spec => []EndIsComplete
<1>1. CASE ClientCommands # {}
  <2>1. EndIsComplete
    BY <1>1 DEF EndIsComplete
  <2>2. QED  BY <2>1, PTL
<1>2. CASE ClientCommands = {}
  <2>1. PlainMoves /\ RidersMeetOnRoad /\ "addInvalid" \notin ClientCommands
    BY <1>2, NobodyRides DEF PlainMoves
  <2>2. Init => ReadAhead /\ EndIsComplete
    BY DEF Init, ReadAhead, EndIsComplete
  <2>3. TypeOK /\ TypeOK' /\ Shape /\ ReadAhead /\ [Next]_vars => ReadAhead'
    BY ReadAheadKept
  <2>4. /\ TypeOK /\ Shape /\ LoadedBalance /\ PersonWaitExact /\ ReadAhead
        /\ EndIsComplete /\ [Next]_vars
        => EndIsComplete'
    <3> SUFFICES ASSUME TypeOK, Shape, LoadedBalance, PersonWaitExact, ReadAhead,
                        EndIsComplete, [Next]_vars, phase' = "ended"
                 PROVE  EndIsComplete'
      BY DEF EndIsComplete
    <3>1. CASE EndStep
      <4>1. /\ phase = "transfer" /\ ActiveVehicleCount = 0 /\ PendingFlowCount = 0
            /\ UNCHANGED <<loc, queue, pending, refused, flow, unread, registered,
                           waiting>>
        BY <3>1 DEF EndStep, NoFurtherVehicles, flowVars, loaderVars, stopVars
      <4>2. Live = registered \cup AwaitingRider /\ Queued = {}
        BY <2>1, <4>1, NothingActive
      <4>3. unread = {}
        BY <4>1, <4>2 DEF ReadAhead, Queued
      <4>4. {f \in Flow : flow[f].active} = {}
        <5>1. IsFiniteSet({f \in Flow : flow[f].active})
          BY ConstantsAssumption, FS_Subset
        <5>2. QED  BY <4>1, <5>1, FS_EmptySet DEF PendingFlowCount
      <4>5. QED
        BY <4>1, <4>2, <4>3, <4>4 DEF EndIsComplete, Live, AwaitingRider, Queued
    <3>2. CASE TraciClose
      BY <1>2, <3>2 DEF TraciClose
    <3>3. CASE phase = "ended" /\ UNCHANGED vars
      BY <1>2, <3>3
         DEF EndIsComplete, vars, timeVars, emitVars, flowVars, stopVars, loaderVars,
             Live, AwaitingRider, Queued
    <3>4. QED  BY <3>1, <3>2, <3>3, EndSteps
  <2>5. QED
    BY <2>1, <2>2, <2>3, <2>4, TypeCorrect, ShapeKept, BalanceCorrect,
       PersonWaitCorrect, PTL DEF Spec
<1>3. QED  BY <1>1, <1>2
=============================================================================
