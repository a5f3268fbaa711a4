-------------------------- MODULE VehicleLifecycle --------------------------
(***************************************************************************)
(* The life of a vehicle in the microscopic simulation: it is built from a *)
(* route file, a flow or a TraCI command (MSVehicleControl), waits for its *)
(* departure (MSInsertionControl), drives, stops, parks or is teleported   *)
(* (MSLane, MSVehicleTransfer) and is removed.  The phases follow the      *)
(* order in which MSNet::simulationStep calls the components.              *)
(*                                                                         *)
(* Definitions named X_Y are altered forms of the definition X after them, *)
(* with the mistake Y; no specification uses them.  They show which        *)
(* mistakes in the code the properties would notice.                       *)
(*                                                                         *)
(* One unit of "now" is one simulation step (DELTA_T).  Positions, speeds  *)
(* and lanes are abstracted: whether a vehicle fits, arrives, reaches its  *)
(* stop, collides or jams is a nondeterministic choice.                    *)
(***************************************************************************)
EXTENDS Integers, Sequences, FiniteSets, SequencesExt

CONSTANTS
    Veh,              \* vehicle ids; an id may name a vehicle again after a removal
    None,             \* the null pointer (Flow::vehicle == 0)
    FileVeh,          \* vehicles of the route files with a departure time
    TrigVeh,          \* vehicles of the route files with depart="triggered"
    TraciVeh,         \* ids the TraCI client may add
    Flow,             \* the flows, all defined before the first step
    FlowVeh,          \* FlowVeh[f]: the ids "f.0", "f.1", ... of the flow f
    Number,           \* Number[f]: repetitionNumber
    Begin,            \* Begin[f]: depart of the first repetition
    Offset,           \* Offset[f]: repetitionOffset
    Volatile,         \* flows over distributions, or with random lane or position
    ProbFlow,         \* flows with a repetitionProbability
    RepEnd,           \* RepEnd[f]: repetitionEnd of a probabilistic flow
    Quotas,           \* values getQuota may return (--scale)
    Edge, EdgeOf,     \* EdgeOf[v]: first edge of the route of v
    StopOf,           \* StopOf[v]: "none", "road", "parking" or "triggered"
    Riders,           \* how often a person asks for a waiting triggered vehicle
    MaxDepartDelay,   \* --max-depart-delay, -1 when off
    MaxVehicleNumber, \* --max-num-vehicles, -1 when off
    CheckEdgesOnce,   \* not --eager-insert
    PreCheck,         \* MSDevice_Routing::isEnabled()
    ClientCommands,   \* what the TraCI client sends; {} without --remote-port
    FileHorizon,      \* bound: departure times in the route files
    Horizon,          \* bound: times beyond it are not told apart
    MaxLoaded         \* bound: how many vehicles TraCI may make the run build

Commands == {"add", "addInvalid", "remove", "moveTo", "moveToUndeparted",
             "clearPending"}

ASSUME ConstantsAssumption ==
    /\ IsFiniteSet(Veh) /\ IsFiniteSet(Flow) /\ None \notin Veh \cup Flow
    /\ FileVeh \subseteq Veh /\ TrigVeh \subseteq Veh /\ TraciVeh \subseteq Veh
    /\ FileVeh \cap TrigVeh = {}
    /\ FlowVeh \in [Flow -> Seq(Veh)]
    /\ Number \in [Flow -> Nat] /\ Begin \in [Flow -> Nat]
    /\ Offset \in [Flow -> Nat] /\ RepEnd \in [Flow -> Nat]
    /\ Volatile \subseteq Flow /\ ProbFlow \subseteq Flow
    /\ \A f \in Flow : IsInjective(FlowVeh[f])
    /\ Quotas \subseteq Nat
    /\ EdgeOf \in [Veh -> Edge]
    /\ StopOf \in [Veh -> {"none", "road", "parking", "triggered"}]
    /\ Riders \in Nat /\ FileHorizon \in Nat /\ Horizon \in Nat /\ MaxLoaded \in Nat
    /\ MaxDepartDelay \in Nat \cup {-1} /\ MaxVehicleNumber \in Nat \cup {-1}
    /\ CheckEdgesOnce \in BOOLEAN /\ PreCheck \in BOOLEAN
    /\ ClientCommands \subseteq Commands

(* Who asks for several copies of the vehicles of a flow lets nobody else use its
   ids: determineCandidates does not see that addVehicle refuses a copy. *)
ASSUME QuotaAssumption ==
    Quotas \subseteq {0, 1} \/
        \A f \in Flow :
            /\ ToSet(FlowVeh[f]) \cap (FileVeh \cup TrigVeh \cup TraciVeh) = {}
            /\ \A g \in Flow \ {f} : ToSet(FlowVeh[f]) \cap ToSet(FlowVeh[g]) = {}

VARIABLES
    now, phase,
    loc,         \* where the vehicle object is; "none": no such object
    stop,        \* its next stop: "none", "ahead", "reached", "boarded"
    registered,  \* vehicles with myAmRegisteredAsWaitingForPerson
    depart,      \* SUMOVehicleParameter::depart
    queue,       \* MSInsertionControl::myAllVeh
    pending,     \* myPendingEmits (what is left of it while emitVehicles runs)
    refused,     \* refusedEmits of the running emitVehicles
    candidates,  \* myEmitCandidates
    aborted,     \* myAbortedEmits
    flow,        \* myFlows: active, vehicle, repetitionsDone, index
    flowTodo,    \* flows the running determineCandidates has still to visit
    flowOpen,    \* the flow it is visiting
    failedEdges, \* edges whose getLastFailedInsertionTime() is the current step
    vaporizing,  \* edges that are vaporizing
    teleporting, \* MSVehicleTransfer::myVehicles with myParking = false
    parking,     \* MSVehicleTransfer::myVehicles with myParking = true
    parkedOn,    \* MSVehicleTransfer::myParkingVehicles
    waiting,     \* MSVehicleControl::myWaiting
    personWait,  \* myWaitingForPerson
    loaded, running, ended, discarded, \* the counters of MSVehicleControl
    unread,      \* vehicles the route loaders have not parsed
    lastDepart,  \* SUMORouteHandler::myLastDepart
    riders       \* persons that have still to ask for a vehicle

counterVars  == <<loaded, running, ended, discarded>>
emitVars     == <<pending, refused, candidates, aborted, failedEdges>>
flowVars     == <<flow, flowTodo, flowOpen>>
transferVars == <<teleporting, parking, parkedOn>>
stopVars     == <<stop, registered, waiting, personWait>>
loaderVars   == <<unread, lastDepart>>
timeVars     == <<now, phase>>
vars == <<timeVars, loc, depart, queue, counterVars, emitVars, flowVars,
          transferVars, stopVars, loaderVars, vaporizing, riders>>
-----------------------------------------------------------------------------

Live     == {v \in Veh : loc[v] # "none"}      \* myVehicleDict
Departed == {v \in Veh : loc[v] \in {"lane", "teleport", "parking"}} \* hasDeparted
Stopped(v) == stop[v] \in {"reached", "boarded"}                     \* isStopped

(* getActiveVehicleCount, and what TraCI reports as the expected number. *)
ActiveVehicleCount_WithWaiting == loaded - ended
ActiveVehicleCount == loaded - (personWait + ended)
PendingFlowCount == Cardinality({f \in Flow : flow[f].active})
MinExpectedNumber == ActiveVehicleCount + PendingFlowCount

(* Flow f waits for its last created vehicle to leave the insertion queue. *)
Blocked(f) == /\ f \notin Volatile
              /\ flow[f].vehicle # None
              /\ f \notin ProbFlow
-----------------------------------------------------------------------------
(* MSVehicleControl: build a vehicle; remove a departed one; delete one. *)

Build_StopKind(v, d) == /\ loaded' = loaded + 1
                        /\ loc' = [loc EXCEPT ![v] = "waiting"]
                        /\ depart' = [depart EXCEPT ![v] = d]
                        /\ stop' = [stop EXCEPT ![v] = StopOf[v]]
                        /\ UNCHANGED <<running, ended, discarded>>
Build(v, d) == /\ loaded' = loaded + 1
               /\ loc' = [loc EXCEPT ![v] = "waiting"]
               /\ depart' = [depart EXCEPT ![v] = d]
               /\ stop' = [stop EXCEPT ![v] = IF StopOf[v] = "none" THEN "none"
                                              ELSE "ahead"]
               /\ UNCHANGED <<running, ended, discarded>>

DiscardUnbuilt == /\ loaded' = loaded + 1
                  /\ ended' = ended + 1
                  /\ discarded' = discarded + 1
                  /\ UNCHANGED running

ScheduleVehicleRemoval(v) == /\ running' = running - 1
                             /\ ended' = ended + 1
                             /\ loc' = [loc EXCEPT ![v] = "none"]
                             /\ UNCHANGED <<loaded, discarded>>

DiscardVehicle_EndedTwice(v) == /\ ended' = ended + 2
                                /\ discarded' = discarded + 1
                                /\ loc' = [loc EXCEPT ![v] = "none"]
                                /\ UNCHANGED <<loaded, running>>
DiscardVehicle(v) == /\ ended' = ended + 1
                     /\ discarded' = discarded + 1
                     /\ loc' = [loc EXCEPT ![v] = "none"]
                     /\ UNCHANGED <<loaded, running>>

(* enterLaneAtInsertion: the first time, the vehicle departs. *)
EnterLane_AlwaysDeparts(v) == /\ loc' = [loc EXCEPT ![v] = "lane"]
                              /\ running' = running + 1
                              /\ UNCHANGED <<loaded, ended, discarded>>
EnterLane(v) == /\ loc' = [loc EXCEPT ![v] = "lane"]
                /\ running' = IF v \in Departed THEN running ELSE running + 1
                /\ UNCHANGED <<loaded, ended, discarded>>

(* resumeFromStopping: the stop is done with, nobody is waited for. *)
ResumeFromStopping_KeepsCount(v) ==
    /\ stop' = [stop EXCEPT ![v] = "none"]
    /\ registered' = registered \ {v}
    /\ waiting' = waiting \ {v}
    /\ UNCHANGED personWait
ResumeFromStopping(v) ==
    /\ stop' = [stop EXCEPT ![v] = "none"]
    /\ registered' = registered \ {v}
    /\ personWait' = IF v \in registered THEN personWait - 1 ELSE personWait
    /\ waiting' = waiting \ {v}

(* leaveLane for any reason but parking aborts the stop the vehicle is at. *)
LeaveLane_KeepsStop(v) == v \in Veh /\ UNCHANGED stopVars
LeaveLane(v) == IF Stopped(v) THEN ResumeFromStopping(v) ELSE UNCHANGED stopVars

(* onRemovalFromNet: MSVehicleTransfer::remove, then leaveLane. *)
OnRemovalFromNet_StaysInTransfer(v) == /\ UNCHANGED transferVars
                                       /\ LeaveLane(v)
OnRemovalFromNet(v) == /\ teleporting' = teleporting \ {v}
                       /\ parking' = parking \ {v}
                       /\ UNCHANGED parkedOn
                       /\ LeaveLane(v)

(* checkFlowWait: the flow that waits for v may go on. *)
CheckFlowWait_Never(v) == v \in Veh /\ UNCHANGED flow
CheckFlowWait(v) ==
    flow' = [f \in Flow |-> IF flow[f].vehicle = v
                            THEN [flow[f] EXCEPT !.vehicle = None] ELSE flow[f]]
-----------------------------------------------------------------------------
(* TraCIServer::processCommandsUntilSimStep: commands of the client. *)

(* ADD and ADD_FULL.  A departure procedure (a negative time) leaves the depart of
   the parameters at -1, whatever the procedure is: the vehicle is due at once and
   nobody is waited for. *)
TraciAdd(v, d) ==
    /\ phase = "traci" /\ "add" \in ClientCommands
    /\ v \in TraciVeh /\ loc[v] = "none" /\ loaded < MaxLoaded
    /\ Build(v, d)
    /\ queue' = queue \cup {v}
    /\ UNCHANGED <<timeVars, emitVars, flowVars, transferVars, registered,
                   waiting, personWait, loaderVars, vaporizing, riders>>

(* The constructor of MSVehicle throws (invalid departure lane or speed) after
   buildVehicle counted the vehicle; the client gets an error status. *)
TraciAddInvalid ==
    /\ phase = "traci" /\ "addInvalid" \in ClientCommands /\ loaded < MaxLoaded
    /\ loaded' = loaded + 1
    /\ UNCHANGED <<timeVars, loc, depart, queue, running, ended, discarded,
                   emitVars, flowVars, transferVars, stopVars, loaderVars,
                   vaporizing, riders>>

TraciRemove(v) ==
    /\ phase = "traci" /\ "remove" \in ClientCommands
    /\ v \in Departed
    /\ OnRemovalFromNet(v)
    /\ ScheduleVehicleRemoval(v)
    /\ UNCHANGED <<timeVars, depart, queue, emitVars, flowVars, loaderVars,
                   vaporizing, riders>>

(* VAR_MOVE_TO onto an edge the vehicle will pass: forceVehicleInsertion.  That a
   vehicle arrives on the way, which the loop then goes on with, is left out. *)
TraciMoveTo(v) ==
    /\ phase = "traci"
    /\ \/ "moveTo" \in ClientCommands /\ v \in Departed
       \/ "moveToUndeparted" \in ClientCommands /\ v \in Live \ Departed
    /\ OnRemovalFromNet(v)
    /\ EnterLane(v)
    /\ UNCHANGED <<timeVars, depart, queue, emitVars, flowVars, loaderVars,
                   vaporizing, riders>>

(* CMD_CLEAR_PENDING_VEHICLES, one vehicle at a time: clearing a route is a
   sequence of these in one "traci" phase. *)
TraciClearPending(i) ==
    /\ phase = "traci" /\ "clearPending" \in ClientCommands
    /\ i \in DOMAIN pending
    /\ DiscardVehicle(pending[i])
    /\ pending' = RemoveAt(pending, i)
    /\ UNCHANGED <<timeVars, depart, queue, refused, candidates, aborted,
                   failedEdges, flowVars, transferVars, stopVars, loaderVars,
                   vaporizing, riders>>

StartStep ==
    /\ phase = "traci"
    /\ phase' = "events"
    /\ UNCHANGED <<now, loc, depart, queue, counterVars, emitVars, flowVars,
                   transferVars, stopVars, loaderVars, vaporizing, riders>>
-----------------------------------------------------------------------------
(* Begin-of-step events, then the movements on the lanes. *)

(* MSEdge::incVaporization / decVaporization *)
Vaporization(e) ==
    /\ phase = "events"
    /\ vaporizing' = IF e \in vaporizing THEN vaporizing \ {e}
                     ELSE vaporizing \cup {e}
    /\ UNCHANGED <<timeVars, loc, depart, queue, counterVars, emitVars,
                   flowVars, transferVars, stopVars, loaderVars, riders>>

EndEvents ==
    /\ phase = "events"
    /\ phase' = "move"
    /\ UNCHANGED <<now, loc, depart, queue, counterVars, emitVars, flowVars,
                   transferVars, stopVars, loaderVars, vaporizing, riders>>

(* MSLane::executeMovements: the vehicle arrives or enters a vaporizing edge. *)
Leave(v) ==
    /\ phase = "move" /\ loc[v] = "lane" /\ ~Stopped(v)
    /\ OnRemovalFromNet(v)
    /\ ScheduleVehicleRemoval(v)
    /\ UNCHANGED <<timeVars, depart, queue, emitVars, flowVars, loaderVars,
                   vaporizing, riders>>

(* MSVehicleTransfer::add without parking, after a jam (never of a stopped
   vehicle) or a collision. *)
Teleport(v) ==
    /\ phase = "move" /\ loc[v] = "lane"
    /\ loc' = [loc EXCEPT ![v] = "teleport"]
    /\ teleporting' = teleporting \cup {v}
    /\ parking' = parking \ {v}
    /\ UNCHANGED parkedOn
    /\ LeaveLane(v)
    /\ UNCHANGED <<timeVars, depart, queue, counterVars, emitVars, flowVars,
                   loaderVars, vaporizing, riders>>

(* The same on the last edge of the route: the vehicle is removed. *)
TeleportOnLastEdge(v) ==
    /\ phase = "move" /\ loc[v] = "lane"
    /\ OnRemovalFromNet(v)
    /\ ScheduleVehicleRemoval(v)
    /\ UNCHANGED <<timeVars, depart, queue, emitVars, flowVars, loaderVars,
                   vaporizing, riders>>

(* MSVehicle::processNextStop: the stop is reached. *)
ReachStop(v) ==
    /\ phase = "move" /\ loc[v] = "lane" /\ stop[v] = "ahead"
    /\ stop' = [stop EXCEPT ![v] = "reached"]
    /\ waiting' = waiting \cup {v}
    /\ UNCHANGED <<timeVars, loc, depart, queue, counterVars, emitVars,
                   flowVars, transferVars, registered, personWait, loaderVars,
                   vaporizing, riders>>

(* processNextStop at a reached stop.  A rider may board, which clears the
   trigger; while the trigger holds the vehicle is registered as waiting. *)
AtStop(v) == \/ phase = "move" /\ loc[v] = "lane" /\ StopOf[v] # "parking"
             \/ phase = "transfer" /\ v \in parking
Triggered(v, boards) == StopOf[v] = "triggered" /\ stop[v] = "reached" /\ ~boards

WaitAtStop(v, boards) ==
    /\ AtStop(v) /\ Stopped(v)
    /\ IF Triggered(v, boards)
       THEN /\ registered' = registered \cup {v}
            /\ personWait' = IF v \in registered THEN personWait
                             ELSE personWait + 1
            /\ UNCHANGED stop
       ELSE /\ registered' = registered \ {v}
            /\ personWait' = IF v \in registered THEN personWait - 1
                             ELSE personWait
            /\ stop' = [stop EXCEPT ![v] = "boarded"]
    /\ UNCHANGED <<timeVars, loc, depart, queue, counterVars, emitVars,
                   flowVars, transferVars, waiting, loaderVars, vaporizing,
                   riders>>

LeaveStop(v, boards) ==
    /\ AtStop(v) /\ Stopped(v) /\ ~Triggered(v, boards)
    /\ ResumeFromStopping(v)
    /\ UNCHANGED <<timeVars, loc, depart, queue, counterVars, emitVars,
                   flowVars, transferVars, loaderVars, vaporizing, riders>>

(* MSVehicleTransfer::add of a vehicle that stopped to park. *)
Park(v) ==
    /\ phase = "move" /\ loc[v] = "lane"
    /\ Stopped(v) /\ StopOf[v] = "parking"
    /\ loc' = [loc EXCEPT ![v] = "parking"]
    /\ parking' = parking \cup {v}
    /\ parkedOn' = parkedOn \cup {v}
    /\ teleporting' = teleporting \ {v}
    /\ UNCHANGED <<timeVars, depart, queue, counterVars, emitVars, flowVars,
                   stopVars, loaderVars, vaporizing, riders>>

(* A parking stop is left for the lane in the step it is reached: executeMove
   follows planMovements. *)
EndMove ==
    /\ phase = "move"
    /\ \A v \in Veh : loc[v] = "lane" /\ Stopped(v) => StopOf[v] # "parking"
    /\ phase' = "load"
    /\ UNCHANGED <<now, loc, depart, queue, counterVars, emitVars, flowVars,
                   transferVars, stopVars, loaderVars, vaporizing, riders>>
-----------------------------------------------------------------------------
(* MSNet::loadRoutes, before the first step ("preload") and in each step;
   MSRouteHandler::closeVehicle.  Further copies that --scale asks for are
   file vehicles of their own. *)

LoadVehicle(v, d) ==
    /\ phase \in {"preload", "load"}
    /\ v \in unread \cap FileVeh /\ loc[v] = "none"
    /\ d >= lastDepart /\ d >= now
    /\ Build(v, d)
    /\ queue' = queue \cup {v}
    /\ lastDepart' = d
    /\ unread' = unread \ {v}
    /\ UNCHANGED <<timeVars, emitVars, flowVars, transferVars, registered,
                   waiting, personWait, vaporizing, riders>>

LoadTriggered(v) ==
    /\ phase \in {"preload", "load"}
    /\ v \in unread \cap TrigVeh /\ loc[v] = "none"
    /\ Build(v, -1)
    /\ waiting' = waiting \cup {v}
    /\ personWait' = personWait + 1
    /\ unread' = unread \ {v}
    /\ UNCHANGED <<timeVars, queue, emitVars, flowVars, transferVars,
                   registered, lastDepart, vaporizing, riders>>

(* The scaling leaves the vehicle out, or it cannot be built and
   --ignore-route-errors is set. *)
LoadDiscarded(v) ==
    /\ phase \in {"preload", "load"}
    /\ v \in unread /\ 0 \in Quotas
    /\ DiscardUnbuilt
    /\ unread' = unread \ {v}
    /\ UNCHANGED <<timeVars, loc, depart, queue, emitVars, flowVars,
                   transferVars, stopVars, lastDepart, vaporizing, riders>>

(* loadUntil reads on until a vehicle beyond the current step was kept. *)
EndLoad ==
    /\ phase \in {"preload", "load"}
    /\ unread = {} \/ lastDepart > now
    /\ phase' = IF phase = "preload" THEN "traci" ELSE "persons"
    /\ UNCHANGED <<now, loc, depart, queue, counterVars, emitVars, flowVars,
                   transferVars, stopVars, loaderVars, vaporizing, riders>>
-----------------------------------------------------------------------------
(* MSPersonStage_Driving::proceed: a person whose ride starts takes a vehicle
   that waits on the edge and was defined with depart="triggered". *)
PersonTakesVehicle(v) ==
    /\ phase = "persons" /\ riders > 0
    /\ v \in waiting \cap TrigVeh
    /\ queue' = queue \cup {v}
    /\ waiting' = waiting \ {v}
    /\ personWait' = personWait - 1
    /\ riders' = riders - 1
    /\ UNCHANGED <<timeVars, loc, depart, counterVars, emitVars, flowVars,
                   transferVars, stop, registered, loaderVars, vaporizing>>

EndPersons ==
    /\ phase = "persons"
    /\ phase' = "flows"
    /\ flowTodo' = {f \in Flow : flow[f].active}
    /\ UNCHANGED <<now, loc, depart, queue, counterVars, emitVars, flow,
                   flowOpen, transferVars, stopVars, loaderVars, vaporizing,
                   riders>>
-----------------------------------------------------------------------------
(* MSInsertionControl::determineCandidates: the loop over the flows ... *)

Due(f) == IF f \in ProbFlow
          THEN flowOpen # f /\ Begin[f] <= now /\ RepEnd[f] > now
          ELSE flow[f].done < Number[f] /\ Begin[f] + flow[f].done * Offset[f] <= now

(* The flow the loop looks at: the open one, or the next that is not blocked. *)
Visiting(f) == /\ phase = "flows"
               /\ \/ flowOpen = f
                  \/ flowOpen = None /\ f \in flowTodo /\ ~Blocked(f)

FlowSkip(f) ==
    /\ phase = "flows" /\ flowOpen = None /\ f \in flowTodo /\ Blocked(f)
    /\ flowTodo' = flowTodo \ {f}
    /\ UNCHANGED <<timeVars, loc, depart, queue, counterVars, emitVars, flow,
                   flowOpen, transferVars, stopVars, loaderVars, vaporizing,
                   riders>>

(* The depart of the first vehicle of a repetition, and of the further ones
   --scale asks for, which is computed after repetitionsDone was increased. *)
DepartOf(f, done) == IF f \in ProbFlow THEN now ELSE Begin[f] + done * Offset[f]

NextIds(f, q) == {FlowVeh[f][flow[f].index + i] : i \in 1..q}

(* One more repetition is done, q vehicles are built, the last one is v. *)
Repeated(f, q, v) == [flow EXCEPT ![f] = [active |-> @.active, vehicle |-> v,
                                          done |-> @.done + 1, index |-> @.index + q]]

(* getQuota keeps no vehicle of the repetition. *)
FlowDiscarded(f) ==
    /\ Visiting(f) /\ Due(f) /\ 0 \in Quotas
    /\ flow[f].index < Len(FlowVeh[f])
    /\ loc[FlowVeh[f][flow[f].index + 1]] = "none"
    /\ flowOpen' = f
    /\ DiscardUnbuilt
    /\ flow' = Repeated(f, 0, None)
    /\ UNCHANGED <<timeVars, loc, depart, queue, emitVars, flowTodo,
                   transferVars, stopVars, loaderVars, vaporizing, riders>>

(* One repetition of the flow, with the quota getQuota gives it.  The code asks for
   the first id only: that the ids of the other copies are free, too, follows from
   QuotaAssumption (CopiesFree in DepartureOrder_proofs). *)
FlowRepetition(f, q) ==
    /\ Visiting(f) /\ Due(f) /\ q > 0
    /\ flow[f].index + q <= Len(FlowVeh[f])
    /\ \A v \in NextIds(f, q) : loc[v] = "none"
    /\ flowOpen' = f
    /\ loaded' = loaded + q
    /\ loc' = [v \in Veh |-> IF v \in NextIds(f, q) THEN "waiting" ELSE loc[v]]
    /\ depart' = [v \in Veh |->
                     IF v = FlowVeh[f][flow[f].index + 1] THEN DepartOf(f, flow[f].done)
                     ELSE IF v \in NextIds(f, q) THEN DepartOf(f, flow[f].done + 1)
                     ELSE depart[v]]
    /\ stop' = [v \in Veh |-> IF v \notin NextIds(f, q) THEN stop[v]
                              ELSE IF StopOf[v] = "none" THEN "none" ELSE "ahead"]
    /\ queue' = queue \cup NextIds(f, q)
    /\ flow' = Repeated(f, q, FlowVeh[f][flow[f].index + q])
    /\ UNCHANGED <<timeVars, running, ended, discarded, emitVars, flowTodo,
                   transferVars, registered, waiting, personWait, loaderVars,
                   vaporizing, riders>>

(* "Another vehicle with the id exists": a ProcessError ends the run. *)
IdClash ==
    /\ \/ phase = "load" /\ \E v \in unread : loc[v] # "none"
       \/ \E f \in Flow :
             /\ Visiting(f) /\ Due(f) /\ flow[f].index < Len(FlowVeh[f])
             /\ loc[FlowVeh[f][flow[f].index + 1]] # "none"
    /\ phase' = "error"
    /\ UNCHANGED <<now, loc, depart, queue, counterVars, emitVars, flowVars,
                   transferVars, stopVars, loaderVars, vaporizing, riders>>

Exhausted(f) == \/ f \notin ProbFlow /\ flow[f].done = Number[f]
                \/ f \in ProbFlow /\ RepEnd[f] <= now

(* The flow has nothing (more) to emit in this step; an exhausted one goes.
   A probabilistic flow may also draw no vehicle. *)
FlowClose(f) ==
    /\ Visiting(f) /\ (~Due(f) \/ f \in ProbFlow)
    /\ flowOpen' = None
    /\ flowTodo' = flowTodo \ {f}
    /\ flow' = IF Exhausted(f)
               THEN [flow EXCEPT ![f] = [active |-> FALSE, vehicle |-> None,
                                         done |-> @.done, index |-> @.index]]
               ELSE flow
    /\ UNCHANGED <<timeVars, loc, depart, queue, counterVars, emitVars,
                   transferVars, stopVars, loaderVars, vaporizing, riders>>

EndFlows ==
    /\ phase = "flows" /\ flowTodo = {} /\ flowOpen = None
    /\ phase' = "candidates"
    /\ UNCHANGED <<now, loc, depart, queue, counterVars, emitVars, flowVars,
                   transferVars, stopVars, loaderVars, vaporizing, riders>>

(* ... and checkCandidates: the vehicles whose time has come, in the order of
   their departure, ties in any order.  Who departs at -1 joins those of time 0. *)
SameBucket(v, w) == depart[v] = 0 /\ depart[w] < 0
Release_AnyOrder(v) ==
    /\ phase = "candidates"
    /\ v \in queue /\ depart[v] <= now
    /\ queue' = queue \ {v}
    /\ pending' = Append(pending, v)
    /\ UNCHANGED <<timeVars, loc, depart, counterVars, refused, candidates,
                   aborted, failedEdges, flowVars, transferVars, stopVars,
                   loaderVars, vaporizing, riders>>
Release(v) ==
    /\ phase = "candidates"
    /\ v \in queue /\ depart[v] <= now
    /\ \A w \in queue : SameBucket(v, w) \/ depart[v] <= depart[w]
    /\ queue' = queue \ {v}
    /\ pending' = Append(pending, v)
    /\ UNCHANGED <<timeVars, loc, depart, counterVars, refused, candidates,
                   aborted, failedEdges, flowVars, transferVars, stopVars,
                   loaderVars, vaporizing, riders>>

(* With automatic routing the vehicles are first checked for room on their
   edge; a vaporizing edge always has room.  emitVehicles returns at once when
   nothing is pending or nothing passed the check. *)
StartEmit(passed) ==
    /\ phase = "candidates"
    /\ \A v \in queue : depart[v] > now
    /\ IF PreCheck
       THEN /\ passed \subseteq ToSet(pending)
            /\ \A v \in ToSet(pending) : EdgeOf[v] \in vaporizing => v \in passed
       ELSE passed = {}
    /\ candidates' = passed
    /\ phase' = IF pending = <<>> \/ (PreCheck /\ passed = {})
                THEN "transfer" ELSE "emit"
    /\ UNCHANGED <<now, loc, depart, queue, counterVars, pending, refused,
                   aborted, failedEdges, flowVars, transferVars, stopVars,
                   loaderVars, vaporizing, riders>>
-----------------------------------------------------------------------------
(* MSInsertionControl::emitVehicles: tryInsert for one pending vehicle after
   the other. *)

Trying(v) == /\ phase = "emit" /\ pending # <<>> /\ v = Head(pending)
             /\ PreCheck => v \in candidates

EmitSkip_Forgotten ==
    /\ phase = "emit" /\ pending # <<>>
    /\ PreCheck /\ Head(pending) \notin candidates
    /\ pending' = Tail(pending)
    /\ UNCHANGED <<timeVars, loc, depart, queue, counterVars, refused, candidates,
                   aborted, failedEdges, flowVars, transferVars, stopVars,
                   loaderVars, vaporizing, riders>>
EmitSkip ==
    /\ phase = "emit" /\ pending # <<>>
    /\ PreCheck /\ Head(pending) \notin candidates
    /\ refused' = Append(refused, Head(pending))
    /\ pending' = Tail(pending)
    /\ UNCHANGED <<timeVars, loc, depart, queue, counterVars, candidates,
                   aborted, failedEdges, flowVars, transferVars, stopVars,
                   loaderVars, vaporizing, riders>>

(* isOnRoad(): the vehicle was brought onto a lane by other means. *)
TryInsertOnRoad(v) ==
    /\ Trying(v) /\ loc[v] = "lane"
    /\ pending' = Tail(pending)
    /\ UNCHANGED <<timeVars, loc, depart, queue, counterVars, refused,
                   candidates, aborted, failedEdges, flowVars, transferVars,
                   stopVars, loaderVars, vaporizing, riders>>

(* insertVehicle is called, and the edge does not refuse it outright. *)
Attempted_OneTooMany(v) == /\ MaxVehicleNumber < 0 \/ running <= MaxVehicleNumber
                           /\ CheckEdgesOnce => EdgeOf[v] \notin failedEdges
                           /\ EdgeOf[v] \notin vaporizing
Attempted(v) == /\ MaxVehicleNumber < 0 \/ running < MaxVehicleNumber
                /\ CheckEdgesOnce => EdgeOf[v] \notin failedEdges
                /\ EdgeOf[v] \notin vaporizing

TryInsertSucceeds(v) ==
    /\ Trying(v) /\ loc[v] # "lane"
    /\ Attempted(v)
    /\ EnterLane(v)
    /\ CheckFlowWait(v)
    /\ pending' = Tail(pending)
    /\ UNCHANGED <<timeVars, depart, queue, refused, candidates, aborted,
                   failedEdges, flowTodo, flowOpen, transferVars, stopVars,
                   loaderVars, vaporizing, riders>>

Overdue(v) == MaxDepartDelay >= 0 /\ now - depart[v] > MaxDepartDelay

(* The insertion fails.  "deschedules": insertVehicle found that the vehicle
   can never be inserted and called descheduleDeparture. *)
TryInsertFails_KeepsTrying(v, deschedules) ==
    /\ Trying(v) /\ loc[v] # "lane"
    /\ deschedules => Attempted(v)
    /\ failedEdges' = failedEdges \cup {EdgeOf[v]}
    /\ pending' = Tail(pending)
    /\ refused' = Append(refused, v)
    /\ UNCHANGED <<timeVars, loc, depart, queue, counterVars, candidates, aborted,
                   flowVars, transferVars, stopVars, loaderVars, vaporizing,
                   riders>>
TryInsertFails_OnlyAttempted(v, deschedules) ==
    /\ Trying(v) /\ loc[v] # "lane"
    /\ deschedules => Attempted(v)
    /\ failedEdges' = failedEdges \cup {EdgeOf[v]}
    /\ pending' = Tail(pending)
    /\ IF Attempted(v) /\ Overdue(v)
       THEN CheckFlowWait(v) /\ DiscardVehicle(v) /\ UNCHANGED refused
       ELSE /\ refused' = Append(refused, v)
            /\ UNCHANGED <<loc, counterVars, flow>>
    /\ UNCHANGED <<timeVars, depart, queue, candidates, aborted, flowTodo, flowOpen,
                   transferVars, stopVars, loaderVars, vaporizing, riders>>
TryInsertFails_OnRoad(v, deschedules) ==
    /\ Trying(v)
    /\ deschedules => Attempted(v)
    /\ failedEdges' = failedEdges \cup {EdgeOf[v]}
    /\ pending' = Tail(pending)
    /\ IF Overdue(v) \/ EdgeOf[v] \in vaporizing
       THEN CheckFlowWait(v) /\ DiscardVehicle(v) /\ UNCHANGED refused
       ELSE /\ refused' = Append(refused, v)
            /\ UNCHANGED <<loc, counterVars, flow>>
    /\ UNCHANGED <<timeVars, depart, queue, candidates, aborted, flowTodo, flowOpen,
                   transferVars, stopVars, loaderVars, vaporizing, riders>>
TryInsertFails(v, deschedules) ==
    /\ Trying(v) /\ loc[v] # "lane"
    /\ deschedules => Attempted(v)
    /\ failedEdges' = failedEdges \cup {EdgeOf[v]}
    /\ pending' = Tail(pending)
    /\ LET unwanted == IF deschedules THEN aborted \cup {v} ELSE aborted
       IN IF Overdue(v) \/ EdgeOf[v] \in vaporizing
          THEN /\ CheckFlowWait(v) /\ DiscardVehicle(v)
               /\ aborted' = unwanted /\ UNCHANGED refused
          ELSE IF v \in unwanted
          THEN /\ CheckFlowWait(v) /\ DiscardVehicle(v)
               /\ aborted' = unwanted \ {v} /\ UNCHANGED refused
          ELSE /\ refused' = Append(refused, v)
               /\ UNCHANGED <<loc, counterVars, flow, aborted>>
    /\ UNCHANGED <<timeVars, depart, queue, candidates, flowTodo, flowOpen,
                   transferVars, stopVars, loaderVars, vaporizing, riders>>

EndEmit_RefusedLost ==
    /\ phase = "emit" /\ pending = <<>>
    /\ refused' = <<>>
    /\ candidates' = {}
    /\ phase' = "transfer"
    /\ UNCHANGED <<now, loc, depart, queue, counterVars, pending, aborted,
                   failedEdges, flowVars, transferVars, stopVars, loaderVars,
                   vaporizing, riders>>
EndEmit ==
    /\ phase = "emit" /\ pending = <<>>
    /\ pending' = refused
    /\ refused' = <<>>
    /\ candidates' = {}
    /\ phase' = "transfer"
    /\ UNCHANGED <<now, loc, depart, queue, counterVars, aborted, failedEdges,
                   flowVars, transferVars, stopVars, loaderVars, vaporizing,
                   riders>>
-----------------------------------------------------------------------------
(* MSVehicleTransfer::checkInsertions. *)

TeleportEnds(v) ==
    /\ phase = "transfer" /\ v \in teleporting
    /\ loc' = [loc EXCEPT ![v] = "lane"]
    /\ teleporting' = teleporting \ {v}
    /\ UNCHANGED <<timeVars, depart, queue, counterVars, emitVars, flowVars,
                   parking, parkedOn, stopVars, loaderVars, vaporizing, riders>>

(* The proceed time is over and the vehicle is on its last edge. *)
TeleportBeyondArrival_Discards(v) ==
    /\ phase = "transfer" /\ v \in teleporting
    /\ LeaveLane(v)
    /\ DiscardVehicle(v)
    /\ teleporting' = teleporting \ {v}
    /\ UNCHANGED <<timeVars, depart, queue, emitVars, flowVars, parking,
                   parkedOn, loaderVars, vaporizing, riders>>
TeleportBeyondArrival(v) ==
    /\ phase = "transfer" /\ v \in teleporting
    /\ LeaveLane(v)
    /\ ScheduleVehicleRemoval(v)
    /\ teleporting' = teleporting \ {v}
    /\ UNCHANGED <<timeVars, depart, queue, emitVars, flowVars, parking,
                   parkedOn, loaderVars, vaporizing, riders>>

ParkingEnds(v) ==
    /\ phase = "transfer" /\ v \in parking /\ ~Stopped(v)
    /\ loc' = [loc EXCEPT ![v] = "lane"]
    /\ parking' = parking \ {v}
    /\ parkedOn' = parkedOn \ {v}
    /\ UNCHANGED <<timeVars, depart, queue, counterVars, emitVars, flowVars,
                   teleporting, stopVars, loaderVars, vaporizing, riders>>

(* MSNet::simulationState: without a TraCI client the run ends when nothing
   is active any more. *)
NoFurtherVehicles_RunningOnly == running = 0 /\ PendingFlowCount = 0
NoFurtherVehicles == ActiveVehicleCount = 0 /\ PendingFlowCount = 0

EndStep ==
    /\ phase = "transfer"
    /\ now' = IF now < Horizon THEN now + 1 ELSE now
    /\ failedEdges' = {}
    /\ phase' = IF ClientCommands = {} /\ NoFurtherVehicles THEN "ended"
                ELSE "traci"
    /\ UNCHANGED <<loc, depart, queue, counterVars, pending, refused,
                   candidates, aborted, flowVars, transferVars, stopVars,
                   loaderVars, vaporizing, riders>>

(* The client closes the connection once nothing is expected any more. *)
TraciClose ==
    /\ phase = "traci" /\ ClientCommands # {} /\ MinExpectedNumber = 0
    /\ phase' = "ended"
    /\ UNCHANGED <<now, loc, depart, queue, counterVars, emitVars, flowVars,
                   transferVars, stopVars, loaderVars, vaporizing, riders>>

Terminated == phase \in {"ended", "error"} /\ UNCHANGED vars
-----------------------------------------------------------------------------
Init ==
    /\ now = 0 /\ phase = "preload"
    /\ loc = [v \in Veh |-> "none"]
    /\ stop = [v \in Veh |-> "none"]
    /\ depart = [v \in Veh |-> 0]
    /\ registered = {} /\ waiting = {} /\ personWait = 0
    /\ queue = {} /\ pending = <<>> /\ refused = <<>>
    /\ candidates = {} /\ aborted = {} /\ failedEdges = {}
    /\ flow = [f \in Flow |-> [active |-> TRUE, vehicle |-> None,
                               done |-> 0, index |-> 0]]
    /\ flowTodo = {} /\ flowOpen = None
    /\ vaporizing = {}
    /\ teleporting = {} /\ parking = {} /\ parkedOn = {}
    /\ loaded = 0 /\ running = 0 /\ ended = 0 /\ discarded = 0
    /\ unread = FileVeh \cup TrigVeh /\ lastDepart = -1
    /\ riders = Riders

Client == \/ \E v \in Veh : \/ \E d \in (now..Horizon) \cup {-1} : TraciAdd(v, d)
                            \/ TraciRemove(v)
                            \/ TraciMoveTo(v)
          \/ \E i \in DOMAIN pending : TraciClearPending(i)
          \/ TraciAddInvalid
          \/ TraciClose

Traffic == \/ \E v \in Veh :
                 \/ Leave(v) \/ ReachStop(v) \/ Park(v)
                 \/ Teleport(v) \/ TeleportOnLastEdge(v)
                 \/ \E b \in BOOLEAN : WaitAtStop(v, b) \/ LeaveStop(v, b)
                 \/ TeleportEnds(v) \/ TeleportBeyondArrival(v)
                 \/ ParkingEnds(v)
           \/ \E e \in Edge : Vaporization(e)

Demand == \/ \E v \in Veh : \/ \E d \in 0..FileHorizon : LoadVehicle(v, d)
                            \/ LoadTriggered(v) \/ LoadDiscarded(v)
                            \/ PersonTakesVehicle(v)
          \/ \E f \in Flow : \/ FlowSkip(f) \/ FlowClose(f) \/ FlowDiscarded(f)
                             \/ \E q \in Quotas : FlowRepetition(f, q)
          \/ IdClash

Insertion == \/ \E v \in Veh : \/ Release(v) \/ TryInsertOnRoad(v)
                               \/ TryInsertSucceeds(v)
                               \/ \E b \in BOOLEAN : TryInsertFails(v, b)
             \/ \E passed \in SUBSET ToSet(pending) : StartEmit(passed)
             \/ EmitSkip

EndPhase == \/ StartStep \/ EndEvents \/ EndMove \/ EndLoad \/ EndPersons
            \/ EndFlows \/ EndEmit \/ EndStep

Next == Client \/ Traffic \/ Demand \/ Insertion \/ EndPhase \/ Terminated

Spec == Init /\ [][Next]_vars
-----------------------------------------------------------------------------
(* What the loop of MSNet::simulate guarantees: every phase of a step runs to
   its end.  Nothing is assumed of the traffic or of the client. *)
Loading == \E v \in Veh : (\E d \in 0..FileHorizon : LoadVehicle(v, d)) \/ LoadTriggered(v)
Flows == \E f \in Flow : \/ FlowSkip(f) \/ FlowClose(f) \/ FlowDiscarded(f)
                         \/ \E q \in Quotas : FlowRepetition(f, q)
Parking == \E v \in Veh : Park(v)

LoopFairness == /\ WF_vars(Loading) /\ WF_vars(Flows) /\ WF_vars(IdClash)
                /\ WF_vars(Parking) /\ WF_vars(Insertion) /\ WF_vars(EndPhase)

FairSpec == Spec /\ LoopFairness

(* What the traffic has to grant beyond that: again and again some waiting
   vehicle finds room, some vehicle at a stop goes on, some vehicle in transfer
   comes back and some vehicle on the road arrives.  (A premise of RunEnds.) *)
TrafficFairness ==
    /\ SF_vars(\E v \in Veh : TryInsertSucceeds(v))
    /\ SF_vars(\E v \in Veh : Leave(v))
    /\ SF_vars(\E v \in Veh : LeaveStop(v, TRUE))
    /\ SF_vars(\E v \in Veh : TeleportEnds(v) \/ ParkingEnds(v))

-----------------------------------------------------------------------------
Phases == {"preload", "traci", "events", "move", "load", "persons", "flows",
           "candidates", "emit", "transfer", "ended", "error"}

(* Every variable keeps its type. *)
TypeOK ==
    /\ now \in Nat /\ phase \in Phases
    /\ loc \in [Veh -> {"none", "waiting", "lane", "teleport", "parking"}]
    /\ stop \in [Veh -> {"none", "ahead", "reached", "boarded"}]
    /\ depart \in [Veh -> Int]
    /\ registered \subseteq Veh /\ waiting \subseteq Veh /\ personWait \in Int
    /\ queue \subseteq Veh /\ pending \in Seq(Veh) /\ refused \in Seq(Veh)
    /\ candidates \subseteq Veh /\ aborted \subseteq Veh
    /\ failedEdges \subseteq Edge /\ vaporizing \subseteq Edge
    /\ flow \in [Flow -> [active : BOOLEAN, vehicle : Veh \cup {None},
                          done : Nat, index : Nat]]
    /\ flowTodo \subseteq Flow /\ flowOpen \in Flow \cup {None}
    /\ teleporting \subseteq Veh /\ parking \subseteq Veh /\ parkedOn \subseteq Veh
    /\ loaded \in Nat /\ running \in Int /\ ended \in Nat /\ discarded \in Nat
    /\ unread \subseteq Veh /\ lastDepart \in Int
    /\ riders \in Int

Queued == queue \cup ToSet(pending) \cup ToSet(refused)

(* Vehicles with depart="triggered" that nobody has asked for yet. *)
AwaitingRider == {v \in waiting \cap TrigVeh : loc[v] = "waiting"}

(* The running counter (getRunningVehicleNo) is the number of vehicles that
   departed and still exist: a departure is counted once, whichever way the
   vehicle came onto its first lane, and every removal of a departed vehicle
   goes through scheduleVehicleRemoval. *)
RunningIsDeparted == running = Cardinality(Departed)

(* loaded - ended is the number of vehicle objects, unless TraCI "add"
   commands failed: then getActiveVehicleCount stays too high for ever. *)
LoadedBalance ==
    /\ loaded - ended >= Cardinality(Live)
    /\ "addInvalid" \notin ClientCommands => loaded - ended = Cardinality(Live)

(* A vehicle waits for its departure in exactly one place, once: in the heap,
   among the pending or the refused vehicles, or for a rider; and whatever
   waits there exists and has not departed. *)
WaitsOnce ==
    /\ \A v \in Veh : loc[v] = "waiting" <=> v \in Queued \cup AwaitingRider
    /\ queue \cap (ToSet(pending) \cup ToSet(refused)) = {}
    /\ Queued \cap AwaitingRider = {}
    /\ ToSet(pending) \cap ToSet(refused) = {}
    /\ IsInjective(pending) /\ IsInjective(refused)

(* A vehicle out of the network is with MSVehicleTransfer and nowhere else:
   checkInsertions never brings a vehicle onto a lane a second time, and none
   is forgotten. *)
TransferExact ==
    /\ teleporting = {v \in Veh : loc[v] = "teleport"}
    /\ parking = {v \in Veh : loc[v] = "parking"}

(* A flow waits only for a vehicle that is still to be inserted: checkFlowWait
   is called on every way out of the insertion queue. *)
FlowBlockIsReal ==
    \A f \in Flow : flow[f].vehicle # None => flow[f].vehicle \in Queued

(* myWaitingForPerson is the number of vehicles that wait for a person: the
   ones registered at a triggered stop and the ones with a triggered depart.
   It is what keeps the active count from reporting a false end. *)
PersonWaitExact ==
    personWait = Cardinality(registered) + Cardinality(AwaitingRider)

(* myWaiting, where persons look for a ride, names no vehicle that is gone or
   has moved on. *)
WaitingIsReal ==
    /\ registered \subseteq waiting
    /\ \A v \in waiting : \/ Stopped(v) /\ loc[v] \in {"lane", "parking"}
                          \/ v \in AwaitingRider

(* When the run ends by itself the route files are read, the flows are done
   and the only vehicles left wait for a person who will not come. *)
EndIsComplete ==
    phase = "ended" /\ ClientCommands = {} =>
        /\ unread = {} /\ \A f \in Flow : ~flow[f].active
        /\ Queued = {}
        /\ Live = registered \cup AwaitingRider

(* --max-num-vehicles: insertions never take the number of running vehicles
   over the limit. *)
MaxNumberKept == MaxVehicleNumber >= 0 => running <= MaxVehicleNumber

(* --max-depart-delay: after emitVehicles no vehicle that waited longer is
   still pending. *)
SkippedInTime == phase = "transfer" => \A v \in ToSet(pending) : ~Overdue(v)

(* Vehicles that may reach the queue after their departure time: those of a flow
   that had to wait for an earlier one, and triggered ones. *)
MayBeLate(w) == w \in TrigVeh \/ \E f \in Flow \ Volatile : w \in ToSet(FlowVeh[f])
SameFlow(v, w) == \E f \in Flow : {v, w} \subseteq ToSet(FlowVeh[f])

(* Without --eager-insert the vehicles of an edge depart in the order of their
   departure times: none is inserted while one that was due earlier on the same
   edge is refused in the same step.  Only a vehicle of a flow or a triggered one
   may be overtaken when it was queued late, and within a flow none is; and one
   without a departure time (-1), which the client adds when it likes. *)
DepartInOrder ==
    [][\A v, w \in Veh :
         /\ v \in ToSet(pending) /\ loc[v] = "waiting" /\ loc'[v] = "lane"
         /\ w \in ToSet(pending') \cup ToSet(refused')
         /\ EdgeOf[w] = EdgeOf[v]
         => \/ depart[v] <= depart[w] \/ depart[w] < 0
            \/ MayBeLate(w) /\ ~SameFlow(v, w)]_vars

(* A vehicle on the road leaves the simulation as an arrival, never as a
   discarded one: discarded counts waiting vehicles only. *)
OnlyWaitingDiscarded ==
    [][\A v \in Veh : loc[v] \in {"lane", "teleport", "parking"} /\ loc'[v] = "none"
          => discarded' = discarded /\ running' = running - 1]_vars

(* A vehicle that is in the insertion queue although it departed already (a person
   asked for it again at a later stop) stays on its lane, however late it is by
   then and whatever its edge is doing: tryInsert neither deletes it nor inserts
   it again. *)
InsertionSparesRoad ==
    [][phase = "emit" => \A v \in Departed : loc'[v] = loc[v]]_vars

(* With --max-depart-delay no vehicle that is due stays in the insertion queue for
   ever, whatever the traffic does: it is inserted or discarded. *)
PendingResolved ==
    \A v \in Veh : v \in ToSet(pending) \cup ToSet(refused)
                     ~> v \notin ToSet(pending) \cup ToSet(refused)

(* A flow that waits for its last vehicle gets on, whatever the traffic does. *)
FlowsUnblock ==
    \A f \in Flow : Blocked(f) ~> ~Blocked(f)

(* If the traffic flows, every run ends by itself: nothing that the simulation
   has to count down (active vehicles, flows, unread routes) gets stuck. *)
RunEnds == TrafficFairness => <>(phase \in {"ended", "error"})
=============================================================================
