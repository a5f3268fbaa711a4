# A formal model of plexe-sumo

TLA+ specifications of the microscopic simulation in `sumo/src/microsim`, its
TraCI commands and the Plexe platooning extension, with TLC configurations that
check them on small instances and TLAPS proofs for every value of the constants.
Paths below are relative to `src/sumo/src` unless they say otherwise.

## 1. The system

SUMO moves vehicles over a road network in steps of `DELTA_T`. One process, one
thread: everything that is concurrent in it is concurrent by interleaving inside
a step - vehicles, flows, persons, the event queue and the commands a TraCI client
sends between two steps. `MSNet::simulationStep` fixes the order of the phases;
inside a phase the order of the vehicles is that of lanes, maps and heaps.

    TraCI client -> begin events -> plan / execute moves, lane changes -> load routes
       ^            -> persons start rides -> flows -> candidates -> emit (insert)
       |            -> transfer (teleport, parking) -> state of the run, clock
       +----------------------------------------------------------------------+

### Components

| component | state | operations | talks to |
|---|---|---|---|
| `MSVehicleControl` | vehicle dictionary; counters loaded, running, ended, discarded; `myWaiting`, `myWaitingForPerson`; scaling quota | `buildVehicle`, `addVehicle`, `vehicleDeparted`, `scheduleVehicleRemoval`, `deleteVehicle`, `addWaiting`, `removeWaiting`, `getWaitingVehicle`, `(un)registerOneWaitingForPerson`, `getQuota` | everything that creates or removes a vehicle |
| `MSInsertionControl` | `myAllVeh` (heap of departures), `myPendingEmits`, `myEmitCandidates`, `myAbortedEmits`, `myFlows` | `add`, `addFlow`, `determineCandidates`, `checkCandidates`, `emitVehicles`, `tryInsert`, `checkFlowWait`, `descheduleDeparture`, `clearPendingVehicles` | edges (insertion), vehicle control (build, delete), TraCI |
| `MSVehicleTransfer` | `myVehicles`, `myParkingVehicles` | `add`, `remove`, `checkInsertions` | lanes, vehicles, vehicle control |
| `MSVehicle` | lane, stops, trigger and registration flags, planned speeds | `planMove`, `executeMove`, `processNextStop`, `enterLaneAtInsertion`, `leaveLane`, `onRemovalFromNet` | car-following model, lanes, vehicle control |
| `MSNet`, route loading | clock; files read up to a departure time; `myLastDepart` | `simulationStep`, `simulationState`, `loadRoutes`, `closeVehicle`, `closeFlow` | all |
| TraCI server | commands queued for one step | vehicle add/remove/move-to, clear pending, Plexe commands, close | all |
| `MSCFModel_CC` | per vehicle `CC_VehicleVariables`: active controller, stored follow and free speed with time stamp, radar, received platoon data, fixed lane | `followSpeed`, `freeSpeed`, `moveHelper`, `_v`, `setLeaderInformation`, `setGenericInformation`, `getRadarMeasurements`, `setFixedLane` | vehicle, enclave, lane changer, TraCI |
| `Enclave` | position, contract (in a foreign library) | `checkIfAllowedSpeed` | `MSCFModel_CC` |
| `MSACCLaneChanger` (`MSCACCLaneChanger`) | none of its own | `change`: obeys the lane change action and the fixed lane | `MSCFModel_CC` through `followSpeed` |
| `MSPersonControl`, `MSPerson` | plans; persons waiting per edge | `proceed` of a stage, boarding | vehicle control, insertion control |
| `MSVehicleContainer` | an array used as a binary heap of buckets, each with the vehicles of about one departure | `add`, `addReplacing`, `top`, `pop`, `percolateDown`, `anyWaitingBefore` | insertion control |
| `MSEventControl` | events: a command and the time it wants to be executed | `addEvent`, `execute` | traffic lights, WAUTs, triggers, outputs |
| `MSTLLogicControl`, `MSTrafficLightLogic` and its kinds | per light the programs with phases, step and switch command; the active program; WAUTs with the processes that wait to switch | `trySwitch`, `SwitchCommand::execute`, `changeStepAndDuration`, `switchTo`, `initWautSwitch`, `check2Switch`, the switch procedures | event queue, links, TraCI |
| `MSLink`, state saving, meso, detectors, devices, triggers, GUI, routers, netconvert, tools | see `PROJECT.json`, "components" | | |

### What is hard, and what makes it right

*Life of a vehicle.* A vehicle may wait in the departure heap, among the pending
or the refused, or for a rider; it may be on a lane, in the transfer list as
teleporting or parking, at a stop and registered as waiting for a person. Each of
these lists is kept by a different class and each way out of a place - arrival,
vaporizing, teleport on the last edge, removal by the client, an overdue or
impossible departure - is a different code path that must clear all of them and
count once. Wrong bookkeeping is not local: the counters decide when the run
ends, how many vehicles may be inserted and whether a flow goes on.

*Platooning.* The speed a vehicle drives is not what `followSpeed` returned but
what some call of this or an earlier step stored. Which call it is depends on the
order in which `planMove` meets leaders, on what the enclave refuses, on when
the client switches controllers and on whether the lane changer asks in
between under `ignoreModifications`. Data of the other members of the platoon arrive
in any order, late, or never.

*Departures.* Vehicles reach the departure queue from files, flows and the client
in any order and at any time. The insertion control stops at the first bucket that is
not due, so one bucket out of heap order delays vehicles without any message, and
an index that is wrong by one shows in heaps of a certain size only.

*Traffic lights.* All programs of a light run all the time and only the active
one is shown. Whoever changes a program's phase cannot take the old command out of
the event queue; it stays there, invalid, while a new one is added. Events
are executed up to a step early, and the processes of a WAUT wait over several
switches. Client, WAUT, additional files and the programs themselves act on the same
state in an order nobody fixed.

*Elsewhere*: right of way between links, what a saved state lacks. These are listed
as hazards or components and are left (section 8).

## 2. Modules

| module | what it is |
|---|---|
| `VehicleLifecycle` | demand, insertion, traffic, transfer and removal of vehicles, the client and the loop that drives them |
| `DepartureSchedule` | abstract: what the insertion control needs of its store of departures |
| `DepartureQueue` | `MSVehicleContainer`, every iteration of its loops a step; implements `DepartureSchedule` |
| `PlatoonController` | one vehicle with `MSCFModel_CC`, the enclave and the lane changer, the client that steers it |
| `EventControl` | `MSEventControl`: the queue of commands a component extends |
| `TrafficLights` | extends `EventControl`: the programs of one light, their commands, its WAUT and the client |
| `MCVehicleLifecycle`, `MCDepartureQueue`, `MCPlatoonController`, `MCTrafficLights` | small instances |
| `SequenceLemmas` | facts about injective sequences, their elements, and least numbers |
| `VehicleLifecycle_proofs`, `DepartureQueue_proofs`, `PlatoonController_proofs`, `TrafficLights_proofs` | theorems and proofs |
| `InsertionQueue_proofs` | extends `VehicleLifecycle_proofs`: what `emitVehicles` does and does not do, the counters, the end of the run |
| `DepartureOrder_proofs` | extends `InsertionQueue_proofs`: the order in which vehicles depart |
| `SignalTiming_proofs` | extends `TrafficLights_proofs`: a light without a client - the WAUT is obeyed, programs keep to their plan, green phases to their limits |

`VehicleLifecycle` takes a minimal departure out of a set; `DepartureQueue` shows
that the heap behind it hands over what a schedule may. `VehicleLifecycle` leaves what
happens on a lane open, `PlatoonController` leaves open when the vehicle is inserted
and arrives. `TrafficLights` is joined to the vehicles only by the signals, which
`VehicleLifecycle` does not look at. Definitions named `X_Y` are altered forms of `X` with a
plausible mistake `Y`; no specification uses them, and each of them breaks a
property, which shows that the property is about the code.

### VehicleLifecycle and the code

State. `loc[v]` says where the object is: in no dictionary (`none`), built but not
departed (`waiting`), on a `lane`, in `teleport` or `parking`. `queue` is
`myAllVeh`, `pending` is `myPendingEmits` (during `emitVehicles` what the loop has
not visited), `refused` its local `refusedEmits`, `flow` is `myFlows` with the vehicle
a flow waits for, `flowTodo`/`flowOpen` the position of the loop over the flows.
`teleporting` and `parking` are `MSVehicleTransfer::myVehicles` split by
`myParking`, `parkedOn` is `myParkingVehicles`. `waiting`, `personWait` and the
counters are those of `MSVehicleControl`; `registered` is
`myAmRegisteredAsWaitingForPerson`. `phase` is where in `simulationStep` the
program is.

| action | code |
|---|---|
| `TraciAdd`, `TraciAddInvalid`, `TraciRemove`, `TraciMoveTo`, `TraciClearPending`, `TraciClose` | `TraCIServerAPI_Vehicle::processSet`, `TraCIServerAPI_Simulation::processSet`, `MSInsertionControl::clearPendingVehicles` |
| `Vaporization` | `MSEdge::incVaporization`, `decVaporization` |
| `ReachStop`, `WaitAtStop`, `LeaveStop`, `Park` | `MSVehicle::processNextStop`, `executeMove` |
| `Leave`, `Teleport`, `TeleportOnLastEdge` | `MSLane::executeMovements`, `MSVehicleTransfer::add` |
| `LoadVehicle`, `LoadTriggered`, `LoadDiscarded`, `EndLoad` | `SUMORouteLoader::loadUntil`, `MSRouteHandler::closeVehicle` |
| `PersonTakesVehicle` | `MSPerson::MSPersonStage_Driving::proceed` |
| `FlowSkip`, `FlowRepetition`, `FlowDiscarded`, `FlowClose`, `IdClash` | the loop of `MSInsertionControl::determineCandidates` |
| `Release`, `StartEmit` | `checkCandidates`, the pre-check of automatic routing |
| `TryInsertSucceeds`, `TryInsertFails`, `TryInsertOnRoad`, `EmitSkip`, `EndEmit` | `tryInsert`, `emitVehicles` |
| `TeleportEnds`, `TeleportBeyondArrival`, `ParkingEnds` | `MSVehicleTransfer::checkInsertions` |
| `EndStep` | `MSNet::simulationState`, the clock |

`TryInsertFails` is a whole failed `tryInsert`: the failed edge, the flow that is
unblocked, the deletion of an overdue, vaporized or aborted vehicle or its return
to the refused ones are one action, in the order of the code. Calls that
throw an unrecoverable error end in phase `error`.

Abstraction. Positions, speeds and gaps are left out: whether an insertion
succeeds, a vehicle arrives, jams or collides is open. Every vehicle has a valid
route. A vehicle has at most one stop, and boards either by trigger or not at all.
The departure heap is a set from which a minimal departure is taken.
A vehicle the client adds with a departure procedure (a negative time) has the depart -1:
the heap puts it into the bucket of time 0, so that it and those due at 0 come in any
order. `FlowRepetition` asks that the ids of all copies be free, the code only that of
the first: `QuotaAssumption` says that with a quota above 1 nobody else uses the ids of a
flow, and `CopiesFree` that then the guard makes no difference. `TraciMoveTo` leaves out
what the loop of the command does after it has scheduled the vehicle for removal.

### DepartureQueue and the code

State. `array` is the used part of `MSVehicleContainer::array` (its slot 0, the
sentinel, is left out), `capacity` is `array.size() - 1`; `op`, `hole` and `item` are
the local state of the loop that runs: `hole` and `x` of `addReplacing`, `hole`
and `tmp` of `percolateDown`. `emitted` is what `checkCandidates` copied to
`myPendingEmits`, `phase` and `now` are those of the simulation step.

| action | code |
|---|---|
| `Add` | `add`: `find_if` with `DepartFinder`, an append to the bucket or `addReplacing` up to its loop, with the doubling of the array |
| `PercolateUp`, `PercolateDown`, `FillHole` | an iteration of the two loops, and the assignment behind them |
| `Release` | an iteration of `MSInsertionControl::checkCandidates`: `anyWaitingBefore`, `top`, the copy and `pop` |
| `StartRelease`, `EndRelease` | the order of loading and `checkCandidates` in `simulationStep` |

`Waiting`, all vehicles in buckets, is the refinement mapping to
`DepartureSchedule!waiting`. While a loop runs, the slot of the hole is a copy and the
item counts instead.

### PlatoonController and the code

State. `controller`, `ignore`, `followSpeed`/`followSet`, `freeSpeed`, `egoSpeed`,
`radarTime`, `caccInit`, `initialized`/`nInitialized`, `position`, `nCars`,
`laneAction` and `fixedLane` are fields of `CC_VehicleVariables`; `received` is
`leaderInitialized` and `frontInitialized`. `radarOf`, `followOf`, `freeAt`,
`approved` and `vetoed` are history: which leader a value belongs to, when it was
computed, what the enclave said. `asked` and `onward` record what `planMove` did
in this step.

| action | code |
|---|---|
| `SetActiveController`, `SetLaneChangeAction`, `SetFixedLane`, `SetLeaderInformation`, `SetPrecedingInformation`, `SetVehicleData`, `SetPosition`, `SetPlatoonSize` | the Plexe commands of `TraCIServerAPI_Vehicle`, `MSCFModel_CC::setGenericInformation` and its neighbours |
| `PlanLeader`, `PlanOnward`, `PlanEnds` | `MSVehicle::planMoveInternal`, `adaptToLeader`; inside, `FollowSpeed` and `FreeSpeed` are `MSCFModel_CC::followSpeed`, `freeSpeed` with `_v` |
| `ExecuteMove`, `Arrive` | `MSVehicle::executeMove`; `MoveHelper` is `MSCFModel_CC::moveHelper` |
| `StartAdvantage`, `AskAdvantage`, `EndAdvantage`, `LaneReached`, `KeepOrChangeLane` | `MSCACCLaneChanger::change` |
| `UnguardedAsk` | `MSLaneChanger::change`, `MSLCM_LC2013::informFollower` |

Abstraction. A control law or an engine yields any element of `Speed`; what is
kept is which call computed it, for whom, and whether it was allowed. The enclave is
a foreign library whose call status is not read, so its verdict is any
Boolean. `egoSpeed` is what `moveHelper` returns; `executeMove` may drive more on a
minor link past the point of no return, or what an influencer says. What laws and
engines keep for themselves - the acceleration of the faked CACC, the own entry of
`vehicles` in `_consensus`, the gear - is left out; it is written under
`ignoreModifications`, too, so that "no trace" is claimed of the radar and the stored
speeds only. The model
starts with the step after the insertion, at a time stamp that is not the initial 0.

### EventControl, TrafficLights and the code

State. `events` is `myEvents` as a set of commands with their times; `now` the clock.
Of a light `variants` is `myVariants`, `active` is `myCurrentProgram`, `plan`, `step`,
`lastSwitch` are `myPhases`, `myStep`, `myLastSwitch` of each program, `shown` the
states of the links. `mySwitchCommand[p]` numbers the `SwitchCommand`s of a program:
the pointer names the last, and a command carries `valid` and `assumed`
(`myAmValid`, `myAssumedNextSwitch`). `waut` and `index` are the WAUT and
`SwitchInitCommand::myIndex`, `switched` is `myCurrentlySwitched`, `at` the iterator of
`check2Switch`. `stage` is the position in `simulationStep`.

| action | code |
|---|---|
| `Init` | `NLJunctionControlBuilder::closeTrafficLightLogic`, the `init` of each kind of program, `addWAUTJunction`, `closeWAUT` |
| `ChangeOffset` | a second definition of a program: only its offset is taken |
| `SetPhaseDuration`, `SetPhaseIndex`, `SetProgram`, `SetState`, `SetCompleteProgram` | `TraCIServerAPI_TLS::processSet` with `changeStepAndDuration`, `switchTo`, `setStateInstantiatingOnline`, `setPhases`, `addLogic` |
| `ExecuteSwitch`, `ExecuteDescheduled` | `MSEventControl::execute` with `SwitchCommand::execute` and the `trySwitch` of a fixed-time, actuated or off program |
| `ExecuteWaut` | `SwitchInitCommand::execute`, `initWautSwitch` |
| `Switch`, `GoOnWaiting` | `check2Switch` with the procedures "" and "GSP", the latter with `switchToPos` or `adaptLogic` |
| `StartSimulation`, `StartEvents`, `EndEvents`, `EndCheck`, `NextSimulationStep` | the order of the stages in `simulationStep` |

Abstraction. Events of one time are executed in any order (a heap of the standard
library leaves theirs open to the eye). What a detector of an actuated light measured is
any of `GapSteps`. A program switched in the middle of its phase keeps `myLastSwitch`
as in the code. Durations are whole numbers; division and remainder are those of the
code on non-negative numbers. `ClientAssumption` restricts `TL_COMPLETE_PROGRAM_RYG` to
what the code takes for granted and does not check: positive durations, no negative index,
no subid "off" or "online". `IndexFromOffset` returns 1 for a position behind the last
phase, where the code asserts; `GSPsWithin` excludes that.

## 3. What the runs check

All runs use exhaustive breadth-first search; `Terminated` keeps the ends of a run
from being deadlocks, so deadlock is checked everywhere.

| run | instance | shows |
|---|---|---|
| `demand` | two file vehicles (a triggered and a parking stop), one triggered departure, one rider, quotas 0 and 1, times 0-2 | waiting lists, insertion queue and counters that decide on the end agree; the run ends neither early nor never |
| `flows` | a flow of two repetitions with quotas 0-2 (up to four vehicles), a triggered departure with a road stop and two riders, `--max-num-vehicles 2`, `--max-depart-delay 1`; times up to 4 | a flow is blocked only by a vehicle that is queued, and not for ever; the limit is kept; overdue vehicles go in time; departures of the flow and the triggered vehicle in order; a queued vehicle that is on the road is left alone |
| `client` | one parking file vehicle, one vehicle of the client, a probabilistic flow whose id the client may take, quota 1; add (with a time or with depart -1), invalid add, remove, move-to, clear pending; pre-check of automatic routing | no sequence of legal commands breaks counters, queues, waiting lists or transfer list |
| `departure_queue` | five vehicles, departures 0, 1, 3, 4, 6 with a step of 2, added in any order at any time; up to five buckets, initial capacity 1 | heap order, room, no vehicle lost or handed over twice; the heap implements the schedule; everyone due is handed over |
| `platoon_drive` | speeds 1, 2; edges with two, three and four lanes, three are usual (`LanesCount`); fixed lanes -1, 0, 2, 3; any verdict; times 1-3 | what is driven, reported and asked fits together |
| `platoon_data` | platoon of up to four, every order of data, positions and sizes | a controller uses data only when they are there |
| `traffic_lights` | two fixed-time programs, one with phases that are no multiples of the step, an actuated one, "off", "online" and a new one; WAUTs with three switches, at once or by GSP with and without synchronisation; two commands of the client; another offset (1) for the program that is active first, for the actuated one or for both; times up to 14 | one valid command per program, signals of the active program, phases as planned, no drift, the WAUT obeyed |
| `cleared_flow`, `second_rider`, `veto_speed`, `phantom_radar`, `early_off` | smallest instances that show it | what a comment or a header promises and the code does not do (section 6) |

Bounds, and why they are enough. `Horizon` cuts the clock: later times are not
told apart (`VehicleLifecycle`), the vehicle has arrived (`PlatoonController`), or
every program has run through its cycle more than once and all switches of the WAUT
are past (`TrafficLights`: cycles of 5 to 8, switches at 3, 6 and 11, times up to 14).
Two steps suffice for every hand-over between the lists, because each list is visited
once per step and a vehicle stays in one for at most one hand-over a step; more
are used where an overdue vehicle must be seen in time, late and gone. Two
vehicles on one edge are enough for an order or a blocked edge, the third is
there for the triggered departure. One flow with a quota up to two has a repetition
with no, one and several vehicles. `FileHorizon` bounds the departures in the route
files (`flows` has no files; its last departure lies two steps before `Horizon`, so that
every vehicle can become overdue before the clock is cut). `FlowVeh` has an id for each
vehicle the flow can build. `MaxLoaded` bounds how often vehicles may be built; 4 lets every id of the client
be used again once. Three usual lanes, edges with one less and one more, and
the fixed lanes -1, 0, 2 and 3 include the least and the greatest usual lane, one that only
the wide edge has and one that is on no edge: the cases in which the assertion of the
lane changer fails are reached - without `UsualLanes` the property `DestinationExists`
is violated - and the property excludes them by name. Two speeds tell a stored speed
from a fresh one.
Four platoon members leave, for some position, three others whose data may come in any
order. Five buckets make a heap of three levels, in which a hole passes two levels,
finds one or two children and the smaller on either side; `InitialCapacity` is 10 in
the code and 1 here, so that the array is doubled three times (the proofs are for any).
Two commands of the client (`MaxCommands`) are a command and one that meets what the
first left behind: two commands of one program queued, a program replaced and then
switched to. The new program and its first phase are any of `NewPrograms` and
`NewIndices`. `Reoffset` holds the program that is active first and the actuated one, which
is not: the exceptions that `SignalsShowActive` and `GreenKept` name
(`OnlyActiveReoffset`, `NotReoffset`) are reached, and without their premises both are
violated. A step of 2 leaves room between the steps: the phases of 3 and the WAUT's
switches at 3 and 11 lie there.

### Properties

`TypeOK` apart, each property relates what several parts of the code keep.

* `RunningIsDeparted`, `LoadedBalance`: the counters against the vehicle objects.
* `WaitsOnce`: a waiting vehicle is in one place, once - heap, pending, refused,
  or waiting for a rider.
* `TransferExact`: the transfer list against where the vehicles are.
* `PersonWaitExact`, `WaitingIsReal`: the waiting lists and their counter against
  the stops.
* `FlowBlockIsReal`, `FlowsUnblock`: a flow waits only for a queued vehicle, and
  not for ever.
* `EndIsComplete`, `RunEnds`: the run ends not too early and not never.
* `MaxNumberKept`, `SkippedInTime`, `PendingResolved`, `DepartInOrder`: the options
  of the insertion, over a whole step.
* `OnlyWaitingDiscarded`: a vehicle on the road is never discarded.
* `InsertionSparesRoad`: a vehicle that is queued although it departed is neither
  deleted nor inserted again. It holds for a stop on the road (`isOnRoad`); at a
  parking stop the second rider of section 6 breaks it, too.
* `TopIsEarliest`, `RoomForTheHole`, `StoredOnce` (none twice; that none is lost is
  `ScheduleKept`), `ScheduleKept`, `EveryoneEmitted`:
  the departure heap, its array, its contents, and what it promises.
* `OnlyApprovedSpeeds`, `SpeedIsFresh`, `VetoKeepsSpeed`: which speed is driven.
  `SpeedIsFresh` excludes two cases: a veto, and a stop or red light on the first lane,
  where `planMove` asks nothing and the code drives the free speed of an older step.
* `RadarHonest`: what the client reads as the vehicle in front.
* `LaneChangerOnlyAsks`: a lane change leaves the radar and the stored speeds alone.
* `DataBeforeUse`: completeness of the data, whatever the order.
* `DestinationExists`: the assertion on the lane in `MSCACCLaneChanger::change`, where
  `UsualLanes` holds.
* `OnePlannedSwitch`, `PhaseHonoured`: of all the commands that lie in the queue for a
  program exactly one counts, and it fires when the program assumes it.
* `SignalsShowActive`: the links against the program that is active, with the two
  exceptions the code makes (`setPhases` does not show the phases it sets, and a new
  offset for a program that is not active shows that one).
* `InPhase`, `GreenKept`: late and early execution adds up to no drift of a fixed-time
  program; a green of an actuated one keeps its limits, unless a file changed its offset.
* `WautOnTime`, `WautObeyed`, `WautWaitsOneCycle`: no switch of a WAUT is lost or early,
  processes end in their order, and a process waits for one cycle at most where the
  steps meet the GSP.

## 4. Fairness

`FairSpec` of `VehicleLifecycle` states what the loop of `MSNet::simulate` guarantees:
a phase that can go on does, so `LoopFairness` is weak fairness of loading, of the loop
over the flows, of parking, of the insertion loop and of the ends of the phases. Nothing
is assumed of the traffic: a vehicle may jam for ever. `PendingResolved` and
`FlowsUnblock` hold with that alone, because `--max-depart-delay` discards what
cannot be inserted. `RunEnds` cannot hold so; it has the premise
`TrafficFairness` (again and again some vehicle finds room, arrives, leaves its stop
or returns from the transfer list), which is a statement about the traffic and
not about the code, and is therefore a premise of the property and no part of the
specification.

`FairSpec` of `DepartureQueue` says that the loops of the heap run to their end and that
the simulation steps go on - one thread executes both. Nobody need add a vehicle.

`TrafficLights` states no fairness: its properties say by when something has happened, and
the clock cannot pass a stage without its actions.

## 5. What is proved

Each theorem is for every value of the constants that the named assumptions
admit. The argument is the same everywhere: an inductive invariant, one lemma for each
action, one theorem that puts them together.

`VehicleLifecycle_proofs` (with `SequenceLemmas`), from `ConstantsAssumption`:

* `TypeCorrect`: `Spec => []TypeOK`.
* `ShapeKept`: the inductive invariant `Shape`, under `PlainMoves` and
  `RidersMeetOnRoad` (below). `TransferExact` and the place of a waiting vehicle are
  not inductive alone. `StopsSound` adds that only a vehicle on a lane or parking is at
  a stop, and that `waiting` names exactly those and the triggered departures.
  `Lined` says who is in the insertion queue: a vehicle that waits, once - or one
  that is on its lane at a triggered stop and that a person took (`Riding`), but only in
  the phases between the persons and the end of `emitVehicles`, and never
  refused. `DueFirst` says that what is pending is due and, while `emitVehicles`
  runs, that what is in the heap is not, so that nobody is left `Riding` in
  the heap.
* From it `TransferCorrect` and, with the counters, `RunningCorrect` and
  `MaxNumberCorrect`; if no triggered vehicle has a stop (`TriggeredWithoutStops`) also
  `WaitsOnceCorrect`, `WaitingCorrect` and `PersonWaitCorrect`. The counting arguments
  use `FS_AddElement` and `FS_RemoveElement`: each step adds or removes one
  vehicle from the set the counter stands for.

`InsertionQueue_proofs` goes on from there:

* `SkippedCorrect`, for `~PreCheck`: `Timely` says of every vehicle that is refused in
  the running `emitVehicles` that it is not overdue, and that nobody is refused in
  other phases; `refused` becomes `pending` at the end. With automatic
  routing (`PreCheck`) vehicles are put back before they are tried.
* `FlowBlockCorrect`, if the client does not clear pending vehicles: `FlowsWait`, the
  vehicle a flow waits for is in the insertion queue and has not departed. Every way
  out of the queue calls `checkFlowWait`; `clearPendingVehicles` does not, see
  `cleared_flow`.
* `DiscardCorrect`, `SparedCorrect`: action properties, from `Shape`. Whoever `tryInsert`
  deletes or moves waits for its departure, although vehicles that are on the road may
  be in the queue.
* `BalanceCorrect`: `loaded - ended` against the number of objects. A repetition of
  a flow creates as many vehicles as it counts because the ids of a flow are distinct
  (`NextIdsCounted`) and, with a quota above 1, used by nobody else (`QuotaAssumption`).
  In the code a copy whose id is taken is counted and lost.
* `EndCorrect`, under `TriggeredWithoutStops`: the end of the run is seen by counters
  (`getActiveVehicleCount`, `getPendingFlowCount`), and the property is about the
  files. `ReadAhead` joins them: the loader stops reading only behind a vehicle that
  departs later than now and that is in the queue, so that an empty queue means that the
  files are read. With `LoadedBalance` and `PersonWaitExact`, `NothingActive` shows that
  a count of 0 leaves nobody but those who wait for a person.

`DepartureOrder_proofs`: `DepartOrderCorrect`, for `CheckEdgesOnce` and `~PreCheck`.
`LineInOrder` says that the refused, the pending and the vehicles in the heap follow each
other in the order of their departure times, but for late ones of another flow. That a
vehicle which comes into the heap may follow those pending needs `DueFirst` (they are
due, it is not), and for flows `FlowDeparts` (the vehicles a flow has created depart
before the one it creates next) and `VolatileOnTime` (a flow that never waits creates
each of its vehicles in the step it is due). `RefusedFailed` closes the argument: once a
vehicle is refused, no other of its edge is tried. Who has the depart -1 may be overtaken: the
client adds it when it likes. The lemmas `LineTried`,
`LineReleased`, `LineCleared`, `LineClosed` and `LineJoined` are about the vectors alone.
`CopiesFree`: a flow with copies never finds an id taken (`FutureIdsFree`); it has the same
argument about who builds a vehicle of a flow (`WhoIsBuilt`).

Hypotheses on the constants, where they occur: `PlainMoves` - the client moves no
vehicle that has not departed (the hazard at `TraCIServerAPI_Vehicle.cpp:1485`);
`RidersMeetOnRoad` - a vehicle with a triggered departure has no stop, or one on the road
and the run is without automatic routing, so that a vehicle a person takes
again is found on its lane by `tryInsert` in the same step; `TriggeredWithoutStops` -
such a vehicle has no stop: else the number of waiting vehicles is wrong, see
`second_rider`; `FlowsApart` - the ids of a flow, `f.0`, `f.1`, ..., name no other
vehicle of the demand. `ConstantsAssumption` says that there are finitely many flows and
that `None` (the null pointer) is neither a vehicle nor a flow.

`DepartureQueue_proofs`, from `QueueAssumption`:

* `TypeCorrect`, `RoomCorrect`: the hole is a slot of the array, and the array has room.
* `HeapKept`: the invariant `HeapOrder`. Between two operations it is the heap order;
  inside a loop the slot of the hole is exempt, but the hole's children are no earlier
  than its parent, and the item is no later than the children (up) or no earlier than the
  parent (down). That is what lets the last assignment, `array[hole] = x`, restore it.
* `TopCorrect`: the top is an earliest bucket. Heap order relates a bucket only to its
  parent, so one more argument is needed, and induction over the levels is not
  available to the provers. `RootIsLeast` uses a least element instead: among the
  slots with a bucket earlier than the first take the least (`LeastNumber`, from the
  well-foundedness of the natural numbers); its parent is one of them, too, and is
  less.
* `ContentKept`: no vehicle is in two buckets nor twice in one, and a bucket holds only
  vehicles that depart at its key or less than a step before it. From it `StoredOnceCorrect`
  (nobody twice).
* `ScheduleCorrect`: `Spec => ScheduleKept`, the refinement. Steps of the loops are
  stutters; `Release` is a batch of the schedule, because the top is earliest and
  buckets are at most a step wide; `EndRelease` leaves nobody behind.

`PlatoonController_proofs`, from `ConstantsAssumption`:

* `TypeCorrect`, with `Shape`, which also says that a lane change under way goes to
  a lane of the edge.
* `ApprovedCorrect`: what `followSpeed` and `freeSpeed` stored was allowed
  (`StoredWasAllowed`), and what is driven was stored.
* `FreshCorrect`: `ignoreModifications` is set exactly while the lane changer asks
  (`IgnoredWhileAsking`), no stamp is ahead of the clock and a step begins with older
  ones (`StampsPast`), hence what `planMove` asked tells what is stored
  (`PlannedNow`). Of a step in which it asked nothing only that an old free speed is driven.
* `RadarCorrect` and `OnlyAsksCorrect`, if nobody asks unguarded (`~Unguarded`).
* `DataCorrect`, if data come only from members (`~LateData`): `nInitialized` is the
  number of distinct others that sent (`Counted`), and a set of `nCars - 1` others has
  no room for a missing one.
* `DestinationCorrect`: the lane that was asked for was one of the edge of that moment
  (`TargetAccepted`); wherever `UsualLanes` holds (the edge is not narrower than
  `lanesCount`, the fixed lane not beyond it) it exists. Elsewhere the assertion can fail;
  this is a hazard.

The assumption `Unguarded = FALSE` is the one the run `phantom_radar` lifts.

`TrafficLights_proofs`, from `LightsAssumption`, `ClientAssumption` and `DeltaTAssumption`:

* `TypeCorrect`, by the invariant `IInv`: the programs and their phases (`Programs`), the
  queue (`Commands`: of each program exactly one command has the number
  `mySwitchCommand`, and the valid ones are those), the command of the WAUT
  (`WautQueue`: at most one, only while a switch is left) and the waiting processes
  (`WautState`: only loaded programs and "off" are switched to).
* `OnePlannedCorrect`, `PhaseHonouredCorrect`: with `InTime`, a valid command lies in the
  queue at the time it assumes.
* `SignalsCorrect`: the links show the phase of the active program. While the files are
  read the first program is active (`Loading`), so a new offset for it is shown rightly.
* `WautOnTimeCorrect`: the invariant `WautTimes` says that the command of the WAUT lies
  less than a step behind the time of the switch it points to.

Their hypotheses, each needed: `MinsPositive` - the phases of actuated programs have a
minimum duration; with 0 `trySwitch` returns 0, the event queue deletes the
command, and the program stands still. `Punctual` - neither a negative duration of the
client nor a procedure "GSP" asks for a time in the past; `addEvent`
replaces it by the present, and the command is executed later than it assumes. With the
procedure "GSP" `Punctual` therefore asks for `GSPsWithin`: the GSPs lie within the
cycles, and the program a client sends is not longer than the old cycle and the GSP
(`myDefaultCycleTime` stays that of the old one). Then the time a procedure computes is in
the future, because the events of the step were all executed before (`NotOverdue`,
`GSPDurations`, `ProcedureSets`). The run `traffic_lights` satisfies it. `SignalsShowActive` has its
exception in the property (`OnlyActiveReoffset`), see section 6.
`SwitchesApart` - switches of a WAUT are a step apart; closer ones may make the command
return 0, and it is deleted with all the switches behind it.
`OffsetFromIndex` adds durations by a recursive function. That the sums exist, are
numbers and grow from phase to phase (`SumsExist`, `SumStep`, `SumType`, `SumsGrow`) is
proved by a least counterexample.

`SignalTiming_proofs`, from the same assumptions, for a run in which the client sent
nothing (`commands = 0`) and with `MinsPositive`:

* `WautObeyedCorrect`: while nobody waits, the light runs the program of the last switch.
  `Obeying` says where the waiting processes will lead: the one that came last to the
  program of the last switch. Processes that wait for the GSP of the active program all
  leave together, in their order, because each of them finds the same program at its GSP
  (`Together`). Hypothesis `NeverOffAtGSP`: a WAUT with the procedure "GSP" does not
  switch to "off"; if it does, the finding `early_off` breaks the property.
* `InPhaseCorrect`: the valid command of a fixed-time program lies at the offset plus
  whole cycles plus the end of the phase (`OnPlan`, `EndsAt`). Events are executed up
  to a step early, but the next one is computed from the assumed time, so nothing adds
  up. `IndexIs` and `AdvanceIs` turn that into the index `getIndexFromOffset` finds.
* `GreenKeptCorrect`: the command of an actuated program lies between the minimum and
  the maximum of a green phase, counted from `myLastSwitch` (`OnGreen`). Hypothesis
  `GreensBounded`: the minimum of a green phase is not above its maximum; otherwise the
  phase lasts its minimum. Programs with a new offset are left out by the property.

* `WautWaitsOneCycleCorrect`: the command of a fixed-time program whose phases and offset
  the step divides lies at the time of a step, and less than a cycle behind its GSP
  (`Regular`, `Steady`), also after a procedure has set or stretched its phase. `Wait` is
  the time left to the GSP; `now + Wait` never grows (`StepWaits`), unless the clock
  passes the GSP, and in the step that stands at the GSP the processes leave. Hence each
  process that waits reaches it within a cycle of the step that initiated the switch
  (`Patient`), and that step is less than `DeltaT` behind the switch (`WautClose`).
  Hypotheses: `NeverOffAtGSP`, and `GSPsMet` - the step divides the start of the
  simulation and the GSPs, and these lie within the cycle; otherwise the steps jump over
  a GSP, and the WAUT waits forever.

Only model-checked: the liveness properties. `PendingResolved`,
`FlowsUnblock`, `RunEnds` and `EveryoneEmitted` are liveness under fairness, which the
provers cannot do (no reasoning about ENABLED), and stay with TLC. `VetoKeepsSpeed` and
`AskedBeforeSwitch` are violated.

## 6. Where the code and its documentation part

| run | what happens |
|---|---|
| `cleared_flow` | `clearPendingVehicles` deletes vehicles without `checkFlowWait`: a flow that waits for one keeps a pointer to a deleted vehicle and emits nothing more |
| `second_rider` | a person who takes a triggered vehicle that already departed unregisters it a second time and queues it for insertion while it is on the road |
| `veto_speed` | after a refused speed the model drives an older stored speed, at first 0, where a comment promises the current one |
| `phantom_radar` | lane changes of the driver and of neighbours ask `followSpeed` without `ignoreModifications`: the radar reports a vehicle of another lane |
| `early_off` | a WAUT that switches to "off" for the first time turns the light off before its procedure was asked; the process stays behind and turns the light off again later |

Seen while modelling, without a run of their own:

* Data of a vehicle outside the platoon count towards its completeness
  (`LateData = TRUE` in `PlatoonController` violates `DataBeforeUse`).
* `MSEventControl::addEvent` takes `NO_CHANGE` events at time 0 during the simulation;
  the first command of a program built then is overdue at once, and repeated from
  time 0 until it has caught up. The model does the same.
* A file that gives a new offset to a program that is not active shows that
  program's signals (`changeStepAndDuration` does not look at the active one) until the
  active program switches. Hence the exception in `SignalsShowActive`.
* The new offset of an actuated program moves its phase but not `myLastSwitch`, so that a
  green may end before its minimum. Hence the exception in `GreenKept`.
* `TL_COMPLETE_PROGRAM_RYG` refuses only an index behind the last phase
  (`TraCIServerAPI_TLS.cpp:379`): a negative one becomes `myStep`. A phase without
  duration makes `trySwitch` return 0, and the event queue deletes the command. Hence
  `ClientAssumption`.
* With a quota above 1 `determineCandidates` ignores that `addVehicle` refuses a copy whose
  id exists: the copy is counted as loaded and lost. Hence `QuotaAssumption`.
* Under `ignoreModifications` the acceleration of the faked CACC, the own entry in
  `vehicles` and the gear of the engine are written all the same.
* A fixed lane that a wide edge accepts may not exist on the next, and on an edge narrower
  than `lanesCount` the destination may be negative: the assertion fails, as the comment
  above it says (`MSCACCLaneChanger.cpp:169`).
* With a stop or a red light on the first lane `moveHelper` drives the free speed of an
  older step, although there was no veto.
* A departure procedure of the client (`depart < 0`) makes no vehicle wait: whatever the
  procedure is, the vehicle is queued with depart -1 and due at once.
* `setPhases` leaves the shown signals, the planned switch and `myDefaultCycleTime` of
  the old phases.
* A GSP that the steps jump over is never met: `WautWaitsOneCycle` is stated for
  phases and offsets that are multiples of the step.

## 7. Not modelled, and why

`PROJECT.json` lists every component with its status. Left out for good: the
control laws, engines, car-following and lane-changing conditions and the
pedestrian models (real arithmetic), routers and network tools (sequential
conversions), outputs and detectors (they read only), GUI, vendored code. Left out
so far: the list of section 8. Of the components that are modelled, statistics,
vehicle types and distributions, subscriptions, the wire format and route validity
are not; of traffic lights the procedure "Stretch", several lights in one WAUT, rail
signals and the self-organising lights.

Coverage. The repository has some 350 000 lines of implementation. 65 000 are foreign
code (fonts, drawing, parsers), `microsim` and `traci-server` together are 82 000; most
of the rest builds, imports and writes networks, routes or draws - conversions that run
once, in order, on data. In the simulation most lines are geometry, arithmetic on speeds
and positions, and XML. What keeps state over steps and can go wrong by an order
of events is a few thousand lines, and those are what the modules are about; the share
of lines that is covered stays small (below a hundredth) for that reason. A share like
a third would need models of code that has no state to go wrong.

## 8. Plan

Done: `VehicleLifecycle`, `DepartureQueue` with its abstract specification,
`PlatoonController`, `EventControl` and `TrafficLights`, and their proofs.

1. `VehicleLife`, an abstract specification of a single vehicle (built, departed,
   ended once) and `VehicleLifecycle` shown to implement it, by TLC and by TLAPS.
2. `RightOfWay`: approach registration of `MSLink`, `opened`, foes. Property: two foes are
   never both let through in overlapping times.
3. `RailSignals`: the occupied blocks of `MSRailSignal`, the phases of `MSRailCrossing`.
4. Persons and containers: plans, waiting at an edge, boarding with capacity, joined to
   the stops of `VehicleLifecycle`.
5. State saving, and the liveness of the fixed-lane change (under the
   premise that gaps open).
6. Proofs: `InPhase` and `GreenKept` also for the programs of a WAUT with the procedure
   "GSP" that it has not switched to yet.
