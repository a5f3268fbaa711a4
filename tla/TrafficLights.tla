---------------------------- MODULE TrafficLights ----------------------------
(***************************************************************************)
(* The programs of one traffic light: fixed-time and actuated ones, which  *)
(* all run behind the active one; the WAUT that switches between them, and *)
(* the TraCI client that changes phases, programs and states.  A program   *)
(* is driven by a SwitchCommand in the event queue of EventControl.  A     *)
(* step of MSNet::simulationStep: the client's commands, the due events,   *)
(* check2Switch, then the vehicles see the signals (stage "move").         *)
(*                                                                         *)
(* Definitions named X_Y are altered forms of X with the mistake Y.        *)
(***************************************************************************)
EXTENDS EventControl, Sequences, FiniteSets, SequencesExt

CONSTANTS
    Second,      \* 1000 ms in the unit of time of the instance
    Begin,       \* time of the first step
    Loaded,      \* the programs of the net and the additional files
    Actuated,    \* those of type "actuated"; the others are "static"
    Plan,        \* Plan[p]: phases [duration, min, max, state]
    Signals,     \* the states a phase may have
    Green,       \* those with a green link
    Offset,      \* Offset[p]: its attribute offset
    NewOffsets,  \* values another file may give
    Reoffset,    \* programs whose offset another file may change
    GSP,         \* GSP[p]: the parameter GSP ("guenstiger Umschaltpunkt")
    GapSteps,    \* values of TIME2STEPS(myDetectorGap - detectionGap)
    OffSteps,    \* the 120 of MSOffTrafficLightLogic
    Wauts,       \* the WAUTs the light may have, with their attributes for it:
                 \* [startProg, switches, procedure, synchron]
    ClientCommands, Durations, States,           \* what the client may send
    NewPlan, NewPrograms, NewIndices, \* ... with TL_COMPLETE_PROGRAM_RYG
    MaxCommands, \* bound: commands of the client
    Horizon      \* bound: the time of the last step

Program == Loaded \cup {"off", "online", "new"}
Phase == [duration : Nat \ {0}, min : Nat, max : Nat, state : Signals]

ASSUME LightsAssumption ==
    /\ Second \in Nat \ {0} /\ OffSteps \in Nat \ {0}
    /\ Begin \in Nat /\ Horizon \in Nat /\ MaxCommands \in Nat
    /\ {"off", "online", "new", "waut"} \cap Loaded = {}
    /\ Actuated \subseteq Loaded /\ Reoffset \subseteq Loaded
    /\ \A p \in Loaded : Plan[p] \in Seq(Phase) \ {<<>>}
    /\ GSP \in [Loaded -> Nat] /\ GapSteps \subseteq Int
    /\ Offset \in [Loaded -> Int] /\ NewOffsets \subseteq Int
    /\ Durations \subseteq Int /\ States \cup {"off"} \subseteq Signals
    /\ \A w \in Wauts :
          /\ w.startProg \in Loaded
          /\ w.switches \in Seq([when : Nat, to : Loaded \cup {"off"}])

(* What the code asks of TL_COMPLETE_PROGRAM_RYG and does not check: positive
   durations, an index that is not negative, no subid "off" or "online". *)
ASSUME ClientAssumption ==
    /\ NewPlan \in Seq(Phase) \ {<<>>}
    /\ NewIndices \subseteq Nat \ {0}
    /\ NewPrograms \subseteq Loaded \cup {"new"}

VARIABLES
    stage,           \* "load", "client", "events", "check", "move"
    offset,          \* the offset a program was built with
    variants,        \* myVariants
    plan, step,      \* myPhases, myStep of each
    mySwitchCommand, \* the number of its current SwitchCommand, counted from 1
    lastSwitch,      \* myLastSwitch of the phases of the actuated programs
    active,          \* myCurrentProgram
    shown,           \* the states of the controlled links
    waut,            \* the WAUT
    index,           \* SwitchInitCommand::myIndex
    switched,        \* myCurrentlySwitched
    at,              \* the iterator of check2Switch
    commands         \* how many commands the client sent

programVars == <<plan, step, mySwitchCommand, lastSwitch>>
wautVars == <<waut, index, switched, at>>
vars == <<now, events, stage, offset, variants, programVars, active, shown,
          wautVars, commands>>
-----------------------------------------------------------------------------
(* Positions in a plan. *)
OffsetFromIndex(phases, i) ==
    LET before[n \in 0..Len(phases)] ==
            IF n = 0 THEN 0 ELSE before[n - 1] + phases[n].duration
    IN before[i - 1]
Cycle(phases) == OffsetFromIndex(phases, Len(phases) + 1)

(* getIndexFromOffset: the first phase that ends behind the position, and the
   first phase for a position behind the last one.  The code has no index for a
   position that is the end of a shorter plan (it asserts): that case of a
   replaced plan is left out. *)
EndsBehind(phases, pos) == {i \in DOMAIN phases : OffsetFromIndex(phases, i + 1) > pos}
IndexFromOffset(phases, cycle, pos) ==
    LET behind == EndsBehind(phases, pos % cycle)
    IN IF behind = {} THEN 1 ELSE Min(behind)

(* closeTrafficLightLogic: how far a program with offset o is in its cycle. *)
Advance(phases, o) ==
    LET cycle == Cycle(phases)
    IN IF o >= 0 THEN (now + cycle - (o % cycle)) % cycle
                 ELSE (now + ((-o) % cycle)) % cycle
FirstStep(phases, o) == Min(EndsBehind(phases, Advance(phases, o)))
LeftDuration(phases, o) ==
    OffsetFromIndex(phases, FirstStep(phases, o) + 1) - Advance(phases, o)

(* myDefaultCycleTime, which setPhases does not touch; for "off" the 120 s. *)
DefaultCycle(p) == CASE p \in Loaded -> Cycle(Plan[p])
                     [] p = "off" -> OffSteps * Second
                     [] p = "online" -> DeltaT
                     [] p = "new" -> Cycle(NewPlan)

State(p) == plan[p][step[p]].state
-----------------------------------------------------------------------------
(* The SwitchCommand of a program, and the time it assumes. *)
Command(p, n, time) == [program |-> p, number |-> n, valid |-> TRUE, assumed |-> time]
IsCurrent(e, p) == e.command.program = p /\ e.command.number = mySwitchCommand[p]
NextSwitchTime(p) == (CHOOSE e \in events : IsCurrent(e, p)).command.assumed

Descheduled_Not(p) == events
Descheduled(p) ==
    {IF IsCurrent(e, p)
     THEN [e EXCEPT !.command.valid = FALSE, !.command.assumed = -1] ELSE e : e \in events}

(* changeStepAndDuration, without the signals it sets if the step changes. *)
ChangeStepAndDuration(p, s, duration) ==
    IF p = "off"
    THEN UNCHANGED <<events, mySwitchCommand, step>>
    ELSE /\ mySwitchCommand' = [mySwitchCommand EXCEPT ![p] = @ + 1]
         /\ events' = AddAdapted(Descheduled(p),
                          Command(p, mySwitchCommand[p] + 1, now + duration), now + duration)
         /\ step' = [step EXCEPT ![p] = s]

(* addLogic of a program built while the simulation runs: it becomes active. *)
Instantiate_NotAdded(queue, p, phases, s, time) ==
    /\ UNCHANGED <<variants, lastSwitch>>
    /\ plan' = [plan EXCEPT ![p] = phases]
    /\ step' = [step EXCEPT ![p] = s]
    /\ mySwitchCommand' = [mySwitchCommand EXCEPT ![p] = 1]
    /\ events' = AddUnchanged(queue, Command(p, 1, time), time)
    /\ active' = p
    /\ shown' = phases[s].state
Instantiate(queue, p, phases, s, time) ==
    /\ variants' = variants \cup {p}
    /\ plan' = [plan EXCEPT ![p] = phases]
    /\ step' = [step EXCEPT ![p] = s]
    /\ mySwitchCommand' = [mySwitchCommand EXCEPT ![p] = 1]
    /\ events' = AddUnchanged(queue, Command(p, 1, time), time)
    /\ active' = p
    /\ shown' = phases[s].state
    /\ UNCHANGED lastSwitch
OffPlan == <<[duration |-> OffSteps * Second, min |-> OffSteps * Second, max |-> OffSteps * Second,
              state |-> "off"]>>

(* switchTo of a program that exists. *)
Activate(p) == active' = p /\ shown' = plan'[p][step'[p]].state
SwitchTo(p) ==
    IF p \in variants
    THEN UNCHANGED <<events, variants, programVars>> /\ Activate(p)
    ELSE p = "off" /\ Instantiate(events, "off", OffPlan, 1, 0)
-----------------------------------------------------------------------------
(* addWAUTJunction and closeWAUT: the first switch in the future, and the
   program before it. *)
Waut == waut.switches
FutureSwitches == {i \in DOMAIN Waut : Waut[i].when > Begin}
FirstSwitch == CHOOSE i \in FutureSwitches : \A j \in FutureSwitches :
                   Waut[i].when < Waut[j].when \/ (Waut[i].when = Waut[j].when /\ i <= j)
InitProg == LET first == IF FutureSwitches = {} THEN Len(Waut) + 1 ELSE FirstSwitch
            IN IF first = 1 THEN waut.startProg ELSE Waut[first - 1].to
WautCommand == [program |-> "waut", number |-> 1, valid |-> TRUE, assumed |-> 0]

Init ==
    /\ now = Begin /\ stage = "load" /\ commands = 0
    /\ offset = Offset
    /\ waut \in Wauts
    /\ active = InitProg
    /\ variants = Loaded \cup {active}
    /\ plan = [p \in Program |-> IF p \in Loaded THEN Plan[p]
                                ELSE IF p = "off" THEN OffPlan ELSE <<>>]
    /\ step = [p \in Program |-> IF p \in Loaded THEN FirstStep(Plan[p], offset[p]) ELSE 1]
    /\ mySwitchCommand = [p \in Program |-> IF p \in variants THEN 1 ELSE 0]
    /\ lastSwitch = [p \in Actuated |-> [i \in DOMAIN Plan[p] |-> Begin]]
    /\ shown = State(active)
    /\ index = IF FutureSwitches = {} THEN Len(Waut) + 1 ELSE FirstSwitch
    /\ switched = <<>> /\ at = 1
    /\ events =
         {LET first == now + IF p \in Actuated THEN Plan[p][step[p]].min
                             ELSE LeftDuration(Plan[p], offset[p])
          IN [command |-> Command(p, 1, first), time |-> first] : p \in Loaded}
         \cup {[command |-> Command(p, 1, 0), time |-> 0] : p \in {active} \ Loaded}
         \cup {[command |-> WautCommand, time |-> Waut[i].when] :
                   i \in {i \in FutureSwitches : i = FirstSwitch}}

(* Another file gives only a new offset for a program, at most once (a bound):
   lastSwitch and what isActive says are not asked. *)
ChangeOffset(p, o) ==
    /\ stage = "load"
    /\ p \in Reoffset
    /\ offset' = [offset EXCEPT ![p] = o]
    /\ mySwitchCommand[p] = 1
    /\ ChangeStepAndDuration(p, FirstStep(plan[p], o), LeftDuration(plan[p], o))
    /\ shown' = IF step' # step THEN plan[p][step'[p]].state ELSE shown
    /\ UNCHANGED <<now, stage, variants, plan, lastSwitch, active, wautVars, commands>>

StartSimulation ==
    /\ stage = "load"
    /\ stage' = "client"
    /\ UNCHANGED <<now, events, offset, variants, programVars, active, shown,
                   wautVars, commands>>
-----------------------------------------------------------------------------
(* TraCIServerAPI_TLS::processSet *)
ClientMay(c) == /\ stage = "client" /\ c \in ClientCommands
                /\ commands < MaxCommands
                /\ commands' = commands + 1
                /\ UNCHANGED <<now, stage, offset, wautVars>>

SetPhaseDuration(d) ==  \* TL_PHASE_DURATION
    /\ ClientMay("duration")
    /\ ChangeStepAndDuration(active, step[active], d)
    /\ UNCHANGED <<variants, plan, lastSwitch, active, shown>>

SetPhaseIndex(i) ==     \* TL_PHASE_INDEX
    /\ ClientMay("index")
    /\ active # "off" /\ i \in DOMAIN plan[active]
    /\ ChangeStepAndDuration(active, i, plan[active][i].duration)
    /\ shown' = IF step' # step THEN plan[active][i].state ELSE shown
    /\ UNCHANGED <<variants, plan, lastSwitch, active>>

SetProgram(p) ==        \* TL_PROGRAM
    /\ ClientMay("program")
    /\ SwitchTo(p)

OnlinePlan(s) == <<[duration |-> DeltaT, min |-> DeltaT, max |-> DeltaT, state |-> s]>>
SetState(s) ==          \* TL_RED_YELLOW_GREEN_STATE, setStateInstantiatingOnline
    /\ ClientMay("state")
    /\ IF "online" \in variants
       THEN /\ plan' = [plan EXCEPT !["online"] = OnlinePlan(s)]
            /\ UNCHANGED <<events, variants, step, mySwitchCommand, lastSwitch>>
            /\ Activate("online")
       ELSE Instantiate(events, "online", OnlinePlan(s), 1, now + DeltaT)

SetCompleteProgram(p, s) ==  \* TL_COMPLETE_PROGRAM_RYG, see ClientAssumption
    /\ ClientMay("complete")
    /\ s <= Len(NewPlan)
    /\ IF p \in variants
       THEN /\ plan' = [plan EXCEPT ![p] = NewPlan]
            /\ step' = [step EXCEPT ![p] = s]
            /\ lastSwitch' = [q \in Actuated |-> IF q = p THEN [i \in DOMAIN NewPlan |-> Begin]
                                                 ELSE lastSwitch[q]]
            /\ UNCHANGED <<events, variants, mySwitchCommand, active, shown>>
       ELSE Instantiate(events, p, NewPlan, s, 0)

Client == \/ \E d \in Durations : SetPhaseDuration(d)
          \/ \E i \in 1..Horizon : SetPhaseIndex(i)
          \/ \E p \in variants \cup {"off"} : SetProgram(p)
          \/ \E s \in States : SetState(s)
          \/ \E p \in NewPrograms, s \in NewIndices : SetCompleteProgram(p, s)

StartEvents ==
    /\ stage = "client"
    /\ stage' = "events"
    /\ UNCHANGED <<now, events, offset, variants, programVars, active, shown,
                   wautVars, commands>>
-----------------------------------------------------------------------------
(* MSSimpleTrafficLightLogic::trySwitch, MSOffTrafficLightLogic::trySwitch *)
NextStep(p) == (step[p] % Len(plan[p])) + 1
Outcome(s, returned, begun) == [step |-> s, returned |-> returned, begun |-> begun]
TrySwitchSimple_OldDuration(p) == {Outcome(NextStep(p), plan[p][step[p]].duration, TRUE)}
TrySwitchSimple(p) == {Outcome(NextStep(p), plan[p][NextStep(p)].duration, TRUE)}
TrySwitchOff(p) == {Outcome(step[p], OffSteps * DeltaT, FALSE)}

(* MSActuatedTrafficLightLogic: gapControl finds a short gap, or none. *)
actDuration(p) == now - lastSwitch[p][step[p]]
MayContinue(p) == /\ plan[p][step[p]].state \in Green
                  /\ actDuration(p) < plan[p][step[p]].max
WholeSeconds(p, gap) ==
    LET act == actDuration(p)
        least == Max({plan[p][step[p]].min - act, gap, 1})
    IN IF least % Second = 0 THEN least ELSE ((least + act) \div Second + 1) * Second - act
duration_Unlimited(p, gap) == WholeSeconds(p, gap)
duration(p, gap) == Min({WholeSeconds(p, gap), plan[p][step[p]].max - actDuration(p)})
TrySwitchActuated(p) ==
    {Outcome(step[p], duration(p, gap), FALSE) : gap \in {g \in GapSteps : MayContinue(p)}}
    \cup {Outcome(NextStep(p), plan[p][NextStep(p)].min, TRUE)}

TrySwitch(p) == IF p = "off" THEN TrySwitchOff(p)
                ELSE IF p \in Actuated THEN TrySwitchActuated(p) ELSE TrySwitchSimple(p)

(* SwitchCommand::execute: only the active program shows its new phase. *)
Shown_Always(p, s) == IF s # step[p] THEN plan[p][s].state ELSE shown
Shown(p, s) == IF s # step[p] /\ active = p THEN plan[p][s].state ELSE shown
ExecuteSwitch(e) ==
    LET p == e.command.program
    IN /\ stage = "events" /\ IsNext(e)
       /\ p \in Program /\ e.command.valid
       /\ \E o \in TrySwitch(p) :
            /\ step' = [step EXCEPT ![p] = o.step]
            /\ lastSwitch' = IF p \in Actuated /\ o.begun
                             THEN [lastSwitch EXCEPT ![p][o.step] = now] ELSE lastSwitch
            /\ events' = (events \ {e}) \cup
                 Requeued(e, [e.command EXCEPT !.assumed = @ + o.returned], o.returned)
            /\ shown' = Shown(p, o.step)
       /\ UNCHANGED <<now, stage, offset, variants, plan, mySwitchCommand, active,
                      wautVars, commands>>

(* ... of a command that was descheduled: it is deleted. *)
ExecuteDescheduled(e) ==
    /\ stage = "events" /\ IsNext(e)
    /\ ~e.command.valid
    /\ events' = events \ {e}
    /\ UNCHANGED <<now, stage, offset, variants, programVars, active, shown,
                   wautVars, commands>>

(* SwitchInitCommand::execute, initWautSwitch *)
NextWautSwitch_SameIndex == IF index = Len(Waut) THEN 0 ELSE Waut[index].when - now
NextWautSwitch == IF index = Len(Waut) THEN 0 ELSE Waut[index + 1].when - now
Pending_Front(proc) == <<proc>> \o switched
Pending(proc) == Append(switched, proc)
ExecuteWaut(e) ==
    LET to == Waut[index].to
        queue == (events \ {e}) \cup Requeued(e, WautCommand, NextWautSwitch)
    IN /\ stage = "events" /\ IsNext(e)
       /\ e.command = WautCommand
       /\ switched' = Pending([from |-> active, to |-> to])
       /\ index' = index + 1
       /\ IF to \in variants
          THEN events' = queue /\ UNCHANGED <<variants, programVars, active, shown>>
          ELSE Instantiate(queue, "off", OffPlan, 1, 0)
       /\ UNCHANGED <<now, stage, offset, waut, at, commands>>

EndEvents ==
    /\ stage = "events"
    /\ ~\E e \in events : IsDue(e)
    /\ stage' = "check" /\ at' = 1
    /\ UNCHANGED <<now, events, offset, variants, programVars, active, shown,
                   waut, index, switched, commands>>
-----------------------------------------------------------------------------
(* WAUTSwitchProcedure *)
GSPValue(p) == IF p \in Loaded THEN GSP[p] ELSE 0
ProgramTime(p) == OffsetFromIndex(plan[p], step[p])
                  + (plan[p][step[p]].duration - (NextSwitchTime(p) - now))
isPosAtGSP_InPhase(p) ==
    GSPValue(p) % DefaultCycle(p) = plan[p][step[p]].duration - (NextSwitchTime(p) - now)
isPosAtGSP(p) == GSPValue(p) % DefaultCycle(p) = ProgramTime(p)
Diff(p, pos) == pos - OffsetFromIndex(plan[p], IndexFromOffset(plan[p], DefaultCycle(p), pos))
switchToPos(p) ==
    LET s == IndexFromOffset(plan[p], DefaultCycle(p), GSPValue(p))
    IN ChangeStepAndDuration(p, s, plan[p][s].duration - Diff(p, GSPValue(p)))
adaptLogic(p) ==
    LET gsp == IF GSPValue(p) = DefaultCycle(p) THEN 0 ELSE GSPValue(p)
        s == IndexFromOffset(plan[p], DefaultCycle(p), GSPValue(p))
        stretch == IF gsp >= ProgramTime(p) THEN gsp - ProgramTime(p)
                   ELSE DefaultCycle(p) - ProgramTime(p) + gsp
    IN ChangeStepAndDuration(p, s, plan[p][s].duration - Diff(p, gsp) + stretch)

(* check2Switch: the process the iterator points to switches ... *)
MaySwitch(proc) == waut.procedure = "GSP" => isPosAtGSP(proc.from)
Switch ==
    LET proc == switched[at]
    IN /\ stage = "check" /\ at <= Len(switched)
       /\ MaySwitch(proc)
       /\ IF waut.procedure = "GSP"
          THEN IF waut.synchron THEN adaptLogic(proc.to) ELSE switchToPos(proc.to)
          ELSE UNCHANGED <<events, mySwitchCommand, step>>
       /\ switched' = RemoveAt(switched, at)
       /\ UNCHANGED <<now, stage, offset, variants, plan, lastSwitch, waut,
                      index, at, commands>>
       /\ Activate(proc.to)

(* ... or goes on waiting. *)
GoOnWaiting ==
    /\ stage = "check" /\ at <= Len(switched)
    /\ ~MaySwitch(switched[at])
    /\ at' = at + 1
    /\ UNCHANGED <<now, events, stage, offset, variants, programVars, active, shown,
                   waut, index, switched, commands>>

EndCheck ==
    /\ stage = "check" /\ at > Len(switched)
    /\ stage' = "move" /\ at' = 1
    /\ UNCHANGED <<now, events, offset, variants, programVars, active, shown,
                   waut, index, switched, commands>>

NextSimulationStep ==
    /\ stage = "move" /\ now < Horizon
    /\ now' = now + DeltaT /\ stage' = "client"
    /\ UNCHANGED <<events, offset, variants, programVars, active, shown,
                   wautVars, commands>>

Terminated == stage = "move" /\ now >= Horizon /\ UNCHANGED vars

Next == \/ \E p \in Loaded, o \in NewOffsets : ChangeOffset(p, o)
        \/ StartSimulation \/ Client \/ StartEvents
        \/ \E e \in events : ExecuteSwitch(e) \/ ExecuteDescheduled(e) \/ ExecuteWaut(e)
        \/ EndEvents \/ Switch \/ GoOnWaiting \/ EndCheck
        \/ NextSimulationStep \/ Terminated

Spec == Init /\ [][Next]_vars
-----------------------------------------------------------------------------
TypeOK ==
    /\ now \in Nat /\ stage \in {"load", "client", "events", "check", "move"}
    /\ Loaded \subseteq variants /\ variants \subseteq Program
    /\ active \in variants
    /\ \A p \in variants : plan[p] \in Seq(Phase) /\ step[p] \in DOMAIN plan[p]
    /\ \A p \in Actuated : DOMAIN lastSwitch[p] = DOMAIN plan[p]
    /\ \A e \in events : e.time \in Int /\ e.command.program \in variants \cup {"waut"}
    /\ index \in 1..(Len(Waut) + 1)
    /\ switched \in Seq([from : variants, to : variants])

(* Whatever the WAUT and the client do to a program, it has exactly one valid
   SwitchCommand in the queue: the one getNextSwitchTime asks, which is executed
   at the time it assumes.  Excluded are durations the code does not refuse: a
   negative one with TL_PHASE_DURATION, a phase of no duration in a plan. *)
OnePlannedSwitch ==
    \A p \in variants :
        \E e \in events :
            /\ IsCurrent(e, p) /\ e.command.assumed = e.time
            /\ {e} = {f \in events : f.command.program = p /\ f.command.valid}

(* The links show the current phase of the active program, although all the
   programs switch behind it.  The exceptions are phases the client replaced,
   which setPhases does not show, and a new offset for a program that is not
   active, whose changeStepAndDuration sets the signals without asking. *)
OnlyActiveReoffset == \A p \in Loaded : offset[p] # Offset[p] => p = InitProg
SignalsShowActive ==
    OnlyActiveReoffset /\ plan[active] # NewPlan => shown = State(active)

(* A program changes its phase by itself only when the time has come that it
   planned last; a descheduled command has no effect. *)
PhaseHonoured ==
    [][stage = "events" =>
         \A p \in variants : step'[p] # step[p] => NextSwitchTime(p) < now + DeltaT]_vars

(* Without a client, a fixed-time program is always in the phase its offset says
   for the step's last moment: late or early execution of events adds up to no
   drift, also if phases are no multiples of the step. *)
InPhase ==
    stage = "move" /\ commands = 0 /\ waut.procedure # "GSP" =>
        \A p \in Loaded \ Actuated :
            step[p] = IndexFromOffset(plan[p], Cycle(plan[p]),
                                      Advance(plan[p], offset[p]) + DeltaT - 1)

(* Without a client, a green phase of an actuated program lasts for its minimum
   and not for more than its maximum duration, up to less than a step.  The
   exception are programs given a new offset while loading, which leaves the
   begin of their phases (myLastSwitch) as it was: their green may end early. *)
NotReoffset(p) == mySwitchCommand[p] = 1
GreenKept ==
    /\ [](stage = "move" /\ commands = 0 /\ waut.procedure # "GSP" =>
            \A p \in Actuated : NotReoffset(p) /\ plan[p][step[p]].state \in Green =>
                actDuration(p) < plan[p][step[p]].max + DeltaT)
    /\ [][stage = "events" /\ commands = 0 /\ waut.procedure # "GSP" =>
            \A p \in Actuated : NotReoffset(p) /\ step'[p] # step[p] =>
                actDuration(p) > plan[p][step[p]].min - DeltaT]_vars

(* Every switch of the WAUT whose time has come was initiated, and none too early,
   although the command works with the difference of a time and a step. *)
WautOnTime ==
    stage \in {"check", "move"} =>
        \A i \in FutureSwitches :
            /\ Waut[i].when <= now => i < index
            /\ i < index => Waut[i].when < now + DeltaT

(* Without a client, the light runs the program of the last switch once no
   process is waiting: processes that waited together end in their order. *)
WautObeyed ==
    stage = "move" /\ commands = 0 /\ switched = <<>> /\ FutureSwitches # {} =>
        active = IF index = FirstSwitch THEN InitProg ELSE Waut[index - 1].to

(* Without a client, a process waits for the GSP of a fixed-time program for at
   most a cycle, if the steps divide the phases and the offset. *)
WautWaitsOneCycle ==
    stage = "move" /\ commands = 0 =>
        \A k \in DOMAIN switched :
            LET from == switched[k].from
            IN /\ from \in Loaded \ Actuated /\ offset[from] % DeltaT = 0
               /\ \A i \in DOMAIN plan[from] : plan[from][i].duration % DeltaT = 0
               => now - Waut[index - 1 - Len(switched) + k].when < DefaultCycle(from) + DeltaT

(* "a switching procedure ... is asked repeatedly whether a switch could be done
   until it returns true." (MSTLLogicControl.h): only such a procedure switches. *)
AskedBeforeSwitch == [][stage = "events" => active' = active]_vars
=============================================================================
