-------------------------- MODULE SignalTiming_proofs --------------------------
(***************************************************************************)
(* Theorems about TrafficLights when no client interferes: which program   *)
(* the WAUT has made active, in which phase a fixed-time program is at     *)
(* which time, and how long a green phase of an actuated program lasts.    *)
(***************************************************************************)
EXTENDS TrafficLights_proofs

-----------------------------------------------------------------------------
(* What a step may be. *)

(* Without a client the active program and the waiting processes change only when
   the WAUT initiates a switch and when a process ends. *)
LEMMA WautSteps ==
    ASSUME IInv, commands \in Nat, [Next]_vars, commands' = 0,
           ~Switch, ~\E e \in events : ExecuteWaut(e)
    PROVE  /\ commands = 0
           /\ UNCHANGED <<active, switched, index, waut>>
           /\ \/ stage # "check" /\ stage' # "check"
              \/ stage = "events" /\ stage' = "check" /\ at' = 1
              \/ GoOnWaiting
              \/ stage = "check" /\ stage' = "move" /\ at > Len(switched)
              \/ UNCHANGED vars
<1>1. CASE Client
  <2>1. commands' = commands + 1
    BY <1>1 DEF Client, ClientMay, SetPhaseDuration, SetPhaseIndex, SetProgram, SetState,
                SetCompleteProgram
  <2>2. FALSE
    BY <2>1
  <2>3. QED  BY <2>2
<1>2. CASE \E p \in Loaded, o \in NewOffsets : ChangeOffset(p, o)
  BY <1>2 DEF ChangeOffset, wautVars
<1>3. CASE \E e \in events : ExecuteSwitch(e) \/ ExecuteDescheduled(e)
  BY <1>3 DEF ExecuteSwitch, ExecuteDescheduled, wautVars
<1>4. CASE \/ StartSimulation \/ StartEvents \/ EndEvents \/ GoOnWaiting \/ EndCheck
           \/ NextSimulationStep \/ UNCHANGED vars
  BY <1>4 DEF StartSimulation, StartEvents, EndEvents, GoOnWaiting, EndCheck,
              NextSimulationStep, wautVars, vars
<1>5. QED  BY <1>1, <1>2, <1>3, <1>4 DEF Next, Terminated
(* changeStepAndDuration of one program leaves the command of another one. *)
LEMMA OthersKeepCommand ==
    ASSUME IInv, NEW p \in variants, NEW s, NEW d \in Int, ChangeStepAndDuration(p, s, d),
           NEW q \in variants, q # p
    PROVE  /\ \A f : f \in events' /\ IsCurrent(f, q)' <=> f \in events /\ IsCurrent(f, q)
           /\ NextSwitchTime(q)' = NextSwitchTime(q)
           /\ step'[q] = step[q]
<1>1. CASE p = "off"
  BY <1>1 DEF ChangeStepAndDuration, IsCurrent, NextSwitchTime
<1>2. CASE p # "off"
  <2> DEFINE D(e) == IF IsCurrent(e, p)
                     THEN [e EXCEPT !.command.valid = FALSE, !.command.assumed = -1] ELSE e
  <2>1. /\ \E n, time, t : events' = {D(e) : e \in events}
                              \cup {[command |-> Command(p, n, time), time |-> t]}
        /\ mySwitchCommand' = [mySwitchCommand EXCEPT ![p] = @ + 1]
        /\ step' = [step EXCEPT ![p] = s]
    BY <1>2 DEF ChangeStepAndDuration, AddAdapted, Descheduled
  <2>2. \A n, time, t : [command |-> Command(p, n, time), time |-> t].command.program = p
    BY DEF Command
  <2>3. \A e \in events : /\ D(e).command.program = e.command.program
                          /\ ~IsCurrent(e, p) => D(e) = e
    BY Descheduling DEF IInv, Commands, CommandsOf
  <2>4. mySwitchCommand'[q] = mySwitchCommand[q] /\ step'[q] = step[q]
    BY <2>1 DEF IInv, Programs
  <2>5. \A f : IsCurrent(f, q)' <=> IsCurrent(f, q)
    BY <2>4 DEF IsCurrent
  <2>6. \A f : IsCurrent(f, q) => f.command.program = q
    BY DEF IsCurrent
  <2>7. \A f : IsCurrent(f, p) => f.command.program = p
    BY DEF IsCurrent
  <2> HIDE DEF D
  <2>8. \A f : f \in events' /\ IsCurrent(f, q) <=> f \in events /\ IsCurrent(f, q)
    BY <2>1, <2>2, <2>3, <2>6, <2>7
  <2>9. PICK e \in events : /\ IsCurrent(e, q) /\ {f \in events : IsCurrent(f, q)} = {e}
                            /\ NextSwitchTime(q) = e.command.assumed
    BY NextSwitchType DEF IInv
  <2>10. (CHOOSE f \in events' : IsCurrent(f, q)') = e
    BY <2>5, <2>8, <2>9
  <2>11. NextSwitchTime(q)' = e.command.assumed
    BY <2>10 DEF NextSwitchTime
  <2>12. QED  BY <2>4, <2>5, <2>8, <2>9, <2>11
<1>3. QED  BY <1>1, <1>2
-----------------------------------------------------------------------------
(* The WAUT is obeyed. *)

(* No WAUT waits for the GSP to switch to "off": such a switch does not wait, and the
   process it leaves behind may end after those of later switches. *)
NeverOffAtGSP ==
    \A w \in Wauts : w.procedure = "GSP" =>
        \A i \in 1..Len(w.switches) : w.switches[i].to # "off"

(* The program the WAUT wants. *)
LastTarget == IF index = FirstSwitch THEN InitProg ELSE Waut[index - 1].to

(* It is active, or the process that waits last leads to it. *)
Obeying ==
    commands = 0 /\ FutureSwitches # {} =>
        /\ index >= FirstSwitch
        /\ switched = <<>> => active = LastTarget
        /\ switched # <<>> => switched[Len(switched)].to = LastTarget

(* Who waits for the GSP waits for that of the same program, the active one, unless
   the first of them has just ended and the others are about to: check2Switch passes
   none that goes on waiting to end a later one. *)
Together ==
    /\ waut.procedure # "GSP" /\ stage = "check" => at = 1
    /\ waut.procedure = "GSP" /\ commands = 0 =>
        /\ \A j, k \in 1..Len(switched) : switched[j].from = switched[k].from
        /\ \A k \in 1..Len(switched) :
              \/ switched[k].from = active
              \/ stage = "check" /\ at = 1 /\ isPosAtGSP(switched[k].from)
        /\ stage = "check" /\ at > 1 =>
              \A k \in 1..Len(switched) : ~isPosAtGSP(switched[k].from)

(* The vector of the processes. *)
LEMMA Processes ==
    ASSUME IInv
    PROVE  /\ switched \in Seq([from : variants, to : Targets])
           /\ Len(switched) \in Nat /\ DOMAIN switched = 1..Len(switched)
           /\ switched = <<>> <=> Len(switched) = 0
           /\ \A k \in 1..Len(switched) : /\ switched[k].from \in variants
                                          /\ switched[k].to \in variants
                                          /\ switched[k].to \in Loaded \cup {"off"}
           /\ at \in Nat \ {0}
<1>1. switched \in Seq([from : variants, to : Targets]) /\ at \in Nat \ {0}
  BY DEF IInv, WautState
<1>2. \A k \in 1..Len(switched) : switched[k] \in [from : variants, to : Targets]
  BY <1>1, ElementOfSeq
<1>3. Len(switched) \in Nat /\ DOMAIN switched = 1..Len(switched)
      /\ (switched = <<>> <=> Len(switched) = 0)
  BY <1>1, LenProperties, EmptySeq
<1>4. QED  BY <1>1, <1>2, <1>3 DEF Targets

(* A switch is initiated. *)
LEMMA InitiationObeys ==
    ASSUME IInv, NeverOffAtGSP, Obeying, Together, NEW e \in events, ExecuteWaut(e)
    PROVE  Obeying' /\ Together'
<1> DEFINE to == Waut[index].to
           proc == [from |-> active, to |-> to]
<1>1. /\ stage = "events" /\ stage' = "events" /\ waut' = waut /\ commands' = commands
      /\ index' = index + 1 /\ switched' = Append(switched, proc)
      /\ index \in 1..Len(Waut) /\ Len(Waut) \in Nat
      /\ to \in variants => active' = active
  <2>1. index <= Len(Waut)
    BY DEF ExecuteWaut, IInv, WautQueue, IsWaut, WautCommand
  <2>2. index \in 1..(Len(Waut) + 1) /\ Len(Waut) \in Nat
    BY FirstSwitchIn DEF IInv, WautState
  <2>3. QED  BY <2>1, <2>2 DEF ExecuteWaut, Pending
<1>2. /\ Waut' = Waut /\ FutureSwitches' = FutureSwitches
  BY <1>1 DEF Waut, FutureSwitches
<1>3. FirstSwitch' = FirstSwitch
  BY <1>1 DEF Waut, FirstSwitch, FutureSwitches
<1>4. /\ Len(switched') = Len(switched) + 1 /\ Len(switched) \in Nat
      /\ switched'[Len(switched) + 1] = proc
      /\ \A k \in 1..Len(switched) : switched'[k] = switched[k]
  BY <1>1, Processes, AppendProperties
<1>5. Obeying'
  <2> SUFFICES ASSUME commands = 0, FutureSwitches # {}
               PROVE  /\ index' >= FirstSwitch'
                      /\ switched' # <<>> /\ switched'[Len(switched')].to = LastTarget'
    BY <1>1, <1>2 DEF Obeying
  <2>1. index >= FirstSwitch /\ FirstSwitch \in Int
    BY FirstSwitchIn DEF Obeying, IInv, WautState
  <2>2. index' >= FirstSwitch' /\ index' # FirstSwitch' /\ index' - 1 = index
    BY <1>1, <1>3, <2>1
  <2>3. LastTarget' = to
    BY <1>2, <2>2 DEF LastTarget
  <2>4. switched' # <<>>
    BY <1>4, EmptySeq
  <2>5. QED  BY <1>4, <2>2, <2>3, <2>4
<1>6. Together'
  <2> SUFFICES ASSUME waut.procedure = "GSP", commands = 0
               PROVE  \A k \in 1..Len(switched') : switched'[k].from = active'
    BY <1>1 DEF Together
  <2>1. to \in Loaded
    <3>1. to # "off"
      BY <1>1 DEF NeverOffAtGSP, Waut, IInv, WautState
    <3>2. to \in Loaded \cup {"off"}
      BY <1>1, FirstSwitchIn DEF IInv, WautState
    <3>3. QED  BY <3>1, <3>2
  <2>2. active' = active
    BY <1>1, <2>1 DEF IInv, Programs
  <2>3. \A k \in 1..Len(switched) : switched[k].from = active
    BY <1>1 DEF Together
  <2>4. proc.from = active
    OBVIOUS
  <2> HIDE DEF proc
  <2>5. QED  BY <1>4, <2>2, <2>3, <2>4
<1>7. QED  BY <1>5, <1>6

(* Whether a program is at its GSP is a matter of its own command. *)
LEMMA GSPKept ==
    ASSUME NEW p, NextSwitchTime(p)' = NextSwitchTime(p), step'[p] = step[p],
           now' = now, plan' = plan
    PROVE  isPosAtGSP(p)' <=> isPosAtGSP(p)
<1>1. ProgramTime(p)' = ProgramTime(p)
  BY DEF ProgramTime
<1>2. QED  BY <1>1 DEF isPosAtGSP

(* A process ends. *)
LEMMA EndingObeys ==
    ASSUME IInv, Obeying, Together, Switch
    PROVE  Obeying' /\ Together'
<1> DEFINE n == Len(switched)
<1>0. PICK from, to : from = switched[at].from /\ to = switched[at].to
  OBVIOUS
<1>1. /\ stage = "check" /\ stage' = "check" /\ at' = at /\ at \in 1..n /\ n \in Nat
      /\ UNCHANGED <<now, commands, waut, index, plan, variants>>
      /\ MaySwitch(switched[at]) /\ switched' = RemoveAt(switched, at) /\ active' = to
  BY <1>0, Processes DEF Switch, Activate
<1>2. /\ Len(switched') = n - 1
      /\ \A k \in 1..(n - 1) : switched'[k] = IF k < at THEN switched[k] ELSE switched[k + 1]
      /\ switched' = <<>> <=> n = 1
  <2>1. /\ RemoveAt(switched, at) \in Seq([from : variants, to : Targets])
        /\ Len(RemoveAt(switched, at)) = n - 1
        /\ \A k \in 1..(n - 1) :
              RemoveAt(switched, at)[k] = IF k < at THEN switched[k] ELSE switched[k + 1]
    BY <1>1, Processes, RemoveAtIndex
  <2> HIDE DEF n
  <2>2. QED  BY <1>1, <2>1, EmptySeq
<1>3. ASSUME commands = 0  PROVE at = 1
  <2>1. CASE waut.procedure # "GSP"
    BY <1>1, <2>1 DEF Together
  <2>2. CASE waut.procedure = "GSP"
    <3>1. isPosAtGSP(switched[at].from)
      BY <1>1, <2>2 DEF MaySwitch
    <3>2. ~(at > 1)
      BY <1>1, <1>3, <2>2, <3>1 DEF Together
    <3>3. QED  BY <1>1, <3>2
  <2>3. QED  BY <2>1, <2>2
<1>4. ASSUME commands = 0  PROVE \A k \in 1..(n - 1) : switched'[k] = switched[k + 1]
  BY <1>1, <1>2, <1>3, <1>4
<1>5. Obeying'
  <2>1. /\ Waut' = Waut /\ FutureSwitches' = FutureSwitches /\ FirstSwitch' = FirstSwitch
        /\ LastTarget' = LastTarget
    BY <1>1 DEF Waut, FutureSwitches, FirstSwitch, LastTarget, InitProg
  <2> SUFFICES ASSUME commands = 0, FutureSwitches # {}
               PROVE  /\ switched' = <<>> => to = LastTarget
                      /\ switched' # <<>> => switched'[Len(switched')].to = LastTarget
    BY <1>1, <2>1 DEF Obeying
  <2>2. switched[n].to = LastTarget
    BY <1>1, Processes DEF Obeying
  <2>3. CASE n = 1
    <3>1. switched' = <<>>
      BY <1>2, <2>3
    <3>2. at = n
      BY <1>3, <2>3
    <3>3. QED  BY <1>0, <2>2, <3>1, <3>2
  <2>4. CASE n # 1
    <3>1. switched' # <<>>
      BY <1>2, <2>4
    <3>2. n - 1 \in 1..(n - 1) /\ n - 1 + 1 = n
      <4>1. n \in Nat \ {0}
        BY <1>1
      <4> HIDE DEF n
      <4>2. QED  BY <2>4, <4>1
    <3>3. switched'[n - 1] = switched[n]
      BY <1>4, <3>2
    <3>4. QED  BY <1>2, <2>2, <3>1, <3>3
  <2>5. QED  BY <2>3, <2>4
<1>6. Together'
  <2>1. CASE waut.procedure # "GSP"
    BY <1>1, <2>1 DEF Together
  <2>2. CASE waut.procedure = "GSP" /\ commands = 0
    <3>1. at = 1 /\ isPosAtGSP(from) /\ \A k \in 1..n : switched[k].from = from
      BY <1>0, <1>1, <1>3, <2>2 DEF MaySwitch, Together
    <3>2. \A k \in 1..(n - 1) : switched'[k].from = from
      <4>1. \A k \in 1..(n - 1) : k + 1 \in 1..n
        BY <1>1
      <4>2. QED  BY <1>4, <2>2, <3>1, <4>1
    <3>3. CASE from = to
      BY <1>1, <1>2, <3>1, <3>2, <3>3 DEF Together
    <3>4. CASE from # to
      <4>1. to \in variants /\ from \in variants /\ to \in Loaded \cup {"off"}
        BY <1>0, <1>1, Processes
      <4>2. NextSwitchTime(from)' = NextSwitchTime(from) /\ step'[from] = step[from]
        <5>1. switchToPos(to) \/ adaptLogic(to)
          BY <1>0, <2>2 DEF Switch
        <5>2. CASE to \in Loaded
          <6>1. \E s \in 1..Len(plan[to]), d \in Int : ChangeStepAndDuration(to, s, d)
            BY <5>1, <5>2, ProcedureDurations
          <6>2. PICK s \in 1..Len(plan[to]), d \in Int : ChangeStepAndDuration(to, s, d)
            BY <6>1
          <6>3. from # to
            BY <3>4
          <6>4. QED  BY <4>1, <6>2, <6>3, OthersKeepCommand
        <5>3. CASE to = "off"
          <6>1. UNCHANGED <<events, mySwitchCommand, step>>
            BY <5>1, <5>3 DEF switchToPos, adaptLogic, ChangeStepAndDuration
          <6>2. \A e : IsCurrent(e, from)' <=> IsCurrent(e, from)
            BY <6>1 DEF IsCurrent
          <6>3. QED  BY <6>1, <6>2 DEF NextSwitchTime
        <5>4. QED  BY <4>1, <5>2, <5>3
      <4>3. isPosAtGSP(from)' <=> isPosAtGSP(from)
        BY <1>1, <4>2, GSPKept
      <4>4. at = 1 /\ isPosAtGSP(from)'
        BY <3>1, <4>3
      <4>5. (\A k \in 1..Len(switched) : switched[k].from = from /\ isPosAtGSP(switched[k].from))'
        BY <1>2, <3>2, <4>4
      <4>6. QED  BY <1>1, <2>2, <4>4, <4>5 DEF Together
    <3>5. QED  BY <3>3, <3>4
  <2>3. CASE waut.procedure = "GSP" /\ commands # 0
    BY <1>1, <2>3 DEF Together
  <2>4. QED  BY <2>1, <2>2, <2>3
<1>7. QED  BY <1>5, <1>6

(* Every other step. *)
LEMMA RestObeys ==
    ASSUME IInv, commands \in Nat, Obeying, Together, [Next]_vars,
           ~Switch, ~\E e \in events : ExecuteWaut(e)
    PROVE  Obeying' /\ Together'
<1>1. CASE commands' = 0
  <2>1. /\ commands = 0 /\ UNCHANGED <<active, switched, index, waut>>
        /\ \/ stage # "check" /\ stage' # "check"
           \/ stage = "events" /\ stage' = "check" /\ at' = 1
           \/ GoOnWaiting
           \/ stage = "check" /\ stage' = "move" /\ at > Len(switched)
           \/ UNCHANGED vars
    BY <1>1, WautSteps
  <2>2. Obeying'
    <3>1. /\ Waut' = Waut /\ FutureSwitches' = FutureSwitches /\ FirstSwitch' = FirstSwitch
          /\ LastTarget' = LastTarget
      BY <2>1 DEF Waut, FutureSwitches, FirstSwitch, LastTarget, InitProg
    <3>2. QED  BY <1>1, <2>1, <3>1 DEF Obeying
  <2>3. Together'
    <3>1. CASE stage # "check" /\ stage' # "check"
      BY <2>1, <3>1 DEF Together
    <3>2. CASE stage = "events" /\ stage' = "check" /\ at' = 1
      BY <2>1, <3>2 DEF Together
    <3>3. CASE GoOnWaiting
      <4>1. /\ at \in 1..Len(switched) /\ waut.procedure = "GSP" /\ stage = "check"
            /\ ~isPosAtGSP(switched[at].from) /\ at' = at + 1 /\ at' # 1
        BY <3>3, Processes DEF GoOnWaiting, MaySwitch
      <4>2. \A k \in 1..Len(switched) : switched[k].from = switched[at].from
        BY <2>1, <4>1 DEF Together
      <4>3. \A p : isPosAtGSP(p)' <=> isPosAtGSP(p)
        BY <3>3 DEF GoOnWaiting, isPosAtGSP, ProgramTime, NextSwitchTime, IsCurrent,
                    programVars
      <4>4. \A k \in 1..Len(switched) : /\ switched[k].from = active
                                        /\ ~isPosAtGSP(switched[k].from)'
        BY <2>1, <4>1, <4>2, <4>3 DEF Together
      <4>5. QED  BY <2>1, <4>1, <4>2, <4>4 DEF Together
    <3>4. CASE stage = "check" /\ stage' = "move" /\ at > Len(switched)
      <4>1. at = 1 => \A k : k \notin 1..Len(switched)
        BY <3>4, Processes
      <4>2. at # 1 => at > 1
        BY Processes
      <4>3. QED  BY <2>1, <3>4, <4>1, <4>2 DEF Together
    <3>5. CASE UNCHANGED vars
      <4>1. \A p : isPosAtGSP(p)' <=> isPosAtGSP(p)
        BY <3>5 DEF vars, isPosAtGSP, ProgramTime, NextSwitchTime, IsCurrent, programVars
      <4>2. at' = at /\ stage' = stage
        BY <3>5 DEF vars, wautVars
      <4>3. QED  BY <1>1, <2>1, <4>1, <4>2 DEF Together
    <3>6. QED  BY <2>1, <3>1, <3>2, <3>3, <3>4, <3>5
  <2>4. QED  BY <2>2, <2>3
<1>2. CASE commands' # 0
  <2>1. Obeying'
    BY <1>2 DEF Obeying
  <2>2. waut' = waut /\ (stage' = "check" => at' = 1 \/ waut.procedure = "GSP" \/ at' = at)
        /\ (stage' = "check" => stage = "check" \/ at' = 1)
    BY DEF Next, vars, Terminated, Client, ClientMay, ChangeOffset, StartSimulation,
           SetPhaseDuration, SetPhaseIndex, SetProgram, SetState, SetCompleteProgram,
           StartEvents, ExecuteSwitch, ExecuteDescheduled, EndEvents, GoOnWaiting,
           EndCheck, NextSimulationStep, wautVars, MaySwitch
  <2>3. QED  BY <1>2, <2>1, <2>2 DEF Together
<1>3. QED  BY <1>1, <1>2

(* At the start nobody waits. *)
LEMMA InitObeys ==
    ASSUME Init
    PROVE  Obeying /\ Together
<1>1. switched = <<>> /\ stage = "load" /\ waut \in Wauts /\ Len(switched) = 0
  BY EmptySeq DEF Init
<1>2. FutureSwitches # {} => index = FirstSwitch /\ FirstSwitch \in 1..Len(Waut)
  BY <1>1, FirstSwitchIn DEF Init
<1>3. Obeying
  BY <1>1, <1>2 DEF Init, Obeying, LastTarget
<1>4. Together
  BY <1>1 DEF Together
<1>5. QED  BY <1>3, <1>4

(* The commands of the client are counted. *)
LEMMA CommandsCounted ==
    ASSUME commands \in Nat, [Next]_vars
    PROVE  commands' \in Nat
<1>1. commands' = commands \/ commands' = commands + 1
  BY DEF Next, vars, Terminated, Client, ClientMay, ChangeOffset, StartSimulation,
         SetPhaseDuration, SetPhaseIndex, SetProgram, SetState, SetCompleteProgram,
         StartEvents, ExecuteSwitch, ExecuteDescheduled, ExecuteWaut, EndEvents, Switch,
         GoOnWaiting, EndCheck, NextSimulationStep, wautVars
<1>2. QED  BY <1>1

(* Once no process is waiting, the light runs the program of the last switch of the
   WAUT, however many processes waited together and for how long. *)
THEOREM WautObeyedCorrect ==
    ASSUME MinsPositive, NeverOffAtGSP
    PROVE  Spec => []WautObeyed
<1> DEFINE Sound == commands \in Nat /\ Obeying /\ Together
<1>1. Init => IInv /\ Sound
  BY InitHolds, InitObeys DEF Init
<1>2. IInv /\ Sound /\ [Next]_vars => (IInv /\ Sound)'
  <2> SUFFICES ASSUME IInv, Sound, [Next]_vars  PROVE (IInv /\ Sound)'
    OBVIOUS
  <2>1. IInv' /\ commands' \in Nat
    BY NextKeeps, CommandsCounted
  <2>2. Obeying' /\ Together'
    BY InitiationObeys, EndingObeys, RestObeys
  <2>3. QED  BY <2>1, <2>2
<1>3. IInv /\ Sound => WautObeyed
  BY DEF Obeying, WautObeyed, LastTarget
<1>4. QED  BY <1>1, <1>2, <1>3, PTL DEF Spec
-----------------------------------------------------------------------------
(* Positions in a cycle. *)

(* Within the cycle the phase that ends behind a position and begins not behind it is
   the first that ends behind it. *)
LEMMA FirstBehind ==
    ASSUME NEW phases \in Seq(Phase), NEW s \in 1..Len(phases), NEW pos \in Int,
           OffsetFromIndex(phases, s) <= pos, pos < OffsetFromIndex(phases, s + 1)
    PROVE  EndsBehind(phases, pos) # {} /\ Min(EndsBehind(phases, pos)) = s
<1> DEFINE B == EndsBehind(phases, pos)
           Off(n) == OffsetFromIndex(phases, n)
<1>1. /\ Len(phases) \in Nat /\ DOMAIN phases = 1..Len(phases)
      /\ \A n \in 1..(Len(phases) + 1) : Off(n) \in Nat
  BY LenProperties, SumType
<1>2. B \in SUBSET Nat /\ s \in B
  BY <1>1 DEF EndsBehind
<1>3. \A i \in B : s <= i
  <2> SUFFICES ASSUME NEW i \in B, i < s  PROVE FALSE
    BY <1>1 DEF EndsBehind
  <2>1. i \in 1..Len(phases) /\ Off(i + 1) > pos
    BY <1>1 DEF EndsBehind
  <2>2. i + 1 \in 1..(Len(phases) + 1) /\ s \in (i + 1)..(Len(phases) + 1)
    BY <1>1, <2>1
  <2>3. Off(i + 1) <= Off(s)
    BY <2>2, SumsOrdered
  <2> HIDE DEF Off
  <2>4. Off(i + 1) \in Nat /\ Off(s) \in Nat /\ Off(s) <= pos
    BY <1>1, <2>2 DEF Off
  <2>5. QED  BY <2>1, <2>3, <2>4
<1> HIDE DEF B
<1>4. Min(B) \in B /\ Min(B) <= s
  BY <1>2, LeastIn
<1>5. s <= Min(B) /\ Min(B) \in Nat
  BY <1>2, <1>3, <1>4
<1>6. QED  BY <1>2, <1>4, <1>5 DEF B

(* The phase of a position, cycles later. *)
LEMMA IndexIs ==
    ASSUME NEW phases \in Seq(Phase), NEW s \in 1..Len(phases), NEW pos \in Int, NEW k \in Int,
           OffsetFromIndex(phases, s) <= pos - k * Cycle(phases),
           pos - k * Cycle(phases) < OffsetFromIndex(phases, s + 1)
    PROVE  IndexFromOffset(phases, Cycle(phases), pos) = s
<1> DEFINE c == Cycle(phases)
           x == pos - k * c
<1>1. /\ c \in Nat \ {0} /\ OffsetFromIndex(phases, s) \in Nat
      /\ OffsetFromIndex(phases, s + 1) \in Nat
      /\ OffsetFromIndex(phases, s + 1) <= c
  BY PhasesFill
<1>2. OffsetFromIndex(phases, s) <= x /\ x < OffsetFromIndex(phases, s + 1)
  OBVIOUS
<1> HIDE DEF c
<1>3. x \in Int
  BY <1>1
<1>4. x \in 0..(c - 1)
  <2> HIDE DEF x
  <2>1. QED  BY <1>1, <1>2, <1>3
<1>5. pos % c = x
  BY <1>1, <1>4, OneRemainder
<1> HIDE DEF x
<1>6. EndsBehind(phases, x) # {} /\ Min(EndsBehind(phases, x)) = s
  BY <1>2, <1>3, FirstBehind
<1>7. QED  BY <1>5, <1>6 DEF IndexFromOffset, c

(* How far a program is in its cycle: its time since the offset, up to cycles. *)
LEMMA AdvanceIs ==
    ASSUME now \in Nat, NEW phases, Cycle(phases) \in Nat \ {0}, NEW o \in Int
    PROVE  /\ Advance(phases, o) \in 0..(Cycle(phases) - 1)
           /\ \E k \in Int : Advance(phases, o) = now - o + k * Cycle(phases)
<1> DEFINE c == Cycle(phases)
           a == Advance(phases, o)
<1>1. c \in Nat \ {0}
  OBVIOUS
<1>2. a = IF o >= 0 THEN (now + c - (o % c)) % c ELSE (now + ((-o) % c)) % c
  BY DEF Advance
<1> HIDE DEF c, a
<1>3. CASE o >= 0
  <2> DEFINE x == now + c - (o % c)
  <2>1. PICK m \in Int : o % c = o - m * c
    BY <1>1, Division
  <2>2. x \in Int /\ a = x % c
    BY <1>1, <1>2, <1>3, Remainder
  <2>3. a \in 0..(c - 1) /\ \E n \in Int : a = x - n * c
    <3> HIDE DEF x
    <3>1. QED  BY <1>1, <2>2, Division
  <2>4. PICK n \in Int : a = x - n * c
    BY <2>3
  <2>5. x = now + c - (o - m * c)
    BY <2>1
  <2> HIDE DEF x
  <2>6. m * c \in Int /\ n * c \in Int /\ (1 + m - n) * c = c + m * c - n * c
    BY <1>1
  <2>7. a = now - o + (1 + m - n) * c
    BY <1>1, <2>2, <2>4, <2>5, <2>6
  <2>8. QED  BY <2>3, <2>7 DEF a, c
<1>4. CASE ~(o >= 0)
  <2> DEFINE y == -o
             x == now + (y % c)
  <2>1. PICK m \in Int : y % c = y - m * c
    <3>1. y \in Int
      OBVIOUS
    <3> HIDE DEF y
    <3>2. QED  BY <1>1, <3>1, Division
  <2>2. x \in Int /\ a = x % c
    BY <1>1, <1>2, <1>4, Remainder
  <2>3. a \in 0..(c - 1) /\ \E n \in Int : a = x - n * c
    <3> HIDE DEF x
    <3>1. QED  BY <1>1, <2>2, Division
  <2>4. PICK n \in Int : a = x - n * c
    BY <2>3
  <2>5. x = now + (-o - m * c)
    BY <2>1
  <2> HIDE DEF x
  <2>6. m * c \in Int /\ n * c \in Int /\ (-m - n) * c = -(m * c) - n * c
    BY <1>1
  <2>7. a = now - o + (-m - n) * c
    BY <1>1, <2>2, <2>4, <2>5, <2>6
  <2>8. QED  BY <2>3, <2>7 DEF a, c
<1>5. QED  BY <1>3, <1>4

(* Where closeTrafficLightLogic starts a program. *)
LEMMA StartPhase ==
    ASSUME now \in Nat, NEW phases \in Seq(Phase), Len(phases) # 0, NEW o \in Int
    PROVE  LET s == FirstStep(phases, o)
           IN /\ s \in 1..Len(phases)
              /\ OffsetFromIndex(phases, s) <= Advance(phases, o)
              /\ Advance(phases, o) < OffsetFromIndex(phases, s + 1)
<1> DEFINE n == Len(phases)
           pos == Advance(phases, o)
           Off(i) == OffsetFromIndex(phases, i)
           B == EndsBehind(phases, pos)
           s == FirstStep(phases, o)
<1>1. /\ n \in Nat \ {0} /\ DOMAIN phases = 1..n /\ 1 \in 1..n
      /\ \A i \in 1..(n + 1) : Off(i) \in Nat
  BY LenProperties, SumType
<1>2. Cycle(phases) \in Nat \ {0} /\ Off(n + 1) = Cycle(phases)
  BY <1>1, PhasesFill DEF Cycle
<1>3. pos \in Int /\ 0 <= pos /\ pos < Cycle(phases)
  <2>1. pos \in 0..(Cycle(phases) - 1)
    BY <1>2, AdvanceIs
  <2> HIDE DEF pos
  <2>2. QED  BY <1>2, <2>1
<1>4. B \in SUBSET Nat /\ n \in B
  BY <1>1, <1>2, <1>3 DEF EndsBehind
<1>5. s \in B /\ \A i \in B : s <= i
  <2> HIDE DEF B
  <2>1. Min(B) \in B /\ \A i \in B : Min(B) <= i
    BY <1>4, LeastIn
  <2>2. QED  BY <2>1 DEF FirstStep, B
<1>6. s \in 1..n /\ pos < Off(s + 1)
  BY <1>1, <1>3, <1>5 DEF EndsBehind
<1> HIDE DEF s, pos
<1>7. Off(s) <= pos
  <2>1. CASE s = 1
    <3>1. 1 \in 1..(Len(phases) + 1)
      BY <1>1
    <3>2. OffsetFromIndex(phases, 1) = 0
      BY <1>1, <3>1, SumStep
    <3>3. QED  BY <1>3, <2>1, <3>2
  <2>2. CASE s # 1
    <3>1. s - 1 \in 1..n /\ s - 1 + 1 = s /\ ~(s <= s - 1) /\ s \in 1..(n + 1)
      BY <1>1, <1>6, <2>2
    <3>2. s - 1 \notin B
      BY <1>5, <3>1
    <3>3. ~(Off(s) > pos)
      BY <1>1, <3>1, <3>2 DEF EndsBehind
    <3> HIDE DEF Off
    <3>4. QED  BY <1>1, <1>3, <3>1, <3>3
  <2>3. QED  BY <2>1, <2>2
<1>8. QED  BY <1>6, <1>7 DEF s, pos
-----------------------------------------------------------------------------
(* The command of a program goes its way. *)

(* A program has one command. *)
LEMMA CurrentUnique ==
    ASSUME IInv, NEW p \in variants, NEW e \in events, NEW f \in events,
           IsCurrent(e, p), IsCurrent(f, p)
    PROVE  e = f
<1>1. PICK g \in events : {h \in events : IsCurrent(h, p)} = {g}
  BY DEF IInv, Commands, CommandsOf, OneCurrent
<1>2. QED  BY <1>1

(* What moves the time and the stage when there is no client. *)
LEMMA Clock ==
    ASSUME IInv, commands \in Nat, [Next]_vars, commands' = 0
    PROVE  /\ commands = 0 /\ waut' = waut
           /\ now' = now \/ (now' = now + DeltaT /\ stage = "move" /\ stage' = "client")
           /\ stage' \in {"check", "move"} =>
                 \/ stage \in {"check", "move"}
                 \/ events' = events /\ \A e \in events : e.time >= now + DeltaT
<1>1. CASE Client
  <2>1. commands' = commands + 1
    BY <1>1 DEF Client, ClientMay, SetPhaseDuration, SetPhaseIndex, SetProgram, SetState,
                SetCompleteProgram
  <2>2. FALSE
    BY <2>1
  <2>3. QED  BY <2>2
<1>2. CASE EndEvents
  <2>1. \A e \in events : e.time \in Int /\ now + DeltaT \in Int /\ ~(e.time < now + DeltaT)
    BY <1>2, DeltaTAssumption DEF EndEvents, IsDue, IInv, Programs, Commands, CommandsOf, Event
  <2>2. \A e \in events : e.time >= now + DeltaT
    BY <2>1
  <2>3. QED  BY <1>2, <2>2 DEF EndEvents
<1>3. CASE Switch
  BY <1>3 DEF Switch
<1>4. CASE \E p \in Loaded, o \in NewOffsets : ChangeOffset(p, o)
  BY <1>4 DEF ChangeOffset, wautVars
<1>5. CASE \E e \in events : ExecuteSwitch(e) \/ ExecuteDescheduled(e) \/ ExecuteWaut(e)
  BY <1>5 DEF ExecuteSwitch, ExecuteDescheduled, ExecuteWaut, wautVars
<1>6. CASE \/ StartSimulation \/ StartEvents \/ GoOnWaiting \/ EndCheck
           \/ NextSimulationStep \/ UNCHANGED vars
  BY <1>6 DEF StartSimulation, StartEvents, GoOnWaiting, EndCheck,
              NextSimulationStep, wautVars, vars
<1>7. QED  BY <1>1, <1>2, <1>3, <1>4, <1>5, <1>6 DEF Next, Terminated

(* A program neither reloaded nor due nor switched to keeps its phase and its command. *)
LEMMA Resting ==
    ASSUME IInv, commands \in Nat, [Next]_vars, commands' = 0,
           NEW p \in Loaded, Switch => waut.procedure # "GSP" \/ switched[at].to # p,
           ~\E o \in NewOffsets : ChangeOffset(p, o),
           ~\E e \in events : e.command.program = p /\ ExecuteSwitch(e)
    PROVE  /\ plan'[p] = plan[p] /\ step'[p] = step[p] /\ offset'[p] = offset[p]
           /\ p \in Actuated => lastSwitch'[p] = lastSwitch[p]
           /\ \A f \in events : IsCurrent(f, p) => f \in events' /\ IsCurrent(f, p)'
<1>1. /\ p \in variants /\ p # "off" /\ Loaded \subseteq Program /\ "off" \notin Loaded
      /\ step \in [Program -> Nat] /\ plan \in [Program -> Seq(Phase)]
      /\ mySwitchCommand \in [Program -> Nat] /\ DOMAIN lastSwitch = Actuated
      /\ Loaded \subseteq variants
  BY LightsAssumption, Plans DEF IInv, Programs
<1>2. ASSUME NEW q \in Loaded, NEW o \in NewOffsets, ChangeOffset(q, o)
      PROVE  /\ plan'[p] = plan[p] /\ step'[p] = step[p] /\ offset'[p] = offset[p]
             /\ p \in Actuated => lastSwitch'[p] = lastSwitch[p]
             /\ \A f \in events : IsCurrent(f, p) => f \in events' /\ IsCurrent(f, p)'
  <2>1. q # p /\ q \in variants
    BY <1>1, <1>2
  <2>2. /\ ChangeStepAndDuration(q, FirstStep(plan[q], o), LeftDuration(plan[q], o))
        /\ offset' = [offset EXCEPT ![q] = o] /\ plan' = plan /\ lastSwitch' = lastSwitch
        /\ stage = "load"
    BY <1>2 DEF ChangeOffset
  <2>3. LeftDuration(plan[q], o) \in Int
    BY <2>2, FirstStepType, LightsAssumption DEF IInv, Programs
  <2>4. /\ \A f : f \in events' /\ IsCurrent(f, p)' <=> f \in events /\ IsCurrent(f, p)
        /\ step'[p] = step[p]
    BY <1>1, <2>1, <2>2, <2>3, OthersKeepCommand
  <2>5. QED  BY <2>1, <2>2, <2>4
<1>3. ASSUME NEW e \in events, ExecuteSwitch(e)
      PROVE  /\ plan'[p] = plan[p] /\ step'[p] = step[p] /\ offset'[p] = offset[p]
             /\ p \in Actuated => lastSwitch'[p] = lastSwitch[p]
             /\ \A f \in events : IsCurrent(f, p) => f \in events' /\ IsCurrent(f, p)'
  <2> DEFINE q == e.command.program
  <2>1. q # p
    BY <1>3
  <2>2. PICK o \in TrySwitch(q) :
          /\ step' = [step EXCEPT ![q] = o.step]
          /\ lastSwitch' = IF q \in Actuated /\ o.begun
                           THEN [lastSwitch EXCEPT ![q][o.step] = now] ELSE lastSwitch
          /\ \A f \in events : f # e => f \in events'
    BY <1>3 DEF ExecuteSwitch
  <2>3. UNCHANGED <<plan, offset, mySwitchCommand>>
    BY <1>3 DEF ExecuteSwitch
  <2>4. \A f \in events : IsCurrent(f, p) => f # e
    BY <2>1 DEF IsCurrent
  <2>5. \A f : IsCurrent(f, p)' <=> IsCurrent(f, p)
    BY <2>3 DEF IsCurrent
  <2> HIDE DEF q
  <2>6. step'[p] = step[p] /\ (p \in Actuated => lastSwitch'[p] = lastSwitch[p])
    BY <1>1, <2>1, <2>2
  <2>7. QED  BY <2>2, <2>3, <2>4, <2>5, <2>6
<1>4. ASSUME NEW e \in events, ExecuteDescheduled(e) \/ ExecuteWaut(e)
      PROVE  /\ plan'[p] = plan[p] /\ step'[p] = step[p] /\ offset'[p] = offset[p]
             /\ p \in Actuated => lastSwitch'[p] = lastSwitch[p]
             /\ \A f \in events : IsCurrent(f, p) => f \in events' /\ IsCurrent(f, p)'
  <2>1. ~IsCurrent(e, p)
    <3>1. p # "waut"
      BY LightsAssumption
    <3>2. ExecuteWaut(e) => e.command.program = "waut"
      BY DEF ExecuteWaut, WautCommand
    <3>3. ExecuteDescheduled(e) => ~e.command.valid
      BY DEF ExecuteDescheduled
    <3>4. IsCurrent(e, p) => e.command.program = p /\ e.command.valid
      BY <1>1, CurrentIsValid
    <3>5. QED  BY <1>4, <3>1, <3>2, <3>3, <3>4
  <2>2. \/ UNCHANGED <<plan, step, mySwitchCommand, lastSwitch>>
        \/ /\ \E phases : plan' = [plan EXCEPT !["off"] = phases]
           /\ step' = [step EXCEPT !["off"] = 1]
           /\ mySwitchCommand' = [mySwitchCommand EXCEPT !["off"] = 1]
           /\ lastSwitch' = lastSwitch
    BY <1>4 DEF ExecuteDescheduled, ExecuteWaut, programVars, Instantiate
  <2>3. events \ {e} \subseteq events' /\ offset' = offset
    BY <1>4 DEF ExecuteDescheduled, ExecuteWaut, Instantiate, AddUnchanged
  <2>4. /\ plan'[p] = plan[p] /\ step'[p] = step[p] /\ lastSwitch' = lastSwitch
        /\ mySwitchCommand'[p] = mySwitchCommand[p]
    BY <1>1, <2>2
  <2>5. \A f : IsCurrent(f, p)' <=> IsCurrent(f, p)
    BY <2>4 DEF IsCurrent
  <2>6. QED  BY <2>1, <2>3, <2>4, <2>5
<1>5. CASE Client
  <2>1. commands' = commands + 1
    BY <1>5 DEF Client, ClientMay, SetPhaseDuration, SetPhaseIndex, SetProgram, SetState,
                SetCompleteProgram
  <2>2. FALSE
    BY <2>1
  <2>3. QED  BY <2>2
<1>6. CASE \/ StartSimulation \/ StartEvents \/ EndEvents \/ GoOnWaiting \/ EndCheck
           \/ NextSimulationStep \/ UNCHANGED vars \/ (Switch /\ waut.procedure # "GSP")
  <2>1. UNCHANGED <<events, plan, step, offset, mySwitchCommand, lastSwitch>>
    BY <1>6 DEF StartSimulation, StartEvents, EndEvents, Switch, GoOnWaiting, EndCheck,
                NextSimulationStep, programVars, vars
  <2>2. \A f : IsCurrent(f, p)' <=> IsCurrent(f, p)
    BY <2>1 DEF IsCurrent
  <2>3. QED  BY <2>1, <2>2
<1>7. CASE Switch /\ waut.procedure = "GSP"
  <2>1. PICK to : to = switched[at].to
    OBVIOUS
  <2>2. /\ to # p /\ to \in variants /\ to \in Loaded \cup {"off"}
        /\ switchToPos(to) \/ adaptLogic(to)
        /\ UNCHANGED <<offset, plan, lastSwitch>>
    BY <1>7, <2>1, Processes DEF Switch
  <2>3. CASE to = "off"
    <3>1. UNCHANGED <<events, mySwitchCommand, step>>
      BY <2>2, <2>3 DEF switchToPos, adaptLogic, ChangeStepAndDuration
    <3>2. \A f : IsCurrent(f, p)' <=> IsCurrent(f, p)
      BY <3>1 DEF IsCurrent
    <3>3. QED  BY <2>2, <3>1, <3>2
  <2>4. CASE to # "off"
    <3>1. PICK s \in 1..Len(plan[to]), d \in Int : ChangeStepAndDuration(to, s, d)
      BY <2>2, <2>4, ProcedureDurations
    <3>2. /\ \A f : f \in events' /\ IsCurrent(f, p)' <=> f \in events /\ IsCurrent(f, p)
          /\ step'[p] = step[p]
      BY <1>1, <2>2, <3>1, OthersKeepCommand
    <3>3. QED  BY <2>2, <3>2
  <2>5. QED  BY <2>3, <2>4
<1>8. QED  BY <1>2, <1>3, <1>4, <1>5, <1>6, <1>7 DEF Next, Terminated

(* The command of a program is executed. *)
LEMMA OwnSwitch ==
    ASSUME IInv, MinsPositive, NEW p \in Loaded, NEW e \in events, e.command.program = p,
           ExecuteSwitch(e)
    PROVE  /\ IsCurrent(e, p) /\ e.time \in Int /\ e.time < now + DeltaT
           /\ stage = "events" /\ UNCHANGED <<now, stage, plan, offset>>
           /\ \E o \in TrySwitch(p) :
                 /\ o.step \in 1..Len(plan[p]) /\ o.returned \in Nat \ {0}
                 /\ step'[p] = o.step
                 /\ p \in Actuated =>
                       lastSwitch'[p] = IF o.begun THEN [lastSwitch[p] EXCEPT ![o.step] = now]
                                        ELSE lastSwitch[p]
                 /\ \E f \in events' : /\ IsCurrent(f, p)' /\ f.time = e.time + o.returned
                                       /\ f.command.assumed = e.command.assumed + o.returned
<1>1. /\ p \in variants /\ p \in Program /\ e.command.valid /\ e \in Event
      /\ IsCurrent(e, p) /\ DOMAIN lastSwitch = Actuated /\ step \in [Program -> Nat]
      /\ UNCHANGED <<now, stage, offset, plan, mySwitchCommand>> /\ stage = "events"
      /\ e.time \in Int /\ e.time < now + DeltaT
  BY Plans, CurrentIsValid DEF ExecuteSwitch, IsNext, IsDue, IInv, Programs, Commands,
     CommandsOf, Event
<1>2. PICK o \in TrySwitch(p) :
        /\ step' = [step EXCEPT ![p] = o.step]
        /\ lastSwitch' = IF p \in Actuated /\ o.begun
                         THEN [lastSwitch EXCEPT ![p][o.step] = now] ELSE lastSwitch
        /\ events' = (events \ {e}) \cup
             Requeued(e, [e.command EXCEPT !.assumed = @ + o.returned], o.returned)
  BY DEF ExecuteSwitch
<1>3. o.step \in 1..Len(plan[p]) /\ o.returned \in Nat \ {0}
  BY <1>1, OutcomeType DEF IInv
<1> DEFINE c == [e.command EXCEPT !.assumed = @ + o.returned]
           N == [command |-> c, time |-> e.time + o.returned]
<1>4. N \in events'
  <2>1. ~(o.returned <= 0)
    BY <1>3
  <2>2. QED  BY <1>2, <2>1 DEF Requeued
<1>5. /\ N.command.program = p /\ N.command.number = e.command.number
      /\ N.command.assumed = e.command.assumed + o.returned
  <2>1. e.command \in Cmd
    BY <1>1 DEF Event, Cmd
  <2>2. /\ c.program = p /\ c.number = e.command.number
        /\ c.assumed = e.command.assumed + o.returned
    BY <2>1 DEF Cmd
  <2> HIDE DEF c
  <2>3. QED  BY <2>2
<1>6. N.time = e.time + o.returned
  OBVIOUS
<1> HIDE DEF N
<1>7. IsCurrent(N, p)'
  BY <1>1, <1>5 DEF IsCurrent
<1>8. step'[p] = o.step
  BY <1>1, <1>2
<1>9. p \in Actuated => lastSwitch'[p] = IF o.begun THEN [lastSwitch[p] EXCEPT ![o.step] = now]
                                        ELSE lastSwitch[p]
  BY <1>1, <1>2
<1>10. QED  BY <1>1, <1>3, <1>4, <1>5, <1>6, <1>7, <1>8, <1>9

(* A program is given a phase and a positive duration. *)
LEMMA OwnCommand ==
    ASSUME IInv, NEW p \in variants, p # "off", NEW s, NEW d \in Nat \ {0},
           ChangeStepAndDuration(p, s, d)
    PROVE  /\ step'[p] = s
           /\ \E f \in events' : /\ IsCurrent(f, p)' /\ f.time = now + d
                                 /\ f.command.assumed = now + d
<1> DEFINE n == mySwitchCommand[p]
           t == IF now + d <= now THEN now ELSE now + d
           N == [command |-> Command(p, n + 1, now + d), time |-> t]
<1>1. /\ p \in Program /\ step \in [Program -> Nat] /\ mySwitchCommand \in [Program -> Nat]
      /\ now \in Nat
  BY DEF IInv, Programs
<1>2. /\ N \in events' /\ step' = [step EXCEPT ![p] = s]
      /\ mySwitchCommand' = [mySwitchCommand EXCEPT ![p] = n + 1]
  BY DEF ChangeStepAndDuration, AddAdapted
<1>3. t = now + d
  BY <1>1
<1>4. /\ N.command.program = p /\ N.command.number = n + 1 /\ N.time = t
      /\ N.command.assumed = now + d
  BY DEF Command
<1>5. \E f \in events' : /\ f.command.program = p /\ f.command.number = n + 1
                          /\ f.time = now + d /\ f.command.assumed = now + d
  BY <1>2, <1>3, <1>4
<1> HIDE DEF N, t, n
<1>6. mySwitchCommand'[p] = n + 1 /\ step'[p] = s
  BY <1>1, <1>2
<1>7. QED  BY <1>5, <1>6 DEF IsCurrent

(* A file gives a program a new offset. *)
LEMMA OwnOffset ==
    ASSUME IInv, NEW p \in Loaded, NEW o \in NewOffsets, ChangeOffset(p, o)
    PROVE  /\ o \in Int /\ plan[p] = Plan[p]
           /\ UNCHANGED <<now, stage, plan, lastSwitch, switched>> /\ stage = "load"
           /\ offset' = [offset EXCEPT ![p] = o]
           /\ step'[p] = FirstStep(Plan[p], o)
           /\ LeftDuration(Plan[p], o) \in Nat
           /\ \E f \in events' : /\ IsCurrent(f, p)'
                                 /\ f.time = now + LeftDuration(Plan[p], o)
                                 /\ f.command.assumed = now + LeftDuration(Plan[p], o)
<1> DEFINE s == FirstStep(Plan[p], o)
           d == LeftDuration(Plan[p], o)
<1>1. /\ o \in Int /\ p # "off" /\ p \in variants /\ now \in Nat
      /\ stage = "load" /\ UNCHANGED <<now, stage, plan, lastSwitch, switched>>
      /\ plan[p] = Plan[p]
      /\ offset' = [offset EXCEPT ![p] = o] /\ ChangeStepAndDuration(p, s, d)
  BY LightsAssumption, Plans DEF ChangeOffset, IInv, Programs, wautVars
<1>2. /\ Plan[p] \in Seq(Phase) /\ Len(Plan[p]) # 0
  BY Plans
<1>3. d \in Nat \ {0}
  <2>1. /\ s \in 1..Len(Plan[p]) /\ Advance(Plan[p], o) < OffsetFromIndex(Plan[p], s + 1)
    BY <1>1, <1>2, StartPhase
  <2>2. OffsetFromIndex(Plan[p], s + 1) \in Nat /\ Cycle(Plan[p]) \in Nat \ {0}
    BY <1>2, <2>1, PhasesFill
  <2>3. Advance(Plan[p], o) \in 0..(Cycle(Plan[p]) - 1)
    BY <1>1, <2>2, AdvanceIs
  <2>4. d = OffsetFromIndex(Plan[p], s + 1) - Advance(Plan[p], o)
    BY DEF LeftDuration
  <2> HIDE DEF s, d
  <2>5. QED  BY <2>1, <2>2, <2>3, <2>4
<1> HIDE DEF s, d
<1>4. /\ step'[p] = s
      /\ \E f \in events' : /\ IsCurrent(f, p)' /\ f.time = now + d
                            /\ f.command.assumed = now + d
  BY <1>1, <1>3, OwnCommand
<1>5. QED  BY <1>1, <1>3, <1>4 DEF s, d
-----------------------------------------------------------------------------
(* Without a client nobody replaces the phases of a program that was loaded. *)
Undisturbed ==
    /\ commands \in Nat /\ offset \in [Loaded -> Int]
    /\ commands = 0 => \A p \in Loaded : plan[p] = Plan[p]

(* A phase of a program with offset o ends at this time, in some cycle. *)
EndsAt(phases, o, s, time) ==
    \E k \in Int : time = o + k * Cycle(phases) + OffsetFromIndex(phases, s + 1)

(* The next switch of a fixed-time program is when its phase ends, as its offset says,
   in this cycle or another; and it was planned for the time of a step that began. *)
OnPlan(p) ==
    \E e \in events :
        /\ IsCurrent(e, p)
        /\ EndsAt(Plan[p], offset[p], step[p], e.time)
        /\ e.time - Plan[p][step[p]].duration < now + DeltaT
        /\ stage \in {"check", "move"} => e.time >= now + DeltaT
Phased ==
    commands = 0 /\ waut.procedure # "GSP" => \A p \in Loaded \ Actuated : OnPlan(p)

(* The phases of a program follow one another. *)
LEMMA NextStepIs ==
    ASSUME NEW p, NEW n \in Nat \ {0}, Len(plan[p]) = n, step[p] \in 1..n
    PROVE  NextStep(p) = IF step[p] = n THEN 1 ELSE step[p] + 1
<1> DEFINE x == step[p]
<1>1. x \in Int /\ NextStep(p) = (x % n) + 1 /\ x \in 1..n
  BY DEF NextStep
<1> HIDE DEF x
<1>2. CASE x = n
  <2>1. 1 \in Int /\ x - 1 * n = 0 /\ x - 1 * n \in 0..(n - 1)
    BY <1>1, <1>2
  <2>2. x % n = 0
    BY <1>1, <2>1, OneRemainder
  <2>3. QED  BY <1>1, <1>2, <2>2 DEF x
<1>3. CASE x # n
  <2>1. 0 \in Int /\ x - 0 * n = x /\ x - 0 * n \in 0..(n - 1)
    BY <1>1, <1>3
  <2>2. x % n = x
    BY <1>1, <2>1, OneRemainder
  <2>3. QED  BY <1>1, <1>3, <2>2 DEF x
<1>4. QED  BY <1>2, <1>3

(* The time when the phase after next begins. *)
LEMMA NextPhaseEnds ==
    ASSUME NEW phases \in Seq(Phase), NEW s \in 1..Len(phases), NEW t \in 1..Len(phases),
           t = (IF s = Len(phases) THEN 1 ELSE s + 1),
           NEW o \in Int, NEW time, EndsAt(phases, o, s, time)
    PROVE  EndsAt(phases, o, t, time + phases[t].duration)
<1> DEFINE c == Cycle(phases)
           end == OffsetFromIndex(phases, s + 1)
           d == phases[t].duration
<1>1. /\ c \in Nat \ {0} /\ d \in Nat \ {0} /\ end \in Nat /\ Len(phases) \in Nat
      /\ OffsetFromIndex(phases, t) \in Nat
      /\ OffsetFromIndex(phases, t + 1) = OffsetFromIndex(phases, t) + d
  BY PhasesFill, LenProperties
<1>2. PICK k \in Int : time = o + k * c + end
  BY DEF EndsAt
<1>3. CASE s = Len(phases)
  <2>1. end = c /\ t = 1
    BY <1>3 DEF Cycle
  <2>2. 1 \in 1..(Len(phases) + 1)
    BY <1>1
  <2>3. OffsetFromIndex(phases, t) = 0
    BY <1>1, <2>1, <2>2, SumStep
  <2> HIDE DEF c, d, end
  <2>4. OffsetFromIndex(phases, t + 1) = d
    BY <1>1, <2>3
  <2>5. PICK m \in Int : m = k + 1
    OBVIOUS
  <2>6. m * c = k * c + c /\ k * c \in Int
    BY <1>1, <2>5
  <2>7. time + d = o + m * c + OffsetFromIndex(phases, t + 1)
    <3>1. end = c
      BY <2>1
    <3>2. time = o + m * c /\ m * c \in Int
      BY <1>1, <1>2, <2>6, <3>1
    <3>3. QED  BY <2>4, <3>2
  <2>8. QED  BY <2>7 DEF EndsAt, c, d
<1>4. CASE s # Len(phases)
  <2>1. t = s + 1
    BY <1>4
  <2> HIDE DEF c, d, end
  <2>2. OffsetFromIndex(phases, t + 1) = end + d
    BY <1>1, <2>1 DEF end
  <2>3. k * c \in Int
    BY <1>1
  <2>4. time + d = o + k * c + OffsetFromIndex(phases, t + 1)
    BY <1>1, <1>2, <2>2, <2>3
  <2>5. QED  BY <2>4 DEF EndsAt, c, d
<1>5. QED  BY <1>3, <1>4

(* Where a program is started, its next switch is on plan. *)
LEMMA StartOnPlan ==
    ASSUME now \in Nat, NEW p \in Loaded, NEW o \in Int, NEW s, NEW time,
           s = FirstStep(Plan[p], o), time = now + LeftDuration(Plan[p], o)
    PROVE  /\ EndsAt(Plan[p], o, s, time)
           /\ time - Plan[p][s].duration < now + DeltaT
<1> DEFINE ph == Plan[p]
           a == Advance(ph, o)
           c == Cycle(ph)
           end == OffsetFromIndex(ph, s + 1)
           begin == OffsetFromIndex(ph, s)
           d == ph[s].duration
<1>1. /\ ph \in Seq(Phase) /\ Len(ph) # 0 /\ c \in Nat \ {0}
      /\ s = FirstStep(ph, o) /\ time = now + LeftDuration(ph, o)
  BY Plans
<1> HIDE DEF ph
<1>2. s \in 1..Len(ph) /\ begin <= a /\ a < end
  BY <1>1, StartPhase
<1>3. begin \in Nat /\ end \in Nat /\ d \in Nat /\ end = begin + d
  BY <1>1, <1>2, PhasesFill
<1>4. a \in 0..(c - 1) /\ \E k \in Int : a = now - o + k * c
  BY <1>1, AdvanceIs
<1>5. LeftDuration(ph, o) = end - a
  BY <1>1 DEF LeftDuration
<1> HIDE DEF a, c, end, begin, d
<1>6. PICK k \in Int : a = now - o + k * c
  BY <1>4
<1>7. PICK m \in Int : m = -k
  OBVIOUS
<1>8. k * c \in Int /\ m * c = -(k * c) /\ a \in Int
  BY <1>1, <1>4, <1>7
<1>9. time = o + m * c + end
  BY <1>1, <1>3, <1>5, <1>6, <1>8
<1>10. time - d < now + DeltaT
  BY <1>1, <1>2, <1>3, <1>5, <1>8, DeltaTAssumption
<1>11. QED  BY <1>9, <1>10 DEF EndsAt, ph, c, end, d

(* The time and the stage go on. *)
LEMMA RestsOnPlan ==
    ASSUME IInv, Undisturbed, Phased, commands' = 0, waut.procedure # "GSP", [Next]_vars,
           NEW p \in Loaded \ Actuated, ~\E o \in NewOffsets : ChangeOffset(p, o),
           ~\E e \in events : e.command.program = p /\ ExecuteSwitch(e)
    PROVE  OnPlan(p)'
<1>1. /\ commands = 0 /\ commands \in Nat
      /\ now' = now \/ (now' = now + DeltaT /\ stage = "move" /\ stage' = "client")
      /\ stage' \in {"check", "move"} =>
            \/ stage \in {"check", "move"}
            \/ events' = events /\ \A e \in events : e.time >= now + DeltaT
  BY Clock DEF Undisturbed
<1>2. /\ step'[p] = step[p] /\ offset'[p] = offset[p]
      /\ \A f \in events : IsCurrent(f, p) => f \in events' /\ IsCurrent(f, p)'
  BY <1>1, Resting
<1>3. PICK e \in events :
        /\ IsCurrent(e, p)
        /\ EndsAt(Plan[p], offset[p], step[p], e.time)
        /\ e.time - Plan[p][step[p]].duration < now + DeltaT
        /\ stage \in {"check", "move"} => e.time >= now + DeltaT
  BY <1>1 DEF Phased, OnPlan
<1>4. e \in events' /\ IsCurrent(e, p)'
  BY <1>2, <1>3
<1>5. e.time - Plan[p][step[p]].duration < now' + DeltaT
  <2>1. /\ now \in Nat /\ DeltaT \in Nat /\ e.time \in Int
        /\ plan[p] = Plan[p] /\ Plan[p][step[p]].duration \in Nat
    BY <1>1, PhaseType, DeltaTAssumption
       DEF Undisturbed, IInv, Programs, Commands, CommandsOf, Event
  <2>2. QED  BY <1>1, <1>3, <2>1
<1>6. stage' \in {"check", "move"} => e.time >= now' + DeltaT
  BY <1>1, <1>3
<1>7. EndsAt(Plan[p], offset'[p], step'[p], e.time)
  BY <1>2, <1>3
<1>8. QED  BY <1>2, <1>4, <1>5, <1>6, <1>7 DEF OnPlan

(* The program switches by itself. *)
LEMMA SwitchesOnPlan ==
    ASSUME IInv, MinsPositive, Undisturbed, Phased, commands = 0, waut.procedure # "GSP",
           NEW p \in Loaded \ Actuated, NEW e \in events, e.command.program = p,
           ExecuteSwitch(e)
    PROVE  OnPlan(p)'
<1> DEFINE ph == Plan[p]
           s == step[p]
<1>1. /\ IsCurrent(e, p) /\ e.time \in Int /\ e.time < now + DeltaT
      /\ stage = "events" /\ UNCHANGED <<now, stage, plan, offset>>
  BY OwnSwitch
<1>2. PICK o \in TrySwitch(p) :
        /\ step'[p] = o.step
        /\ \E f \in events' : /\ IsCurrent(f, p)' /\ f.time = e.time + o.returned
                              /\ f.command.assumed = e.command.assumed + o.returned
  <2>1. \E o \in TrySwitch(p) :
          /\ o.step \in 1..Len(plan[p]) /\ o.returned \in Nat \ {0}
          /\ step'[p] = o.step
          /\ p \in Actuated =>
                lastSwitch'[p] = IF o.begun THEN [lastSwitch[p] EXCEPT ![o.step] = now]
                                 ELSE lastSwitch[p]
          /\ \E f \in events' : /\ IsCurrent(f, p)' /\ f.time = e.time + o.returned
                                /\ f.command.assumed = e.command.assumed + o.returned
    BY OwnSwitch
  <2>2. QED  BY <2>1
<1>3. /\ p # "off" /\ p \in variants /\ plan[p] = ph /\ ph \in Seq(Phase)
      /\ Len(ph) \in Nat \ {0} /\ s \in 1..Len(ph) /\ offset[p] \in Int
  BY LightsAssumption, Plans DEF Undisturbed, IInv, Programs
<1> DEFINE t == IF s = Len(ph) THEN 1 ELSE s + 1
<1>4. NextStep(p) = t /\ t \in 1..Len(ph) /\ t = (IF s = Len(ph) THEN 1 ELSE s + 1)
  BY <1>3, NextStepIs
<1>5. o.step = t /\ o.returned = ph[t].duration
  BY <1>2, <1>3, <1>4 DEF TrySwitch, TrySwitchSimple, Outcome
<1>6. PICK e0 \in events : IsCurrent(e0, p) /\ EndsAt(ph, offset[p], s, e0.time)
  BY DEF Phased, OnPlan
<1>7. EndsAt(ph, offset[p], s, e.time)
  BY <1>1, <1>3, <1>6, CurrentUnique
<1> HIDE DEF t, ph, s
<1>8. EndsAt(ph, offset[p], t, e.time + ph[t].duration)
  BY <1>3, <1>4, <1>7, NextPhaseEnds
<1>9. PICK f \in events' : IsCurrent(f, p)' /\ f.time = e.time + ph[t].duration
  BY <1>2, <1>5
<1>10. EndsAt(ph, offset[p], t, f.time)
  BY <1>8, <1>9
<1>11. ph[t].duration \in Nat
  BY <1>3, <1>4, PhasesFill
<1>12. f.time - ph[t].duration < now + DeltaT
  BY <1>1, <1>9, <1>11
<1>13. /\ EndsAt(Plan[p], offset'[p], step'[p], f.time)
       /\ f.time - Plan[p][step'[p]].duration < now' + DeltaT
       /\ stage' \notin {"check", "move"}
  BY <1>1, <1>2, <1>5, <1>10, <1>12 DEF ph
<1>14. QED  BY <1>9, <1>13 DEF OnPlan

(* A file gives it a new offset. *)
LEMMA ReloadedOnPlan ==
    ASSUME IInv, Undisturbed, NEW p \in Loaded \ Actuated, NEW o \in NewOffsets,
           ChangeOffset(p, o)
    PROVE  OnPlan(p)'
<1> DEFINE s == FirstStep(Plan[p], o)
           time == now + LeftDuration(Plan[p], o)
<1>1. /\ o \in Int /\ UNCHANGED <<now, stage>> /\ stage = "load"
      /\ offset' = [offset EXCEPT ![p] = o] /\ step'[p] = s
      /\ \E f \in events' : IsCurrent(f, p)' /\ f.time = time
  BY OwnOffset
<1>2. /\ EndsAt(Plan[p], o, s, time)
      /\ time - Plan[p][s].duration < now + DeltaT
  BY <1>1, StartOnPlan DEF IInv, Programs
<1> HIDE DEF s, time
<1>3. offset'[p] = o
  BY <1>1 DEF Undisturbed
<1>4. PICK f \in events' : IsCurrent(f, p)' /\ f.time = time
  BY <1>1
<1>5. /\ EndsAt(Plan[p], offset'[p], step'[p], f.time)
      /\ f.time - Plan[p][step'[p]].duration < now' + DeltaT
      /\ stage' \notin {"check", "move"}
  BY <1>1, <1>2, <1>3, <1>4
<1>6. QED  BY <1>4, <1>5 DEF OnPlan

(* Nobody but the client replaces phases. *)
LEMMA StaysUndisturbed ==
    ASSUME IInv, Undisturbed, [Next]_vars
    PROVE  Undisturbed'
<1>1. commands' \in Nat
  BY CommandsCounted DEF Undisturbed
<1>2. offset' \in [Loaded -> Int]
  <2>1. \/ offset' = offset
        \/ \E p \in Loaded, o \in NewOffsets : offset' = [offset EXCEPT ![p] = o]
    BY DEF Next, vars, Terminated, Client, ClientMay, ChangeOffset, StartSimulation,
           SetPhaseDuration, SetPhaseIndex, SetProgram, SetState, SetCompleteProgram,
           StartEvents, ExecuteSwitch, ExecuteDescheduled, ExecuteWaut, EndEvents, Switch,
           GoOnWaiting, EndCheck, NextSimulationStep
  <2>2. NewOffsets \subseteq Int /\ offset \in [Loaded -> Int]
    BY LightsAssumption DEF Undisturbed
  <2>3. QED  BY <2>1, <2>2
<1>3. ASSUME commands' = 0, NEW p \in Loaded  PROVE plan'[p] = Plan[p]
  <2>1. commands = 0 /\ plan[p] = Plan[p]
    BY <1>3, Clock DEF Undisturbed
  <2>2. p # "off" /\ plan \in [Program -> Seq(Phase)] /\ p \in Program
    BY LightsAssumption, Plans DEF IInv, Programs
  <2>3. ~Client
    <3>1. Client => commands' = commands + 1
      BY DEF Client, ClientMay, SetPhaseDuration, SetPhaseIndex, SetProgram, SetState,
             SetCompleteProgram
    <3>2. QED  BY <1>3, <2>1, <3>1
  <2>4. plan' = plan \/ \E phases : plan' = [plan EXCEPT !["off"] = phases]
    BY <2>3 DEF Next, vars, programVars, Terminated, ChangeOffset, StartSimulation,
           StartEvents, ExecuteSwitch, ExecuteDescheduled, ExecuteWaut, EndEvents, Switch,
           GoOnWaiting, EndCheck, NextSimulationStep, Instantiate
  <2>5. QED  BY <2>1, <2>2, <2>4
<1>4. QED  BY <1>1, <1>2, <1>3 DEF Undisturbed

(* Every step keeps the fixed-time programs on plan. *)
LEMMA StaysPhased ==
    ASSUME IInv, MinsPositive, Undisturbed, Phased, [Next]_vars
    PROVE  Phased'
<1> SUFFICES ASSUME commands' = 0, waut'.procedure # "GSP", NEW p \in Loaded \ Actuated
             PROVE  OnPlan(p)'
  BY DEF Phased
<1>1. commands = 0 /\ waut.procedure # "GSP"
  BY Clock DEF Undisturbed
<1>2. CASE \E o \in NewOffsets : ChangeOffset(p, o)
  BY <1>2, ReloadedOnPlan
<1>3. CASE \E e \in events : e.command.program = p /\ ExecuteSwitch(e)
  BY <1>1, <1>3, SwitchesOnPlan
<1>4. QED  BY <1>1, <1>2, <1>3, RestsOnPlan

(* So they are at the start. *)
LEMMA InitPhased ==
    ASSUME Init
    PROVE  Undisturbed /\ Phased
<1>1. /\ now \in Nat /\ stage = "load" /\ commands = 0 /\ offset = Offset
      /\ Offset \in [Loaded -> Int] /\ Loaded \subseteq Program /\ Loaded \subseteq variants
      /\ plan = [p \in Program |-> IF p \in Loaded THEN Plan[p]
                                   ELSE IF p = "off" THEN OffPlan ELSE <<>>]
      /\ step = [p \in Program |-> IF p \in Loaded THEN FirstStep(Plan[p], offset[p]) ELSE 1]
      /\ mySwitchCommand = [p \in Program |-> IF p \in variants THEN 1 ELSE 0]
  BY LightsAssumption, Plans DEF Init
<1>2. Undisturbed
  BY <1>1 DEF Undisturbed
<1>3. ASSUME NEW p \in Loaded \ Actuated  PROVE OnPlan(p)
  <2> DEFINE s == FirstStep(Plan[p], offset[p])
             time == now + LeftDuration(Plan[p], offset[p])
  <2>1. step[p] = s /\ mySwitchCommand[p] = 1 /\ offset[p] \in Int
    BY <1>1
  <2>2. [command |-> Command(p, 1, time), time |-> time] \in events
    BY DEF Init
  <2>3. EndsAt(Plan[p], offset[p], s, time)
    BY <1>1, <2>1, StartOnPlan
  <2>4. time - Plan[p][s].duration < now + DeltaT
    BY <1>1, <2>1, StartOnPlan
  <2> HIDE DEF s, time
  <2>5. IsCurrent([command |-> Command(p, 1, time), time |-> time], p)
    BY <2>1 DEF IsCurrent, Command
  <2>6. QED  BY <1>1, <2>1, <2>2, <2>3, <2>4, <2>5 DEF OnPlan
<1>4. QED  BY <1>2, <1>3 DEF Phased

(* Who is on plan is in the phase of the step's last moment. *)
LEMMA OnPlanIsInPhase ==
    ASSUME IInv, Undisturbed, commands = 0, stage = "move", NEW p \in Loaded, OnPlan(p)
    PROVE  step[p] = IndexFromOffset(plan[p], Cycle(plan[p]),
                                     Advance(plan[p], offset[p]) + DeltaT - 1)
<1> DEFINE ph == Plan[p]
           s == step[p]
           c == Cycle(ph)
           o == offset[p]
           a == Advance(ph, o)
           begin == OffsetFromIndex(ph, s)
           end == OffsetFromIndex(ph, s + 1)
           d == ph[s].duration
<1>1. /\ plan[p] = ph /\ ph \in Seq(Phase) /\ s \in 1..Len(ph) /\ c \in Nat \ {0}
      /\ o \in Int /\ now \in Nat /\ DeltaT \in Nat
  BY Plans, DeltaTAssumption DEF Undisturbed, IInv, Programs
<1>2. PICK e \in events, k \in Int : /\ e.time = o + k * c + end
                                     /\ e.time - d < now + DeltaT
                                     /\ e.time >= now + DeltaT
  BY DEF OnPlan, EndsAt
<1>3. a \in 0..(c - 1) /\ \E m \in Int : a = now - o + m * c
  BY <1>1, AdvanceIs
<1> HIDE DEF ph, s, c, o, a
<1>4. begin \in Nat /\ end \in Nat /\ d \in Nat /\ end = begin + d
  BY <1>1, PhasesFill
<1> HIDE DEF begin, end, d
<1>5. PICK m \in Int : a = now - o + m * c
  BY <1>3
<1>6. k * c \in Int /\ m * c \in Int /\ (k + m) * c = k * c + m * c /\ k + m \in Int
  BY <1>1
<1> DEFINE pos == a + DeltaT - 1
<1>7. pos \in Int
  BY <1>1, <1>3
<1>8. begin <= pos - (k + m) * c /\ pos - (k + m) * c < end
  BY <1>1, <1>2, <1>4, <1>5, <1>6
<1> HIDE DEF pos
<1>9. IndexFromOffset(ph, c, pos) = s
  BY <1>1, <1>6, <1>7, <1>8, IndexIs DEF begin, end, c
<1>10. QED  BY <1>1, <1>9 DEF ph, s, c, o, a, pos

(* Without a client and procedures that stretch phases, a fixed-time program never
   drifts from the phase its offset says, whatever the lengths of the phases and of a
   step: the command goes back into the queue relative to its own time. *)
THEOREM InPhaseCorrect ==
    ASSUME MinsPositive
    PROVE  Spec => []InPhase
<1>1. Init => IInv /\ Undisturbed /\ Phased
  BY InitHolds, InitPhased
<1>2. IInv /\ Undisturbed /\ Phased /\ [Next]_vars => (IInv /\ Undisturbed /\ Phased)'
  BY NextKeeps, StaysUndisturbed, StaysPhased
<1>3. IInv /\ Undisturbed /\ Phased => InPhase
  BY OnPlanIsInPhase DEF Phased, InPhase
<1>4. QED  BY <1>1, <1>2, <1>3, PTL DEF Spec
-----------------------------------------------------------------------------
(* Green phases of actuated programs may last for their minimum. *)
GreensBounded ==
    \A p \in Actuated : \A i \in DOMAIN Plan[p] :
        Plan[p][i].state \in Green => Plan[p][i].min <= Plan[p][i].max

(* The next decision of an actuated program without a new offset is not before the minimum duration of its
   phase is over and not in the past, and for a green phase it is on time for the
   maximum. *)
OnGreen(p) ==
    \E e \in events :
        /\ IsCurrent(e, p)
        /\ e.time >= lastSwitch[p][step[p]] + Plan[p][step[p]].min
        /\ e.time >= now
        /\ stage \in {"check", "move"} => e.time >= now + DeltaT
        /\ Plan[p][step[p]].state \in Green =>
              e.time < lastSwitch[p][step[p]] + Plan[p][step[p]].max + DeltaT
Timed == commands = 0 /\ waut.procedure # "GSP" =>
             \A p \in Actuated : NotReoffset(p) => OnGreen(p)

(* The types of what an actuated program reckons with. *)
LEMMA ActuatedTypes ==
    ASSUME IInv, Undisturbed, commands = 0, NEW p \in Actuated
    PROVE  /\ p \in Loaded /\ p \in variants /\ p # "off" /\ plan[p] = Plan[p]
           /\ step[p] \in 1..Len(Plan[p]) /\ DOMAIN Plan[p] = 1..Len(Plan[p])
           /\ Len(Plan[p]) \in Nat \ {0}
           /\ \A i \in 1..Len(Plan[p]) : /\ Plan[p][i].min \in Nat /\ Plan[p][i].max \in Nat
                                         /\ lastSwitch[p][i] \in Int
           /\ DOMAIN lastSwitch[p] = 1..Len(Plan[p])
           /\ now \in Nat /\ DeltaT \in Nat \ {0} /\ \A e \in events : e.time \in Int
<1>1. p \in Loaded /\ p \in variants /\ p # "off" /\ plan[p] = Plan[p]
  BY LightsAssumption DEF Undisturbed, IInv, Programs
<1>2. /\ step[p] \in 1..Len(Plan[p]) /\ DOMAIN Plan[p] = 1..Len(Plan[p])
      /\ Len(Plan[p]) \in Nat \ {0}
      /\ \A i \in 1..Len(Plan[p]) : Plan[p][i].min \in Nat /\ Plan[p][i].max \in Nat
  BY <1>1, PhaseType DEF IInv
<1>3. lastSwitch[p] \in [1..Len(Plan[p]) -> Int]
  BY <1>1, <1>2 DEF IInv, Programs
<1>4. now \in Nat /\ DeltaT \in Nat \ {0} /\ \A e \in events : e.time \in Int
  BY DeltaTAssumption DEF IInv, Programs, Commands, CommandsOf, Event
<1>5. QED  BY <1>1, <1>2, <1>3, <1>4

(* The time and the stage go on. *)
LEMMA RestsOnGreen ==
    ASSUME IInv, Undisturbed, Timed, commands' = 0, waut.procedure # "GSP", [Next]_vars,
           NEW p \in Actuated, NotReoffset(p), ~\E o \in NewOffsets : ChangeOffset(p, o),
           ~\E e \in events : e.command.program = p /\ ExecuteSwitch(e)
    PROVE  OnGreen(p)'
<1>1. /\ commands = 0 /\ commands \in Nat
      /\ now' = now \/ (now' = now + DeltaT /\ stage = "move" /\ stage' = "client")
      /\ stage' \in {"check", "move"} =>
            \/ stage \in {"check", "move"}
            \/ events' = events /\ \A e \in events : e.time >= now + DeltaT
  BY Clock DEF Undisturbed
<1>2. p \in Loaded /\ now \in Nat /\ DeltaT \in Nat /\ \A e \in events : e.time \in Int
  BY <1>1, ActuatedTypes
<1>3. /\ step'[p] = step[p] /\ lastSwitch'[p] = lastSwitch[p]
      /\ \A f \in events : IsCurrent(f, p) => f \in events' /\ IsCurrent(f, p)'
  BY <1>1, <1>2, Resting
<1>4. PICK e \in events :
        /\ IsCurrent(e, p)
        /\ e.time >= lastSwitch[p][step[p]] + Plan[p][step[p]].min
        /\ e.time >= now
        /\ stage \in {"check", "move"} => e.time >= now + DeltaT
        /\ Plan[p][step[p]].state \in Green =>
              e.time < lastSwitch[p][step[p]] + Plan[p][step[p]].max + DeltaT
  BY <1>1 DEF Timed, OnGreen
<1>5. e \in events' /\ IsCurrent(e, p)'
  BY <1>3, <1>4
<1>6. e.time >= now' /\ (stage' \in {"check", "move"} => e.time >= now' + DeltaT)
  BY <1>1, <1>2, <1>4
<1>7. /\ e.time >= lastSwitch'[p][step'[p]] + Plan[p][step'[p]].min
      /\ Plan[p][step'[p]].state \in Green =>
              e.time < lastSwitch'[p][step'[p]] + Plan[p][step'[p]].max + DeltaT
  BY <1>3, <1>4
<1>8. QED  BY <1>5, <1>6, <1>7 DEF OnGreen

(* The program begins its next phase, or prolongs its green one. *)
LEMMA SwitchesOnGreen ==
    ASSUME IInv, MinsPositive, GreensBounded, Undisturbed, Timed, commands = 0,
           waut.procedure # "GSP", NEW p \in Actuated, NotReoffset(p),
           NEW e \in events, e.command.program = p, ExecuteSwitch(e)
    PROVE  OnGreen(p)'
<1> DEFINE ph == Plan[p]
           s == step[p]
           last == lastSwitch[p]
           next == NextStep(p)
<1>1. /\ p \in Loaded /\ p \in variants /\ p # "off" /\ plan[p] = ph
      /\ s \in 1..Len(ph) /\ DOMAIN ph = 1..Len(ph) /\ Len(ph) \in Nat \ {0}
      /\ \A i \in 1..Len(ph) : ph[i].min \in Nat /\ ph[i].max \in Nat /\ last[i] \in Int
      /\ DOMAIN last = 1..Len(ph) /\ now \in Nat /\ DeltaT \in Nat \ {0}
  BY ActuatedTypes
<1>2. /\ IsCurrent(e, p) /\ e.time \in Int /\ e.time < now + DeltaT
      /\ stage = "events" /\ UNCHANGED <<now, stage, plan, offset>>
  BY <1>1, OwnSwitch
<1>3. PICK o \in TrySwitch(p) :
        /\ o.step \in 1..Len(plan[p]) /\ o.returned \in Nat \ {0}
        /\ step'[p] = o.step
        /\ lastSwitch'[p] = IF o.begun THEN [last EXCEPT ![o.step] = now] ELSE last
        /\ \E f \in events' : /\ IsCurrent(f, p)' /\ f.time = e.time + o.returned
                              /\ f.command.assumed = e.command.assumed + o.returned
  <2>1. \E o \in TrySwitch(p) :
          /\ o.step \in 1..Len(plan[p]) /\ o.returned \in Nat \ {0}
          /\ step'[p] = o.step
          /\ p \in Actuated =>
                lastSwitch'[p] = IF o.begun THEN [lastSwitch[p] EXCEPT ![o.step] = now]
                                 ELSE lastSwitch[p]
          /\ \E f \in events' : /\ IsCurrent(f, p)' /\ f.time = e.time + o.returned
                                /\ f.command.assumed = e.command.assumed + o.returned
    BY <1>1, OwnSwitch
  <2>2. QED  BY <2>1
<1>4. /\ e.time >= last[s] + ph[s].min /\ e.time >= now
  <2>1. PICK f \in events : /\ IsCurrent(f, p)
                            /\ f.time >= last[s] + ph[s].min /\ f.time >= now
    BY DEF Timed, OnGreen
  <2>2. f = e
    BY <1>1, <1>2, <2>1, CurrentUnique
  <2>3. QED  BY <2>1, <2>2
<1>5. PICK f \in events' : IsCurrent(f, p)' /\ f.time = e.time + o.returned
  BY <1>3
<1>6. \/ o = Outcome(next, ph[next].min, TRUE)
      \/ \E gap \in GapSteps : MayContinue(p) /\ o = Outcome(s, duration(p, gap), FALSE)
  BY <1>1 DEF TrySwitch, TrySwitchActuated
<1> HIDE DEF ph, s, last, next
<1> DEFINE l == lastSwitch'[p][o.step]
           q == ph[o.step]
<1>7. /\ f.time >= now
      /\ f.time >= l + q.min
      /\ q.state \in Green => f.time < l + q.max + DeltaT
  <2>1. CASE o = Outcome(next, ph[next].min, TRUE)
    <3>1. o.step = next /\ o.returned = ph[next].min /\ o.begun /\ next \in 1..Len(ph)
      BY <1>1, <1>3, <2>1 DEF Outcome
    <3>2. l = now /\ q = ph[next] /\ q.min \in Nat /\ q.max \in Nat
      BY <1>1, <1>3, <3>1
    <3>3. q.state \in Green => q.min <= q.max
      BY <1>1, <3>1, <3>2 DEF GreensBounded, ph
    <3> HIDE DEF l, q
    <3>4. f.time = e.time + q.min
      BY <1>5, <3>1, <3>2
    <3>5. f.time >= now /\ f.time >= l + q.min
      <4>1. e.time \in Int /\ now \in Int /\ q.min \in Nat /\ e.time >= now
        BY <1>1, <1>2, <1>4, <3>2
      <4>2. e.time + q.min >= now /\ e.time + q.min >= now + q.min
        BY <4>1
      <4>3. QED  BY <3>2, <3>4, <4>2
    <3>6. ASSUME q.min <= q.max  PROVE f.time < l + q.max + DeltaT
      <4>1. e.time + q.min < now + q.max + DeltaT
        <5>1. /\ e.time \in Int /\ now \in Int /\ DeltaT \in Int /\ q.min \in Int
              /\ q.max \in Int /\ e.time < now + DeltaT
          BY <1>1, <1>2, <3>2
        <5>2. QED  BY <3>6, <5>1
      <4>2. QED  BY <3>2, <3>4, <4>1
    <3>7. QED  BY <3>3, <3>5, <3>6
  <2>2. ASSUME NEW gap \in GapSteps, MayContinue(p), o = Outcome(s, duration(p, gap), FALSE)
        PROVE  /\ f.time >= now
               /\ f.time >= l + q.min
               /\ q.state \in Green => f.time < l + q.max + DeltaT
    <3> DEFINE d == duration(p, gap)
    <3>1. o.step = s /\ o.returned = d /\ o.begun = FALSE
      BY <2>2 DEF Outcome
    <3>2. l = last[s] /\ q = ph[s] /\ q.min \in Nat /\ q.max \in Nat /\ l \in Int
      BY <1>1, <1>3, <3>1
    <3>3. d \in Nat \ {0} /\ d <= ph[s].max - (now - last[s])
      BY <1>1, <2>2, DurationPositive DEF actDuration, s, last, ph, IInv
    <3> HIDE DEF l, q, d
    <3>4. d <= q.max - (now - l) /\ e.time >= l + q.min /\ f.time = e.time + d
      BY <1>4, <1>5, <3>1, <3>2, <3>3
    <3>5. e.time + d >= now /\ e.time + d >= l + q.min
      BY <1>1, <1>2, <1>4, <3>2, <3>3, <3>4
    <3>6. e.time + d < l + q.max + DeltaT
      <4>1. /\ e.time \in Int /\ now \in Int /\ DeltaT \in Int /\ d \in Int
            /\ q.max \in Int /\ l \in Int /\ e.time < now + DeltaT
            /\ d <= q.max - (now - l)
        BY <1>1, <1>2, <3>2, <3>3, <3>4
      <4>2. QED  BY <4>1
    <3>7. QED  BY <3>4, <3>5, <3>6
  <2>3. QED  BY <1>6, <2>1, <2>2
<1>8. stage' \notin {"check", "move"} /\ now' = now
  BY <1>2
<1>9. QED  BY <1>3, <1>5, <1>7, <1>8 DEF OnGreen, ph

(* Every step keeps the actuated programs on time. *)
LEMMA StaysTimed ==
    ASSUME IInv, MinsPositive, GreensBounded, Undisturbed, Timed, [Next]_vars
    PROVE  Timed'
<1> SUFFICES ASSUME commands' = 0, waut'.procedure # "GSP", NEW p \in Actuated,
                    NotReoffset(p)'
             PROVE  OnGreen(p)'
  BY DEF Timed
<1>1. /\ commands = 0 /\ waut.procedure # "GSP" /\ mySwitchCommand'[p] = 1
      /\ p \in Loaded /\ p \in variants /\ p \in Program /\ p # "off"
      /\ mySwitchCommand \in [Program -> Nat]
  BY Clock, ActuatedTypes, Plans DEF Undisturbed, NotReoffset, IInv, Programs
<1>2. ~\E o \in NewOffsets : ChangeOffset(p, o)
  <2>1. SUFFICES ASSUME NEW o \in NewOffsets, ChangeOffset(p, o)  PROVE FALSE
    OBVIOUS
  <2>2. mySwitchCommand[p] = 1 /\ mySwitchCommand' = [mySwitchCommand EXCEPT ![p] = @ + 1]
    BY <1>1, <2>1 DEF ChangeOffset, ChangeStepAndDuration
  <2>3. QED  BY <1>1, <2>2
<1>3. CASE \E e \in events : e.command.program = p /\ ExecuteSwitch(e)
  <2>1. NotReoffset(p)
    BY <1>1, <1>3 DEF ExecuteSwitch, NotReoffset
  <2>2. QED  BY <1>1, <1>3, <2>1, SwitchesOnGreen
<1>4. CASE ~\E e \in events : e.command.program = p /\ ExecuteSwitch(e)
  <2>1. PICK f \in events : IsCurrent(f, p)
    BY <1>1 DEF IInv, Commands, CommandsOf, OneCurrent
  <2>2. IsCurrent(f, p)'
    BY <1>1, <1>2, <1>4, <2>1, Resting DEF Undisturbed
  <2>3. NotReoffset(p)
    BY <1>1, <2>1, <2>2 DEF IsCurrent, NotReoffset
  <2>4. QED  BY <1>1, <1>2, <1>4, <2>3, RestsOnGreen
<1>5. QED  BY <1>3, <1>4

(* At the start the phase of every program has just begun. *)
LEMMA InitTimed ==
    ASSUME Init, GreensBounded
    PROVE  Timed
<1> SUFFICES ASSUME NEW p \in Actuated  PROVE OnGreen(p)
  BY DEF Timed
<1>1. /\ now = Begin /\ now \in Nat /\ stage = "load" /\ DeltaT \in Nat \ {0}
      /\ p \in Loaded /\ p \in Program /\ p \in variants /\ Offset \in [Loaded -> Int]
      /\ offset = Offset
      /\ step = [q \in Program |-> IF q \in Loaded THEN FirstStep(Plan[q], offset[q]) ELSE 1]
      /\ mySwitchCommand = [q \in Program |-> IF q \in variants THEN 1 ELSE 0]
      /\ lastSwitch = [q \in Actuated |-> [i \in DOMAIN Plan[q] |-> Begin]]
  BY LightsAssumption, DeltaTAssumption, Plans DEF Init
<1>2. /\ step[p] = FirstStep(Plan[p], offset[p]) /\ mySwitchCommand[p] = 1
      /\ offset[p] \in Int
  BY <1>1
<1>3. /\ Plan[p] \in Seq(Phase) /\ step[p] \in 1..Len(Plan[p])
      /\ DOMAIN Plan[p] = 1..Len(Plan[p])
  BY <1>1, <1>2, FirstStepType, Plans, LenProperties
<1>4. lastSwitch[p][step[p]] = now
  BY <1>1, <1>3
<1>5. Plan[p][step[p]].min \in Nat /\ Plan[p][step[p]].max \in Nat
  <2>1. Plan[p][step[p]] \in Phase
    BY <1>3, ElementOfSeq
  <2>2. QED  BY <2>1 DEF Phase
<1> DEFINE time == now + Plan[p][step[p]].min
<1>6. [command |-> Command(p, 1, time), time |-> time] \in events
  BY <1>1 DEF Init
<1>7. /\ time >= lastSwitch[p][step[p]] + Plan[p][step[p]].min /\ time >= now
      /\ Plan[p][step[p]].state \in Green =>
              time < lastSwitch[p][step[p]] + Plan[p][step[p]].max + DeltaT
  <2> DEFINE q == Plan[p][step[p]]
  <2>1. q.state \in Green => q.min <= q.max
    BY <1>3 DEF GreensBounded
  <2>2. q.min \in Nat /\ q.max \in Nat
    BY <1>5
  <2>3. time = now + q.min /\ lastSwitch[p][step[p]] = now
    BY <1>4
  <2> HIDE DEF q, time
  <2>4. time >= now + q.min /\ time >= now /\ (q.min <= q.max => time < now + q.max + DeltaT)
    <3>1. now \in Int /\ DeltaT \in Int /\ DeltaT > 0
      BY <1>1
    <3>2. QED  BY <2>2, <2>3, <3>1
  <2>5. QED  BY <2>1, <2>3, <2>4 DEF q
<1> HIDE DEF time
<1>8. IsCurrent([command |-> Command(p, 1, time), time |-> time], p)
  BY <1>2 DEF IsCurrent, Command
<1>9. QED  BY <1>1, <1>6, <1>7, <1>8 DEF OnGreen

(* A green phase of an actuated program that still lasts when the vehicles move has not
   reached its maximum. *)
GreensEnd ==
    stage = "move" /\ commands = 0 /\ waut.procedure # "GSP" =>
        \A p \in Actuated : NotReoffset(p) /\ plan[p][step[p]].state \in Green =>
            actDuration(p) < plan[p][step[p]].max + DeltaT

(* It follows from where the command of the program lies. *)
LEMMA OnGreenEnds ==
    ASSUME IInv, Undisturbed, Timed
    PROVE  GreensEnd
<1> SUFFICES ASSUME stage = "move", commands = 0, waut.procedure # "GSP", NEW p \in Actuated,
                    NotReoffset(p), plan[p][step[p]].state \in Green
             PROVE  actDuration(p) < plan[p][step[p]].max + DeltaT
  BY DEF GreensEnd
<1> DEFINE last == lastSwitch[p][step[p]]
           max == Plan[p][step[p]].max
<1>1. /\ plan[p] = Plan[p] /\ last \in Int /\ max \in Nat
      /\ now \in Nat /\ DeltaT \in Nat \ {0} /\ \A e \in events : e.time \in Int
  BY ActuatedTypes
<1>2. PICK e \in events : e.time >= now + DeltaT /\ e.time < last + max + DeltaT
  BY <1>1 DEF Timed, OnGreen
<1> HIDE DEF last, max
<1>3. now - last < max + DeltaT
  BY <1>1, <1>2
<1>4. QED  BY <1>1, <1>3 DEF actDuration, last, max

(* No step during the events ends a phase before its minimum, up to less than a step. *)
MinimumKept ==
    stage = "events" /\ commands = 0 /\ waut.procedure # "GSP" =>
        \A p \in Actuated :
            NotReoffset(p) /\ step'[p] # step[p] => actDuration(p) > plan[p][step[p]].min - DeltaT

(* So does the minimum. *)
LEMMA StepKeepsMinimum ==
    ASSUME IInv, MinsPositive, Undisturbed, Timed, [Next]_vars
    PROVE  MinimumKept
<1> SUFFICES ASSUME stage = "events", commands = 0, waut.procedure # "GSP",
                    NEW p \in Actuated, NotReoffset(p), step'[p] # step[p]
             PROVE  actDuration(p) > plan[p][step[p]].min - DeltaT
  BY DEF MinimumKept
<1> DEFINE last == lastSwitch[p][step[p]]
           min == Plan[p][step[p]].min
<1>1. /\ p \in Loaded /\ p \in variants /\ plan[p] = Plan[p] /\ last \in Int /\ min \in Nat
      /\ now \in Nat /\ DeltaT \in Nat \ {0} /\ \A e \in events : e.time \in Int
  BY ActuatedTypes
<1>2. commands' = 0
  BY DEF Next, vars, Terminated, Client, ClientMay, ChangeOffset, StartSimulation,
         SetPhaseDuration, SetPhaseIndex, SetProgram, SetState, SetCompleteProgram,
         StartEvents, ExecuteSwitch, ExecuteDescheduled, ExecuteWaut, EndEvents, Switch,
         GoOnWaiting, EndCheck, NextSimulationStep
<1>3. ~Switch /\ ~\E o \in NewOffsets : ChangeOffset(p, o)
  BY DEF ChangeOffset, Switch
<1>4. PICK e \in events : e.command.program = p /\ ExecuteSwitch(e)
  BY <1>1, <1>2, <1>3, Resting DEF Undisturbed
<1>5. PICK f \in events : IsCurrent(f, p) /\ f.time >= last + min
  BY DEF Timed, OnGreen
<1>6. IsCurrent(e, p) /\ e.time < now + DeltaT
  BY <1>1, <1>4, OwnSwitch
<1>7. e.time >= last + min /\ e.time \in Int
  BY <1>1, <1>5, <1>6, CurrentUnique
<1> HIDE DEF last, min
<1>8. now - last > min - DeltaT
  BY <1>1, <1>6, <1>7
<1>9. QED  BY <1>1, <1>8 DEF actDuration, last, min

(* Without a client, procedures that change phases and a new offset, a green phase of
   an actuated program lasts at least for its minimum and at most for its maximum
   duration, up to less than a step, whatever the detectors say. *)
THEOREM GreenKeptCorrect ==
    ASSUME MinsPositive, GreensBounded
    PROVE  Spec => GreenKept
<1>1. Init => IInv /\ Undisturbed /\ Timed
  BY InitHolds, InitPhased, InitTimed
<1>2. IInv /\ Undisturbed /\ Timed /\ [Next]_vars => (IInv /\ Undisturbed /\ Timed)'
  BY NextKeeps, StaysUndisturbed, StaysTimed
<1>3. IInv /\ Undisturbed /\ Timed => GreensEnd
  BY OnGreenEnds
<1>4. IInv /\ Undisturbed /\ Timed /\ [Next]_vars => [MinimumKept]_vars
  BY StepKeepsMinimum
<1>5. QED
  BY <1>1, <1>2, <1>3, <1>4, PTL DEF Spec, GreenKept, GreensEnd, MinimumKept

-----------------------------------------------------------------------------
(* Who waits for a GSP does not wait longer than a cycle. *)

(* A multiple of the step. *)
OnStep(x) == \E k \in Int : x = k * DeltaT

(* What the property asks of an offset and of the durations. *)
LEMMA Multiple ==
    ASSUME NEW x \in Int, x % DeltaT = 0
    PROVE  OnStep(x)
<1>1. PICK k \in Int : x % DeltaT = x - k * DeltaT
  BY Division, DeltaTAssumption
<1>2. k * DeltaT \in Int
  BY DeltaTAssumption
<1>3. x = k * DeltaT
  BY <1>1, <1>2
<1>4. QED  BY <1>3 DEF OnStep

(* Multiples remain multiples. *)
LEMMA Multiples ==
    ASSUME NEW x, NEW y, OnStep(x), OnStep(y)
    PROVE  /\ x \in Int /\ y \in Int
           /\ OnStep(x + y) /\ OnStep(x - y)
           /\ x < y => x + DeltaT <= y
<1>1. PICK k \in Int, m \in Int : x = k * DeltaT /\ y = m * DeltaT
  BY DEF OnStep
<1>2. /\ k * DeltaT \in Int /\ m * DeltaT \in Int /\ DeltaT \in Nat \ {0}
      /\ (k + m) * DeltaT = k * DeltaT + m * DeltaT
      /\ (k - m) * DeltaT = k * DeltaT - m * DeltaT
  BY DeltaTAssumption
<1>3. PICK u \in Int, v \in Int : u = k + m /\ v = k - m
  OBVIOUS
<1>4. x + y = u * DeltaT /\ x - y = v * DeltaT /\ x \in Int /\ y \in Int
  BY <1>1, <1>2, <1>3
<1>5. ASSUME x < y  PROVE x + DeltaT <= y
  <2>1. CASE m - k >= 1
    <3>1. (m - k) * DeltaT >= DeltaT /\ (m - k) * DeltaT = m * DeltaT - k * DeltaT
      BY <1>2, <2>1
    <3>2. QED  BY <1>1, <1>2, <3>1
  <2>2. CASE ~(m - k >= 1)
    <3>1. (k - m) * DeltaT >= 0
      BY <1>2, <2>2
    <3>2. QED  BY <1>1, <1>2, <1>5, <3>1
  <2>3. QED  BY <2>1, <2>2
<1>6. QED  BY <1>4, <1>5 DEF OnStep

(* Nothing and one step are multiples. *)
LEMMA NoneIsMultiple == OnStep(0) /\ OnStep(DeltaT)
<1>1. 0 = 0 * DeltaT /\ DeltaT = 1 * DeltaT /\ 0 \in Int /\ 1 \in Int
  BY DeltaTAssumption
<1>2. QED  BY <1>1 DEF OnStep

(* The product of an integer and a multiple. *)
LEMMA ManyMultiples ==
    ASSUME NEW x, OnStep(x), NEW n \in Int
    PROVE  OnStep(n * x)
<1>1. PICK k \in Int : x = k * DeltaT
  BY DEF OnStep
<1>2. PICK m \in Int : m = n * k
  OBVIOUS
<1>3. n * (k * DeltaT) = (n * k) * DeltaT
  BY DeltaTAssumption
<1>4. n * x = m * DeltaT
  BY <1>1, <1>2, <1>3
<1>5. QED  BY <1>4 DEF OnStep

(* If the step divides the phases, it divides their sums. *)
LEMMA SumsOnStep ==
    ASSUME NEW phases \in Seq(Phase), NEW i \in 1..(Len(phases) + 1),
           \A n \in 1..Len(phases) : OnStep(phases[n].duration)
    PROVE  OnStep(OffsetFromIndex(phases, i))
<1> DEFINE Off(n) == OffsetFromIndex(phases, n)
           Bad == {n \in Nat : n \in 1..(Len(phases) + 1) /\ ~OnStep(Off(n))}
<1>1. Len(phases) \in Nat
  BY LenProperties
<1> SUFFICES ASSUME Bad # {}  PROVE FALSE
  BY <1>1
<1>2. PICK m \in Bad : \A n \in Bad : m <= n
  BY LeastNumber
<1>3. m \in 1..(Len(phases) + 1) /\ m \in Nat /\ ~OnStep(Off(m))
  OBVIOUS
<1>4. m # 1
  BY <1>1, <1>3, SumStep, NoneIsMultiple
<1>5. /\ m - 1 \in 1..(Len(phases) + 1) /\ m - 1 \in 1..Len(phases) /\ m - 1 \in Nat
      /\ ~(m <= m - 1)
  BY <1>1, <1>3, <1>4
<1>6. m - 1 \notin Bad
  <2> HIDE DEF Bad
  <2>1. QED  BY <1>2, <1>5
<1>7. OnStep(Off(m - 1)) /\ OnStep(phases[m - 1].duration)
  BY <1>5, <1>6
<1>8. Off(m) = Off(m - 1) + phases[m - 1].duration
  BY <1>1, <1>3, <1>4, SumStep
<1> HIDE DEF Off
<1>9. QED  BY <1>3, <1>7, <1>8, Multiples

(* The steps meet the GSP of every fixed-time program whose phases they divide. *)
GSPsMet ==
    /\ Begin % DeltaT = 0
    /\ \A p \in Loaded \ Actuated :
          (\A i \in DOMAIN Plan[p] : Plan[p][i].duration % DeltaT = 0) =>
              GSP[p] < Cycle(Plan[p]) /\ GSP[p] % DeltaT = 0

(* The program is such a one. *)
Divided(p) == /\ OnStep(offset[p]) /\ OnStep(GSP[p])
              /\ GSP[p] \in Nat /\ GSP[p] < Cycle(Plan[p])
              /\ \A i \in 1..Len(Plan[p]) : OnStep(Plan[p][i].duration)

(* Where in its cycle a program is that switches at a time. *)
Position(p, time) == OffsetFromIndex(Plan[p], step[p] + 1) - (time - now)

(* It switches on time, at the time of a step that has not been yet, and in its cycle
   it is less than a cycle in front of its GSP. *)
Steady(p) ==
    \E e \in events :
        /\ IsCurrent(e, p) /\ e.command.assumed = e.time
        /\ OnStep(e.time) /\ e.time >= now
        /\ stage \in {"check", "move"} => e.time >= now + DeltaT
        /\ Position(p, e.time) > GSP[p] - Cycle(Plan[p])
Regular ==
    commands = 0 => OnStep(now) /\ \A p \in Loaded \ Actuated : Divided(p) => Steady(p)

(* Where a steady program is. *)
LEMMA SteadyPosition ==
    ASSUME IInv, Undisturbed, Regular, commands = 0, NEW p \in Loaded \ Actuated, Divided(p)
    PROVE  LET c == Cycle(Plan[p])
               x == ProgramTime(p)
           IN /\ c \in Nat \ {0} /\ x \in Int /\ OnStep(x) /\ OnStep(c) /\ OnStep(now)
              /\ GSP[p] - c < x /\ x <= c
              /\ x <= OffsetFromIndex(Plan[p], step[p] + 1)
              /\ stage \in {"check", "move"} => x < c
              /\ Wait(p) \in Nat /\ Wait(p) < c
              /\ x = Position(p, NextSwitchTime(p))
              /\ \E e \in events : /\ IsCurrent(e, p) /\ e.command.assumed = e.time
                                   /\ e.time = NextSwitchTime(p)
                                   /\ OnStep(e.time) /\ e.time >= now
                                   /\ stage \in {"check", "move"} => e.time >= now + DeltaT
<1> DEFINE ph == Plan[p]
           c == Cycle(ph)
           s == step[p]
           g == GSP[p]
           end == OffsetFromIndex(ph, s + 1)
           begin == OffsetFromIndex(ph, s)
           x == ProgramTime(p)
<1>1. /\ p \in variants /\ plan[p] = ph /\ ph \in Seq(Phase) /\ s \in 1..Len(ph)
      /\ now \in Nat /\ DeltaT \in Nat \ {0} /\ OnStep(now)
      /\ g \in Nat /\ g < c /\ OnStep(g)
  BY Plans, DeltaTAssumption DEF Undisturbed, IInv, Programs, Divided, Regular
<1>2. /\ begin \in Nat /\ end \in Nat /\ ph[s].duration \in Nat /\ c \in Nat \ {0}
      /\ end = begin + ph[s].duration /\ end <= c
  BY <1>1, PhasesFill
<1>3. OnStep(end) /\ OnStep(c)
  <2>1. Len(ph) \in Nat /\ s + 1 \in 1..(Len(ph) + 1) /\ Len(ph) + 1 \in 1..(Len(ph) + 1)
    BY <1>1, LenProperties
  <2>2. QED  BY <1>1, <2>1, SumsOnStep DEF Divided, Cycle
<1>4. PICK e \in events : /\ IsCurrent(e, p) /\ e.command.assumed = e.time
                          /\ OnStep(e.time) /\ e.time >= now
                          /\ stage \in {"check", "move"} => e.time >= now + DeltaT
                          /\ Position(p, e.time) > g - c
  BY DEF Regular, Steady
<1>5. NextSwitchTime(p) = e.time
  <2>1. PICK f \in events : IsCurrent(f, p) /\ NextSwitchTime(p) = f.command.assumed
    BY <1>1, NextSwitchType DEF IInv
  <2>2. f = e
    BY <1>1, <1>4, <2>1, CurrentUnique
  <2>3. QED  BY <1>4, <2>1, <2>2
<1>6. e.time \in Int
  BY <1>4, NoneIsMultiple, Multiples
<1>7. Position(p, e.time) = end - (e.time - now)
  BY DEF Position
<1>8. x = begin + (ph[s].duration - (e.time - now))
  BY <1>1, <1>5 DEF ProgramTime
<1> HIDE DEF ph, c, s, g, end, begin, x
<1>9. x = end - (e.time - now) /\ x \in Int
  <2> DEFINE d == ph[s].duration
  <2>1. /\ begin \in Int /\ d \in Int /\ end = begin + d /\ now \in Int /\ e.time \in Int
        /\ x = begin + (d - (e.time - now))
    BY <1>1, <1>2, <1>6, <1>8
  <2> HIDE DEF d
  <2>2. QED  BY <2>1
<1>10. OnStep(x)
  BY <1>1, <1>3, <1>4, <1>9, Multiples
<1>11. g - c < x /\ x <= end /\ x <= c /\ (stage \in {"check", "move"} => x < c)
  <2>1. /\ now \in Int /\ DeltaT \in Nat \ {0} /\ g \in Int /\ c \in Int /\ end \in Int
        /\ end <= c /\ e.time \in Int /\ e.time >= now /\ x = end - (e.time - now)
        /\ x > g - c
    BY <1>1, <1>2, <1>4, <1>6, <1>7, <1>9
  <2>2. QED  BY <1>4, <2>1
<1>12. Wait(p) = IF x <= g THEN g - x ELSE c + g - x
  BY DEF Wait, x, g, c, ph
<1>13. Wait(p) \in Nat /\ Wait(p) < c
  <2>1. g \in Nat /\ c \in Nat /\ g < c /\ x \in Int /\ g - c < x /\ x <= c
    BY <1>1, <1>2, <1>9, <1>11
  <2>2. QED  BY <1>12, <2>1
<1>14. x = Position(p, NextSwitchTime(p))
  BY <1>5, <1>7, <1>9
<1>15. QED
  BY <1>1, <1>2, <1>3, <1>4, <1>5, <1>9, <1>10, <1>11, <1>13, <1>14 DEF ph, c, s, g, end, x

(* The position of a program follows from when its command is executed. *)
Positioned ==
    \A p \in Loaded : \A e \in events :
        IsCurrent(e, p) /\ e.command.assumed = e.time =>
            /\ ProgramTime(p) = OffsetFromIndex(Plan[p], step[p] + 1) - (e.time - now)
            /\ e.time \in Int

(* It is so in every state. *)
LEMMA Positions == IInv /\ Undisturbed /\ commands = 0 => Positioned
<1> SUFFICES ASSUME IInv, Undisturbed, commands = 0, NEW p \in Loaded, NEW e \in events,
                    IsCurrent(e, p), e.command.assumed = e.time
             PROVE  /\ ProgramTime(p) = OffsetFromIndex(Plan[p], step[p] + 1) - (e.time - now)
                    /\ e.time \in Int
  BY DEF Positioned
<1> DEFINE ph == Plan[p]
           s == step[p]
           d == ph[s].duration
           begin == OffsetFromIndex(ph, s)
<1>1. /\ p \in variants /\ plan[p] = ph /\ ph \in Seq(Phase) /\ s \in 1..Len(ph)
      /\ now \in Nat
  BY Plans DEF Undisturbed, IInv, Programs
<1>2. /\ begin \in Int /\ d \in Int /\ OffsetFromIndex(ph, s + 1) = begin + d
  BY <1>1, PhasesFill
<1>3. NextSwitchTime(p) = e.time /\ e.time \in Int
  <2>1. PICK f \in events : IsCurrent(f, p) /\ NextSwitchTime(p) = f.command.assumed
    BY <1>1, NextSwitchType DEF IInv
  <2>2. f = e
    BY <1>1, <2>1, CurrentUnique
  <2>3. e.time \in Int
    BY DEF IInv, Commands, CommandsOf, Event
  <2>4. QED  BY <2>1, <2>2, <2>3
<1>4. ProgramTime(p) = begin + (d - (e.time - now))
  BY <1>1, <1>3 DEF ProgramTime
<1> HIDE DEF ph, s, d, begin
<1>5. ProgramTime(p) = (begin + d) - (e.time - now)
  BY <1>1, <1>2, <1>3, <1>4
<1>6. QED  BY <1>2, <1>3, <1>5 DEF ph, s

(* isPosAtGSP of such a program. *)
LEMMA AtGSP ==
    ASSUME NEW p \in Loaded, Divided(p)
    PROVE  isPosAtGSP(p) <=> ProgramTime(p) = GSP[p]
<1> DEFINE g == GSP[p]
           c == Cycle(Plan[p])
<1>1. g \in Nat /\ g < c /\ c \in Nat \ {0}
  BY Plans DEF Divided
<1>2. DefaultCycle(p) = c /\ GSPValue(p) = g
  <2>1. p # "off" /\ p # "online" /\ p # "new"
    BY LightsAssumption
  <2>2. QED  BY <2>1 DEF DefaultCycle, GSPValue
<1> HIDE DEF g, c
<1>3. 0 \in Int /\ g - 0 * c = g /\ g \in 0..(c - 1) /\ g \in Int
  BY <1>1
<1>4. g % c = g
  BY <1>1, <1>3, OneRemainder
<1>5. QED  BY <1>2, <1>4 DEF isPosAtGSP, g

(* The time goes on, or others do something. *)
LEMMA RestsSteady ==
    ASSUME IInv, IInv', Undisturbed, Undisturbed', Regular, [Next]_vars, commands' = 0,
           NEW p \in Loaded \ Actuated, Divided(p),
           Switch => waut.procedure # "GSP" \/ switched[at].to # p,
           ~\E o \in NewOffsets : ChangeOffset(p, o),
           ~\E e \in events : e.command.program = p /\ ExecuteSwitch(e)
    PROVE  /\ Divided(p)' /\ Steady(p)' /\ Wait(p)' \in Int
           /\ now' = now \/ ~isPosAtGSP(p) => now' + Wait(p)' = now + Wait(p)
<1> DEFINE c == Cycle(Plan[p])
           g == GSP[p]
           end == OffsetFromIndex(Plan[p], step[p] + 1)
           x == ProgramTime(p)
<1>1. /\ commands = 0 /\ commands \in Nat
      /\ now' = now \/ (now' = now + DeltaT /\ stage = "move" /\ stage' = "client")
      /\ stage' \in {"check", "move"} =>
            \/ stage \in {"check", "move"}
            \/ events' = events /\ \A e \in events : e.time >= now + DeltaT
  BY Clock DEF Undisturbed
<1>2. /\ step'[p] = step[p] /\ offset'[p] = offset[p]
      /\ \A f \in events : IsCurrent(f, p) => f \in events' /\ IsCurrent(f, p)'
  BY <1>1, Resting
<1>3. Divided(p)'
  BY <1>2 DEF Divided
<1>4. /\ c \in Nat \ {0} /\ x \in Int /\ OnStep(x) /\ g - c < x
      /\ stage \in {"check", "move"} => x < c
      /\ g \in Nat /\ g < c /\ OnStep(g)
  BY <1>1, SteadyPosition DEF Divided
<1>5. PICK e \in events : /\ IsCurrent(e, p) /\ e.command.assumed = e.time
                          /\ OnStep(e.time) /\ e.time >= now
                          /\ stage \in {"check", "move"} => e.time >= now + DeltaT
  BY <1>1, SteadyPosition
<1>6. e \in events' /\ IsCurrent(e, p)'
  BY <1>2, <1>5
<1>7. x = end - (e.time - now) /\ e.time \in Int
  BY <1>1, <1>5, Positions DEF Positioned
<1>8. (IInv /\ Undisturbed /\ commands = 0 => Positioned)'
  BY Positions, PTL
<1>9. ProgramTime(p)' = end - (e.time - now')
  BY <1>2, <1>5, <1>6, <1>8 DEF Positioned
<1>10. /\ now \in Nat /\ now' \in Nat /\ DeltaT \in Nat \ {0} /\ end \in Int
  <2>1. /\ now \in Nat /\ now' \in Nat /\ plan[p] = Plan[p] /\ Plan[p] \in Seq(Phase)
        /\ step[p] \in 1..Len(Plan[p])
    BY <1>1, Plans DEF IInv, Programs, Undisturbed
  <2>2. QED  BY <2>1, PhasesFill, DeltaTAssumption
<1>11. Position(p, e.time)' = end - (e.time - now')
  BY <1>2 DEF Position
<1>12. /\ Wait(p) = IF x <= g THEN g - x ELSE c + g - x
       /\ Wait(p)' = IF ProgramTime(p)' <= g THEN g - ProgramTime(p)'
                     ELSE c + g - ProgramTime(p)'
  BY DEF Wait
<1>13. isPosAtGSP(p) <=> x = g
  BY AtGSP
<1>14. x < g => x + DeltaT <= g
  BY <1>4, Multiples
<1> HIDE DEF c, g, end, x
<1>15. ProgramTime(p)' = x + (now' - now)
  BY <1>7, <1>9, <1>10
<1>16. Steady(p)'
  <2>1. e.time >= now' /\ (stage' \in {"check", "move"} => e.time >= now' + DeltaT)
    BY <1>1, <1>5, <1>7, <1>10
  <2>2. now' >= now
    BY <1>1, <1>10
  <2>3. Position(p, e.time)' > g - c
    BY <1>4, <1>7, <1>10, <1>11, <2>2
  <2>4. QED  BY <1>5, <1>6, <2>1, <2>3 DEF Steady, g, c
<1>17. ASSUME now' = now \/ x # g  PROVE now' + Wait(p)' = now + Wait(p)
  <2>1. CASE now' = now
    <3>1. ProgramTime(p)' = x
      BY <1>4, <1>10, <1>15, <2>1
    <3>2. QED  BY <1>12, <2>1, <3>1
  <2>2. CASE now' # now
    <3>1. now' = now + DeltaT /\ stage = "move"
      BY <1>1, <2>2
    <3>2. x # g /\ x < c
      BY <1>4, <1>17, <2>2, <3>1
    <3>3. ProgramTime(p)' = x + DeltaT
      BY <1>4, <1>10, <1>15, <3>1
    <3>4. CASE x < g
      <4>1. Wait(p) = g - x /\ Wait(p)' = g - (x + DeltaT)
        BY <1>4, <1>10, <1>12, <1>14, <3>3, <3>4
      <4>2. QED  BY <1>4, <1>10, <3>1, <4>1
    <3>5. CASE x > g
      <4>1. Wait(p) = c + g - x /\ Wait(p)' = c + g - (x + DeltaT)
        BY <1>4, <1>10, <1>12, <3>3, <3>5
      <4>2. QED  BY <1>4, <1>10, <3>1, <4>1
    <3>6. QED  BY <1>4, <3>2, <3>4, <3>5
  <2>3. QED  BY <2>1, <2>2
<1>18. Wait(p)' \in Int
  <2>1. ProgramTime(p)' \in Int
    BY <1>4, <1>10, <1>15
  <2>2. QED  BY <1>4, <1>12, <2>1
<1>19. QED  BY <1>3, <1>13, <1>16, <1>17, <1>18

(* It switches by itself. *)
LEMMA SwitchesSteady ==
    ASSUME IInv, IInv', MinsPositive, Undisturbed, Undisturbed', Regular, commands = 0,
           commands' = 0, NEW p \in Loaded \ Actuated, Divided(p), NEW e \in events,
           e.command.program = p, ExecuteSwitch(e)
    PROVE  /\ Divided(p)' /\ Steady(p)'
           /\ now' = now /\ Wait(p)' = Wait(p)
<1> DEFINE ph == Plan[p]
           s == step[p]
           c == Cycle(ph)
           g == GSP[p]
           x == ProgramTime(p)
           end == OffsetFromIndex(ph, s + 1)
<1>1. /\ IsCurrent(e, p) /\ e.time \in Int /\ e.time < now + DeltaT
      /\ stage = "events" /\ UNCHANGED <<now, stage, plan, offset>>
  BY OwnSwitch
<1>2. PICK o \in TrySwitch(p) :
        /\ step'[p] = o.step
        /\ \E f \in events' : /\ IsCurrent(f, p)' /\ f.time = e.time + o.returned
                              /\ f.command.assumed = e.command.assumed + o.returned
  <2>1. \E o \in TrySwitch(p) :
          /\ o.step \in 1..Len(plan[p]) /\ o.returned \in Nat \ {0}
          /\ step'[p] = o.step
          /\ p \in Actuated =>
                lastSwitch'[p] = IF o.begun THEN [lastSwitch[p] EXCEPT ![o.step] = now]
                                 ELSE lastSwitch[p]
          /\ \E f \in events' : /\ IsCurrent(f, p)' /\ f.time = e.time + o.returned
                                /\ f.command.assumed = e.command.assumed + o.returned
    BY OwnSwitch
  <2>2. QED  BY <2>1
<1>3. /\ p # "off" /\ p \in variants /\ plan[p] = ph /\ ph \in Seq(Phase)
      /\ Len(ph) \in Nat \ {0} /\ s \in 1..Len(ph) /\ now \in Nat /\ DeltaT \in Nat \ {0}
  BY LightsAssumption, DeltaTAssumption, Plans DEF Undisturbed, IInv, Programs
<1> DEFINE t == IF s = Len(ph) THEN 1 ELSE s + 1
           d == ph[t].duration
           begin == OffsetFromIndex(ph, t)
<1>4. NextStep(p) = t /\ t \in 1..Len(ph)
  BY <1>3, NextStepIs
<1>5. o.step = t /\ o.returned = d
  BY <1>2, <1>3, <1>4 DEF TrySwitch, TrySwitchSimple, Outcome
<1>6. /\ c \in Nat \ {0} /\ x \in Int /\ g \in Nat /\ g < c /\ g - c < x /\ OnStep(now)
  BY SteadyPosition DEF Divided
<1>7. PICK e0 \in events : /\ IsCurrent(e0, p) /\ e0.command.assumed = e0.time
                           /\ OnStep(e0.time) /\ e0.time >= now
  BY SteadyPosition
<1>8. e.command.assumed = e.time /\ OnStep(e.time) /\ e.time >= now
  BY <1>1, <1>3, <1>7, CurrentUnique
<1>9. e.time = now
  <2>1. ~(now < e.time)
    <3>1. now < e.time => now + DeltaT <= e.time
      BY <1>6, <1>8, Multiples
    <3>2. QED  BY <1>1, <1>3, <3>1
  <2>2. QED  BY <1>1, <1>3, <1>8, <2>1
<1>10. x = end - (e.time - now)
  BY <1>1, <1>8, Positions DEF Positioned
<1>11. /\ begin \in Nat /\ d \in Nat \ {0} /\ OffsetFromIndex(ph, t + 1) = begin + d
       /\ end \in Nat
  BY <1>3, <1>4, PhasesFill
<1>12. IF s = Len(ph) THEN begin = 0 /\ end = c ELSE begin = end
  <2>1. CASE s = Len(ph)
    <3>1. t = 1 /\ 1 \in 1..(Len(ph) + 1)
      BY <1>3, <2>1
    <3>2. begin = 0
      BY <1>3, <3>1, SumStep
    <3>3. end = c
      BY <2>1 DEF Cycle
    <3>4. QED  BY <2>1, <3>2, <3>3
  <2>2. QED  BY <2>1
<1>13. OnStep(d)
  BY <1>4 DEF Divided
<1>14. PICK f \in events' : /\ IsCurrent(f, p)' /\ f.time = e.time + d
                            /\ f.command.assumed = e.command.assumed + d
  BY <1>2, <1>5
<1>15. f.command.assumed = f.time /\ OnStep(f.time) /\ f.time = now + d
  BY <1>8, <1>9, <1>13, <1>14, Multiples
<1>16. (IInv /\ Undisturbed /\ commands = 0 => Positioned)'
  BY Positions, PTL
<1>17. ProgramTime(p)' = (begin + d) - (f.time - now')
  BY <1>2, <1>5, <1>11, <1>14, <1>15, <1>16 DEF Positioned
<1>18. Position(p, f.time)' = (begin + d) - (f.time - now')
  BY <1>2, <1>5, <1>11 DEF Position
<1>19. /\ Wait(p) = IF x <= g THEN g - x ELSE c + g - x
       /\ Wait(p)' = IF ProgramTime(p)' <= g THEN g - ProgramTime(p)'
                     ELSE c + g - ProgramTime(p)'
  BY DEF Wait
<1>20. Divided(p)'
  BY <1>1 DEF Divided
<1> HIDE DEF x, c, g, end, begin, d, t, s, ph
<1>21. ProgramTime(p)' = begin /\ Position(p, f.time)' = begin /\ x = end
  BY <1>1, <1>3, <1>6, <1>9, <1>10, <1>11, <1>15, <1>17, <1>18
<1>22. begin > g - c /\ Wait(p)' = Wait(p)
  <2>1. CASE begin = end
    BY <1>6, <1>19, <1>21, <2>1
  <2>2. CASE begin = 0 /\ end = c
    <3>1. Wait(p) = c + g - c /\ Wait(p)' = g - 0
      BY <1>6, <1>19, <1>21, <2>2
    <3>2. QED  BY <1>6, <2>2, <3>1
  <2>3. QED  BY <1>12, <2>1, <2>2
<1>23. f.time >= now' /\ stage' \notin {"check", "move"}
  BY <1>1, <1>3, <1>11, <1>15
<1>24. Steady(p)'
  BY <1>14, <1>15, <1>21, <1>22, <1>23 DEF Steady, g, c, ph
<1>25. QED  BY <1>1, <1>20, <1>22, <1>24

(* Where a program is started, it switches at the time of a step. *)
LEMMA StartOnStep ==
    ASSUME now \in Nat, OnStep(now), NEW p \in Loaded, NEW o \in Int, OnStep(o),
           \A n \in 1..Len(Plan[p]) : OnStep(Plan[p][n].duration)
    PROVE  LET left == LeftDuration(Plan[p], o)
           IN /\ left \in Nat \ {0} /\ OnStep(now + left)
              /\ OffsetFromIndex(Plan[p], FirstStep(Plan[p], o) + 1) - left >= 0
<1> DEFINE ph == Plan[p]
           a == Advance(ph, o)
           s == FirstStep(ph, o)
           c == Cycle(ph)
           end == OffsetFromIndex(ph, s + 1)
           left == LeftDuration(ph, o)
<1>1. /\ ph \in Seq(Phase) /\ Len(ph) # 0 /\ s \in 1..Len(ph) /\ a < end
  BY Plans, StartPhase
<1>2. end \in Nat /\ c \in Nat \ {0}
  BY <1>1, PhasesFill
<1>3. a \in 0..(c - 1) /\ \E k \in Int : a = now - o + k * c
  BY <1>2, AdvanceIs
<1>4. OnStep(end) /\ OnStep(c)
  <2>1. Len(ph) \in Nat /\ s + 1 \in 1..(Len(ph) + 1) /\ Len(ph) + 1 \in 1..(Len(ph) + 1)
    BY <1>1, LenProperties
  <2>2. QED  BY <1>1, <2>1, SumsOnStep DEF Cycle
<1>5. left = end - a
  BY DEF LeftDuration
<1> HIDE DEF ph, a, s, c, end, left
<1>6. PICK k \in Int : a = now - o + k * c
  BY <1>3
<1>7. OnStep(k * c)
  BY <1>4, ManyMultiples
<1>8. OnStep(now - o)
  BY Multiples
<1>9. OnStep(a)
  BY <1>6, <1>7, <1>8, Multiples
<1>10. OnStep(left)
  BY <1>4, <1>5, <1>9, Multiples
<1>11. OnStep(now + left)
  BY <1>10, Multiples
<1>12. left \in Nat \ {0} /\ end - left >= 0
  BY <1>1, <1>2, <1>3, <1>5
<1>13. QED  BY <1>11, <1>12 DEF ph, s, end, left

(* A file gives it a new offset. *)
LEMMA ReloadedSteady ==
    ASSUME IInv, Undisturbed, Regular, commands = 0, NEW p \in Loaded \ Actuated,
           NEW o \in NewOffsets, ChangeOffset(p, o), Divided(p)'
    PROVE  Steady(p)'
<1> DEFINE left == LeftDuration(Plan[p], o)
           s == FirstStep(Plan[p], o)
           end == OffsetFromIndex(Plan[p], s + 1)
           g == GSP[p]
           c == Cycle(Plan[p])
<1>1. /\ o \in Int /\ UNCHANGED <<now, stage>> /\ stage = "load"
      /\ offset' = [offset EXCEPT ![p] = o] /\ step'[p] = s
      /\ \E f \in events' : /\ IsCurrent(f, p)' /\ f.time = now + left
                            /\ f.command.assumed = now + left
  BY OwnOffset
<1>2. offset'[p] = o /\ now \in Nat /\ OnStep(now)
  BY <1>1 DEF Undisturbed, IInv, Programs, Regular
<1>3. /\ OnStep(o) /\ g \in Nat /\ g < c
      /\ \A n \in 1..Len(Plan[p]) : OnStep(Plan[p][n].duration)
  BY <1>2 DEF Divided
<1>4. left \in Nat \ {0} /\ OnStep(now + left) /\ end - left >= 0
  BY <1>1, <1>2, <1>3, StartOnStep
<1>5. PICK f \in events' : /\ IsCurrent(f, p)' /\ f.time = now + left
                           /\ f.command.assumed = now + left
  BY <1>1
<1>6. Position(p, f.time)' = end - (f.time - now)
  BY <1>1 DEF Position
<1>7. c \in Nat /\ end \in Nat
  <2>1. /\ Plan[p] \in Seq(Phase) /\ Len(Plan[p]) # 0
    BY Plans
  <2>2. s \in 1..Len(Plan[p])
    BY <1>1, <1>2, <2>1, StartPhase
  <2>3. QED  BY <2>1, <2>2, PhasesFill
<1> HIDE DEF left, s, end, g, c
<1>8. Position(p, f.time)' > g - c /\ f.time >= now /\ OnStep(f.time)
  BY <1>2, <1>3, <1>4, <1>5, <1>6, <1>7
<1>9. QED  BY <1>1, <1>5, <1>8 DEF Steady, g, c

(* It is switched to. *)
LEMMA ProcedureSteady ==
    ASSUME IInv, IInv', Undisturbed, Undisturbed', Regular, commands = 0, commands' = 0,
           NEW p \in Loaded \ Actuated, Divided(p), Switch, waut.procedure = "GSP",
           switched[at].to = p
    PROVE  /\ Divided(p)' /\ Steady(p)'
           /\ now' = now /\ Wait(p)' \in Nat /\ Wait(p)' <= Wait(p)
<1> DEFINE ph == Plan[p]
           c == Cycle(ph)
           g == GSP[p]
           s == IndexFromOffset(ph, c, g)
           end == OffsetFromIndex(ph, s + 1)
           rest == end - g
<1>1. /\ p # "off" /\ p \in variants /\ plan[p] = ph /\ ph \in Seq(Phase)
      /\ UNCHANGED <<now, stage, offset>> /\ stage = "check" /\ now \in Nat
      /\ switchToPos(p) \/ adaptLogic(p)
  BY LightsAssumption, Plans DEF Undisturbed, IInv, Programs, Switch
<1>2. /\ c \in Nat \ {0} /\ g \in Nat /\ g < c /\ OnStep(g) /\ OnStep(c) /\ OnStep(now)
      /\ Wait(p) \in Nat /\ Wait(p) < c /\ OnStep(ProgramTime(p))
      /\ NextSwitchTime(p) >= now
  <2>1. g \in Nat /\ g < c /\ OnStep(g)
    BY DEF Divided
  <2>2. QED  BY <2>1, SteadyPosition
<1>3. /\ s \in 1..Len(ph) /\ rest \in Nat \ {0}
      /\ \E w \in {0, Wait(p)} : ChangeStepAndDuration(p, s, rest + w)
  BY <1>1, <1>2, GSPDurations
<1>4. PICK w \in {0, Wait(p)} : ChangeStepAndDuration(p, s, rest + w)
  BY <1>3
<1>5. OnStep(end) /\ end \in Nat
  <2>1. s + 1 \in 1..(Len(ph) + 1)
    BY <1>1, <1>3, LenProperties
  <2>2. QED  BY <1>1, <2>1, SumsOnStep, SumType DEF Divided
<1>6. Divided(p)'
  BY <1>1 DEF Divided
<1>7. OnStep(Wait(p))
  <2>1. OnStep(g - ProgramTime(p)) /\ OnStep(c + g)
    BY <1>2, Multiples
  <2>2. OnStep(c + g - ProgramTime(p))
    BY <1>2, <2>1, Multiples
  <2>3. QED  BY <2>1, <2>2 DEF Wait
<1>8. OnStep(w) /\ w \in Nat /\ w < c
  BY <1>2, <1>7, NoneIsMultiple
<1> HIDE DEF ph, c, g, s, end
<1>9. OnStep(rest)
  BY <1>2, <1>5, Multiples
<1> HIDE DEF rest
<1>10. OnStep(rest + w)
  BY <1>8, <1>9, Multiples
<1>11. OnStep(now + (rest + w)) /\ rest + w \in Nat \ {0}
  BY <1>2, <1>3, <1>8, <1>10, Multiples
<1>12. /\ step'[p] = s
       /\ \E f \in events' : /\ IsCurrent(f, p)' /\ f.time = now + (rest + w)
                             /\ f.command.assumed = now + (rest + w)
  BY <1>1, <1>4, <1>11, OwnCommand
<1>13. PICK f \in events' : /\ IsCurrent(f, p)' /\ f.time = now + (rest + w)
                            /\ f.command.assumed = now + (rest + w)
  BY <1>12
<1>14. (IInv /\ Undisturbed /\ commands = 0 => Positioned)'
  BY Positions, PTL
<1>15. ProgramTime(p)' = end - (f.time - now)
  BY <1>1, <1>12, <1>13, <1>14 DEF Positioned, end, ph
<1>16. Position(p, f.time)' = end - (f.time - now)
  BY <1>1, <1>12 DEF Position, end, ph
<1>17. end - (f.time - now) = g - w
  BY <1>1, <1>2, <1>5, <1>8, <1>13, <1>3 DEF rest
<1>18. Wait(p)' = IF ProgramTime(p)' <= g THEN g - ProgramTime(p)'
                  ELSE c + g - ProgramTime(p)'
  BY DEF Wait, g, c, ph
<1>19. Wait(p)' = w
  BY <1>2, <1>8, <1>15, <1>17, <1>18
<1>20. Wait(p)' \in Nat /\ Wait(p)' <= Wait(p)
  BY <1>2, <1>8, <1>19
<1>21. f.time >= now + DeltaT
  <2>1. OnStep(f.time) /\ now < f.time
    BY <1>1, <1>11, <1>13
  <2>2. QED  BY <1>2, <2>1, Multiples
<1>22. f.time >= now
  BY <1>1, <1>11, <1>13
<1>23. Position(p, f.time)' > g - c
  BY <1>2, <1>8, <1>16, <1>17
<1>24. OnStep(f.time)
  BY <1>11, <1>13
<1>25. Steady(p)'
  BY <1>1, <1>13, <1>21, <1>22, <1>23, <1>24 DEF Steady, g, c, ph
<1>26. QED  BY <1>1, <1>6, <1>20, <1>25

(* Nobody but an additional file changes an offset. *)
LEMMA OffsetKept ==
    ASSUME Undisturbed, [Next]_vars, NEW p \in Loaded, ~\E o \in NewOffsets : ChangeOffset(p, o)
    PROVE  offset'[p] = offset[p]
<1>1. CASE \E q \in Loaded, o \in NewOffsets : ChangeOffset(q, o)
  BY <1>1 DEF ChangeOffset, Undisturbed
<1>2. CASE ~\E q \in Loaded, o \in NewOffsets : ChangeOffset(q, o)
  BY <1>2 DEF Next, vars, Terminated, Client, ClientMay, StartSimulation,
         SetPhaseDuration, SetPhaseIndex, SetProgram, SetState, SetCompleteProgram,
         StartEvents, ExecuteSwitch, ExecuteDescheduled, ExecuteWaut, EndEvents, Switch,
         GoOnWaiting, EndCheck, NextSimulationStep
<1>3. QED  BY <1>1, <1>2

(* Whatever happens, the time and what is left until the GSP do not add up to more
   than before, unless the time passes the GSP. *)
LEMMA StepWaits ==
    ASSUME IInv, IInv', MinsPositive, Undisturbed, Undisturbed', Regular, [Next]_vars,
           commands' = 0, NEW p \in Loaded \ Actuated, Divided(p),
           ~\E o \in NewOffsets : ChangeOffset(p, o)
    PROVE  /\ Divided(p)' /\ Steady(p)' /\ Wait(p)' \in Int
           /\ now' = now \/ ~isPosAtGSP(p) => now' + Wait(p)' <= now + Wait(p)
<1>1. commands = 0 /\ now \in Nat /\ Wait(p) \in Nat
  BY Clock, SteadyPosition DEF Undisturbed, IInv, Programs
<1>2. CASE \E e \in events : e.command.program = p /\ ExecuteSwitch(e)
  <2>1. Divided(p)' /\ Steady(p)' /\ now' = now /\ Wait(p)' = Wait(p)
    BY <1>1, <1>2, SwitchesSteady
  <2>2. QED  BY <1>1, <2>1
<1>3. CASE Switch /\ waut.procedure = "GSP" /\ switched[at].to = p
  <2>1. Divided(p)' /\ Steady(p)' /\ now' = now /\ Wait(p)' \in Nat /\ Wait(p)' <= Wait(p)
    BY <1>1, <1>3, ProcedureSteady
  <2>2. QED  BY <1>1, <2>1
<1>4. CASE /\ ~\E e \in events : e.command.program = p /\ ExecuteSwitch(e)
           /\ Switch => waut.procedure # "GSP" \/ switched[at].to # p
  <2>1. /\ Divided(p)' /\ Steady(p)' /\ Wait(p)' \in Int
        /\ now' = now \/ ~isPosAtGSP(p) => now' + Wait(p)' = now + Wait(p)
    BY <1>4, RestsSteady
  <2>2. now + Wait(p) \in Int
    BY <1>1
  <2>3. QED  BY <2>1, <2>2
<1>5. QED  BY <1>2, <1>3, <1>4

(* Every step keeps the fixed-time programs steady. *)
LEMMA StaysRegular ==
    ASSUME IInv, IInv', MinsPositive, Undisturbed, Undisturbed', Regular, [Next]_vars
    PROVE  Regular'
<1> SUFFICES ASSUME commands' = 0
             PROVE  OnStep(now)' /\ \A p \in Loaded \ Actuated : Divided(p)' => Steady(p)'
  BY DEF Regular
<1>1. commands = 0 /\ (now' = now \/ now' = now + DeltaT)
  BY Clock DEF Undisturbed
<1>2. OnStep(now)'
  <2>1. OnStep(now) /\ OnStep(now + DeltaT)
    BY <1>1, NoneIsMultiple, Multiples DEF Regular
  <2>2. CASE now' = now
    BY <2>1, <2>2 DEF OnStep
  <2>3. CASE now' = now + DeltaT
    BY <2>1, <2>3 DEF OnStep
  <2>4. QED  BY <1>1, <2>2, <2>3
<1>3. ASSUME NEW p \in Loaded \ Actuated, Divided(p)'  PROVE Steady(p)'
  <2>1. CASE \E o \in NewOffsets : ChangeOffset(p, o)
    BY <1>1, <1>3, <2>1, ReloadedSteady
  <2>2. CASE ~\E o \in NewOffsets : ChangeOffset(p, o)
    <3>1. offset'[p] = offset[p]
      BY <2>2, OffsetKept
    <3>2. Divided(p)
      BY <1>3, <3>1 DEF Divided
    <3>3. QED  BY <2>2, <3>2, StepWaits
  <2>3. QED  BY <2>1, <2>2
<1>4. QED  BY <1>2, <1>3

(* At the start. *)
LEMMA InitRegular ==
    ASSUME Init, GSPsMet
    PROVE  Regular
<1>1. /\ now = Begin /\ now \in Nat /\ stage = "load" /\ offset = Offset
      /\ Offset \in [Loaded -> Int] /\ Loaded \subseteq Program /\ Loaded \subseteq variants
      /\ step = [p \in Program |-> IF p \in Loaded THEN FirstStep(Plan[p], offset[p]) ELSE 1]
      /\ mySwitchCommand = [p \in Program |-> IF p \in variants THEN 1 ELSE 0]
  BY LightsAssumption, Plans DEF Init
<1>2. OnStep(now)
  BY <1>1, Multiple DEF GSPsMet
<1>3. ASSUME NEW p \in Loaded \ Actuated, Divided(p)  PROVE Steady(p)
  <2> DEFINE s == FirstStep(Plan[p], offset[p])
             left == LeftDuration(Plan[p], offset[p])
             end == OffsetFromIndex(Plan[p], s + 1)
             time == now + left
             N == [command |-> Command(p, 1, time), time |-> time]
  <2>1. step[p] = s /\ mySwitchCommand[p] = 1 /\ offset[p] \in Int
    BY <1>1
  <2>2. N \in events
    BY DEF Init
  <2>3. left \in Nat \ {0} /\ OnStep(time) /\ end - left >= 0
    BY <1>1, <1>2, <1>3, <2>1, StartOnStep DEF Divided
  <2>4. /\ N.time = time /\ N.command.assumed = time /\ IsCurrent(N, p)
    BY <2>1 DEF IsCurrent, Command
  <2>5. end \in Nat
    <3>1. s \in 1..Len(Plan[p]) /\ Plan[p] \in Seq(Phase)
      BY <1>1, <2>1, Plans, StartPhase
    <3>2. QED  BY <3>1, PhasesFill
  <2>6. GSP[p] \in Nat /\ Cycle(Plan[p]) \in Nat /\ GSP[p] < Cycle(Plan[p])
    BY <1>3, Plans DEF Divided
  <2>7. Position(p, time) = end - (time - now)
    BY <2>1 DEF Position
  <2> HIDE DEF N, end, left, s
  <2>8. time >= now /\ Position(p, time) > GSP[p] - Cycle(Plan[p])
    BY <1>1, <2>3, <2>5, <2>6, <2>7
  <2> HIDE DEF time
  <2>9. QED  BY <1>1, <2>2, <2>3, <2>4, <2>8 DEF Steady
<1>4. QED  BY <1>2, <1>3 DEF Regular

(* The command of the WAUT comes late by less than a step. *)
WautClose ==
    \A e \in events : IsWaut(e) =>
        /\ now <= e.time /\ e.time < Waut[index].when + DeltaT
        /\ stage \in {"check", "move"} => now + DeltaT <= e.time

(* Every step keeps it so. *)
LEMMA WautStaysClose ==
    ASSUME IInv, WautClose, [Next]_vars
    PROVE  WautClose'
<1>1. /\ now \in Nat /\ DeltaT \in Nat \ {0} /\ index \in 1..(Len(Waut) + 1) /\ waut \in Wauts
      /\ Len(Waut) \in Nat /\ \A e \in events : e.time \in Int
      /\ \A i \in 1..Len(Waut) : Waut[i].when \in Nat
  <2>1. /\ now \in Nat /\ DeltaT \in Nat \ {0} /\ index \in 1..(Len(Waut) + 1) /\ waut \in Wauts
        /\ Len(Waut) \in Nat /\ \A e \in events : e.time \in Int
    BY FirstSwitchIn, DeltaTAssumption DEF IInv, Programs, WautState, Commands, CommandsOf, Event
  <2>2. Waut \in Seq([when : Nat, to : Loaded \cup {"off"}])
    BY <2>1, LightsAssumption DEF Waut
  <2>3. \A i \in 1..Len(Waut) : Waut[i] \in [when : Nat, to : Loaded \cup {"off"}]
    BY <2>2, ElementOfSeq
  <2>4. QED  BY <2>1, <2>3
<1>2. CASE \E e \in events : ExecuteWaut(e)
  <2>1. PICK e \in events : ExecuteWaut(e)
    BY <1>2
  <2> DEFINE next == Waut[index + 1].when
  <2>2. /\ IsWaut(e) /\ e.time < now + DeltaT /\ stage = "events"
        /\ index' = index + 1 /\ UNCHANGED <<now, stage, waut>> /\ index <= Len(Waut)
    BY <2>1 DEF ExecuteWaut, IsWaut, WautCommand, IInv, WautQueue, IsNext, IsDue
  <2>3. \A f \in events : IsWaut(f) => f = e
    BY <2>2 DEF IInv, WautQueue
  <2>4. ASSUME NEW f \in events', IsWaut(f)
        PROVE  f.time = e.time + NextWautSwitch /\ ~(NextWautSwitch <= 0)
    <3>1. \/ events' = (events \ {e}) \cup Requeued(e, WautCommand, NextWautSwitch)
          \/ \E time : events' = ((events \ {e}) \cup Requeued(e, WautCommand, NextWautSwitch))
                                 \cup {[command |-> Command("off", 1, time), time |-> time]}
      BY <2>1 DEF ExecuteWaut, Instantiate, AddUnchanged
    <3>2. \A time : ~IsWaut([command |-> Command("off", 1, time), time |-> time])
      BY DEF IsWaut, Command
    <3>3. f \in Requeued(e, WautCommand, NextWautSwitch)
      BY <2>3, <2>4, <3>1, <3>2
    <3>4. QED  BY <3>3 DEF Requeued
  <2>5. ASSUME NEW f \in events', IsWaut(f)
        PROVE  now <= f.time /\ f.time < next + DeltaT /\ Waut'[index'].when = next
    <3>1. f.time = e.time + NextWautSwitch /\ ~(NextWautSwitch <= 0)
      BY <2>4, <2>5
    <3>2. index # Len(Waut) /\ NextWautSwitch = next - now
      BY <3>1 DEF NextWautSwitch
    <3>3. next \in Nat
      BY <1>1, <2>2, <3>2
    <3>4. Waut'[index'].when = next
      BY <2>2 DEF Waut
    <3>5. now <= e.time /\ e.time \in Int
      BY <1>1, <2>2 DEF WautClose
    <3> HIDE DEF next
    <3>6. QED  BY <1>1, <2>2, <3>1, <3>2, <3>3, <3>4, <3>5
  <2>6. QED  BY <2>2, <2>5 DEF WautClose, IsWaut
<1>3. CASE ~\E e \in events : ExecuteWaut(e)
  <2>1. /\ \A f : IsWaut(f) => (f \in events <=> f \in events')
        /\ UNCHANGED <<waut, index>>
    BY <1>3, WautCommandStays
  <2>2. \/ now' = now /\ (stage' \in {"check", "move"} => stage \in {"check", "move"})
        \/ now' = now /\ ~\E e \in events : IsDue(e)
        \/ now' = now + DeltaT /\ stage = "move" /\ stage' = "client"
    BY <1>3 DEF Next, vars, Terminated, Client, ClientMay, ChangeOffset, StartSimulation,
           SetPhaseDuration, SetPhaseIndex, SetProgram, SetState, SetCompleteProgram,
           StartEvents, ExecuteSwitch, ExecuteDescheduled, EndEvents, Switch, GoOnWaiting,
           EndCheck, NextSimulationStep
  <2>3. ASSUME NEW e \in events', IsWaut(e)
        PROVE  /\ now' <= e.time /\ e.time < Waut'[index'].when + DeltaT
               /\ stage' \in {"check", "move"} => now' + DeltaT <= e.time
    <3>1. /\ e \in events /\ e.time \in Int /\ now <= e.time
          /\ e.time < Waut[index].when + DeltaT
          /\ stage \in {"check", "move"} => now + DeltaT <= e.time
      BY <1>1, <2>1, <2>3 DEF WautClose
    <3>2. Waut'[index'] = Waut[index]
      BY <2>1 DEF Waut
    <3>3. QED  BY <1>1, <2>2, <3>1, <3>2 DEF IsDue
  <2>4. QED  BY <2>3 DEF WautClose, IsWaut
<1>4. QED  BY <1>2, <1>3

(* When the WAUT initiated the process at a place of the vector: they are in the order
   of their switches, and the last one was initiated last. *)
Initiated(k) == Waut[index - 1 - Len(switched) + k].when

(* Who waits is at the GSP of its program at the latest when the cycle that began with
   the switch is over; and when the vehicles move nobody is at its GSP. *)
InTimeAtGSP(k) ==
    LET from == switched[k].from
    IN from \in Loaded \ Actuated /\ Divided(from) =>
           now + Wait(from) < Initiated(k) + Cycle(Plan[from]) + DeltaT
Patient ==
    /\ stage = "load" => switched = <<>>
    /\ Len(switched) < index
    /\ commands = 0 /\ stage = "move" =>
          IF waut.procedure = "GSP"
          THEN \A k \in 1..Len(switched) : ~isPosAtGSP(switched[k].from)
          ELSE switched = <<>>
    /\ commands = 0 /\ waut.procedure = "GSP" => \A k \in 1..Len(switched) : InTimeAtGSP(k)

(* The times of the processes are those of switches of the WAUT. *)
LEMMA InitiatedType ==
    ASSUME IInv, Patient, NEW k \in 1..Len(switched)
    PROVE  /\ Initiated(k) \in Nat /\ index - 1 - Len(switched) + k \in Int
           /\ index \in Int /\ Len(switched) \in Nat
<1>1. /\ index \in 1..(Len(Waut) + 1) /\ Len(Waut) \in Nat /\ Len(switched) \in Nat
      /\ waut \in Wauts /\ Len(switched) < index
  BY FirstSwitchIn, Processes DEF IInv, WautState, Patient
<1>2. Waut \in Seq([when : Nat, to : Loaded \cup {"off"}])
  BY <1>1, LightsAssumption DEF Waut
<1> DEFINE i == index - 1 - Len(switched) + k
<1>3. i \in 1..Len(Waut) /\ i \in Int
  BY <1>1
<1> HIDE DEF i
<1>4. Waut[i] \in [when : Nat, to : Loaded \cup {"off"}]
  BY <1>2, <1>3, ElementOfSeq
<1>5. QED  BY <1>1, <1>3, <1>4 DEF Initiated, i

(* A process is initiated. *)
LEMMA InitiationPatient ==
    ASSUME IInv, IInv', MinsPositive, NeverOffAtGSP, Undisturbed, Undisturbed', Regular,
           Together, WautClose, Patient, NEW e \in events, ExecuteWaut(e), [Next]_vars
    PROVE  Patient'
<1> DEFINE n == Len(switched)
           proc == [from |-> active, to |-> Waut[index].to]
<1>1. /\ stage = "events" /\ UNCHANGED <<stage, now, waut, commands, offset>>
      /\ index' = index + 1 /\ switched' = Append(switched, proc)
      /\ IsWaut(e) /\ index \in Int /\ now \in Nat /\ DeltaT \in Nat \ {0} /\ n \in Nat
      /\ n < index
  BY Processes, DeltaTAssumption
     DEF ExecuteWaut, Pending, IsWaut, WautCommand, IInv, Programs, WautState, Patient
<1>2. /\ Len(switched') = n + 1 /\ switched'[n + 1] = proc
      /\ \A k \in 1..n : switched'[k] = switched[k]
  BY Processes, <1>1, AppendProperties
<1>3. /\ now < Waut[index].when + DeltaT /\ Waut[index].when \in Nat
  <2>1. now <= e.time /\ e.time < Waut[index].when + DeltaT /\ e.time \in Int
    BY <1>1 DEF WautClose, IInv, Commands, CommandsOf, Event
  <2>2. index \in 1..Len(Waut) /\ waut \in Wauts
    <3>1. index <= Len(Waut) /\ index \in 1..(Len(Waut) + 1) /\ waut \in Wauts
      BY <1>1 DEF IInv, WautQueue, WautState
    <3>2. Len(Waut) \in Nat
      BY <3>1, FirstSwitchIn
    <3>3. QED  BY <3>1, <3>2
  <2>3. Waut \in Seq([when : Nat, to : Loaded \cup {"off"}])
    BY <2>2, LightsAssumption DEF Waut
  <2>4. Waut[index] \in [when : Nat, to : Loaded \cup {"off"}]
    BY <2>2, <2>3, ElementOfSeq
  <2>5. QED  BY <1>1, <2>1, <2>4
<1>4. ASSUME commands = 0, waut.procedure = "GSP", NEW k \in 1..(n + 1)
      PROVE  InTimeAtGSP(k)'
  <2>1. PICK from : from = switched'[k].from
    OBVIOUS
  <2> SUFFICES ASSUME from \in Loaded \ Actuated, Divided(from)'
               PROVE  now' + Wait(from)' < Initiated(k)' + Cycle(Plan[from]) + DeltaT
    BY <2>1 DEF InTimeAtGSP
  <2>2. Divided(from) /\ ~\E o \in NewOffsets : ChangeOffset(from, o)
    BY <1>1 DEF Divided, ChangeOffset
  <2>3. now' + Wait(from)' <= now + Wait(from) /\ Wait(from)' \in Int
    BY <1>1, <1>4, <2>2, StepWaits
  <2>4. /\ Wait(from) \in Nat /\ Wait(from) < Cycle(Plan[from]) /\ Cycle(Plan[from]) \in Nat
    BY <1>4, <2>2, SteadyPosition
  <2>5. now' + Wait(from)' \in Int
    BY <1>1, <2>3
  <2>6. CASE k \in 1..n
    <3>1. now + Wait(from) < Initiated(k) + Cycle(Plan[from]) + DeltaT
      BY <1>2, <1>4, <2>1, <2>2, <2>6 DEF Patient, InTimeAtGSP
    <3>2. index' - 1 - Len(switched') + k = index - 1 - n + k
      BY <1>1, <1>2
    <3>3. Initiated(k)' = Initiated(k) /\ Initiated(k) \in Nat
      BY <1>1, <2>6, <3>2, InitiatedType DEF Initiated, Waut
    <3>4. /\ now + Wait(from) \in Int /\ DeltaT \in Int /\ Initiated(k) \in Int
          /\ Cycle(Plan[from]) \in Int
      BY <1>1, <2>4, <3>3
    <3>5. now' + Wait(from)' <= now + Wait(from)
      BY <2>3
    <3>6. now' + Wait(from)' < Initiated(k) + Cycle(Plan[from]) + DeltaT
      BY <2>5, <3>1, <3>4, <3>5
    <3>7. QED  BY <3>3, <3>6
  <2>7. CASE k = n + 1
    <3>1. index' - 1 - Len(switched') + k = index
      BY <1>1, <1>2, <2>7
    <3>2. Initiated(k)' = Waut[index].when
      BY <1>1, <3>1 DEF Initiated, Waut
    <3>3. now \in Nat /\ DeltaT \in Nat
      BY <1>1
    <3>4. now + Wait(from) < Waut[index].when + Cycle(Plan[from]) + DeltaT
      BY <1>3, <2>4, <3>3
    <3>5. now' + Wait(from)' <= now + Wait(from)
      BY <2>3
    <3>6. /\ now + Wait(from) \in Int /\ DeltaT \in Int /\ Waut[index].when \in Int
          /\ Cycle(Plan[from]) \in Int
      BY <1>3, <2>4, <3>3
    <3>7. now' + Wait(from)' < Waut[index].when + Cycle(Plan[from]) + DeltaT
      BY <2>5, <3>4, <3>5, <3>6
    <3>8. QED  BY <3>2, <3>7
  <2>8. k \in 1..n \/ k = n + 1
    BY <1>1
  <2>9. QED  BY <2>6, <2>7, <2>8
<1>5. Len(switched') < index'
  BY <1>1, <1>2
<1>6. QED  BY <1>1, <1>2, <1>4, <1>5 DEF Patient

(* A process ends. *)
LEMMA EndingPatient ==
    ASSUME IInv, IInv', MinsPositive, Undisturbed, Undisturbed', Regular, Together, Patient,
           Switch, [Next]_vars
    PROVE  Patient'
<1> DEFINE n == Len(switched)
<1>1. /\ stage = "check" /\ UNCHANGED <<stage, now, waut, index, commands, offset, at>>
      /\ at \in 1..n /\ n \in Nat /\ now \in Nat /\ DeltaT \in Nat /\ index \in Int
      /\ MaySwitch(switched[at]) /\ switched' = RemoveAt(switched, at) /\ n < index
  <2>1. /\ n \in Nat /\ now \in Nat /\ DeltaT \in Nat /\ index \in Int /\ n < index
        /\ at \in Nat \ {0}
    BY Processes, DeltaTAssumption DEF IInv, Programs, WautState, Patient
  <2>2. /\ stage = "check" /\ UNCHANGED <<stage, now, waut, index, commands, offset, at>>
        /\ at <= n
        /\ MaySwitch(switched[at]) /\ switched' = RemoveAt(switched, at)
    BY DEF Switch
  <2>3. QED  BY <2>1, <2>2
<1>2. /\ Len(switched') = n - 1
      /\ \A k \in 1..(n - 1) : switched'[k] = IF k < at THEN switched[k] ELSE switched[k + 1]
  <2>1. switched \in Seq([from : variants, to : Targets])
    BY Processes
  <2>2. /\ Len(RemoveAt(switched, at)) = n - 1
        /\ \A k \in 1..(n - 1) :
              RemoveAt(switched, at)[k] = IF k < at THEN switched[k] ELSE switched[k + 1]
    BY <1>1, <2>1, RemoveAtIndex
  <2>3. QED  BY <1>1, <2>2
<1>3. ASSUME commands = 0, waut.procedure = "GSP", NEW k \in 1..(n - 1)
      PROVE  InTimeAtGSP(k)'
  <2>1. at = 1
    <3>1. isPosAtGSP(switched[at].from)
      BY <1>1, <1>3 DEF MaySwitch
    <3>2. ~(at > 1)
      BY <1>1, <1>3, <3>1 DEF Together
    <3>3. QED  BY <1>1, <3>2
  <2>2. switched'[k] = switched[k + 1] /\ k + 1 \in 1..n
    BY <1>1, <1>2, <2>1
  <2>3. PICK from : from = switched'[k].from
    OBVIOUS
  <2> SUFFICES ASSUME from \in Loaded \ Actuated, Divided(from)'
               PROVE  now' + Wait(from)' < Initiated(k)' + Cycle(Plan[from]) + DeltaT
    BY <2>3 DEF InTimeAtGSP
  <2>4. Divided(from) /\ ~\E o \in NewOffsets : ChangeOffset(from, o)
    BY <1>1 DEF Divided, ChangeOffset
  <2>5. now' + Wait(from)' <= now + Wait(from) /\ Wait(from)' \in Int
    BY <1>1, <1>3, <2>4, StepWaits
  <2>6. Wait(from) \in Nat /\ Cycle(Plan[from]) \in Nat
    BY <1>3, <2>4, SteadyPosition
  <2>7. now + Wait(from) < Initiated(k + 1) + Cycle(Plan[from]) + DeltaT
    BY <1>3, <2>2, <2>3, <2>4 DEF Patient, InTimeAtGSP
  <2>8. index' - 1 - Len(switched') + k = index - 1 - n + (k + 1)
    BY <1>1, <1>2
  <2>9. Initiated(k)' = Initiated(k + 1) /\ Initiated(k + 1) \in Nat
    BY <1>1, <2>2, <2>8, InitiatedType DEF Initiated, Waut
  <2>10. QED  BY <1>1, <2>5, <2>6, <2>7, <2>9
<1>4. Len(switched') < index'
  BY <1>1, <1>2
<1>5. QED  BY <1>1, <1>2, <1>3, <1>4 DEF Patient

(* What becomes of the stages. *)
LEMMA Stages ==
    ASSUME [Next]_vars
    PROVE  /\ stage' = "load" => stage = "load" /\ switched' = switched
           /\ stage' = "move" => EndCheck \/ UNCHANGED vars
           /\ ~Switch /\ (~\E e \in events : ExecuteWaut(e)) => UNCHANGED <<switched, index>>
<1>1. CASE Client
  BY <1>1 DEF Client, ClientMay, SetPhaseDuration, SetPhaseIndex, SetProgram, SetState,
              SetCompleteProgram, wautVars
<1>2. CASE \/ StartSimulation \/ StartEvents \/ EndEvents \/ GoOnWaiting \/ EndCheck \/ Switch
           \/ NextSimulationStep \/ UNCHANGED vars
  BY <1>2 DEF StartSimulation, StartEvents, EndEvents, Switch, GoOnWaiting, EndCheck,
              NextSimulationStep, wautVars, vars
<1>3. CASE \E p \in Loaded, o \in NewOffsets : ChangeOffset(p, o)
  BY <1>3 DEF ChangeOffset, wautVars
<1>4. CASE \E e \in events : ExecuteSwitch(e) \/ ExecuteDescheduled(e) \/ ExecuteWaut(e)
  BY <1>4 DEF ExecuteSwitch, ExecuteDescheduled, ExecuteWaut, wautVars
<1>5. QED  BY <1>1, <1>2, <1>3, <1>4 DEF Next, Terminated

(* Every other step. *)
LEMMA RestPatient ==
    ASSUME IInv, IInv', MinsPositive, Undisturbed, Undisturbed', Regular, Together, Patient,
           [Next]_vars, ~Switch, ~\E e \in events : ExecuteWaut(e)
    PROVE  Patient'
<1>1. UNCHANGED <<switched, index>>
  BY Stages
<1>2. stage' = "load" => switched' = <<>>
  BY Stages DEF Patient
<1>3. Len(switched') < index'
  BY <1>1 DEF Patient
<1>4. ASSUME commands' = 0, stage' = "move"
      PROVE  IF waut'.procedure = "GSP"
             THEN \A k \in 1..Len(switched') : ~isPosAtGSP(switched[k].from)'
             ELSE switched' = <<>>
  <2>1. commands = 0 /\ waut' = waut
    BY <1>4, Clock DEF Undisturbed
  <2>2. EndCheck \/ UNCHANGED vars
    BY <1>4, Stages
  <2>3. \A p : isPosAtGSP(p)' <=> isPosAtGSP(p)
    BY <2>2 DEF EndCheck, vars, isPosAtGSP, ProgramTime, NextSwitchTime, IsCurrent, programVars
  <2>4. CASE EndCheck
    <3>1. /\ stage = "check" /\ at > Len(switched) /\ Len(switched) \in Nat /\ at \in Nat \ {0}
          /\ switched = <<>> <=> Len(switched) = 0
      BY <2>4, Processes DEF EndCheck
    <3>2. CASE waut.procedure = "GSP"
      <4>1. at > 1 \/ Len(switched) = 0
        BY <3>1
      <4>2. \A k \in 1..Len(switched) : ~isPosAtGSP(switched[k].from)
        BY <2>1, <3>1, <3>2, <4>1 DEF Together
      <4>3. QED  BY <1>1, <2>1, <2>3, <3>2, <4>2
    <3>3. CASE waut.procedure # "GSP"
      <4>1. at = 1
        BY <3>1, <3>3 DEF Together
      <4>2. Len(switched) = 0
        BY <3>1, <4>1
      <4>3. QED  BY <1>1, <2>1, <3>1, <3>3, <4>2
    <3>4. QED  BY <3>2, <3>3
  <2>5. CASE UNCHANGED vars
    <3>1. stage = "move"
      BY <1>4, <2>5 DEF vars
    <3>2. QED  BY <1>1, <2>1, <2>3, <3>1 DEF Patient
  <2>6. QED  BY <2>2, <2>4, <2>5
<1>5. ASSUME commands' = 0, waut'.procedure = "GSP", NEW k \in 1..Len(switched)
      PROVE  InTimeAtGSP(k)'
  <2>1. PICK from : from = switched[k].from
    OBVIOUS
  <2> SUFFICES ASSUME from \in Loaded \ Actuated, Divided(from)'
               PROVE  now' + Wait(from)' < Initiated(k)' + Cycle(Plan[from]) + DeltaT
    BY <1>1, <2>1 DEF InTimeAtGSP
  <2>2. /\ commands = 0 /\ waut' = waut
        /\ now' = now \/ stage = "move"
    BY <1>5, Clock DEF Undisturbed
  <2>3. ~\E o \in NewOffsets : ChangeOffset(from, o)
    <3>1. stage # "load"
      BY <1>5, EmptySeq, Processes DEF Patient
    <3>2. QED  BY <3>1 DEF ChangeOffset
  <2>4. Divided(from)
    <3>1. offset'[from] = offset[from]
      BY <2>3, OffsetKept
    <3>2. QED  BY <3>1 DEF Divided
  <2>5. now' = now \/ ~isPosAtGSP(from)
    BY <1>5, <2>1, <2>2 DEF Patient
  <2>6. now' + Wait(from)' <= now + Wait(from) /\ Wait(from)' \in Int
    BY <1>5, <2>3, <2>4, <2>5, StepWaits
  <2>7. now + Wait(from) < Initiated(k) + Cycle(Plan[from]) + DeltaT
    BY <1>5, <2>1, <2>2, <2>4 DEF Patient, InTimeAtGSP
  <2>8. /\ Wait(from) \in Nat /\ Cycle(Plan[from]) \in Nat /\ now \in Nat /\ now' \in Nat
        /\ DeltaT \in Nat /\ Initiated(k) \in Nat /\ Initiated(k)' = Initiated(k)
    <3>1. Initiated(k)' = Initiated(k)
      BY <1>1, <2>2 DEF Initiated, Waut
    <3>2. Wait(from) \in Nat /\ Cycle(Plan[from]) \in Nat
      BY <2>2, <2>4, SteadyPosition
    <3>3. QED  BY <3>1, <3>2, InitiatedType, DeltaTAssumption DEF IInv, Programs
  <2>9. QED  BY <2>6, <2>7, <2>8
<1>6. QED  BY <1>1, <1>2, <1>3, <1>4, <1>5 DEF Patient

(* A process waits for the GSP of a fixed-time program for at most a cycle, however
   often the WAUT switches meanwhile. *)
THEOREM WautWaitsOneCycleCorrect ==
    ASSUME MinsPositive, NeverOffAtGSP, GSPsMet
    PROVE  Spec => []WautWaitsOneCycle
<1> DEFINE Sound == /\ Undisturbed /\ Obeying /\ Together /\ Regular
                    /\ WautClose /\ Patient
<1>1. Init => IInv /\ Sound
  <2> SUFFICES ASSUME Init  PROVE IInv /\ Sound
    OBVIOUS
  <2>1. IInv
    BY InitHolds
  <2>2. Undisturbed /\ Obeying /\ Together /\ Regular
    BY InitPhased, InitObeys, InitRegular
  <2>3. WautClose
    <3>1. waut \in Wauts /\ now = Begin /\ stage = "load" /\ Begin \in Nat /\ DeltaT \in Nat \ {0}
      BY LightsAssumption, DeltaTAssumption DEF Init
    <3>2. ASSUME NEW e \in events, IsWaut(e)
          PROVE  now <= e.time /\ e.time < Waut[index].when + DeltaT
      <4>1. /\ FirstSwitch \in FutureSwitches /\ e.time = Waut[FirstSwitch].when
            /\ index = FirstSwitch
        BY <3>2, FirstCommand DEF Init
      <4>2. Waut[FirstSwitch].when \in Nat /\ Waut[FirstSwitch].when > Begin
        BY <3>1, <4>1, FirstSwitchIn DEF FutureSwitches
      <4>3. QED  BY <3>1, <4>1, <4>2
    <3>3. QED  BY <3>1, <3>2 DEF WautClose
  <2>4. Patient
    <3>1. switched = <<>> /\ Len(switched) = 0 /\ stage = "load"
      BY EmptySeq DEF Init
    <3>2. index \in 1..(Len(Waut) + 1) /\ Len(Waut) \in Nat
      BY <2>1, FirstSwitchIn DEF IInv, WautState
    <3>3. QED  BY <3>1, <3>2 DEF Patient
  <2>5. QED  BY <2>1, <2>2, <2>3, <2>4
<1>2. IInv /\ Sound /\ [Next]_vars => (IInv /\ Sound)'
  <2> SUFFICES ASSUME IInv, Sound, [Next]_vars  PROVE (IInv /\ Sound)'
    OBVIOUS
  <2>1. IInv' /\ Undisturbed'
    BY NextKeeps, StaysUndisturbed
  <2>2. Obeying' /\ Together'
    BY InitiationObeys, EndingObeys, RestObeys DEF Undisturbed
  <2>3. Regular' /\ WautClose'
    BY <2>1, StaysRegular, WautStaysClose
  <2>4. Patient'
    BY <2>1, InitiationPatient, EndingPatient, RestPatient
  <2>5. QED  BY <2>1, <2>2, <2>3, <2>4
<1>3. IInv /\ Sound => WautWaitsOneCycle
  <2> SUFFICES ASSUME IInv, Sound, stage = "move", commands = 0, NEW k \in DOMAIN switched,
                      NEW from, from = switched[k].from,
                      from \in Loaded \ Actuated, offset[from] % DeltaT = 0,
                      \A i \in DOMAIN plan[from] : plan[from][i].duration % DeltaT = 0
               PROVE  now - Initiated(k) < DefaultCycle(from) + DeltaT
    BY DEF WautWaitsOneCycle, Initiated
  <2>1. k \in 1..Len(switched) /\ switched # <<>>
    BY Processes, EmptySeq
  <2>2. waut.procedure = "GSP"
    BY <2>1 DEF Patient
  <2>3. Divided(from)
    <3>1. plan[from] = Plan[from] /\ offset[from] \in Int /\ Plan[from] \in Seq(Phase)
          /\ GSP[from] \in Nat
      BY Plans, LightsAssumption DEF Undisturbed
    <3>2. DOMAIN Plan[from] = 1..Len(Plan[from])
          /\ \A i \in 1..Len(Plan[from]) : Plan[from][i].duration \in Int
      BY <3>1, LenProperties, PhasesFill
    <3>3. GSP[from] < Cycle(Plan[from]) /\ GSP[from] % DeltaT = 0
      BY <3>1 DEF GSPsMet
    <3>4. \A i \in 1..Len(Plan[from]) : OnStep(Plan[from][i].duration)
      BY <3>1, <3>2, Multiple
    <3>5. OnStep(offset[from]) /\ OnStep(GSP[from])
      BY <3>1, <3>3, Multiple
    <3>6. QED  BY <3>1, <3>3, <3>4, <3>5 DEF Divided
  <2>4. now + Wait(from) < Initiated(k) + Cycle(Plan[from]) + DeltaT
    BY <2>1, <2>2, <2>3 DEF Patient, InTimeAtGSP
  <2>5. /\ Wait(from) \in Nat /\ Cycle(Plan[from]) \in Nat /\ now \in Nat /\ DeltaT \in Nat
        /\ Initiated(k) \in Nat
    BY <2>1, <2>3, SteadyPosition, InitiatedType, DeltaTAssumption DEF IInv, Programs
  <2>6. DefaultCycle(from) = Cycle(Plan[from])
    <3>1. from # "off" /\ from # "online" /\ from # "new"
      BY LightsAssumption
    <3>2. QED  BY <3>1 DEF DefaultCycle
  <2>7. QED  BY <2>4, <2>5, <2>6
<1>4. QED  BY <1>1, <1>2, <1>3, PTL DEF Spec
=============================================================================
