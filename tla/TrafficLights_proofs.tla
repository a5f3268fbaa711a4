------------------------- MODULE TrafficLights_proofs -------------------------
(***************************************************************************)
(* Theorems about TrafficLights for every set of programs, every WAUT,     *)
(* every length of a step and every behaviour of the client.               *)
(***************************************************************************)
EXTENDS TrafficLights, SequenceLemmas, TLAPS

-----------------------------------------------------------------------------
(* The inductive invariant, in parts. *)

Targets == variants \cap (Loaded \cup {"off"})

(* The programs and their phases. *)
Programs ==
    /\ now \in Nat /\ stage \in {"load", "client", "events", "check", "move"}
    /\ Loaded \subseteq variants /\ variants \subseteq Program /\ active \in variants
    /\ plan \in [Program -> Seq(Phase)] /\ step \in [Program -> Nat]
    /\ mySwitchCommand \in [Program -> Nat]
    /\ \A p \in variants : step[p] \in 1..Len(plan[p])
    /\ \A p \in Loaded : plan[p] \in {Plan[p], NewPlan}
    /\ stage = "load" => \A p \in Loaded : plan[p] = Plan[p]
    /\ "online" \in variants => Len(plan["online"]) = 1
    /\ DOMAIN lastSwitch = Actuated
    /\ \A p \in Actuated : lastSwitch[p] \in [DOMAIN plan[p] -> Int]

(* The queue: of every program one command is valid, its latest. *)
Event == [command : [program : Program \cup {"waut"}, number : Nat,
                     valid : BOOLEAN, assumed : Int],
          time : Int]
Known(e) ==
    LET c == e.command
    IN /\ c.program \in variants \cup {"waut"}
       /\ c.program \in variants => /\ c.number <= mySwitchCommand[c.program]
                                    /\ c.valid <=> c.number = mySwitchCommand[c.program]
OneCurrent(queue, p) == \E e \in queue : {f \in queue : IsCurrent(f, p)} = {e}
CommandsOf(queue) == /\ queue \subseteq Event
                     /\ \A e \in queue : Known(e)
                     /\ \A p \in variants : OneCurrent(queue, p)
Commands == CommandsOf(events)

(* The WAUT: its command is in the queue once, while it has a switch to do. *)
IsWaut(e) == e.command.program = "waut"
WautQueue ==
    /\ \A e \in events : IsWaut(e) => e.command = WautCommand /\ index <= Len(Waut)
    /\ \A e, f \in events : IsWaut(e) /\ IsWaut(f) => e = f
WautState ==
    /\ waut \in Wauts /\ index \in 1..(Len(Waut) + 1)
    /\ switched \in Seq([from : variants, to : Targets])
    /\ at \in Nat \ {0}

(* Phases of actuated programs have a minimum duration; without one trySwitch
   returns 0 and the command is deleted. *)
MinsPositive ==
    /\ \A p \in Actuated : \A i \in DOMAIN Plan[p] : Plan[p][i].min > 0
    /\ \A i \in DOMAIN NewPlan : NewPlan[i].min > 0
-----------------------------------------------------------------------------
(* Positions. *)

(* The least of a set of numbers. *)
LEMMA LeastIn ==
    ASSUME NEW S \in SUBSET Nat, S # {}
    PROVE  Min(S) \in S /\ \A n \in S : Min(S) <= n
  BY LeastNumber DEF Min

(* A remainder is less than what one divides by. *)
LEMMA Remainder ==
    ASSUME NEW x \in Int, NEW c \in Nat \ {0}
    PROVE  x % c \in 0..(c - 1)
  OBVIOUS

(* The sums getOffsetFromIndex computes exist: were there plans of some length for
   which they do not, take the least such length. *)
LEMMA SumsExist ==
    ASSUME NEW N \in Nat, NEW phases
    PROVE  \E before : before = [n \in 0..N |-> IF n = 0 THEN 0
                                               ELSE before[n - 1] + phases[n].duration]
<1> DEFINE IsSum(f, m) == f = [n \in 0..m |-> IF n = 0 THEN 0
                                             ELSE f[n - 1] + phases[n].duration]
           Bad == {m \in Nat : ~\E f : IsSum(f, m)}
<1> SUFFICES ASSUME Bad # {}  PROVE FALSE
  OBVIOUS
<1>1. PICK m \in Bad : \A n \in Bad : m <= n
  BY LeastNumber
<1>2. CASE m = 0
  <2>1. IsSum([n \in 0..0 |-> 0], 0)
    OBVIOUS
  <2>2. QED  BY <1>1, <1>2, <2>1
<1>3. CASE m # 0
  <2>1. m - 1 \in Nat /\ m - 1 \notin Bad
    <3>1. m \in Nat
      OBVIOUS
    <3> HIDE DEF Bad
    <3>2. m - 1 \in Nat /\ ~(m <= m - 1)
      BY <1>3, <3>1
    <3>3. QED  BY <1>1, <3>2
  <2>2. PICK f : IsSum(f, m - 1)
    BY <2>1
  <2> DEFINE g == [n \in 0..m |-> IF n = 0 THEN 0 ELSE f[n - 1] + phases[n].duration]
  <2>3. \A n \in 0..(m - 1) : f[n] = g[n]
    BY <2>1, <2>2
  <2>4. \A n \in 0..m : n # 0 => n - 1 \in 0..(m - 1)
    BY <1>1
  <2>5. IsSum(g, m)
    BY <2>3, <2>4
  <2>6. QED  BY <1>1, <2>5
<1>4. QED  BY <1>2, <1>3

(* getOffsetFromIndex counts phase after phase. *)
LEMMA SumStep ==
    ASSUME NEW phases, Len(phases) \in Nat, NEW i \in 1..(Len(phases) + 1)
    PROVE  /\ i = 1 => OffsetFromIndex(phases, i) = 0
           /\ i # 1 => OffsetFromIndex(phases, i) =
                          OffsetFromIndex(phases, i - 1) + phases[i - 1].duration
<1> DEFINE before == CHOOSE f : f = [n \in 0..Len(phases) |-> IF n = 0 THEN 0
                                          ELSE f[n - 1] + phases[n].duration]
<1>1. before = [n \in 0..Len(phases) |-> IF n = 0 THEN 0
                                          ELSE before[n - 1] + phases[n].duration]
  BY SumsExist
<1>2. /\ OffsetFromIndex(phases, i) = before[i - 1]
      /\ OffsetFromIndex(phases, i - 1) = before[i - 1 - 1]
  BY DEF OffsetFromIndex
<1> HIDE DEF before
<1>3. CASE i = 1
  <2>1. i - 1 = 0 /\ 0 \in 0..Len(phases)
    BY <1>3
  <2>2. QED  BY <1>1, <1>2, <1>3, <2>1
<1>4. CASE i # 1
  <2>1. i - 1 \in 0..Len(phases) /\ i - 1 # 0
    BY <1>4
  <2>2. QED  BY <1>1, <1>2, <1>4, <2>1
<1>5. QED  BY <1>3, <1>4

(* A phase has a duration. *)
LEMMA PhaseIn ==
    ASSUME NEW phases \in Seq(Phase), NEW i \in 1..Len(phases)
    PROVE  phases[i] \in Phase /\ phases[i].duration \in Nat \ {0}
<1>1. phases[i] \in Phase
  BY ElementOfSeq
<1>2. QED  BY <1>1 DEF Phase

(* The sums of a plan are numbers. *)
LEMMA SumType ==
    ASSUME NEW phases \in Seq(Phase), NEW i \in 1..(Len(phases) + 1)
    PROVE  OffsetFromIndex(phases, i) \in Nat
<1> DEFINE Bad == {n \in Nat : /\ n \in 1..(Len(phases) + 1)
                               /\ OffsetFromIndex(phases, n) \notin Nat}
<1>1. Len(phases) \in Nat /\ \A n \in 1..Len(phases) : phases[n].duration \in Nat \ {0}
  BY LenProperties, PhaseIn
<1> SUFFICES ASSUME Bad # {}  PROVE FALSE
  BY <1>1
<1>2. PICK m \in Bad : \A n \in Bad : m <= n
  BY LeastNumber
<1>3. m # 1
  BY <1>1, <1>2, SumStep
<1>4. m - 1 \in Nat /\ m - 1 \in 1..Len(phases) /\ m - 1 \notin Bad
  BY <1>1, <1>2, <1>3
<1>5. OffsetFromIndex(phases, m - 1) \in Nat /\ phases[m - 1].duration \in Nat
  BY <1>1, <1>4
<1>6. OffsetFromIndex(phases, m) = OffsetFromIndex(phases, m - 1) + phases[m - 1].duration
  BY <1>1, <1>2, <1>3, SumStep
<1>7. QED  BY <1>2, <1>5, <1>6

(* They grow from phase to phase. *)
LEMMA SumsGrow ==
    ASSUME NEW phases \in Seq(Phase), NEW i \in 1..Len(phases)
    PROVE  /\ OffsetFromIndex(phases, i) \in Nat /\ OffsetFromIndex(phases, i + 1) \in Nat
           /\ phases[i].duration \in Nat \ {0}
           /\ OffsetFromIndex(phases, i + 1) =
                 OffsetFromIndex(phases, i) + phases[i].duration
<1>1. /\ Len(phases) \in Nat /\ phases[i].duration \in Nat \ {0}
      /\ i \in 1..(Len(phases) + 1) /\ i + 1 \in 1..(Len(phases) + 1) /\ i + 1 # 1
      /\ i + 1 - 1 = i
  BY LenProperties, PhaseIn
<1>2. OffsetFromIndex(phases, i + 1) = OffsetFromIndex(phases, i) + phases[i].duration
  BY <1>1, SumStep
<1>3. OffsetFromIndex(phases, i) \in Nat /\ OffsetFromIndex(phases, i + 1) \in Nat
  BY <1>1, SumType
<1>4. QED  BY <1>1, <1>2, <1>3

(* A number is its remainder and a multiple of what one divides by. *)
LEMMA Division ==
    ASSUME NEW x \in Int, NEW c \in Nat \ {0}
    PROVE  x % c \in 0..(c - 1) /\ \E k \in Int : x % c = x - k * c
<1>1. x \div c \in Int /\ x % c = x - (x \div c) * c /\ x % c \in 0..(c - 1)
  OBVIOUS
<1>2. QED  BY <1>1

(* A multiple of a number is not between two neighbouring ones. *)
LEMMA NoMultipleBetween ==
    ASSUME NEW k \in Int, NEW c \in Nat \ {0}, k * c < c, -c < k * c
    PROVE  k = 0
<1>1. CASE k >= 1
  <2>1. k * c >= c
    BY <1>1
  <2>2. QED  BY <2>1
<1>2. CASE k <= -1
  <2>1. k * c <= -c
    BY <1>2
  <2>2. QED  BY <2>1
<1>3. QED  BY <1>1, <1>2

(* There is only one such remainder. *)
LEMMA OneRemainder ==
    ASSUME NEW x \in Int, NEW c \in Nat \ {0}, NEW k \in Int, x - k * c \in 0..(c - 1)
    PROVE  x % c = x - k * c
<1>1. PICK m \in Int : x % c = x - m * c
  BY Division
<1>2. x % c \in 0..(c - 1)
  BY Division
<1>3. (k - m) * c = k * c - m * c
  OBVIOUS
<1>4. k * c \in Int /\ m * c \in Int /\ (k - m) * c \in Int
  OBVIOUS
<1>5. (k - m) * c < c /\ -c < (k - m) * c
  BY <1>1, <1>2, <1>3, <1>4
<1>6. k - m = 0
  BY <1>5, NoMultipleBetween
<1>7. QED  BY <1>1, <1>6

(* The sums of durations are ordered as the phases are. *)
LEMMA SumsOrdered ==
    ASSUME NEW phases \in Seq(Phase), NEW i \in 1..(Len(phases) + 1),
           NEW j \in i..(Len(phases) + 1)
    PROVE  OffsetFromIndex(phases, i) <= OffsetFromIndex(phases, j)
<1> DEFINE Off(n) == OffsetFromIndex(phases, n)
           Bad == {n \in Nat : n \in i..(Len(phases) + 1) /\ ~(Off(i) <= Off(n))}
<1>1. Len(phases) \in Nat /\ \A n \in 1..(Len(phases) + 1) : Off(n) \in Nat
  BY LenProperties, SumType
<1> SUFFICES ASSUME Bad # {}  PROVE FALSE
  BY <1>1
<1>2. PICK m \in Bad : \A n \in Bad : m <= n
  BY LeastNumber
<1> HIDE DEF Off
<1>3. m \in i..(Len(phases) + 1) /\ m \in Nat /\ ~(Off(i) <= Off(m)) /\ Off(i) \in Nat
  BY <1>1
<1>4. m # i
  BY <1>3
<1>5. m - 1 \in i..(Len(phases) + 1) /\ m - 1 \in 1..Len(phases) /\ m - 1 \in Nat
  BY <1>1, <1>3, <1>4
<1>6. m - 1 \notin Bad
  <2> HIDE DEF Bad
  <2>1. ~(m <= m - 1)
    BY <1>3
  <2>2. QED  BY <1>2, <2>1
<1>7. Off(i) <= Off(m - 1)
  BY <1>5, <1>6
<1>8. /\ Off(m - 1) \in Nat /\ phases[m - 1].duration \in Nat
      /\ Off(m - 1 + 1) = Off(m - 1) + phases[m - 1].duration
  BY <1>5, SumsGrow DEF Off
<1>9. m - 1 + 1 = m
  BY <1>3
<1>10. QED  BY <1>3, <1>7, <1>8, <1>9

(* The phases fill the cycle. *)
LEMMA PhasesFill ==
    ASSUME NEW phases \in Seq(Phase), NEW s \in 1..Len(phases)
    PROVE  /\ OffsetFromIndex(phases, s) \in Nat /\ OffsetFromIndex(phases, s + 1) \in Nat
           /\ phases[s].duration \in Nat \ {0} /\ Cycle(phases) \in Nat \ {0}
           /\ OffsetFromIndex(phases, s + 1) =
                 OffsetFromIndex(phases, s) + phases[s].duration
           /\ OffsetFromIndex(phases, s + 1) <= Cycle(phases)
<1>1. /\ OffsetFromIndex(phases, s) \in Nat /\ OffsetFromIndex(phases, s + 1) \in Nat
      /\ phases[s].duration \in Nat \ {0}
      /\ OffsetFromIndex(phases, s + 1) =
            OffsetFromIndex(phases, s) + phases[s].duration
  BY SumsGrow
<1>2. /\ Len(phases) \in Nat /\ s + 1 \in 1..(Len(phases) + 1)
      /\ Len(phases) + 1 \in (s + 1)..(Len(phases) + 1)
      /\ Len(phases) + 1 \in 1..(Len(phases) + 1)
  BY LenProperties
<1>3. OffsetFromIndex(phases, s + 1) <= Cycle(phases) /\ Cycle(phases) \in Nat
  BY <1>2, SumsOrdered, SumType DEF Cycle
<1>4. QED  BY <1>1, <1>3

(* What the constants say of the plans. *)
LEMMA Plans ==
    /\ "waut" \notin Program /\ Loaded \subseteq Program
    /\ \A p \in Loaded : /\ Plan[p] \in Seq(Phase) /\ Len(Plan[p]) \in Nat \ {0}
                         /\ Cycle(Plan[p]) \in Nat \ {0}
    /\ NewPlan \in Seq(Phase) /\ Len(NewPlan) \in Nat \ {0} /\ Cycle(NewPlan) \in Nat \ {0}
    /\ OffPlan \in Seq(Phase) /\ Len(OffPlan) = 1
<1>1. "waut" \notin Program /\ Loaded \subseteq Program
  BY LightsAssumption DEF Program
<1>2. \A s \in Seq(Phase) \ {<<>>} : Len(s) \in Nat \ {0}
  BY EmptySeq, LenProperties
<1>3. /\ \A p \in Loaded : Plan[p] \in Seq(Phase) \ {<<>>}
      /\ NewPlan \in Seq(Phase) \ {<<>>}
  BY LightsAssumption, ClientAssumption
<1>4. ASSUME NEW phases \in Seq(Phase), Len(phases) \in Nat \ {0}
      PROVE  Cycle(phases) \in Nat \ {0}
  <2>1. Len(phases) \in 1..Len(phases)
    BY <1>4
  <2>2. QED  BY <2>1, SumsGrow DEF Cycle
<1>5. OffPlan \in Seq(Phase) /\ Len(OffPlan) = 1
  <2>1. OffSteps * Second \in Nat \ {0}
    BY LightsAssumption
  <2> DEFINE d == OffSteps * Second
             ph == [duration |-> d, min |-> d, max |-> d, state |-> "off"]
  <2> HIDE DEF d
  <2>2. ph \in Phase
    <3>1. d \in Nat \ {0}
      BY <2>1 DEF d
    <3>2. "off" \in Signals
      BY LightsAssumption
    <3>3. QED  BY <3>1, <3>2 DEF Phase
  <2>3. OffPlan = <<ph>>
    BY DEF OffPlan, d
  <2> HIDE DEF ph
  <2>4. QED  BY <2>2, <2>3
<1>6. QED  BY <1>1, <1>2, <1>3, <1>4, <1>5

(* The phase in which a program starts, and what is left of it. *)
LEMMA FirstStepType ==
    ASSUME now \in Nat, NEW p \in Loaded, NEW o \in Int
    PROVE  /\ FirstStep(Plan[p], o) \in 1..Len(Plan[p])
           /\ LeftDuration(Plan[p], o) \in Nat
<1> DEFINE ph == Plan[p]
           n == Len(ph)
           pos == Advance(ph, o)
           B == EndsBehind(ph, pos)
<1>1. /\ n \in Nat \ {0} /\ DOMAIN ph = 1..n /\ Cycle(ph) \in Nat \ {0}
      /\ \A i \in 1..(n + 1) : OffsetFromIndex(ph, i) \in Nat
  BY Plans, SumType, LenProperties
<1>2. pos \in Nat /\ pos < Cycle(ph)
  <2> DEFINE c == Cycle(ph)
  <2>1. c \in Nat \ {0}
    BY <1>1
  <2>2. pos = IF o >= 0 THEN (now + c - (o % c)) % c ELSE (now + ((-o) % c)) % c
    BY DEF Advance
  <2> HIDE DEF c, pos, ph
  <2>3. now + c - (o % c) \in Int /\ now + ((-o) % c) \in Int
    BY <2>1, Remainder
  <2>4. pos \in 0..(c - 1)
    BY <2>1, <2>2, <2>3, Remainder
  <2>5. QED  BY <2>1, <2>4 DEF c
<1>3. n \in B
  BY <1>1, <1>2 DEF EndsBehind, Cycle
<1>4. B \in SUBSET Nat /\ B \subseteq 1..n
  BY <1>1 DEF EndsBehind
<1>5. FirstStep(ph, o) \in B
  <2> HIDE DEF B
  <2>1. Min(B) \in B
    BY <1>3, <1>4, LeastIn
  <2>2. QED  BY <2>1 DEF FirstStep, B
<1> DEFINE s == FirstStep(ph, o)
<1>6. s \in 1..n /\ s + 1 \in 1..(n + 1) /\ OffsetFromIndex(ph, s + 1) > pos
  BY <1>1, <1>4, <1>5 DEF EndsBehind
<1>7. LeftDuration(ph, o) = OffsetFromIndex(ph, s + 1) - pos
  BY DEF LeftDuration
<1> HIDE DEF s, pos, ph
<1>8. QED  BY <1>1, <1>2, <1>6, <1>7 DEF s, ph

(* The phase to which a procedure sets a program. *)
LEMMA IndexType ==
    ASSUME NEW phases \in Seq(Phase), Len(phases) \in Nat \ {0}, NEW c, NEW pos
    PROVE  IndexFromOffset(phases, c, pos) \in 1..Len(phases)
<1> DEFINE B == EndsBehind(phases, pos % c)
<1>1. B \in SUBSET Nat /\ B \subseteq 1..Len(phases)
  BY LenProperties DEF EndsBehind
<1>2. IndexFromOffset(phases, c, pos) = IF B = {} THEN 1 ELSE Min(B)
  BY DEF IndexFromOffset
<1> HIDE DEF B
<1>3. B # {} => Min(B) \in B
  BY <1>1, LeastIn
<1>4. CASE B = {}
  BY <1>2, <1>4
<1>5. CASE B # {}
  BY <1>1, <1>2, <1>3, <1>5
<1>6. QED  BY <1>4, <1>5
-----------------------------------------------------------------------------
(* The queue. *)

Cmd == [program : Program \cup {"waut"}, number : Nat, valid : BOOLEAN, assumed : Int]

(* deschedule, field by field. *)
LEMMA ChangedCommand ==
    ASSUME NEW c \in Cmd, NEW b \in BOOLEAN, NEW a \in Int
    PROVE  /\ [c EXCEPT !.valid = b, !.assumed = a] \in Cmd
           /\ [c EXCEPT !.valid = b, !.assumed = a].program = c.program
           /\ [c EXCEPT !.valid = b, !.assumed = a].number = c.number
           /\ [c EXCEPT !.valid = b, !.assumed = a].valid = b
  BY DEF Cmd

(* An event whose command is descheduled is an event. *)
LEMMA Descheduling ==
    ASSUME NEW e \in Event
    PROVE  LET d == [e EXCEPT !.command.valid = FALSE, !.command.assumed = -1]
           IN /\ d \in Event /\ d.time = e.time
              /\ d.command.program = e.command.program
              /\ d.command.number = e.command.number /\ ~d.command.valid
<1> DEFINE c == [e.command EXCEPT !.valid = FALSE, !.assumed = -1]
           d == [e EXCEPT !.command.valid = FALSE, !.command.assumed = -1]
<1>1. e.command \in Cmd /\ e.time \in Int /\ e = [command |-> e.command, time |-> e.time]
  BY DEF Event, Cmd
<1>2. /\ c \in Cmd /\ c.program = e.command.program /\ c.number = e.command.number
      /\ c.valid = FALSE
  <2>1. FALSE \in BOOLEAN /\ -1 \in Int
    OBVIOUS
  <2>2. QED  BY <2>1, <1>1, ChangedCommand
<1>3. d = [command |-> c, time |-> e.time]
  <2>1. d = [e EXCEPT !.command = c]
    OBVIOUS
  <2> HIDE DEF c, d
  <2>2. QED  BY <1>1, <2>1 DEF Event
<1> HIDE DEF c
<1>4. d \in Event /\ d.command = c /\ d.time = e.time
  BY <1>1, <1>2, <1>3 DEF Event, Cmd
<1>5. QED  BY <1>2, <1>4

(* A command for the time t, as addEvent stores it. *)
Planned(e, t) == e.command.assumed = t /\ e.time = IF t <= now THEN now ELSE t

(* changeStepAndDuration replaces the valid command of a program by its next. *)
LEMMA Rescheduled ==
    ASSUME Programs, Commands, NEW p \in variants, p # "off",
           NEW s \in 1..Len(plan[p]), NEW d \in Int,
           ChangeStepAndDuration(p, s, d), UNCHANGED variants
    PROVE  /\ Commands'
           /\ mySwitchCommand' \in [Program -> Nat]
           /\ step' = [step EXCEPT ![p] = s]
           /\ \A e : IsWaut(e) => (e \in events <=> e \in events')
           /\ \A e \in events' : e \in events \/ ~e.command.valid \/ Planned(e, now + d)
<1> DEFINE n == mySwitchCommand[p]
           D(e) == IF IsCurrent(e, p)
                   THEN [e EXCEPT !.command.valid = FALSE, !.command.assumed = -1] ELSE e
           t == IF now + d <= now THEN now ELSE now + d
           N == [command |-> Command(p, n + 1, now + d), time |-> t]
<1>1. /\ events' = {D(e) : e \in events} \cup {N}
      /\ mySwitchCommand' = [mySwitchCommand EXCEPT ![p] = n + 1]
      /\ step' = [step EXCEPT ![p] = s]
  BY DEF ChangeStepAndDuration, AddAdapted, Descheduled
<1>2. /\ p \in Program /\ n \in Nat /\ now \in Nat
      /\ mySwitchCommand \in [Program -> Nat] /\ variants \subseteq Program
      /\ "waut" \notin Program
  BY Plans DEF Programs
<1>3. /\ mySwitchCommand' \in [Program -> Nat] /\ mySwitchCommand'[p] = n + 1
      /\ \A q \in Program : q # p => mySwitchCommand'[q] = mySwitchCommand[q]
  <2>1. n + 1 \in Nat
    BY <1>2
  <2> HIDE DEF n, D, N, t
  <2>2. mySwitchCommand' = [mySwitchCommand EXCEPT ![p] = n + 1]
    BY <1>1
  <2>3. QED  BY <1>2, <2>1, <2>2
<1>4. \A e \in events :
        /\ D(e) \in Event /\ D(e).command.program = e.command.program
        /\ D(e).command.number = e.command.number
        /\ IsCurrent(e, p) => ~D(e).command.valid
        /\ ~IsCurrent(e, p) => D(e) = e
        /\ e.command.program \in Program \cup {"waut"} /\ e.command.number \in Nat
  BY Descheduling DEF Commands, CommandsOf, Event
<1>5. N \in Event /\ N.command = Command(p, n + 1, now + d) /\ N.time = t
  <2> HIDE DEF n
  <2>1. n + 1 \in Nat /\ now + d \in Int /\ t \in Int
    BY <1>2
  <2> HIDE DEF t
  <2>2. QED  BY <1>2, <2>1 DEF Event, Command
<1>6. /\ N.command.program = p /\ N.command.number = n + 1 /\ N.command.valid
      /\ N.command.assumed = now + d
  BY <1>5 DEF Command
<1> HIDE DEF N, D, t, n
<1>7. \A e \in events : e.command.program = p =>
          /\ e.command.number <= n
          /\ e.command.valid <=> IsCurrent(e, p)
  BY <1>2 DEF Commands, CommandsOf, Known, IsCurrent, n
<1>8. ASSUME NEW e \in events, NEW f, f = D(e)  PROVE Known(f)'
  <2>1. CASE e.command.program = p
    <3>1. /\ ~f.command.valid /\ f.command.number \in Nat /\ f.command.number <= n
          /\ f.command.program = p
      BY <2>1, <1>4, <1>7, <1>8
    <3>2. QED  BY <3>1, <1>2, <1>3 DEF Known
  <2>2. CASE e.command.program # p
    <3>1. f = e /\ Known(e) /\ e.command.program \in Program \cup {"waut"}
      BY <2>2, <1>4, <1>8 DEF Commands, CommandsOf, IsCurrent
    <3>2. QED  BY <2>2, <3>1, <1>2, <1>3 DEF Known
  <2>3. QED  BY <2>1, <2>2
<1>9. ASSUME NEW f, f = N  PROVE Known(f)'
  BY <1>2, <1>3, <1>6, <1>9 DEF Known
<1>10. ASSUME NEW q \in variants  PROVE OneCurrent(events, q)'
  <2>1. CASE q = p
    <3>1. \A f \in events' : IsCurrent(f, p)' <=> f = N
      <4>1. \A f : IsCurrent(f, p)' <=> f.command.program = p /\ f.command.number = n + 1
        BY <1>3 DEF IsCurrent
      <4>2. \A e \in events : D(e).command.program = p => D(e).command.number # n + 1
        BY <1>2, <1>4, <1>7
      <4>3. QED  BY <1>1, <1>6, <4>1, <4>2
    <3>2. N \in events'
      BY <1>1
    <3>3. {f \in events' : IsCurrent(f, p)'} = {N}
      BY <3>1, <3>2
    <3>4. QED  BY <2>1, <3>2, <3>3 DEF OneCurrent
  <2>2. CASE q # p
    <3>1. PICK e \in events : {f \in events : IsCurrent(f, q)} = {e}
      BY DEF Commands, CommandsOf, OneCurrent
    <3>2. IsCurrent(e, q) /\ ~IsCurrent(e, p)
      BY <2>2, <3>1 DEF IsCurrent
    <3>3. D(e) = e /\ e \in events'
      BY <1>1, <1>4, <3>2
    <3>4. \A f : IsCurrent(f, q)' <=> IsCurrent(f, q)
      BY <2>2, <1>2, <1>3 DEF IsCurrent
    <3>5. ASSUME NEW f \in events', IsCurrent(f, q)  PROVE f = e
      <4>1. f # N
        BY <2>2, <3>5, <1>6 DEF IsCurrent
      <4>2. PICK g \in events : f = D(g)
        BY <1>1, <4>1
      <4>3. f = g
        BY <2>2, <3>5, <4>2, <1>4 DEF IsCurrent
      <4>4. QED  BY <3>1, <3>5, <4>3
    <3>6. {f \in events' : IsCurrent(f, q)'} = {e}
      BY <3>2, <3>3, <3>4, <3>5
    <3>7. QED  BY <3>3, <3>6 DEF OneCurrent
  <2>3. QED  BY <2>1, <2>2
<1>11. Commands'
  <2>1. events' \subseteq Event
    BY <1>1, <1>4, <1>5
  <2>2. \A f \in events' : Known(f)'
    BY <1>1, <1>8, <1>9
  <2>3. QED  BY <2>1, <2>2, <1>10 DEF Commands, CommandsOf, Event
<1>12. \A e : IsWaut(e) => (e \in events <=> e \in events')
  <2>1. ~IsWaut(N)
    BY <1>2, <1>6 DEF IsWaut
  <2>2. \A e \in events : /\ IsWaut(D(e)) <=> IsWaut(e)
                          /\ IsWaut(e) => D(e) = e
    BY <1>2, <1>4 DEF IsWaut, IsCurrent
  <2>3. QED  BY <1>1, <2>1, <2>2
<1>13. \A e \in events' : e \in events \/ ~e.command.valid \/ e = N
  BY <1>1, <1>4
<1>14. N.command.assumed = now + d /\ N.time = IF now + d <= now THEN now ELSE now + d
  BY <1>5, <1>6 DEF t
<1>15. \A e \in events' : e \in events \/ ~e.command.valid \/ Planned(e, now + d)
  BY <1>13, <1>14 DEF Planned
<1>16. step' = [step EXCEPT ![p] = s] /\ mySwitchCommand' \in [Program -> Nat]
  BY <1>1, <1>3
<1>17. QED  BY <1>11, <1>12, <1>15, <1>16

(* addLogic puts the first command of a new program into the queue. *)
LEMMA Instantiated ==
    ASSUME Programs, NEW queue, CommandsOf(queue), NEW p \in Program, p \notin variants,
           NEW phases \in Seq(Phase), NEW s \in 1..Len(phases), NEW time \in Int,
           Instantiate(queue, p, phases, s, time)
    PROVE  /\ Commands'
           /\ mySwitchCommand' \in [Program -> Nat]
           /\ plan' = [plan EXCEPT ![p] = phases] /\ step' = [step EXCEPT ![p] = s]
           /\ variants' = variants \cup {p} /\ active' = p /\ lastSwitch' = lastSwitch
           /\ \A e : IsWaut(e) => (e \in queue <=> e \in events')
           /\ \A e \in events' : e \in queue \/ e.command.assumed = e.time
<1> DEFINE N == [command |-> Command(p, 1, time), time |-> time]
<1>1. /\ events' = queue \cup {N} /\ variants' = variants \cup {p} /\ active' = p
      /\ mySwitchCommand' = [mySwitchCommand EXCEPT ![p] = 1]
      /\ plan' = [plan EXCEPT ![p] = phases] /\ step' = [step EXCEPT ![p] = s]
      /\ lastSwitch' = lastSwitch
  BY DEF Instantiate, AddUnchanged
<1>2. /\ mySwitchCommand \in [Program -> Nat] /\ variants \subseteq Program
      /\ "waut" \notin Program
  BY Plans DEF Programs
<1>3. /\ mySwitchCommand' \in [Program -> Nat] /\ mySwitchCommand'[p] = 1
      /\ \A q \in Program : q # p => mySwitchCommand'[q] = mySwitchCommand[q]
  BY <1>1, <1>2
<1>4. /\ N \in Event /\ N.command.program = p /\ N.command.number = 1
      /\ N.command.valid /\ N.command.assumed = N.time
  BY DEF Event, Command
<1> HIDE DEF N
<1>5. \A e \in queue : e.command.program # p /\ Known(e)
  BY <1>2 DEF CommandsOf, Known
<1>6. \A e \in queue : Known(e)'
  BY <1>1, <1>2, <1>3, <1>5 DEF Known
<1>7. Known(N)'
  BY <1>1, <1>3, <1>4 DEF Known
<1>8. ASSUME NEW q \in variants  PROVE OneCurrent(events, q)'
  <2>1. PICK e \in queue : {f \in queue : IsCurrent(f, q)} = {e}
    BY DEF CommandsOf, OneCurrent
  <2>2. q # p /\ \A f : IsCurrent(f, q)' <=> IsCurrent(f, q)
    BY <1>2, <1>3 DEF IsCurrent
  <2>3. ~IsCurrent(N, q)
    BY <2>2, <1>4 DEF IsCurrent
  <2>4. e \in events' /\ {f \in events' : IsCurrent(f, q)'} = {e}
    BY <1>1, <2>1, <2>2, <2>3
  <2>5. QED  BY <2>4 DEF OneCurrent
<1>9. OneCurrent(events, p)'
  <2>1. IsCurrent(N, p)' /\ \A f \in queue : ~IsCurrent(f, p)'
    BY <1>3, <1>4, <1>5 DEF IsCurrent
  <2>2. N \in events' /\ {f \in events' : IsCurrent(f, p)'} = {N}
    BY <1>1, <2>1
  <2>3. QED  BY <2>2 DEF OneCurrent
<1>10. Commands'
  BY <1>1, <1>4, <1>6, <1>7, <1>8, <1>9 DEF Commands, CommandsOf
<1>11. ~IsWaut(N)
  BY <1>2, <1>4 DEF IsWaut
<1>12. QED  BY <1>1, <1>3, <1>4, <1>10, <1>11
-----------------------------------------------------------------------------
(* Durations. *)

(* The time for which the next switch of a program is planned is a number. *)
LEMMA NextSwitchType ==
    ASSUME Commands, NEW p \in variants
    PROVE  /\ NextSwitchTime(p) \in Int
           /\ \E e \in events : /\ IsCurrent(e, p) /\ NextSwitchTime(p) = e.command.assumed
                                /\ {f \in events : IsCurrent(f, p)} = {e}
<1>1. PICK e \in events : {f \in events : IsCurrent(f, p)} = {e}
  BY DEF Commands, CommandsOf, OneCurrent
<1>2. IsCurrent(e, p) /\ \A f \in events : IsCurrent(f, p) => f = e
  BY <1>1
<1>3. (CHOOSE f \in events : IsCurrent(f, p)) = e
  BY <1>2
<1>4. NextSwitchTime(p) = e.command.assumed
  BY <1>3 DEF NextSwitchTime
<1>5. e.command.assumed \in Int
  BY DEF Commands, CommandsOf, Event
<1>6. QED  BY <1>1, <1>2, <1>4, <1>5

(* The phases of a program that exists. *)
LEMMA PhaseType ==
    ASSUME Programs, NEW p \in variants
    PROVE  /\ plan[p] \in Seq(Phase) /\ Len(plan[p]) \in Nat \ {0}
           /\ DOMAIN plan[p] = 1..Len(plan[p]) /\ step[p] \in 1..Len(plan[p])
           /\ \A i \in 1..Len(plan[p]) :
                 /\ plan[p][i].duration \in Nat \ {0}
                 /\ plan[p][i].min \in Nat /\ plan[p][i].max \in Nat
<1>1. plan[p] \in Seq(Phase) /\ step[p] \in 1..Len(plan[p])
  BY DEF Programs
<1>2. Len(plan[p]) \in Nat /\ DOMAIN plan[p] = 1..Len(plan[p])
  BY <1>1, LenProperties
<1>3. \A i \in 1..Len(plan[p]) : plan[p][i] \in Phase
  BY <1>1, ElementOfSeq
<1>4. Len(plan[p]) # 0
  BY <1>1, <1>2
<1>5. QED  BY <1>1, <1>2, <1>3, <1>4 DEF Phase

(* A multiple behind a number. *)
LEMMA NextMultiple ==
    ASSUME NEW x \in Int, NEW c \in Nat \ {0}
    PROVE  (x \div c + 1) * c \in Int /\ (x \div c + 1) * c > x
  OBVIOUS

(* A product of positive numbers is positive. *)
LEMMA Product ==
    ASSUME NEW x \in Nat \ {0}, NEW c \in Nat \ {0}
    PROVE  x * c \in Nat \ {0}
  OBVIOUS

(* An actuated program prolongs its phase for a while, at most up to its maximum. *)
LEMMA DurationPositive ==
    ASSUME Programs, NEW p \in Actuated, NEW gap \in GapSteps, MayContinue(p)
    PROVE  /\ duration(p, gap) \in Nat \ {0}
           /\ duration(p, gap) <= plan[p][step[p]].max - actDuration(p)
<1> DEFINE act == actDuration(p)
           low == plan[p][step[p]].min - act
           S == {low, gap, 1}
           least == Max(S)
           top == plan[p][step[p]].max - act
           whole == WholeSeconds(p, gap)
<1>1. p \in Loaded /\ p \in variants /\ gap \in Int /\ Second \in Nat \ {0}
  BY LightsAssumption DEF Programs
<1>2. act \in Int
  <2>1. step[p] \in DOMAIN plan[p] /\ now \in Int
    BY <1>1, PhaseType DEF Programs
  <2>2. lastSwitch[p][step[p]] \in Int
    BY <2>1 DEF Programs
  <2>3. QED  BY <2>1, <2>2 DEF actDuration
<1>3. low \in Int /\ top \in Int /\ top > 0
  <2>1. /\ plan[p][step[p]].min \in Nat /\ plan[p][step[p]].max \in Nat
        /\ act < plan[p][step[p]].max
    BY <1>1, PhaseType DEF MayContinue
  <2> HIDE DEF act
  <2>2. QED  BY <1>2, <2>1
<1>4. least \in Int /\ least >= 1
  <2> HIDE DEF low
  <2>1. \E x \in S : \A y \in S : x >= y
    BY <1>1, <1>3
  <2>2. least \in S /\ \A y \in S : least >= y
    BY <2>1 DEF Max
  <2>3. QED  BY <1>1, <1>3, <2>2
<1>5. whole \in Int /\ whole >= 1
  <2> HIDE DEF act, least
  <2>1. whole = IF least % Second = 0 THEN least
                ELSE ((least + act) \div Second + 1) * Second - act
    BY DEF WholeSeconds, least, act
  <2> DEFINE m == ((least + act) \div Second + 1) * Second
  <2>2. m \in Int /\ m > least + act
    BY <1>1, <1>2, <1>4, NextMultiple
  <2> HIDE DEF m
  <2>3. whole = least \/ whole = m - act
    BY <2>1 DEF m
  <2>4. QED  BY <1>2, <1>4, <2>2, <2>3
<1>6. duration(p, gap) = Min({whole, top})
  BY DEF duration
<1> HIDE DEF whole, top
<1>7. {whole, top} \in SUBSET Nat /\ {whole, top} # {}
  BY <1>3, <1>5
<1>8. duration(p, gap) \in {whole, top} /\ duration(p, gap) <= top
  BY <1>6, <1>7, LeastIn
<1>9. duration(p, gap) \in Nat \ {0}
  BY <1>3, <1>5, <1>8
<1>10. QED  BY <1>8, <1>9 DEF top, act

(* What trySwitch returns: the phase it leaves the program in, and when it wants
   to be asked again. *)
LEMMA OutcomeType ==
    ASSUME Programs, MinsPositive, NEW p \in variants, NEW o \in TrySwitch(p)
    PROVE  o.step \in 1..Len(plan[p]) /\ o.returned \in Nat \ {0}
<1> DEFINE n == Len(plan[p])
           next == NextStep(p)
<1>1. /\ n \in Nat \ {0} /\ step[p] \in 1..n
      /\ \A i \in 1..n : plan[p][i].duration \in Nat \ {0} /\ plan[p][i].min \in Nat
  BY PhaseType
<1>2. next \in 1..n
  <2>1. step[p] % n \in 0..(n - 1)
    <3>1. step[p] \in Int
      BY <1>1
    <3> HIDE DEF n
    <3>2. QED  BY <1>1, <3>1, Remainder
  <2>2. QED  BY <1>1, <2>1 DEF NextStep
<1>3. OffSteps * DeltaT \in Nat \ {0}
  BY Product, LightsAssumption, DeltaTAssumption
<1>4. ASSUME p \in Actuated  PROVE plan[p][next].min \in Nat \ {0}
  <2>1. p \in Loaded /\ plan[p] \in {Plan[p], NewPlan} /\ DOMAIN plan[p] = 1..n
    BY <1>4, PhaseType, LightsAssumption DEF Programs
  <2> HIDE DEF next
  <2>2. plan[p][next].min > 0
    BY <1>2, <1>4, <2>1 DEF MinsPositive
  <2>3. QED  BY <1>1, <1>2, <2>2
<1> HIDE DEF next
<1>5. CASE p = "off"
  BY <1>1, <1>3, <1>5 DEF TrySwitch, TrySwitchOff, Outcome
<1>6. CASE p # "off" /\ p \in Actuated
  <2>1. CASE o = Outcome(next, plan[p][next].min, TRUE)
    BY <1>2, <1>4, <1>6, <2>1 DEF Outcome
  <2>2. ASSUME NEW gap \in GapSteps, MayContinue(p),
               o = Outcome(step[p], duration(p, gap), FALSE)
        PROVE  o.step \in 1..n /\ o.returned \in Nat \ {0}
    BY <1>1, <1>6, <2>2, DurationPositive DEF Outcome
  <2>3. QED  BY <1>6, <2>1, <2>2 DEF TrySwitch, TrySwitchActuated, next
<1>7. CASE p # "off" /\ p \notin Actuated
  BY <1>1, <1>2, <1>7 DEF TrySwitch, TrySwitchSimple, Outcome, next
<1>8. QED  BY <1>5, <1>6, <1>7
-----------------------------------------------------------------------------
(* The steps. *)

IInv == Programs /\ Commands /\ WautQueue /\ WautState

(* The commands are executed when they assume it. *)
OnTime(e) == ~IsWaut(e) /\ e.command.valid => e.command.assumed = e.time
InTime == \A e \in events : OnTime(e)

(* Steps that only go on to another stage. *)
LEMMA StageKeeps ==
    ASSUME IInv,
           UNCHANGED <<events, variants, programVars, active, waut, index, switched>>,
           now' \in Nat, at' \in Nat \ {0}, stage' \in {"client", "events", "check", "move"}
    PROVE  IInv'
<1>1. Programs'
  BY DEF IInv, Programs, programVars
<1>2. Commands'
  BY DEF IInv, Commands, CommandsOf, Known, OneCurrent, IsCurrent, programVars
<1>3. WautQueue' /\ WautState'
  BY DEF IInv, WautQueue, WautState, Waut, Targets
<1>4. QED  BY <1>1, <1>2, <1>3 DEF IInv

(* A program is set to a phase and a duration. *)
LEMMA PhaseSet ==
    ASSUME IInv, NEW p \in variants, NEW s \in 1..Len(plan[p]), NEW d \in Int,
           ChangeStepAndDuration(p, s, d), active' \in variants,
           UNCHANGED <<now, stage, variants, plan, lastSwitch, waut, index>>
    PROVE  /\ Programs' /\ Commands' /\ WautQueue'
           /\ InTime /\ d >= 0 => InTime'
<1>1. CASE p = "off"
  <2>1. UNCHANGED <<events, mySwitchCommand, step>>
    BY <1>1 DEF ChangeStepAndDuration
  <2>2. Programs'
    BY <2>1 DEF IInv, Programs
  <2>3. Commands'
    BY <2>1 DEF IInv, Commands, CommandsOf, Known, OneCurrent, IsCurrent
  <2>4. WautQueue' /\ (InTime => InTime')
    BY <2>1 DEF IInv, WautQueue, Waut, InTime
  <2>5. QED  BY <2>2, <2>3, <2>4
<1>2. CASE p # "off"
  <2>1. /\ Commands'
        /\ mySwitchCommand' \in [Program -> Nat]
        /\ step' = [step EXCEPT ![p] = s]
        /\ \A e : IsWaut(e) => (e \in events <=> e \in events')
        /\ \A e \in events' : e \in events \/ ~e.command.valid \/ Planned(e, now + d)
    BY <1>2, Rescheduled DEF IInv
  <2>2. /\ step \in [Program -> Nat] /\ p \in Program /\ Len(plan[p]) \in Nat
        /\ \A q \in variants : q \in Program /\ step[q] \in 1..Len(plan[q])
    BY PhaseType DEF IInv, Programs
  <2>3. step' \in [Program -> Nat] /\ \A q \in variants : step'[q] \in 1..Len(plan[q])
    BY <2>1, <2>2
  <2>4. Programs'
    BY <2>1, <2>3 DEF IInv, Programs
  <2>5. WautQueue'
    BY <2>1 DEF IInv, WautQueue, Waut
  <2>6. InTime /\ d >= 0 => InTime'
    <3> SUFFICES ASSUME InTime, d >= 0, NEW e \in events'  PROVE OnTime(e)'
      BY DEF InTime
    <3>1. now \in Nat
      BY DEF IInv, Programs
    <3>2. Planned(e, now + d) => e.command.assumed = e.time
      BY <3>1 DEF Planned
    <3>3. QED  BY <2>1, <3>2 DEF InTime, OnTime, IsWaut
  <2>7. QED  BY <2>1, <2>4, <2>5, <2>6
<1>3. QED  BY <1>1, <1>2

(* The processes that wait remain what they are when there are more programs. *)
LEMMA MoreVariants ==
    ASSUME variants \subseteq variants', switched \in Seq([from : variants, to : Targets])
    PROVE  switched \in Seq([from : variants', to : Targets'])
<1>1. [from : variants, to : Targets] \subseteq [from : variants', to : Targets']
  BY DEF Targets
<1> DEFINE S == [from : variants, to : Targets]
           T == [from : variants', to : Targets']
<1> HIDE DEF S, T
<1>2. switched \in [1..Len(switched) -> S] /\ Len(switched) \in Nat
  BY LenProperties DEF S
<1>3. switched \in [1..Len(switched) -> T]
  BY <1>1, <1>2 DEF S, T
<1>4. switched \in Seq(T)
  BY <1>2, <1>3, SeqDef
<1>5. QED  BY <1>4 DEF T

(* A program is built while the simulation runs. *)
LEMMA ProgramBuilt ==
    ASSUME Programs, NEW queue, CommandsOf(queue), NEW p \in Program, p \notin variants,
           NEW phases \in Seq(Phase), NEW s \in 1..Len(phases), NEW time \in Int,
           p = "online" => Len(phases) = 1,
           Instantiate(queue, p, phases, s, time), UNCHANGED <<now, stage>>
    PROVE  /\ Programs' /\ Commands' /\ variants' = variants \cup {p} /\ active' = p
           /\ \A e : IsWaut(e) => (e \in queue <=> e \in events')
           /\ (\A e \in queue : OnTime(e)) => InTime'
<1>1. /\ Commands'
      /\ mySwitchCommand' \in [Program -> Nat]
      /\ plan' = [plan EXCEPT ![p] = phases] /\ step' = [step EXCEPT ![p] = s]
      /\ variants' = variants \cup {p} /\ active' = p /\ lastSwitch' = lastSwitch
      /\ \A e : IsWaut(e) => (e \in queue <=> e \in events')
      /\ \A e \in events' : e \in queue \/ e.command.assumed = e.time
  BY Instantiated
<1>2. /\ plan \in [Program -> Seq(Phase)] /\ step \in [Program -> Nat]
      /\ Loaded \subseteq variants /\ variants \subseteq Program /\ Actuated \subseteq Loaded
      /\ Len(phases) \in Nat
  BY LightsAssumption, LenProperties DEF Programs
<1>3. /\ plan' \in [Program -> Seq(Phase)] /\ step' \in [Program -> Nat]
      /\ plan'[p] = phases /\ step'[p] = s
      /\ \A q \in variants : plan'[q] = plan[q] /\ step'[q] = step[q]
  BY <1>1, <1>2
<1>4. \A q \in variants' : step'[q] \in 1..Len(plan'[q])
  BY <1>1, <1>3 DEF Programs
<1>5. \A q \in Loaded : plan'[q] = plan[q]
  BY <1>2, <1>3
<1>6. \A q \in Actuated : lastSwitch'[q] \in [DOMAIN plan'[q] -> Int]
  BY <1>1, <1>2, <1>5 DEF Programs
<1>7. Programs'
  BY <1>1, <1>2, <1>3, <1>4, <1>5, <1>6 DEF Programs
<1>8. (\A e \in queue : OnTime(e)) => InTime'
  BY <1>1 DEF InTime, OnTime, IsWaut
<1>9. QED  BY <1>1, <1>7, <1>8

(* The program "off" is built when somebody switches to it. *)
LEMMA OffBuilt ==
    ASSUME Programs, NEW queue, CommandsOf(queue), "off" \notin variants,
           Instantiate(queue, "off", OffPlan, 1, 0), UNCHANGED <<now, stage>>
    PROVE  /\ Programs' /\ Commands' /\ variants' = variants \cup {"off"} /\ active' = "off"
           /\ \A e : IsWaut(e) => (e \in queue <=> e \in events')
           /\ (\A e \in queue : OnTime(e)) => InTime'
<1>1. /\ "off" \in Program /\ OffPlan \in Seq(Phase) /\ 1 \in 1..Len(OffPlan)
  BY Plans DEF Program
<1>2. QED  BY <1>1, ProgramBuilt

(* The reference points lie within the cycles, also within that of the program a client
   may send, which is not longer than the old one and the time to the GSP. *)
GSPsWithin ==
    \A p \in Loaded : /\ GSP[p] < Cycle(Plan[p]) /\ GSP[p] < Cycle(NewPlan)
                      /\ Cycle(NewPlan) <= Cycle(Plan[p]) + GSP[p]

(* What makes the commands punctual: nobody asks for a time in the past, which
   addEvent would replace by the present. *)
Punctual == /\ Durations \subseteq Nat
            /\ \A w \in Wauts : w.procedure = "GSP" => GSPsWithin

(* check2Switch is asked when all the events of the step were executed. *)
NotOverdue == stage = "check" => \A e \in events : e.time >= now

(* Another file changes the offset of a program. *)
LEMMA OffsetKeeps ==
    ASSUME IInv, NEW p \in Loaded, NEW o \in NewOffsets, ChangeOffset(p, o)
    PROVE  IInv' /\ (InTime => InTime')
<1> DEFINE s == FirstStep(plan[p], o)
           d == LeftDuration(plan[p], o)
<1>1. /\ stage = "load" /\ ChangeStepAndDuration(p, s, d)
      /\ UNCHANGED <<now, stage, variants, plan, lastSwitch, active, wautVars>>
  BY DEF ChangeOffset
<1>2. /\ p \in variants /\ plan[p] = Plan[p] /\ now \in Nat /\ active \in variants
      /\ o \in Int
  BY <1>1, LightsAssumption DEF IInv, Programs
<1>3. s \in 1..Len(plan[p]) /\ d \in Nat
  BY <1>2, FirstStepType
<1> HIDE DEF s, d
<1>4. d \in Int /\ d >= 0
  BY <1>3
<1>5. Programs' /\ Commands' /\ WautQueue' /\ (InTime => InTime')
  BY <1>1, <1>2, <1>3, <1>4, PhaseSet DEF wautVars
<1>6. WautState'
  BY <1>1 DEF IInv, WautState, Waut, Targets, wautVars
<1>7. QED  BY <1>5, <1>6 DEF IInv

(* The client sets the phase, or how long it lasts. *)
LEMMA ClientSetsPhase ==
    ASSUME IInv, \/ \E d \in Durations : SetPhaseDuration(d)
                 \/ \E i \in 1..Horizon : SetPhaseIndex(i)
    PROVE  IInv' /\ (Punctual /\ InTime => InTime')
<1>1. /\ active \in variants /\ Len(plan[active]) \in Nat
      /\ DOMAIN plan[active] = 1..Len(plan[active]) /\ step[active] \in 1..Len(plan[active])
      /\ \A i \in 1..Len(plan[active]) : plan[active][i].duration \in Nat \ {0}
  BY PhaseType DEF IInv, Programs
<1>2. PICK s \in 1..Len(plan[active]), d \in Int :
          /\ ChangeStepAndDuration(active, s, d)
          /\ Punctual => d >= 0
  <2>1. ASSUME NEW d \in Durations, SetPhaseDuration(d)
        PROVE  \E t \in 1..Len(plan[active]), b \in Int :
                  ChangeStepAndDuration(active, t, b) /\ (Punctual => b >= 0)
    BY <1>1, <2>1, LightsAssumption DEF SetPhaseDuration, Punctual
  <2>2. ASSUME NEW i \in 1..Horizon, SetPhaseIndex(i)
        PROVE  \E t \in 1..Len(plan[active]), b \in Int :
                  ChangeStepAndDuration(active, t, b) /\ (Punctual => b >= 0)
    <3>1. /\ i \in 1..Len(plan[active])
          /\ ChangeStepAndDuration(active, i, plan[active][i].duration)
      BY <1>1, <2>2 DEF SetPhaseIndex
    <3>2. plan[active][i].duration \in Int /\ plan[active][i].duration >= 0
      BY <1>1, <3>1
    <3>3. QED  BY <3>1, <3>2
  <2>3. QED  BY <2>1, <2>2
<1>3. UNCHANGED <<now, stage, variants, plan, lastSwitch, active, wautVars>>
  BY DEF SetPhaseDuration, SetPhaseIndex, ClientMay
<1>4. Programs' /\ Commands' /\ WautQueue' /\ (Punctual /\ InTime => InTime')
  BY <1>1, <1>2, <1>3, PhaseSet DEF wautVars
<1>5. WautState'
  BY <1>3 DEF IInv, WautState, Waut, Targets, wautVars
<1>6. QED  BY <1>4, <1>5 DEF IInv

(* A program was built, the WAUT does not care. *)
LEMMA WautUntouched ==
    ASSUME WautQueue, WautState, variants \subseteq variants', UNCHANGED wautVars,
           \A e : IsWaut(e) => (e \in events <=> e \in events')
    PROVE  WautQueue' /\ WautState'
<1>1. UNCHANGED <<waut, index, switched, at>> /\ Waut' = Waut
  BY DEF wautVars, Waut
<1>2. WautQueue'
  BY <1>1 DEF WautQueue
<1>3. switched \in Seq([from : variants', to : Targets'])
  BY MoreVariants DEF WautState
<1>4. WautState'
  BY <1>1, <1>3 DEF WautState
<1>5. QED  BY <1>2, <1>4

(* Nothing but the active program changes. *)
LEMMA ActivePlain ==
    ASSUME IInv, active' \in variants,
           UNCHANGED <<now, stage, events, variants, programVars, wautVars>>
    PROVE  IInv' /\ (InTime => InTime')
<1>1. Programs'
  BY DEF IInv, Programs, programVars
<1>2. Commands' /\ (InTime => InTime')
  BY DEF IInv, Commands, CommandsOf, Known, OneCurrent, IsCurrent, programVars, InTime
<1>3. WautQueue' /\ WautState'
  BY DEF IInv, WautQueue, WautState, Waut, Targets, wautVars
<1>4. QED  BY <1>1, <1>2, <1>3 DEF IInv

(* The client changes the program. *)
LEMMA ClientSetsProgram ==
    ASSUME IInv, NEW p \in variants \cup {"off"}, SetProgram(p)
    PROVE  IInv' /\ (InTime => InTime')
<1>1. UNCHANGED <<now, stage, wautVars>> /\ SwitchTo(p)
  BY DEF SetProgram, ClientMay
<1>2. CASE p \in variants
  <2>1. active' = p /\ UNCHANGED <<events, variants, programVars>>
    BY <1>1, <1>2 DEF SwitchTo, Activate
  <2>2. QED  BY <1>1, <1>2, <2>1, ActivePlain
<1>3. CASE p \notin variants
  <2>1. "off" \notin variants /\ Instantiate(events, "off", OffPlan, 1, 0)
    BY <1>1, <1>3 DEF SwitchTo
  <2>2. /\ Programs' /\ Commands' /\ variants' = variants \cup {"off"}
        /\ \A e : IsWaut(e) => (e \in events <=> e \in events')
        /\ (\A e \in events : OnTime(e)) => InTime'
    BY <1>1, <2>1, OffBuilt DEF IInv, Commands
  <2>3. WautQueue' /\ WautState'
    BY <1>1, <2>2, WautUntouched DEF IInv
  <2>4. QED  BY <2>2, <2>3 DEF IInv, InTime
<1>4. QED  BY <1>2, <1>3

(* The client sets a state: the program "online" has one phase, and shows it. *)
LEMMA ClientSetsState ==
    ASSUME IInv, NEW st \in States, SetState(st)
    PROVE  IInv' /\ (InTime => InTime')
<1>1. /\ UNCHANGED <<now, stage, wautVars>> /\ now \in Nat
      /\ OnlinePlan(st) \in Seq(Phase) /\ Len(OnlinePlan(st)) = 1 /\ "online" \in Program
  <2>1. st \in Signals /\ DeltaT \in Nat \ {0}
    BY LightsAssumption, DeltaTAssumption
  <2>2. OnlinePlan(st) \in Seq(Phase) /\ Len(OnlinePlan(st)) = 1
    BY <2>1 DEF OnlinePlan, Phase
  <2>3. QED  BY <2>2 DEF SetState, ClientMay, IInv, Programs, Program
<1>2. CASE "online" \in variants
  <2>1. /\ plan' = [plan EXCEPT !["online"] = OnlinePlan(st)] /\ active' = "online"
        /\ UNCHANGED <<events, variants, step, mySwitchCommand, lastSwitch>>
    BY <1>2 DEF SetState, Activate
  <2>2. /\ plan \in [Program -> Seq(Phase)] /\ step["online"] \in 1..1
        /\ "online" \notin Loaded /\ Actuated \subseteq Loaded /\ Loaded \subseteq Program
        /\ variants \subseteq Program
    BY <1>2, LightsAssumption, Plans DEF IInv, Programs
  <2>3. /\ plan' \in [Program -> Seq(Phase)] /\ plan'["online"] = OnlinePlan(st)
        /\ \A q \in Program : q # "online" => plan'[q] = plan[q]
    BY <1>1, <2>1, <2>2
  <2>4. \A q \in variants : step'[q] \in 1..Len(plan'[q])
    <3> SUFFICES ASSUME NEW q \in variants  PROVE step'[q] \in 1..Len(plan'[q])
      OBVIOUS
    <3>1. CASE q = "online"
      BY <3>1, <1>1, <2>1, <2>2, <2>3
    <3>2. CASE q # "online"
      BY <3>2, <2>1, <2>2, <2>3 DEF IInv, Programs
    <3>3. QED  BY <3>1, <3>2
  <2>5. \A q \in Loaded : plan'[q] = plan[q]
    BY <2>2, <2>3
  <2>6. \A q \in Actuated : lastSwitch'[q] \in [DOMAIN plan'[q] -> Int]
    BY <2>1, <2>2, <2>5 DEF IInv, Programs
  <2>7. Programs'
    BY <1>1, <1>2, <2>1, <2>3, <2>4, <2>5, <2>6 DEF IInv, Programs
  <2>8. Commands' /\ (InTime => InTime')
    BY <2>1 DEF IInv, Commands, CommandsOf, Known, OneCurrent, IsCurrent, InTime
  <2>9. WautQueue' /\ WautState'
    BY <1>1, <2>1 DEF IInv, WautQueue, WautState, Waut, Targets, wautVars
  <2>10. QED  BY <2>7, <2>8, <2>9 DEF IInv
<1>3. CASE "online" \notin variants
  <2>1. Instantiate(events, "online", OnlinePlan(st), 1, now + DeltaT)
    BY <1>3 DEF SetState
  <2>2. now + DeltaT \in Int /\ 1 \in 1..Len(OnlinePlan(st))
    BY <1>1, DeltaTAssumption
  <2>3. /\ Programs' /\ Commands' /\ variants' = variants \cup {"online"}
        /\ \A e : IsWaut(e) => (e \in events <=> e \in events')
        /\ (\A e \in events : OnTime(e)) => InTime'
    BY <1>1, <1>3, <2>1, <2>2, ProgramBuilt DEF IInv, Commands
  <2>4. WautQueue' /\ WautState'
    BY <1>1, <2>3, WautUntouched DEF IInv
  <2>5. QED  BY <2>3, <2>4 DEF IInv, InTime
<1>4. QED  BY <1>2, <1>3

(* What the client sends belongs to programs of the model. *)
LEMMA ClientPrograms == NewPrograms \subseteq Program
  BY ClientAssumption DEF Program

(* The client replaces the phases of a program, or builds a new one. *)
LEMMA ClientSetsComplete ==
    ASSUME IInv, NEW p \in NewPrograms, NEW s \in NewIndices, SetCompleteProgram(p, s)
    PROVE  IInv' /\ (InTime => InTime')
<1>1. /\ stage = "client" /\ UNCHANGED <<now, stage, wautVars>>
      /\ NewPlan \in Seq(Phase) /\ s \in 1..Len(NewPlan) /\ Len(NewPlan) \in Nat
      /\ p \in Loaded \cup {"new"} /\ p \in Program /\ p # "online" /\ "new" \notin Loaded
      /\ Begin \in Int
  BY Plans, LenProperties, LightsAssumption, ClientAssumption
     DEF SetCompleteProgram, ClientMay, Program
<1>2. CASE p \in variants
  <2>1. /\ plan' = [plan EXCEPT ![p] = NewPlan] /\ step' = [step EXCEPT ![p] = s]
        /\ lastSwitch' = [q \in Actuated |-> IF q = p THEN [i \in DOMAIN NewPlan |-> Begin]
                                             ELSE lastSwitch[q]]
        /\ UNCHANGED <<events, variants, mySwitchCommand, active>>
    BY <1>2 DEF SetCompleteProgram
  <2>2. /\ plan \in [Program -> Seq(Phase)] /\ step \in [Program -> Nat]
        /\ Actuated \subseteq Loaded /\ Loaded \subseteq Program /\ variants \subseteq Program
    BY LightsAssumption, Plans DEF IInv, Programs
  <2>3. /\ plan' \in [Program -> Seq(Phase)] /\ step' \in [Program -> Nat]
        /\ plan'[p] = NewPlan /\ step'[p] = s
        /\ \A q \in Program : q # p => plan'[q] = plan[q] /\ step'[q] = step[q]
    BY <1>1, <2>1, <2>2
  <2>4. \A q \in variants : step'[q] \in 1..Len(plan'[q])
    BY <1>1, <2>2, <2>3 DEF IInv, Programs
  <2>5. \A q \in Loaded : plan'[q] \in {Plan[q], NewPlan}
    BY <2>2, <2>3 DEF IInv, Programs
  <2>6. \A q \in Actuated : lastSwitch'[q] \in [DOMAIN plan'[q] -> Int]
    <3> SUFFICES ASSUME NEW q \in Actuated
                 PROVE  lastSwitch'[q] \in [DOMAIN plan'[q] -> Int]
      OBVIOUS
    <3>1. CASE q = p
      BY <3>1, <1>1, <2>1, <2>3
    <3>2. CASE q # p
      <4>1. lastSwitch'[q] = lastSwitch[q] /\ plan'[q] = plan[q]
        BY <3>2, <2>1, <2>2, <2>3
      <4>2. QED  BY <4>1 DEF IInv, Programs
    <3>3. QED  BY <3>1, <3>2
  <2>7. "online" \in variants' => Len(plan'["online"]) = 1
    BY <1>1, <2>1, <2>2, <2>3 DEF IInv, Programs
  <2>8. DOMAIN lastSwitch' = Actuated
    BY <2>1
  <2>9. Programs'
    BY <1>1, <2>1, <2>3, <2>4, <2>5, <2>6, <2>7, <2>8 DEF IInv, Programs
  <2>10. Commands' /\ (InTime => InTime')
    BY <2>1 DEF IInv, Commands, CommandsOf, Known, OneCurrent, IsCurrent, InTime
  <2>11. WautQueue' /\ WautState'
    BY <1>1, <2>1 DEF IInv, WautQueue, WautState, Waut, Targets, wautVars
  <2>12. QED  BY <2>9, <2>10, <2>11 DEF IInv
<1>3. CASE p \notin variants
  <2>1. Instantiate(events, p, NewPlan, s, 0)
    BY <1>3 DEF SetCompleteProgram
  <2>2. /\ Programs' /\ Commands' /\ variants' = variants \cup {p}
        /\ \A e : IsWaut(e) => (e \in events <=> e \in events')
        /\ (\A e \in events : OnTime(e)) => InTime'
    BY <1>1, <1>3, <2>1, ProgramBuilt DEF IInv, Commands
  <2>3. WautQueue' /\ WautState'
    BY <1>1, <2>2, WautUntouched DEF IInv
  <2>4. QED  BY <2>2, <2>3 DEF IInv, InTime
<1>4. QED  BY <1>2, <1>3
-----------------------------------------------------------------------------
(* The events. *)

(* A program switches by itself, and its command goes back into the queue. *)
LEMMA SwitchKeeps ==
    ASSUME IInv, MinsPositive, NEW e \in events, ExecuteSwitch(e)
    PROVE  IInv' /\ (InTime => InTime')
<1> DEFINE p == e.command.program
<1>1. /\ p \in variants /\ p \in Program /\ e.command.valid /\ ~IsWaut(e)
      /\ e \in Event /\ IsCurrent(e, p) /\ "waut" \notin Program
      /\ UNCHANGED <<now, stage, offset, variants, plan, mySwitchCommand, active, wautVars>>
  BY Plans DEF ExecuteSwitch, IInv, Commands, CommandsOf, Known, IsCurrent, IsWaut
<1>2. PICK o \in TrySwitch(p) :
        /\ step' = [step EXCEPT ![p] = o.step]
        /\ lastSwitch' = IF p \in Actuated /\ o.begun
                         THEN [lastSwitch EXCEPT ![p][o.step] = now] ELSE lastSwitch
        /\ events' = (events \ {e}) \cup
             Requeued(e, [e.command EXCEPT !.assumed = @ + o.returned], o.returned)
  BY DEF ExecuteSwitch
<1>3. o.step \in 1..Len(plan[p]) /\ o.returned \in Nat \ {0}
  BY <1>1, OutcomeType DEF IInv
<1> DEFINE c == [e.command EXCEPT !.assumed = @ + o.returned]
           N == [command |-> c, time |-> e.time + o.returned]
<1>4. events' = (events \ {e}) \cup {N}
  <2>1. ~(o.returned <= 0)
    BY <1>3
  <2>2. QED  BY <1>2, <2>1 DEF Requeued
<1>5. /\ N \in Event /\ N.command.program = p /\ N.command.number = e.command.number
      /\ N.command.valid = e.command.valid
      /\ N.command.assumed = e.command.assumed + o.returned
      /\ N.time = e.time + o.returned
  <2>1. e.command \in Cmd /\ e.time \in Int /\ e.command.assumed + o.returned \in Int
    BY <1>1, <1>3 DEF Event, Cmd
  <2>2. /\ c \in Cmd /\ c.program = p /\ c.number = e.command.number
        /\ c.valid = e.command.valid /\ c.assumed = e.command.assumed + o.returned
    BY <2>1 DEF Cmd
  <2>3. e.time + o.returned \in Int
    BY <1>3, <2>1
  <2> HIDE DEF c
  <2>4. QED  BY <2>2, <2>3 DEF Event, Cmd
<1> HIDE DEF N, p
<1>6. /\ \A q : IsCurrent(N, q) <=> IsCurrent(e, q)
      /\ Known(N)
      /\ \A f, q : IsCurrent(f, q)' <=> IsCurrent(f, q)
      /\ \A f : Known(f)' <=> Known(f)
  <2>1. Known(e)
    BY DEF IInv, Commands, CommandsOf
  <2>2. QED  BY <1>1, <1>5, <2>1 DEF IsCurrent, Known, p
<1>7. ASSUME NEW q \in variants  PROVE OneCurrent(events, q)'
  <2>1. PICK g \in events : {f \in events : IsCurrent(f, q)} = {g}
    BY DEF IInv, Commands, CommandsOf, OneCurrent
  <2>2. \A f \in events : IsCurrent(f, q) <=> f = g
    BY <2>1
  <2>3. CASE g = e
    <3>1. {f \in events' : IsCurrent(f, q)'} = {N}
      BY <1>4, <1>6, <2>2, <2>3
    <3>2. N \in events'
      BY <1>4
    <3>3. QED  BY <3>1, <3>2 DEF OneCurrent
  <2>4. CASE g # e
    <3>1. {f \in events' : IsCurrent(f, q)'} = {g} /\ g \in events'
      BY <1>4, <1>6, <2>2, <2>4
    <3>2. QED  BY <3>1 DEF OneCurrent
  <2>5. QED  BY <2>3, <2>4
<1>8. Commands'
  <2>1. events' \subseteq Event /\ \A f \in events' : Known(f)
    BY <1>4, <1>5, <1>6 DEF IInv, Commands, CommandsOf
  <2>2. QED  BY <2>1, <1>1, <1>6, <1>7 DEF Commands, CommandsOf, Event
<1>9. ~IsWaut(N)
  BY <1>1, <1>5 DEF IsWaut
<1>10. WautQueue' /\ WautState'
  <2>1. \A f : IsWaut(f) => (f \in events <=> f \in events')
    BY <1>1, <1>4, <1>9
  <2>2. QED  BY <1>1, <2>1, WautUntouched DEF IInv
<1>11. Programs'
  <2>1. /\ step \in [Program -> Nat] /\ Len(plan[p]) \in Nat
        /\ \A q \in variants : q \in Program /\ step[q] \in 1..Len(plan[q])
    BY <1>1, PhaseType DEF IInv, Programs
  <2>2. step' \in [Program -> Nat] /\ \A q \in variants : step'[q] \in 1..Len(plan[q])
    BY <1>1, <1>2, <1>3, <2>1
  <2>3. /\ DOMAIN lastSwitch' = Actuated
        /\ \A q \in Actuated : lastSwitch'[q] \in [DOMAIN plan[q] -> Int]
    <3>1. /\ DOMAIN lastSwitch = Actuated /\ now \in Int
          /\ \A q \in Actuated : lastSwitch[q] \in [DOMAIN plan[q] -> Int]
      BY DEF IInv, Programs
    <3>2. QED  BY <1>2, <3>1
  <2>4. QED  BY <1>1, <2>2, <2>3 DEF IInv, Programs
<1>12. InTime => InTime'
  <2>1. OnTime(e) => OnTime(N)
    BY <1>1, <1>5 DEF OnTime
  <2>2. \A f : OnTime(f)' <=> OnTime(f)
    BY DEF OnTime, IsWaut
  <2>3. QED  BY <1>4, <2>1, <2>2 DEF InTime
<1>13. QED  BY <1>8, <1>10, <1>11, <1>12 DEF IInv

(* A command that was descheduled is not the latest of its program. *)
LEMMA DescheduledKeeps ==
    ASSUME IInv, NEW e \in events, ExecuteDescheduled(e)
    PROVE  IInv' /\ (InTime => InTime')
<1>1. /\ ~e.command.valid /\ events' = events \ {e}
      /\ UNCHANGED <<now, stage, variants, programVars, active, wautVars>>
  BY DEF ExecuteDescheduled
<1>2. \A q \in variants : ~IsCurrent(e, q)
  BY <1>1 DEF IInv, Commands, CommandsOf, Known, IsCurrent
<1>3. ~IsWaut(e)
  BY <1>1 DEF IInv, WautQueue, WautCommand
<1>4. /\ \A f, q : IsCurrent(f, q)' <=> IsCurrent(f, q)
      /\ \A f : Known(f)' <=> Known(f)
  BY <1>1 DEF IsCurrent, Known, programVars
<1>5. ASSUME NEW q \in variants  PROVE OneCurrent(events, q)'
  <2>1. PICK g \in events : {f \in events : IsCurrent(f, q)} = {g}
    BY DEF IInv, Commands, CommandsOf, OneCurrent
  <2>2. g # e /\ \A f \in events : IsCurrent(f, q) <=> f = g
    BY <1>2, <2>1
  <2>3. {f \in events' : IsCurrent(f, q)'} = {g} /\ g \in events'
    BY <1>1, <1>4, <2>2
  <2>4. QED  BY <2>3 DEF OneCurrent
<1>6. Commands'
  BY <1>1, <1>4, <1>5 DEF IInv, Commands, CommandsOf, Event
<1>7. WautQueue' /\ WautState'
  <2>1. \A f : IsWaut(f) => (f \in events <=> f \in events')
    BY <1>1, <1>3
  <2>2. QED  BY <1>1, <2>1, WautUntouched DEF IInv
<1>8. Programs'
  BY <1>1 DEF IInv, Programs, programVars
<1>9. InTime => InTime'
  BY <1>1 DEF InTime, OnTime, IsWaut
<1>10. QED  BY <1>6, <1>7, <1>8, <1>9 DEF IInv

(* The WAUT initiates a switch and waits for its next one. *)
LEMMA WautKeeps ==
    ASSUME IInv, NEW e \in events, ExecuteWaut(e)
    PROVE  IInv' /\ (InTime => InTime')
<1> DEFINE d == NextWautSwitch
           to == Waut[index].to
           N == [command |-> WautCommand, time |-> e.time + d]
           queue == (events \ {e}) \cup Requeued(e, WautCommand, d)
<1>1. /\ e.command = WautCommand /\ IsWaut(e) /\ e \in Event /\ "waut" \notin Program
      /\ now \in Nat /\ stage = "events"
      /\ UNCHANGED <<now, stage, offset, waut, at, commands>>
      /\ switched' = Append(switched, [from |-> active, to |-> to]) /\ index' = index + 1
  BY Plans DEF ExecuteWaut, IsWaut, WautCommand, Pending, IInv, Programs, Commands,
               CommandsOf
<1>2. /\ Waut \in Seq([when : Nat, to : Loaded \cup {"off"}]) /\ Len(Waut) \in Nat
      /\ index \in 1..Len(Waut)
  <2>1. Waut \in Seq([when : Nat, to : Loaded \cup {"off"}])
    BY LightsAssumption DEF IInv, WautState, Waut
  <2>2. Len(Waut) \in Nat
    BY <2>1, LenProperties
  <2>3. index \in 1..(Len(Waut) + 1) /\ index <= Len(Waut)
    BY <1>1 DEF IInv, WautState, WautQueue
  <2>4. QED  BY <2>1, <2>2, <2>3
<1>3. to \in Loaded \cup {"off"} /\ d \in Int /\ (d > 0 => index + 1 \in 1..Len(Waut))
  <2>1. \A i \in 1..Len(Waut) : Waut[i].when \in Nat /\ Waut[i].to \in Loaded \cup {"off"}
    <3>1. \A i \in 1..Len(Waut) : Waut[i] \in [when : Nat, to : Loaded \cup {"off"}]
      BY <1>2, ElementOfSeq
    <3>2. QED  BY <3>1
  <2>2. index # Len(Waut) => index + 1 \in 1..Len(Waut)
    BY <1>2
  <2>3. d = IF index = Len(Waut) THEN 0 ELSE Waut[index + 1].when - now
    BY DEF NextWautSwitch
  <2> HIDE DEF d
  <2>4. QED  BY <1>1, <1>2, <2>1, <2>2, <2>3
<1> HIDE DEF d, to
<1>4. queue = IF d > 0 THEN (events \ {e}) \cup {N} ELSE events \ {e}
  BY <1>3 DEF Requeued
<1>5. N \in Event /\ IsWaut(N) /\ N.command = WautCommand
  <2>1. e.time + d \in Int
    BY <1>1, <1>3 DEF Event
  <2>2. QED  BY <2>1 DEF Event, WautCommand, IsWaut
<1> HIDE DEF N
<1>6. /\ Known(N)
      /\ \A f, q : IsWaut(f) /\ q \in variants => ~IsCurrent(f, q)
      /\ \A f \in queue : f \in events \/ f = N
      /\ \A f \in events : f # e => f \in queue
  <2>1. variants \subseteq Program
    BY DEF IInv, Programs
  <2>2. QED  BY <1>1, <1>4, <1>5, <2>1 DEF Known, IsWaut, IsCurrent
<1>7. ASSUME NEW q \in variants  PROVE OneCurrent(queue, q)
  <2>1. PICK g \in events : {f \in events : IsCurrent(f, q)} = {g}
    BY DEF IInv, Commands, CommandsOf, OneCurrent
  <2>2. g # e /\ \A f \in events : IsCurrent(f, q) <=> f = g
    BY <1>1, <1>6, <2>1
  <2> HIDE DEF queue
  <2>3. {f \in queue : IsCurrent(f, q)} = {g} /\ g \in queue
    BY <1>5, <1>6, <2>2
  <2>4. QED  BY <2>3 DEF OneCurrent
<1>8. CommandsOf(queue)
  <2>1. queue \subseteq Event /\ \A f \in queue : Known(f)
    BY <1>5, <1>6 DEF IInv, Commands, CommandsOf
  <2>2. QED  BY <1>7, <2>1 DEF CommandsOf
<1>9. \A f \in queue : IsWaut(f) => f = N /\ d > 0
  <2>1. \A f \in events : IsWaut(f) => f = e
    BY <1>1 DEF IInv, WautQueue
  <2>2. QED  BY <1>3, <1>4, <2>1
<1>10. InTime => \A f \in queue : OnTime(f)
  BY <1>5, <1>6 DEF InTime, OnTime
<1>11. /\ Programs' /\ Commands' /\ variants \subseteq variants' /\ to \in variants'
       /\ \A f : IsWaut(f) => (f \in queue <=> f \in events')
       /\ InTime => InTime'
  <2>1. CASE to \in variants
    <3>1. events' = queue /\ UNCHANGED <<variants, programVars, active>>
      BY <2>1 DEF ExecuteWaut, queue, to, d
    <3>2. Programs'
      BY <1>1, <3>1 DEF IInv, Programs, programVars
    <3>3. /\ \A f, q : IsCurrent(f, q)' <=> IsCurrent(f, q)
          /\ \A f : Known(f)' <=> Known(f)
          /\ \A f : OnTime(f)' <=> OnTime(f)
      BY <3>1 DEF IsCurrent, Known, programVars, OnTime, IsWaut
    <3> HIDE DEF queue
    <3>4. Commands'
      BY <1>8, <3>1, <3>3 DEF Commands, CommandsOf, OneCurrent, Event
    <3>5. InTime => InTime'
      BY <1>10, <3>1, <3>3 DEF InTime
    <3>6. QED  BY <2>1, <3>1, <3>2, <3>4, <3>5
  <2>2. CASE to \notin variants
    <3>1. Instantiate(queue, "off", OffPlan, 1, 0)
      BY <2>2 DEF ExecuteWaut, queue, to, d
    <3>2. to = "off" /\ "off" \notin variants
      BY <1>3, <2>2 DEF IInv, Programs
    <3> HIDE DEF queue
    <3>3. /\ Programs' /\ Commands' /\ variants' = variants \cup {"off"}
          /\ \A f : IsWaut(f) => (f \in queue <=> f \in events')
          /\ (\A f \in queue : OnTime(f)) => InTime'
      BY <1>1, <1>8, <3>1, <3>2, OffBuilt DEF IInv
    <3>4. QED  BY <1>10, <3>2, <3>3
  <2>3. QED  BY <2>1, <2>2
<1> HIDE DEF queue
<1>12. \A f \in events' : IsWaut(f) => f = N /\ d > 0
  BY <1>9, <1>11
<1>13. WautQueue'
  <2>1. Waut' = Waut /\ index' = index + 1
    BY <1>1 DEF Waut
  <2>2. d > 0 => index' <= Len(Waut)
    BY <1>2, <1>3, <2>1
  <2>3. QED  BY <1>5, <1>12, <2>1, <2>2 DEF WautQueue, IsWaut, WautCommand
<1>14. WautState'
  <2>1. switched \in Seq([from : variants', to : Targets'])
    BY <1>11, MoreVariants DEF IInv, WautState
  <2>2. [from |-> active, to |-> to] \in [from : variants', to : Targets']
    BY <1>3, <1>11 DEF IInv, Programs, Targets
  <2>3. switched' \in Seq([from : variants', to : Targets'])
    BY <1>1, <2>1, <2>2, AppendProperties
  <2>4. index' \in 1..(Len(Waut) + 1) /\ Waut' = Waut
    BY <1>1, <1>2 DEF Waut
  <2>5. QED  BY <1>1, <2>3, <2>4 DEF IInv, WautState
<1>15. QED  BY <1>11, <1>13, <1>14 DEF IInv

(* The durations the procedures compute are numbers. *)
LEMMA ProcedureDurations ==
    ASSUME IInv, NEW p \in Loaded
    PROVE  /\ IndexFromOffset(plan[p], DefaultCycle(p), GSPValue(p)) \in 1..Len(plan[p])
           /\ switchToPos(p) => \E s \in 1..Len(plan[p]), d \in Int :
                                    ChangeStepAndDuration(p, s, d)
           /\ adaptLogic(p) => \E s \in 1..Len(plan[p]), d \in Int :
                                   ChangeStepAndDuration(p, s, d)
<1> DEFINE c == DefaultCycle(p)
           g == GSPValue(p)
           s == IndexFromOffset(plan[p], c, g)
<1>1. /\ p \in variants /\ plan[p] \in {Plan[q] : q \in Loaded} \cup {NewPlan} /\ now \in Nat
      /\ g \in Nat /\ c \in Nat
  <2>1. p \in variants /\ plan[p] \in {Plan[q] : q \in Loaded} \cup {NewPlan} /\ now \in Nat
    BY DEF IInv, Programs
  <2>2. g \in Nat
    BY LightsAssumption DEF GSPValue
  <2>3. c \in Nat
    <3>1. p # "off" /\ p # "online" /\ p # "new"
      BY LightsAssumption
    <3>2. DefaultCycle(p) = Cycle(Plan[p])
      BY <3>1 DEF DefaultCycle
    <3>3. QED  BY <3>2, Plans
  <2>4. QED  BY <2>1, <2>2, <2>3
<1>2. /\ plan[p] \in Seq(Phase) /\ Len(plan[p]) \in Nat \ {0} /\ step[p] \in 1..Len(plan[p])
      /\ \A i \in 1..Len(plan[p]) : plan[p][i].duration \in Nat
  BY <1>1, PhaseType DEF IInv
<1>3. \A i \in 1..(Len(plan[p]) + 1) : OffsetFromIndex(plan[p], i) \in Nat
  BY <1>2, SumType
<1>4. \A pos : IndexFromOffset(plan[p], c, pos) \in 1..Len(plan[p])
  BY <1>2, IndexType
<1>5. \A i \in 1..Len(plan[p]) : i \in 1..(Len(plan[p]) + 1)
  BY <1>2
<1>6. \A pos \in Int : Diff(p, pos) \in Int
  BY <1>3, <1>4, <1>5 DEF Diff
<1>7. ProgramTime(p) \in Int
  <2>1. NextSwitchTime(p) \in Int
    BY <1>1, NextSwitchType DEF IInv
  <2>2. OffsetFromIndex(plan[p], step[p]) \in Nat /\ plan[p][step[p]].duration \in Nat
    BY <1>2, <1>3, <1>5
  <2> HIDE DEF c, g, s
  <2>3. QED  BY <1>1, <2>1, <2>2 DEF ProgramTime
<1>8. s \in 1..Len(plan[p]) /\ plan[p][s].duration \in Nat
  BY <1>2, <1>4
<1>9. ASSUME switchToPos(p)
      PROVE  \E t \in 1..Len(plan[p]), d \in Int : ChangeStepAndDuration(p, t, d)
  <2>1. ChangeStepAndDuration(p, s, plan[p][s].duration - Diff(p, g))
    BY <1>9 DEF switchToPos
  <2>2. Diff(p, g) \in Int
    BY <1>1, <1>6
  <2> HIDE DEF c, g, s
  <2>3. plan[p][s].duration - Diff(p, g) \in Int
    BY <1>8, <2>2
  <2>4. QED  BY <1>8, <2>1, <2>3
<1>10. ASSUME adaptLogic(p)
       PROVE  \E t \in 1..Len(plan[p]), d \in Int : ChangeStepAndDuration(p, t, d)
  <2> DEFINE gsp == IF g = c THEN 0 ELSE g
             stretch == IF gsp >= ProgramTime(p) THEN gsp - ProgramTime(p)
                        ELSE c - ProgramTime(p) + gsp
  <2>1. ChangeStepAndDuration(p, s, plan[p][s].duration - Diff(p, gsp) + stretch)
    BY <1>10 DEF adaptLogic
  <2> HIDE DEF c, g, s
  <2>2. gsp \in Int /\ stretch \in Int
    BY <1>1, <1>7
  <2> HIDE DEF gsp, stretch
  <2>3. Diff(p, gsp) \in Int
    BY <1>6, <2>2
  <2>4. plan[p][s].duration - Diff(p, gsp) + stretch \in Int
    BY <1>8, <2>2, <2>3
  <2>5. QED  BY <1>8, <2>1, <2>4
<1>11. QED  BY <1>8, <1>9, <1>10

(* How long it takes a program to its GSP. *)
Wait(p) == IF ProgramTime(p) <= GSP[p] THEN GSP[p] - ProgramTime(p)
           ELSE Cycle(Plan[p]) + GSP[p] - ProgramTime(p)

(* The procedures of a WAUT: the time that is left of the phase of the GSP, and for
   those that stretch the phase the time until the GSP. *)
LEMMA GSPDurations ==
    ASSUME IInv, NEW p \in Loaded, NextSwitchTime(p) >= now,
           GSP[p] < Cycle(Plan[p]), GSP[p] < Cycle(plan[p]),
           Cycle(plan[p]) <= Cycle(Plan[p]) + GSP[p]
    PROVE  LET s == IndexFromOffset(plan[p], Cycle(Plan[p]), GSP[p])
               rest == OffsetFromIndex(plan[p], s + 1) - GSP[p]
           IN /\ s \in 1..Len(plan[p]) /\ rest \in Nat \ {0} /\ Wait(p) \in Nat
              /\ switchToPos(p) \/ adaptLogic(p) =>
                    \E w \in {0, Wait(p)} : ChangeStepAndDuration(p, s, rest + w)
<1> DEFINE ph == plan[p]
           c == Cycle(Plan[p])
           whole == Cycle(ph)
           g == GSP[p]
           s == IndexFromOffset(ph, c, g)
           begin == OffsetFromIndex(ph, s)
           end == OffsetFromIndex(ph, s + 1)
           d == ph[s].duration
           x == ProgramTime(p)
<1>1. /\ p \in variants /\ plan[p] = ph /\ ph \in Seq(Phase) /\ Len(ph) \in Nat \ {0}
      /\ now \in Nat /\ step[p] \in 1..Len(ph) /\ c \in Nat \ {0} /\ g \in Nat /\ g < c
      /\ NextSwitchTime(p) \in Int /\ whole \in Nat /\ g < whole /\ whole <= c + g
  <2>1. p \in variants /\ now \in Nat /\ plan[p] \in {Plan[p], NewPlan}
    BY DEF IInv, Programs
  <2>2. NextSwitchTime(p) \in Int
    BY <2>1, NextSwitchType DEF IInv
  <2>3. ph \in Seq(Phase) /\ Len(ph) \in Nat \ {0} /\ step[p] \in 1..Len(ph)
    BY <2>1, PhaseType DEF IInv
  <2>4. c \in Nat \ {0} /\ g \in Nat /\ whole \in Nat
    BY <2>1, Plans, LightsAssumption
  <2>5. QED  BY <2>1, <2>2, <2>3, <2>4
<1>2. DefaultCycle(p) = c /\ GSPValue(p) = g
  <2>1. p # "off" /\ p # "online" /\ p # "new"
    BY LightsAssumption
  <2>2. QED  BY <2>1 DEF DefaultCycle, GSPValue
<1>3. x \in Int /\ x <= whole
  <2> DEFINE b == OffsetFromIndex(ph, step[p])
             dur == ph[step[p]].duration
             t == NextSwitchTime(p)
  <2>1. b \in Nat /\ dur \in Nat /\ b + dur <= whole
    BY <1>1, PhasesFill
  <2>2. x = b + (dur - (t - now)) /\ t \in Int /\ t >= now /\ now \in Int /\ whole \in Int
    BY <1>1 DEF ProgramTime
  <2> HIDE DEF x, b, dur, t, whole
  <2>3. QED  BY <2>1, <2>2
<1>4. s \in 1..Len(ph) /\ end > g
  <2>1. g % c = g
    <3> HIDE DEF g, c
    <3>1. 0 \in Int /\ g - 0 * c = g /\ g \in 0..(c - 1) /\ g \in Int
      BY <1>1
    <3>2. QED  BY <1>1, <3>1, OneRemainder
  <2> DEFINE B == EndsBehind(ph, g)
  <2>2. DOMAIN ph = 1..Len(ph) /\ Len(ph) \in 1..Len(ph)
    BY <1>1, LenProperties
  <2>3. Len(ph) \in B
    BY <1>1, <2>2 DEF EndsBehind, Cycle
  <2>4. B \subseteq Nat
    BY <2>2 DEF EndsBehind
  <2>5. Min(B) \in B
    <3> HIDE DEF B
    <3>1. QED  BY <2>3, <2>4, LeastIn
  <2>6. s = Min(B)
    BY <2>1, <2>3 DEF IndexFromOffset
  <2> HIDE DEF s
  <2>7. QED  BY <2>2, <2>5, <2>6 DEF EndsBehind
<1>5. begin \in Nat /\ end \in Nat /\ d \in Nat /\ end = begin + d
  BY <1>1, <1>4, PhasesFill
<1>6. Diff(p, g) = g - begin
  BY <1>1, <1>2 DEF Diff
<1>7. Wait(p) = IF x <= g THEN g - x ELSE c + g - x
  BY DEF Wait
<1>8. switchToPos(p) => ChangeStepAndDuration(p, s, d - Diff(p, g))
  BY <1>1, <1>2 DEF switchToPos
<1>9. adaptLogic(p) => ChangeStepAndDuration(p, s, d - Diff(p, g)
                          + IF g >= x THEN g - x ELSE c - x + g)
  <2>1. g # c
    BY <1>1
  <2>2. QED  BY <1>1, <1>2, <2>1 DEF adaptLogic
<1> HIDE DEF ph, c, whole, g, s, begin, end, d, x
<1>10. end - g \in Nat \ {0} /\ Wait(p) \in Nat
  BY <1>1, <1>3, <1>4, <1>5, <1>7
<1>11. d - Diff(p, g) = end - g + 0 /\ d - Diff(p, g) \in Int
  BY <1>1, <1>5, <1>6
<1>12. (IF g >= x THEN g - x ELSE c - x + g) = Wait(p)
  BY <1>1, <1>3, <1>7
<1>13. d - Diff(p, g) = end - g
  BY <1>1, <1>5, <1>6
<1>14. switchToPos(p) => ChangeStepAndDuration(p, s, end - g + 0)
  BY <1>8, <1>11
<1>15. adaptLogic(p) => ChangeStepAndDuration(p, s, end - g + Wait(p))
  BY <1>9, <1>12, <1>13
<1>16. QED  BY <1>4, <1>10, <1>14, <1>15 DEF ph, c, g, s, end

(* A process of the procedure "GSP" plans the next switch of a program, and in the
   future if the reference points lie within the cycles. *)
LEMMA ProcedureSets ==
    ASSUME IInv, Switch, waut.procedure = "GSP"
    PROVE  \E p \in variants : \E s \in 1..Len(plan[p]), d \in Int :
              /\ p = switched[at].to /\ ChangeStepAndDuration(p, s, d)
              /\ Punctual /\ InTime /\ NotOverdue => d >= 0
<1> DEFINE to == switched[at].to
<1>1. /\ to \in variants /\ to \in Loaded \cup {"off"}
      /\ stage = "check" /\ (switchToPos(to) \/ adaptLogic(to))
  <2>1. at \in Nat \ {0} /\ switched \in Seq([from : variants, to : Targets])
    BY DEF IInv, WautState
  <2>2. Len(switched) \in Nat /\ at <= Len(switched)
    BY <2>1, LenProperties DEF Switch
  <2>3. at \in 1..Len(switched)
    BY <2>1, <2>2
  <2>4. switched[at] \in [from : variants, to : Targets]
    BY <2>1, <2>3, ElementOfSeq
  <2>5. QED  BY <2>4 DEF Targets, Switch
<1> HIDE DEF to
<1>2. CASE to = "off"
  <2>1. UNCHANGED <<events, mySwitchCommand, step>>
    BY <1>1, <1>2 DEF switchToPos, adaptLogic, ChangeStepAndDuration
  <2>2. ChangeStepAndDuration(to, step[to], 0)
    BY <1>2, <2>1 DEF ChangeStepAndDuration
  <2>3. step[to] \in 1..Len(plan[to])
    BY <1>1 DEF IInv, Programs
  <2>4. QED  BY <1>1, <2>2, <2>3 DEF to
<1>3. CASE to \in Loaded /\ ~(Punctual /\ InTime /\ NotOverdue)
  <2>1. \E s \in 1..Len(plan[to]), d \in Int : ChangeStepAndDuration(to, s, d)
    BY <1>1, <1>3, ProcedureDurations
  <2>2. QED  BY <1>1, <1>3, <2>1 DEF to
<1>4. CASE to \in Loaded /\ Punctual /\ InTime /\ NotOverdue
  <2>1. NextSwitchTime(to) >= now
    <3>1. PICK e \in events : IsCurrent(e, to) /\ NextSwitchTime(to) = e.command.assumed
      BY <1>1, NextSwitchType DEF IInv
    <3>2. e.command.valid /\ ~IsWaut(e)
      BY <1>4, <3>1, Plans DEF IInv, Commands, CommandsOf, Known, IsCurrent, IsWaut, Programs
    <3>3. e.command.assumed = e.time
      BY <1>4, <3>2 DEF InTime, OnTime
    <3>4. e.time >= now
      BY <1>1, <1>4 DEF NotOverdue
    <3>5. QED  BY <3>1, <3>3, <3>4
  <2>2. GSPsWithin
    BY <1>4 DEF Punctual, IInv, WautState
  <2>3. plan[to] \in {Plan[to], NewPlan} /\ GSP[to] \in Nat /\ Cycle(Plan[to]) \in Nat
    BY <1>4, Plans, LightsAssumption DEF IInv, Programs
  <2>4. /\ GSP[to] < Cycle(Plan[to]) /\ GSP[to] < Cycle(plan[to])
        /\ Cycle(plan[to]) <= Cycle(Plan[to]) + GSP[to]
    BY <1>4, <2>2, <2>3 DEF GSPsWithin
  <2> DEFINE s == IndexFromOffset(plan[to], Cycle(Plan[to]), GSP[to])
             rest == OffsetFromIndex(plan[to], s + 1) - GSP[to]
  <2>5. /\ s \in 1..Len(plan[to]) /\ rest \in Nat \ {0} /\ Wait(to) \in Nat
        /\ \E w \in {0, Wait(to)} : ChangeStepAndDuration(to, s, rest + w)
    BY <1>1, <1>4, <2>1, <2>4, GSPDurations
  <2> HIDE DEF s, rest
  <2>6. PICK w \in {0, Wait(to)} : ChangeStepAndDuration(to, s, rest + w)
    BY <2>5
  <2>7. rest + w \in Int /\ rest + w >= 0
    BY <2>5
  <2>8. QED  BY <1>1, <2>5, <2>6, <2>7 DEF to
<1>5. QED  BY <1>1, <1>2, <1>3, <1>4

(* Only the end of the events leads to check2Switch, which plans nothing in the past. *)
LEMMA StaysNotOverdue ==
    ASSUME IInv, NotOverdue, [Next]_vars
    PROVE  NotOverdue'
<1> SUFFICES ASSUME stage' = "check"
             PROVE  \A e \in events' : e.time >= now'
  BY DEF NotOverdue
<1>1. /\ now \in Nat /\ DeltaT \in Nat /\ now + DeltaT >= now
      /\ \A e \in events : e.time \in Int
  <2>1. now \in Nat /\ \A e \in events : e.time \in Int
    BY DEF IInv, Programs, Commands, CommandsOf, Event
  <2>2. DeltaT \in Nat
    BY DeltaTAssumption
  <2>3. QED  BY <2>1, <2>2
<1>2. EndEvents \/ Switch \/ GoOnWaiting \/ UNCHANGED vars
  BY DEF Next, Terminated, Client, ClientMay, ChangeOffset, StartSimulation,
         SetPhaseDuration, SetPhaseIndex, SetProgram, SetState, SetCompleteProgram,
         StartEvents, ExecuteSwitch, ExecuteDescheduled, ExecuteWaut, EndCheck,
         NextSimulationStep
<1>3. CASE EndEvents
  <2>1. /\ UNCHANGED <<events, now>>
        /\ \A e \in events : ~(e.time < now + DeltaT)
    BY <1>3 DEF EndEvents, IsDue
  <2>2. \A e \in events : e.time >= now
    BY <1>1, <2>1
  <2>3. QED  BY <2>1, <2>2
<1>4. CASE GoOnWaiting \/ UNCHANGED vars
  BY <1>4 DEF GoOnWaiting, vars, NotOverdue
<1>5. CASE Switch
  <2>1. stage = "check" /\ now' = now
    BY <1>5 DEF Switch
  <2>2. \A e \in events : e.time >= now
    BY <2>1 DEF NotOverdue
  <2>3. ASSUME NEW p \in Program, NEW s, NEW d \in Int, ChangeStepAndDuration(p, s, d)
        PROVE  \A e \in events' : e.time >= now
    <3>1. CASE p = "off"
      BY <2>2, <2>3, <3>1 DEF ChangeStepAndDuration
    <3>2. CASE p # "off"
      <4>1. events' = Descheduled(p) \cup
                {[command |-> Command(p, mySwitchCommand[p] + 1, now + d),
                  time |-> IF now + d <= now THEN now ELSE now + d]}
        BY <2>3, <3>2 DEF ChangeStepAndDuration, AddAdapted
      <4>2. \A e \in Descheduled(p) : e.time >= now
        <5>1. events \subseteq Event
          BY DEF IInv, Commands, CommandsOf
        <5>2. \A e \in events :
                [e EXCEPT !.command.valid = FALSE, !.command.assumed = -1].time = e.time
          BY <5>1, Descheduling
        <5>3. QED  BY <2>2, <5>2 DEF Descheduled
      <4>3. (IF now + d <= now THEN now ELSE now + d) >= now
        BY <1>1
      <4>4. QED  BY <4>1, <4>2, <4>3
    <3>3. QED  BY <3>1, <3>2
  <2>4. CASE waut.procedure # "GSP"
    <3>1. events' = events
      BY <1>5, <2>4 DEF Switch
    <3>2. QED  BY <2>1, <2>2, <3>1
  <2>5. CASE waut.procedure = "GSP"
    <3>1. PICK p \in variants, s, d \in Int : ChangeStepAndDuration(p, s, d)
      BY <1>5, <2>5, ProcedureSets
    <3>2. p \in Program
      BY DEF IInv, Programs
    <3>3. QED  BY <2>1, <2>3, <3>1, <3>2
  <2>6. QED  BY <2>4, <2>5
<1>6. QED  BY <1>2, <1>3, <1>4, <1>5

(* A process ends. *)
LEMMA ProcessKeeps ==
    ASSUME IInv, Switch
    PROVE  IInv' /\ (Punctual /\ InTime /\ NotOverdue => InTime')
<1> DEFINE to == switched[at].to
<1>1. /\ UNCHANGED <<now, stage, offset, variants, plan, lastSwitch, waut, index, at>>
      /\ active' = to /\ switched' = RemoveAt(switched, at)
      /\ at \in 1..Len(switched) /\ switched \in Seq([from : variants, to : Targets])
      /\ Len(switched) \in Nat
  <2>1. at \in Nat \ {0} /\ switched \in Seq([from : variants, to : Targets])
    BY DEF IInv, WautState
  <2>2. Len(switched) \in Nat
    BY <2>1, LenProperties
  <2>3. QED  BY <2>1, <2>2 DEF Switch, Activate
<1>2. to \in variants /\ to \in Loaded \cup {"off"}
  <2>1. switched[at] \in [from : variants, to : Targets]
    BY <1>1, ElementOfSeq
  <2>2. QED  BY <2>1 DEF Targets
<1>3. switched' \in Seq([from : variants, to : Targets])
  BY <1>1, RemoveAtIndex
<1>4. WautState'
  BY <1>1, <1>3 DEF IInv, WautState, Waut, Targets
<1> HIDE DEF to
<1>5. CASE waut.procedure # "GSP"
  <2>1. UNCHANGED <<events, mySwitchCommand, step>>
    BY <1>5 DEF Switch
  <2>2. Programs'
    BY <1>1, <1>2, <2>1 DEF IInv, Programs
  <2>3. Commands' /\ (InTime => InTime')
    BY <1>1, <2>1 DEF IInv, Commands, CommandsOf, Known, OneCurrent, IsCurrent, InTime
  <2>4. WautQueue'
    BY <1>1, <2>1 DEF IInv, WautQueue, Waut
  <2>5. QED  BY <1>4, <2>2, <2>3, <2>4 DEF IInv
<1>6. CASE waut.procedure = "GSP"
  <2>1. PICK s \in 1..Len(plan[to]), d \in Int :
          /\ ChangeStepAndDuration(to, s, d)
          /\ Punctual /\ InTime /\ NotOverdue => d >= 0
    BY <1>6, ProcedureSets DEF to
  <2>2. /\ Programs' /\ Commands' /\ WautQueue'
        /\ InTime /\ d >= 0 => InTime'
    BY <1>1, <1>2, <2>1, PhaseSet
  <2>3. QED  BY <1>4, <2>1, <2>2 DEF IInv
<1>7. QED  BY <1>5, <1>6
-----------------------------------------------------------------------------
(* The initial states. *)

(* The first switch in the future is well defined. *)
LEMMA FirstSwitchIn ==
    ASSUME waut \in Wauts
    PROVE  /\ FutureSwitches \subseteq 1..Len(Waut) /\ Len(Waut) \in Nat
           /\ FutureSwitches # {} =>
                /\ FirstSwitch \in FutureSwitches
                /\ \A j \in FutureSwitches : Waut[FirstSwitch].when <= Waut[j].when
           /\ \A i \in FutureSwitches : Waut[i].when \in Nat
           /\ \A i \in 1..Len(Waut) : Waut[i].to \in Loaded \cup {"off"}
<1>1. Waut \in Seq([when : Nat, to : Loaded \cup {"off"}])
  BY LightsAssumption DEF Waut
<1>2. Len(Waut) \in Nat /\ DOMAIN Waut = 1..Len(Waut)
  BY <1>1, LenProperties
<1>3. \A i \in 1..Len(Waut) : Waut[i] \in [when : Nat, to : Loaded \cup {"off"}]
  BY <1>1, ElementOfSeq
<1>4. FutureSwitches \subseteq 1..Len(Waut)
  BY <1>2 DEF FutureSwitches
<1>5. ASSUME FutureSwitches # {}
      PROVE  /\ FirstSwitch \in FutureSwitches
             /\ \A j \in FutureSwitches : Waut[FirstSwitch].when <= Waut[j].when
  <2> DEFINE W == {Waut[i].when : i \in FutureSwitches}
  <2>1. W \in SUBSET Nat /\ W # {}
    BY <1>3, <1>4, <1>5
  <2>2. PICK w \in W : \A n \in W : w <= n
    <3> HIDE DEF W
    <3>1. QED  BY <2>1, LeastNumber
  <2> DEFINE I == {i \in FutureSwitches : Waut[i].when = w}
  <2>3. I \in SUBSET Nat /\ I # {}
    <3>1. PICK i \in FutureSwitches : Waut[i].when = w
      BY <2>2
    <3>2. i \in I
      BY <3>1
    <3>3. FutureSwitches \subseteq Nat
      BY <1>2, <1>4
    <3>4. QED  BY <3>2, <3>3
  <2>4. PICK k \in I : \A n \in I : k <= n
    <3> HIDE DEF I
    <3>1. QED  BY <2>3, LeastNumber
  <2>5. ASSUME NEW j \in FutureSwitches
        PROVE  Waut[k].when < Waut[j].when \/ (Waut[k].when = Waut[j].when /\ k <= j)
    <3>1. w <= Waut[j].when /\ w \in Nat /\ Waut[j].when \in Nat /\ Waut[k].when = w
      BY <1>3, <1>4, <2>1, <2>2, <2>4
    <3>2. CASE Waut[j].when = w
      BY <3>1, <3>2, <2>4
    <3>3. CASE Waut[j].when # w
      BY <3>1, <3>3
    <3>4. QED  BY <3>2, <3>3
  <2>6. \E i \in FutureSwitches : \A j \in FutureSwitches :
            Waut[i].when < Waut[j].when \/ (Waut[i].when = Waut[j].when /\ i <= j)
    <3>1. k \in FutureSwitches
      BY <2>4
    <3>2. QED  BY <3>1, <2>5
  <2>7. /\ FirstSwitch \in FutureSwitches
        /\ \A j \in FutureSwitches :
              \/ Waut[FirstSwitch].when < Waut[j].when
              \/ Waut[FirstSwitch].when = Waut[j].when /\ FirstSwitch <= j
    BY <2>6 DEF FirstSwitch
  <2>8. \A j \in FutureSwitches : Waut[j].when \in Nat
    BY <1>3, <1>4
  <2>9. QED  BY <2>7, <2>8
<1>6. QED  BY <1>2, <1>3, <1>4, <1>5

(* Where the WAUT begins. *)
LEMMA InitProgIn ==
    ASSUME waut \in Wauts
    PROVE  /\ InitProg \in Loaded \cup {"off"}
           /\ (IF FutureSwitches = {} THEN Len(Waut) + 1 ELSE FirstSwitch) \in 1..(Len(Waut) + 1)
<1> DEFINE first == IF FutureSwitches = {} THEN Len(Waut) + 1 ELSE FirstSwitch
<1>1. /\ Len(Waut) \in Nat /\ FutureSwitches \subseteq 1..Len(Waut)
      /\ FutureSwitches # {} => FirstSwitch \in FutureSwitches
      /\ \A i \in 1..Len(Waut) : Waut[i].to \in Loaded \cup {"off"}
  BY FirstSwitchIn
<1>2. first \in 1..(Len(Waut) + 1)
  <2>1. CASE FutureSwitches = {}
    BY <1>1, <2>1
  <2>2. CASE FutureSwitches # {}
    <3>1. first = FirstSwitch /\ FirstSwitch \in 1..Len(Waut)
      BY <1>1, <2>2
    <3> HIDE DEF first
    <3>2. QED  BY <1>1, <3>1
  <2>3. QED  BY <2>1, <2>2
<1>3. InitProg = IF first = 1 THEN waut.startProg ELSE Waut[first - 1].to
  BY DEF InitProg
<1> HIDE DEF first
<1>4. CASE first = 1
  <2>1. waut.startProg \in Loaded
    BY LightsAssumption
  <2>2. QED  BY <1>2, <1>3, <1>4, <2>1 DEF first
<1>5. CASE first # 1
  <2>1. first - 1 \in 1..Len(Waut)
    BY <1>1, <1>2, <1>5
  <2>2. InitProg = Waut[first - 1].to
    BY <1>3, <1>5
  <2>3. QED  BY <1>1, <1>2, <2>1, <2>2 DEF first
<1>6. QED  BY <1>2, <1>4, <1>5 DEF first

(* In an initial state every program is in the phase its offset says. *)
LEMMA InitProgramsHold ==
    ASSUME Init
    PROVE  Programs
<1>1. /\ now = Begin /\ stage = "load" /\ waut \in Wauts /\ offset = Offset
      /\ active = InitProg /\ variants = Loaded \cup {active}
      /\ plan = [p \in Program |-> IF p \in Loaded THEN Plan[p]
                                   ELSE IF p = "off" THEN OffPlan ELSE <<>>]
      /\ step = [p \in Program |-> IF p \in Loaded THEN FirstStep(Plan[p], offset[p]) ELSE 1]
      /\ mySwitchCommand = [p \in Program |-> IF p \in variants THEN 1 ELSE 0]
      /\ lastSwitch = [p \in Actuated |-> [i \in DOMAIN Plan[p] |-> Begin]]
  BY DEF Init
<1>2. /\ active \in Loaded \cup {"off"} /\ now \in Nat
      /\ Loaded \subseteq Program /\ "off" \in Program /\ Actuated \subseteq Loaded
      /\ "online" \notin Loaded
      /\ Offset \in [Loaded -> Int] /\ Begin \in Int
  BY <1>1, InitProgIn, LightsAssumption, Plans DEF Program
<1>3. /\ \A p \in Loaded : Plan[p] \in Seq(Phase) /\ Len(Plan[p]) \in Nat
      /\ OffPlan \in Seq(Phase) /\ Len(OffPlan) = 1 /\ <<>> \in Seq(Phase)
  BY Plans, EmptySeq
<1>4. \A p \in Loaded : FirstStep(Plan[p], offset[p]) \in 1..Len(Plan[p])
  BY <1>1, <1>2, FirstStepType
<1>5. /\ plan \in [Program -> Seq(Phase)]
      /\ mySwitchCommand \in [Program -> Nat]
  <2>1. \A p \in Program : (IF p \in Loaded THEN Plan[p]
                           ELSE IF p = "off" THEN OffPlan ELSE <<>>) \in Seq(Phase)
    BY <1>3
  <2>2. plan \in [Program -> Seq(Phase)]
    BY <1>1, <2>1
  <2>3. mySwitchCommand \in [Program -> Nat]
    BY <1>1
  <2>4. QED  BY <2>2, <2>3
<1>6. \A p \in Loaded : plan[p] = Plan[p] /\ step[p] \in 1..Len(Plan[p])
  BY <1>1, <1>2, <1>4
<1>7. \A p \in variants : step[p] \in 1..Len(plan[p])
  <2>1. "off" \notin Loaded => plan["off"] = OffPlan /\ step["off"] = 1
    <3>1. /\ plan = [p \in Program |-> IF p \in Loaded THEN Plan[p]
                                       ELSE IF p = "off" THEN OffPlan ELSE <<>>]
          /\ step = [p \in Program |-> IF p \in Loaded
                                       THEN FirstStep(Plan[p], offset[p]) ELSE 1]
          /\ "off" \in Program
      BY <1>1, <1>2
    <3>2. QED  BY <3>1
  <2>2. "off" \notin Loaded => step["off"] \in 1..Len(plan["off"])
    <3>1. "off" \notin Loaded => step["off"] = 1 /\ Len(plan["off"]) = 1
      <4>1. Len(OffPlan) = 1
        BY <1>3
      <4>2. QED  BY <2>1, <4>1, Zenon
    <3>2. QED  BY <3>1
  <2>3. \A p \in Loaded : step[p] \in 1..Len(plan[p])
    BY <1>6
  <2>4. QED  BY <1>1, <1>2, <2>2, <2>3
<1>8. step \in [Program -> Nat]
  <2>1. \A p \in Program : (IF p \in Loaded THEN FirstStep(Plan[p], offset[p]) ELSE 1) \in Nat
    BY <1>3, <1>4
  <2>2. QED  BY <1>1, <2>1
<1>9. DOMAIN lastSwitch = Actuated /\ \A p \in Actuated : lastSwitch[p] \in [DOMAIN plan[p] -> Int]
  BY <1>1, <1>2, <1>6
<1>10. "online" \notin variants
  BY <1>1, <1>2
<1>11. variants \subseteq Program /\ Loaded \subseteq variants /\ active \in variants
  BY <1>1, <1>2
<1>12. QED  BY <1>1, <1>2, <1>5, <1>6, <1>7, <1>8, <1>9, <1>10, <1>11 DEF Programs

(* The initial states satisfy the invariant: every program has its first command in
   the queue, and the WAUT the one for its first switch. *)
LEMMA InitHolds ==
    ASSUME Init
    PROVE  IInv /\ InTime
<1>1. Programs
  BY InitProgramsHold
<1>2. /\ now = Begin /\ stage = "load" /\ waut \in Wauts /\ offset = Offset
      /\ active = InitProg /\ variants = Loaded \cup {active}
      /\ mySwitchCommand = [p \in Program |-> IF p \in variants THEN 1 ELSE 0]
      /\ index = IF FutureSwitches = {} THEN Len(Waut) + 1 ELSE FirstSwitch
      /\ switched = <<>> /\ at = 1
  BY DEF Init
<1> DEFINE First(p) == now + IF p \in Actuated THEN Plan[p][step[p]].min
                             ELSE LeftDuration(Plan[p], offset[p])
           E(p) == [command |-> Command(p, 1, First(p)), time |-> First(p)]
           A(p) == [command |-> Command(p, 1, 0), time |-> 0]
           W(i) == [command |-> WautCommand, time |-> Waut[i].when]
<1>3. events = {E(p) : p \in Loaded} \cup {A(p) : p \in {active} \ Loaded}
               \cup {W(i) : i \in {i \in FutureSwitches : i = FirstSwitch}}
  BY DEF Init
<1>4. ASSUME NEW p \in Loaded  PROVE First(p) \in Int
  <2>1. LeftDuration(Plan[p], offset[p]) \in Nat /\ now \in Nat
    <3>1. offset[p] \in Int /\ now \in Nat
      BY <1>1, <1>2, LightsAssumption DEF Programs
    <3>2. QED  BY <3>1, FirstStepType
  <2>2. Plan[p][step[p]].min \in Nat
    <3>1. plan[p] = Plan[p] /\ step[p] \in 1..Len(plan[p]) /\ Plan[p] \in Seq(Phase)
      BY <1>1, <1>2, Plans DEF Programs
    <3>2. Plan[p][step[p]] \in Phase
      BY <3>1, ElementOfSeq
    <3>3. QED  BY <3>2 DEF Phase
  <2>3. QED  BY <2>1, <2>2
<1>5. /\ active \in Loaded \cup {"off"} /\ Loaded \subseteq Program /\ variants \subseteq Program
      /\ "waut" \notin Program
      /\ \A q \in variants : mySwitchCommand[q] = 1
  BY <1>1, <1>2, InitProgIn, Plans DEF Programs
<1>6. \A p \in Loaded : /\ E(p) \in Event /\ E(p).command.program = p
                        /\ E(p).command.number = 1 /\ E(p).command.valid
                        /\ E(p).command.assumed = E(p).time
  <2> HIDE DEF First
  <2>1. QED  BY <1>4, <1>5 DEF Event, Command
<1>7. \A p \in {active} \ Loaded : /\ A(p) \in Event /\ A(p).command.program = p
                                   /\ A(p).command.number = 1 /\ A(p).command.valid
                                   /\ A(p).command.assumed = A(p).time
  BY <1>2, <1>5 DEF Event, Command
<1>8. \A i \in FutureSwitches : /\ W(i) \in Event /\ IsWaut(W(i))
                                /\ W(i).command = WautCommand
  BY <1>2, FirstSwitchIn DEF Event, WautCommand, IsWaut
<1> HIDE DEF E, A, W
<1>9. \A e \in events : \/ \E p \in Loaded : e = E(p)
                        \/ \E p \in {active} \ Loaded : e = A(p)
                        \/ FirstSwitch \in FutureSwitches /\ e = W(FirstSwitch)
  BY <1>3
<1>10. \A q \in variants :
          \A e \in events : IsCurrent(e, q) <=> e = IF q \in Loaded THEN E(q) ELSE A(q)
  BY <1>2, <1>5, <1>6, <1>7, <1>8, <1>9 DEF IsCurrent, IsWaut
<1>11. \A q \in variants : (IF q \in Loaded THEN E(q) ELSE A(q)) \in events
  BY <1>2, <1>3
<1>12. \A q \in variants : OneCurrent(events, q)
  BY <1>10, <1>11 DEF OneCurrent
<1>13. events \subseteq Event
  BY <1>6, <1>7, <1>8, <1>9
<1>14. \A e \in events : Known(e)
  BY <1>2, <1>5, <1>6, <1>7, <1>8, <1>9 DEF Known, IsWaut
<1>15. Commands
  BY <1>12, <1>13, <1>14 DEF Commands, CommandsOf
<1>16. \A e \in events : IsWaut(e) => FirstSwitch \in FutureSwitches /\ e = W(FirstSwitch)
  BY <1>2, <1>5, <1>6, <1>7, <1>9 DEF IsWaut
<1>17. WautQueue
  <2>1. FirstSwitch \in FutureSwitches => index <= Len(Waut)
    BY <1>2, FirstSwitchIn
  <2>2. QED  BY <1>8, <1>16, <2>1 DEF WautQueue
<1>18. WautState
  <2>1. index \in 1..(Len(Waut) + 1)
    BY <1>2, InitProgIn
  <2>2. switched \in Seq([from : variants, to : Targets])
    BY <1>2, EmptySeq
  <2>3. QED  BY <1>2, <2>1, <2>2 DEF WautState
<1>19. InTime
  BY <1>6, <1>7, <1>8, <1>9 DEF InTime, OnTime
<1>20. QED  BY <1>1, <1>15, <1>17, <1>18, <1>19 DEF IInv
-----------------------------------------------------------------------------
(* Every step keeps the invariant. *)
LEMMA NextKeeps ==
    ASSUME IInv, MinsPositive, [Next]_vars
    PROVE  IInv' /\ (Punctual /\ InTime /\ NotOverdue => InTime')
<1>1. CASE \E p \in Loaded, o \in NewOffsets : ChangeOffset(p, o)
  BY <1>1, OffsetKeeps
<1>2. CASE Client
  <2>1. CASE \/ \E d \in Durations : SetPhaseDuration(d)
             \/ \E i \in 1..Horizon : SetPhaseIndex(i)
    BY <2>1, ClientSetsPhase
  <2>2. CASE \E p \in variants \cup {"off"} : SetProgram(p)
    BY <2>2, ClientSetsProgram
  <2>3. CASE \E s \in States : SetState(s)
    BY <2>3, ClientSetsState
  <2>4. CASE \E p \in NewPrograms, s \in NewIndices : SetCompleteProgram(p, s)
    BY <2>4, ClientSetsComplete
  <2>5. QED  BY <1>2, <2>1, <2>2, <2>3, <2>4 DEF Client
<1>3. CASE \E e \in events : ExecuteSwitch(e) \/ ExecuteDescheduled(e) \/ ExecuteWaut(e)
  BY <1>3, SwitchKeeps, DescheduledKeeps, WautKeeps
<1>4. CASE Switch
  BY <1>4, ProcessKeeps
<1>5. CASE StartSimulation \/ StartEvents \/ EndEvents \/ GoOnWaiting \/ EndCheck
           \/ NextSimulationStep
  <2>1. /\ UNCHANGED <<events, variants, programVars, active, waut, index, switched>>
        /\ stage' \in {"client", "events", "check", "move"}
        /\ at' = at \/ at' = 1 \/ at' = at + 1
        /\ now' = now \/ now' = now + DeltaT
    BY <1>5 DEF StartSimulation, StartEvents, EndEvents, GoOnWaiting, EndCheck,
                NextSimulationStep, wautVars, IInv, Programs
  <2>2. now' \in Nat /\ at' \in Nat \ {0}
    BY <2>1, DeltaTAssumption DEF IInv, Programs, WautState
  <2>3. IInv'
    BY <2>1, <2>2, StageKeeps
  <2>4. InTime => InTime'
    BY <2>1 DEF InTime, OnTime, IsWaut
  <2>5. QED  BY <2>3, <2>4
<1>6. CASE UNCHANGED vars
  <2>1. UNCHANGED <<now, stage, events, variants, programVars, active, wautVars, at>>
    BY <1>6 DEF vars, wautVars
  <2>2. active' \in variants
    BY <2>1 DEF IInv, Programs
  <2>3. QED  BY <2>1, <2>2, ActivePlain
<1>7. QED  BY <1>1, <1>2, <1>3, <1>4, <1>5, <1>6 DEF Next, Terminated

(* The invariant implies the type invariant. *)
LEMMA InvariantImpliesType ==
    ASSUME IInv
    PROVE  TypeOK
<1>1. \A p \in variants : plan[p] \in Seq(Phase) /\ step[p] \in DOMAIN plan[p]
  <2> SUFFICES ASSUME NEW p \in variants
               PROVE  plan[p] \in Seq(Phase) /\ step[p] \in DOMAIN plan[p]
    OBVIOUS
  <2>1. plan[p] \in Seq(Phase) /\ step[p] \in 1..Len(plan[p])
    BY DEF IInv, Programs
  <2>2. QED  BY <2>1, LenProperties
<1>2. \A p \in Actuated : DOMAIN lastSwitch[p] = DOMAIN plan[p]
  BY DEF IInv, Programs
<1>3. \A e \in events : e.time \in Int /\ e.command.program \in variants \cup {"waut"}
  BY DEF IInv, Commands, CommandsOf, Known, Event
<1>4. index \in 1..(Len(Waut) + 1)
  BY DEF IInv, WautState
<1>5. switched \in Seq([from : variants, to : variants])
  <2> DEFINE S == [from : variants, to : Targets]
             T == [from : variants, to : variants]
  <2>1. S \subseteq T /\ switched \in Seq(S)
    BY DEF IInv, WautState, Targets
  <2> HIDE DEF S, T
  <2>2. switched \in [1..Len(switched) -> S] /\ Len(switched) \in Nat
    BY <2>1, LenProperties
  <2>3. switched \in [1..Len(switched) -> T]
    BY <2>1, <2>2
  <2>4. switched \in Seq(T)
    BY <2>2, <2>3, SeqDef
  <2>5. QED  BY <2>4 DEF T
<1>6. QED  BY <1>1, <1>2, <1>3, <1>4, <1>5 DEF IInv, Programs, TypeOK

(* Every program is in one of its phases, the processes of the WAUT and the
   commands in the queue are of programs that exist. *)
THEOREM TypeCorrect ==
    ASSUME MinsPositive
    PROVE  Spec => []TypeOK
<1>1. Init => IInv
  BY InitHolds
<1>2. IInv /\ [Next]_vars => IInv'
  BY NextKeeps
<1>3. IInv => TypeOK
  BY InvariantImpliesType
<1>4. QED  BY <1>1, <1>2, <1>3, PTL DEF Spec
-----------------------------------------------------------------------------
(* The command getNextSwitchTime asks is the valid one of the program. *)
LEMMA CurrentIsValid ==
    ASSUME IInv, NEW p \in variants, NEW e \in events
    PROVE  IsCurrent(e, p) <=> e.command.program = p /\ e.command.valid
  BY DEF IInv, Commands, CommandsOf, Known, IsCurrent

(* One command of a program is valid, and it is on time. *)
LEMMA OnePlanned ==
    ASSUME IInv, InTime
    PROVE  OnePlannedSwitch
<1> SUFFICES ASSUME NEW p \in variants
             PROVE  \E e \in events :
                       /\ IsCurrent(e, p) /\ e.command.assumed = e.time
                       /\ {e} = {f \in events : f.command.program = p /\ f.command.valid}
  BY DEF OnePlannedSwitch
<1>1. PICK e \in events : {f \in events : IsCurrent(f, p)} = {e}
  BY DEF IInv, Commands, CommandsOf, OneCurrent
<1>2. {e} = {f \in events : f.command.program = p /\ f.command.valid}
  BY <1>1, CurrentIsValid
<1>3. IsCurrent(e, p) /\ ~IsWaut(e)
  <2>1. p # "waut"
    BY Plans DEF IInv, Programs
  <2>2. QED  BY <1>1, <2>1 DEF IsCurrent, IsWaut
<1>4. e.command.assumed = e.time
  BY <1>2, <1>3 DEF InTime, OnTime
<1>5. QED  BY <1>2, <1>3, <1>4

(* Unless the client or the procedure of the WAUT asks for a time in the past,
   every program has one valid command, executed when the program assumes it. *)
THEOREM OnePlannedCorrect ==
    ASSUME MinsPositive, Punctual
    PROVE  Spec => []OnePlannedSwitch
<1>1. Init => IInv /\ InTime /\ NotOverdue
  BY InitHolds DEF Init, NotOverdue
<1>2. IInv /\ InTime /\ NotOverdue /\ [Next]_vars => (IInv /\ InTime /\ NotOverdue)'
  BY NextKeeps, StaysNotOverdue
<1>3. IInv /\ InTime => OnePlannedSwitch
  BY OnePlanned
<1>4. QED  BY <1>1, <1>2, <1>3, PTL DEF Spec

(* A step during the events that changes the phase of a program is the execution of
   its valid command. *)
LEMMA StepHonoured ==
    ASSUME IInv, InTime, [Next]_vars, stage = "events",
           NEW p \in variants, step'[p] # step[p]
    PROVE  NextSwitchTime(p) < now + DeltaT
<1>1. p \in Program /\ step \in [Program -> Nat]
  BY DEF IInv, Programs
<1>2. PICK e \in events : ExecuteSwitch(e) \/ ExecuteWaut(e)
  BY DEF Next, vars, programVars, Client, ClientMay, ChangeOffset, StartSimulation,
         SetPhaseDuration, SetPhaseIndex, SetProgram, SetState, SetCompleteProgram,
         StartEvents, ExecuteDescheduled, EndEvents, Switch, GoOnWaiting, EndCheck,
         NextSimulationStep, Terminated
<1>3. CASE ExecuteWaut(e)
  <2>1. \/ step' = step
        \/ step' = [step EXCEPT !["off"] = 1] /\ Waut[index].to \notin variants
    BY <1>3 DEF ExecuteWaut, programVars, Instantiate
  <2>2. Waut[index].to \in Loaded \cup {"off"}
    <3>1. index \in 1..Len(Waut)
      <4>1. index <= Len(Waut) /\ index \in 1..(Len(Waut) + 1)
        BY <1>3 DEF ExecuteWaut, IsWaut, WautCommand, IInv, WautQueue, WautState
      <4>2. Len(Waut) \in Nat
        BY FirstSwitchIn DEF IInv, WautState
      <4>3. QED  BY <4>1, <4>2
    <3>2. QED  BY <3>1, FirstSwitchIn DEF IInv, WautState
  <2>3. p = "off" /\ Waut[index].to \notin variants
    BY <1>1, <2>1
  <2>4. QED  BY <2>2, <2>3 DEF IInv, Programs
<1>4. CASE ExecuteSwitch(e)
  <2>1. e.command.program = p
    BY <1>1, <1>4 DEF ExecuteSwitch
  <2>2. IsCurrent(e, p) /\ e.command.valid /\ IsDue(e)
    BY <1>4, <2>1, CurrentIsValid DEF ExecuteSwitch, IsNext
  <2>3. \A f \in events : IsCurrent(f, p) => f = e
    <3>1. PICK g \in events : {f \in events : IsCurrent(f, p)} = {g}
      BY DEF IInv, Commands, CommandsOf, OneCurrent
    <3>2. QED  BY <2>2, <3>1
  <2>4. NextSwitchTime(p) = e.command.assumed
    BY <2>2, <2>3 DEF NextSwitchTime
  <2>5. e.command.assumed = e.time
    <3>1. ~IsWaut(e)
      BY <1>1, <2>1, Plans DEF IsWaut
    <3>2. QED  BY <2>2, <3>1 DEF InTime, OnTime
  <2>6. QED  BY <2>2, <2>4, <2>5 DEF IsDue
<1>5. QED  BY <1>2, <1>3, <1>4

(* Under the same condition no program changes its phase by itself before the
   time it planned last. *)
THEOREM PhaseHonouredCorrect ==
    ASSUME MinsPositive, Punctual
    PROVE  Spec => PhaseHonoured
<1>1. Init => IInv /\ InTime /\ NotOverdue
  BY InitHolds DEF Init, NotOverdue
<1>2. IInv /\ InTime /\ NotOverdue /\ [Next]_vars => (IInv /\ InTime /\ NotOverdue)'
  BY NextKeeps, StaysNotOverdue
<1>3. IInv /\ InTime /\ [Next]_vars =>
        [stage = "events" =>
           \A p \in variants : step'[p] # step[p] => NextSwitchTime(p) < now + DeltaT]_vars
  BY StepHonoured
<1>4. QED  BY <1>1, <1>2, <1>3, PTL DEF Spec, PhaseHonoured
-----------------------------------------------------------------------------
(* What the links show. *)
ShowsActive == plan[active] # NewPlan => shown = State(active)

(* While the files are read, every program is in the phase its offset says, and those
   with their first command have their first offset. *)
Loading ==
    /\ offset \in [Loaded -> Int]
    /\ stage = "load" =>
        /\ active = InitProg
        /\ \A p \in Loaded :
              /\ step[p] = FirstStep(plan[p], offset[p])
              /\ mySwitchCommand[p] = 1 => offset[p] = Offset[p]

(* The first program depends on the WAUT only. *)
LEMMA InitProgStays ==
    ASSUME waut' = waut
    PROVE  InitProg' = InitProg
  BY DEF InitProg, FirstSwitch, FutureSwitches, Waut

(* Another file changes the offset, phase and command of one program. *)
LEMMA OffsetLoads ==
    ASSUME IInv, NEW p \in Loaded, NEW o \in NewOffsets, ChangeOffset(p, o)
    PROVE  /\ stage = "load" /\ stage' = "load"
           /\ UNCHANGED <<now, plan, active, waut>> /\ mySwitchCommand[p] = 1
           /\ step' = [step EXCEPT ![p] = FirstStep(plan[p], o)]
           /\ step \in [Program -> Nat] /\ o \in Int
           /\ mySwitchCommand' = [mySwitchCommand EXCEPT ![p] = @ + 1]
           /\ mySwitchCommand \in [Program -> Nat] /\ p \in Program
           /\ offset' = [offset EXCEPT ![p] = o]
           /\ shown' = IF step' # step THEN plan[p][step'[p]].state ELSE shown
<1>1. p # "off" /\ o \in Int
  BY LightsAssumption
<1>2. /\ ChangeStepAndDuration(p, FirstStep(plan[p], o), LeftDuration(plan[p], o))
      /\ stage = "load" /\ UNCHANGED <<now, stage, plan, active, waut>>
      /\ mySwitchCommand[p] = 1 /\ offset' = [offset EXCEPT ![p] = o]
      /\ shown' = IF step' # step THEN plan[p][step'[p]].state ELSE shown
  BY DEF ChangeOffset, wautVars
<1>3. /\ mySwitchCommand' = [mySwitchCommand EXCEPT ![p] = @ + 1]
      /\ step' = [step EXCEPT ![p] = FirstStep(plan[p], o)]
  BY <1>1, <1>2 DEF ChangeStepAndDuration
<1>4. /\ step \in [Program -> Nat] /\ mySwitchCommand \in [Program -> Nat] /\ p \in Program
  BY Plans DEF IInv, Programs
<1>5. QED  BY <1>1, <1>2, <1>3, <1>4

(* Loading stays true. *)
LEMMA StaysLoading ==
    ASSUME IInv, Loading, [Next]_vars
    PROVE  Loading'
<1>1. CASE \E p \in Loaded, o \in NewOffsets : ChangeOffset(p, o)
  <2>1. PICK p \in Loaded, o \in NewOffsets : ChangeOffset(p, o)
    BY <1>1
  <2>2. /\ stage = "load" /\ UNCHANGED <<now, plan, active, waut>> /\ o \in Int
        /\ step' = [step EXCEPT ![p] = FirstStep(plan[p], o)] /\ step \in [Program -> Nat]
        /\ mySwitchCommand' = [mySwitchCommand EXCEPT ![p] = @ + 1]
        /\ mySwitchCommand \in [Program -> Nat] /\ mySwitchCommand[p] = 1
        /\ offset' = [offset EXCEPT ![p] = o] /\ offset \in [Loaded -> Int]
        /\ active = InitProg
        /\ \A q \in Loaded :
              /\ step[q] = FirstStep(plan[q], offset[q])
              /\ mySwitchCommand[q] = 1 => offset[q] = Offset[q]
    BY <2>1, OffsetLoads DEF Loading
  <2>3. active' = InitProg' /\ offset' \in [Loaded -> Int]
    BY <2>2, InitProgStays
  <2>4. ASSUME NEW q \in Loaded
        PROVE  /\ step'[q] = FirstStep(plan[q], offset[q])'
               /\ mySwitchCommand'[q] = 1 => offset'[q] = Offset[q]
    <3>1. q \in Program
      BY Plans
    <3>2. step'[q] = FirstStep(plan[q], offset'[q])
      BY <2>2, <3>1
    <3>3. FirstStep(plan[q], offset[q])' = FirstStep(plan[q], offset'[q])
      BY <2>2 DEF FirstStep, EndsBehind, Advance
    <3>4. mySwitchCommand'[q] = 1 => offset'[q] = Offset[q]
      BY <2>2, <3>1
    <3>5. QED  BY <3>2, <3>3, <3>4
  <2>5. QED  BY <2>3, <2>4 DEF Loading
<1>2. CASE ~\E p \in Loaded, o \in NewOffsets : ChangeOffset(p, o)
  <2>1. /\ offset' = offset
        /\ stage' = "load" => UNCHANGED vars
    BY <1>2 DEF Next, vars, Terminated, Client, ClientMay, StartSimulation,
           SetPhaseDuration, SetPhaseIndex, SetProgram, SetState, SetCompleteProgram,
           StartEvents, ExecuteSwitch, ExecuteDescheduled, ExecuteWaut, EndEvents, Switch,
           GoOnWaiting, EndCheck, NextSimulationStep
  <2>2. CASE stage' = "load"
    <3>1. /\ stage = "load"
          /\ UNCHANGED <<now, plan, step, active, waut, offset, mySwitchCommand>>
      BY <2>1, <2>2 DEF vars, programVars, wautVars
    <3>2. InitProg' = InitProg
      BY <3>1, InitProgStays
    <3>3. \A q \in Loaded : FirstStep(plan[q], offset[q])' = FirstStep(plan[q], offset[q])
      BY <3>1 DEF FirstStep, EndsBehind, Advance
    <3>4. QED  BY <3>1, <3>2, <3>3 DEF Loading
  <2>3. QED  BY <2>1, <2>2 DEF Loading
<1>3. QED  BY <1>1, <1>2

(* Offsets only change while loading, and no program gets its first one back. *)
LEMMA OffsetsStay ==
    ASSUME IInv, Loading, [Next]_vars, OnlyActiveReoffset'
    PROVE  OnlyActiveReoffset
<1>1. waut' = waut
  BY DEF Next, vars, wautVars, Terminated, Client, ClientMay, ChangeOffset, StartSimulation,
         SetPhaseDuration, SetPhaseIndex, SetProgram, SetState, SetCompleteProgram,
         StartEvents, ExecuteSwitch, ExecuteDescheduled, ExecuteWaut, EndEvents, Switch,
         GoOnWaiting, EndCheck, NextSimulationStep
<1>2. InitProg' = InitProg
  BY <1>1, InitProgStays
<1>3. CASE \E p \in Loaded, o \in NewOffsets : ChangeOffset(p, o)
  <2>1. PICK p \in Loaded, o \in NewOffsets : ChangeOffset(p, o)
    BY <1>3
  <2>2. /\ stage = "load" /\ mySwitchCommand[p] = 1
        /\ offset' = [offset EXCEPT ![p] = o]
    BY <2>1, OffsetLoads
  <2>3. offset[p] = Offset[p] /\ \A q \in Loaded : q # p => offset'[q] = offset[q]
    BY <2>2 DEF Loading
  <2>4. QED  BY <1>2, <2>3 DEF OnlyActiveReoffset
<1>4. CASE ~\E p \in Loaded, o \in NewOffsets : ChangeOffset(p, o)
  <2>1. offset' = offset
    BY <1>4 DEF Next, vars, Terminated, Client, ClientMay, StartSimulation,
           SetPhaseDuration, SetPhaseIndex, SetProgram, SetState, SetCompleteProgram,
           StartEvents, ExecuteSwitch, ExecuteDescheduled, ExecuteWaut, EndEvents, Switch,
           GoOnWaiting, EndCheck, NextSimulationStep
  <2>2. QED  BY <1>2, <2>1 DEF OnlyActiveReoffset
<1>5. QED  BY <1>3, <1>4

(* A program that becomes active shows its phase. *)
LEMMA ActivationShows ==
    ASSUME NEW p, Activate(p)
    PROVE  ShowsActive'
  BY DEF Activate, ShowsActive, State

(* So does a program that was just built. *)
LEMMA InstantiationShows ==
    ASSUME IInv, NEW p \in Program, NEW queue, NEW phases, NEW s, NEW time,
           Instantiate(queue, p, phases, s, time)
    PROVE  ShowsActive'
<1>1. plan \in [Program -> Seq(Phase)] /\ step \in [Program -> Nat]
  BY DEF IInv, Programs
<1>2. active' = p /\ shown' = phases[s].state /\ plan'[p] = phases /\ step'[p] = s
  BY <1>1 DEF Instantiate
<1>3. QED  BY <1>2 DEF ShowsActive, State

(* Nothing happens to the active program, or it shows its new phase. *)
LEMMA PhaseShows ==
    ASSUME ShowsActive, UNCHANGED <<plan, active>>,
           \/ step'[active] = step[active] /\ shown' = shown
           \/ shown' = plan[active][step'[active]].state
    PROVE  ShowsActive'
  BY DEF ShowsActive, State

(* No command of the client leaves the links in another phase. *)
LEMMA ClientShows ==
    ASSUME IInv, ShowsActive, Client
    PROVE  ShowsActive'
<1>1. /\ plan \in [Program -> Seq(Phase)] /\ step \in [Program -> Nat]
      /\ active \in Program /\ "off" \in Program /\ "online" \in Program
  BY DEF IInv, Programs, Program
<1>2. ASSUME NEW d \in Durations, SetPhaseDuration(d)  PROVE ShowsActive'
  <2>1. UNCHANGED <<plan, active, shown>>
    BY <1>2 DEF SetPhaseDuration
  <2>2. step' = step \/ step' = [step EXCEPT ![active] = step[active]]
    BY <1>2 DEF SetPhaseDuration, ChangeStepAndDuration
  <2>3. step'[active] = step[active]
    BY <1>1, <2>2
  <2>4. QED  BY <2>1, <2>3, PhaseShows
<1>3. ASSUME NEW i \in 1..Horizon, SetPhaseIndex(i)  PROVE ShowsActive'
  <2>1. /\ UNCHANGED <<plan, active>>
        /\ step' = [step EXCEPT ![active] = i]
        /\ shown' = IF step' # step THEN plan[active][i].state ELSE shown
    BY <1>3 DEF SetPhaseIndex, ChangeStepAndDuration
  <2>2. step'[active] = i
    BY <1>1, <2>1
  <2>3. CASE step' = step
    BY <2>1, <2>3, PhaseShows
  <2>4. CASE step' # step
    BY <2>1, <2>2, <2>4, PhaseShows
  <2>5. QED  BY <2>3, <2>4
<1>4. ASSUME NEW p \in variants \cup {"off"}, SetProgram(p)  PROVE ShowsActive'
  BY <1>1, <1>4, ActivationShows, InstantiationShows DEF SetProgram, SwitchTo
<1>5. ASSUME NEW st \in States, SetState(st)  PROVE ShowsActive'
  BY <1>1, <1>5, ActivationShows, InstantiationShows DEF SetState
<1>6. ASSUME NEW p \in NewPrograms, NEW s \in NewIndices, SetCompleteProgram(p, s)
      PROVE  ShowsActive'
  <2>1. CASE p \in variants
    <3>1. /\ plan' = [plan EXCEPT ![p] = NewPlan] /\ step' = [step EXCEPT ![p] = s]
          /\ UNCHANGED <<active, shown>>
      BY <1>6, <2>1 DEF SetCompleteProgram
    <3>2. CASE p = active
      <4>1. plan'[active'] = NewPlan
        BY <1>1, <3>1, <3>2
      <4>2. QED  BY <4>1 DEF ShowsActive
    <3>3. CASE p # active
      <4>1. plan'[active'] = plan[active] /\ step'[active'] = step[active]
        BY <1>1, <3>1, <3>3
      <4>2. QED  BY <3>1, <4>1 DEF ShowsActive, State
    <3>4. QED  BY <3>2, <3>3
  <2>2. CASE p \notin variants
    <3>1. Instantiate(events, p, NewPlan, s, 0)
      BY <1>6, <2>2 DEF SetCompleteProgram
    <3>2. QED  BY <3>1, ClientPrograms, InstantiationShows
  <2>3. QED  BY <2>1, <2>2
<1>7. QED  BY <1>2, <1>3, <1>4, <1>5, <1>6 DEF Client

(* Nor does any other step. *)
LEMMA NextShows ==
    ASSUME IInv, ShowsActive, Loading, OnlyActiveReoffset', [Next]_vars
    PROVE  ShowsActive'
<1>1. /\ plan \in [Program -> Seq(Phase)] /\ step \in [Program -> Nat]
      /\ active \in Program /\ "off" \in Program
  BY DEF IInv, Programs, Program
<1>2. ASSUME NEW p \in Loaded, NEW o \in NewOffsets, ChangeOffset(p, o)
      PROVE  ShowsActive'
  <2>1. /\ active = InitProg /\ InitProg' = InitProg /\ UNCHANGED <<plan, active>>
        /\ step' = [step EXCEPT ![p] = FirstStep(plan[p], o)]
        /\ shown' = IF step' # step THEN plan[p][step'[p]].state ELSE shown
        /\ offset'[p] = o /\ offset[p] = Offset[p] /\ step[p] = FirstStep(plan[p], offset[p])
    <3>1. /\ stage = "load" /\ UNCHANGED <<plan, active, waut>> /\ mySwitchCommand[p] = 1
          /\ step' = [step EXCEPT ![p] = FirstStep(plan[p], o)]
          /\ shown' = IF step' # step THEN plan[p][step'[p]].state ELSE shown
          /\ offset' = [offset EXCEPT ![p] = o]
      BY <1>2, OffsetLoads
    <3>2. InitProg' = InitProg
      BY <3>1, InitProgStays
    <3>3. QED  BY <3>1, <3>2 DEF Loading
  <2>2. CASE p = active
    BY <1>1, <2>1, <2>2, PhaseShows
  <2>3. CASE p # active
    <3>1. o = Offset[p]
      BY <2>1, <2>3 DEF OnlyActiveReoffset
    <3>2. step' = step
      BY <1>1, <2>1, <3>1
    <3>3. QED  BY <2>1, <3>2, PhaseShows
  <2>4. QED  BY <2>2, <2>3
<1>3. ASSUME NEW e \in events, ExecuteSwitch(e)  PROVE ShowsActive'
  <2> DEFINE p == e.command.program
  <2>1. PICK o \in TrySwitch(p) :
          /\ step' = [step EXCEPT ![p] = o.step]
          /\ shown' = Shown(p, o.step)
    BY <1>3 DEF ExecuteSwitch
  <2>2. UNCHANGED <<plan, active>>
    BY <1>3 DEF ExecuteSwitch
  <2> HIDE DEF p
  <2>3. CASE p = active
    <3>1. step'[active] = o.step
      BY <1>1, <2>1, <2>3
    <3>2. shown' = IF o.step # step[active] THEN plan[active][o.step].state ELSE shown
      BY <2>1, <2>3 DEF Shown
    <3>3. QED  BY <2>2, <3>1, <3>2, PhaseShows
  <2>4. CASE p # active
    <3>1. step'[active] = step[active] /\ shown' = shown
      BY <1>1, <2>1, <2>4 DEF Shown
    <3>2. QED  BY <2>2, <3>1, PhaseShows
  <2>5. QED  BY <2>3, <2>4
<1>4. ASSUME NEW e \in events, ExecuteWaut(e)  PROVE ShowsActive'
  <2>1. CASE Waut[index].to \in variants
    <3>1. UNCHANGED <<programVars, active, shown>>
      BY <1>4, <2>1 DEF ExecuteWaut
    <3>2. QED  BY <3>1, PhaseShows DEF programVars
  <2>2. CASE Waut[index].to \notin variants
    <3>1. \E queue : Instantiate(queue, "off", OffPlan, 1, 0)
      BY <1>4, <2>2 DEF ExecuteWaut
    <3>2. QED  BY <1>1, <3>1, InstantiationShows
  <2>3. QED  BY <2>1, <2>2
<1>5. CASE Switch
  BY <1>5, ActivationShows DEF Switch
<1>6. CASE \/ StartSimulation \/ StartEvents \/ EndEvents \/ GoOnWaiting \/ EndCheck
           \/ NextSimulationStep \/ (\E e \in events : ExecuteDescheduled(e))
           \/ UNCHANGED vars
  <2>1. UNCHANGED <<programVars, active, shown>>
    BY <1>6 DEF StartSimulation, StartEvents, EndEvents, GoOnWaiting, EndCheck,
                NextSimulationStep, ExecuteDescheduled, vars
  <2>2. QED  BY <2>1, PhaseShows DEF programVars
<1>7. QED  BY <1>2, <1>3, <1>4, <1>5, <1>6, ClientShows DEF Next, Terminated

(* As long as the files give no new offset to another program than the active one,
   the links show the phase of the active program, except phases the client
   replaced: although all the programs switch behind it, are replaced or built. *)
THEOREM SignalsCorrect ==
    ASSUME MinsPositive
    PROVE  Spec => []SignalsShowActive
<1> DEFINE Shows == OnlyActiveReoffset => ShowsActive
<1>1. Init => IInv /\ Loading /\ Shows
  <2>1. Init => Loading
    <3> SUFFICES ASSUME Init  PROVE Loading
      OBVIOUS
    <3>1. Offset \in [Loaded -> Int]
      BY LightsAssumption
    <3>2. /\ offset = Offset /\ active = InitProg
          /\ plan = [p \in Program |-> IF p \in Loaded THEN Plan[p]
                                       ELSE IF p = "off" THEN OffPlan ELSE <<>>]
          /\ step = [p \in Program |-> IF p \in Loaded THEN FirstStep(Plan[p], offset[p])
                                       ELSE 1]
      BY DEF Init
    <3>3. \A p \in Loaded : plan[p] = Plan[p] /\ step[p] = FirstStep(Plan[p], offset[p])
      BY <3>2, Plans
    <3>4. QED  BY <3>1, <3>2, <3>3 DEF Loading
  <2>2. Init => ShowsActive
    BY DEF Init, ShowsActive
  <2>3. QED  BY <2>1, <2>2, InitHolds
<1>2. IInv /\ Loading /\ Shows /\ [Next]_vars => (IInv /\ Loading /\ Shows)'
  BY NextKeeps, StaysLoading, OffsetsStay, NextShows
<1>3. Shows => SignalsShowActive
  BY DEF ShowsActive, SignalsShowActive
<1> HIDE DEF Shows
<1>4. QED  BY <1>1, <1>2, <1>3, PTL DEF Spec
-----------------------------------------------------------------------------
(* The WAUT. *)

(* The switches of a WAUT are sorted, and more than a step lies between them;
   NextWautSwitch may otherwise be 0, and the command is deleted. *)
SwitchesApart ==
    \A w \in Wauts : \A i, j \in 1..Len(w.switches) :
        i < j => w.switches[i].when + DeltaT <= w.switches[j].when

(* The command of the WAUT waits for the switch myIndex points to, and comes late
   by less than a step; the switches behind it were due. *)
HasCommand == index <= Len(Waut) => /\ index \in FutureSwitches
                                    /\ \E e \in events : IsWaut(e)
TimeOfCommand(e) ==
    /\ Waut[index].when <= e.time /\ e.time < Waut[index].when + DeltaT
    /\ now <= e.time
    /\ stage \in {"check", "move"} => now + DeltaT <= e.time
WautTimes ==
    /\ HasCommand
    /\ \A e \in events : IsWaut(e) => TimeOfCommand(e)
    /\ \A i \in FutureSwitches : i < index => Waut[i].when < now + DeltaT

(* In an initial state the WAUT has a command if there is a switch in the future, for
   the first of them. *)
LEMMA FirstCommand ==
    ASSUME Init
    PROVE  /\ \A e \in events : IsWaut(e) =>
                 FirstSwitch \in FutureSwitches /\ e.time = Waut[FirstSwitch].when
           /\ \A i \in FutureSwitches : i = FirstSwitch =>
                 [command |-> WautCommand, time |-> Waut[i].when] \in events
<1>1. "waut" \notin variants
  BY InitHolds, Plans DEF IInv, Programs
<1>2. \A p \in Loaded \cup {active} : p # "waut"
  BY <1>1 DEF Init
<1> DEFINE First(p) == now + IF p \in Actuated THEN Plan[p][step[p]].min
                             ELSE LeftDuration(Plan[p], offset[p])
           E(p) == [command |-> Command(p, 1, First(p)), time |-> First(p)]
           A(p) == [command |-> Command(p, 1, 0), time |-> 0]
           W(i) == [command |-> WautCommand, time |-> Waut[i].when]
<1>3. events = {E(p) : p \in Loaded} \cup {A(p) : p \in {active} \ Loaded}
               \cup {W(i) : i \in {i \in FutureSwitches : i = FirstSwitch}}
  BY DEF Init
<1>4. \A p \in Loaded \cup {active} : ~IsWaut(E(p)) /\ ~IsWaut(A(p))
  <2> HIDE DEF First
  <2>1. QED  BY <1>2 DEF IsWaut, Command
<1>5. \A i : W(i).time = Waut[i].when
  OBVIOUS
<1> HIDE DEF E, A, W
<1>6. \A e \in events : IsWaut(e) => FirstSwitch \in FutureSwitches /\ e = W(FirstSwitch)
  BY <1>3, <1>4
<1>7. \A i \in FutureSwitches : i = FirstSwitch => W(i) \in events
  BY <1>3
<1>8. QED  BY <1>5, <1>6, <1>7 DEF W

(* It is on time. *)
LEMMA InitWautTimes ==
    ASSUME Init, SwitchesApart
    PROVE  WautTimes
<1>1. /\ waut \in Wauts /\ now = Begin /\ stage = "load" /\ Begin \in Nat /\ DeltaT \in Nat \ {0}
      /\ index = IF FutureSwitches = {} THEN Len(Waut) + 1 ELSE FirstSwitch
  BY LightsAssumption, DeltaTAssumption DEF Init
<1>2. /\ FutureSwitches \subseteq 1..Len(Waut) /\ Len(Waut) \in Nat
      /\ FutureSwitches # {} =>
           /\ FirstSwitch \in FutureSwitches
           /\ \A j \in FutureSwitches : Waut[FirstSwitch].when <= Waut[j].when
      /\ \A i \in FutureSwitches : Waut[i].when \in Nat
  BY <1>1, FirstSwitchIn
<1>3. /\ \A e \in events : IsWaut(e) =>
            FirstSwitch \in FutureSwitches /\ e.time = Waut[FirstSwitch].when
      /\ \A i \in FutureSwitches : i = FirstSwitch =>
            [command |-> WautCommand, time |-> Waut[i].when] \in events
  BY FirstCommand
<1>4. HasCommand
  <2>1. IsWaut([command |-> WautCommand, time |-> Waut[FirstSwitch].when])
    BY DEF IsWaut, WautCommand
  <2>2. FutureSwitches # {} => index = FirstSwitch /\ FirstSwitch \in FutureSwitches
    BY <1>1, <1>2
  <2>3. FutureSwitches = {} => ~(index <= Len(Waut))
    BY <1>1, <1>2
  <2>4. QED  BY <1>3, <2>1, <2>2, <2>3 DEF HasCommand
<1>5. ASSUME NEW e \in events, IsWaut(e)  PROVE TimeOfCommand(e)
  <2>1. FirstSwitch \in FutureSwitches /\ e.time = Waut[FirstSwitch].when /\ index = FirstSwitch
    BY <1>1, <1>3, <1>5
  <2>2. e.time > Begin /\ e.time \in Nat
    BY <1>2, <2>1 DEF FutureSwitches
  <2>3. QED  BY <1>1, <2>1, <2>2 DEF TimeOfCommand
<1>6. ASSUME NEW i \in FutureSwitches, i < index  PROVE Waut[i].when < now + DeltaT
  <2>1. index \in FutureSwitches /\ index = FirstSwitch /\ Waut[index].when <= Waut[i].when
    BY <1>1, <1>2
  <2>2. Waut[i].when + DeltaT <= Waut[index].when
    BY <1>1, <1>2, <1>6, <2>1 DEF SwitchesApart, Waut
  <2>3. Waut[i].when \in Nat /\ Waut[index].when \in Nat /\ DeltaT \in Nat \ {0}
    BY <1>1, <1>2, <2>1
  <2> DEFINE here == Waut[i].when
             first == Waut[index].when
  <2>4. here \in Nat /\ first \in Nat /\ first <= here /\ here + DeltaT <= first
    BY <2>1, <2>2, <2>3
  <2>5. QED
    <3> HIDE DEF here, first
    <3>1. FALSE  BY <2>3, <2>4
    <3>2. QED  BY <3>1
<1>7. QED  BY <1>4, <1>5, <1>6 DEF WautTimes

(* No other step touches the command of the WAUT. *)
LEMMA WautCommandStays ==
    ASSUME IInv, [Next]_vars, ~\E e \in events : ExecuteWaut(e)
    PROVE  /\ \A f : IsWaut(f) => (f \in events <=> f \in events')
           /\ UNCHANGED <<waut, index>>
<1>1. variants \subseteq Program /\ "waut" \notin Program /\ "waut" \notin variants
      /\ Loaded \subseteq variants /\ active \in variants
      /\ "off" \in Program /\ "online" \in Program
  BY Plans DEF IInv, Programs, Program
<1> DEFINE Stays == \A f : IsWaut(f) => (f \in events <=> f \in events')
<1>2. ASSUME NEW p \in Program, NEW s, NEW d, ChangeStepAndDuration(p, s, d)
      PROVE  Stays
  <2>1. CASE p = "off"
    BY <1>2, <2>1 DEF ChangeStepAndDuration
  <2>2. CASE p # "off"
    <3> DEFINE D(e) == IF IsCurrent(e, p)
                       THEN [e EXCEPT !.command.valid = FALSE, !.command.assumed = -1] ELSE e
    <3>1. \E t, n, time : events' = {D(e) : e \in events}
                            \cup {[command |-> Command(p, n, time), time |-> t]}
      BY <1>2, <2>2 DEF ChangeStepAndDuration, AddAdapted, Descheduled
    <3>2. \A t, n, time : ~IsWaut([command |-> Command(p, n, time), time |-> t])
      BY <1>1 DEF IsWaut, Command
    <3>3. \A e \in events : /\ IsWaut(D(e)) <=> IsWaut(e)
                            /\ IsWaut(e) => D(e) = e
      <4>1. ASSUME NEW e \in events, IsCurrent(e, p)
            PROVE  ~IsWaut(e) /\ ~IsWaut(D(e))
        <5>1. e.command.program = p /\ e \in Event
          BY <4>1 DEF IsCurrent, IInv, Commands, CommandsOf
        <5>2. D(e).command.program = p
          BY <4>1, <5>1 DEF Event
        <5>3. QED  BY <1>1, <5>1, <5>2 DEF IsWaut
      <4>2. \A e \in events : ~IsCurrent(e, p) => D(e) = e
        OBVIOUS
      <4>3. QED  BY <4>1, <4>2
    <3> HIDE DEF D
    <3>4. QED  BY <3>1, <3>2, <3>3
  <2>3. QED  BY <2>1, <2>2
<1>3. ASSUME NEW p \in Program, NEW phases, NEW s, NEW time,
             Instantiate(events, p, phases, s, time)
      PROVE  Stays
  <2>1. events' = events \cup {[command |-> Command(p, 1, time), time |-> time]}
    BY <1>3 DEF Instantiate, AddUnchanged
  <2>2. ~IsWaut([command |-> Command(p, 1, time), time |-> time])
    BY <1>1 DEF IsWaut, Command
  <2>3. QED  BY <2>1, <2>2
<1>4. ASSUME NEW e \in events, ExecuteSwitch(e) \/ ExecuteDescheduled(e)
      PROVE  Stays
  <2>1. ~IsWaut(e) /\ e \in Event
    BY <1>1, <1>4 DEF ExecuteSwitch, ExecuteDescheduled, IsWaut, IInv, Commands,
                      CommandsOf, WautQueue, WautCommand
  <2>2. \A t : [e.command EXCEPT !.assumed = t].program = e.command.program
    BY <2>1 DEF Event
  <2>3. \E r, t : events' = (events \ {e}) \cup
                     Requeued(e, [e.command EXCEPT !.assumed = t], r) \/ events' = events \ {e}
    BY <1>4 DEF ExecuteSwitch, ExecuteDescheduled
  <2>4. \A r, t : \A f \in Requeued(e, [e.command EXCEPT !.assumed = t], r) : ~IsWaut(f)
    <3>1. \A c, r : c.program # "waut" => \A f \in Requeued(e, c, r) : ~IsWaut(f)
      BY DEF Requeued, IsWaut
    <3>2. e.command.program # "waut"
      BY <2>1 DEF IsWaut
    <3>3. QED  BY <2>2, <3>1, <3>2
  <2>5. QED  BY <2>1, <2>3, <2>4
<1>5. CASE Client
  <2>1. UNCHANGED wautVars
    BY <1>5 DEF Client, ClientMay, SetPhaseDuration, SetPhaseIndex, SetProgram, SetState,
                SetCompleteProgram
  <2>2. ASSUME \/ \E d \in Durations : SetPhaseDuration(d)
               \/ \E i \in 1..Horizon : SetPhaseIndex(i)
        PROVE  Stays
    <3>1. \E s, d : ChangeStepAndDuration(active, s, d)
      BY <2>2 DEF SetPhaseDuration, SetPhaseIndex
    <3>2. QED  BY <1>1, <1>2, <3>1
  <2>3. ASSUME \/ \E p \in variants \cup {"off"} : SetProgram(p)
               \/ \E st \in States : SetState(st)
               \/ \E p \in NewPrograms, s \in NewIndices : SetCompleteProgram(p, s)
        PROVE  Stays
    <3>1. \/ events' = events
          \/ \E p \in Program : \E phases, s, time : Instantiate(events, p, phases, s, time)
      BY <1>1, <2>3, ClientPrograms DEF SetProgram, SwitchTo, SetState, SetCompleteProgram
    <3>2. CASE events' = events
      BY <3>2
    <3>3. CASE events' # events
      BY <1>3, <3>1, <3>3
    <3>4. QED  BY <3>2, <3>3
  <2>4. Stays
    BY <1>5, <2>2, <2>3 DEF Client
  <2>5. QED  BY <2>1, <2>4 DEF wautVars
<1>6. CASE \E p \in Loaded, o \in NewOffsets : ChangeOffset(p, o)
  BY <1>1, <1>2, <1>6 DEF ChangeOffset, wautVars
<1>7. CASE \E e \in events : ExecuteSwitch(e) \/ ExecuteDescheduled(e)
  BY <1>4, <1>7 DEF ExecuteSwitch, ExecuteDescheduled, wautVars
<1>8. CASE Switch
  <2>1. switched[at].to \in Program
    <3>1. at \in 1..Len(switched) /\ switched \in Seq([from : variants, to : Targets])
      <4>1. /\ switched \in Seq([from : variants, to : Targets]) /\ at \in Nat \ {0}
            /\ at <= Len(switched)
        BY <1>8 DEF Switch, IInv, WautState
      <4>2. QED  BY <4>1, LenProperties
    <3>2. switched[at] \in [from : variants, to : Targets]
      BY <3>1, ElementOfSeq
    <3>3. QED  BY <1>1, <3>2 DEF Targets
  <2>2. Stays
    BY <1>2, <1>8, <2>1 DEF Switch, switchToPos, adaptLogic
  <2>3. QED  BY <1>8, <2>2 DEF Switch
<1>9. CASE \/ StartSimulation \/ StartEvents \/ EndEvents \/ GoOnWaiting \/ EndCheck
           \/ NextSimulationStep \/ UNCHANGED vars
  BY <1>9 DEF StartSimulation, StartEvents, EndEvents, GoOnWaiting, EndCheck,
              NextSimulationStep, vars, wautVars
<1>10. QED  BY <1>5, <1>6, <1>7, <1>8, <1>9 DEF Next, Terminated

(* Executing the command moves it to the next switch; time does not pass it. *)
LEMMA WautTimesKept ==
    ASSUME IInv, WautTimes, SwitchesApart, [Next]_vars
    PROVE  WautTimes'
<1>1. /\ now \in Nat /\ DeltaT \in Nat \ {0} /\ index \in 1..(Len(Waut) + 1) /\ waut \in Wauts
      /\ FutureSwitches \subseteq 1..Len(Waut) /\ Len(Waut) \in Nat
      /\ \A i \in FutureSwitches : Waut[i].when \in Nat
      /\ \A e \in events : e.time \in Int
  BY FirstSwitchIn, DeltaTAssumption DEF IInv, Programs, WautState, Commands, CommandsOf, Event
<1>2. CASE \E e \in events : ExecuteWaut(e)
  <2>1. PICK e \in events : ExecuteWaut(e)
    BY <1>2
  <2> DEFINE next == Waut[index + 1].when
             N == [command |-> WautCommand, time |-> e.time + (next - now)]
  <2>2. /\ e.command = WautCommand /\ IsWaut(e) /\ IsDue(e) /\ stage = "events"
        /\ index' = index + 1 /\ UNCHANGED <<now, stage, waut>> /\ index <= Len(Waut)
    BY <2>1 DEF ExecuteWaut, IsWaut, WautCommand, IInv, WautQueue, IsNext
  <2>3. /\ Waut' = Waut /\ FutureSwitches' = FutureSwitches
        /\ index \in FutureSwitches
        /\ Waut[index].when <= e.time /\ e.time < Waut[index].when + DeltaT /\ now <= e.time
        /\ e.time < now + DeltaT
    BY <2>2 DEF Waut, FutureSwitches, WautTimes, HasCommand, TimeOfCommand, IsDue
  <2>4. ASSUME index # Len(Waut)
        PROVE  /\ index + 1 \in FutureSwitches /\ next \in Nat
               /\ next > now /\ Waut[index].when + DeltaT <= next
    <3>1. index \in 1..Len(Waut) /\ index + 1 \in 1..Len(Waut)
      BY <1>1, <2>2, <2>4
    <3>2. Waut[index].when + DeltaT <= next
      BY <1>1, <3>1 DEF SwitchesApart, Waut
    <3>3. Waut[index].when \in Nat /\ next \in Nat /\ Waut[index].when > Begin /\ Begin \in Nat
      <4>1. Waut \in Seq([when : Nat, to : Loaded \cup {"off"}])
        BY <1>1, LightsAssumption DEF Waut
      <4>2. Waut[index + 1] \in [when : Nat, to : Loaded \cup {"off"}]
        BY <3>1, <4>1, ElementOfSeq
      <4>3. QED  BY <1>1, <2>3, <4>2, LightsAssumption DEF FutureSwitches
    <3> HIDE DEF next
    <3>4. next > now /\ next > Begin
      BY <1>1, <2>3, <3>2, <3>3
    <3>5. index + 1 \in FutureSwitches
      <4>1. Waut \in Seq([when : Nat, to : Loaded \cup {"off"}])
        BY <1>1, LightsAssumption DEF Waut
      <4>2. DOMAIN Waut = 1..Len(Waut)
        BY <4>1, LenProperties
      <4>3. QED  BY <3>1, <3>4, <4>2 DEF FutureSwitches, next
    <3>6. QED  BY <3>2, <3>3, <3>4, <3>5
  <2>5. \A f \in events : IsWaut(f) => f = e
    BY <2>2 DEF IInv, WautQueue
  <2>6. /\ index # Len(Waut) => N \in events' /\ IsWaut(N)
        /\ \A f \in events' : IsWaut(f) => f = N /\ index # Len(Waut)
    <3> DEFINE queue == (events \ {e}) \cup Requeued(e, WautCommand, NextWautSwitch)
    <3>1. queue = IF index = Len(Waut) THEN events \ {e} ELSE (events \ {e}) \cup {N}
      <4>1. CASE index = Len(Waut)
        <5>1. NextWautSwitch = 0
          BY <4>1 DEF NextWautSwitch
        <5>2. Requeued(e, WautCommand, NextWautSwitch) = {}
          BY <5>1 DEF Requeued
        <5>3. QED  BY <4>1, <5>2
      <4>2. CASE index # Len(Waut)
        <5>1. NextWautSwitch = next - now /\ next \in Nat /\ next > now
          BY <2>4, <4>2 DEF NextWautSwitch
        <5> HIDE DEF next
        <5>2. ~(next - now <= 0)
          BY <1>1, <5>1
        <5>3. Requeued(e, WautCommand, NextWautSwitch) = {N}
          BY <5>1, <5>2 DEF Requeued
        <5>4. QED  BY <4>2, <5>3
      <4>3. QED  BY <4>1, <4>2
    <3>2. IsWaut(N)
      BY DEF IsWaut, WautCommand
    <3>3. \/ events' = queue
          \/ \E time : events' = queue \cup {[command |-> Command("off", 1, time), time |-> time]}
      BY <2>1 DEF ExecuteWaut, Instantiate, AddUnchanged
    <3>4. \A time : ~IsWaut([command |-> Command("off", 1, time), time |-> time])
      BY DEF IsWaut, Command
    <3> HIDE DEF queue, N
    <3>5. QED  BY <2>5, <3>1, <3>2, <3>3, <3>4
  <2>7. HasCommand'
    <3>1. index' <= Len(Waut) => index # Len(Waut)
      BY <1>1, <2>2
    <3>2. index' <= Len(Waut) => \E f \in events' : IsWaut(f)
      BY <2>6, <3>1
    <3>3. index' <= Len(Waut) => index' \in FutureSwitches
      BY <2>2, <2>4, <3>1
    <3>4. QED  BY <2>3, <3>2, <3>3 DEF HasCommand, IsWaut
  <2>8. ASSUME NEW f \in events', IsWaut(f)  PROVE TimeOfCommand(f)'
    <3>1. /\ f.time = e.time + (next - now) /\ index # Len(Waut)
      BY <2>6, <2>8
    <3>2. next \in Nat /\ next > now /\ Waut[index].when + DeltaT <= next
          /\ Waut'[index'].when = next /\ Waut[index].when \in Nat /\ e.time \in Int
      BY <1>1, <2>2, <2>3, <2>4, <3>1
    <3> HIDE DEF next
    <3>3. next <= f.time /\ f.time < next + DeltaT /\ now <= f.time
      BY <1>1, <2>3, <3>1, <3>2
    <3>4. QED  BY <2>2, <3>2, <3>3 DEF TimeOfCommand
  <2>9. ASSUME NEW i \in FutureSwitches, i < index'  PROVE Waut[i].when < now + DeltaT
    <3>1. i < index \/ i = index
      BY <1>1, <2>2, <2>9
    <3>2. Waut[index].when < now + DeltaT
      BY <1>1, <2>3
    <3>3. QED  BY <3>1, <3>2 DEF WautTimes
  <2>10. \A f \in events' : IsWaut(f)' => TimeOfCommand(f)'
    BY <2>8 DEF IsWaut
  <2>11. \A i \in FutureSwitches' : i < index' => Waut'[i].when < now' + DeltaT
    BY <2>2, <2>3, <2>9
  <2>12. QED  BY <2>7, <2>10, <2>11 DEF WautTimes
<1>3. CASE ~\E e \in events : ExecuteWaut(e)
  <2>1. /\ \A f : IsWaut(f) => (f \in events <=> f \in events')
        /\ UNCHANGED <<waut, index>>
    BY <1>3, WautCommandStays
  <2>2. Waut' = Waut /\ FutureSwitches' = FutureSwitches
    BY <2>1 DEF Waut, FutureSwitches
  <2>3. HasCommand'
    BY <2>1, <2>2 DEF WautTimes, HasCommand, IsWaut
  <2>4. \/ now' = now /\ (stage' \in {"check", "move"} => stage \in {"check", "move"})
        \/ now' = now /\ ~\E e \in events : IsDue(e)
        \/ now' = now + DeltaT /\ stage = "move" /\ stage' = "client"
    BY <1>3 DEF Next, vars, Terminated, Client, ClientMay, ChangeOffset, StartSimulation,
           SetPhaseDuration, SetPhaseIndex, SetProgram, SetState, SetCompleteProgram,
           StartEvents, ExecuteSwitch, ExecuteDescheduled, EndEvents, Switch, GoOnWaiting,
           EndCheck, NextSimulationStep
  <2>5. ASSUME NEW e \in events', IsWaut(e)  PROVE TimeOfCommand(e)'
    <3>1. e \in events /\ TimeOfCommand(e) /\ e.time \in Int
      BY <1>1, <2>1, <2>5 DEF WautTimes
    <3>2. /\ Waut'[index'].when = Waut[index].when
      BY <2>1, <2>2
    <3>3. now' <= e.time /\ (stage' \in {"check", "move"} => now' + DeltaT <= e.time)
      BY <1>1, <2>4, <3>1 DEF TimeOfCommand, IsDue
    <3>4. QED  BY <3>1, <3>2, <3>3 DEF TimeOfCommand
  <2>6. \A e \in events' : IsWaut(e)' => TimeOfCommand(e)'
    BY <2>5 DEF IsWaut
  <2>7. ASSUME NEW i \in FutureSwitches, i < index  PROVE Waut[i].when < now' + DeltaT
    <3>1. Waut[i].when < now + DeltaT /\ Waut[i].when \in Nat
      BY <1>1, <2>7 DEF WautTimes
    <3>2. QED  BY <1>1, <2>4, <3>1
  <2>8. QED  BY <2>1, <2>2, <2>3, <2>6, <2>7 DEF WautTimes
<1>4. QED  BY <1>2, <1>3

(* Although the command of the WAUT returns the difference of a time and a step,
   it initiates every switch in the step the time of the switch belongs to, if the
   switches of a WAUT are a step apart: none is lost and none comes early. *)
THEOREM WautOnTimeCorrect ==
    ASSUME MinsPositive, SwitchesApart
    PROVE  Spec => []WautOnTime
<1>1. Init => IInv /\ WautTimes
  BY InitHolds, InitWautTimes
<1>2. IInv /\ WautTimes /\ [Next]_vars => (IInv /\ WautTimes)'
  BY NextKeeps, WautTimesKept
<1>3. IInv /\ WautTimes => WautOnTime
  <2> SUFFICES ASSUME IInv, WautTimes, stage \in {"check", "move"}, NEW i \in FutureSwitches
               PROVE  /\ Waut[i].when <= now => i < index
                      /\ i < index => Waut[i].when < now + DeltaT
    BY DEF WautOnTime
  <2>1. /\ now \in Nat /\ DeltaT \in Nat \ {0} /\ index \in 1..(Len(Waut) + 1) /\ waut \in Wauts
        /\ i \in 1..Len(Waut) /\ Len(Waut) \in Nat /\ FutureSwitches \subseteq 1..Len(Waut)
        /\ \A j \in FutureSwitches : Waut[j].when \in Nat
    BY FirstSwitchIn, DeltaTAssumption DEF IInv, Programs, WautState
  <2>2. ASSUME ~(i < index)  PROVE Waut[i].when > now
    <3>1. index <= Len(Waut) /\ index <= i
      BY <2>1, <2>2
    <3>2. PICK e \in events : IsWaut(e)
      BY <3>1 DEF WautTimes, HasCommand
    <3>3. index \in FutureSwitches /\ now + DeltaT <= e.time
          /\ e.time < Waut[index].when + DeltaT /\ e.time \in Int
      BY <3>1, <3>2 DEF WautTimes, HasCommand, TimeOfCommand, IInv, Commands, CommandsOf, Event
    <3>4. now < Waut[index].when /\ Waut[index].when \in Nat
      BY <2>1, <3>3
    <3>5. CASE i = index
      BY <3>4, <3>5
    <3>6. CASE i # index
      <4>1. Waut[index].when + DeltaT <= Waut[i].when
        BY <2>1, <3>1, <3>3, <3>6 DEF SwitchesApart, Waut
      <4>2. QED  BY <2>1, <3>4, <4>1
    <3>7. QED  BY <3>5, <3>6
  <2>3. Waut[i].when <= now => i < index
    <3>1. Waut[i].when \in Nat
      BY <2>1
    <3>2. QED  BY <2>1, <2>2, <3>1
  <2>4. QED  BY <2>3 DEF WautTimes
<1>4. QED  BY <1>1, <1>2, <1>3, PTL DEF Spec
=============================================================================
