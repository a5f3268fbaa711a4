------------------------ MODULE DepartureOrder_proofs ------------------------
(***************************************************************************)
(* In which order emitVehicles inserts the vehicles of an edge, for every  *)
(* demand of VehicleLifecycle.                                             *)
(***************************************************************************)
EXTENDS InsertionQueue_proofs

-----------------------------------------------------------------------------
(* A vector of the insertion queue in order. *)

(* x may follow y in the queue, if the departure times are d. *)
Before(d, y, x) == d[y] <= d[x] \/ d[x] < 0 \/ (MayBeLate(x) /\ ~SameFlow(y, x))
Ordered(d, s) == \A i, j \in DOMAIN s : i < j => Before(d, s[i], s[j])

(* p pending, r refused in the running step (before whoever is pending), and q still
   in the heap. *)
InLine(d, p, r, q) ==
    /\ Ordered(d, p) /\ Ordered(d, r)
    /\ \A y \in ToSet(r), x \in ToSet(p) : Before(d, y, x)
    /\ \A y \in ToSet(p) \cup ToSet(r), x \in q : Before(d, y, x)

(* Taking the front of a vector keeps the order, and the front comes first. *)
LEMMA OrderedTail ==
    ASSUME NEW d, NEW s \in Seq(Veh), s # <<>>, Ordered(d, s)
    PROVE  /\ Ordered(d, Tail(s))
           /\ \A x \in ToSet(Tail(s)) : Before(d, Head(s), x)
<1>1. /\ Len(s) \in Nat /\ Len(s) > 0 /\ Tail(s) \in Seq(Veh) /\ Head(s) = s[1]
      /\ Len(Tail(s)) = Len(s) - 1 /\ DOMAIN s = 1..Len(s)
      /\ DOMAIN Tail(s) = 1..(Len(s) - 1)
      /\ \A i \in 1..(Len(s) - 1) : Tail(s)[i] = s[i + 1]
  BY EmptySeq, LenProperties
<1>2. ASSUME NEW i \in DOMAIN Tail(s), NEW j \in DOMAIN Tail(s), i < j
      PROVE  Before(d, Tail(s)[i], Tail(s)[j])
  <2>1. i + 1 \in DOMAIN s /\ j + 1 \in DOMAIN s /\ i + 1 < j + 1
    BY <1>1, <1>2
  <2>2. QED  BY <1>1, <2>1 DEF Ordered
<1>3. ASSUME NEW x \in ToSet(Tail(s))  PROVE Before(d, Head(s), x)
  <2>1. PICK i \in 1..(Len(s) - 1) : Tail(s)[i] = x
    <3>1. Tail(s) \in Seq(Veh)
      BY <1>1
    <3>2. \E i \in 1..Len(Tail(s)) : Tail(s)[i] = x
      BY <3>1, ToSetByIndex
    <3>3. QED  BY <1>1, <3>2
  <2>2. 1 \in DOMAIN s /\ i + 1 \in DOMAIN s /\ 1 < i + 1 /\ s[i + 1] = x
    BY <1>1, <2>1
  <2>3. QED  BY <1>1, <2>2 DEF Ordered
<1>4. QED  BY <1>2, <1>3 DEF Ordered

(* Whoever may follow all the others may be pushed back. *)
LEMMA OrderedAppend ==
    ASSUME NEW d, NEW s \in Seq(Veh), NEW v \in Veh, Ordered(d, s),
           \A y \in ToSet(s) : Before(d, y, v)
    PROVE  Ordered(d, Append(s, v))
<1>1. /\ Len(s) \in Nat /\ DOMAIN s = 1..Len(s)
      /\ DOMAIN Append(s, v) = 1..(Len(s) + 1)
      /\ \A i \in 1..Len(s) : Append(s, v)[i] = s[i]
      /\ Append(s, v)[Len(s) + 1] = v
  BY AppendProperties, LenProperties
<1>2. \A i \in 1..Len(s) : s[i] \in ToSet(s)
  BY ToSetByIndex
<1> SUFFICES ASSUME NEW i \in 1..(Len(s) + 1), NEW j \in 1..(Len(s) + 1), i < j
             PROVE  Before(d, Append(s, v)[i], Append(s, v)[j])
  BY <1>1 DEF Ordered
<1>3. i \in 1..Len(s)
  BY <1>1
<1>4. CASE j = Len(s) + 1
  BY <1>1, <1>2, <1>3, <1>4
<1>5. CASE j # Len(s) + 1
  <2>1. j \in 1..Len(s)
    BY <1>1, <1>5
  <2>2. QED  BY <1>1, <1>3, <2>1 DEF Ordered
<1>6. QED  BY <1>4, <1>5

(* Erasing keeps the order. *)
LEMMA OrderedRemove ==
    ASSUME NEW d, NEW s \in Seq(Veh), NEW k \in DOMAIN s, Ordered(d, s)
    PROVE  Ordered(d, RemoveAt(s, k))
<1> DEFINE r == RemoveAt(s, k)
<1>1. /\ Len(s) \in Nat /\ DOMAIN s = 1..Len(s) /\ k \in 1..Len(s)
      /\ r \in Seq(Veh) /\ DOMAIN r = 1..(Len(s) - 1)
      /\ \A j \in 1..(Len(s) - 1) : r[j] = IF j < k THEN s[j] ELSE s[j + 1]
  BY RemoveAtIndex, LenProperties
<1> HIDE DEF r
<1> SUFFICES ASSUME NEW i \in 1..(Len(s) - 1), NEW j \in 1..(Len(s) - 1), i < j
             PROVE  Before(d, r[i], r[j])
  BY <1>1 DEF Ordered, r
<1> DEFINE a == IF i < k THEN i ELSE i + 1
           b == IF j < k THEN j ELSE j + 1
<1>2. a \in 1..Len(s) /\ b \in 1..Len(s) /\ a < b
  BY <1>1
<1>3. r[i] = s[a] /\ r[j] = s[b]
  BY <1>1
<1> HIDE DEF a, b
<1>4. QED  BY <1>1, <1>2, <1>3 DEF Ordered

(* tryInsert takes the front of the pending vehicles, for good or to refuse it. *)
LEMMA LineTried ==
    ASSUME NEW d, NEW p \in Seq(Veh), NEW r \in Seq(Veh), NEW q, InLine(d, p, r, q),
           p # <<>>
    PROVE  /\ InLine(d, Tail(p), r, q)
           /\ InLine(d, Tail(p), Append(r, Head(p)), q)
           /\ \A x \in ToSet(Tail(p)) : Before(d, Head(p), x)
<1>1. /\ Head(p) \in Veh /\ Tail(p) \in Seq(Veh)
      /\ ToSet(p) = {Head(p)} \cup ToSet(Tail(p))
  BY TailElements
<1>2. /\ Ordered(d, Tail(p))
      /\ \A x \in ToSet(Tail(p)) : Before(d, Head(p), x)
  BY OrderedTail DEF InLine
<1>3. /\ Ordered(d, Append(r, Head(p)))
      /\ ToSet(Append(r, Head(p))) = ToSet(r) \cup {Head(p)}
  BY <1>1, OrderedAppend, AppendElements DEF InLine
<1>4. QED  BY <1>1, <1>2, <1>3 DEF InLine

(* clearPendingVehicles takes out any of them. *)
LEMMA LineCleared ==
    ASSUME NEW d, NEW p \in Seq(Veh), NEW r, NEW q, InLine(d, p, r, q), NEW i \in DOMAIN p
    PROVE  InLine(d, RemoveAt(p, i), r, q)
<1>1. Ordered(d, RemoveAt(p, i)) /\ ToSet(RemoveAt(p, i)) \subseteq ToSet(p)
  BY OrderedRemove, RemoveAtElements DEF InLine
<1>2. QED  BY <1>1 DEF InLine

(* checkCandidates moves the front of the heap to the back of the pending vehicles. *)
LEMMA LineReleased ==
    ASSUME NEW d, NEW p \in Seq(Veh), NEW r, NEW q \in SUBSET Veh, InLine(d, p, r, q),
           NEW v \in q, \A w \in q : d[v] <= d[w] \/ d[w] < 0
    PROVE  InLine(d, Append(p, v), r, q \ {v})
<1>1. /\ ToSet(Append(p, v)) = ToSet(p) \cup {v}
      /\ Ordered(d, Append(p, v))
  BY OrderedAppend, AppendElements DEF InLine
<1>2. \A w \in q : Before(d, v, w)
  BY DEF Before
<1>3. QED  BY <1>1, <1>2 DEF InLine

(* What was refused is pending in the next step. *)
LEMMA LineClosed ==
    ASSUME NEW d, NEW r, NEW q, InLine(d, <<>>, r, q)
    PROVE  InLine(d, r, <<>>, q)
<1>1. ToSet(<<>>) = {} /\ DOMAIN <<>> = {}
  BY DEF ToSet
<1>2. Ordered(d, <<>>)
  BY <1>1 DEF Ordered
<1>3. QED  BY <1>1, <1>2 DEF InLine

(* Vehicles come into the heap; departure times of others may change. *)
LEMMA LineJoined ==
    ASSUME NEW d, NEW e, NEW p \in Seq(Veh), NEW r \in Seq(Veh), NEW q, NEW S,
           InLine(d, p, r, q),
           \A v \in ToSet(p) \cup ToSet(r) \cup q : e[v] = d[v],
           \A y \in ToSet(p) \cup ToSet(r), x \in S : Before(e, y, x)
    PROVE  InLine(e, p, r, q \cup S)
<1>1. \A y, x \in ToSet(p) \cup ToSet(r) \cup q : Before(d, y, x) => Before(e, y, x)
  BY DEF Before
<1>2. /\ \A i \in DOMAIN p : p[i] \in ToSet(p)
      /\ \A i \in DOMAIN r : r[i] \in ToSet(r)
  BY ToSetByIndex, LenProperties
<1>3. Ordered(e, p) /\ Ordered(e, r)
  BY <1>1, <1>2 DEF InLine, Ordered
<1>4. QED  BY <1>1, <1>3 DEF InLine
-----------------------------------------------------------------------------
(* When the vehicles of flows are due. *)

(* The ids of a flow ("f.0", "f.1", ...) are the flow's own. *)
FlowsApart ==
    \A f \in Flow :
       /\ ToSet(FlowVeh[f]) \cap (FileVeh \cup TrigVeh \cup TraciVeh) = {}
       /\ \A g \in Flow : ToSet(FlowVeh[f]) \cap ToSet(FlowVeh[g]) # {} => f = g

(* The vehicles of a flow depart before those it has still to create. *)
FlowDeparts == \A f \in Flow : \A v \in ToSet(FlowVeh[f]) :
                  loc[v] # "none" => depart[v] <= DepartOf(f, flow[f].done)

(* The loop over the flows is past f in this step. *)
Visited(f) == \/ phase \in {"candidates", "emit", "transfer"}
              \/ phase = "flows" /\ f \notin flowTodo /\ flowOpen # f

(* A flow that never waits creates each vehicle in time. *)
VolatileOnTime ==
    \A f \in Volatile \ ProbFlow : flow[f].done < Number[f] =>
       /\ flow[f].active
       /\ DepartOf(f, flow[f].done) >= now
       /\ Visited(f) => DepartOf(f, flow[f].done) > now

(* The next repetition is not due before this one. *)
LEMMA DepartGrows ==
    ASSUME NEW f \in Flow, NEW n \in Nat, now \in Nat
    PROVE  /\ DepartOf(f, n) \in Int
           /\ DepartOf(f, n) <= DepartOf(f, n + 1)
<1>1. Begin[f] \in Nat /\ Offset[f] \in Nat
  BY ConstantsAssumption
<1>2. ASSUME NEW o \in Nat, NEW b \in Nat  PROVE b + n * o <= b + (n + 1) * o
  <2>1. (n + 1) * o = n * o + o /\ n * o \in Nat
    OBVIOUS
  <2>2. QED  BY <2>1
<1>3. CASE f \in ProbFlow
  BY <1>3 DEF DepartOf
<1>4. CASE f \notin ProbFlow
  <2>1. /\ DepartOf(f, n) = Begin[f] + n * Offset[f]
        /\ DepartOf(f, n + 1) = Begin[f] + (n + 1) * Offset[f]
    BY <1>4 DEF DepartOf
  <2>2. Begin[f] + n * Offset[f] \in Int
    BY <1>1
  <2>3. QED  BY <1>1, <1>2, <2>1, <2>2
<1>5. QED  BY <1>3, <1>4

(* What a repetition of a flow does to the departure times. *)
LEMMA RepetitionDeparts ==
    ASSUME TypeOK, NEW f \in Flow, NEW q \in Quotas, FlowRepetition(f, q)
    PROVE  /\ NextIds(f, q) \subseteq ToSet(FlowVeh[f]) /\ NextIds(f, q) \subseteq Veh
           /\ \A v \in NextIds(f, q) :
                 /\ loc[v] = "none"
                 /\ depart'[v] \in {DepartOf(f, flow[f].done), DepartOf(f, flow[f].done + 1)}
           /\ \A v \in Veh \ NextIds(f, q) : depart'[v] = depart[v] /\ loc'[v] = loc[v]
           /\ \A g \in Flow : flow'[g].done = IF g = f THEN flow[f].done + 1
                                              ELSE flow[g].done
<1>1. /\ q \in Nat /\ q > 0 /\ flow[f].index \in Nat
      /\ flow[f].index + q <= Len(FlowVeh[f])
      /\ FlowVeh[f] \in Seq(Veh)
  BY ConstantsAssumption DEF FlowRepetition, TypeOK
<1>2. \A i \in 1..q : flow[f].index + i \in 1..Len(FlowVeh[f])
  BY <1>1, FlowIdType
<1>3. NextIds(f, q) \subseteq ToSet(FlowVeh[f]) /\ NextIds(f, q) \subseteq Veh
  <2>1. ToSet(FlowVeh[f]) \subseteq Veh
    BY <1>1, ToSetByIndex
  <2>2. ASSUME NEW i \in 1..q  PROVE FlowVeh[f][flow[f].index + i] \in ToSet(FlowVeh[f])
    <3>1. flow[f].index + i \in 1..Len(FlowVeh[f])
      BY <1>2
    <3>2. QED  BY <1>1, <3>1, ToSetByIndex
  <2>3. QED  BY <2>1, <2>2 DEF NextIds
<1>4. FlowVeh[f][flow[f].index + 1] \in NextIds(f, q)
  <2>1. 1 \in 1..q
    BY <1>1
  <2>2. QED  BY <2>1 DEF NextIds
<1>5. \A v \in Veh : /\ depart'[v] = IF v = FlowVeh[f][flow[f].index + 1]
                                     THEN DepartOf(f, flow[f].done)
                                     ELSE IF v \in NextIds(f, q)
                                     THEN DepartOf(f, flow[f].done + 1) ELSE depart[v]
                     /\ loc'[v] = IF v \in NextIds(f, q) THEN "waiting" ELSE loc[v]
  BY DEF FlowRepetition
<1>6. \A v \in NextIds(f, q) : loc[v] = "none"
  BY DEF FlowRepetition
<1>7. \A g \in Flow : flow'[g].done = IF g = f THEN flow[f].done + 1 ELSE flow[g].done
  BY DEF FlowRepetition, Repeated, TypeOK
<1>8. QED  BY <1>3, <1>4, <1>5, <1>6, <1>7

(* The due time of the next repetition never moves back. *)
LEMMA DueLater ==
    ASSUME TypeOK, TypeOK', NEW f \in Flow, now' >= now,
           flow'[f].done \in {flow[f].done, flow[f].done + 1}
    PROVE  /\ DepartOf(f, flow[f].done) \in Int /\ DepartOf(f, flow[f].done)' \in Int
           /\ DepartOf(f, flow[f].done) <= DepartOf(f, flow[f].done)'
<1>1. flow[f].done \in Nat /\ flow'[f].done \in Nat /\ now \in Nat /\ now' \in Nat
  BY DEF TypeOK
<1>2. /\ DepartOf(f, flow[f].done) \in Int /\ DepartOf(f, flow[f].done + 1) \in Int
      /\ DepartOf(f, flow[f].done) <= DepartOf(f, flow[f].done + 1)
  BY <1>1, DepartGrows
<1>3. CASE f \in ProbFlow
  BY <1>1, <1>3 DEF DepartOf
<1>4. CASE f \notin ProbFlow
  <2>1. DepartOf(f, flow[f].done)' = DepartOf(f, flow'[f].done)
    BY <1>4 DEF DepartOf
  <2>2. QED  BY <1>2, <2>1
<1>5. QED  BY <1>3, <1>4

(* A step that creates no vehicle of a flow. *)
LEMMA FlowDepartsSame ==
    ASSUME TypeOK, TypeOK', FlowDeparts, now' >= now,
           \A f \in Flow : flow'[f].done \in {flow[f].done, flow[f].done + 1},
           \A f \in Flow : \A v \in ToSet(FlowVeh[f]) :
              loc'[v] # "none" => loc[v] # "none" /\ depart'[v] = depart[v]
    PROVE  FlowDeparts'
<1> SUFFICES ASSUME NEW f \in Flow, NEW v \in ToSet(FlowVeh[f]), loc'[v] # "none"
             PROVE  depart'[v] <= DepartOf(f, flow[f].done)'
  BY DEF FlowDeparts
<1>1. depart'[v] = depart[v] /\ depart[v] <= DepartOf(f, flow[f].done)
  BY DEF FlowDeparts
<1>2. v \in Veh
  BY ConstantsAssumption, ToSetByIndex
<1>3. /\ depart[v] \in Int
      /\ DepartOf(f, flow[f].done) \in Int /\ DepartOf(f, flow[f].done)' \in Int
      /\ DepartOf(f, flow[f].done) <= DepartOf(f, flow[f].done)'
  BY <1>2, DueLater DEF TypeOK
<1>4. QED  BY <1>1, <1>3

(* Who a step brings to life: a vehicle of no flow, or the next ones of a flow. *)
LEMMA WhoIsBuilt ==
    ASSUME TypeOK, Shape, FlowsApart, [Next]_vars
    PROVE  /\ now' >= now
           /\ \/ \E f \in Flow : \E q \in Quotas : FlowRepetition(f, q)
              \/ /\ \A f \in Flow : flow'[f].done \in {flow[f].done, flow[f].done + 1}
                 /\ \A f \in Flow : flow'[f].index >= flow[f].index
                 /\ \A f \in Flow : \A v \in ToSet(FlowVeh[f]) :
                       loc'[v] # "none" => loc[v] # "none" /\ depart'[v] = depart[v]
<1> DEFINE Others ==
      /\ now' >= now
      /\ \A f \in Flow : flow'[f].done \in {flow[f].done, flow[f].done + 1}
      /\ \A f \in Flow : flow'[f].index >= flow[f].index
      /\ \A f \in Flow : \A v \in ToSet(FlowVeh[f]) :
            loc'[v] # "none" => loc[v] # "none" /\ depart'[v] = depart[v]
<1> USE DEF timeVars, flowVars, counterVars
<1>0. ASSUME UNCHANGED <<now, flow, loc, depart>>  PROVE Others
  BY <1>0 DEF TypeOK
<1>1. \A f \in Flow : ToSet(FlowVeh[f]) \subseteq Veh
  BY ConstantsAssumption, ToSetByIndex
<1>2. ASSUME NEW v \in FileVeh \cup TrigVeh \cup TraciVeh, NEW d, Build(v, d),
             UNCHANGED <<now, flow>>
      PROVE  Others
  <2>1. \A f \in Flow : v \notin ToSet(FlowVeh[f])
    BY DEF FlowsApart
  <2>2. \A u \in Veh : u # v => loc'[u] = loc[u] /\ depart'[u] = depart[u]
    BY <1>2 DEF Build, TypeOK
  <2>3. QED  BY <1>1, <1>2, <2>1, <2>2 DEF TypeOK
<1>3. ASSUME NEW v \in Veh, loc[v] # "none" \/ loc'[v] = "none",
             UNCHANGED <<now, flow, depart>>, NEW x, loc' = [loc EXCEPT ![v] = x]
      PROVE  Others
  BY <1>1, <1>3 DEF TypeOK
<1>4. ASSUME NEW v \in Veh, CheckFlowWait(v), UNCHANGED <<now, depart>>,
             NEW x, loc' = [loc EXCEPT ![v] = x], loc[v] # "none" \/ x = "none"
      PROVE  Others
  BY <1>1, <1>4 DEF CheckFlowWait, TypeOK
<1> SUFFICES \/ Others
             \/ now' >= now /\ \E f \in Flow : \E q \in Quotas : FlowRepetition(f, q)
  OBVIOUS
<1> HIDE DEF Others
<1>5. CASE Client
  <2>1. ASSUME NEW v \in Veh, NEW d \in (now..Horizon) \cup {-1}, TraciAdd(v, d)  PROVE Others
    BY <1>2, <2>1 DEF TraciAdd
  <2>2. ASSUME NEW v \in Veh, TraciRemove(v)  PROVE Others
    BY <1>3, <2>2 DEF TraciRemove, ScheduleVehicleRemoval, Departed
  <2>3. ASSUME NEW v \in Veh, TraciMoveTo(v)  PROVE Others
    BY <1>3, <2>3 DEF TraciMoveTo, EnterLane, Departed, Live
  <2>4. ASSUME NEW i \in DOMAIN pending, TraciClearPending(i)  PROVE Others
    BY <1>3, <2>4, ClearedWaits DEF TraciClearPending, DiscardVehicle
  <2>5. QED
    BY <1>0, <1>5, <2>1, <2>2, <2>3, <2>4 DEF Client, TraciAddInvalid, TraciClose
<1>6. CASE Traffic
  <2>1. ASSUME NEW v \in Veh, Leave(v) \/ TeleportOnLastEdge(v)  PROVE Others
    BY <1>3, <2>1 DEF Leave, TeleportOnLastEdge, ScheduleVehicleRemoval
  <2>2. ASSUME NEW v \in Veh, Park(v) \/ Teleport(v)  PROVE Others
    BY <1>3, <2>2 DEF Park, Teleport
  <2>3. ASSUME NEW v \in Veh, TeleportEnds(v) \/ ParkingEnds(v)  PROVE Others
    BY <1>3, <2>3 DEF TeleportEnds, ParkingEnds, Shape, TransferExact
  <2>4. ASSUME NEW v \in Veh, TeleportBeyondArrival(v)  PROVE Others
    BY <1>3, <2>4 DEF TeleportBeyondArrival, ScheduleVehicleRemoval, Shape, TransferExact
  <2>5. QED
    BY <1>0, <1>6, <2>1, <2>2, <2>3, <2>4
       DEF Traffic, ReachStop, WaitAtStop, LeaveStop, Vaporization
<1>7. CASE Demand
  <2>1. ASSUME NEW v \in Veh, NEW d \in 0..FileHorizon, LoadVehicle(v, d)  PROVE Others
    BY <1>2, <2>1 DEF LoadVehicle
  <2>2. ASSUME NEW v \in Veh, LoadTriggered(v)  PROVE Others
    BY <1>2, <2>2 DEF LoadTriggered
  <2>3. ASSUME NEW v \in Veh, LoadDiscarded(v) \/ PersonTakesVehicle(v)  PROVE Others
    BY <1>0, <2>3 DEF LoadDiscarded, PersonTakesVehicle
  <2>4. ASSUME NEW f \in Flow, FlowSkip(f)  PROVE Others
    BY <1>0, <2>4 DEF FlowSkip
  <2>5. ASSUME NEW f \in Flow, FlowClose(f)  PROVE Others
    <3>1. \A g \in Flow : flow'[g].done = flow[g].done /\ flow'[g].index = flow[g].index
      BY <2>5 DEF FlowClose, TypeOK
    <3>2. UNCHANGED <<now, loc, depart>>
      BY <2>5 DEF FlowClose
    <3>3. QED  BY <3>1, <3>2 DEF Others, TypeOK
  <2>6. ASSUME NEW f \in Flow, FlowDiscarded(f)  PROVE Others
    <3>1. \A g \in Flow : /\ flow'[g].done \in {flow[g].done, flow[g].done + 1}
                          /\ flow'[g].index = flow[g].index
      BY <2>6 DEF FlowDiscarded, Repeated, TypeOK
    <3>2. UNCHANGED <<now, loc, depart>>
      BY <2>6 DEF FlowDiscarded
    <3>3. QED  BY <3>1, <3>2 DEF Others, TypeOK
  <2>7. CASE IdClash
    BY <1>0, <2>7 DEF IdClash
  <2>8. ASSUME NEW f \in Flow, NEW q \in Quotas, FlowRepetition(f, q)  PROVE now' >= now
    BY <2>8 DEF FlowRepetition, TypeOK
  <2>9. QED
    BY <1>7, <2>1, <2>2, <2>3, <2>4, <2>5, <2>6, <2>7, <2>8 DEF Demand
<1>8. CASE Insertion
  <2>1. ASSUME NEW v \in Veh, TryInsertSucceeds(v)  PROVE Others
    BY <1>4, <2>1, TriedWaits DEF TryInsertSucceeds, EnterLane
  <2>2. ASSUME NEW v \in Veh, NEW b \in BOOLEAN, TryInsertFails(v, b)  PROVE Others
    <3>1. /\ UNCHANGED <<now, depart>>
          /\ \/ CheckFlowWait(v) /\ DiscardVehicle(v)
             \/ UNCHANGED <<loc, flow>>
      BY <2>2 DEF TryInsertFails
    <3>2. QED  BY <1>0, <1>4, <3>1 DEF DiscardVehicle
  <2>3. QED
    BY <1>0, <1>8, <2>1, <2>2
       DEF Insertion, Release, TryInsertOnRoad, StartEmit, EmitSkip
<1>9. CASE EndPhase
  <2>1. CASE EndStep
    BY <2>1 DEF EndStep, Others, TypeOK
  <2>2. CASE EndPersons
    BY <1>0, <2>2 DEF EndPersons
  <2>3. QED
    BY <1>0, <1>9, <2>1, <2>2
       DEF EndPhase, StartStep, EndEvents, EndMove, EndLoad, EndFlows, EndEmit
<1>10. CASE UNCHANGED vars
  BY <1>0, <1>10 DEF vars
<1>11. QED
  BY <1>5, <1>6, <1>7, <1>8, <1>9, <1>10 DEF Next, Terminated

(* The vehicles of a flow depart in the order in which it creates them. *)
LEMMA FlowDepartsKept ==
    ASSUME TypeOK, TypeOK', Shape, FlowsApart, FlowDeparts, [Next]_vars
    PROVE  FlowDeparts'
<1>1. ASSUME NEW f \in Flow, NEW q \in Quotas, FlowRepetition(f, q)
      PROVE  FlowDeparts'
  <2> SUFFICES ASSUME NEW g \in Flow, NEW v \in ToSet(FlowVeh[g]), loc'[v] # "none"
               PROVE  depart'[v] <= DepartOf(g, flow[g].done)'
    BY DEF FlowDeparts
  <2>1. v \in Veh /\ now' = now /\ now \in Nat
    BY <1>1, ConstantsAssumption, ToSetByIndex DEF FlowRepetition, timeVars, TypeOK
  <2>2. DepartOf(g, flow[g].done)' = DepartOf(g, flow'[g].done)
    BY <2>1 DEF DepartOf
  <2>3. /\ DepartOf(g, flow[g].done) \in Int /\ DepartOf(g, flow[g].done + 1) \in Int
        /\ DepartOf(g, flow[g].done) <= DepartOf(g, flow[g].done + 1)
    <3>1. flow[g].done \in Nat
      BY DEF TypeOK
    <3>2. flow[g].done + 1 \in Nat
      BY <3>1
    <3>3. QED  BY <2>1, <3>1, <3>2, DepartGrows
  <2>4. CASE v \in NextIds(f, q)
    <3>1. g = f /\ flow'[g].done = flow[g].done + 1
          /\ depart'[v] \in {DepartOf(g, flow[g].done), DepartOf(g, flow[g].done + 1)}
      BY <1>1, <2>4, RepetitionDeparts DEF FlowsApart
    <3>2. QED  BY <2>2, <2>3, <3>1
  <2>5. CASE v \notin NextIds(f, q)
    <3>1. depart'[v] = depart[v] /\ loc[v] # "none" /\ depart[v] \in Int
      <4>1. depart'[v] = depart[v] /\ loc'[v] = loc[v]
        BY <1>1, <2>1, <2>5, RepetitionDeparts
      <4>2. QED  BY <2>1, <4>1 DEF TypeOK
    <3>2. depart[v] <= DepartOf(g, flow[g].done)
      BY <3>1 DEF FlowDeparts
    <3>3. flow'[g].done \in {flow[g].done, flow[g].done + 1}
      BY <1>1, RepetitionDeparts
    <3>4. QED  BY <2>2, <2>3, <3>1, <3>2, <3>3
  <2>6. QED  BY <2>4, <2>5
<1>2. QED  BY <1>1, WhoIsBuilt, FlowDepartsSame

(* A step that repeats no flow and does not enter a later part of the step. *)
LEMMA VolatileSame ==
    ASSUME VolatileOnTime, UNCHANGED <<flow, now>>,
           \A f \in Volatile \ ProbFlow : Visited(f)' => Visited(f)
    PROVE  VolatileOnTime'
  BY DEF VolatileOnTime, DepartOf

(* A repetition of f is done, or f has nothing to create in this step. *)
LEMMA VolatileVisited ==
    ASSUME TypeOK, TypeOK', VolatileOnTime, NEW f \in Flow, Visiting(f),
           UNCHANGED <<now, phase>>,
           \A g \in Flow : g # f => flow'[g] = flow[g],
           flow'[f].done \in {flow[f].done, flow[f].done + 1},
           f \notin ProbFlow /\ flow'[f].done < Number[f]
              => flow'[f].active = flow[f].active,
           \/ flowOpen' = f /\ UNCHANGED flowTodo
           \/ /\ flowOpen' = None /\ flowTodo' = flowTodo \ {f}
              /\ ~Due(f) \/ f \in ProbFlow
              /\ flow'[f].done = flow[f].done
    PROVE  VolatileOnTime'
<1> SUFFICES ASSUME NEW g \in Volatile \ ProbFlow, flow'[g].done < Number[g]
             PROVE  /\ flow'[g].active
                    /\ DepartOf(g, flow[g].done)' >= now
                    /\ Visited(g)' => DepartOf(g, flow[g].done)' > now
  BY DEF VolatileOnTime
<1>0. /\ g \in Flow \ ProbFlow /\ g # None /\ Number[g] \in Nat /\ now \in Nat
      /\ phase = "flows"
  BY ConstantsAssumption DEF TypeOK, Visiting
<1>1. CASE g # f
  <2>1. Visited(g)' => Visited(g)
    BY <1>0, <1>1 DEF Visited, Visiting
  <2>2. DepartOf(g, flow[g].done)' = DepartOf(g, flow[g].done) /\ flow'[g] = flow[g]
    BY <1>0, <1>1 DEF DepartOf
  <2>3. QED  BY <2>1, <2>2 DEF VolatileOnTime
<1>2. CASE g = f
  <2>1. /\ flow[f].done \in Nat /\ flow[f].done < Number[f]
        /\ DepartOf(f, flow[f].done) >= now /\ flow[f].active
    <3>1. flow[f].done \in Nat /\ flow'[f].done \in Nat
      BY <1>0, <1>2 DEF TypeOK
    <3>2. flow[f].done < Number[f]
      BY <1>0, <1>2, <3>1
    <3>3. QED  BY <1>2, <3>1, <3>2 DEF VolatileOnTime
  <2>2. /\ DepartOf(f, flow[f].done) \in Int /\ DepartOf(f, flow[f].done)' \in Int
        /\ DepartOf(f, flow[f].done) <= DepartOf(f, flow[f].done)'
    BY <1>0, DueLater
  <2>3. flow'[f].active /\ DepartOf(f, flow[f].done)' >= now
    <3>1. flow'[f].active
      BY <1>0, <1>2, <2>1
    <3>2. DepartOf(f, flow[f].done)' >= now
      BY <1>0, <2>1, <2>2
    <3>3. QED  BY <3>1, <3>2
  <2>4. ASSUME Visited(f)'  PROVE DepartOf(f, flow[f].done)' > now
    <3>1. flowOpen' # f
      BY <1>0, <2>4 DEF Visited
    <3>2. ~Due(f) /\ f \notin ProbFlow
      BY <1>2, <3>1
    <3>3. ~(Begin[f] + flow[f].done * Offset[f] <= now)
      BY <2>1, <3>2 DEF Due
    <3>4. DepartOf(f, flow[f].done) > now
      BY <1>0, <2>2, <3>2, <3>3 DEF DepartOf
    <3>5. QED  BY <1>0, <2>2, <3>4
  <2>5. QED  BY <1>2, <2>3, <2>4
<1>3. QED  BY <1>1, <1>2

(* Flows over distributions and those with a random lane or position never fall
   behind. *)
LEMMA VolatileKept ==
    ASSUME TypeOK, TypeOK', VolatileOnTime, [Next]_vars
    PROVE  VolatileOnTime'
<1> USE DEF timeVars, flowVars
<1>0. ASSUME UNCHANGED <<flow, now, phase, flowTodo, flowOpen>>  PROVE VolatileOnTime'
  BY <1>0, VolatileSame DEF Visited
<1>00. ASSUME UNCHANGED <<flow, now>>,
              phase' \in {"ended", "error", "traci", "events", "move", "load", "persons"}
       PROVE  VolatileOnTime'
  BY <1>00, VolatileSame DEF Visited
<1>1. CASE Client
  BY <1>0, <1>00, <1>1
     DEF Client, TraciAdd, TraciRemove, TraciMoveTo, TraciClearPending, TraciAddInvalid,
         TraciClose
<1>2. CASE Traffic
  BY <1>0, <1>2
     DEF Traffic, Leave, ReachStop, Park, Teleport, TeleportOnLastEdge, WaitAtStop,
         LeaveStop, TeleportEnds, TeleportBeyondArrival, ParkingEnds, Vaporization
<1>3. CASE Demand
  <2>1. ASSUME NEW f \in Flow, FlowSkip(f)  PROVE VolatileOnTime'
    <3>1. f \notin Volatile /\ UNCHANGED <<flow, now, phase, flowOpen>>
          /\ flowTodo' = flowTodo \ {f}
      BY <2>1 DEF FlowSkip, Blocked
    <3>2. QED  BY <3>1, VolatileSame DEF Visited
  <2>2. ASSUME NEW f \in Flow, FlowClose(f)  PROVE VolatileOnTime'
    <3>1. /\ Visiting(f) /\ UNCHANGED <<now, phase>>
          /\ flowOpen' = None /\ flowTodo' = flowTodo \ {f}
          /\ ~Due(f) \/ f \in ProbFlow
      BY <2>2 DEF FlowClose
    <3>2. /\ \A g \in Flow : g # f => flow'[g] = flow[g]
          /\ flow'[f].done = flow[f].done
          /\ ~Exhausted(f) => flow'[f].active = flow[f].active
      BY <2>2 DEF FlowClose, TypeOK
    <3>3. f \notin ProbFlow /\ flow'[f].done < Number[f] => ~Exhausted(f)
      <4>1. flow[f].done \in Nat /\ Number[f] \in Nat
        BY ConstantsAssumption DEF TypeOK
      <4>2. QED  BY <3>2, <4>1 DEF Exhausted
    <3>4. QED  BY <3>1, <3>2, <3>3, VolatileVisited
  <2>3. ASSUME NEW f \in Flow, FlowDiscarded(f)  PROVE VolatileOnTime'
    <3>1. /\ Visiting(f) /\ UNCHANGED <<now, phase, flowTodo>> /\ flowOpen' = f
          /\ flow' = Repeated(f, 0, None)
      BY <2>3 DEF FlowDiscarded
    <3>2. /\ \A g \in Flow : g # f => flow'[g] = flow[g]
          /\ flow'[f].done = flow[f].done + 1 /\ flow'[f].active = flow[f].active
      BY <3>1 DEF Repeated, TypeOK
    <3>3. QED  BY <3>1, <3>2, VolatileVisited
  <2>4. ASSUME NEW f \in Flow, NEW q \in Quotas, FlowRepetition(f, q)
        PROVE  VolatileOnTime'
    <3>1. /\ Visiting(f) /\ UNCHANGED <<now, phase, flowTodo>> /\ flowOpen' = f
          /\ flow' = Repeated(f, q, FlowVeh[f][flow[f].index + q])
      BY <2>4 DEF FlowRepetition
    <3>2. /\ \A g \in Flow : g # f => flow'[g] = flow[g]
          /\ flow'[f].done = flow[f].done + 1 /\ flow'[f].active = flow[f].active
      BY <3>1 DEF Repeated, TypeOK
    <3>3. QED  BY <3>1, <3>2, VolatileVisited
  <2>5. QED
    BY <1>0, <1>00, <1>3, <2>1, <2>2, <2>3, <2>4
       DEF Demand, LoadVehicle, LoadTriggered, LoadDiscarded, PersonTakesVehicle, IdClash
<1>4. CASE Insertion
  <2>1. ASSUME NEW v \in Veh, CheckFlowWait(v), UNCHANGED <<now, phase, flowTodo, flowOpen>>
        PROVE  VolatileOnTime'
    <3>1. \A f \in Flow : flow'[f].done = flow[f].done /\ flow'[f].active = flow[f].active
      BY <2>1 DEF CheckFlowWait, TypeOK
    <3>2. \A f \in Volatile \ ProbFlow : f \in Flow
      BY ConstantsAssumption
    <3>3. \A f \in Volatile \ ProbFlow :
             DepartOf(f, flow[f].done)' = DepartOf(f, flow[f].done)
      BY <2>1, <3>1, <3>2 DEF DepartOf
    <3>4. QED  BY <2>1, <3>1, <3>2, <3>3 DEF VolatileOnTime, Visited
  <2>2. ASSUME NEW passed \in SUBSET ToSet(pending), StartEmit(passed)
        PROVE  VolatileOnTime'
    BY <2>2, VolatileSame DEF StartEmit, Visited
  <2>3. ASSUME NEW v \in Veh, NEW b \in BOOLEAN, TryInsertFails(v, b)
        PROVE  VolatileOnTime'
    <3>1. CheckFlowWait(v) \/ UNCHANGED flow
      BY <2>3 DEF TryInsertFails
    <3>2. UNCHANGED <<now, phase, flowTodo, flowOpen>>
      BY <2>3 DEF TryInsertFails
    <3>3. QED  BY <1>0, <2>1, <3>1, <3>2
  <2>4. QED
    BY <1>0, <1>4, <2>1, <2>2, <2>3
       DEF Insertion, Release, TryInsertOnRoad, TryInsertSucceeds, EmitSkip
<1>5. CASE EndPhase
  <2>1. CASE EndPersons
    <3>1. /\ UNCHANGED <<flow, now, flowOpen>> /\ phase' = "flows"
          /\ flowTodo' = {f \in Flow : flow[f].active}
      BY <2>1 DEF EndPersons
    <3>2. \A f \in Volatile \ ProbFlow :
             flow[f].done < Number[f] => f \in flowTodo'
      BY <3>1, ConstantsAssumption DEF VolatileOnTime
    <3>3. QED  BY <3>1, <3>2 DEF VolatileOnTime, Visited, DepartOf
  <2>2. CASE EndFlows
    <3>1. /\ phase = "flows" /\ flowTodo = {} /\ flowOpen = None
          /\ UNCHANGED <<flow, now>>
      BY <2>2 DEF EndFlows
    <3>2. \A f \in Volatile \ ProbFlow : Visited(f)
      BY <3>1, ConstantsAssumption DEF Visited
    <3>3. QED  BY <3>1, <3>2, VolatileSame
  <2>3. CASE EndEmit
    BY <2>3, VolatileSame DEF EndEmit, Visited
  <2>4. CASE EndStep
    <3>1. /\ phase = "transfer" /\ phase' \in {"traci", "ended"} /\ UNCHANGED flow
          /\ now' \in {now, now + 1}
      BY <2>4 DEF EndStep
    <3>2. ASSUME NEW f \in Volatile \ ProbFlow, flow[f].done < Number[f]
          PROVE  flow[f].active /\ DepartOf(f, flow[f].done)' >= now'
      <4>1. flow[f].active /\ DepartOf(f, flow[f].done) > now
        BY <3>1, <3>2 DEF VolatileOnTime, Visited
      <4>2. DepartOf(f, flow[f].done)' = DepartOf(f, flow[f].done)
        BY <3>1 DEF DepartOf
      <4>3. f \in Flow /\ flow[f].done \in Nat /\ now \in Nat
        BY ConstantsAssumption DEF TypeOK
      <4>4. DepartOf(f, flow[f].done) \in Int
        BY <4>3, DepartGrows
      <4>5. QED  BY <3>1, <4>1, <4>2, <4>3, <4>4
    <3>3. QED  BY <3>1, <3>2 DEF VolatileOnTime, Visited
  <2>5. QED
    BY <1>00, <1>5, <2>1, <2>2, <2>3, <2>4
       DEF EndPhase, StartStep, EndEvents, EndMove, EndLoad
<1>6. CASE UNCHANGED vars
  BY <1>0, <1>6 DEF vars
<1>7. QED  BY <1>1, <1>2, <1>3, <1>4, <1>5, <1>6 DEF Next, Terminated
-----------------------------------------------------------------------------
(* The order of the insertion queue. *)

LineInOrder == InLine(depart, pending, refused, queue)

(* A vehicle that comes into the heap in time, or that may be late and is of no flow
   some pending vehicle is of, may follow all the pending ones. *)
LEMMA MayFollow ==
    ASSUME TypeOK, Shape, NEW x, NEW e,
           \A y \in ToSet(pending) \cup ToSet(refused) :
              /\ e[y] = depart[y]
              /\ \/ e[x] \in Int /\ (e[x] >= now \/ e[x] < 0)
                 \/ MayBeLate(x) /\ ~SameFlow(y, x)
    PROVE  \A y \in ToSet(pending) \cup ToSet(refused) : Before(e, y, x)
<1> SUFFICES ASSUME NEW y \in ToSet(pending) \cup ToSet(refused)
             PROVE  Before(e, y, x)
  OBVIOUS
<1>1. depart[y] <= now /\ depart[y] \in Int /\ now \in Int
  BY QueuedVehicles DEF Shape, DueFirst, TypeOK, Queued
<1>2. QED  BY <1>1 DEF Before

(* A vehicle comes into the heap. *)
LEMMA OneJoins ==
    ASSUME TypeOK, Shape, LineInOrder, NEW x,
           queue' = queue \cup {x}, UNCHANGED <<pending, refused>>,
           \A y \in Queued : depart'[y] = depart[y],
           \A y \in ToSet(pending) \cup ToSet(refused) :
              \/ depart'[x] \in Int /\ (depart'[x] >= now \/ depart'[x] < 0)
              \/ MayBeLate(x) /\ ~SameFlow(y, x)
    PROVE  LineInOrder'
<1>1. \A y \in ToSet(pending) \cup ToSet(refused) : Before(depart', y, x)
  <2>1. \A y \in ToSet(pending) \cup ToSet(refused) : depart'[y] = depart[y]
    BY DEF Queued
  <2>2. QED  BY <2>1, MayFollow
<1>2. /\ pending \in Seq(Veh) /\ refused \in Seq(Veh)
      /\ \A v \in ToSet(pending) \cup ToSet(refused) \cup queue : depart'[v] = depart[v]
      /\ InLine(depart, pending, refused, queue)
  BY DEF LineInOrder, TypeOK, Queued
<1>3. \A y \in ToSet(pending) \cup ToSet(refused), u \in {x} : Before(depart', y, u)
  BY <1>1
<1>4. InLine(depart', pending, refused, queue \cup {x})
  BY <1>2, <1>3, LineJoined
<1>5. QED  BY <1>4 DEF LineInOrder

(* The insertion queue is not touched, and those in it keep their departure time. *)
LEMMA LineSame ==
    ASSUME TypeOK, LineInOrder, UNCHANGED <<queue, pending, refused>>,
           \A y \in Queued : depart'[y] = depart[y]
    PROVE  LineInOrder'
<1>1. InLine(depart', pending, refused, queue \cup {})
  BY LineJoined DEF LineInOrder, TypeOK, Queued
<1>2. QED  BY <1>1 DEF LineInOrder

(* Whoever is in the insertion queue exists. *)
LEMMA QueuedExists ==
    ASSUME Shape, NEW v \in Queued
    PROVE  loc[v] # "none"
  BY DEF Shape, Lined, Riding

(* Building a vehicle changes the departure time of none that is in the queue. *)
LEMMA BuildKeepsDeparts ==
    ASSUME TypeOK, Shape, NEW v \in Veh, NEW d, loc[v] = "none", Build(v, d)
    PROVE  depart'[v] = d /\ \A y \in Queued : depart'[y] = depart[y]
  BY QueuedExists, QueuedVehicles DEF Build, TypeOK

(* The vehicles a repetition creates may follow all the pending ones. *)
LEMMA RepetitionJoins ==
    ASSUME TypeOK, Shape, FlowsApart, FlowDeparts, VolatileOnTime, LineInOrder,
           NEW f \in Flow, NEW q \in Quotas, FlowRepetition(f, q)
    PROVE  LineInOrder'
<1>1. /\ queue' = queue \cup NextIds(f, q) /\ UNCHANGED <<pending, refused>>
      /\ Due(f)
  BY DEF FlowRepetition, emitVars
<1>2. \A y \in Queued : y \in Veh \ NextIds(f, q) /\ depart'[y] = depart[y]
  BY RepetitionDeparts, QueuedExists, QueuedVehicles
<1>3. ASSUME NEW x \in NextIds(f, q), NEW y \in ToSet(pending) \cup ToSet(refused)
      PROVE  Before(depart', y, x)
  <2>1. /\ x \in ToSet(FlowVeh[f])
        /\ depart'[x] \in {DepartOf(f, flow[f].done), DepartOf(f, flow[f].done + 1)}
    BY RepetitionDeparts
  <2>2. /\ DepartOf(f, flow[f].done) \in Int /\ DepartOf(f, flow[f].done + 1) \in Int
        /\ DepartOf(f, flow[f].done) <= DepartOf(f, flow[f].done + 1)
    <3>1. flow[f].done \in Nat /\ now \in Nat
      BY DEF TypeOK
    <3>2. flow[f].done + 1 \in Nat
      BY <3>1
    <3>3. QED  BY <3>1, <3>2, DepartGrows
  <2>3. depart'[x] \in Int /\ depart'[x] >= DepartOf(f, flow[f].done)
    BY <2>1, <2>2
  <2>4. y \in Veh /\ loc[y] # "none" /\ depart'[y] = depart[y] /\ depart[y] \in Int
    BY <1>2, QueuedExists DEF Queued, TypeOK
  <2>5. depart[y] <= now /\ now \in Int
    BY DEF Shape, DueFirst, TypeOK
  <2>6. CASE SameFlow(y, x)
    <3>1. y \in ToSet(FlowVeh[f])
      BY <2>1, <2>6 DEF SameFlow, FlowsApart
    <3>2. depart[y] <= DepartOf(f, flow[f].done)
      BY <2>4, <3>1 DEF FlowDeparts
    <3>3. QED  BY <2>2, <2>3, <2>4, <3>2 DEF Before
  <2>7. CASE ~SameFlow(y, x) /\ f \notin Volatile
    BY <2>1, <2>7 DEF Before, MayBeLate
  <2>8. CASE f \in Volatile
    <3>1. DepartOf(f, flow[f].done) >= now
      <4>1. CASE f \in ProbFlow
        BY <2>5, <4>1 DEF DepartOf
      <4>2. CASE f \notin ProbFlow
        BY <1>1, <2>8, <4>2 DEF Due, VolatileOnTime
      <4>3. QED  BY <4>1, <4>2
    <3>2. QED  BY <2>2, <2>3, <2>4, <2>5, <3>1 DEF Before
  <2>9. QED  BY <2>6, <2>7, <2>8
<1>4. QED  BY <1>1, <1>2, <1>3, LineJoined DEF LineInOrder, TypeOK, Queued

(* The insertion queue stays in order. *)
LEMMA LineKept ==
    ASSUME TypeOK, Shape, FlowsApart, FlowDeparts, VolatileOnTime, LineInOrder,
           [Next]_vars
    PROVE  LineInOrder'
<1> USE DEF emitVars
<1>0. ASSUME UNCHANGED <<queue, pending, refused, depart>>  PROVE LineInOrder'
  BY <1>0, LineSame
<1>1. pending \in Seq(Veh) /\ refused \in Seq(Veh) /\ queue \in SUBSET Veh
  BY DEF TypeOK
<1>2. CASE Client
  <2>1. ASSUME NEW v \in Veh, NEW d \in (now..Horizon) \cup {-1}, TraciAdd(v, d)
        PROVE  LineInOrder'
    <3>1. d \in Int /\ (d >= now \/ d < 0)
      BY DEF TypeOK
    <3>2. QED  BY <2>1, <3>1, BuildKeepsDeparts, OneJoins DEF TraciAdd
  <2>2. ASSUME NEW i \in DOMAIN pending, TraciClearPending(i)  PROVE LineInOrder'
    BY <1>1, <2>2, LineCleared DEF TraciClearPending, LineInOrder
  <2>3. QED
    BY <1>0, <1>2, <2>1, <2>2
       DEF Client, TraciRemove, TraciMoveTo, TraciAddInvalid, TraciClose
<1>3. CASE Traffic
  BY <1>0, <1>3
     DEF Traffic, Leave, ReachStop, Park, Teleport, TeleportOnLastEdge, WaitAtStop,
         LeaveStop, TeleportEnds, TeleportBeyondArrival, ParkingEnds, Vaporization
<1>4. CASE Demand
  <2>1. ASSUME NEW v \in Veh, NEW d \in 0..FileHorizon, LoadVehicle(v, d)
        PROVE  LineInOrder'
    <3>1. d \in Int /\ d >= now
      BY <2>1, ConstantsAssumption DEF LoadVehicle
    <3>2. QED  BY <2>1, <3>1, BuildKeepsDeparts, OneJoins DEF LoadVehicle
  <2>2. ASSUME NEW v \in Veh, LoadTriggered(v)  PROVE LineInOrder'
    BY <2>2, BuildKeepsDeparts, LineSame DEF LoadTriggered
  <2>3. ASSUME NEW v \in Veh, PersonTakesVehicle(v)  PROVE LineInOrder'
    <3>1. /\ v \in TrigVeh /\ queue' = queue \cup {v}
          /\ UNCHANGED <<pending, refused, depart>>
      BY <2>3 DEF PersonTakesVehicle
    <3>2. \A y : MayBeLate(v) /\ ~SameFlow(y, v)
      BY <3>1 DEF MayBeLate, SameFlow, FlowsApart
    <3>3. QED  BY <3>1, <3>2, OneJoins
  <2>4. ASSUME NEW f \in Flow, NEW q \in Quotas, FlowRepetition(f, q)
        PROVE  LineInOrder'
    BY <2>4, RepetitionJoins
  <2>5. QED
    BY <1>0, <1>4, <2>1, <2>2, <2>3, <2>4
       DEF Demand, LoadDiscarded, FlowSkip, FlowClose, FlowDiscarded, IdClash
<1>5. CASE Insertion
  <2>1. ASSUME NEW v \in Veh, Release(v)  PROVE LineInOrder'
    BY <1>1, <2>1, LineReleased DEF Release, SameBucket, LineInOrder
  <2>2. ASSUME pending # <<>>, pending' = Tail(pending), UNCHANGED <<queue, depart>>,
               refused' \in {refused, Append(refused, Head(pending))}
        PROVE  LineInOrder'
    BY <1>1, <2>2, LineTried DEF LineInOrder
  <2>3. ASSUME NEW v \in Veh, NEW b \in BOOLEAN, TryInsertFails(v, b)
        PROVE  LineInOrder'
    <3>1. /\ pending # <<>> /\ pending' = Tail(pending) /\ v = Head(pending)
          /\ UNCHANGED <<queue, depart>>
      BY <2>3 DEF TryInsertFails, Trying
    <3>2. refused' \in {refused, Append(refused, v)}
      BY <2>3 DEF TryInsertFails
    <3>3. QED  BY <2>2, <3>1, <3>2
  <2>4. ASSUME NEW v \in Veh, TryInsertOnRoad(v) \/ TryInsertSucceeds(v)
        PROVE  LineInOrder'
    BY <2>2, <2>4 DEF TryInsertOnRoad, TryInsertSucceeds, Trying
  <2>5. CASE EmitSkip
    BY <2>2, <2>5 DEF EmitSkip
  <2>6. QED
    BY <1>0, <1>5, <2>1, <2>3, <2>4, <2>5 DEF Insertion, StartEmit
<1>6. CASE EndPhase
  <2>1. CASE EndEmit
    BY <2>1, LineClosed DEF EndEmit, LineInOrder
  <2>2. QED
    BY <1>0, <1>6, <2>1
       DEF EndPhase, StartStep, EndEvents, EndMove, EndLoad, EndPersons, EndFlows,
           EndStep
<1>7. CASE UNCHANGED vars
  BY <1>0, <1>7 DEF vars
<1>8. QED  BY <1>2, <1>3, <1>4, <1>5, <1>6, <1>7 DEF Next, Terminated

(* The edge of a vehicle that was refused in this step has a failed insertion. *)
RefusedFailed == /\ phase # "emit" => refused = <<>>
                 /\ \A v \in ToSet(refused) : EdgeOf[v] \in failedEdges

(* Without automatic routing a vehicle is refused only after insertVehicle failed. *)
LEMMA RefusedFailedKept ==
    ASSUME ~PreCheck, TypeOK, RefusedFailed, [Next]_vars
    PROVE  RefusedFailed'
<1>1. CASE phase = "emit"
  <2>1. ASSUME NEW v \in Veh, TryInsertOnRoad(v) \/ TryInsertSucceeds(v)
        PROVE  RefusedFailed'
    BY <1>1, <2>1
       DEF TryInsertOnRoad, TryInsertSucceeds, RefusedFailed, timeVars
  <2>2. ASSUME NEW v \in Veh, NEW b \in BOOLEAN, TryInsertFails(v, b)
        PROVE  RefusedFailed'
    <3>1. /\ phase' = phase /\ failedEdges' = failedEdges \cup {EdgeOf[v]}
          /\ refused' = refused \/ refused' = Append(refused, v)
      BY <2>2 DEF TryInsertFails, timeVars
    <3>2. ToSet(Append(refused, v)) = ToSet(refused) \cup {v}
      BY AppendElements DEF TypeOK
    <3>3. QED  BY <1>1, <3>1, <3>2 DEF RefusedFailed
  <2>3. CASE EmitSkip
    BY <2>3 DEF EmitSkip
  <2>4. CASE EndEmit
    BY <2>4 DEF EndEmit, RefusedFailed, ToSet
  <2>5. CASE UNCHANGED vars
    BY <2>5 DEF vars, timeVars, emitVars, RefusedFailed
  <2>6. QED  BY <1>1, <2>1, <2>2, <2>3, <2>4, <2>5, EmitSteps
<1>2. CASE phase # "emit"
  <2>1. refused' = <<>> /\ ToSet(<<>>) = {}
    BY <1>2, RestSteps DEF RefusedFailed, ToSet
  <2>2. QED  BY <2>1 DEF RefusedFailed
<1>3. QED  BY <1>1, <1>2

(* A vehicle departs where it entered: only tryInsert puts a pending one on the road. *)
LEMMA Departs ==
    ASSUME TypeOK, Shape, PlainMoves, [Next]_vars, NEW u \in ToSet(pending),
           loc[u] = "waiting", loc'[u] = "lane"
    PROVE  TryInsertSucceeds(u)
<1>0. u \in Veh
  BY ToSetByIndex DEF TypeOK
<1>1. ASSUME loc'[u] = loc[u]  PROVE FALSE
  BY <1>1
<1>2. ASSUME NEW v \in Veh, NEW x, loc' = [loc EXCEPT ![v] = x],
             x # "lane" \/ loc[v] # "waiting"
      PROVE  FALSE
  BY <1>0, <1>2 DEF TypeOK
<1>3. CASE Client
  <2>1. ASSUME NEW v \in Veh, NEW d \in (now..Horizon) \cup {-1}, TraciAdd(v, d)  PROVE FALSE
    BY <1>0, <2>1 DEF TraciAdd, Build, TypeOK
  <2>2. ASSUME NEW v \in Veh, TraciMoveTo(v)  PROVE FALSE
    BY <1>2, <2>2 DEF TraciMoveTo, EnterLane, Departed, PlainMoves
  <2>3. ASSUME NEW v \in Veh, TraciRemove(v)  PROVE FALSE
    BY <1>2, <2>3 DEF TraciRemove, ScheduleVehicleRemoval
  <2>4. ASSUME NEW i \in DOMAIN pending, TraciClearPending(i)  PROVE FALSE
    BY <1>2, <2>4, ClearedWaits DEF TraciClearPending, DiscardVehicle
  <2>5. QED
    BY <1>1, <1>3, <2>1, <2>2, <2>3, <2>4 DEF Client, TraciAddInvalid, TraciClose
<1>4. CASE Traffic
  <2>1. ASSUME NEW v \in Veh, Leave(v) \/ TeleportOnLastEdge(v)  PROVE FALSE
    BY <1>2, <2>1 DEF Leave, TeleportOnLastEdge, ScheduleVehicleRemoval
  <2>2. ASSUME NEW v \in Veh, Park(v) \/ Teleport(v)  PROVE FALSE
    BY <1>2, <2>2 DEF Park, Teleport
  <2>3. ASSUME NEW v \in Veh, TeleportEnds(v) \/ ParkingEnds(v)  PROVE FALSE
    BY <1>2, <2>3 DEF TeleportEnds, ParkingEnds, Shape, TransferExact
  <2>4. ASSUME NEW v \in Veh, TeleportBeyondArrival(v)  PROVE FALSE
    BY <1>2, <2>4 DEF TeleportBeyondArrival, ScheduleVehicleRemoval
  <2>5. QED
    BY <1>1, <1>4, <2>1, <2>2, <2>3, <2>4
       DEF Traffic, ReachStop, WaitAtStop, LeaveStop, Vaporization
<1>5. CASE Demand
  <2>1. ASSUME NEW v \in Veh, NEW d, Build(v, d)  PROVE FALSE
    BY <1>0, <2>1 DEF Build, TypeOK
  <2>2. ASSUME NEW f \in Flow, NEW q \in Quotas, FlowRepetition(f, q)  PROVE FALSE
    BY <1>0, <2>2 DEF FlowRepetition
  <2>3. QED
    BY <1>1, <1>5, <2>1, <2>2
       DEF Demand, LoadVehicle, LoadTriggered, LoadDiscarded, PersonTakesVehicle,
           FlowSkip, FlowClose, FlowDiscarded, IdClash
<1>6. CASE Insertion
  <2>1. ASSUME NEW v \in Veh, TryInsertSucceeds(v)  PROVE TryInsertSucceeds(u)
    <3>1. v = u
      BY <1>0, <2>1 DEF TryInsertSucceeds, EnterLane, TypeOK
    <3>2. QED  BY <2>1, <3>1
  <2>2. ASSUME NEW v \in Veh, NEW b \in BOOLEAN, TryInsertFails(v, b)  PROVE FALSE
    <3>1. DiscardVehicle(v) \/ UNCHANGED loc
      BY <2>2 DEF TryInsertFails
    <3>2. QED  BY <1>1, <1>2, <3>1 DEF DiscardVehicle
  <2>3. QED
    BY <1>1, <1>6, <2>1, <2>2
       DEF Insertion, Release, TryInsertOnRoad, StartEmit, EmitSkip
<1>7. CASE EndPhase
  BY <1>1, <1>7
     DEF EndPhase, StartStep, EndEvents, EndMove, EndLoad, EndPersons, EndFlows,
         EndEmit, EndStep
<1>8. CASE UNCHANGED vars
  BY <1>1, <1>8 DEF vars
<1>9. QED  BY <1>3, <1>4, <1>5, <1>6, <1>7, <1>8 DEF Next, Terminated

(* The vehicles of an edge depart in the order of their departure times: the heap
   hands them over in that order, the pending vehicles keep it, and once a vehicle is
   refused no other of its edge is tried in the step.  Without --eager-insert, and
   without automatic routing, which refuses a vehicle before its edge is tried. *)
THEOREM DepartOrderCorrect ==
    ASSUME PlainMoves, RidersMeetOnRoad, FlowsApart, CheckEdgesOnce, ~PreCheck
    PROVE  Spec => DepartInOrder
<1> DEFINE Sound == FlowDeparts /\ VolatileOnTime /\ LineInOrder /\ RefusedFailed
<1>1. Init => Sound
  <2> SUFFICES ASSUME Init PROVE Sound
    OBVIOUS
  <2>1. FlowDeparts
    BY ConstantsAssumption, ToSetByIndex DEF Init, FlowDeparts
  <2>2. VolatileOnTime
    <3>1. \A f \in Flow : /\ flow[f].active /\ flow[f].done = 0
                          /\ Begin[f] \in Nat /\ Offset[f] \in Nat
      BY ConstantsAssumption DEF Init
    <3>2. now = 0 /\ (\A f \in Flow : ~Visited(f)) /\ Volatile \subseteq Flow
      BY ConstantsAssumption DEF Init, Visited
    <3>3. \A f \in Flow \ ProbFlow : DepartOf(f, flow[f].done) = Begin[f]
      BY <3>1 DEF DepartOf
    <3>4. QED  BY <3>1, <3>2, <3>3 DEF VolatileOnTime
  <2>3. LineInOrder /\ RefusedFailed
    BY DEF Init, LineInOrder, InLine, Ordered, RefusedFailed, ToSet
  <2>4. QED  BY <2>1, <2>2, <2>3
<1>2. TypeOK /\ TypeOK' /\ Shape /\ Sound /\ [Next]_vars => Sound'
  BY FlowDepartsKept, VolatileKept, LineKept, RefusedFailedKept
<1>3. TypeOK /\ Shape /\ Sound /\ [Next]_vars =>
        [\A v, w \in Veh :
            /\ v \in ToSet(pending) /\ loc[v] = "waiting" /\ loc'[v] = "lane"
            /\ w \in ToSet(pending') \cup ToSet(refused')
            /\ EdgeOf[w] = EdgeOf[v]
            => \/ depart[v] <= depart[w] \/ depart[w] < 0
               \/ MayBeLate(w) /\ ~SameFlow(v, w)]_vars
  <2> SUFFICES ASSUME TypeOK, Shape, Sound, [Next]_vars, NEW v \in ToSet(pending),
                      loc[v] = "waiting", loc'[v] = "lane",
                      NEW w \in ToSet(pending') \cup ToSet(refused'),
                      EdgeOf[w] = EdgeOf[v]
               PROVE  Before(depart, v, w)
    BY DEF Before
  <2>1. TryInsertSucceeds(v)
    BY Departs
  <2>2. /\ pending # <<>> /\ v = Head(pending) /\ pending' = Tail(pending)
        /\ refused' = refused /\ EdgeOf[v] \notin failedEdges
    BY <2>1 DEF TryInsertSucceeds, Trying, Attempted
  <2>3. w \notin ToSet(refused)
    BY <2>2 DEF RefusedFailed
  <2>4. \A x \in ToSet(Tail(pending)) : Before(depart, Head(pending), x)
    BY <2>2, LineTried DEF LineInOrder, TypeOK
  <2>5. QED  BY <2>2, <2>3, <2>4
<1>4. QED
  BY <1>1, <1>2, <1>3, TypeCorrect, ShapeKept, PTL DEF Spec, DepartInOrder
-----------------------------------------------------------------------------
(* Copies of the vehicles of a flow. *)

(* The ids a flow has not used yet name no vehicle. *)
FutureIdsFree == \A f \in Flow : \A i \in DOMAIN FlowVeh[f] :
                    i > flow[f].index => loc[FlowVeh[f][i]] = "none"

LEMMA FutureIdsKept ==
    ASSUME TypeOK, TypeOK', Shape, FlowsApart, FutureIdsFree, [Next]_vars
    PROVE  FutureIdsFree'
<1> SUFFICES ASSUME NEW g \in Flow, NEW i \in DOMAIN FlowVeh[g], i > flow'[g].index
             PROVE  loc'[FlowVeh[g][i]] = "none"
  BY DEF FutureIdsFree
<1> DEFINE v == FlowVeh[g][i]
<1>1. /\ FlowVeh[g] \in Seq(Veh) /\ IsInjective(FlowVeh[g])
      /\ DOMAIN FlowVeh[g] = 1..Len(FlowVeh[g]) /\ i \in Nat
  BY ConstantsAssumption, LenProperties
<1>2. v \in Veh /\ v \in ToSet(FlowVeh[g]) /\ flow[g].index \in Nat
  <2>1. v \in ToSet(FlowVeh[g])
    BY <1>1, ToSetByIndex
  <2>2. v \in Veh
    BY <1>1, <2>1, ToSetByIndex
  <2>3. QED  BY <2>1, <2>2 DEF TypeOK
<1>3. ASSUME NEW f \in Flow, NEW q \in Quotas, FlowRepetition(f, q)
      PROVE  loc'[v] = "none"
  <2>1. /\ flow[f].index \in Nat /\ q \in Nat
        /\ flow[f].index + q <= Len(FlowVeh[f])
        /\ loc' = [u \in Veh |-> IF u \in NextIds(f, q) THEN "waiting" ELSE loc[u]]
    BY <1>3, ConstantsAssumption DEF FlowRepetition, TypeOK
  <2>2. flow'[f].index = flow[f].index + q /\ \A h \in Flow \ {f} : flow'[h] = flow[h]
    BY <1>3 DEF FlowRepetition, Repeated, TypeOK
  <2>3. v \notin NextIds(f, q)
    <3>1. SUFFICES ASSUME NEW k \in 1..q, v = FlowVeh[f][flow[f].index + k]
                   PROVE  FALSE
      BY DEF NextIds
    <3>2. /\ flow[f].index + k \in 1..Len(FlowVeh[f])
          /\ FlowVeh[f] \in Seq(Veh)
      BY <2>1, FlowIdType, ConstantsAssumption
    <3>3. v \in ToSet(FlowVeh[f])
      BY <3>1, <3>2, ToSetByIndex
    <3>4. f = g
      BY <1>2, <3>3 DEF FlowsApart
    <3>5. i = flow[f].index + k
      BY <1>1, <3>1, <3>2, <3>4 DEF IsInjective
    <3>6. QED  BY <2>1, <2>2, <3>4, <3>5
  <2>4. i > flow[g].index
    BY <1>1, <1>2, <2>1, <2>2
  <2>5. loc[v] = "none"
    BY <2>4 DEF FutureIdsFree
  <2>6. QED  BY <1>2, <2>1, <2>3, <2>5
<1>4. ASSUME flow'[g].index >= flow[g].index,
             loc'[v] # "none" => loc[v] # "none"
      PROVE  loc'[v] = "none"
  <2>1. flow'[g].index \in Nat
    BY DEF TypeOK
  <2>2. i > flow[g].index
    BY <1>1, <1>2, <1>4, <2>1
  <2>3. loc[v] = "none"
    BY <2>2 DEF FutureIdsFree
  <2>4. QED  BY <1>4, <2>3
<1>5. QED  BY <1>2, <1>3, <1>4, WhoIsBuilt

(* determineCandidates asks for the id of the first vehicle of a repetition only, and
   FlowRepetition for those of its copies too: where there are copies, nothing is lost
   by that, because no id the flow has still to use is taken. *)
THEOREM CopiesFree ==
    ASSUME PlainMoves, RidersMeetOnRoad, NEW q \in Quotas, q > 1
    PROVE  Spec => []FutureIdsFree
<1>1. FlowsApart
  BY QuotaAssumption, ConstantsAssumption DEF FlowsApart
<1>2. Init => FutureIdsFree
  <2>1. Init => loc = [v \in Veh |-> "none"]
    BY DEF Init
  <2>2. \A f \in Flow : \A i \in DOMAIN FlowVeh[f] : FlowVeh[f][i] \in Veh
    BY ConstantsAssumption
  <2>3. QED  BY <2>1, <2>2 DEF FutureIdsFree
<1>3. TypeOK /\ TypeOK' /\ Shape /\ FutureIdsFree /\ [Next]_vars => FutureIdsFree'
  BY <1>1, FutureIdsKept
<1>4. QED  BY <1>2, <1>3, TypeCorrect, ShapeKept, PTL DEF Spec
=============================================================================
