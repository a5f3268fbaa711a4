--------------------------- MODULE DepartureQueue ---------------------------
(***************************************************************************)
(* MSVehicleContainer, in which MSInsertionControl keeps the vehicles that  *)
(* are not due yet: a binary heap of buckets, each with the vehicles of    *)
(* about one departure, in an array that grows by doubling.  Every         *)
(* iteration of the loops that move the hole up or down is a step, so that *)
(* the state of the array inside an operation is part of the model.        *)
(*                                                                         *)
(* Definitions named X_Y are altered forms of X with the mistake Y.        *)
(***************************************************************************)
EXTENDS Integers, Sequences, FiniteSets, SequencesExt

CONSTANTS Veh, DeltaT, Departs, Demands,
          InitialCapacity,  \* argument of the constructor
          Horizon           \* bound: the time of the last step

ASSUME QueueAssumption == /\ DeltaT \in Nat \ {0}
                          /\ Departs \subseteq Int
                          /\ Demands \subseteq [Veh -> Departs]
                          /\ InitialCapacity \in Nat \ {0}
                          /\ Horizon \in Nat

VARIABLES now, phase,
          depart,    \* depart[v]: SUMOVehicleParameter::depart
          array,     \* the slots 1..currentSize; those beyond are never read
          capacity,  \* array.size() - 1
          op,        \* what runs: "none", "up" (addReplacing), "down" (percolateDown)
          hole,      \* the slot that is free while op runs
          item,      \* the bucket it is for: x, tmp
          emitted    \* what checkCandidates appended to myPendingEmits

opVars == <<op, hole, item>>
vars == <<now, phase, depart, array, capacity, opVars, emitted>>

Bucket == [key : Departs, vehicles : Seq(Veh)]
NoBucket == [key |-> 0, vehicles |-> <<>>]
currentSize == Len(array)
isEmpty == currentSize = 0
isFull == currentSize >= capacity

(* Everything that is stored; the slot of the hole is a copy of another. *)
Stored == {array[i] : i \in DOMAIN array \ (IF op = "none" THEN {} ELSE {hole})}
          \cup (IF op = "none" THEN {} ELSE {item})
Waiting == UNION {ToSet(b.vehicles) : b \in Stored}
-----------------------------------------------------------------------------
Init == /\ now = 0 /\ phase = "load"
        /\ depart \in Demands
        /\ array = <<>> /\ capacity = InitialCapacity
        /\ op = "none" /\ hole = 0 /\ item = NoBucket
        /\ emitted = <<>>

(* DepartFinder, and the first bucket find_if meets; 0 for end(). *)
DepartFinder_BothSides(time, key) == time + DeltaT > key /\ time < key + DeltaT
DepartFinder(time, key) == time + DeltaT > key /\ time <= key
Find(time) == SelectInSeq(array, LAMBDA b : DepartFinder(time, b.key))

(* add: the vehicle joins a bucket ... *)
AddToBucket(v) ==
    LET i == Find(depart[v])
    IN /\ i # 0
       /\ array' = [array EXCEPT ![i].vehicles = Append(@, v)]
       /\ UNCHANGED <<capacity, opVars>>

(* ... or needs one of its own: addReplacing, up to the loop. *)
Enlarged_Late == IF currentSize > capacity THEN 2 * capacity ELSE capacity
Enlarged == IF isFull THEN 2 * capacity ELSE capacity
AddBucket(v) ==
    LET x == [key |-> depart[v], vehicles |-> <<v>>]
    IN /\ Find(depart[v]) = 0
       /\ capacity' = Enlarged
       /\ array' = Append(array, x)
       /\ op' = "up" /\ hole' = currentSize + 1 /\ item' = x

Add(v) == /\ phase = "load" /\ op = "none"
          /\ v \notin Waiting /\ v \notin ToSet(emitted)
          /\ AddToBucket(v) \/ AddBucket(v)
          /\ UNCHANGED <<now, phase, depart, emitted>>

(* The loop of addReplacing. *)
UpGoesOn == hole > 1 /\ item.key < array[hole \div 2].key
PercolateUp_ZeroBased ==
    /\ op = "up" /\ UpGoesOn
    /\ array' = [array EXCEPT ![hole] = array[hole \div 2]]
    /\ hole' = (hole - 1) \div 2
    /\ UNCHANGED <<now, phase, depart, capacity, op, item, emitted>>
PercolateUp ==
    /\ op = "up" /\ UpGoesOn
    /\ array' = [array EXCEPT ![hole] = array[hole \div 2]]
    /\ hole' = hole \div 2
    /\ UNCHANGED <<now, phase, depart, capacity, op, item, emitted>>

(* The loop of percolateDown: the child the hole moves to. *)
SmallerChild_Left == 2 * hole
SmallerChild ==
    IF 2 * hole # currentSize /\ array[2 * hole + 1].key < array[2 * hole].key
    THEN 2 * hole + 1 ELSE 2 * hole
DownGoesOn == /\ 2 * hole <= currentSize
              /\ array[SmallerChild].key < item.key
PercolateDown ==
    /\ op = "down" /\ DownGoesOn
    /\ array' = [array EXCEPT ![hole] = array[SmallerChild]]
    /\ hole' = SmallerChild
    /\ UNCHANGED <<now, phase, depart, capacity, op, item, emitted>>

(* Behind either loop: array[hole] = x. *)
FillHole ==
    /\ \/ op = "up" /\ ~UpGoesOn
       \/ op = "down" /\ ~DownGoesOn
    /\ array' = [array EXCEPT ![hole] = item]
    /\ op' = "none" /\ hole' = 0 /\ item' = NoBucket
    /\ UNCHANGED <<now, phase, depart, capacity, emitted>>
-----------------------------------------------------------------------------
(* MSInsertionControl: vehicles are added in the step before checkCandidates. *)
StartRelease ==
    /\ phase = "load" /\ op = "none"
    /\ phase' = "release"
    /\ UNCHANGED <<now, depart, array, capacity, opVars, emitted>>

topTime == array[1].key
anyWaitingBefore(time) == ~isEmpty /\ topTime < time

(* An iteration of checkCandidates: top, the copy to myPendingEmits and pop,
   whose last slot becomes the item percolateDown has to place from slot 1. *)
Due_ThisInstant == now
Due == now + DeltaT
Release_NotPopped ==
    /\ phase = "release" /\ op = "none"
    /\ anyWaitingBefore(Due)
    /\ emitted' = emitted \o array[1].vehicles
    /\ UNCHANGED <<now, phase, depart, array, capacity, opVars>>
Release ==
    /\ phase = "release" /\ op = "none"
    /\ anyWaitingBefore(Due)
    /\ emitted' = emitted \o array[1].vehicles
    /\ IF currentSize = 1
       THEN array' = <<>> /\ UNCHANGED opVars
       ELSE /\ array' = Front(array)
            /\ op' = "down" /\ hole' = 1 /\ item' = Last(array)
    /\ UNCHANGED <<now, phase, depart, capacity>>

EndRelease ==
    /\ phase = "release" /\ op = "none"
    /\ ~anyWaitingBefore(Due)
    /\ phase' = "load"
    /\ now' = now + DeltaT
    /\ now < Horizon
    /\ UNCHANGED <<depart, array, capacity, opVars, emitted>>

Terminated == /\ phase = "release" /\ op = "none" /\ now >= Horizon
              /\ ~anyWaitingBefore(Due)
              /\ UNCHANGED vars

Next == \/ \E v \in Veh : Add(v)
        \/ PercolateUp \/ PercolateDown \/ FillHole
        \/ StartRelease \/ Release \/ EndRelease \/ Terminated

Spec == Init /\ [][Next]_vars

(* The loops run to their end and the simulation goes on; nobody need add. *)
FairSpec == /\ Spec
            /\ WF_vars(PercolateUp \/ PercolateDown \/ FillHole)
            /\ WF_vars(StartRelease \/ Release \/ EndRelease)
-----------------------------------------------------------------------------
TypeOK ==
    /\ now \in Nat /\ phase \in {"load", "release"}
    /\ depart \in [Veh -> Departs]
    /\ array \in Seq(Bucket)
    /\ capacity \in Nat \ {0}
    /\ op \in {"none", "up", "down"}
    /\ op = "none" => hole = 0 /\ item = NoBucket
    /\ op # "none" => hole \in 1..currentSize /\ item \in Bucket
    /\ emitted \in Seq(Veh)

(* Between two operations the first bucket is an earliest one, however buckets
   were added and popped before: checkCandidates may stop at the first bucket
   that is not due. *)
TopIsEarliest == op = "none" => \A i \in DOMAIN array : topTime <= array[i].key

(* The array is never written beyond its end: what the asserts of addReplacing
   and percolateDown say of the hole. *)
RoomForTheHole == currentSize <= capacity /\ hole <= capacity

(* No vehicle is twice in the buckets, none was handed over twice, and none that
   was handed over is still in a bucket.  That none is lost and that each leaves in
   time is ScheduleKept. *)
StoredOnce ==
    /\ IsInjective(emitted)
    /\ Waiting \cap ToSet(emitted) = {}
    /\ op = "none" =>
         \A i, j \in DOMAIN array :
             /\ IsInjective(array[i].vehicles)
             /\ i # j => ToSet(array[i].vehicles) \cap ToSet(array[j].vehicles) = {}

(* The container is a departure schedule: no vehicle is handed over before its
   step, none is more than a step late, and the order is that of the departures
   up to less than a step. *)
Schedule == INSTANCE DepartureSchedule WITH waiting <- Waiting
ScheduleKept == Schedule!Spec

(* Every vehicle that is added and due before the end is handed over. *)
EveryoneEmitted ==
    \A v \in Veh : v \in Waiting /\ depart[v] <= Horizon ~> v \in ToSet(emitted)
=============================================================================
