------------------------ MODULE DepartureQueue_proofs ------------------------
(***************************************************************************)
(* Theorems about DepartureQueue for every demand, step length, capacity   *)
(* and order of operations: the array is a heap between two operations,    *)
(* never overrun, holds every vehicle once, and implements the abstract    *)
(* DepartureSchedule.                                                      *)
(***************************************************************************)
EXTENDS DepartureQueue, SequenceLemmas, TLAPS

-----------------------------------------------------------------------------
(* Numbers and positions. *)

(* The parent of a slot, and the slots with a given parent. *)
LEMMA Half ==
    ASSUME NEW i \in Nat, i > 1
    PROVE  /\ i \div 2 \in 1..(i - 1)
           /\ \A h \in Nat : i \div 2 = h <=> i = 2 * h \/ i = 2 * h + 1
  OBVIOUS

(* What find_if returns is a bucket of about that departure, or end(). *)
LEMMA FoundBucket ==
    ASSUME TypeOK, NEW t, Find(t) # 0
    PROVE  /\ Find(t) \in 1..currentSize
           /\ DepartFinder(t, array[Find(t)].key)
<1> DEFINE I == {i \in 1..Len(array) : DepartFinder(t, array[i].key)}
<1>1. Len(array) \in Nat
  BY LenProperties DEF TypeOK
<1>2. Find(t) = IF I # {} THEN Min(I) ELSE 0
  BY DEF Find, SelectInSeq
<1>3. Min(I) \in I
  <2>1. I \in SUBSET Nat /\ I # {}
    BY <1>1, <1>2
  <2>2. \E m \in I : \A n \in I : m <= n
    <3> HIDE DEF I
    <3>1. QED BY <2>1, LeastNumber
  <2>3. QED  BY <2>2 DEF Min
<1>4. QED  BY <1>2, <1>3 DEF currentSize

(* A slot of the array is overwritten. *)
LEMMA Overwritten ==
    ASSUME array \in Seq(Bucket), NEW i \in 1..currentSize, NEW b \in Bucket,
           array' = [array EXCEPT ![i] = b]
    PROVE  /\ array' \in Seq(Bucket) /\ currentSize \in Nat
           /\ currentSize' = currentSize
           /\ DOMAIN array = 1..currentSize /\ DOMAIN array' = 1..currentSize
           /\ array'[i] = b
           /\ \A j \in 1..currentSize : array[j] \in Bucket
           /\ \A j \in 1..currentSize : j # i => array'[j] = array[j]
<1>1. i \in 1..Len(array) /\ Len(array) \in Nat /\ DOMAIN array = 1..Len(array)
  BY LenProperties DEF currentSize
<1>2. /\ array' \in Seq(Bucket) /\ Len(array') = Len(array)
      /\ \A j \in 1..Len(array) : array'[j] = IF j = i THEN b ELSE array[j]
  BY <1>1, ExceptSeq
<1>3. DOMAIN array' = 1..Len(array')
  BY <1>2, LenProperties
<1>4. \A j \in 1..Len(array) : array[j] \in Bucket
  BY ElementOfSeq
<1>5. QED  BY <1>1, <1>2, <1>3, <1>4 DEF currentSize

(* The hole and the slot it moves to. *)
LEMMA Moves ==
    ASSUME TypeOK
    PROVE  /\ PercolateUp => /\ hole \div 2 \in 1..currentSize
                             /\ hole \div 2 < hole
           /\ PercolateDown => /\ SmallerChild \in 1..currentSize
                               /\ SmallerChild \in {2 * hole, 2 * hole + 1}
<1>1. currentSize \in Nat
  BY LenProperties DEF TypeOK, currentSize
<1>2. ASSUME PercolateUp  PROVE hole \div 2 \in 1..currentSize /\ hole \div 2 < hole
  <2>1. hole \in 1..currentSize /\ hole > 1
    BY <1>2 DEF PercolateUp, UpGoesOn, TypeOK
  <2>2. hole \in Nat /\ hole \div 2 \in 1..(hole - 1)
    BY <1>1, <2>1, Half
  <2>3. QED  BY <1>1, <2>1, <2>2
<1>3. ASSUME PercolateDown
      PROVE  SmallerChild \in 1..currentSize /\ SmallerChild \in {2 * hole, 2 * hole + 1}
  <2>1. hole \in 1..currentSize /\ 2 * hole <= currentSize
    BY <1>3 DEF PercolateDown, DownGoesOn, TypeOK
  <2>2. QED  BY <1>1, <2>1 DEF SmallerChild
<1>4. QED  BY <1>2, <1>3

(* What each operation does to the array, slot by slot. *)
LEMMA Appended ==
    ASSUME array \in Seq(Bucket), NEW b \in Bucket, array' = Append(array, b)
    PROVE  /\ array' \in Seq(Bucket) /\ currentSize \in Nat
           /\ currentSize' = currentSize + 1
           /\ DOMAIN array = 1..currentSize /\ DOMAIN array' = 1..(currentSize + 1)
           /\ array'[currentSize + 1] = b
           /\ \A j \in 1..currentSize : array'[j] = array[j] /\ array[j] \in Bucket
<1>1. Len(array) \in Nat /\ DOMAIN array = 1..Len(array)
  BY LenProperties
<1>2. /\ array' \in Seq(Bucket) /\ Len(array') = Len(array) + 1
      /\ \A j \in 1..Len(array) : array'[j] = array[j]
      /\ array'[Len(array) + 1] = b
  BY AppendProperties
<1>3. DOMAIN array' = 1..Len(array')
  BY <1>2, LenProperties
<1>4. \A j \in 1..Len(array) : array[j] \in Bucket
  BY ElementOfSeq
<1>5. QED  BY <1>1, <1>2, <1>3, <1>4 DEF currentSize

(* The last slot is taken away by pop. *)
LEMMA LastRemoved ==
    ASSUME array \in Seq(Bucket), currentSize > 1, array' = Front(array)
    PROVE  /\ array' \in Seq(Bucket) /\ currentSize \in Nat
           /\ currentSize' = currentSize - 1
           /\ DOMAIN array = 1..currentSize /\ DOMAIN array' = 1..(currentSize - 1)
           /\ Last(array) = array[currentSize]
           /\ \A j \in 1..currentSize : array[j] \in Bucket
           /\ \A j \in 1..(currentSize - 1) : array'[j] = array[j]
<1>1. Len(array) \in Nat /\ DOMAIN array = 1..Len(array)
  BY LenProperties
<1>2. /\ array' \in Seq(Bucket) /\ Len(array') = Len(array) - 1
      /\ \A j \in 1..(Len(array) - 1) : array'[j] = array[j]
  BY <1>1 DEF Front, currentSize
<1>3. DOMAIN array' = 1..Len(array')
  BY <1>2, LenProperties
<1>4. \A j \in 1..Len(array) : array[j] \in Bucket
  BY ElementOfSeq
<1>5. QED  BY <1>1, <1>2, <1>3, <1>4 DEF currentSize, Last
-----------------------------------------------------------------------------
(* Type correctness. *)

(* Every variable keeps its type; the hole is a slot of the array. *)
THEOREM TypeCorrect == Spec => []TypeOK
<1>1. Init => TypeOK
  <2> SUFFICES ASSUME Init  PROVE TypeOK
    OBVIOUS
  <2>1. <<>> \in Seq(Bucket) /\ <<>> \in Seq(Veh)
    BY EmptySeq
  <2>2. QED  BY <2>1, QueueAssumption DEF Init, TypeOK
<1>2. TypeOK /\ [Next]_vars => TypeOK'
  <2> SUFFICES ASSUME TypeOK, [Next]_vars  PROVE TypeOK'
    OBVIOUS
  <2>0. array \in Seq(Bucket) /\ currentSize \in Nat
    BY LenProperties DEF TypeOK, currentSize
  <2>1. ASSUME NEW v \in Veh, Add(v)  PROVE TypeOK'
    <3>0. op = "none" /\ depart[v] \in Departs /\ depart' = depart
      BY <2>1 DEF Add, TypeOK
    <3>1. CASE AddToBucket(v)
      <4> DEFINE i == Find(depart[v])
                 b == [array[i] EXCEPT !.vehicles = Append(@, v)]
      <4>1. i \in 1..currentSize
        BY <3>1, FoundBucket DEF AddToBucket
      <4>2. array[i] \in Bucket
        BY <4>1, <2>0, ElementOfSeq DEF currentSize
      <4>3. b \in Bucket
        BY <4>2, AppendProperties DEF Bucket
      <4>4. array' = [array EXCEPT ![i] = b]
        BY <3>1 DEF AddToBucket
      <4>5. array' \in Seq(Bucket)
        <5> HIDE DEF b, i
        <5>1. QED  BY <2>0, <4>1, <4>3, <4>4, Overwritten
      <4>6. QED  BY <2>1, <3>0, <3>1, <4>5 DEF Add, AddToBucket, opVars, TypeOK
    <3>2. CASE AddBucket(v)
      <4> DEFINE x == [key |-> depart[v], vehicles |-> <<v>>]
      <4>1. x \in Bucket
        BY <3>0 DEF Bucket
      <4>2. array' = Append(array, x) /\ item' = x /\ op' = "up"
            /\ hole' = currentSize + 1
        BY <3>2 DEF AddBucket
      <4> HIDE DEF x
      <4>3. array' \in Seq(Bucket) /\ currentSize' = currentSize + 1
        BY <2>0, <4>1, <4>2, Appended
      <4>4. hole' \in 1..currentSize'
        BY <2>0, <4>2, <4>3
      <4>5. capacity' \in Nat \ {0}
        BY <3>2 DEF AddBucket, Enlarged, TypeOK
      <4>6. QED  BY <2>1, <3>0, <4>1, <4>2, <4>3, <4>4, <4>5 DEF Add, TypeOK
    <3>3. QED  BY <2>1, <3>1, <3>2 DEF Add
  <2>2. CASE PercolateUp
    <3>1. hole \in 1..currentSize /\ hole \div 2 \in 1..currentSize
      BY <2>2, Moves DEF PercolateUp, TypeOK
    <3>2. array[hole \div 2] \in Bucket
      BY <3>1, <2>0, ElementOfSeq DEF currentSize
    <3>3. array' \in Seq(Bucket) /\ currentSize' = currentSize
      BY <2>0, <2>2, <3>1, <3>2, Overwritten DEF PercolateUp
    <3>4. QED  BY <2>2, <3>1, <3>3 DEF PercolateUp, TypeOK
  <2>3. CASE PercolateDown
    <3>1. hole \in 1..currentSize /\ SmallerChild \in 1..currentSize
      BY <2>3, Moves DEF PercolateDown, TypeOK
    <3>2. array[SmallerChild] \in Bucket
      BY <3>1, <2>0, ElementOfSeq DEF currentSize
    <3>3. array' \in Seq(Bucket) /\ currentSize' = currentSize
      BY <2>0, <2>3, <3>1, <3>2, Overwritten DEF PercolateDown
    <3>4. QED  BY <2>3, <3>1, <3>3 DEF PercolateDown, TypeOK
  <2>4. CASE FillHole
    <3>1. hole \in 1..currentSize /\ item \in Bucket
      BY <2>4 DEF FillHole, TypeOK
    <3>2. array' \in Seq(Bucket)
      BY <2>0, <2>4, <3>1, Overwritten DEF FillHole
    <3>3. QED  BY <2>4, <3>2 DEF FillHole, TypeOK
  <2>5. CASE StartRelease
    BY <2>5 DEF StartRelease, opVars, TypeOK, currentSize
  <2>6. CASE Release
    <3>0. op = "none" /\ currentSize # 0 /\ currentSize \in Nat
      BY <2>0, <2>6 DEF Release, anyWaitingBefore, isEmpty
    <3>1. array[1] \in Bucket
      <4>1. 1 \in 1..Len(array)
        BY <3>0 DEF currentSize
      <4>2. QED  BY <4>1, <2>0, ElementOfSeq
    <3>2. emitted' \in Seq(Veh)
      BY <2>6, <3>1, ConcatProperties DEF Release, TypeOK, Bucket
    <3>3. CASE currentSize = 1
      <4>1. array' \in Seq(Bucket)
        BY <2>6, <3>3, EmptySeq DEF Release
      <4>2. QED  BY <2>6, <3>0, <3>2, <3>3, <4>1 DEF Release, opVars, TypeOK
    <3>4. CASE currentSize # 1
      <4>1. currentSize > 1 /\ array' = Front(array)
        BY <2>6, <3>0, <3>4 DEF Release
      <4>2. /\ array' \in Seq(Bucket) /\ currentSize' = currentSize - 1
            /\ Last(array) = array[currentSize]
            /\ \A j \in 1..currentSize : array[j] \in Bucket
        BY <2>0, <4>1, LastRemoved
      <4>3. item' \in Bucket /\ hole' \in 1..currentSize'
        BY <2>6, <3>0, <3>4, <4>1, <4>2 DEF Release
      <4>4. QED  BY <2>6, <3>0, <3>2, <3>4, <4>2, <4>3 DEF Release, TypeOK
    <3>5. QED  BY <3>3, <3>4
  <2>7. CASE EndRelease
    BY <2>7, QueueAssumption DEF EndRelease, opVars, TypeOK, currentSize
  <2>8. CASE Terminated \/ UNCHANGED vars
    BY <2>8 DEF Terminated, vars, opVars, TypeOK, currentSize
  <2>9. QED  BY <2>1, <2>2, <2>3, <2>4, <2>5, <2>6, <2>7, <2>8 DEF Next
<1>3. QED  BY <1>1, <1>2, PTL DEF Spec
-----------------------------------------------------------------------------
(* The array. *)

(* No slot beyond the end of the array is used: it is enlarged in time. *)
THEOREM RoomCorrect == Spec => []RoomForTheHole
<1>1. Init => RoomForTheHole
  BY QueueAssumption, EmptySeq DEF Init, RoomForTheHole, currentSize
<1>2. TypeOK /\ RoomForTheHole /\ [Next]_vars => RoomForTheHole'
  <2> SUFFICES ASSUME TypeOK, RoomForTheHole, [Next]_vars  PROVE RoomForTheHole'
    OBVIOUS
  <2> USE DEF RoomForTheHole
  <2>0. /\ array \in Seq(Bucket) /\ currentSize \in Nat
        /\ capacity \in Nat \ {0} /\ currentSize <= capacity
    BY LenProperties DEF TypeOK, currentSize
  <2>1. ASSUME NEW v \in Veh, AddToBucket(v), Add(v)  PROVE RoomForTheHole'
    BY <2>1 DEF AddToBucket, opVars, currentSize
  <2>2. ASSUME NEW v \in Veh, AddBucket(v), Add(v)  PROVE RoomForTheHole'
    <3>1. currentSize' = currentSize + 1 /\ hole' = currentSize + 1
      BY <2>2 DEF AddBucket, currentSize, TypeOK
    <3>2. capacity' \in Nat /\ currentSize + 1 <= capacity'
      BY <2>0, <2>2 DEF AddBucket, Enlarged, isFull
    <3>3. QED  BY <3>1, <3>2
  <2>3. CASE PercolateUp
    <3>1. hole \div 2 \in 1..currentSize
      BY <2>3, Moves
    <3>2. currentSize' = currentSize
      BY <2>3 DEF PercolateUp, currentSize, TypeOK
    <3>3. QED  BY <2>0, <2>3, <3>1, <3>2 DEF PercolateUp
  <2>4. CASE PercolateDown
    <3>1. SmallerChild \in 1..currentSize
      BY <2>4, Moves
    <3>2. currentSize' = currentSize
      BY <2>4 DEF PercolateDown, currentSize, TypeOK
    <3>3. QED  BY <2>0, <2>4, <3>1, <3>2 DEF PercolateDown
  <2>5. CASE FillHole
    BY <2>0, <2>5 DEF FillHole, currentSize, TypeOK
  <2>6. CASE Release
    <3>0. op = "none" /\ currentSize # 0
      BY <2>6 DEF Release, anyWaitingBefore, isEmpty
    <3>1. CASE currentSize = 1
      <4>1. currentSize' = 0
        BY <2>6, <3>1 DEF Release, currentSize
      <4>2. QED  BY <2>0, <2>6, <3>1, <4>1 DEF Release, opVars
    <3>2. CASE currentSize # 1
      <4>1. currentSize > 1 /\ array' = Front(array)
        BY <2>0, <2>6, <3>0, <3>2 DEF Release
      <4>2. currentSize' = currentSize - 1
        BY <2>0, <4>1, LastRemoved
      <4>3. QED  BY <2>0, <2>6, <3>2, <4>2 DEF Release
    <3>3. QED  BY <3>1, <3>2
  <2>7. CASE StartRelease \/ EndRelease \/ Terminated \/ UNCHANGED vars
    BY <2>7 DEF StartRelease, EndRelease, Terminated, vars, opVars, currentSize
  <2>8. QED  BY <2>1, <2>2, <2>3, <2>4, <2>5, <2>6, <2>7 DEF Next, Add
<1>3. QED  BY <1>1, <1>2, TypeCorrect, PTL DEF Spec

(* A slot holds no later bucket than its children; while the hole moves, this
   excepts the hole, whose bucket is the item, and holds across it. *)
Parent(i) == array[i \div 2].key
HeapOrder ==
    /\ op = "none" => \A i \in 2..currentSize : Parent(i) <= array[i].key
    /\ op = "up" =>
         /\ \A i \in 2..currentSize : i # hole => Parent(i) <= array[i].key
         /\ \A i \in 2..currentSize : i \div 2 = hole =>
               /\ item.key <= array[i].key
               /\ hole > 1 => Parent(hole) <= array[i].key
    /\ op = "down" =>
         /\ \A i \in 2..currentSize :
               i # hole /\ i \div 2 # hole => Parent(i) <= array[i].key
         /\ hole > 1 =>
               /\ Parent(hole) <= item.key
               /\ \A i \in 2..currentSize : i \div 2 = hole => Parent(hole) <= array[i].key

(* Keys are numbers, and parents of slots are slots. *)
LEMMA Slots ==
    ASSUME TypeOK
    PROVE  /\ currentSize \in Nat
           /\ \A i \in 1..currentSize : array[i] \in Bucket /\ array[i].key \in Int
           /\ \A i \in 2..currentSize : i \div 2 \in 1..currentSize /\ i \div 2 < i
           /\ op # "none" => hole \in 1..currentSize /\ item \in Bucket /\ item.key \in Int
<1>1. array \in Seq(Bucket) /\ currentSize \in Nat
  BY LenProperties DEF TypeOK, currentSize
<1>2. \A b \in Bucket : b.key \in Int
  BY QueueAssumption DEF Bucket
<1>3. \A i \in 1..currentSize : array[i] \in Bucket
  BY <1>1, ElementOfSeq DEF currentSize
<1>4. ASSUME NEW i \in 2..currentSize
      PROVE  i \div 2 \in 1..currentSize /\ i \div 2 < i
  <2>1. i \in Nat /\ i > 1 /\ i \div 2 \in 1..(i - 1)
    BY <1>1, Half
  <2>2. QED  BY <1>1, <2>1
<1>5. QED  BY <1>1, <1>2, <1>3, <1>4 DEF TypeOK

(* An iteration of the loop of addReplacing keeps the order of the slots. *)
LEMMA UpKeepsHeap ==
    ASSUME TypeOK, HeapOrder, PercolateUp
    PROVE  HeapOrder'
<1> DEFINE h == hole
           p == hole \div 2
<1>1. /\ op = "up" /\ op' = "up" /\ hole' = p /\ item' = item
      /\ h > 1 /\ item.key < array[p].key
      /\ array' = [array EXCEPT ![h] = array[p]]
  BY DEF PercolateUp, UpGoesOn
<1>2. /\ h \in 1..currentSize /\ p \in 1..currentSize /\ p < h
      /\ currentSize \in Nat
  BY <1>1, Slots, Moves
<1>3. /\ currentSize' = currentSize /\ array'[h] = array[p]
      /\ \A j \in 1..currentSize : j # h => array'[j] = array[j]
  <2>1. array \in Seq(Bucket) /\ array[p] \in Bucket
    BY <1>2, Slots DEF TypeOK
  <2> HIDE DEF h, p
  <2>2. QED  BY <1>1, <1>2, <2>1, Overwritten
<1>4. /\ \A i \in 2..currentSize : i # h => array[i \div 2].key <= array[i].key
      /\ \A i \in 2..currentSize : i \div 2 = h => array[p].key <= array[i].key
  BY <1>1 DEF HeapOrder, Parent
<1>5. /\ \A i \in 1..currentSize : array[i].key \in Int
      /\ \A i \in 2..currentSize : i \div 2 \in 1..currentSize /\ i \div 2 < i
      /\ item.key \in Int
  BY <1>1, Slots
<1> HIDE DEF h
<1>6. ASSUME NEW i \in 2..currentSize, i # p
      PROVE  array'[i \div 2].key <= array'[i].key
  <2>1. CASE i = h
    BY <2>1, <1>2, <1>3, <1>5 DEF h
  <2>2. CASE i # h /\ i \div 2 = h
    BY <2>2, <1>2, <1>3, <1>4, <1>5
  <2>3. CASE i # h /\ i \div 2 # h
    BY <2>3, <1>2, <1>3, <1>4, <1>5
  <2>4. QED  BY <2>1, <2>2, <2>3
<1>7. ASSUME NEW i \in 2..currentSize, i \div 2 = p
      PROVE  array[p].key <= array'[i].key
  <2>1. CASE i = h
    BY <2>1, <1>2, <1>3, <1>5
  <2>2. CASE i # h
    BY <2>2, <1>7, <1>2, <1>3, <1>4
  <2>3. QED  BY <2>1, <2>2
<1>8. ASSUME p > 1
      PROVE  array'[p \div 2].key <= array[p].key
  <2>1. p \in 2..currentSize
    BY <1>2, <1>8
  <2>2. p \div 2 \in 1..currentSize /\ p \div 2 < p
    BY <2>1, <1>5
  <2>3. array'[p \div 2] = array[p \div 2]
    <3> HIDE DEF p
    <3>1. QED  BY <2>2, <1>2, <1>3
  <2>4. QED  BY <2>1, <2>3, <1>2, <1>4
<1>9. ASSUME NEW i \in 2..currentSize, i \div 2 = p
      PROVE  /\ item.key <= array'[i].key
             /\ p > 1 => array'[p \div 2].key <= array'[i].key
  <2>1. array'[i].key \in Int
    BY <1>2, <1>3, <1>5
  <2>2. p > 1 => array'[p \div 2].key \in Int
    <3> SUFFICES ASSUME p > 1  PROVE array'[p \div 2].key \in Int
      OBVIOUS
    <3>1. p \in 2..currentSize
      BY <1>2
    <3>2. p \div 2 \in 1..currentSize
      BY <3>1, <1>5
    <3> HIDE DEF p
    <3>3. QED  BY <3>2, <1>2, <1>3, <1>5
  <2> HIDE DEF p
  <2>3. QED  BY <2>1, <2>2, <1>1, <1>2, <1>5, <1>7, <1>8, <1>9
<1>10. QED
  <2> HIDE DEF p
  <2>1. QED  BY <1>1, <1>3, <1>6, <1>9 DEF HeapOrder, Parent

(* An iteration of the loop of percolateDown does. *)
LEMMA DownKeepsHeap ==
    ASSUME TypeOK, HeapOrder, PercolateDown
    PROVE  HeapOrder'
<1> DEFINE h == hole
           c == SmallerChild
<1>1. /\ op = "down" /\ op' = "down" /\ hole' = c /\ item' = item
      /\ array[c].key < item.key
      /\ array' = [array EXCEPT ![h] = array[c]]
  BY DEF PercolateDown, DownGoesOn
<1>2. /\ h \in 1..currentSize /\ c \in 2..currentSize /\ c > h /\ c \div 2 = h
      /\ currentSize \in Nat
  <2>1. h \in 1..currentSize /\ c \in 1..currentSize /\ c \in {2 * h, 2 * h + 1}
        /\ currentSize \in Nat
    BY <1>1, Slots, Moves
  <2> HIDE DEF c, h
  <2>2. c \in Nat /\ c > 1 /\ h \in Nat
    BY <2>1
  <2>3. c \div 2 = h
    BY <2>1, <2>2, Half
  <2>4. QED  BY <2>1, <2>2, <2>3
<1>3. /\ currentSize' = currentSize /\ array'[h] = array[c]
      /\ \A j \in 1..currentSize : j # h => array'[j] = array[j]
  <2>1. array \in Seq(Bucket) /\ array[c] \in Bucket
    BY <1>2, Slots DEF TypeOK
  <2> HIDE DEF h, c
  <2>2. QED  BY <1>1, <1>2, <2>1, Overwritten
<1>4. /\ \A i \in 1..currentSize : array[i].key \in Int
      /\ \A i \in 2..currentSize : i \div 2 \in 1..currentSize /\ i \div 2 < i
      /\ item.key \in Int
  BY <1>1, Slots
<1>5. \A i \in 2..currentSize : i \div 2 = h => array[c].key <= array[i].key
  <2> SUFFICES ASSUME NEW i \in 2..currentSize, i \div 2 = h
               PROVE  array[c].key <= array[i].key
    OBVIOUS
  <2>1. i \in Nat /\ i > 1 /\ h \in Nat
    BY <1>2
  <2>2. i = 2 * h \/ i = 2 * h + 1
    BY <2>1, Half
  <2>3. 2 * h \in 1..currentSize /\ (2 * h # currentSize => 2 * h + 1 \in 1..currentSize)
    BY <2>1, <2>2, <1>2
  <2>4. QED  BY <1>2, <1>4, <2>2, <2>3 DEF SmallerChild
<1>6. /\ \A i \in 2..currentSize :
            i # h /\ i \div 2 # h => array[i \div 2].key <= array[i].key
      /\ h > 1 => array[h \div 2].key <= array[c].key
  BY <1>1, <1>2 DEF HeapOrder, Parent
<1> HIDE DEF h, c
<1>7. ASSUME NEW i \in 2..currentSize, i # c, i \div 2 # c
      PROVE  array'[i \div 2].key <= array'[i].key
  <2>1. CASE i = h
    BY <2>1, <1>2, <1>3, <1>4, <1>6
  <2>2. CASE i # h /\ i \div 2 = h
    BY <2>2, <1>2, <1>3, <1>5
  <2>3. CASE i # h /\ i \div 2 # h
    BY <2>3, <1>2, <1>3, <1>4, <1>6
  <2>4. QED  BY <2>1, <2>2, <2>3
<1>8. array'[c \div 2].key <= item.key
  BY <1>1, <1>2, <1>3, <1>4
<1>9. ASSUME NEW i \in 2..currentSize, i \div 2 = c
      PROVE  array'[c \div 2].key <= array'[i].key
  <2>1. i # h /\ i \div 2 # h
    BY <1>2, <1>4, <1>9
  <2>2. QED  BY <2>1, <1>2, <1>3, <1>6, <1>9
<1>10. QED
  BY <1>1, <1>3, <1>7, <1>8, <1>9 DEF HeapOrder, Parent

(* So does putting the bucket into the hole when the loop ends. *)
LEMMA FillKeepsHeap ==
    ASSUME TypeOK, HeapOrder, FillHole
    PROVE  HeapOrder'
<1> DEFINE h == hole
<1>1. /\ op # "none" /\ op' = "none" /\ h \in 1..currentSize /\ item \in Bucket
      /\ array' = [array EXCEPT ![h] = item]
      /\ currentSize \in Nat
  BY Slots DEF FillHole
<1>2. /\ currentSize' = currentSize /\ array'[h] = item
      /\ \A j \in 1..currentSize : j # h => array'[j] = array[j]
  <2>1. array \in Seq(Bucket)
    BY DEF TypeOK
  <2> HIDE DEF h
  <2>2. QED  BY <1>1, <2>1, Overwritten
<1>3. /\ \A i \in 1..currentSize : array[i].key \in Int
      /\ \A i \in 2..currentSize : i \div 2 \in 1..currentSize /\ i \div 2 < i
      /\ item.key \in Int
  BY <1>1, Slots
<1>4. /\ h > 1 => array[h \div 2].key <= item.key
      /\ \A i \in 2..currentSize : i \div 2 = h => item.key <= array[i].key
      /\ \A i \in 2..currentSize :
            i # h /\ i \div 2 # h => array[i \div 2].key <= array[i].key
  <2>1. CASE op = "up"
    <3>1. ~UpGoesOn
      BY <2>1 DEF FillHole
    <3>2. h > 1 => array[h \div 2].key <= item.key
      BY <3>1, <1>1, <1>3 DEF UpGoesOn
    <3>3. QED  BY <2>1, <3>2 DEF HeapOrder, Parent
  <2>2. CASE op = "down"
    <3>1. ~DownGoesOn
      BY <2>2 DEF FillHole
    <3>2. ASSUME NEW i \in 2..currentSize, i \div 2 = h
          PROVE  item.key <= array[i].key
      <4>1. i \in Nat /\ i > 1 /\ h \in Nat
        BY <1>1
      <4>2. i = 2 * h \/ i = 2 * h + 1
        BY <3>2, <4>1, Half
      <4>3. /\ 2 * h <= currentSize /\ 2 * h \in 1..currentSize
            /\ 2 * h # currentSize => 2 * h + 1 \in 1..currentSize
        BY <4>1, <4>2, <1>1
      <4>4. array[SmallerChild].key <= array[i].key
        BY <4>2, <4>3, <1>3 DEF SmallerChild
      <4>5. item.key <= array[SmallerChild].key
        BY <3>1, <4>3, <1>3 DEF DownGoesOn, SmallerChild
      <4>6. SmallerChild \in 1..currentSize
        BY <4>3 DEF SmallerChild
      <4>7. QED  BY <4>4, <4>5, <4>6, <1>3
    <3>3. QED  BY <2>2, <3>2 DEF HeapOrder, Parent
  <2>3. QED  BY <2>1, <2>2 DEF FillHole
<1> HIDE DEF h
<1>5. ASSUME NEW i \in 2..currentSize
      PROVE  array'[i \div 2].key <= array'[i].key
  <2>1. CASE i = h
    BY <2>1, <1>1, <1>2, <1>3, <1>4
  <2>2. CASE i # h /\ i \div 2 = h
    BY <2>2, <1>1, <1>2, <1>3, <1>4
  <2>3. CASE i # h /\ i \div 2 # h
    BY <2>3, <1>1, <1>2, <1>3, <1>4
  <2>4. QED  BY <2>1, <2>2, <2>3
<1>6. QED  BY <1>1, <1>2, <1>5 DEF HeapOrder, Parent

(* A new vehicle changes no key, or starts a loop at a new last slot. *)
LEMMA AddKeepsHeap ==
    ASSUME TypeOK, HeapOrder, NEW v \in Veh, Add(v)
    PROVE  HeapOrder'
<1>0. op = "none" /\ depart[v] \in Departs /\ array \in Seq(Bucket)
  BY DEF Add, TypeOK
<1>1. /\ \A i \in 2..currentSize : Parent(i) <= array[i].key
      /\ \A i \in 2..currentSize : i \div 2 \in 1..currentSize /\ i \div 2 < i
      /\ \A i \in 1..currentSize : array[i] \in Bucket /\ array[i].key \in Int
      /\ currentSize \in Nat
  BY <1>0, Slots DEF HeapOrder
<1>2. CASE AddToBucket(v)
  <2> DEFINE k == Find(depart[v])
             b == [array[k] EXCEPT !.vehicles = Append(@, v)]
  <2>1. k \in 1..currentSize /\ array' = [array EXCEPT ![k] = b] /\ op' = "none"
    BY <1>0, <1>2, FoundBucket DEF AddToBucket, opVars
  <2>2. array[k] \in Bucket
    BY <1>1, <2>1
  <2>3. b \in Bucket /\ b.key = array[k].key
    BY <2>2, AppendProperties DEF Bucket
  <2> HIDE DEF b, k
  <2>4. /\ currentSize' = currentSize
        /\ \A j \in 1..currentSize : array'[j].key = array[j].key
    BY <1>0, <2>1, <2>3, Overwritten
  <2>5. QED  BY <1>1, <2>1, <2>4 DEF HeapOrder, Parent
<1>3. CASE AddBucket(v)
  <2> DEFINE x == [key |-> depart[v], vehicles |-> <<v>>]
  <2>1. /\ x \in Bucket /\ array' = Append(array, x)
        /\ op' = "up" /\ hole' = currentSize + 1 /\ item' = x
    BY <1>0, <1>3 DEF AddBucket, Bucket
  <2> HIDE DEF x
  <2>2. /\ currentSize' = currentSize + 1
        /\ \A j \in 1..currentSize : array'[j] = array[j]
    BY <1>0, <2>1, Appended
  <2>3. ASSUME NEW i \in 2..currentSize'
        PROVE  /\ i # hole' => array'[i \div 2].key <= array'[i].key
               /\ i \div 2 # hole'
    <3>1. i \in Nat /\ i > 1 /\ i \div 2 \in 1..(i - 1)
      BY <1>1, <2>2, Half
    <3>2. i \div 2 # hole'
      BY <1>1, <2>1, <2>2, <3>1
    <3>3. CASE i \in 2..currentSize
      BY <3>3, <3>2, <1>1, <2>2 DEF Parent
    <3>4. CASE i = hole'
      BY <3>2, <3>4
    <3>5. i \in 2..currentSize \/ i = hole'
      BY <1>1, <2>1, <2>2
    <3>6. QED  BY <3>3, <3>4, <3>5
  <2>4. QED  BY <2>1, <2>3 DEF HeapOrder, Parent
<1>4. QED  BY <1>2, <1>3 DEF Add

(* Popping the first bucket leaves a hole at the first slot. *)
LEMMA ReleaseKeepsHeap ==
    ASSUME TypeOK, HeapOrder, Release
    PROVE  HeapOrder'
<1>0. op = "none" /\ currentSize # 0 /\ array \in Seq(Bucket)
  BY DEF Release, anyWaitingBefore, isEmpty, TypeOK
<1>1. /\ \A i \in 2..currentSize : Parent(i) <= array[i].key
      /\ \A i \in 2..currentSize : i \div 2 \in 1..currentSize /\ i \div 2 < i
      /\ currentSize \in Nat
  BY <1>0, Slots DEF HeapOrder
<1>2. CASE currentSize = 1
  <2>1. currentSize' = 0 /\ op' = "none"
    BY <1>0, <1>2 DEF Release, opVars, currentSize
  <2>2. QED  BY <2>1 DEF HeapOrder
<1>3. CASE currentSize # 1
  <2>1. /\ currentSize > 1 /\ array' = Front(array)
        /\ op' = "down" /\ hole' = 1
    BY <1>0, <1>1, <1>3 DEF Release
  <2>2. /\ currentSize' = currentSize - 1
        /\ \A j \in 1..(currentSize - 1) : array'[j] = array[j]
    BY <1>0, <2>1, LastRemoved
  <2>3. ASSUME NEW i \in 2..(currentSize - 1)
        PROVE  array'[i \div 2].key <= array'[i].key
    <3>1. i \in 2..currentSize /\ i \div 2 \in 1..(currentSize - 1)
      BY <1>1
    <3>2. QED  BY <1>1, <2>2, <3>1 DEF Parent
  <2>4. QED  BY <2>1, <2>2, <2>3 DEF HeapOrder, Parent
<1>4. QED  BY <1>2, <1>3

(* Whatever is added and popped, no bucket is earlier than its parent in the
   array of MSVehicleContainer, the hole of a running loop aside. *)
THEOREM HeapKept == Spec => []HeapOrder
<1>1. Init => HeapOrder
  BY EmptySeq DEF Init, HeapOrder, currentSize
<1>2. TypeOK /\ HeapOrder /\ [Next]_vars => HeapOrder'
  <2> SUFFICES ASSUME TypeOK, HeapOrder, [Next]_vars  PROVE HeapOrder'
    OBVIOUS
  <2>1. CASE StartRelease \/ EndRelease \/ Terminated \/ UNCHANGED vars
    BY <2>1 DEF StartRelease, EndRelease, Terminated, vars, opVars, currentSize,
                HeapOrder, Parent
  <2>2. QED
    BY <2>1, AddKeepsHeap, UpKeepsHeap, DownKeepsHeap, FillKeepsHeap, ReleaseKeepsHeap
       DEF Next
<1>3. QED  BY <1>1, <1>2, TypeCorrect, PTL DEF Spec

(* The first slot of a heap is a least one: of the slots that hold less there
   would be a first, and its parent would hold less, too. *)
LEMMA RootIsLeast ==
    ASSUME TypeOK, HeapOrder, op = "none"
    PROVE  \A i \in 1..currentSize : topTime <= array[i].key
<1> DEFINE Less == {i \in 1..currentSize : array[i].key < topTime}
<1>1. /\ currentSize \in Nat
      /\ \A i \in 1..currentSize : array[i].key \in Int
      /\ \A i \in 2..currentSize : i \div 2 \in 1..currentSize /\ i \div 2 < i
      /\ \A i \in 2..currentSize : array[i \div 2].key <= array[i].key
  BY Slots DEF HeapOrder, Parent
<1>2. ASSUME Less # {}  PROVE FALSE
  <2>1. PICK m \in Less : \A n \in Less : m <= n
    <3>1. Less \in SUBSET Nat
      BY <1>1
    <3> HIDE DEF Less
    <3>2. QED  BY <1>2, <3>1, LeastNumber
  <2>2. m # 1
    BY <1>1 DEF topTime
  <2>3. m \in 2..currentSize
    BY <1>1, <2>2
  <2>4. m \div 2 \in 1..currentSize /\ m \div 2 < m /\ array[m \div 2].key <= array[m].key
    BY <1>1, <2>3
  <2>5. m \div 2 \in Less
    <3>1. 1 \in 1..currentSize /\ topTime \in Int
      BY <1>1, <2>3 DEF topTime
    <3>2. array[m \div 2].key < topTime
      BY <1>1, <2>4, <3>1
    <3>3. QED  BY <2>4, <3>2
  <2>6. m \in Nat /\ m \div 2 \in Nat /\ m <= m \div 2
    <3>1. m <= m \div 2
      <4> HIDE DEF Less
      <4>1. QED  BY <2>1, <2>5
    <3>2. QED  BY <1>1, <2>4, <3>1
  <2>7. QED  BY <2>4, <2>6
<1>3. ASSUME NEW i \in 1..currentSize  PROVE topTime <= array[i].key
  <2>1. ~(array[i].key < topTime)
    BY <1>2
  <2>2. 1 \in 1..currentSize /\ topTime \in Int
    BY <1>1 DEF topTime
  <2>3. QED  BY <1>1, <2>1, <2>2
<1>4. QED  BY <1>3

(* Between two operations no bucket is earlier than the first one. *)
THEOREM TopCorrect == Spec => []TopIsEarliest
<1>1. TypeOK /\ HeapOrder => TopIsEarliest
  BY RootIsLeast, LenProperties DEF TopIsEarliest, TypeOK, currentSize
<1>2. QED  BY <1>1, TypeCorrect, HeapKept, PTL
-----------------------------------------------------------------------------
(* What is stored. *)

(* Appending a batch to what was handed over. *)
LEMMA ConcatElements ==
    ASSUME NEW S, NEW s \in Seq(S), NEW t \in Seq(S)
    PROVE  /\ s \o t \in Seq(S)
           /\ ToSet(s \o t) = ToSet(s) \cup ToSet(t)
           /\ IsPrefix(s, s \o t)
           /\ IsInjective(s) /\ IsInjective(t) /\ ToSet(s) \cap ToSet(t) = {}
                 => IsInjective(s \o t)
<1> DEFINE r == s \o t
<1>1. /\ r \in Seq(S) /\ Len(r) = Len(s) + Len(t)
      /\ Len(s) \in Nat /\ Len(t) \in Nat
      /\ \A i \in 1..(Len(s) + Len(t)) :
            r[i] = IF i <= Len(s) THEN s[i] ELSE t[i - Len(s)]
  BY ConcatProperties, LenProperties
<1> HIDE DEF r
<1>2. ASSUME NEW i \in 1..Len(r)
      PROVE  \/ i \in 1..Len(s) /\ r[i] = s[i]
             \/ i - Len(s) \in 1..Len(t) /\ r[i] = t[i - Len(s)]
  BY <1>1
<1>3. \A i \in 1..Len(s) : i \in 1..Len(r) /\ r[i] = s[i]
  BY <1>1
<1>4. \A i \in 1..Len(t) : i + Len(s) \in 1..Len(r) /\ r[i + Len(s)] = t[i]
  <2> SUFFICES ASSUME NEW i \in 1..Len(t)
               PROVE  i + Len(s) \in 1..Len(r) /\ r[i + Len(s)] = t[i]
    OBVIOUS
  <2>1. i + Len(s) \in 1..(Len(s) + Len(t)) /\ ~(i + Len(s) <= Len(s))
        /\ (i + Len(s)) - Len(s) = i
    BY <1>1
  <2>2. QED  BY <1>1, <2>1
<1>5. ToSet(r) = ToSet(s) \cup ToSet(t)
  <2>1. ASSUME NEW x \in ToSet(r)  PROVE x \in ToSet(s) \cup ToSet(t)
    <3>1. PICK i \in 1..Len(r) : r[i] = x
      BY <1>1, ToSetByIndex
    <3>2. QED  BY <1>2, <3>1, ToSetByIndex
  <2>2. ASSUME NEW x \in ToSet(s)  PROVE x \in ToSet(r)
    <3>1. PICK i \in 1..Len(s) : s[i] = x
      BY ToSetByIndex
    <3>2. QED  BY <1>1, <1>3, <3>1, ToSetByIndex
  <2>3. ASSUME NEW x \in ToSet(t)  PROVE x \in ToSet(r)
    <3>1. PICK i \in 1..Len(t) : t[i] = x
      BY ToSetByIndex
    <3>2. QED  BY <1>1, <1>4, <3>1, ToSetByIndex
  <2>4. QED  BY <2>1, <2>2, <2>3
<1>6. IsPrefix(s, r)
  <2>1. Len(s) <= Len(r)
    BY <1>1
  <2>2. SubSeq(s, 1, Len(s)) = s
    OBVIOUS
  <2>3. /\ SubSeq(r, 1, Len(s)) \in Seq(S) /\ Len(SubSeq(r, 1, Len(s))) = Len(s)
        /\ \A i \in 1..Len(s) : SubSeq(r, 1, Len(s))[i] = r[i]
    BY <1>1
  <2>4. SubSeq(r, 1, Len(s)) = s
    BY <1>3, <2>3, SeqEqual
  <2>5. QED  BY <2>1, <2>2, <2>4 DEF IsPrefix
<1>7. ASSUME IsInjective(s), IsInjective(t), ToSet(s) \cap ToSet(t) = {}
      PROVE  IsInjective(r)
  <2>0. DOMAIN r = 1..Len(r) /\ DOMAIN s = 1..Len(s) /\ DOMAIN t = 1..Len(t)
    BY <1>1, LenProperties
  <2> SUFFICES ASSUME NEW i \in 1..Len(r), NEW j \in 1..Len(r), r[i] = r[j]
               PROVE  i = j
    BY <2>0 DEF IsInjective
  <2>1. \A x \in 1..Len(s), y \in 1..Len(t) : s[x] # t[y]
    BY <1>7, ToSetByIndex
  <2>2. CASE i \in 1..Len(s) /\ r[i] = s[i] /\ j \in 1..Len(s) /\ r[j] = s[j]
    BY <2>0, <2>2, <1>7 DEF IsInjective
  <2>3. CASE /\ i - Len(s) \in 1..Len(t) /\ r[i] = t[i - Len(s)]
             /\ j - Len(s) \in 1..Len(t) /\ r[j] = t[j - Len(s)]
    <3>1. i - Len(s) = j - Len(s)
      BY <2>0, <2>3, <1>7 DEF IsInjective
    <3>2. i \in Int /\ j \in Int
      BY <1>1
    <3>3. QED  BY <1>1, <3>1, <3>2
  <2>4. QED  BY <1>2, <2>1, <2>2, <2>3
<1>8. QED  BY <1>1, <1>5, <1>6, <1>7 DEF r

(* The vehicles of a bucket depart within the step that ends with its key; no
   vehicle is in two buckets, or in one and handed over. *)
InUse == DOMAIN array \ (IF op = "none" THEN {} ELSE {hole})
Disjoint(a, b) == ToSet(a.vehicles) \cap ToSet(b.vehicles) = {}
GoodBucket(b) ==
    /\ IsInjective(b.vehicles)
    /\ ToSet(b.vehicles) \cap ToSet(emitted) = {}
    /\ \A v \in ToSet(b.vehicles) : depart[v] <= b.key /\ b.key < depart[v] + DeltaT
Content ==
    /\ IsInjective(emitted)
    /\ \A i \in InUse : GoodBucket(array[i])
    /\ \A i, j \in InUse : i # j => Disjoint(array[i], array[j])
    /\ op # "none" => /\ GoodBucket(item)
                      /\ \A i \in InUse : Disjoint(array[i], item)

(* Copying a bucket into the hole and leaving its old slot loses nothing. *)
LEMMA MoveKeepsContent ==
    ASSUME TypeOK, Content, op # "none", NEW k \in 1..currentSize, k # hole,
           array' = [array EXCEPT ![hole] = array[k]], hole' = k,
           UNCHANGED <<op, item, emitted, depart>>
    PROVE  Content' /\ Waiting' = Waiting
<1>1. /\ DOMAIN array = 1..currentSize /\ DOMAIN array' = 1..currentSize
      /\ hole \in 1..currentSize /\ array'[hole] = array[k]
      /\ \A j \in 1..currentSize : j # hole => array'[j] = array[j]
  <2>1. array \in Seq(Bucket) /\ hole \in 1..currentSize /\ array[k] \in Bucket
    BY Slots DEF TypeOK
  <2>2. QED  BY <2>1, Overwritten
<1>2. InUse = 1..currentSize \ {hole} /\ InUse' = 1..currentSize \ {k}
  BY <1>1 DEF InUse
<1>3. Stored' = Stored
  <2>1. /\ Stored = {array[i] : i \in 1..currentSize \ {hole}} \cup {item}
        /\ Stored' = {array'[i] : i \in 1..currentSize \ {k}} \cup {item}
    BY <1>1 DEF Stored
  <2>2. QED  BY <1>1, <2>1
<1>4. Waiting' = Waiting
  BY <1>3 DEF Waiting
<1>5. \A i \in InUse' : GoodBucket(array'[i]) /\ Disjoint(array'[i], item)
  BY <1>1, <1>2 DEF Content
<1>6. ASSUME NEW i \in InUse', NEW j \in InUse', i # j
      PROVE  Disjoint(array'[i], array'[j])
  <2>1. CASE i = hole
    BY <2>1, <1>1, <1>2, <1>6 DEF Content
  <2>2. CASE j = hole
    BY <2>2, <1>1, <1>2, <1>6 DEF Content
  <2>3. CASE i # hole /\ j # hole
    BY <2>3, <1>1, <1>2, <1>6 DEF Content
  <2>4. QED  BY <2>1, <2>2, <2>3
<1>7. Content'
  BY <1>5, <1>6 DEF Content, GoodBucket, Disjoint
<1>8. QED  BY <1>4, <1>7

(* Nor does an iteration of either loop, or anything else but the array and
   the hole. *)
LEMMA LoopKeepsContent ==
    ASSUME TypeOK, Content, PercolateUp \/ PercolateDown
    PROVE  Content' /\ UNCHANGED <<now, phase, depart, Waiting, emitted>>
<1>1. CASE PercolateUp
  <2>1. hole \div 2 \in 1..currentSize /\ hole \div 2 # hole
    <3>1. hole \in 1..currentSize /\ currentSize \in Nat
      BY <1>1, Slots DEF PercolateUp
    <3>2. hole \div 2 \in 1..currentSize /\ hole \div 2 < hole
      BY <1>1, Moves
    <3>3. QED  BY <3>1, <3>2
  <2>2. /\ op # "none" /\ array' = [array EXCEPT ![hole] = array[hole \div 2]]
        /\ hole' = hole \div 2
        /\ UNCHANGED <<now, phase, op, item, emitted, depart>>
    BY <1>1 DEF PercolateUp
  <2>3. Content' /\ Waiting' = Waiting
    BY <2>1, <2>2, MoveKeepsContent
  <2>4. QED  BY <2>2, <2>3
<1>2. CASE PercolateDown
  <2>1. SmallerChild \in 1..currentSize /\ SmallerChild # hole
    <3>1. hole \in 1..currentSize /\ currentSize \in Nat
      BY <1>2, Slots DEF PercolateDown
    <3>2. SmallerChild \in 1..currentSize /\ SmallerChild \in {2 * hole, 2 * hole + 1}
      BY <1>2, Moves
    <3>3. QED  BY <3>1, <3>2
  <2>2. /\ op # "none" /\ array' = [array EXCEPT ![hole] = array[SmallerChild]]
        /\ hole' = SmallerChild
        /\ UNCHANGED <<now, phase, op, item, emitted, depart>>
    BY <1>2 DEF PercolateDown
  <2>3. Content' /\ Waiting' = Waiting
    BY <2>1, <2>2, MoveKeepsContent
  <2>4. QED  BY <2>2, <2>3
<1>3. QED  BY <1>1, <1>2

(* Filling the hole puts the item of the loop back into the array. *)
LEMMA FillKeepsContent ==
    ASSUME TypeOK, Content, FillHole
    PROVE  Content' /\ Waiting' = Waiting
<1>1. /\ op # "none" /\ op' = "none" /\ UNCHANGED <<emitted, depart>>
      /\ DOMAIN array = 1..currentSize /\ DOMAIN array' = 1..currentSize
      /\ hole \in 1..currentSize /\ array'[hole] = item
      /\ \A j \in 1..currentSize : j # hole => array'[j] = array[j]
  <2>1. /\ array \in Seq(Bucket) /\ op # "none"
        /\ hole \in 1..currentSize /\ item \in Bucket
    BY Slots DEF FillHole, TypeOK
  <2>2. array' = [array EXCEPT ![hole] = item]
    BY DEF FillHole
  <2>3. QED  BY <2>1, <2>2, Overwritten DEF FillHole
<1>2. InUse = 1..currentSize \ {hole} /\ InUse' = 1..currentSize
  BY <1>1 DEF InUse
<1>3. Stored' = Stored
  <2>1. /\ Stored = {array[i] : i \in 1..currentSize \ {hole}} \cup {item}
        /\ Stored' = {array'[i] : i \in 1..currentSize}
    BY <1>1 DEF Stored
  <2>2. QED  BY <1>1, <2>1
<1>4. Waiting' = Waiting
  BY <1>3 DEF Waiting
<1>5. \A i \in InUse' : GoodBucket(array'[i])
  BY <1>1, <1>2 DEF Content
<1>6. ASSUME NEW i \in InUse', NEW j \in InUse', i # j
      PROVE  Disjoint(array'[i], array'[j])
  <2>1. CASE i = hole
    BY <2>1, <1>1, <1>2, <1>6 DEF Content, Disjoint
  <2>2. CASE j = hole
    BY <2>2, <1>1, <1>2, <1>6 DEF Content
  <2>3. CASE i # hole /\ j # hole
    BY <2>3, <1>1, <1>2, <1>6 DEF Content
  <2>4. QED  BY <2>1, <2>2, <2>3
<1>7. Content'
  BY <1>1, <1>5, <1>6 DEF Content, GoodBucket, Disjoint
<1>8. QED  BY <1>4, <1>7

(* Who waits, when no operation runs. *)
LEMMA WaitingByIndex ==
    ASSUME TypeOK, op = "none"
    PROVE  /\ InUse = 1..currentSize
           /\ \A v : v \in Waiting <=>
                 \E i \in 1..currentSize : v \in ToSet(array[i].vehicles)
<1>1. DOMAIN array = 1..currentSize
  BY LenProperties DEF TypeOK, currentSize
<1>2. QED  BY <1>1 DEF Waiting, Stored, InUse

(* add stores the vehicle, and stores it once. *)
LEMMA AddKeepsContent ==
    ASSUME TypeOK, Content, NEW v \in Veh, Add(v)
    PROVE  Content' /\ Waiting' = Waiting \cup {v}
<1>0. /\ op = "none" /\ array \in Seq(Bucket) /\ UNCHANGED <<emitted, depart>>
      /\ v \notin Waiting /\ v \notin ToSet(emitted)
      /\ depart[v] \in Int /\ depart[v] \in Departs /\ DeltaT \in Nat \ {0}
  BY QueueAssumption DEF Add, TypeOK
<1>1. /\ InUse = 1..currentSize /\ DOMAIN array = 1..currentSize /\ currentSize \in Nat
      /\ \A w : w \in Waiting <=> \E i \in 1..currentSize : w \in ToSet(array[i].vehicles)
      /\ \A i \in 1..currentSize : v \notin ToSet(array[i].vehicles)
  BY <1>0, WaitingByIndex, Slots, LenProperties DEF currentSize
<1>2. CASE AddToBucket(v)
  <2> DEFINE k == Find(depart[v])
             b == [array[k] EXCEPT !.vehicles = Append(@, v)]
  <2>1. /\ k \in 1..currentSize /\ array' = [array EXCEPT ![k] = b] /\ op' = "none"
        /\ DepartFinder(depart[v], array[k].key)
    BY <1>0, <1>2, FoundBucket DEF AddToBucket, opVars
  <2>2. array[k] \in Bucket /\ array[k].vehicles \in Seq(Veh) /\ array[k].key \in Int
    BY <2>1, Slots DEF Bucket
  <2>3. /\ b \in Bucket /\ b.key = array[k].key
        /\ ToSet(b.vehicles) = ToSet(array[k].vehicles) \cup {v}
        /\ IsInjective(array[k].vehicles) => IsInjective(b.vehicles)
    <3>1. b.vehicles = Append(array[k].vehicles, v) /\ b.key = array[k].key
      BY <2>2 DEF Bucket
    <3>2. v \notin ToSet(array[k].vehicles)
      BY <1>1, <2>1
    <3>3. /\ Append(array[k].vehicles, v) \in Seq(Veh)
          /\ ToSet(Append(array[k].vehicles, v)) = ToSet(array[k].vehicles) \cup {v}
          /\ IsInjective(array[k].vehicles) => IsInjective(Append(array[k].vehicles, v))
      BY <2>2, <3>2, AppendElements
    <3>4. b \in Bucket
      BY <2>2, <3>3 DEF Bucket
    <3> HIDE DEF b, k
    <3>5. QED  BY <3>1, <3>3, <3>4
  <2>4. GoodBucket(b)
    <3>1. GoodBucket(array[k])
      BY <2>1, <1>1 DEF Content
    <3>2. depart[v] <= b.key /\ b.key < depart[v] + DeltaT
      BY <1>0, <2>1, <2>2, <2>3 DEF DepartFinder
    <3> HIDE DEF b, k
    <3>3. QED  BY <1>0, <2>3, <3>1, <3>2 DEF GoodBucket
  <2> HIDE DEF b, k
  <2>5. /\ currentSize' = currentSize /\ DOMAIN array' = 1..currentSize
        /\ array'[k] = b /\ \A j \in 1..currentSize : j # k => array'[j] = array[j]
    BY <1>0, <2>1, <2>3, Overwritten
  <2>6. InUse' = 1..currentSize
    BY <2>1, <2>5 DEF InUse
  <2>7. \A i \in 1..currentSize : GoodBucket(array'[i])
    BY <1>1, <2>4, <2>5 DEF Content
  <2>8. ASSUME NEW i \in 1..currentSize, NEW j \in 1..currentSize, i # j
        PROVE  Disjoint(array'[i], array'[j])
    <3>1. Disjoint(array[i], array[j])
      BY <1>1, <2>8 DEF Content
    <3>2. QED  BY <3>1, <1>1, <2>1, <2>3, <2>5, <2>8 DEF Disjoint
  <2>9. Content'
    BY <1>0, <2>1, <2>6, <2>7, <2>8 DEF Content, GoodBucket, Disjoint
  <2>10. Waiting' = UNION {ToSet(array'[i].vehicles) : i \in 1..currentSize}
    BY <2>1, <2>5 DEF Waiting, Stored
  <2>11. Waiting' = Waiting \cup {v}
    <3>1. ASSUME NEW w \in Waiting'  PROVE w \in Waiting \cup {v}
      <4>1. PICK i \in 1..currentSize : w \in ToSet(array'[i].vehicles)
        BY <2>10, <3>1
      <4>2. QED  BY <4>1, <1>1, <2>3, <2>5
    <3>2. ASSUME NEW w \in Waiting \cup {v}  PROVE w \in Waiting'
      BY <3>2, <1>1, <2>1, <2>3, <2>5, <2>10
    <3>3. QED  BY <3>1, <3>2
  <2>12. QED  BY <2>9, <2>11
<1>3. CASE AddBucket(v)
  <2> DEFINE x == [key |-> depart[v], vehicles |-> <<v>>]
             n == currentSize + 1
  <2>1. /\ x \in Bucket /\ array' = Append(array, x)
        /\ op' = "up" /\ hole' = n /\ item' = x
    BY <1>0, <1>3 DEF AddBucket, Bucket
  <2>2. ToSet(x.vehicles) = {v} /\ IsInjective(x.vehicles) /\ x.key = depart[v]
    BY DEF ToSet, IsInjective
  <2>3. GoodBucket(x)
    BY <1>0, <2>2 DEF GoodBucket
  <2> HIDE DEF x
  <2>4. /\ DOMAIN array' = 1..n
        /\ \A j \in 1..currentSize : array'[j] = array[j]
    BY <1>0, <2>1, Appended
  <2>5. InUse' = 1..currentSize
    BY <1>1, <2>1, <2>4 DEF InUse
  <2>6. \A i \in 1..currentSize : GoodBucket(array'[i]) /\ Disjoint(array'[i], x)
    BY <1>1, <2>2, <2>4 DEF Content, Disjoint
  <2>7. \A i, j \in 1..currentSize : i # j => Disjoint(array'[i], array'[j])
    BY <1>1, <2>4 DEF Content
  <2>8. Content'
    BY <1>0, <2>1, <2>3, <2>5, <2>6, <2>7 DEF Content, GoodBucket, Disjoint
  <2>9. Stored' = {array[i] : i \in 1..currentSize} \cup {x}
    <3>1. Stored' = {array'[i] : i \in 1..n \ {n}} \cup {x}
      BY <2>1, <2>4 DEF Stored
    <3>2. 1..n \ {n} = 1..currentSize
      BY <1>1
    <3> HIDE DEF n
    <3>3. QED  BY <2>4, <3>1, <3>2
  <2>10. Stored = {array[i] : i \in 1..currentSize}
    BY <1>0, <1>1 DEF Stored
  <2>11. Waiting' = Waiting \cup {v}
    BY <2>2, <2>9, <2>10 DEF Waiting
  <2>12. QED  BY <2>8, <2>11
<1>4. QED  BY <1>2, <1>3 DEF Add

(* What pop takes from the store is what was handed over before. *)
LEMMA ReleaseKeepsContent ==
    ASSUME TypeOK, Content, Release
    PROVE  /\ Content'
           /\ array[1] \in Bucket /\ GoodBucket(array[1])
           /\ ToSet(array[1].vehicles) \subseteq Waiting
           /\ Waiting' = Waiting \ ToSet(array[1].vehicles)
           /\ IsPrefix(emitted, emitted')
           /\ ToSet(emitted') \ ToSet(emitted) = ToSet(array[1].vehicles)
<1> DEFINE B == array[1]
           n == currentSize
<1>0. /\ op = "none" /\ n # 0 /\ array \in Seq(Bucket) /\ emitted \in Seq(Veh)
      /\ emitted' = emitted \o B.vehicles /\ depart' = depart
  BY DEF Release, anyWaitingBefore, isEmpty, TypeOK
<1>1. /\ InUse = 1..n /\ DOMAIN array = 1..n /\ n \in Nat /\ 1 \in 1..n
      /\ \A w : w \in Waiting <=> \E i \in 1..n : w \in ToSet(array[i].vehicles)
  <2>1. currentSize \in Nat /\ DOMAIN array = 1..currentSize
    BY <1>0, LenProperties DEF currentSize
  <2>2. QED  BY <1>0, <2>1, WaitingByIndex
<1>2. B \in Bucket /\ GoodBucket(B) /\ B.vehicles \in Seq(Veh)
  BY <1>1, Slots DEF Content, Bucket
<1>3. /\ IsPrefix(emitted, emitted')
      /\ ToSet(emitted') = ToSet(emitted) \cup ToSet(B.vehicles)
      /\ IsInjective(emitted')
  <2> HIDE DEF B
  <2>1. QED  BY <1>0, <1>2, ConcatElements DEF Content, GoodBucket
<1>4. \A i \in 2..n : /\ GoodBucket(array[i]) /\ Disjoint(array[i], B)
                       /\ ToSet(array[i].vehicles) \cap ToSet(emitted') = {}
  <2> SUFFICES ASSUME NEW i \in 2..n
               PROVE  /\ GoodBucket(array[i]) /\ Disjoint(array[i], B)
                      /\ ToSet(array[i].vehicles) \cap ToSet(emitted') = {}
    OBVIOUS
  <2>1. i \in 1..n /\ i # 1
    BY <1>1
  <2>2. GoodBucket(array[i]) /\ Disjoint(array[i], B)
    BY <1>1, <2>1 DEF Content
  <2>3. ToSet(array[i].vehicles) \cap ToSet(emitted) = {}
    BY <2>2 DEF GoodBucket
  <2>4. ToSet(array[i].vehicles) \cap ToSet(emitted') = {}
    BY <1>3, <2>2, <2>3 DEF Disjoint
  <2>5. QED  BY <2>2, <2>4
<1>5. \A i, j \in 2..n : i # j => Disjoint(array[i], array[j])
  BY <1>1 DEF Content
<1>6. CASE n = 1
  <2>1. array' = <<>> /\ op' = "none"
    BY <1>0, <1>6 DEF Release, opVars
  <2>2. DOMAIN array' = {} /\ InUse' = {}
    BY <2>1 DEF InUse
  <2>3. Content'
    BY <1>3, <2>1, <2>2 DEF Content
  <2>4. Waiting' = {}
    BY <2>1, <2>2 DEF Waiting, Stored
  <2>5. Waiting = ToSet(B.vehicles)
    BY <1>1, <1>6
  <2>6. QED  BY <1>2, <1>3, <2>3, <2>4, <2>5 DEF GoodBucket
<1>7. CASE n # 1
  <2>1. n > 1 /\ array' = Front(array) /\ op' = "down" /\ hole' = 1 /\ item' = Last(array)
    BY <1>0, <1>1, <1>7 DEF Release
  <2>2. /\ DOMAIN array' = 1..(n - 1) /\ item' = array[n]
        /\ \A j \in 1..(n - 1) : array'[j] = array[j]
    BY <1>0, <2>1, LastRemoved
  <2>3. InUse' = 2..(n - 1)
    BY <1>1, <2>1, <2>2 DEF InUse
  <2>4. \A i \in 2..(n - 1) : i \in 2..n /\ i # n /\ array'[i] = array[i]
    BY <1>1, <2>2
  <2>5. n \in 2..n
    BY <1>1, <2>1
  <2>6. Content'
    <3>1. /\ \A i \in InUse' : /\ IsInjective(array'[i].vehicles)
                              /\ ToSet(array'[i].vehicles) \cap ToSet(emitted') = {}
                              /\ \A v \in ToSet(array'[i].vehicles) :
                                    depart[v] <= array'[i].key /\ array'[i].key < depart[v] + DeltaT
                              /\ Disjoint(array'[i], item')
          /\ IsInjective(item'.vehicles)
          /\ ToSet(item'.vehicles) \cap ToSet(emitted') = {}
          /\ \A v \in ToSet(item'.vehicles) :
                depart[v] <= item'.key /\ item'.key < depart[v] + DeltaT
      BY <1>4, <1>5, <2>2, <2>3, <2>4, <2>5 DEF GoodBucket
    <3>2. \A i, j \in InUse' : i # j => Disjoint(array'[i], array'[j])
      BY <1>5, <2>3, <2>4
    <3>3. QED  BY <1>0, <1>3, <3>1, <3>2 DEF Content, GoodBucket, Disjoint
  <2>7. Waiting' = UNION {ToSet(array[i].vehicles) : i \in 2..n}
    <3>1. Stored' = {array'[i] : i \in 1..(n - 1) \ {1}} \cup {array[n]}
      BY <2>1, <2>2 DEF Stored
    <3>2. 2..n = (1..(n - 1) \ {1}) \cup {n}
      BY <1>1, <2>1
    <3>3. \A i \in 1..(n - 1) \ {1} : array'[i] = array[i]
      BY <2>2
    <3> HIDE DEF n
    <3>4. Stored' = {array[i] : i \in 2..n}
      BY <3>1, <3>2, <3>3
    <3>5. QED  BY <3>4 DEF Waiting
  <2>8. Waiting' = Waiting \ ToSet(B.vehicles)
    <3>1. 1..n = {1} \cup 2..n
      BY <1>1
    <3>2. \A i \in 2..n : ToSet(array[i].vehicles) \cap ToSet(B.vehicles) = {}
      BY <1>4 DEF Disjoint
    <3> HIDE DEF n
    <3>3. QED  BY <1>1, <2>7, <3>1, <3>2
  <2>9. ToSet(B.vehicles) \subseteq Waiting
    BY <1>1
  <2>10. QED  BY <1>2, <1>3, <2>6, <2>8, <2>9 DEF GoodBucket
<1>8. QED  BY <1>6, <1>7

(* No operation of MSVehicleContainer copies a vehicle or leaves one in a bucket that
   is earlier than its departure or a step later. *)
THEOREM ContentKept == Spec => []Content
<1>1. Init => Content
  BY DEF Init, Content, InUse, IsInjective
<1>2. TypeOK /\ Content /\ [Next]_vars => Content'
  <2> SUFFICES ASSUME TypeOK, Content, [Next]_vars  PROVE Content'
    OBVIOUS
  <2>3. CASE StartRelease \/ EndRelease \/ Terminated \/ UNCHANGED vars
    BY <2>3 DEF StartRelease, EndRelease, Terminated, vars, opVars,
                Content, InUse, GoodBucket
  <2>4. QED
    BY <2>3, LoopKeepsContent, AddKeepsContent, FillKeepsContent, ReleaseKeepsContent
       DEF Next
<1>3. QED  BY <1>1, <1>2, TypeCorrect, PTL DEF Spec

(* No vehicle is twice in the buckets, none was handed over twice, and none that
   was handed over is still in a bucket. *)
THEOREM StoredOnceCorrect == Spec => []StoredOnce
<1>1. ASSUME TypeOK, Content  PROVE StoredOnce
  <2>1. Waiting \cap ToSet(emitted) = {}
    <3>1. \A b \in Stored : GoodBucket(b)
      BY <1>1 DEF Content, Stored, InUse
    <3>2. QED  BY <3>1 DEF Waiting, GoodBucket
  <2>2. op = "none" => InUse = DOMAIN array
    BY DEF InUse
  <2>3. QED  BY <1>1, <2>1, <2>2 DEF StoredOnce, Content, GoodBucket, Disjoint
<1>2. QED  BY <1>1, TypeCorrect, ContentKept, PTL
-----------------------------------------------------------------------------
(* The refinement. *)

(* Steps of the loops are not visible in the schedule. *)
LEMMA LoopsKeepWaiting ==
    ASSUME TypeOK, Content, PercolateUp \/ PercolateDown \/ FillHole
    PROVE  UNCHANGED <<now, phase, depart, Waiting, emitted>>
<1>1. CASE FillHole
  BY <1>1, FillKeepsContent DEF FillHole
<1>2. QED  BY <1>1, LoopKeepsContent

(* No vehicle leaves too early, or while another one departed a step before. *)
LEMMA ReleaseImplements ==
    ASSUME TypeOK, HeapOrder, Content, Release
    PROVE  Schedule!Release
<1> DEFINE B == array[1]
<1>1. /\ B \in Bucket /\ GoodBucket(B) /\ ToSet(B.vehicles) \subseteq Waiting
      /\ Waiting' = Waiting \ ToSet(B.vehicles)
      /\ IsPrefix(emitted, emitted')
      /\ ToSet(emitted') \ ToSet(emitted) = ToSet(B.vehicles)
  BY ReleaseKeepsContent
<1>2. /\ phase = "release" /\ op = "none" /\ UNCHANGED <<now, phase, depart>>
      /\ B.key < now + DeltaT /\ B.key \in Int /\ now \in Int /\ DeltaT \in Nat
      /\ \A w \in Veh : depart[w] \in Int
  <2>1. B.key \in Int
    BY <1>1, QueueAssumption DEF Bucket
  <2>2. /\ phase = "release" /\ op = "none" /\ UNCHANGED <<now, phase, depart>>
        /\ B.key < now + DeltaT
    BY DEF Release, anyWaitingBefore, topTime, Due
  <2> HIDE DEF B
  <2>3. now \in Int /\ DeltaT \in Nat
    BY QueueAssumption DEF TypeOK
  <2>4. \A w \in Veh : depart[w] \in Int
    BY QueueAssumption DEF TypeOK
  <2>5. QED  BY <2>1, <2>2, <2>3, <2>4
<1>3. \A v \in ToSet(B.vehicles) : v \in Veh /\ depart[v] <= B.key
  BY <1>1, ToSetByIndex DEF GoodBucket, Bucket
<1>4. \A w \in Waiting : w \in Veh /\ B.key < depart[w] + DeltaT
  <2> SUFFICES ASSUME NEW w \in Waiting  PROVE w \in Veh /\ B.key < depart[w] + DeltaT
    OBVIOUS
  <2>1. PICK i \in 1..currentSize : w \in ToSet(array[i].vehicles)
    BY <1>2, WaitingByIndex
  <2>2. array[i] \in Bucket /\ array[i].key \in Int /\ i \in InUse
    BY <1>2, Slots, WaitingByIndex
  <2>3. w \in Veh
    BY <2>1, <2>2, ToSetByIndex DEF Bucket
  <2>4. array[i].key < depart[w] + DeltaT
    BY <2>1, <2>2 DEF Content, GoodBucket
  <2>5. B.key <= array[i].key
    BY <1>2, RootIsLeast DEF topTime
  <2> HIDE DEF B
  <2>6. QED  BY <1>2, <2>2, <2>3, <2>4, <2>5
<1> HIDE DEF B
<1>5. /\ \A v \in ToSet(B.vehicles) : depart[v] < now + DeltaT
      /\ \A v \in ToSet(B.vehicles), w \in Waiting \ ToSet(B.vehicles) :
            depart[v] < depart[w] + DeltaT
  BY <1>2, <1>3, <1>4
<1> DEFINE batch == ToSet(emitted') \ ToSet(emitted)
<1>6. batch = ToSet(B.vehicles)
  BY <1>1
<1>7. /\ phase = "release" /\ UNCHANGED <<now, phase, depart>>
      /\ IsPrefix(emitted, emitted')
      /\ batch \subseteq Waiting /\ Waiting' = Waiting \ batch
      /\ \A v \in batch : depart[v] < now + DeltaT
      /\ \A v \in batch, w \in Waiting \ batch : depart[v] < depart[w] + DeltaT
  <2> HIDE DEF batch
  <2>1. QED  BY <1>1, <1>2, <1>5, <1>6
<1>8. Schedule!ToSet(emitted') \ Schedule!ToSet(emitted) = batch
  BY DEF ToSet, Schedule!ToSet
<1>9. Schedule!IsPrefix(emitted, emitted')
  BY <1>7 DEF IsPrefix, Schedule!IsPrefix
<1> HIDE DEF batch
<1>10. QED  BY <1>7, <1>8, <1>9 DEF Schedule!Release

(* When the step goes on, nobody is left whose departure has come. *)
LEMMA EndReleaseImplements ==
    ASSUME TypeOK, HeapOrder, Content, EndRelease
    PROVE  Schedule!EndRelease
<1>1. /\ phase = "release" /\ phase' = "load" /\ now' = now + DeltaT /\ op = "none"
      /\ ~anyWaitingBefore(now + DeltaT)
      /\ UNCHANGED <<depart, array, op, hole, item, emitted>>
      /\ now \in Int /\ DeltaT \in Nat \ {0}
  BY QueueAssumption DEF EndRelease, Due, opVars, TypeOK
<1>2. Waiting' = Waiting
  BY <1>1 DEF Waiting, Stored
<1>3. ASSUME NEW w \in Waiting  PROVE depart[w] > now
  <2>1. PICK i \in 1..currentSize : w \in ToSet(array[i].vehicles)
    BY <1>1, WaitingByIndex
  <2>2. /\ array[i] \in Bucket /\ array[i].key \in Int /\ i \in InUse
        /\ currentSize \in Nat /\ topTime \in Int
    <3>1. 1 \in 1..currentSize /\ currentSize \in Nat
      BY <2>1, Slots
    <3>2. QED  BY <1>1, <3>1, Slots, WaitingByIndex DEF topTime
  <2>3. depart[w] \in Int
    <3>1. w \in Veh
      BY <2>1, <2>2, ToSetByIndex DEF Bucket
    <3>2. QED  BY <3>1, QueueAssumption DEF TypeOK
  <2>4. array[i].key < depart[w] + DeltaT
    BY <2>1, <2>2 DEF Content, GoodBucket
  <2>5. topTime <= array[i].key
    BY <1>1, RootIsLeast
  <2>6. ~(topTime < now + DeltaT)
    BY <1>1, <2>1, <2>2 DEF anyWaitingBefore, isEmpty
  <2>7. QED  BY <1>1, <2>2, <2>3, <2>4, <2>5, <2>6
<1>4. QED  BY <1>1, <1>2, <1>3 DEF Schedule!EndRelease

(* The container implements the departure schedule: no vehicle is handed over
   before its step, none is left behind after it, and no vehicle overtakes
   another by a step or more. *)
THEOREM ScheduleCorrect == Spec => ScheduleKept
<1>1. Init => Schedule!Init
  BY DEF Init, Schedule!Init, Waiting, Stored
<1>2. TypeOK /\ HeapOrder /\ Content /\ [Next]_vars => [Schedule!Next]_(Schedule!vars)
  <2> SUFFICES ASSUME TypeOK, HeapOrder, Content, [Next]_vars
               PROVE  [Schedule!Next]_(Schedule!vars)
    OBVIOUS
  <2>1. ASSUME NEW v \in Veh, Add(v)  PROVE Schedule!Add(v)
    <3>1. Waiting' = Waiting \cup {v}
      BY <2>1, AddKeepsContent
    <3>2. /\ phase = "load" /\ v \notin Waiting /\ v \notin ToSet(emitted)
          /\ UNCHANGED <<now, phase, depart, emitted>>
      BY <2>1 DEF Add
    <3>3. QED  BY <3>1, <3>2 DEF Schedule!Add, ToSet, Schedule!ToSet
  <2>2. CASE StartRelease
    <3>1. Waiting' = Waiting
      BY <2>2 DEF StartRelease, opVars, Waiting, Stored
    <3>2. QED  BY <2>2, <3>1 DEF StartRelease, Schedule!StartRelease, Schedule!Next
  <2>3. CASE Release
    BY <2>3, ReleaseImplements DEF Schedule!Next
  <2>4. CASE EndRelease
    BY <2>4, EndReleaseImplements DEF Schedule!Next
  <2>5. CASE PercolateUp \/ PercolateDown \/ FillHole
    BY <2>5, LoopsKeepWaiting DEF Schedule!vars
  <2>6. CASE Terminated \/ UNCHANGED vars
    <3>1. Waiting' = Waiting
      BY <2>6 DEF Terminated, vars, opVars, Waiting, Stored
    <3>2. QED  BY <2>6, <3>1 DEF Terminated, vars, Schedule!vars
  <2>7. QED  BY <2>1, <2>2, <2>3, <2>4, <2>5, <2>6 DEF Next, Schedule!Next
<1>3. QED
  BY <1>1, <1>2, TypeCorrect, HeapKept, ContentKept, PTL
     DEF Spec, ScheduleKept, Schedule!Spec
=============================================================================
