--------------------------- MODULE SequenceLemmas ---------------------------
(***************************************************************************)
(* What the vector operations of the insertion queue (pop the front, push  *)
(* back, erase) do to the set of its elements and to their distinctness;   *)
(* least numbers.                                                          *)
(***************************************************************************)
EXTENDS Integers, Sequences, SequencesExt, SequenceTheorems,
        WellFoundedInduction, TLAPS

(* Every non-empty set of numbers has a least one. *)
LEMMA LeastNumber ==
    ASSUME NEW S \in SUBSET Nat, S # {}
    PROVE  \E m \in S : \A n \in S : m <= n
<1> DEFINE R == OpToRel(<, Nat)
<1>1. IsWellFoundedOn(R, Nat)
  BY NatLessThanWellFounded
<1>2. PICK m \in S : \A n \in S : <<n, m>> \notin R
  <2> HIDE DEF R
  <2>1. QED BY <1>1, WFMin
<1>3. ASSUME NEW n \in S PROVE m <= n
  <2>1. n \in Nat /\ m \in Nat
    OBVIOUS
  <2>2. n < m => <<n, m>> \in R
    BY <2>1 DEF OpToRel
  <2> HIDE DEF R
  <2>3. QED  BY <1>2, <2>1, <2>2
<1>4. QED  BY <1>3

(* The elements of a vector, by position. *)
LEMMA ToSetByIndex ==
    ASSUME NEW S, NEW s \in Seq(S)
    PROVE  /\ ToSet(s) \subseteq S
           /\ \A x : x \in ToSet(s) <=> \E i \in 1..Len(s) : s[i] = x
<1>1. Len(s) \in Nat /\ DOMAIN s = 1..Len(s)
  BY LenProperties
<1>2. \A i \in 1..Len(s) : s[i] \in S
  BY ElementOfSeq
<1>3. QED  BY <1>1, <1>2 DEF ToSet

(* Popping the front takes the front out of the elements. *)
LEMMA TailElements ==
    ASSUME NEW S, NEW s \in Seq(S), s # <<>>
    PROVE  /\ Head(s) \in S /\ Tail(s) \in Seq(S)
           /\ ToSet(s) = {Head(s)} \cup ToSet(Tail(s))
<1>1. /\ Head(s) \in S /\ Tail(s) \in Seq(S)
      /\ Len(s) \in Nat /\ Len(s) > 0 /\ Head(s) = s[1]
      /\ Len(Tail(s)) = Len(s) - 1
      /\ \A i \in 1..(Len(s) - 1) : Tail(s)[i] = s[i + 1]
  <2>1. Len(s) \in Nat /\ Len(s) # 0
    BY EmptySeq, LenProperties
  <2>2. QED  BY <2>1, HeadTailProperties
<1>2. ASSUME NEW x \in ToSet(s)  PROVE x \in {Head(s)} \cup ToSet(Tail(s))
  <2>1. PICK i \in 1..Len(s) : s[i] = x
    BY ToSetByIndex
  <2>2. CASE i = 1
    BY <2>1, <2>2, <1>1
  <2>3. CASE i # 1
    <3>1. i - 1 \in 1..Len(Tail(s)) /\ Tail(s)[i - 1] = x
      BY <2>1, <2>3, <1>1
    <3>2. x \in ToSet(Tail(s))
      BY <3>1, <1>1, ToSetByIndex
    <3>3. QED  BY <3>2
  <2>4. QED  BY <2>2, <2>3
<1>3. ASSUME NEW x \in ToSet(Tail(s))  PROVE x \in ToSet(s)
  <2>1. PICK i \in 1..Len(Tail(s)) : Tail(s)[i] = x
    BY <1>1, ToSetByIndex
  <2>2. i + 1 \in 1..Len(s) /\ s[i + 1] = x
    BY <2>1, <1>1
  <2>3. QED  BY <2>2, ToSetByIndex
<1>4. Head(s) \in ToSet(s)
  <2>1. 1 \in 1..Len(s) /\ s[1] = Head(s)
    BY <1>1
  <2>2. QED  BY <2>1, ToSetByIndex
<1>5. QED  BY <1>1, <1>2, <1>3, <1>4

(* In a vector without repetitions the front does not occur again. *)
LEMMA TailDistinct ==
    ASSUME NEW S, NEW s \in Seq(S), s # <<>>, IsInjective(s)
    PROVE  /\ IsInjective(Tail(s))
           /\ Head(s) \notin ToSet(Tail(s))
  BY DEF ToSet, IsInjective

(* push_back adds one element. *)
LEMMA AppendElements ==
    ASSUME NEW S, NEW s \in Seq(S), NEW v \in S
    PROVE  /\ Append(s, v) \in Seq(S)
           /\ ToSet(Append(s, v)) = ToSet(s) \cup {v}
           /\ IsInjective(s) /\ v \notin ToSet(s) => IsInjective(Append(s, v))
<1> DEFINE r == Append(s, v)
<1>1. /\ Len(s) \in Nat /\ r \in Seq(S) /\ Len(r) = Len(s) + 1
      /\ \A i \in 1..Len(s) : r[i] = s[i]
      /\ r[Len(s) + 1] = v
  BY AppendProperties, LenProperties
<1> HIDE DEF r
<1>2. ASSUME NEW x \in ToSet(r)  PROVE x \in ToSet(s) \cup {v}
  <2>1. PICK i \in 1..Len(r) : r[i] = x
    BY <1>1, ToSetByIndex
  <2>2. CASE i = Len(s) + 1
    BY <2>1, <2>2, <1>1
  <2>3. CASE i # Len(s) + 1
    <3>1. i \in 1..Len(s) /\ s[i] = x
      BY <2>1, <2>3, <1>1
    <3>2. QED  BY <3>1, ToSetByIndex
  <2>4. QED  BY <2>2, <2>3
<1>3. ASSUME NEW x \in ToSet(s)  PROVE x \in ToSet(r)
  <2>1. PICK i \in 1..Len(s) : s[i] = x
    BY ToSetByIndex
  <2>2. i \in 1..Len(r) /\ r[i] = x
    BY <2>1, <1>1
  <2>3. QED  BY <2>2, <1>1, ToSetByIndex
<1>4. v \in ToSet(r)
  <2>1. Len(s) + 1 \in 1..Len(r)
    BY <1>1
  <2>2. QED  BY <2>1, <1>1, ToSetByIndex
<1>5. ASSUME IsInjective(s), v \notin ToSet(s)  PROVE IsInjective(r)
  <2>1. \A i \in 1..Len(s) : s[i] # v
    BY <1>5, ToSetByIndex
  <2>2. \A i, j \in 1..Len(s) : s[i] = s[j] => i = j
    BY <1>5, LenProperties DEF IsInjective
  <2>3. DOMAIN r = 1..(Len(s) + 1)
    BY <1>1, LenProperties
  <2>4. SUFFICES ASSUME NEW i \in 1..(Len(s) + 1), NEW j \in 1..(Len(s) + 1),
                        r[i] = r[j]
                 PROVE  i = j
    BY <2>3 DEF IsInjective
  <2>5. QED  BY <1>1, <2>1, <2>2, <2>4
<1>6. QED  BY <1>1, <1>2, <1>3, <1>4, <1>5 DEF r

(* The positions of an erased vector are those of the old one, one less. *)
LEMMA RemoveAtIndex ==
    ASSUME NEW S, NEW s \in Seq(S), NEW i \in 1..Len(s)
    PROVE  /\ RemoveAt(s, i) \in Seq(S)
           /\ Len(RemoveAt(s, i)) = Len(s) - 1
           /\ \A j \in 1..(Len(s) - 1) :
                 RemoveAt(s, i)[j] = IF j < i THEN s[j] ELSE s[j + 1]
<1> DEFINE front == SubSeq(s, 1, i - 1)
           back == SubSeq(s, i + 1, Len(s))
<1>0. Len(s) \in Nat
  BY LenProperties
<1>1. front \in Seq(S) /\ Len(front) = i - 1
      /\ \A j \in 1..(i - 1) : front[j] = s[j]
  OBVIOUS
<1>2. back \in Seq(S) /\ Len(back) = Len(s) - i
      /\ \A j \in 1..(Len(s) - i) : back[j] = s[j + i]
  OBVIOUS
<1>3. RemoveAt(s, i) = front \o back
  BY DEF RemoveAt
<1> HIDE DEF front, back
<1>4. /\ front \o back \in Seq(S)
      /\ Len(front \o back) = Len(front) + Len(back)
      /\ \A j \in 1..(Len(front) + Len(back)) :
            (front \o back)[j] = IF j <= Len(front) THEN front[j]
                                 ELSE back[j - Len(front)]
  BY <1>1, <1>2, ConcatProperties
<1>5. ASSUME NEW j \in 1..(Len(s) - 1)
      PROVE  (front \o back)[j] = IF j < i THEN s[j] ELSE s[j + 1]
  <2>1. CASE j < i
    BY <2>1, <1>0, <1>1, <1>2, <1>4
  <2>2. CASE j >= i
    <3>1. j - (i - 1) \in 1..(Len(s) - i) /\ ~(j <= i - 1) /\ j - (i - 1) + i = j + 1
      BY <2>2, <1>0
    <3>2. back[j - (i - 1)] = s[j + 1]
      BY <3>1, <1>2
    <3>3. QED  BY <2>2, <3>1, <3>2, <1>0, <1>1, <1>2, <1>4
  <2>3. j < i \/ j >= i
    BY <1>0
  <2>4. QED  BY <2>1, <2>2, <2>3
<1>6. QED  BY <1>0, <1>1, <1>2, <1>3, <1>4, <1>5

(* Erasing from a vector without repetitions takes out just that element. *)
LEMMA RemoveAtElements ==
    ASSUME NEW S, NEW s \in Seq(S), NEW i \in DOMAIN s
    PROVE  /\ RemoveAt(s, i) \in Seq(S) /\ s[i] \in ToSet(s)
           /\ ToSet(RemoveAt(s, i)) \subseteq ToSet(s)
           /\ IsInjective(s) => /\ ToSet(RemoveAt(s, i)) = ToSet(s) \ {s[i]}
                                /\ IsInjective(RemoveAt(s, i))
<1> DEFINE r == RemoveAt(s, i)
<1>0. Len(s) \in Nat /\ DOMAIN s = 1..Len(s) /\ i \in 1..Len(s)
  BY LenProperties
<1>1. /\ r \in Seq(S) /\ Len(r) = Len(s) - 1
      /\ \A j \in 1..(Len(s) - 1) : r[j] = IF j < i THEN s[j] ELSE s[j + 1]
  BY <1>0, RemoveAtIndex
<1> HIDE DEF r
<1>2. DOMAIN r = 1..(Len(s) - 1)
  BY <1>1, LenProperties
<1>3. ASSUME NEW k \in 1..Len(s), k # i  PROVE s[k] \in ToSet(r)
  <2>1. CASE k < i
    <3>1. k \in 1..Len(r) /\ r[k] = s[k]
      BY <1>0, <1>1, <2>1
    <3>2. QED  BY <3>1, <1>1, ToSetByIndex
  <2>2. CASE k > i
    <3>1. k - 1 \in 1..Len(r) /\ r[k - 1] = s[k]
      BY <1>0, <1>1, <2>2
    <3>2. QED  BY <3>1, <1>1, ToSetByIndex
  <2>3. QED  BY <1>0, <1>3, <2>1, <2>2
<1>4. ASSUME NEW x \in ToSet(r)
      PROVE  \E k \in 1..Len(s) : k # i /\ s[k] = x
  <2>1. PICK j \in 1..Len(r) : r[j] = x
    BY <1>1, ToSetByIndex
  <2>2. CASE j < i
    <3>1. j \in 1..Len(s) /\ j # i /\ s[j] = x
      BY <2>1, <2>2, <1>0, <1>1
    <3>2. QED  BY <3>1
  <2>3. CASE ~(j < i)
    <3>1. j + 1 \in 1..Len(s) /\ j + 1 # i /\ s[j + 1] = x
      BY <2>1, <2>3, <1>0, <1>1
    <3>2. QED  BY <3>1
  <2>4. QED  BY <2>2, <2>3
<1>5. ToSet(r) \subseteq ToSet(s)
  BY <1>4, ToSetByIndex
<1>6. s[i] \in ToSet(s)
  BY <1>0, ToSetByIndex
<1>7. ASSUME IsInjective(s)
      PROVE  ToSet(r) = ToSet(s) \ {s[i]} /\ IsInjective(r)
  <2>1. \A j, k \in 1..Len(s) : s[j] = s[k] => j = k
    BY <1>7, <1>0 DEF IsInjective
  <2>2. s[i] \notin ToSet(r)
    BY <2>1, <1>0, <1>4
  <2>3. ASSUME NEW x \in ToSet(s), x # s[i]  PROVE x \in ToSet(r)
    <3>1. PICK k \in 1..Len(s) : s[k] = x
      BY ToSetByIndex
    <3>2. QED  BY <3>1, <2>3, <1>3
  <2>4. IsInjective(r)
    <3> SUFFICES ASSUME NEW j \in 1..(Len(s) - 1), NEW k \in 1..(Len(s) - 1),
                        r[j] = r[k]
                 PROVE  j = k
      BY <1>2 DEF IsInjective
    <3>1. QED  BY <1>0, <1>1, <2>1
  <2>5. QED  BY <2>2, <2>3, <2>4, <1>5
<1>8. QED  BY <1>1, <1>5, <1>6, <1>7 DEF r
=============================================================================
