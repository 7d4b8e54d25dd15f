--------------------------- MODULE DeliveryProofs ----------------------------
(***************************************************************************)
(* Both task queues deliver the ids that are enqueued once as TaskDelivery *)
(* does.  SchedulerProofs shows it of every step of the in-memory queue    *)
(* and RedisTaskQueueProofs of the Redis one, given what OfDistinct does   *)
(* when the list it is taken from grows or shrinks; this module shows that *)
(* by counting the distinct ids of a list, position by position.  It ends  *)
(* with the counting both attempt limits rest on, and with the types of    *)
(* both queues and the lock.                                               *)
(***************************************************************************)
EXTENDS MCScheduler, RedisTaskQueueProofs, SequenceTheorems, FiniteSetTheorems,
        NaturalsInduction, WellFoundedInduction

-----------------------------------------------------------------------------
\* A set of natural numbers has a least element.
LEMMA LeastOf ==
    ASSUME NEW S, S \subseteq Nat, S # {}
    PROVE  \E m \in S : \A x \in S : m <= x
<1>1. PICK m \in S : \A x \in S : ~(<<x, m>> \in OpToRel(<, Nat))
  BY NatLessThanWellFounded, WFMin, Zenon
<1>2. \A x \in S : ~(x < m)
  BY <1>1, Zenon DEF OpToRel
<1> QED BY <1>2

\* The number of distinct ids among the first n, one position at a time.
LEMMA CountStep ==
    ASSUME NEW ids, NEW n \in Nat
    PROVE  /\ IsFiniteSet(DistinctUpTo(ids, n))
           /\ Cardinality(DistinctUpTo(ids, n)) \in Nat
           /\ Cardinality(DistinctUpTo(ids, 0)) = 0
           /\ Cardinality(DistinctUpTo(ids, n + 1)) =
                 IF ids[n + 1] \in Repeated THEN Cardinality(DistinctUpTo(ids, n))
                                            ELSE Cardinality(DistinctUpTo(ids, n)) + 1
<1>1. IsFiniteSet(1 .. n) /\ DistinctUpTo(ids, n) \in SUBSET (1 .. n)
  BY FS_Interval DEF DistinctUpTo
<1>2. IsFiniteSet(DistinctUpTo(ids, n))
  BY <1>1, FS_Subset, Zenon
<1>3. Cardinality(DistinctUpTo(ids, n)) \in Nat
  BY <1>2, FS_CardinalityType, Zenon
<1>4. Cardinality(DistinctUpTo(ids, 0)) = 0
  <2>1. DistinctUpTo(ids, 0) = {}
    BY DEF DistinctUpTo
  <2> QED BY <2>1, FS_EmptySet, Zenon
<1>5. CASE ids[n + 1] \in Repeated
  <2>1. DistinctUpTo(ids, n + 1) = DistinctUpTo(ids, n)
    BY <1>5 DEF DistinctUpTo
  <2> QED BY <1>2, <1>3, <1>4, <1>5, <2>1, Zenon
<1>6. CASE ids[n + 1] \notin Repeated
  <2>1. DistinctUpTo(ids, n + 1) = DistinctUpTo(ids, n) \cup {n + 1}
    BY <1>6 DEF DistinctUpTo
  <2>2. n + 1 \notin DistinctUpTo(ids, n)
    BY DEF DistinctUpTo
  <2>3. Cardinality(DistinctUpTo(ids, n) \cup {n + 1}) = Cardinality(DistinctUpTo(ids, n)) + 1
    BY <1>2, <2>2, FS_AddElement, Zenon
  <2> QED BY <1>2, <1>3, <1>4, <1>6, <2>1, <2>3, Zenon
<1> QED BY <1>5, <1>6, Zenon

\* The count never falls, and a distinct id is the only position of its count.
LEMMA CountGrows ==
    ASSUME NEW ids, NEW m \in Nat, NEW n \in Nat
    PROVE  /\ m <= n => Cardinality(DistinctUpTo(ids, m)) <= Cardinality(DistinctUpTo(ids, n))
           /\ m < n /\ ids[n] \notin Repeated =>
                 Cardinality(DistinctUpTo(ids, m)) < Cardinality(DistinctUpTo(ids, n))
<1>1. ASSUME NEW p \in Nat, m <= p
      PROVE  Cardinality(DistinctUpTo(ids, m)) <= Cardinality(DistinctUpTo(ids, p))
  <2>1. DistinctUpTo(ids, m) \in SUBSET DistinctUpTo(ids, p)
    BY <1>1 DEF DistinctUpTo
  <2> QED BY <2>1, CountStep, FS_Subset, Zenon
<1>2. ASSUME m < n, ids[n] \notin Repeated
      PROVE  Cardinality(DistinctUpTo(ids, m)) < Cardinality(DistinctUpTo(ids, n))
  <2>1. PICK p \in Nat : n = p + 1 /\ m <= p
    <3>1. n - 1 \in Nat /\ n = (n - 1) + 1 /\ m <= n - 1
      BY <1>2
    <3> QED BY <3>1, Zenon
  <2>2. Cardinality(DistinctUpTo(ids, p + 1)) = Cardinality(DistinctUpTo(ids, p)) + 1
    BY <1>2, <2>1, CountStep, Zenon
  <2>3. Cardinality(DistinctUpTo(ids, m)) \in Nat /\ Cardinality(DistinctUpTo(ids, p)) \in Nat
    BY CountStep, Zenon
  <2> QED BY <1>1, <2>1, <2>2, <2>3
<1> QED BY <1>1, <1>2, Zenon

\* Every count up to the last one is reached at a distinct id, and at one only.
LEMMA CountReached ==
    ASSUME NEW ids, NEW n \in Nat, NEW j \in 1 .. Cardinality(DistinctUpTo(ids, n))
    PROVE  \E k \in DistinctUpTo(ids, n) : Cardinality(DistinctUpTo(ids, k)) = j
<1> DEFINE Count(k) == Cardinality(DistinctUpTo(ids, k))
           Enough == {k \in 0 .. n : j <= Count(k)}
<1>1. Enough \subseteq Nat /\ n \in Enough
  <2>1. Count(n) \in Nat
    BY CountStep, Zenon
  <2> QED BY <2>1
<1>2. PICK k \in Enough : \A x \in Enough : k <= x
  BY <1>1, LeastOf, Zenon
<1>3. k \in Nat /\ k <= n /\ Count(k) \in Nat /\ j <= Count(k) /\ j \in Nat /\ 1 <= j
  BY <1>1, <1>2, CountStep
<1>4. k # 0
  BY <1>3, CountStep
<1>5. PICK p \in Nat : k = p + 1
  <2>1. k - 1 \in Nat /\ k = (k - 1) + 1
    BY <1>3, <1>4
  <2> QED BY <2>1, Zenon
<1>6. ~(j <= Count(p)) /\ Count(p) \in Nat
  <2>1. p \in 0 .. n /\ ~(k <= p)
    BY <1>3, <1>5
  <2>2. p \notin Enough
    BY <1>2, <2>1, Zenon
  <2>3. Count(p) \in Nat
    BY CountStep, Zenon
  <2> QED BY <2>1, <2>2, <2>3, Zenon
<1>7. ids[k] \notin Repeated /\ Count(k) = Count(p) + 1
  <2>1. Count(k) = IF ids[k] \in Repeated THEN Count(p) ELSE Count(p) + 1
    BY <1>5, CountStep, Zenon
  <2> QED BY <1>3, <1>6, <2>1, Zenon
<1>8. Count(k) = j
  <2> HIDE DEF Count
  <2> QED BY <1>3, <1>6, <1>7
<1>9. k \in DistinctUpTo(ids, n)
  BY <1>3, <1>4, <1>7 DEF DistinctUpTo
<1> QED BY <1>8, <1>9, Zenon

\* What OfDistinct holds: the distinct ids of the list, in their order.
LEMMA OfDistinctIs ==
    ASSUME NEW ids \in Seq(Tasks)
    PROVE  /\ OfDistinct(ids) \in Seq(Tasks)
           /\ Len(OfDistinct(ids)) = Cardinality(DistinctUpTo(ids, Len(ids)))
           /\ \A k \in DistinctUpTo(ids, Len(ids)) :
                 /\ Cardinality(DistinctUpTo(ids, k)) \in 1 .. Len(OfDistinct(ids))
                 /\ OfDistinct(ids)[Cardinality(DistinctUpTo(ids, k))] = ids[k]
<1> DEFINE Count(k) == Cardinality(DistinctUpTo(ids, k))
           Until == DistinctUpTo(ids, Len(ids))
<1>1. Len(ids) \in Nat /\ Count(Len(ids)) \in Nat
  BY CountStep
<1>2. Until \subseteq DOMAIN ids /\ Until \subseteq Nat
  BY DEF DistinctUpTo
<1>3. \A n \in 1 .. Count(Len(ids)) : \E k \in Until : Count(k) = n
  BY <1>1, CountReached, Zenon
<1>4. \A n \in 1 .. Count(Len(ids)) : OfDistinct(ids)[n] = ids[CHOOSE k \in Until : Count(k) = n]
  BY Zenon DEF OfDistinct
<1>5. OfDistinct(ids) \in [1 .. Count(Len(ids)) -> Tasks]
  <2>1. ASSUME NEW n \in 1 .. Count(Len(ids)) PROVE ids[CHOOSE k \in Until : Count(k) = n] \in Tasks
    <3>1. (CHOOSE k \in Until : Count(k) = n) \in DOMAIN ids
      BY <1>2, <1>3, Zenon
    <3> QED BY <3>1
  <2> QED BY <2>1, Zenon DEF OfDistinct
<1>6. OfDistinct(ids) \in Seq(Tasks) /\ Len(OfDistinct(ids)) = Count(Len(ids))
  <2> HIDE DEF Count
  <2> QED BY <1>1, <1>5
<1>7. ASSUME NEW k \in Until
      PROVE  Count(k) \in 1 .. Count(Len(ids)) /\ OfDistinct(ids)[Count(k)] = ids[k]
  <2>1. k \in Nat /\ 0 < k /\ k <= Len(ids) /\ ids[k] \notin Repeated
    BY <1>1 DEF DistinctUpTo
  <2>2. Count(k) \in Nat /\ Count(0) = 0 /\ Count(0) < Count(k) /\ Count(k) <= Count(Len(ids))
    BY <1>1, <2>1, CountStep, CountGrows, Zenon
  <2>3. Count(k) \in 1 .. Count(Len(ids))
    <3> HIDE DEF Count
    <3> QED BY <1>1, <2>2
  <2>4. ASSUME NEW l \in Until, Count(l) = Count(k) PROVE l = k
    <3>1. l \in Nat /\ ids[l] \notin Repeated
      BY DEF DistinctUpTo
    <3>2. ~(l < k) /\ ~(k < l)
      <4>1. l < k => Count(l) < Count(k)
        BY <2>1, <3>1, CountGrows, Zenon
      <4>2. k < l => Count(k) < Count(l)
        BY <2>1, <3>1, CountGrows, Zenon
      <4>3. Count(l) \in Nat
        BY <3>1, CountStep, Zenon
      <4> QED BY <2>2, <2>4, <4>1, <4>2, <4>3
    <3> QED BY <2>1, <3>1, <3>2
  <2>5. (CHOOSE l \in Until : Count(l) = Count(k)) = k
    BY <2>4, Zenon
  <2> QED BY <1>4, <2>3, <2>5, Zenon
<1> QED BY <1>6, <1>7, Zenon

\* A distinct id at the end of the list is at the end of its part.
LEMMA OfDistinctAppend ==
    ASSUME NEW ids \in Seq(Tasks), NEW t \in Tasks
    PROVE  OfDistinct(Append(ids, t)) =
              IF t \in Repeated THEN OfDistinct(ids) ELSE Append(OfDistinct(ids), t)
<1> DEFINE longer == Append(ids, t)
           n == Len(ids)
           Count(k) == Cardinality(DistinctUpTo(ids, k))
<1>1. /\ longer \in Seq(Tasks) /\ Len(longer) = n + 1 /\ n \in Nat /\ longer[n + 1] = t
      /\ \A k \in 1 .. n : longer[k] = ids[k]
  OBVIOUS
<1>2. \A k \in 0 .. n : DistinctUpTo(longer, k) = DistinctUpTo(ids, k)
  BY <1>1 DEF DistinctUpTo
<1>3. Cardinality(DistinctUpTo(longer, n + 1)) = IF t \in Repeated THEN Count(n) ELSE Count(n) + 1
  <2>1. DistinctUpTo(longer, n) = DistinctUpTo(ids, n)
    BY <1>1, <1>2
  <2> QED BY <1>1, <2>1, CountStep, Zenon
<1>4. Count(n) \in Nat /\ Len(OfDistinct(ids)) = Count(n) /\ OfDistinct(ids) \in Seq(Tasks)
  BY <1>1, CountStep, OfDistinctIs, Zenon
<1>5. /\ OfDistinct(longer) \in Seq(Tasks)
      /\ Len(OfDistinct(longer)) = IF t \in Repeated THEN Count(n) ELSE Count(n) + 1
  BY <1>1, <1>3, OfDistinctIs, Zenon
<1>6. ASSUME NEW j \in 1 .. Count(n) PROVE OfDistinct(longer)[j] = OfDistinct(ids)[j]
  <2>1. PICK k \in DistinctUpTo(ids, n) : Count(k) = j
    BY <1>1, CountReached, Zenon
  <2>2. k \in 1 .. n /\ k \in DistinctUpTo(longer, n + 1)
    BY <1>1, <2>1 DEF DistinctUpTo
  <2>3. Cardinality(DistinctUpTo(longer, k)) = j
    BY <1>2, <2>1, <2>2
  <2>4. OfDistinct(longer)[j] = longer[k]
    BY <1>1, <2>2, <2>3, OfDistinctIs, Zenon
  <2>5. OfDistinct(ids)[j] = ids[k]
    BY <2>1, OfDistinctIs, Zenon
  <2> QED BY <1>1, <2>2, <2>4, <2>5, Zenon
<1>7. t \notin Repeated => OfDistinct(longer)[Count(n) + 1] = t
  <2> SUFFICES ASSUME t \notin Repeated PROVE OfDistinct(longer)[Count(n) + 1] = t
    BY Zenon
  <2>1. n + 1 \in DistinctUpTo(longer, n + 1)
    BY <1>1 DEF DistinctUpTo
  <2>2. OfDistinct(longer)[Cardinality(DistinctUpTo(longer, n + 1))] = longer[n + 1]
    BY <1>1, <2>1, OfDistinctIs, Zenon
  <2> QED BY <1>1, <1>3, <2>2, Zenon
<1> HIDE DEF Count, longer, n
<1>8. CASE t \in Repeated
  <2>1. OfDistinct(longer) = OfDistinct(ids)
    BY <1>4, <1>5, <1>6, <1>8, SeqEqual, Zenon
  <2> QED BY <1>8, <2>1, Zenon DEF longer
<1>9. CASE t \notin Repeated
  <2>1. /\ Append(OfDistinct(ids), t) \in Seq(Tasks)
        /\ Len(Append(OfDistinct(ids), t)) = Count(n) + 1
        /\ Append(OfDistinct(ids), t)[Count(n) + 1] = t
        /\ \A j \in 1 .. Count(n) : Append(OfDistinct(ids), t)[j] = OfDistinct(ids)[j]
    BY <1>4
  <2>2. \A j \in 1 .. Count(n) + 1 : OfDistinct(longer)[j] = Append(OfDistinct(ids), t)[j]
    <3>1. \A j \in 1 .. Count(n) + 1 : j \in 1 .. Count(n) \/ j = Count(n) + 1
      BY <1>4
    <3> QED BY <1>6, <1>7, <1>9, <2>1, <3>1, Zenon
  <2>3. OfDistinct(longer) = Append(OfDistinct(ids), t)
    BY <1>5, <1>9, <2>1, <2>2, SeqEqual, Zenon
  <2> QED BY <1>9, <2>3, Zenon DEF longer
<1> QED BY <1>8, <1>9, Zenon

\* The count of a list without its first id.
LEMMA CountTail ==
    ASSUME NEW ids \in Seq(Tasks), ids # <<>>, NEW k \in 0 .. Len(ids) - 1
    PROVE  Cardinality(DistinctUpTo(ids, k + 1)) =
              Cardinality(DistinctUpTo(Tail(ids), k)) + (IF Head(ids) \in Repeated THEN 0 ELSE 1)
<1> DEFINE rest == Tail(ids)
           Count(x) == Cardinality(DistinctUpTo(ids, x))
           Rest(x) == Cardinality(DistinctUpTo(rest, x))
           first == IF Head(ids) \in Repeated THEN 0 ELSE 1
           Wrong == {x \in 0 .. Len(ids) - 1 : Count(x + 1) # Rest(x) + first}
<1>1. /\ Len(ids) \in Nat /\ Len(ids) >= 1 /\ ids[1] = Head(ids)
      /\ \A x \in Nat : x + 1 \in 1 .. Len(ids) - 1 => rest[x + 1] = ids[(x + 1) + 1]
  OBVIOUS
<1>2. SUFFICES ASSUME Wrong # {} PROVE FALSE
  BY Zenon
<1>3. Wrong \subseteq Nat
  BY <1>1
<1>4. PICK x \in Wrong : \A y \in Wrong : x <= y
  BY <1>2, <1>3, LeastOf, Zenon
<1>5. x # 0
  <2>1. Count(0) = 0 /\ Rest(0) = 0
    BY CountStep, Zenon
  <2>2. Count(0 + 1) = IF ids[0 + 1] \in Repeated THEN Count(0) ELSE Count(0) + 1
    BY CountStep, Zenon
  <2>3. ids[0 + 1] = Head(ids)
    BY <1>1
  <2>4. Count(0 + 1) = Rest(0) + first
    BY <2>1, <2>2, <2>3
  <2> QED BY <1>4, <2>4, Zenon
<1>6. PICK p \in Nat : x = p + 1
  <2>1. x - 1 \in Nat /\ x = (x - 1) + 1
    BY <1>3, <1>4, <1>5
  <2> QED BY <2>1, Zenon
<1>7. p \in 0 .. Len(ids) - 1 /\ p \notin Wrong
  BY <1>1, <1>4, <1>6
<1>8. Count(p + 1) = Rest(p) + first
  BY <1>7, Zenon
<1>9. /\ Count((p + 1) + 1) = IF ids[(p + 1) + 1] \in Repeated THEN Count(p + 1) ELSE Count(p + 1) + 1
      /\ Rest(p + 1) = IF rest[p + 1] \in Repeated THEN Rest(p) ELSE Rest(p) + 1
      /\ Rest(p) \in Nat
  <2> HIDE DEF rest
  <2>1. \A z \in Nat : Count(z + 1) = IF ids[z + 1] \in Repeated THEN Count(z) ELSE Count(z) + 1
    BY CountStep, Zenon
  <2>2. \A z \in Nat :
           /\ Rest(z + 1) = IF rest[z + 1] \in Repeated THEN Rest(z) ELSE Rest(z) + 1
           /\ Rest(z) \in Nat
    BY CountStep, Zenon
  <2> HIDE DEF Count, Rest
  <2>3. p + 1 \in Nat
    OBVIOUS
  <2>4. Count((p + 1) + 1) = IF ids[(p + 1) + 1] \in Repeated THEN Count(p + 1) ELSE Count(p + 1) + 1
    BY <2>1, <2>3, Zenon
  <2> QED BY <2>2, <2>4, Zenon
<1>10. rest[p + 1] = ids[(p + 1) + 1]
  BY <1>1, <1>4, <1>6
<1>11. Count((p + 1) + 1) = Rest(p + 1) + first
  <2> HIDE DEF Count, Rest, rest
  <2> QED BY <1>8, <1>9, <1>10
<1> QED BY <1>4, <1>6, <1>11, Zenon

\* A distinct id at the front of the list is at the front of its part.
LEMMA OfDistinctTail ==
    ASSUME NEW ids \in Seq(Tasks), ids # <<>>
    PROVE  /\ Head(ids) \in Repeated => OfDistinct(Tail(ids)) = OfDistinct(ids)
           /\ Head(ids) \notin Repeated =>
                 /\ OfDistinct(ids) # <<>>
                 /\ Head(OfDistinct(ids)) = Head(ids)
                 /\ OfDistinct(Tail(ids)) = Tail(OfDistinct(ids))
<1> DEFINE rest == Tail(ids)
           n == Len(ids)
           Count(x) == Cardinality(DistinctUpTo(ids, x))
           Rest(x) == Cardinality(DistinctUpTo(rest, x))
           first == IF Head(ids) \in Repeated THEN 0 ELSE 1
<1>1. /\ rest \in Seq(Tasks) /\ n \in Nat /\ n >= 1 /\ Len(rest) = n - 1 /\ ids[1] = Head(ids)
      /\ n - 1 \in Nat /\ n = (n - 1) + 1
      /\ \A x \in 1 .. n - 1 : rest[x] = ids[x + 1]
  OBVIOUS
<1>2. \A x \in 0 .. n - 1 : Count(x + 1) = Rest(x) + first
  BY CountTail, Zenon
<1>3. Count(n) = Rest(n - 1) + first /\ Rest(n - 1) \in Nat /\ Count(n) \in Nat
  <2>1. n - 1 \in 0 .. n - 1
    BY <1>1
  <2>2. Count((n - 1) + 1) = Rest(n - 1) + first
    BY <1>2, <2>1, Zenon
  <2>3. Rest(n - 1) \in Nat /\ Count(n) \in Nat
    BY <1>1, CountStep, Zenon
  <2> QED BY <1>1, <2>2, <2>3, Zenon
<1>4. /\ OfDistinct(ids) \in Seq(Tasks) /\ Len(OfDistinct(ids)) = Count(n)
      /\ OfDistinct(rest) \in Seq(Tasks) /\ Len(OfDistinct(rest)) = Rest(n - 1)
  BY <1>1, OfDistinctIs, Zenon
<1>5. ASSUME NEW j \in 1 .. Rest(n - 1)
      PROVE  OfDistinct(rest)[j] = OfDistinct(ids)[j + first]
  <2>1. PICK k \in DistinctUpTo(rest, n - 1) : Rest(k) = j
    BY <1>1, CountReached, Zenon
  <2>2. k \in 1 .. n - 1 /\ rest[k] = ids[k + 1] /\ rest[k] \notin Repeated
    BY <1>1, <2>1, Zenon DEF DistinctUpTo
  <2>3. k + 1 \in DistinctUpTo(ids, n)
    BY <1>1, <2>2 DEF DistinctUpTo
  <2>4. Count(k + 1) = j + first
    BY <1>2, <2>1, <2>2
  <2>5. OfDistinct(ids)[j + first] = ids[k + 1]
    BY <2>3, <2>4, OfDistinctIs
  <2>6. OfDistinct(rest)[j] = rest[k]
    BY <1>1, <2>1, OfDistinctIs, Zenon
  <2> QED BY <2>2, <2>5, <2>6, Zenon
<1>6. Head(ids) \notin Repeated => OfDistinct(ids)[1] = Head(ids)
  <2> SUFFICES ASSUME Head(ids) \notin Repeated PROVE OfDistinct(ids)[1] = Head(ids)
    BY Zenon
  <2>1. 1 \in DistinctUpTo(ids, n)
    BY <1>1 DEF DistinctUpTo
  <2>2. Count(0 + 1) = 1
    <3>1. Count(0 + 1) = IF ids[0 + 1] \in Repeated THEN Count(0) ELSE Count(0) + 1
      BY CountStep, Zenon
    <3>2. Count(0) = 0
      BY CountStep, Zenon
    <3> QED BY <1>1, <3>1, <3>2
  <2> QED BY <1>1, <2>1, <2>2, OfDistinctIs
<1>7. Head(ids) \in Repeated => first = 0
  BY Zenon
<1>8. Head(ids) \notin Repeated => first = 1
  BY Zenon
<1> HIDE DEF Count, Rest, rest, n, first
<1>9. CASE Head(ids) \in Repeated
  <2>1. Len(OfDistinct(ids)) = Len(OfDistinct(rest))
    BY <1>3, <1>4, <1>7, <1>9
  <2>2. \A j \in 1 .. Len(OfDistinct(rest)) : OfDistinct(rest)[j] = OfDistinct(ids)[j]
    <3>1. \A j \in 1 .. Rest(n - 1) : j + 0 = j
      BY <1>3
    <3> QED BY <1>4, <1>5, <1>7, <1>9, <3>1
  <2>3. OfDistinct(rest) = OfDistinct(ids)
    BY <1>4, <2>1, <2>2, SeqEqual, Zenon
  <2> QED BY <1>9, <2>3, Zenon DEF rest
<1>10. CASE Head(ids) \notin Repeated
  <2>1. Len(OfDistinct(ids)) = Rest(n - 1) + 1
    BY <1>3, <1>4, <1>8, <1>10, Zenon
  <2>2. OfDistinct(ids) # <<>>
    BY <1>3, <1>4, <2>1
  <2>3. /\ Tail(OfDistinct(ids)) \in Seq(Tasks)
        /\ Len(Tail(OfDistinct(ids))) = Rest(n - 1)
        /\ \A j \in 1 .. Rest(n - 1) : Tail(OfDistinct(ids))[j] = OfDistinct(ids)[j + 1]
    BY <1>3, <1>4, <2>1, <2>2, HeadTailProperties
  <2>4. \A j \in 1 .. Rest(n - 1) : OfDistinct(rest)[j] = Tail(OfDistinct(ids))[j]
    BY <1>5, <1>8, <1>10, <2>3, Zenon
  <2>5. OfDistinct(rest) = Tail(OfDistinct(ids))
    BY <1>4, <2>3, <2>4, SeqEqual, Zenon
  <2>6. Head(OfDistinct(ids)) = Head(ids)
    BY <1>4, <1>6, <1>10, <2>2
  <2> QED BY <1>10, <2>2, <2>5, <2>6, Zenon DEF rest
<1> QED BY <1>9, <1>10, Zenon

\* The part of an empty list is empty.
LEMMA EmptyOfDistinct == OfDistinct(<<>>) = <<>>
<1>1. <<>> \in Seq(Tasks) /\ Len(<<>>) = 0
  OBVIOUS
<1>2. Cardinality(DistinctUpTo(<<>>, 0)) = 0
  BY CountStep, Zenon
<1>3. OfDistinct(<<>>) \in Seq(Tasks) /\ Len(OfDistinct(<<>>)) = 0
  <2>1. /\ OfDistinct(<<>>) \in Seq(Tasks)
        /\ Len(OfDistinct(<<>>)) = Cardinality(DistinctUpTo(<<>>, Len(<<>>)))
    BY <1>1, OfDistinctIs, Zenon
  <2> QED BY <1>1, <1>2, <2>1, Zenon
<1> QED BY <1>3, EmptySeq, Zenon

\* The part holds ids of the list only.
LEMMA OfDistinctFrom ==
    ASSUME NEW ids \in Seq(Tasks), NEW j \in DOMAIN OfDistinct(ids)
    PROVE  \E k \in DOMAIN ids : ids[k] \notin Repeated /\ OfDistinct(ids)[j] = ids[k]
<1>1. j \in 1 .. Cardinality(DistinctUpTo(ids, Len(ids))) /\ Len(ids) \in Nat
  BY OfDistinctIs
<1>2. PICK k \in DistinctUpTo(ids, Len(ids)) : Cardinality(DistinctUpTo(ids, k)) = j
  BY <1>1, CountReached, Zenon
<1>3. k \in DOMAIN ids /\ ids[k] \notin Repeated
  BY <1>2 DEF DistinctUpTo
<1>4. OfDistinct(ids)[j] = ids[k]
  BY <1>2, OfDistinctIs, Zenon
<1> QED BY <1>3, <1>4, Zenon

\* OfDistinct follows the list, whatever ids are repeated.
LEMMA OfDistinctFollows == FollowsList
<1>1. OfDistinct(<<>>) = <<>>
  BY EmptyOfDistinct, Zenon
<1>2. \A ids \in Seq(Tasks) : \A t \in Tasks :
         OfDistinct(Append(ids, t)) =
             IF t \in Repeated THEN OfDistinct(ids) ELSE Append(OfDistinct(ids), t)
  BY OfDistinctAppend, Zenon
<1>3. \A ids \in Seq(Tasks) : ids # <<>> =>
         /\ Head(ids) \in Repeated => OfDistinct(Tail(ids)) = OfDistinct(ids)
         /\ Head(ids) \notin Repeated =>
               /\ OfDistinct(ids) # <<>>
               /\ Head(OfDistinct(ids)) = Head(ids)
               /\ OfDistinct(Tail(ids)) = Tail(OfDistinct(ids))
  BY OfDistinctTail, Zenon
<1>4. \A ids \in Seq(Tasks) : \A j \in DOMAIN OfDistinct(ids) :
         \E k \in DOMAIN ids : ids[k] \notin Repeated /\ OfDistinct(ids)[j] = ids[k]
  BY OfDistinctFrom, Zenon
<1> QED BY <1>1, <1>2, <1>3, <1>4, Zenon DEF FollowsList

-----------------------------------------------------------------------------
\* For the ids enqueued once, InMemoryTaskQueue's enqueue, dequeue, ack and nack,
\* called by any number of workers of which any may die, implement the FIFO delivery
\* service with its retry limit, whatever happens to ids that are enqueued twice.
THEOREM QueueDelivers == Spec => ImplementsDelivery
<1>1. Init => Delivery!DInit
  BY InitDelivery, OfDistinctFollows, Zenon
<1>2. QueueInv /\ [Next]_vars => [Delivery!DNext]_Delivery!dvars
  BY NextDelivery, OfDistinctFollows, Zenon
<1> QED BY <1>1, <1>2, AlwaysQueue, PTL DEF Spec, ImplementsDelivery, Delivery!DSpec

\* For the ids enqueued once, RedisTaskQueue's unguarded commands, interleaved in any
\* way by any number of callers of which any may die between two commands, implement
\* the FIFO delivery service with its retry limit, whatever happens to ids that are
\* enqueued twice.
THEOREM RedisQueueDelivers == RedisSpec => RedisImplementsDelivery
<1>1. RedisInit => RedisDelivery!DInit
  BY InitRedisDelivery, OfDistinctFollows, Zenon
<1>2. RedisInv /\ Counted /\ Counted' /\ [RedisNext]_redisVars =>
         [RedisDelivery!DNext]_RedisDelivery!dvars
  BY NextRedisDelivery, OfDistinctFollows, Zenon
<1>3. RedisInv => Counted
  BY AlwaysCounted, Zenon
<1> QED BY <1>1, <1>2, <1>3, AlwaysRedis, PTL
        DEF RedisSpec, RedisImplementsDelivery, RedisDelivery!DSpec

-----------------------------------------------------------------------------
(* Copies of an id in a list.                                              *)

\* They are finitely many.
LEMMA PlaceNumber ==
    ASSUME NEW ids \in Seq(Tasks), NEW t
    PROVE  IsFiniteSet(Places(ids, t)) /\ Cardinality(Places(ids, t)) \in Nat
<1>1. DOMAIN ids = 1 .. Len(ids) /\ Len(ids) \in Nat
  OBVIOUS
<1>2. IsFiniteSet(DOMAIN ids)
  BY <1>1, FS_Interval
<1>3. Places(ids, t) \in SUBSET DOMAIN ids
  BY Zenon DEF Places
<1> QED BY <1>2, <1>3, FS_Subset, FS_CardinalityType, Zenon

\* An id appended gets one more place.
LEMMA PlaceAppended ==
    ASSUME NEW ids \in Seq(Tasks), NEW x \in Tasks, NEW t
    PROVE  /\ x = t => Cardinality(Places(Append(ids, x), t)) = Cardinality(Places(ids, t)) + 1
           /\ x # t => Cardinality(Places(Append(ids, x), t)) = Cardinality(Places(ids, t))
<1> DEFINE n == Len(ids) + 1
           longer == Append(ids, x)
<1>1. DOMAIN longer = (1 .. Len(ids)) \cup {n} /\ DOMAIN ids = 1 .. Len(ids) /\ n \notin DOMAIN ids
      /\ longer[n] = x /\ \A k \in DOMAIN ids : longer[k] = ids[k]
  OBVIOUS
<1> HIDE DEF n, longer
<1>2. n \notin Places(ids, t)
  BY <1>1, Zenon DEF Places
<1>3. /\ x = t => Places(longer, t) = Places(ids, t) \cup {n}
      /\ x # t => Places(longer, t) = Places(ids, t)
  BY <1>1, Zenon DEF Places
<1>4. IsFiniteSet(Places(ids, t)) /\ Cardinality(Places(ids, t)) \in Nat
  BY PlaceNumber, Zenon
<1>5. Cardinality(Places(ids, t) \cup {n}) = Cardinality(Places(ids, t)) + 1
  BY <1>2, <1>4, FS_AddElement, Zenon
<1>6. /\ x = t => Cardinality(Places(longer, t)) = Cardinality(Places(ids, t)) + 1
      /\ x # t => Cardinality(Places(longer, t)) = Cardinality(Places(ids, t))
  BY <1>3, <1>5, Zenon
<1> QED BY <1>6, Zenon DEF longer

\* The id taken from the head loses one place; no other id does.
LEMMA PlaceTaken ==
    ASSUME NEW ids \in Seq(Tasks), ids # <<>>, NEW t
    PROVE  /\ Head(ids) = t => Cardinality(Places(ids, t)) = Cardinality(Places(Tail(ids), t)) + 1
           /\ Head(ids) # t => Cardinality(Places(ids, t)) = Cardinality(Places(Tail(ids), t))
<1> DEFINE rest == Tail(ids)
           later == Places(ids, t) \ {1}
           next == [k \in Places(rest, t) |-> k + 1]
<1>1. /\ rest \in Seq(Tasks) /\ DOMAIN ids = 1 .. Len(ids) /\ Len(ids) \in Nat /\ Len(ids) >= 1
      /\ DOMAIN rest = 1 .. Len(ids) - 1 /\ ids[1] = Head(ids)
      /\ \A k \in 1 .. Len(ids) - 1 : rest[k] = ids[k + 1]
  OBVIOUS
<1> HIDE DEF rest
<1>2. \A k \in Places(rest, t) : k \in Nat /\ k + 1 \in later
  BY <1>1 DEF Places
<1>3. ASSUME NEW j \in later PROVE j - 1 \in Places(rest, t) /\ next[j - 1] = j
  <2>1. j \in 2 .. Len(ids) /\ ids[j] = t
    BY <1>1 DEF Places
  <2>2. j - 1 \in 1 .. Len(ids) - 1 /\ (j - 1) + 1 = j
    BY <1>1, <2>1
  <2>3. rest[j - 1] = t
    BY <1>1, <2>1, <2>2, Zenon
  <2>4. j - 1 \in Places(rest, t)
    BY <1>1, <2>2, <2>3, Zenon DEF Places
  <2> QED BY <2>2, <2>4, Zenon
<1>4. next \in Bijection(Places(rest, t), later)
  <2>1. next \in [Places(rest, t) -> later]
    BY <1>2, Zenon
  <2>2. \A a, b \in Places(rest, t) : next[a] = next[b] => a = b
    BY <1>2
  <2>3. \A j \in later : \E k \in Places(rest, t) : next[k] = j
    BY <1>3, Zenon
  <2> HIDE DEF next, later
  <2> QED BY <2>1, <2>2, <2>3, Zenon DEF Bijection, Injection, Surjection, IsInjective
<1>5. IsFiniteSet(Places(rest, t)) /\ IsFiniteSet(Places(ids, t)) /\ Cardinality(Places(ids, t)) \in Nat
  BY <1>1, PlaceNumber, Zenon
<1>6. Cardinality(later) = Cardinality(Places(rest, t))
  <2>1. ExistsBijection(Places(rest, t), later)
    BY <1>4, Zenon DEF ExistsBijection
  <2> HIDE DEF later
  <2> QED BY <1>5, <2>1, FS_Bijection, Zenon
<1>7. 1 \in Places(ids, t) <=> Head(ids) = t
  BY <1>1 DEF Places
<1>8. Cardinality(later) = IF Head(ids) = t THEN Cardinality(Places(ids, t)) - 1 ELSE Cardinality(Places(ids, t))
  BY <1>5, <1>7, FS_RemoveElement, Zenon
<1>9. Cardinality(later) \in Nat
  BY <1>1, <1>6, PlaceNumber, Zenon
<1>10. /\ Head(ids) = t => Cardinality(Places(ids, t)) = Cardinality(Places(rest, t)) + 1
       /\ Head(ids) # t => Cardinality(Places(ids, t)) = Cardinality(Places(rest, t))
  <2> HIDE DEF later
  <2> QED BY <1>5, <1>6, <1>8, <1>9
<1> QED BY <1>10, Zenon DEF rest

\* How the cardinality of a set changes when one element enters or leaves it.
LEMMA ElementMoves ==
    ASSUME NEW S, NEW T, NEW w, IsFiniteSet(S), \A v : v # w => (v \in S <=> v \in T)
    PROVE  /\ IsFiniteSet(T) /\ Cardinality(S) \in Nat /\ Cardinality(T) \in Nat
           /\ (w \in S <=> w \in T) => Cardinality(T) = Cardinality(S)
           /\ w \in S /\ w \notin T => Cardinality(S) = Cardinality(T) + 1
           /\ w \notin S /\ w \in T => Cardinality(T) = Cardinality(S) + 1
<1>1. Cardinality(S) \in Nat
  BY FS_CardinalityType, Zenon
<1>2. CASE w \in S <=> w \in T
  <2>1. S = T
    BY <1>2
  <2> QED BY <1>1, <2>1, Zenon
<1>3. CASE w \in S /\ w \notin T
  <2>1. T = S \ {w}
    BY <1>3, Zenon
  <2>2. IsFiniteSet(T) /\ Cardinality(T) = Cardinality(S) - 1 /\ Cardinality(T) \in Nat
    BY <1>3, <2>1, FS_RemoveElement, FS_CardinalityType, Zenon
  <2> QED BY <1>1, <1>3, <2>2
<1>4. CASE w \notin S /\ w \in T
  <2>1. T = S \cup {w}
    BY <1>4, Zenon
  <2>2. IsFiniteSet(T) /\ Cardinality(T) = Cardinality(S) + 1
    BY <1>4, <2>1, FS_AddElement, Zenon
  <2> QED BY <1>1, <1>4, <2>2
<1> QED BY <1>2, <1>3, <1>4, Zenon

\* What the queues' proofs take from counting.
LEMMA Counting == CountingFacts
<1>1. IsFiniteSet({}) /\ Cardinality({}) = 0
  BY FS_EmptySet, Zenon
<1>2. ASSUME NEW S, NEW T, IsFiniteSet(S), \A w : w \in T => w \in S
      PROVE  IsFiniteSet(T) /\ Cardinality(T) \in Nat /\ Cardinality(T) <= Cardinality(S)
  <2>1. T \in SUBSET S
    BY <1>2, Zenon
  <2> QED BY <1>2, <2>1, FS_Subset, FS_CardinalityType, Zenon
<1>3. ASSUME NEW S, NEW T, NEW w, IsFiniteSet(S), \A v : v # w => (v \in S <=> v \in T)
      PROVE  /\ IsFiniteSet(T) /\ Cardinality(S) \in Nat /\ Cardinality(T) \in Nat
             /\ (w \in S <=> w \in T) => Cardinality(T) = Cardinality(S)
             /\ w \in S /\ w \notin T => Cardinality(S) = Cardinality(T) + 1
             /\ w \notin S /\ w \in T => Cardinality(T) = Cardinality(S) + 1
  BY <1>3, ElementMoves, Zenon
<1>4. ASSUME NEW ids \in Seq(Tasks), NEW t
      PROVE  IsFiniteSet(Places(ids, t)) /\ Cardinality(Places(ids, t)) \in Nat
  BY <1>4, PlaceNumber, Zenon
<1>5. ASSUME NEW ids \in Seq(Tasks), NEW t, NEW x \in Tasks
      PROVE  /\ x = t => Cardinality(Places(Append(ids, x), t)) = Cardinality(Places(ids, t)) + 1
             /\ x # t => Cardinality(Places(Append(ids, x), t)) = Cardinality(Places(ids, t))
  BY <1>5, PlaceAppended, Zenon
<1>6. ASSUME NEW ids \in Seq(Tasks), NEW t, ids # <<>>
      PROVE  /\ Head(ids) = t => Cardinality(Places(ids, t)) = Cardinality(Places(Tail(ids), t)) + 1
             /\ Head(ids) # t => Cardinality(Places(ids, t)) = Cardinality(Places(Tail(ids), t))
  BY <1>6, PlaceTaken, Zenon
<1> QED BY <1>1, <1>2, <1>3, <1>4, <1>5, <1>6, Zenon DEF CountingFacts

-----------------------------------------------------------------------------
(* The two queues and the lock side by side.                               *)

SchedulerInv == QueueInv /\ CopiesInv /\ RedisInv /\ RedisCopiesInv /\ LockInv

\* Both queues and the lock keep the types of their state for any tasks, workers, clients and
\* max_retries; in particular no item counts more than max_retries attempts, or one more
\* when its id was enqueued twice, however the Redis commands of its copies interleave.
THEOREM SchedulerTyped == SchedulerSpec => []SchedulerTypeOK
<1>1. SchedulerInit => SchedulerInv
  BY Counting, InitQueue, InitCopies, InitRedis, InitRedisCopies, InitLock, Zenon DEF SchedulerInit, SchedulerInv
<1>2. SchedulerInv /\ [SchedulerNext]_schedulerVars => SchedulerInv'
  <2>1. [SchedulerNext]_schedulerVars => [Next]_vars /\ [RedisNext]_redisVars /\ [LockNext]_lockVars
    BY Zenon DEF SchedulerNext, schedulerVars
  <2>2. (QueueInv => QueueTypes) /\ (RedisInv => RedisTypes)
    BY Zenon DEF QueueInv, RedisInv
  <2> QED BY <2>1, <2>2, Counting, NextQueue, NextCopies, NextRedis, NextRedisCopies, NextLock, Zenon DEF SchedulerInv
<1>3. SchedulerInv => SchedulerTypeOK
  BY Counting, QueueTyped, RedisTyped, Zenon DEF SchedulerInv, SchedulerTypeOK, LockInv
<1> QED BY <1>1, <1>2, <1>3, PTL DEF SchedulerSpec
=============================================================================
