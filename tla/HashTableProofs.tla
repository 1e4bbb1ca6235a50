-------------------------- MODULE HashTableProofs --------------------------
(***************************************************************************)
(* Proofs about HashTable: a search always ends, every key in a slot is    *)
(* found, and the table is a set.                                          *)
(***************************************************************************)
EXTENDS HashTable, NumberTheorems

-----------------------------------------------------------------------------
(* The inductive invariant, for an array d of n slots with the counters l  *)
(* and f.                                                                  *)

KeySlots(d) == {i \in DOMAIN d : d[i] \in Keys}
FreeSlots(d) == {i \in DOMAIN d : d[i] = FREE}

Array(d, n) == n \in Nat /\ d \in [0 .. n - 1 -> Keys \cup {FREE, TOMBSTONE}]

\* A table has no slots or a power of two that is a multiple of four.
Capacity(n) == n = 0 \/ \E c \in 2 .. StatusBits : n = 2 ^ c

\* A key is in one slot at most ...
Distinct(d) == \A i, j \in DOMAIN d : d[i] \in Keys /\ d[i] = d[j] => i = j

\* ... and on the way from the slot of its hash to its own no slot is free.
Passed(d, n, h, i) == \A j \in 0 .. i - 1 : d[(h + j) % n] # FREE

Paths(d, n) ==
  \A s \in DOMAIN d : d[s] \in Keys =>
    \E i \in 0 .. n - 1 : (HashOf[d[s]] + i) % n = s /\ Passed(d, n, HashOf[d[s]], i)

Counted(d, n, l, f) ==
  /\ l = Cardinality(KeySlots(d))
  /\ f \in Nat /\ f <= Cardinality(FreeSlots(d)) /\ f >= n \div 4

Sound(d, n, l, f) ==
  /\ Array(d, n) /\ Capacity(n)
  /\ Distinct(d) /\ Paths(d, n)
  /\ Counted(d, n, l, f)

HashInv == \E n \in Nat : Sound(data, n, len, free)

-----------------------------------------------------------------------------
(* Arrays.                                                                 *)

\* The slots of an array.
LEMMA ArraySlots ==
  ASSUME NEW d, NEW n, Array(d, n)
  PROVE  /\ n \in Nat /\ DOMAIN d = 0 .. n - 1 /\ Slots(d) = n
         /\ \A i \in 0 .. n - 1 : d[i] \in Keys \cup {FREE, TOMBSTONE}
         /\ IsFiniteSet(KeySlots(d)) /\ Cardinality(KeySlots(d)) \in Nat
         /\ IsFiniteSet(FreeSlots(d)) /\ Cardinality(FreeSlots(d)) \in Nat
<1>1. /\ n \in Nat /\ DOMAIN d = 0 .. n - 1
      /\ \A i \in 0 .. n - 1 : d[i] \in Keys \cup {FREE, TOMBSTONE}
  BY DEF Array
<1>2. IsFiniteSet(0 .. n - 1) /\ Cardinality(0 .. n - 1) = n
  <2>1. 0 \in Int /\ n - 1 \in Int
    BY <1>1
  <2>2. /\ IsFiniteSet(0 .. n - 1)
        /\ Cardinality(0 .. n - 1) = IF 0 > n - 1 THEN 0 ELSE (n - 1) - 0 + 1
    BY <2>1, FS_Interval
  <2> QED BY <1>1, <2>2
<1>3. KeySlots(d) \in SUBSET (0 .. n - 1) /\ FreeSlots(d) \in SUBSET (0 .. n - 1)
  BY <1>1 DEF KeySlots, FreeSlots
<1>4. IsFiniteSet(KeySlots(d)) /\ IsFiniteSet(FreeSlots(d))
  BY <1>2, <1>3, FS_Subset
<1> QED BY <1>1, <1>2, <1>4, FS_CardinalityType DEF Slots

\* Positions are slots.
LEMMA PositionInRange ==
  ASSUME NEW n \in Nat, n > 0, NEW a \in Nat PROVE a % n \in 0 .. n - 1
OBVIOUS

\* Keys are neither FREE nor TOMBSTONE, hashes are numbers.
LEMMA KeyFacts == ASSUME NEW k \in Keys PROVE k # FREE /\ k # TOMBSTONE /\ HashOf[k] \in Nat
BY TableAssumption

\* A slot that holds k after a way without free slots.
PutAt(d, n, k, i, s, e) ==
  /\ Array(d, n) /\ n > 0 /\ Distinct(d) /\ Paths(d, n)
  /\ k \in Keys /\ k \notin Items(d)
  /\ i \in 0 .. n - 1 /\ Passed(d, n, HashOf[k], i)
  /\ s = (HashOf[k] + i) % n /\ d[s] \notin Keys
  /\ e = [d EXCEPT ![s] = k]

\* Writing a key there keeps the keys distinct and all of them reachable.
LEMMA PutKeeps ==
  ASSUME NEW d, NEW n, NEW k, NEW i, NEW s, NEW e, PutAt(d, n, k, i, s, e)
  PROVE  /\ Array(e, n) /\ Distinct(e) /\ Paths(e, n)
         /\ Items(e) = Items(d) \cup {k}
         /\ s \in 0 .. n - 1
         /\ KeySlots(e) = KeySlots(d) \cup {s} /\ s \notin KeySlots(d)
         /\ FreeSlots(e) = FreeSlots(d) \ {s}
<1>1. /\ n \in Nat /\ n > 0 /\ DOMAIN d = 0 .. n - 1 /\ k \in Keys /\ k # FREE /\ HashOf[k] \in Nat
      /\ i \in 0 .. n - 1 /\ s = (HashOf[k] + i) % n /\ k \notin Items(d) /\ d[s] \notin Keys
      /\ e = [d EXCEPT ![s] = k]
  BY ArraySlots, KeyFacts DEF PutAt
<1>2. s \in 0 .. n - 1
  <2>1. PICK a : a = HashOf[k] + i
    OBVIOUS
  <2>2. a \in Nat
    BY <1>1, <2>1
  <2> QED BY <1>1, <2>1, <2>2, PositionInRange
<1>3. DOMAIN e = 0 .. n - 1 /\ e[s] = k /\ \A j \in 0 .. n - 1 : j # s => e[j] = d[j]
  BY <1>1, <1>2
<1>4. \A j \in DOMAIN d : d[j] # k
  BY <1>1 DEF Items
<1>5. Array(e, n)
  <2>1. d \in [0 .. n - 1 -> Keys \cup {FREE, TOMBSTONE}]
    BY DEF PutAt, Array
  <2> QED BY <1>1, <2>1 DEF Array
<1>6. Distinct(e)
  <2> SUFFICES ASSUME NEW x \in 0 .. n - 1, NEW y \in 0 .. n - 1, e[x] \in Keys, e[x] = e[y]
               PROVE  x = y
    BY <1>3 DEF Distinct
  <2> QED BY <1>1, <1>3, <1>4 DEF PutAt, Distinct
<1>7. ASSUME NEW h \in Nat, NEW m \in Nat, Passed(d, n, h, m) PROVE Passed(e, n, h, m)
  <2> SUFFICES ASSUME NEW j \in 0 .. m - 1 PROVE e[(h + j) % n] # FREE
    BY DEF Passed
  <2>1. PICK p : p = (h + j) % n
    OBVIOUS
  <2>2. p \in 0 .. n - 1
    <3>1. PICK a : a = h + j
      OBVIOUS
    <3>2. a \in Nat
      BY <3>1
    <3> QED BY <1>1, <2>1, <3>1, <3>2, PositionInRange
  <2>3. d[p] # FREE
    BY <1>7, <2>1 DEF Passed
  <2>4. e[p] # FREE
    BY <1>1, <1>3, <2>2, <2>3
  <2> QED BY <2>1, <2>4
<1>8. Paths(e, n)
  <2> SUFFICES ASSUME NEW x \in 0 .. n - 1, e[x] \in Keys
               PROVE  \E j \in 0 .. n - 1 : (HashOf[e[x]] + j) % n = x /\ Passed(e, n, HashOf[e[x]], j)
    BY <1>3 DEF Paths
  <2>1. CASE x = s
    <3>1. Passed(e, n, HashOf[k], i)
      <4>1. i \in Nat /\ Passed(d, n, HashOf[k], i)
        BY <1>1 DEF PutAt
      <4> QED BY <1>1, <1>7, <4>1
    <3> QED BY <1>1, <1>3, <2>1, <3>1
  <2>2. CASE x # s
    <3>1. e[x] = d[x] /\ d[x] \in Keys
      BY <1>3, <2>2
    <3>2. PICK j \in 0 .. n - 1 : (HashOf[d[x]] + j) % n = x /\ Passed(d, n, HashOf[d[x]], j)
      BY <1>1, <3>1 DEF PutAt, Paths
    <3>3. HashOf[d[x]] \in Nat /\ j \in Nat
      BY <3>1, KeyFacts
    <3>4. Passed(e, n, HashOf[d[x]], j)
      BY <1>7, <3>2, <3>3
    <3> QED BY <3>1, <3>2, <3>4
  <2> QED BY <2>1, <2>2
<1>9. Items(e) = Items(d) \cup {k}
  <2>1. ASSUME NEW x \in Items(e) PROVE x \in Items(d) \cup {k}
    BY <1>1, <1>3 DEF Items
  <2>2. ASSUME NEW x \in Items(d) PROVE x \in Items(e)
    <3>1. PICK j \in 0 .. n - 1 : x = d[j] /\ x \in Keys
      BY <1>1 DEF Items
    <3>2. j # s
      BY <1>1, <3>1
    <3>3. e[j] = x
      BY <1>3, <3>1, <3>2
    <3> QED BY <1>3, <3>1, <3>3 DEF Items
  <2>3. k \in Items(e)
    BY <1>1, <1>2, <1>3 DEF Items
  <2> QED BY <2>1, <2>2, <2>3
<1>10. KeySlots(e) = KeySlots(d) \cup {s} /\ s \notin KeySlots(d)
  BY <1>1, <1>2, <1>3 DEF KeySlots
<1>11. FreeSlots(e) = FreeSlots(d) \ {s}
  BY <1>1, <1>2, <1>3 DEF FreeSlots
<1> QED BY <1>2, <1>5, <1>6, <1>8, <1>9, <1>10, <1>11

-----------------------------------------------------------------------------
(* Searching.                                                              *)

\* A free slot ends every search.
LEMMA EndsExist ==
  ASSUME NEW d, NEW n, Array(d, n), NEW s \in FreeSlots(d), NEW h \in Nat
  PROVE  n > 0 /\ \E i \in 0 .. n - 1 : (h + i) % n = s /\ d[(h + i) % n] = FREE
<1>1. n \in Nat /\ s \in 0 .. n - 1 /\ d[s] = FREE
  BY ArraySlots DEF FreeSlots
<1>2. n > 0
  BY <1>1
<1> QED BY <1>1, <1>2, EveryPosition

\* Where a search ends, and what it passes.
LEMMA EndFacts ==
  ASSUME NEW d, NEW n, Array(d, n), NEW k \in Keys, FreeSlots(d) # {}
  PROVE  /\ n > 0 /\ Ends(d, k) # {} /\ Min(Ends(d, k)) \in 0 .. n - 1
         /\ End(d, k) = (HashOf[k] + Min(Ends(d, k))) % n
         /\ End(d, k) \in 0 .. n - 1
         /\ d[End(d, k)] \in {k, FREE}
         /\ \A j \in 0 .. n - 1 : j < Min(Ends(d, k)) =>
              d[(HashOf[k] + j) % n] # k /\ d[(HashOf[k] + j) % n] # FREE
<1>1. n \in Nat /\ DOMAIN d = 0 .. n - 1 /\ Slots(d) = n /\ HashOf[k] \in Nat
  BY ArraySlots, KeyFacts
<1>2. Ends(d, k) = {i \in 0 .. n - 1 : d[(HashOf[k] + i) % n] \in {k, FREE}}
  BY <1>1 DEF Ends, Visit
<1>3. n > 0 /\ Ends(d, k) # {}
  <2>1. PICK s : s \in FreeSlots(d)
    OBVIOUS
  <2>2. n > 0 /\ \E i \in 0 .. n - 1 : d[(HashOf[k] + i) % n] = FREE
    BY <1>1, <2>1, EndsExist
  <2> QED BY <1>2, <2>2
<1>4. Ends(d, k) \in SUBSET Nat
  BY <1>2
<1>5. Min(Ends(d, k)) \in Ends(d, k) /\ \A j \in Ends(d, k) : Min(Ends(d, k)) <= j
  BY <1>3, <1>4, MinNatural
<1>6. PICK m : m = Min(Ends(d, k))
  OBVIOUS
<1>7. m \in 0 .. n - 1 /\ d[(HashOf[k] + m) % n] \in {k, FREE}
  BY <1>2, <1>5, <1>6
<1>8. End(d, k) = (HashOf[k] + m) % n
  BY <1>1, <1>6 DEF End, Visit
<1>9. End(d, k) \in 0 .. n - 1
  <2>1. PICK a : a = HashOf[k] + m
    OBVIOUS
  <2>2. a \in Nat
    BY <1>1, <1>7, <2>1
  <2> QED BY <1>1, <1>3, <1>8, <2>1, <2>2, PositionInRange
<1>10. ASSUME NEW j \in 0 .. n - 1, j < m
       PROVE  d[(HashOf[k] + j) % n] # k /\ d[(HashOf[k] + j) % n] # FREE
  <2>1. j \notin Ends(d, k)
    BY <1>5, <1>6, <1>7, <1>10
  <2> QED BY <1>2, <2>1
<1> QED BY <1>3, <1>6, <1>7, <1>8, <1>9, <1>10

\* A search finds exactly the keys in the slots.
LEMMA SearchFinds ==
  ASSUME NEW d, NEW n, Array(d, n), Paths(d, n), NEW k \in Keys, FreeSlots(d) # {}
  PROVE  d[End(d, k)] = k <=> k \in Items(d)
<1>1. /\ n > 0 /\ Min(Ends(d, k)) \in 0 .. n - 1
      /\ End(d, k) = (HashOf[k] + Min(Ends(d, k))) % n
      /\ End(d, k) \in 0 .. n - 1 /\ d[End(d, k)] \in {k, FREE}
      /\ \A j \in 0 .. n - 1 : j < Min(Ends(d, k)) => d[(HashOf[k] + j) % n] # k
  BY EndFacts
<1>2. DOMAIN d = 0 .. n - 1 /\ k # FREE /\ n \in Nat
  BY ArraySlots, KeyFacts
<1>3. ASSUME d[End(d, k)] = k PROVE k \in Items(d)
  BY <1>1, <1>2, <1>3 DEF Items
<1>4. ASSUME k \in Items(d) PROVE d[End(d, k)] = k
  <2>1. PICK s \in 0 .. n - 1 : d[s] = k
    BY <1>2, <1>4 DEF Items
  <2>2. PICK i \in 0 .. n - 1 : (HashOf[k] + i) % n = s /\ Passed(d, n, HashOf[k], i)
    BY <1>2, <2>1 DEF Paths
  <2>3. PICK m : m = Min(Ends(d, k))
    OBVIOUS
  <2>4. m <= i
    BY <1>1, <1>2, <2>1, <2>2, <2>3
  <2>5. CASE m = i
    BY <1>1, <2>1, <2>2, <2>3, <2>5
  <2>6. CASE m < i
    <3>1. m \in 0 .. i - 1
      BY <1>1, <1>2, <2>3, <2>6
    <3>2. d[(HashOf[k] + m) % n] # FREE
      BY <2>2, <3>1 DEF Passed
    <3> QED BY <1>1, <2>3, <3>2
  <2> QED BY <1>1, <1>2, <2>3, <2>4, <2>5, <2>6
<1> QED BY <1>3, <1>4

-----------------------------------------------------------------------------
(* Removing. The slot becomes free only if the next one is free: the way   *)
(* of any other key through it would come to a free slot.                  *)

RemoveAt(d, n, s, v, e) ==
  /\ Array(d, n) /\ n > 0 /\ Distinct(d) /\ Paths(d, n)
  /\ s \in 0 .. n - 1 /\ d[s] \in Keys
  /\ v = IF d[(s + 1) % n] = FREE THEN FREE ELSE TOMBSTONE
  /\ e = [d EXCEPT ![s] = v]

\* Removing a key keeps the other ones reachable.
LEMMA RemoveKeeps ==
  ASSUME NEW d, NEW n, NEW s, NEW v, NEW e, RemoveAt(d, n, s, v, e)
  PROVE  /\ Array(e, n) /\ Distinct(e) /\ Paths(e, n)
         /\ Items(e) = Items(d) \ {d[s]}
         /\ KeySlots(e) = KeySlots(d) \ {s} /\ s \in KeySlots(d)
         /\ FreeSlots(e) = (IF v = FREE THEN FreeSlots(d) \cup {s} ELSE FreeSlots(d))
         /\ s \notin FreeSlots(d)
<1>1. /\ n \in Nat /\ n > 0 /\ DOMAIN d = 0 .. n - 1 /\ s \in 0 .. n - 1 /\ d[s] \in Keys
      /\ e = [d EXCEPT ![s] = v] /\ v \in {FREE, TOMBSTONE} /\ d[s] # FREE
      /\ FREE \notin Keys /\ TOMBSTONE \notin Keys /\ FREE # TOMBSTONE
  BY ArraySlots, KeyFacts, TableAssumption DEF RemoveAt
<1>2. DOMAIN e = 0 .. n - 1 /\ e[s] = v /\ \A j \in 0 .. n - 1 : j # s => e[j] = d[j]
  BY <1>1
<1>3. Array(e, n)
  <2>1. d \in [0 .. n - 1 -> Keys \cup {FREE, TOMBSTONE}]
    BY DEF RemoveAt, Array
  <2> QED BY <1>1, <2>1 DEF Array
<1>4. Distinct(e)
  <2> SUFFICES ASSUME NEW x \in 0 .. n - 1, NEW y \in 0 .. n - 1, e[x] \in Keys, e[x] = e[y]
               PROVE  x = y
    BY <1>2 DEF Distinct
  <2> QED BY <1>1, <1>2 DEF RemoveAt, Distinct
<1>5. Paths(e, n)
  <2> SUFFICES ASSUME NEW x \in 0 .. n - 1, e[x] \in Keys
               PROVE  \E i \in 0 .. n - 1 : (HashOf[e[x]] + i) % n = x /\ Passed(e, n, HashOf[e[x]], i)
    BY <1>2 DEF Paths
  <2>1. x # s /\ e[x] = d[x] /\ d[x] \in Keys
    BY <1>1, <1>2
  <2>2. PICK k, h : k = d[x] /\ h = HashOf[k]
    OBVIOUS
  <2>3. k \in Keys /\ h \in Nat /\ k # FREE
    BY <2>1, <2>2, KeyFacts
  <2>4. PICK i \in 0 .. n - 1 : (h + i) % n = x /\ Passed(d, n, h, i)
    BY <1>1, <2>1, <2>2 DEF RemoveAt, Paths
  <2>5. ASSUME NEW j \in 0 .. i - 1 PROVE e[(h + j) % n] # FREE
    <3>1. PICK a, p : a = h + j /\ p = a % n
      OBVIOUS
    <3>2. a \in Nat /\ p \in 0 .. n - 1 /\ j \in 0 .. n - 1
      <4>1. a \in Nat /\ j \in 0 .. n - 1
        <5>1. n \in Nat /\ h \in Nat
          BY <1>1, <2>3
        <5>2. j \in 0 .. n - 1
          BY <5>1
        <5> QED BY <3>1, <5>1, <5>2
      <4> QED BY <1>1, <3>1, <4>1, PositionInRange
    <3>3. d[p] # FREE
      BY <2>4, <3>1 DEF Passed
    <3>4. CASE p # s
      BY <1>2, <3>1, <3>2, <3>3, <3>4
    <3>5. CASE p = s
      <4>1. PICK b : b = j + 1
        OBVIOUS
      <4>2. (h + b) % n = (s + 1) % n
        <5>1. (a + 1) % n = ((a % n) + 1) % n
          BY <1>1, <3>2, NextPosition
        <5>2. h + b = a + 1
          BY <2>3, <3>1, <4>1
        <5> QED BY <3>1, <3>5, <5>1, <5>2
      <4>3. d[(h + b) % n] # FREE
        <5>1. CASE b = i
          BY <2>2, <2>3, <2>4, <5>1
        <5>2. CASE b # i
          <6>1. b \in 0 .. i - 1
            BY <1>1, <2>4, <4>1, <5>2
          <6> QED BY <2>4, <6>1 DEF Passed
        <5> QED BY <5>1, <5>2
      <4>4. v = TOMBSTONE
        BY <4>2, <4>3 DEF RemoveAt
      <4> QED BY <1>1, <1>2, <3>1, <3>5, <4>4
    <3> QED BY <3>4, <3>5
  <2>6. Passed(e, n, h, i)
    BY <2>5 DEF Passed
  <2> QED BY <2>1, <2>2, <2>4, <2>6
<1>6. Items(e) = Items(d) \ {d[s]}
  <2>1. ASSUME NEW x \in Items(e) PROVE x \in Items(d) \ {d[s]}
    <3>1. PICK j \in 0 .. n - 1 : x = e[j] /\ x \in Keys
      BY <1>2 DEF Items
    <3>2. j # s
      BY <1>1, <1>2, <3>1
    <3>3. x = d[j] /\ x # d[s]
      BY <1>1, <1>2, <3>1, <3>2 DEF RemoveAt, Distinct
    <3> QED BY <1>1, <3>1, <3>3 DEF Items
  <2>2. ASSUME NEW x \in Items(d), x # d[s] PROVE x \in Items(e)
    <3>1. PICK j \in 0 .. n - 1 : x = d[j] /\ x \in Keys
      BY <1>1 DEF Items
    <3>2. e[j] = x
      BY <1>2, <2>2, <3>1
    <3> QED BY <1>2, <3>1, <3>2 DEF Items
  <2> QED BY <2>1, <2>2
<1>7. KeySlots(e) = KeySlots(d) \ {s} /\ s \in KeySlots(d)
  BY <1>1, <1>2 DEF KeySlots
<1>8. FreeSlots(e) = (IF v = FREE THEN FreeSlots(d) \cup {s} ELSE FreeSlots(d))
  BY <1>1, <1>2 DEF FreeSlots
<1>9. s \notin FreeSlots(d)
  BY <1>1 DEF FreeSlots
<1> QED BY <1>3, <1>4, <1>5, <1>6, <1>7, <1>8, <1>9

-----------------------------------------------------------------------------
(* Capacities.                                                             *)

\* A table that is not empty has at least four slots, a multiple of four.
LEMMA CapacityFacts ==
  ASSUME NEW n, Capacity(n)
  PROVE  /\ n \in Nat
         /\ n # 0 => \E q \in Nat : q > 0 /\ n = 4 * q /\ n \div 4 = q
<1>1. CASE n = 0
  BY <1>1
<1>2. CASE n # 0
  <2>1. PICK c \in 2 .. StatusBits : n = 2 ^ c
    BY <1>2 DEF Capacity
  <2>2. 2 ^ 2 = 4
    <3>1. 2 ^ (0 + 1) = 2 * 2 ^ 0
      BY PowerStep
    <3>2. 2 ^ (1 + 1) = 2 * 2 ^ 1
      BY PowerStep
    <3>3. 0 + 1 = 1 /\ 1 + 1 = 2
      OBVIOUS
    <3> QED BY <3>1, <3>2, <3>3, PowerZero
  <2>3. c \in Nat /\ 2 \in Nat /\ 2 <= c
    BY TableAssumption
  <2>4. PICK q \in Nat : q > 0 /\ 2 ^ c = 2 ^ 2 * q
    BY <2>3, PowerDivides
  <2>5. n = 4 * q
    BY <2>1, <2>2, <2>4
  <2>6. n \div 4 = q /\ n \in Nat
    BY <2>5
  <2> QED BY <2>4, <2>5, <2>6
<1> QED BY <1>1, <1>2

\* A power of two that passes check_capacity and has four slots is a capacity.
LEMMA PowerIsCapacity ==
  ASSUME NEW c \in Nat, 2 ^ c >= 4, 2 ^ c <= 2 ^ StatusBits
  PROVE  Capacity(2 ^ c)
<1>1. StatusBits \in Nat /\ 2 ^ StatusBits \in Nat /\ 2 ^ c \in Nat
  BY TableAssumption, PowerStep
<1>2. c <= StatusBits
  <2> SUFFICES ASSUME c > StatusBits PROVE FALSE
    BY <1>1
  <2>1. PICK m \in Nat : m > 0 /\ 2 ^ c = 2 ^ StatusBits * m /\ (StatusBits < c => m >= 2)
    <3>1. StatusBits <= c
      BY <1>1
    <3> QED BY <1>1, <3>1, PowerDivides
  <2>2. m >= 2
    BY <1>1, <2>1
  <2>3. PICK p, q : p = 2 ^ StatusBits /\ q = 2 ^ c
    OBVIOUS
  <2>4. p \in Nat /\ q \in Nat /\ q = p * m /\ q <= p /\ p > 0
    <3>1. 2 ^ StatusBits > StatusBits
      BY <1>1, PowerAbove
    <3> QED BY <1>1, <2>1, <2>3, <3>1
  <2> HIDE <1>1, <2>1, <2>3
  <2> QED BY <2>2, <2>4
<1>3. c >= 2
  <2>1. 2 ^ (0 + 1) = 2 * 2 ^ 0 /\ 0 + 1 = 1
    BY PowerStep
  <2>2. 2 ^ 1 = 2 /\ 2 ^ 0 = 1
    BY <2>1, PowerZero
  <2>3. c # 0 /\ c # 1
    <3>1. ASSUME c = 0 PROVE FALSE
      BY <2>2, <3>1
    <3>2. ASSUME c = 1 PROVE FALSE
      BY <2>2, <3>2
    <3> QED BY <3>1, <3>2
  <2> QED BY <2>3
<1> QED BY <1>1, <1>2, <1>3 DEF Capacity

\* The capacity for r keys is a power of two and leaves a quarter free.
LEMMA NextCapacity ==
  ASSUME NEW r \in Nat, check_capacity(next_capacity(r))
  PROVE  /\ Capacity(next_capacity(r))
         /\ next_capacity(r) \in Nat
         /\ next_capacity(r) - r >= next_capacity(r) \div 4
         /\ r > 0 => next_capacity(r) > 0
<1>1. CASE r = 0
  <2>1. next_capacity(r) = 0
    BY <1>1 DEF next_capacity
  <2> QED BY <1>1, <2>1 DEF Capacity
<1>2. CASE r # 0
  <2> DEFINE t == (r * 4) \div 3
             E == {i \in 0 .. t : 2 ^ i >= t}
             P == next_power_of_two(t)
             cap == next_capacity(r)
  <2>1. t \in Nat /\ 3 * t >= 4 * r - 2
    OBVIOUS
  <2> HIDE DEF t
  <2>2. E \in SUBSET Nat /\ E # {}
    <3>1. 2 ^ t > t /\ 2 ^ t \in Nat
      BY <2>1, PowerAbove, PowerStep
    <3>2. t \in E
      BY <2>1, <3>1
    <3>3. E \subseteq Nat
      BY <2>1
    <3> HIDE DEF E
    <3> QED BY <3>2, <3>3
  <2>3. Min(E) \in E
    <3> HIDE DEF E
    <3> QED BY <2>2, MinNatural
  <2>4. PICK a \in Nat : P = 2 ^ a /\ P >= t
    <3>1. P = 2 ^ Min(E)
      BY DEF next_power_of_two
    <3>2. Min(E) \in Nat /\ 2 ^ Min(E) >= t
      BY <2>1, <2>3
    <3> QED BY <3>1, <3>2
  <2>5. PICK b \in Nat : MinCapacity = 2 ^ b /\ b >= 2
    BY TableAssumption
  <2>6. P \in Nat /\ MinCapacity \in Nat /\ MinCapacity >= 4
    <3>1. 2 ^ a \in Nat /\ 2 ^ b \in Nat
      BY PowerStep
    <3>2. Capacity(MinCapacity)
      BY TableAssumption DEF Capacity
    <3>3. MinCapacity # 0
      <4>1. 2 ^ b > b
        BY PowerAbove
      <4> QED BY <2>5, <4>1, <3>1
    <3>4. PICK q \in Nat : q > 0 /\ MinCapacity = 4 * q
      BY <3>2, <3>3, CapacityFacts
    <3> QED BY <2>4, <2>5, <3>1, <3>4
  <2> HIDE DEF P, E
  <2>7. cap = Max({P, MinCapacity})
    BY <1>2 DEF next_capacity, t, P
  <2>8. cap \in {P, MinCapacity} /\ cap >= P /\ cap >= MinCapacity
    <3>1. PICK b2 \in Nat : b2 = P + MinCapacity
      BY <2>6
    <3>2. {P, MinCapacity} \in SUBSET Nat /\ {P, MinCapacity} # {}
      BY <2>6
    <3>3. \A k \in {P, MinCapacity} : k <= b2
      BY <2>6, <3>1
    <3>4. /\ Max({P, MinCapacity}) \in {P, MinCapacity}
          /\ \A k \in {P, MinCapacity} : Max({P, MinCapacity}) >= k
      BY <3>2, <3>3, MaxNatural
    <3> QED BY <2>7, <3>4
  <2>9. cap \in Nat /\ cap >= 4 /\ cap >= t
    BY <2>1, <2>4, <2>6, <2>8
  <2>10. PICK c \in Nat : cap = 2 ^ c
    BY <2>4, <2>5, <2>8
  <2>11. Capacity(cap)
    <3>1. cap <= 2 ^ StatusBits
      BY DEF check_capacity
    <3> QED BY <2>9, <2>10, <3>1, PowerIsCapacity
  <2> HIDE DEF cap
  <2>12. PICK q \in Nat : cap = 4 * q /\ cap \div 4 = q
    BY <2>9, <2>11, CapacityFacts
  <2>13. cap - r >= q
    BY <2>1, <2>9, <2>12
  <2> QED BY <2>9, <2>11, <2>12, <2>13 DEF cap
<1> QED BY <1>1, <1>2

-----------------------------------------------------------------------------
(* Rehashing.                                                              *)

\* The hash bits in the status lead to the same slots as the hash.
LEMMA StatusLeadsToSlot ==
  ASSUME NEW n, Capacity(n), n > 0, NEW h \in Nat, NEW j \in Nat
  PROVE  (from_hash(h) + j) % n = (h + j) % n
<1>1. PICK c \in 2 .. StatusBits : n = 2 ^ c
  BY CapacityFacts DEF Capacity
<1>2. StatusBits \in Nat /\ c \in Nat /\ c <= StatusBits
  BY TableAssumption
<1>3. PICK m \in Nat : m > 0 /\ 2 ^ StatusBits = 2 ^ c * m
  BY <1>2, PowerDivides
<1>4. n \in Nat /\ 2 ^ StatusBits = n * m
  BY <1>1, <1>2, <1>3, PowerStep
<1>5. PICK M : M = 2 ^ StatusBits
  OBVIOUS
<1>6. PICK x, y : x = (h % M) + j /\ y = h + j
  OBVIOUS
<1>7. Cut(n, M, h, j, x, y)
  BY <1>3, <1>4, <1>5, <1>6 DEF Cut
<1>8. x % n = y % n
  BY <1>7, CutRemainder
<1> QED BY <1>5, <1>6, <1>8 DEF from_hash

\* A table without tombstones that takes one more key.
Placeable(d, n, k) ==
  /\ Array(d, n) /\ Capacity(n) /\ Distinct(d) /\ Paths(d, n)
  /\ k \in Keys /\ k \notin Items(d) /\ FreeSlots(d) # {}

\* Rehashing puts a key into the first free slot on its way.
LEMMA PlaceKeeps ==
  ASSUME NEW d, NEW n, NEW k, Placeable(d, n, k)
  PROVE  LET e == Place(d, k)
         IN  /\ Array(e, n) /\ Distinct(e) /\ Paths(e, n)
             /\ Items(e) = Items(d) \cup {k}
             /\ Cardinality(KeySlots(e)) = Cardinality(KeySlots(d)) + 1
             /\ Cardinality(FreeSlots(e)) = Cardinality(FreeSlots(d)) - 1
<1>1. /\ Array(d, n) /\ Capacity(n) /\ k \in Keys /\ FreeSlots(d) # {}
  BY DEF Placeable
<1>2. /\ n \in Nat /\ DOMAIN d = 0 .. n - 1 /\ Slots(d) = n
      /\ IsFiniteSet(KeySlots(d)) /\ Cardinality(KeySlots(d)) \in Nat
      /\ IsFiniteSet(FreeSlots(d)) /\ Cardinality(FreeSlots(d)) \in Nat
      /\ HashOf[k] \in Nat
  BY <1>1, ArraySlots, KeyFacts
<1> DEFINE F == {j \in 0 .. n - 1 : d[(HashOf[k] + j) % n] = FREE}
<1>3. n > 0 /\ F # {}
  <2>1. PICK s : s \in FreeSlots(d)
    BY <1>1
  <2>2. PICK h \in Nat : h = HashOf[k]
    BY <1>2
  <2>3. Array(d, n) /\ s \in FreeSlots(d)
    BY <1>1, <2>1
  <2>4. n > 0 /\ \E i \in 0 .. n - 1 : (h + i) % n = s /\ d[(h + i) % n] = FREE
    BY <2>3, EndsExist
  <2> QED BY <2>2, <2>4
<1>4. ASSUME NEW j \in 0 .. n - 1
      PROVE  Visit(d, from_hash(HashOf[k]), j) = (HashOf[k] + j) % n
  <2>1. j \in Nat
    OBVIOUS
  <2> QED BY <1>1, <1>2, <1>3, <2>1, StatusLeadsToSlot DEF Visit
<1>5. {j \in DOMAIN d : d[Visit(d, from_hash(HashOf[k]), j)] = FREE} = F
  BY <1>2, <1>4
<1>6. F \in SUBSET Nat
  OBVIOUS
<1> HIDE DEF F
<1>7. PICK i : i = Min(F)
  OBVIOUS
<1>8. i \in F /\ \A j \in F : i <= j
  BY <1>3, <1>6, <1>7, MinNatural
<1>9. i \in 0 .. n - 1
  BY <1>8 DEF F
<1>10. PICK s : s = (HashOf[k] + i) % n
  OBVIOUS
<1>11. d[s] = FREE /\ s \in 0 .. n - 1
  <2>1. d[s] = FREE
    BY <1>8, <1>10 DEF F
  <2>2. PICK a : a = HashOf[k] + i
    OBVIOUS
  <2>3. a \in Nat
    BY <1>2, <1>9, <2>2
  <2> QED BY <1>2, <1>3, <1>10, <2>1, <2>2, <2>3, PositionInRange
<1>12. Place(d, k) = [d EXCEPT ![s] = k]
  BY <1>4, <1>5, <1>7, <1>9, <1>10 DEF Place
<1>13. Passed(d, n, HashOf[k], i)
  <2> SUFFICES ASSUME NEW j \in 0 .. i - 1 PROVE d[(HashOf[k] + j) % n] # FREE
    BY DEF Passed
  <2>1. j \in 0 .. n - 1 /\ j < i
    BY <1>2, <1>9
  <2>2. j \notin F
    BY <1>8, <1>9, <2>1
  <2> QED BY <2>1, <2>2 DEF F
<1>14. PICK e : e = Place(d, k)
  OBVIOUS
<1>15. FREE \notin Keys
  BY TableAssumption
<1>16. PutAt(d, n, k, i, s, e)
  BY <1>3, <1>9, <1>10, <1>11, <1>12, <1>13, <1>14, <1>15 DEF PutAt, Placeable
<1>17. /\ Array(e, n) /\ Distinct(e) /\ Paths(e, n) /\ Items(e) = Items(d) \cup {k}
       /\ KeySlots(e) = KeySlots(d) \cup {s} /\ s \notin KeySlots(d)
       /\ FreeSlots(e) = FreeSlots(d) \ {s}
  BY <1>16, PutKeeps
<1>18. s \in FreeSlots(d)
  BY <1>2, <1>11 DEF FreeSlots
<1>19. Cardinality(KeySlots(e)) = Cardinality(KeySlots(d)) + 1
  BY <1>2, <1>17, FS_AddElement
<1>20. Cardinality(FreeSlots(e)) = Cardinality(FreeSlots(d)) - 1
  BY <1>2, <1>17, <1>18, FS_RemoveElement
<1> QED BY <1>14, <1>17, <1>19, <1>20

\* The keys in the first i slots.
Part(d, i) == {j \in 0 .. i - 1 : d[j] \in Keys}
PartItems(d, i) == {d[j] : j \in 0 .. i - 1} \cap Keys

\* What has been rehashed after i slots.
Rehashing(d, i, n, e) ==
  /\ Array(e, n) /\ Distinct(e) /\ Paths(e, n)
  /\ Items(e) = PartItems(d, i)
  /\ Cardinality(KeySlots(e)) = Cardinality(Part(d, i))
  /\ Cardinality(FreeSlots(e)) = n - Cardinality(Part(d, i))

\* One slot of the old table.
RehashStep(d, i, e) == IF d[i - 1] \in Keys THEN Place(e, d[i - 1]) ELSE e

\* The new array is empty.
LEMMA RehashStarts ==
  ASSUME NEW d, NEW n \in Nat PROVE Rehashing(d, 0, n, NewTable(n))
<1>1. PICK e : e = NewTable(n)
  OBVIOUS
<1>2. DOMAIN e = 0 .. n - 1 /\ \A j \in 0 .. n - 1 : e[j] = FREE
  BY <1>1 DEF NewTable
<1>3. Array(e, n)
  BY <1>1 DEF NewTable, Array
<1>4. FREE \notin Keys
  BY TableAssumption
<1>5. Distinct(e) /\ Paths(e, n)
  BY <1>2, <1>4 DEF Distinct, Paths
<1>6. Items(e) = {} /\ KeySlots(e) = {} /\ FreeSlots(e) = 0 .. n - 1
  BY <1>2, <1>4 DEF Items, KeySlots, FreeSlots
<1>7. PartItems(d, 0) = {} /\ Part(d, 0) = {}
  BY DEF PartItems, Part
<1>8. Cardinality(0 .. n - 1) = n
  BY <1>2, <1>3, ArraySlots DEF Slots
<1>9. Cardinality(Part(d, 0)) = 0
  BY <1>7, FS_EmptySet
<1>10. Cardinality(KeySlots(e)) = Cardinality(Part(d, 0))
  BY <1>6, <1>7
<1>11. Cardinality(FreeSlots(e)) = n - Cardinality(Part(d, 0))
  BY <1>6, <1>8, <1>9
<1> QED BY <1>1, <1>3, <1>5, <1>6, <1>7, <1>10, <1>11 DEF Rehashing

\* What rehashing starts from: the new capacity n has room for the keys.
RehashFrom(d, m, n) ==
  Array(d, m) /\ Distinct(d) /\ Capacity(n) /\ Cardinality(KeySlots(d)) <= n

\* Each key goes where it is found.
LEMMA RehashContinues ==
  ASSUME NEW d, NEW m, NEW n, NEW e, NEW i, RehashFrom(d, m, n), i \in 0 .. m - 1,
         Rehashing(d, i, n, e)
  PROVE  Rehashing(d, i + 1, n, RehashStep(d, i + 1, e))
<1>1. /\ m \in Nat /\ DOMAIN d = 0 .. m - 1 /\ IsFiniteSet(KeySlots(d))
      /\ Cardinality(KeySlots(d)) \in Nat
  BY ArraySlots DEF RehashFrom
<1>2. n \in Nat
  BY CapacityFacts DEF RehashFrom
<1>3. i \in Nat /\ i < m /\ (i + 1) - 1 = i /\ 0 .. (i + 1) - 1 = (0 .. i - 1) \cup {i}
  BY <1>1
<1>4. /\ IsFiniteSet(Part(d, i)) /\ Cardinality(Part(d, i)) \in Nat
      /\ Part(d, i) \subseteq KeySlots(d) /\ i \notin Part(d, i)
  <2>1. Part(d, i) \subseteq KeySlots(d) /\ i \notin Part(d, i)
    BY <1>1, <1>3 DEF Part, KeySlots
  <2> QED BY <1>1, <2>1, FS_Subset, FS_CardinalityType
<1>5. CASE d[i] \in Keys
  <2>1. Part(d, i + 1) = Part(d, i) \cup {i}
    BY <1>3, <1>5 DEF Part
  <2>2. PartItems(d, i + 1) = PartItems(d, i) \cup {d[i]}
    BY <1>3, <1>5 DEF PartItems
  <2>3. Cardinality(Part(d, i + 1)) = Cardinality(Part(d, i)) + 1
    BY <1>4, <2>1, FS_AddElement
  <2>4. Cardinality(Part(d, i)) < n
    <3>1. Part(d, i + 1) \in SUBSET KeySlots(d)
      BY <1>1, <1>3, <1>4, <1>5, <2>1 DEF KeySlots
    <3>2. Cardinality(Part(d, i + 1)) <= Cardinality(KeySlots(d))
      BY <1>1, <3>1, FS_Subset
    <3> QED BY <1>1, <1>2, <1>4, <2>3, <3>2 DEF RehashFrom
  <2>5. FreeSlots(e) # {}
    <3>1. Cardinality(FreeSlots(e)) # 0
      BY <1>2, <1>4, <2>4 DEF Rehashing
    <3> QED BY <3>1, FS_EmptySet
  <2>6. d[i] \notin Items(e)
    <3>1. \A j \in 0 .. i - 1 : d[j] # d[i]
      BY <1>1, <1>3, <1>5 DEF RehashFrom, Distinct
    <3> QED BY <3>1 DEF Rehashing, PartItems
  <2>7. Placeable(e, n, d[i])
    BY <1>5, <2>5, <2>6 DEF Placeable, RehashFrom, Rehashing
  <2>8. PICK g : g = Place(e, d[i])
    OBVIOUS
  <2>9. /\ Array(g, n) /\ Distinct(g) /\ Paths(g, n)
        /\ Items(g) = Items(e) \cup {d[i]}
        /\ Cardinality(KeySlots(g)) = Cardinality(KeySlots(e)) + 1
        /\ Cardinality(FreeSlots(g)) = Cardinality(FreeSlots(e)) - 1
    BY <2>7, <2>8, PlaceKeeps
  <2>10. /\ Items(g) = PartItems(d, i + 1)
         /\ Cardinality(KeySlots(g)) = Cardinality(Part(d, i + 1))
    BY <2>2, <2>3, <2>9 DEF Rehashing
  <2>11. Cardinality(FreeSlots(g)) = n - Cardinality(Part(d, i + 1))
    BY <1>2, <1>4, <2>3, <2>9 DEF Rehashing
  <2>12. RehashStep(d, i + 1, e) = g
    BY <1>3, <1>5, <2>8 DEF RehashStep
  <2> QED BY <2>9, <2>10, <2>11, <2>12 DEF Rehashing
<1>6. CASE d[i] \notin Keys
  <2>1. Part(d, i + 1) = Part(d, i) /\ PartItems(d, i + 1) = PartItems(d, i)
    BY <1>3, <1>6 DEF Part, PartItems
  <2>2. RehashStep(d, i + 1, e) = e
    BY <1>3, <1>6 DEF RehashStep
  <2> QED BY <2>1, <2>2 DEF Rehashing
<1> QED BY <1>5, <1>6

\* The recursion of Rehashed has a solution, and each of its values is as above.
LEMMA RehashKeeps ==
  ASSUME NEW d, NEW m, NEW n, RehashFrom(d, m, n)
  PROVE  LET e == Rehashed(d, n)
         IN  /\ Array(e, n) /\ Distinct(e) /\ Paths(e, n)
             /\ Items(e) = Items(d)
             /\ Cardinality(KeySlots(e)) = Cardinality(KeySlots(d))
             /\ Cardinality(FreeSlots(e)) = n - Cardinality(KeySlots(d))
<1> DEFINE Solves(g, z) == g = [i \in 0 .. z |->
             IF i = 0 THEN NewTable(n)
             ELSE IF d[i - 1] \in Keys THEN Place(g[i - 1], d[i - 1]) ELSE g[i - 1]]
           Value(g, i) == IF i = 0 THEN NewTable(n) ELSE RehashStep(d, i, g[i - 1])
           Solved == {z \in 0 .. m : \E g : Solves(g, z)}
<1>1. m \in Nat /\ DOMAIN d = 0 .. m - 1 /\ Slots(d) = m
  BY ArraySlots DEF RehashFrom
<1>2. ASSUME NEW g, NEW z
      PROVE  Solves(g, z) <=> g = [i \in 0 .. z |-> Value(g, i)]
  BY DEF RehashStep
<1> HIDE DEF Solves
<1>3. 0 .. m \subseteq Solved
  <2>1. 0 \in Solved
    <3>1. PICK g : g = [i \in 0 .. 0 |-> NewTable(n)]
      OBVIOUS
    <3>2. g = [i \in 0 .. 0 |-> Value(g, i)]
      BY <3>1
    <3>3. Solves(g, 0)
      BY <1>2, <3>2
    <3> QED BY <1>1, <3>3
  <2>2. ASSUME NEW z \in 0 .. m - 1, z \in Solved PROVE z + 1 \in Solved
    <3>1. PICK g : Solves(g, z)
      BY <2>2
    <3>2. g = [i \in 0 .. z |-> Value(g, i)]
      BY <1>2, <3>1
    <3>3. PICK h : h = [i \in 0 .. z + 1 |-> IF i = z + 1 THEN RehashStep(d, z + 1, g[z]) ELSE g[i]]
      OBVIOUS
    <3>4. ASSUME NEW i \in 0 .. z + 1 PROVE h[i] = Value(h, i)
      <4>1. CASE i = z + 1
        <5>1. h[i] = RehashStep(d, z + 1, g[z]) /\ h[z] = g[z] /\ i - 1 = z /\ i # 0
          BY <3>3, <4>1
        <5> QED BY <4>1, <5>1
      <4>2. CASE i # z + 1
        <5>1. h[i] = g[i] /\ i \in 0 .. z /\ (i # 0 => h[i - 1] = g[i - 1])
          BY <3>3, <4>2
        <5>2. g[i] = Value(g, i)
          BY <3>2, <5>1
        <5> QED BY <5>1, <5>2
      <4> QED BY <4>1, <4>2
    <3>5. h = [i \in 0 .. z + 1 |-> Value(h, i)]
      <4> HIDE DEF Value
      <4> QED BY <3>3, <3>4
    <3>6. Solves(h, z + 1)
      BY <1>2, <3>5
    <3>7. z + 1 \in 0 .. m
      BY <1>1
    <3> QED BY <3>6, <3>7
  <2> HIDE DEF Solved
  <2> QED BY <1>1, <2>1, <2>2, InductionUpTo
<1> DEFINE placed == CHOOSE g : Solves(g, m)
<1>4. Solves(placed, m)
  <2>1. \E g : Solves(g, m)
    BY <1>1, <1>3
  <2> QED BY <2>1
<1>5. Rehashed(d, n) = placed[m]
  BY <1>1 DEF Rehashed, Solves
<1>6. placed = [i \in 0 .. m |-> Value(placed, i)]
  BY <1>2, <1>4
<1> HIDE DEF placed, Solved
<1> DEFINE Good == {i \in 0 .. m : Rehashing(d, i, n, placed[i])}
<1>7. 0 .. m \subseteq Good
  <2>1. 0 \in Good
    <3>1. n \in Nat
      BY CapacityFacts DEF RehashFrom
    <3>2. placed[0] = NewTable(n)
      BY <1>1, <1>6
    <3> QED BY <1>1, <3>1, <3>2, RehashStarts
  <2>2. ASSUME NEW i \in 0 .. m - 1, i \in Good PROVE i + 1 \in Good
    <3>1. i + 1 \in 0 .. m /\ i + 1 # 0 /\ (i + 1) - 1 = i
      BY <1>1
    <3>2. placed[i + 1] = RehashStep(d, i + 1, placed[i])
      BY <1>6, <3>1
    <3>3. Rehashing(d, i + 1, n, RehashStep(d, i + 1, placed[i]))
      BY <2>2, RehashContinues
    <3> QED BY <3>1, <3>2, <3>3
  <2> HIDE DEF Good
  <2> QED BY <1>1, <2>1, <2>2, InductionUpTo
<1>8. Rehashing(d, m, n, Rehashed(d, n))
  BY <1>1, <1>5, <1>7
<1>9. Part(d, m) = KeySlots(d) /\ PartItems(d, m) = Items(d)
  BY <1>1 DEF Part, KeySlots, PartItems, Items
<1> HIDE DEF Good
<1> QED BY <1>8, <1>9 DEF Rehashing

-----------------------------------------------------------------------------
(* The calls.                                                              *)

\* A table with keys has a free slot.
LEMMA HasFreeSlot ==
  ASSUME NEW d, NEW n, NEW l, NEW f, Sound(d, n, l, f), f > 0 \/ l # 0
  PROVE  FreeSlots(d) # {}
<1>1. /\ f \in Nat /\ f <= Cardinality(FreeSlots(d)) /\ f >= n \div 4
      /\ l = Cardinality(KeySlots(d)) /\ Array(d, n) /\ Capacity(n)
  BY DEF Sound, Counted
<1>2. f > 0
  <2> SUFFICES ASSUME l # 0 PROVE f > 0
    OBVIOUS
  <2>1. n # 0
    <3> SUFFICES ASSUME n = 0 PROVE FALSE
      OBVIOUS
    <3>1. DOMAIN d = 0 .. n - 1
      BY <1>1, ArraySlots
    <3>2. KeySlots(d) = {}
      BY <3>1 DEF KeySlots
    <3> QED BY <1>1, <3>2, FS_EmptySet
  <2>2. PICK q \in Nat : q > 0 /\ n \div 4 = q
    BY <1>1, <2>1, CapacityFacts
  <2> QED BY <1>1, <2>2
<1>3. Cardinality(FreeSlots(d)) # 0
  <2>1. Cardinality(FreeSlots(d)) \in Nat
    BY <1>1, ArraySlots
  <2> QED BY <1>1, <1>2, <2>1
<1> QED BY <1>3, FS_EmptySet

\* The table with the array d.
Record(t, d, l, f) == t = [data |-> d, len |-> l, free |-> f]

\* Reserving keeps the keys, and leaves a quarter free beside the reserved slots.
LEMMA ReserveKeeps ==
  ASSUME NEW t, NEW d, NEW n, NEW l, NEW f, Record(t, d, l, f), Sound(d, n, l, f),
         NEW a \in Nat, reserve_fits(t, a),
         NEW u, u = reserve(t, a)
  PROVE  \E e, m, g : /\ Record(u, e, l, g) /\ Sound(e, m, l, g)
                      /\ Items(e) = Items(d) /\ m \in Nat /\ g >= a + m \div 4
<1>1. t.data = d /\ t.len = l /\ t.free = f
  BY DEF Record
<1>2. /\ n \in Nat /\ Slots(d) = n /\ Array(d, n) /\ l \in Nat /\ f \in Nat /\ Distinct(d)
      /\ l = Cardinality(KeySlots(d))
  BY ArraySlots DEF Sound, Counted
<1>3. CASE f < a + n \div 4
  <2>1. PICK m : m = next_capacity(l + a)
    OBVIOUS
  <2>2. check_capacity(m)
    BY <1>1, <1>2, <1>3, <2>1 DEF reserve_fits
  <2>3. l + a \in Nat
    BY <1>2
  <2>4. Capacity(m) /\ m \in Nat /\ m - (l + a) >= m \div 4
    BY <2>1, <2>2, <2>3, NextCapacity
  <2>5. m - l >= a + m \div 4 /\ m - l \in Nat /\ l <= m /\ m - l >= m \div 4
    <3>1. PICK q : q = m \div 4
      OBVIOUS
    <3>2. q \in Nat
      BY <2>4, <3>1
    <3> QED BY <1>2, <2>4, <3>1, <3>2
  <2>6. RehashFrom(d, n, m)
    BY <1>2, <2>4, <2>5 DEF RehashFrom
  <2>7. PICK e : e = Rehashed(d, m)
    OBVIOUS
  <2>8. /\ Array(e, m) /\ Distinct(e) /\ Paths(e, m) /\ Items(e) = Items(d)
        /\ Cardinality(KeySlots(e)) = l /\ Cardinality(FreeSlots(e)) = m - l
    BY <1>2, <2>6, <2>7, RehashKeeps
  <2>9. Record(u, e, l, m - l)
    BY <1>1, <1>2, <1>3, <2>1, <2>7 DEF reserve, reserve_rehash, Record
  <2>10. Counted(e, m, l, m - l)
    BY <2>5, <2>8 DEF Counted
  <2>11. Sound(e, m, l, m - l)
    BY <2>4, <2>8, <2>10 DEF Sound
  <2> QED BY <2>4, <2>5, <2>8, <2>9, <2>11
<1>4. CASE ~(f < a + n \div 4)
  <2>1. u = t
    BY <1>1, <1>2, <1>4 DEF reserve
  <2>2. f >= a + n \div 4
    <3>1. PICK q : q = n \div 4
      OBVIOUS
    <3>2. q \in Nat
      BY <1>2, <3>1
    <3> QED BY <1>2, <1>4, <3>1, <3>2
  <2> QED BY <1>2, <2>1, <2>2
<1> QED BY <1>3, <1>4

\* The slot for a new key is on its way, before any free slot.
LEMMA InsertSlotFacts ==
  ASSUME NEW d, NEW n, Array(d, n), Paths(d, n), NEW k \in Keys, k \notin Items(d),
         FreeSlots(d) # {}
  PROVE  \E i \in 0 .. n - 1 : /\ Passed(d, n, HashOf[k], i)
                               /\ InsertSlot(d, k) = (HashOf[k] + i) % n
                               /\ d[InsertSlot(d, k)] \in {FREE, TOMBSTONE}
<1>1. n \in Nat /\ Slots(d) = n /\ HashOf[k] \in Nat
  BY ArraySlots, KeyFacts
<1>2. PICK m : m = Min(Ends(d, k))
  OBVIOUS
<1>3. /\ n > 0 /\ m \in 0 .. n - 1
      /\ End(d, k) = (HashOf[k] + m) % n /\ d[End(d, k)] \in {k, FREE}
      /\ \A j \in 0 .. n - 1 : j < m => d[(HashOf[k] + j) % n] # FREE
  BY <1>2, EndFacts
<1>4. d[End(d, k)] = FREE
  BY <1>3, SearchFinds
<1>5. ASSUME NEW i \in 0 .. m PROVE Passed(d, n, HashOf[k], i)
  <2> SUFFICES ASSUME NEW j \in 0 .. i - 1 PROVE d[(HashOf[k] + j) % n] # FREE
    BY DEF Passed
  <2>1. j \in 0 .. n - 1 /\ j < m
    BY <1>1, <1>3
  <2> QED BY <1>3, <2>1
<1> DEFINE tombs == {i \in 0 .. m : d[(HashOf[k] + i) % n] = TOMBSTONE}
<1>6. InsertSlot(d, k) = IF tombs = {} THEN End(d, k) ELSE (HashOf[k] + Max(tombs)) % n
  BY <1>1, <1>2 DEF InsertSlot, Visit
<1>7. CASE tombs = {}
  <2>1. InsertSlot(d, k) = End(d, k)
    BY <1>6, <1>7
  <2>2. m \in 0 .. m /\ m \in 0 .. n - 1
    BY <1>3
  <2> HIDE DEF tombs
  <2>3. Passed(d, n, HashOf[k], m)
    BY <1>5, <2>2
  <2> QED BY <1>3, <1>4, <2>1, <2>2, <2>3
<1>8. CASE tombs # {}
  <2>1. tombs \in SUBSET Nat /\ m \in Nat /\ \A i \in tombs : i <= m
    BY <1>1, <1>3
  <2>2. PICK i : i = Max(tombs)
    OBVIOUS
  <2>3. i \in tombs
    <3> HIDE DEF tombs
    <3> QED BY <1>8, <2>1, <2>2, MaxNatural
  <2>4. i \in 0 .. m /\ i \in 0 .. n - 1 /\ d[(HashOf[k] + i) % n] = TOMBSTONE
    BY <1>1, <1>3, <2>3
  <2>5. InsertSlot(d, k) = (HashOf[k] + i) % n
    BY <1>6, <1>8, <2>2
  <2>6. Passed(d, n, HashOf[k], i)
    BY <1>5, <2>4
  <2> QED BY <2>4, <2>5, <2>6
<1> QED BY <1>7, <1>8

\* Inserting a new key: the counter of free slots only falls when one is taken.
LEMMA InsertKeeps ==
  ASSUME NEW t, NEW d, NEW n, NEW l, NEW f, Record(t, d, l, f), Sound(d, n, l, f),
         n \in Nat, f >= 1 + n \div 4, NEW k \in Keys, k \notin Items(d),
         NEW u, u = insert_in_slot_unchecked(t, k, InsertSlot(d, k))
  PROVE  \E e, g : /\ Record(u, e, l + 1, g) /\ Sound(e, n, l + 1, g)
                   /\ Items(e) = Items(d) \cup {k}
<1>1. t.data = d /\ t.len = l /\ t.free = f
  BY DEF Record
<1>2. /\ Array(d, n) /\ Paths(d, n) /\ Distinct(d) /\ Capacity(n) /\ f \in Nat
      /\ l = Cardinality(KeySlots(d)) /\ f <= Cardinality(FreeSlots(d))
  BY DEF Sound, Counted
<1>3. f > 0
  <2>1. PICK q : q = n \div 4
    OBVIOUS
  <2>2. q \in Nat
    BY <2>1
  <2> QED BY <1>2, <2>1, <2>2
<1>4. FreeSlots(d) # {}
  BY <1>3, HasFreeSlot
<1>5. PICK s : s = InsertSlot(d, k)
  OBVIOUS
<1>6. PICK i \in 0 .. n - 1 : /\ Passed(d, n, HashOf[k], i) /\ s = (HashOf[k] + i) % n
                              /\ d[s] \in {FREE, TOMBSTONE}
  BY <1>2, <1>4, <1>5, InsertSlotFacts
<1>7. PICK e : e = [d EXCEPT ![s] = k]
  OBVIOUS
<1>8. d[s] \notin Keys /\ FREE # TOMBSTONE
  BY <1>6, TableAssumption
<1>9. n > 0
  BY <1>6
<1>10. PutAt(d, n, k, i, s, e)
  BY <1>2, <1>6, <1>7, <1>8, <1>9 DEF PutAt
<1>11. /\ Array(e, n) /\ Distinct(e) /\ Paths(e, n) /\ Items(e) = Items(d) \cup {k}
       /\ s \in 0 .. n - 1
       /\ KeySlots(e) = KeySlots(d) \cup {s} /\ s \notin KeySlots(d)
       /\ FreeSlots(e) = FreeSlots(d) \ {s}
  BY <1>10, PutKeeps
<1>12. /\ IsFiniteSet(KeySlots(d)) /\ IsFiniteSet(FreeSlots(d)) /\ DOMAIN d = 0 .. n - 1
       /\ Cardinality(FreeSlots(d)) \in Nat
  BY <1>2, ArraySlots
<1>13. Cardinality(KeySlots(e)) = l + 1
  BY <1>2, <1>11, <1>12, FS_AddElement
<1>14. PICK g : g = IF d[s] = TOMBSTONE THEN f ELSE f - 1
  OBVIOUS
<1>15. Record(u, e, l + 1, g)
  BY <1>1, <1>5, <1>7, <1>14 DEF insert_in_slot_unchecked, Record
<1>16. g \in Nat /\ g >= n \div 4 /\ g <= Cardinality(FreeSlots(e))
  <2>1. PICK q : q = n \div 4
    OBVIOUS
  <2>2. q \in Nat /\ f >= 1 + q
    BY <2>1
  <2>3. CASE d[s] = TOMBSTONE
    <3>1. s \notin FreeSlots(d)
      BY <1>8, <2>3 DEF FreeSlots
    <3>2. FreeSlots(e) = FreeSlots(d) /\ g = f
      BY <1>11, <1>14, <2>3, <3>1
    <3> QED BY <1>2, <2>1, <2>2, <3>2
  <2>4. CASE d[s] # TOMBSTONE
    <3>1. s \in FreeSlots(d)
      BY <1>6, <1>11, <1>12, <2>4 DEF FreeSlots
    <3>2. Cardinality(FreeSlots(e)) = Cardinality(FreeSlots(d)) - 1
      BY <1>11, <1>12, <3>1, FS_RemoveElement
    <3> QED BY <1>2, <1>12, <1>14, <2>1, <2>2, <2>4, <3>2
  <2> QED BY <2>3, <2>4
<1>17. Sound(e, n, l + 1, g)
  BY <1>2, <1>11, <1>13, <1>16 DEF Sound, Counted
<1> QED BY <1>11, <1>15, <1>17

\* Removing a key that was found.
LEMMA RemoveEntryKeeps ==
  ASSUME NEW t, NEW d, NEW n, NEW l, NEW f, Record(t, d, l, f), Sound(d, n, l, f),
         l # 0, NEW k \in Keys, d[End(d, k)] = k,
         NEW u, u = remove_at_slot_unchecked(t, End(d, k))
  PROVE  \E e, g : /\ Record(u, e, l - 1, g) /\ Sound(e, n, l - 1, g)
                   /\ Items(e) = Items(d) \ {k}
<1>1. t.data = d /\ t.len = l /\ t.free = f
  BY DEF Record
<1>2. /\ Array(d, n) /\ Paths(d, n) /\ Distinct(d) /\ Capacity(n) /\ f \in Nat
      /\ l = Cardinality(KeySlots(d)) /\ f <= Cardinality(FreeSlots(d)) /\ f >= n \div 4
  BY DEF Sound, Counted
<1>3. FreeSlots(d) # {}
  BY HasFreeSlot
<1>4. PICK s : s = End(d, k)
  OBVIOUS
<1>5. n > 0 /\ s \in 0 .. n - 1 /\ d[s] = k
  BY <1>2, <1>3, <1>4, EndFacts
<1>6. PICK v, e : /\ v = IF d[(s + 1) % n] = FREE THEN FREE ELSE TOMBSTONE
                  /\ e = [d EXCEPT ![s] = v]
  OBVIOUS
<1>7. RemoveAt(d, n, s, v, e)
  BY <1>2, <1>5, <1>6 DEF RemoveAt
<1>8. /\ Array(e, n) /\ Distinct(e) /\ Paths(e, n) /\ Items(e) = Items(d) \ {k}
      /\ KeySlots(e) = KeySlots(d) \ {s} /\ s \in KeySlots(d)
      /\ FreeSlots(e) = (IF v = FREE THEN FreeSlots(d) \cup {s} ELSE FreeSlots(d))
      /\ s \notin FreeSlots(d)
  BY <1>5, <1>7, RemoveKeeps
<1>9. /\ IsFiniteSet(KeySlots(d)) /\ IsFiniteSet(FreeSlots(d)) /\ Slots(d) = n /\ n \in Nat
      /\ Cardinality(FreeSlots(d)) \in Nat
  BY <1>2, ArraySlots
<1>10. Cardinality(KeySlots(e)) = l - 1
  BY <1>2, <1>8, <1>9, FS_RemoveElement
<1>11. PICK g : g = IF v = FREE THEN f + 1 ELSE f
  OBVIOUS
<1>12. v = FREE <=> d[(s + 1) % n] = FREE
  BY <1>6, TableAssumption
<1>13. Record(u, e, l - 1, g)
  BY <1>1, <1>4, <1>6, <1>9, <1>11, <1>12 DEF remove_at_slot_unchecked, Record
<1>14. g \in Nat /\ g >= n \div 4 /\ g <= Cardinality(FreeSlots(e))
  <2>1. PICK q : q = n \div 4
    OBVIOUS
  <2>2. q \in Nat /\ f >= q
    BY <1>2, <1>9, <2>1
  <2>3. CASE v = FREE
    <3>1. FreeSlots(e) = FreeSlots(d) \cup {s}
      BY <1>8, <2>3
    <3>2. Cardinality(FreeSlots(e)) = Cardinality(FreeSlots(d)) + 1
      BY <1>8, <1>9, <3>1, FS_AddElement
    <3> QED BY <1>2, <1>9, <1>11, <2>1, <2>2, <2>3, <3>2
  <2>4. CASE v # FREE
    BY <1>2, <1>8, <1>11, <2>4
  <2> QED BY <2>3, <2>4
<1>15. Sound(e, n, l - 1, g)
  BY <1>2, <1>8, <1>10, <1>14 DEF Sound, Counted
<1> QED BY <1>8, <1>13, <1>15

\* Clearing leaves no key, and the counter of free slots behind their number.
LEMMA ClearKeeps ==
  ASSUME NEW t, NEW d, NEW n, NEW l, NEW f, Record(t, d, l, f), Sound(d, n, l, f),
         NEW u, u = clear(t)
  PROVE  \E e : Record(u, e, 0, f) /\ Sound(e, n, 0, f) /\ Items(e) = {}
<1>1. t.data = d /\ t.len = l /\ t.free = f
  BY DEF Record
<1>2. /\ Array(d, n) /\ Capacity(n) /\ l = Cardinality(KeySlots(d))
      /\ f \in Nat /\ f <= Cardinality(FreeSlots(d)) /\ f >= n \div 4
  BY DEF Sound, Counted
<1>3. /\ n \in Nat /\ DOMAIN d = 0 .. n - 1
      /\ \A i \in 0 .. n - 1 : d[i] \in Keys \cup {FREE, TOMBSTONE}
      /\ IsFiniteSet(KeySlots(d)) /\ Cardinality(FreeSlots(d)) \in Nat
  BY <1>2, ArraySlots
<1>4. CASE l = 0
  <2>1. KeySlots(d) = {}
    BY <1>2, <1>3, <1>4, FS_EmptySet
  <2>2. Items(d) = {}
    BY <2>1 DEF KeySlots, Items
  <2>3. u = t
    BY <1>1, <1>4 DEF clear
  <2> QED BY <1>4, <2>2, <2>3
<1>5. CASE l # 0
  <2>1. PICK e : e = Emptied(d)
    OBVIOUS
  <2>2. FREE \notin Keys /\ TOMBSTONE \notin Keys
    BY TableAssumption
  <2>3. /\ e = [i \in 0 .. n - 1 |-> e[i]] /\ DOMAIN e = 0 .. n - 1
        /\ \A i \in 0 .. n - 1 : e[i] = FREE \/ (e[i] = d[i] /\ d[i] \notin Keys)
    BY <1>3, <2>1 DEF Emptied
  <2>4. \A i \in 0 .. n - 1 : e[i] \in {FREE, TOMBSTONE} /\ e[i] \notin Keys
    BY <1>3, <2>2, <2>3
  <2>5. Array(e, n)
    BY <1>3, <2>3, <2>4 DEF Array
  <2>6. Distinct(e) /\ Paths(e, n) /\ Items(e) = {} /\ KeySlots(e) = {}
    BY <2>3, <2>4 DEF Distinct, Paths, Items, KeySlots
  <2>7. FreeSlots(d) \in SUBSET FreeSlots(e)
    <3> SUFFICES ASSUME NEW i \in FreeSlots(d) PROVE i \in FreeSlots(e)
      OBVIOUS
    <3>1. i \in 0 .. n - 1 /\ d[i] = FREE
      BY <1>3 DEF FreeSlots
    <3> QED BY <2>3, <3>1 DEF FreeSlots
  <2>8. IsFiniteSet(FreeSlots(e)) /\ Cardinality(FreeSlots(e)) \in Nat
    BY <2>5, ArraySlots
  <2>9. Cardinality(FreeSlots(d)) <= Cardinality(FreeSlots(e))
    BY <2>7, <2>8, FS_Subset
  <2>10. Cardinality(KeySlots(e)) = 0
    BY <2>6, FS_EmptySet
  <2>11. f <= Cardinality(FreeSlots(e))
    BY <1>2, <1>3, <2>8, <2>9
  <2>12. Sound(e, n, 0, f)
    BY <1>2, <2>5, <2>6, <2>10, <2>11 DEF Sound, Counted
  <2>13. Record(u, e, 0, f)
    BY <1>1, <1>5, <2>1 DEF clear, Record
  <2> QED BY <2>6, <2>12, <2>13
<1> QED BY <1>4, <1>5

-----------------------------------------------------------------------------
(* The steps. Each keeps the invariant and answers as the set does.        *)

\* The arguments of the calls.
LEMMA CallFacts ==
  ASSUME NEW c \in Calls
  PROVE  /\ c.kind \in {"get", "insert", "remove"} => c.key \in Keys
         /\ c.kind = "reserve" => c.additional \in Nat
BY ReserveAssumption DEF Calls, AllCalls

\* find says whether the table holds the key.
LEMMA FindAnswers ==
  ASSUME NEW t, NEW d, NEW n, NEW l, NEW f, Record(t, d, l, f), Sound(d, n, l, f),
         NEW k \in Keys
  PROVE  /\ k \in Items(d) => find(t, k) = TRUE /\ l # 0 /\ d[End(d, k)] = k
         /\ k \notin Items(d) => find(t, k) = FALSE
<1>1. t.data = d /\ t.len = l
  BY DEF Record
<1>2. Array(d, n) /\ Paths(d, n) /\ l = Cardinality(KeySlots(d)) /\ IsFiniteSet(KeySlots(d))
  BY ArraySlots DEF Sound, Counted
<1>3. CASE l = 0
  <2>1. KeySlots(d) = {}
    BY <1>2, <1>3, FS_EmptySet
  <2>2. Items(d) = {}
    BY <2>1 DEF KeySlots, Items
  <2>3. find(t, k) = FALSE
    BY <1>1, <1>3 DEF find
  <2> QED BY <2>2, <2>3
<1>4. CASE l # 0
  <2>1. FreeSlots(d) # {}
    BY <1>4, HasFreeSlot
  <2>2. Ends(d, k) # {}
    BY <1>2, <2>1, EndFacts
  <2>3. d[End(d, k)] = k <=> k \in Items(d)
    BY <1>2, <2>1, SearchFinds
  <2>4. d[End(d, k)] = k => find(t, k) = TRUE
    BY <1>1, <1>4, <2>2 DEF find
  <2>5. d[End(d, k)] # k => find(t, k) = FALSE
    BY <1>1, <1>4, <2>2 DEF find
  <2> QED BY <1>4, <2>3, <2>4, <2>5
<1> QED BY <1>3, <1>4

\* The table of the next state.
LEMMA NewState ==
  ASSUME NEW c, NEW u, NEW r, Return(c, u, r), NEW e, NEW m, NEW l, NEW g,
         Record(u, e, l, g), Sound(e, m, l, g)
  PROVE  HashInv' /\ data' = e /\ res' = r /\ call' = c
<1>1. data' = e /\ len' = l /\ free' = g /\ res' = r /\ call' = c
  BY DEF Return, Record
<1>2. m \in Nat
  BY DEF Sound, Array
<1>3. \E z \in Nat : Sound(e, z, l, g)
  BY <1>2
<1> QED BY <1>1, <1>3 DEF HashInv

\* The table of the current state.
LEMMA OldState ==
  ASSUME HashInv
  PROVE  \E n \in Nat : Record(table, data, len, free) /\ Sound(data, n, len, free)
BY DEF HashInv, Record, table

\* The answer r to the call c about the array d.
Tells(c, d, r) ==
  (c.key \in Items(d) => r = TRUE) /\ (c.key \notin Items(d) => r = FALSE)

\* get, iter: nothing changes.
LEMMA ReadSteps ==
  ASSUME HashInv, NEW c \in Calls, Get(c) \/ Iter(c)
  PROVE  /\ HashInv' /\ data' = data /\ call' = c
         /\ c.kind \in {"get", "iter"}
         /\ c.kind = "get" => Tells(c, data, res')
         /\ c.kind = "iter" => res' = Items(data)
<1>1. PICK n \in Nat : Record(table, data, len, free) /\ Sound(data, n, len, free)
  BY OldState
<1>2. CASE Get(c)
  <2>1. c.kind = "get" /\ c.key \in Keys /\ Return(c, table, find(table, c.key))
    BY <1>2, CallFacts DEF Get
  <2>2. Tells(c, data, find(table, c.key))
    BY <1>1, <2>1, FindAnswers DEF Tells
  <2>3. HashInv' /\ data' = data /\ res' = find(table, c.key) /\ call' = c
    BY <1>1, <2>1, NewState
  <2> QED BY <2>1, <2>2, <2>3
<1>3. CASE Iter(c)
  <2>1. c.kind = "iter" /\ Return(c, table, Items(data))
    BY <1>3 DEF Iter
  <2>2. HashInv' /\ data' = data /\ res' = Items(data) /\ call' = c
    BY <1>1, <2>1, NewState
  <2> QED BY <2>1, <2>2
<1> QED BY <1>2, <1>3

\* insert
LEMMA InsertStep ==
  ASSUME HashInv, NEW c \in Calls, Insert(c)
  PROVE  /\ HashInv' /\ call' = c /\ c.kind = "insert"
         /\ Tells(c, data, res')
         /\ Items(data') = Items(data) \cup {c.key}
<1>1. PICK n \in Nat : Record(table, data, len, free) /\ Sound(data, n, len, free)
  BY OldState
<1>2. c.kind = "insert" /\ c.key \in Keys /\ reserve_fits(table, 1)
  BY CallFacts DEF Insert
<1>3. PICK u, k : u = reserve(table, 1) /\ k = c.key
  OBVIOUS
<1>4. PICK e, m, g : /\ Record(u, e, len, g) /\ Sound(e, m, len, g)
                     /\ Items(e) = Items(data) /\ m \in Nat /\ g >= 1 + m \div 4
  <2>1. 1 \in Nat
    OBVIOUS
  <2> QED BY <1>1, <1>2, <1>3, <2>1, ReserveKeeps
<1>5. u.data = e /\ k \in Keys /\ Array(e, m) /\ Paths(e, m) /\ g \in Nat
  BY <1>2, <1>3, <1>4 DEF Record, Sound, Counted
<1>6. g > 0
  <2>1. PICK q : q = m \div 4
    OBVIOUS
  <2>2. q \in Nat
    BY <1>4, <2>1
  <2> QED BY <1>4, <1>5, <2>1, <2>2
<1>7. FreeSlots(e) # {}
  BY <1>4, <1>6, HasFreeSlot
<1>8. Ends(e, k) # {} /\ (e[End(e, k)] = k <=> k \in Items(e))
  BY <1>5, <1>7, EndFacts, SearchFinds
<1>9. Return(c, IF e[End(e, k)] = k THEN u ELSE insert_in_slot_unchecked(u, k, InsertSlot(e, k)),
             e[End(e, k)] = k)
  BY <1>3, <1>5, <1>8 DEF Insert
<1>10. CASE k \in Items(e)
  <2>1. Return(c, u, TRUE)
    BY <1>8, <1>9, <1>10
  <2>2. HashInv' /\ data' = e /\ res' = TRUE /\ call' = c
    BY <1>4, <2>1, NewState
  <2> QED BY <1>2, <1>3, <1>4, <1>10, <2>2 DEF Tells
<1>11. CASE k \notin Items(e)
  <2>1. PICK v : v = insert_in_slot_unchecked(u, k, InsertSlot(e, k))
    OBVIOUS
  <2>2. Return(c, v, FALSE)
    BY <1>8, <1>9, <1>11, <2>1
  <2>3. PICK x, z : /\ Record(v, x, len + 1, z) /\ Sound(x, m, len + 1, z)
                    /\ Items(x) = Items(e) \cup {k}
    BY <1>4, <1>5, <1>11, <2>1, InsertKeeps
  <2>4. HashInv' /\ data' = x /\ res' = FALSE /\ call' = c
    BY <2>2, <2>3, NewState
  <2> QED BY <1>2, <1>3, <1>4, <1>11, <2>3, <2>4 DEF Tells
<1> QED BY <1>10, <1>11

\* remove_entry
LEMMA RemoveStep ==
  ASSUME HashInv, NEW c \in Calls, Remove(c)
  PROVE  /\ HashInv' /\ call' = c /\ c.kind = "remove"
         /\ Tells(c, data, res')
         /\ Items(data') = Items(data) \ {c.key}
<1>1. PICK n \in Nat : Record(table, data, len, free) /\ Sound(data, n, len, free)
  BY OldState
<1>2. c.kind = "remove" /\ c.key \in Keys
  BY CallFacts DEF Remove
<1>3. PICK k : k = c.key
  OBVIOUS
<1>4. /\ k \in Items(data) => find(table, k) = TRUE /\ len # 0 /\ data[End(data, k)] = k
      /\ k \notin Items(data) => find(table, k) = FALSE
  BY <1>1, <1>2, <1>3, FindAnswers
<1>5. CASE k \in Items(data)
  <2>1. PICK u : u = remove_at_slot_unchecked(table, End(data, k))
    OBVIOUS
  <2>2. find(table, k) = TRUE
    BY <1>4, <1>5
  <2>3. Return(c, u, TRUE)
    BY <1>3, <2>1, <2>2 DEF Remove
  <2>4. PICK e, g : /\ Record(u, e, len - 1, g) /\ Sound(e, n, len - 1, g)
                    /\ Items(e) = Items(data) \ {k}
    BY <1>1, <1>2, <1>3, <1>4, <1>5, <2>1, RemoveEntryKeeps
  <2>5. HashInv' /\ data' = e /\ res' = TRUE /\ call' = c
    BY <2>3, <2>4, NewState
  <2> QED BY <1>2, <1>3, <1>5, <2>4, <2>5 DEF Tells
<1>6. CASE k \notin Items(data)
  <2>1. find(table, k) = FALSE
    BY <1>4, <1>6
  <2>2. Return(c, table, FALSE)
    BY <1>3, <2>1 DEF Remove
  <2>3. HashInv' /\ data' = data /\ res' = FALSE /\ call' = c
    BY <1>1, <2>2, NewState
  <2> QED BY <1>2, <1>3, <1>6, <2>3 DEF Tells
<1> QED BY <1>5, <1>6

\* reserve, clear
LEMMA ReserveStep ==
  ASSUME HashInv, NEW c \in Calls, Reserve(c)
  PROVE  /\ HashInv' /\ call' = c /\ c.kind = "reserve" /\ res' = {}
         /\ Items(data') = Items(data)
<1>1. PICK n \in Nat : Record(table, data, len, free) /\ Sound(data, n, len, free)
  BY OldState
<1>2. /\ c.kind = "reserve" /\ c.additional \in Nat /\ reserve_fits(table, c.additional)
      /\ Return(c, reserve(table, c.additional), {})
  BY CallFacts DEF Reserve
<1>3. PICK u, a : a = c.additional /\ u = reserve(table, a)
  OBVIOUS
<1>4. PICK e, m, g : Record(u, e, len, g) /\ Sound(e, m, len, g) /\ Items(e) = Items(data)
  BY <1>1, <1>2, <1>3, ReserveKeeps
<1>5. HashInv' /\ data' = e /\ res' = {} /\ call' = c
  BY <1>2, <1>3, <1>4, NewState
<1> QED BY <1>2, <1>4, <1>5

LEMMA ClearStep ==
  ASSUME HashInv, NEW c \in Calls, Clear(c)
  PROVE  /\ HashInv' /\ call' = c /\ c.kind = "clear" /\ res' = {}
         /\ Items(data') = {}
<1>1. PICK n \in Nat : Record(table, data, len, free) /\ Sound(data, n, len, free)
  BY OldState
<1>2. PICK u : u = clear(table)
  OBVIOUS
<1>3. c.kind = "clear" /\ Return(c, u, {})
  BY <1>2 DEF Clear
<1>4. PICK e : Record(u, e, 0, free) /\ Sound(e, n, 0, free) /\ Items(e) = {}
  BY <1>1, <1>2, ClearKeeps
<1>5. HashInv' /\ data' = e /\ res' = {} /\ call' = c
  BY <1>3, <1>4, NewState
<1> QED BY <1>3, <1>4, <1>5

-----------------------------------------------------------------------------
(* The theorems.                                                           *)

\* An empty table of any capacity.
LEMMA InitHashInv == ASSUME Init PROVE HashInv /\ Items(data) = {}
<1>1. PICK r \in 0 .. MaxReserve : /\ check_capacity(next_capacity(r))
                                   /\ data = NewTable(next_capacity(r))
  BY DEF Init
<1>2. PICK n, d : n = next_capacity(r) /\ d = data
  OBVIOUS
<1>3. r \in Nat
  OBVIOUS
<1>4. Capacity(n) /\ n \in Nat
  BY <1>1, <1>2, <1>3, NextCapacity
<1>5. Rehashing(d, 0, n, d)
  BY <1>1, <1>2, <1>4, RehashStarts
<1>6. Part(d, 0) = {} /\ PartItems(d, 0) = {} /\ Cardinality(Part(d, 0)) = 0
  <2>1. Part(d, 0) = {} /\ PartItems(d, 0) = {}
    BY DEF Part, PartItems
  <2> QED BY <2>1, FS_EmptySet
<1>7. /\ Array(d, n) /\ Distinct(d) /\ Paths(d, n) /\ Items(d) = {}
      /\ Cardinality(KeySlots(d)) = 0 /\ Cardinality(FreeSlots(d)) = n
  BY <1>4, <1>5, <1>6 DEF Rehashing
<1>8. len = 0 /\ free = n
  <2>1. Slots(d) = n
    BY <1>7, ArraySlots
  <2> QED BY <1>2, <2>1 DEF Init
<1>9. Sound(d, n, len, free)
  BY <1>4, <1>7, <1>8 DEF Sound, Counted
<1> QED BY <1>2, <1>4, <1>7, <1>9 DEF HashInv

\* Every call keeps the invariant and is a call of the set.
LEMMA CallStep ==
  ASSUME HashInv, Next
  PROVE  HashInv' /\ Abstract!Next
<1>1. PICK c \in Calls : Get(c) \/ Insert(c) \/ Remove(c) \/ Reserve(c) \/ Clear(c) \/ Iter(c)
  BY DEF Next
<1>2. SUFFICES /\ HashInv' /\ call' = c
               /\ res' = Abstract!Result(c) /\ Items(data') = Abstract!Effect(c)
  BY <1>1 DEF Abstract!Next, Calls, Abstract!Calls, AllCalls, Abstract!AllCalls
<1>3. ASSUME Tells(c, data, res') PROVE res' = (c.key \in Items(data))
  <2>1. CASE c.key \in Items(data)
    BY <1>3, <2>1, Zenon DEF Tells
  <2>2. CASE c.key \notin Items(data)
    <3>1. (c.key \in Items(data)) = FALSE
      BY <2>2
    <3>2. res' = FALSE
      BY <1>3, <2>2 DEF Tells
    <3> QED BY <3>1, <3>2, Zenon
  <2> QED BY <2>1, <2>2
<1>4. CASE Get(c) \/ Iter(c)
  <2>1. /\ HashInv' /\ data' = data /\ call' = c
        /\ c.kind \in {"get", "iter"}
        /\ c.kind = "get" => Tells(c, data, res')
        /\ c.kind = "iter" => res' = Items(data)
    BY <1>4, ReadSteps
  <2>2. Abstract!Effect(c) = Items(data)
    BY <2>1 DEF Abstract!Effect
  <2>3. CASE c.kind = "get"
    <3>1. Abstract!Result(c) = (c.key \in Items(data))
      BY <2>3 DEF Abstract!Result
    <3> QED BY <1>3, <2>1, <2>2, <2>3, <3>1
  <2>4. CASE c.kind = "iter"
    <3>1. Abstract!Result(c) = Items(data)
      BY <2>4 DEF Abstract!Result
    <3> QED BY <2>1, <2>2, <2>4, <3>1
  <2> QED BY <2>1, <2>3, <2>4
<1>5. CASE Insert(c)
  <2>1. /\ HashInv' /\ call' = c /\ c.kind = "insert" /\ Tells(c, data, res')
        /\ Items(data') = Items(data) \cup {c.key}
    BY <1>5, InsertStep
  <2>2. Abstract!Effect(c) = Items(data) \cup {c.key}
    BY <2>1 DEF Abstract!Effect
  <2>3. Abstract!Result(c) = (c.key \in Items(data))
    BY <2>1 DEF Abstract!Result
  <2> QED BY <1>3, <2>1, <2>2, <2>3
<1>6. CASE Remove(c)
  <2>1. /\ HashInv' /\ call' = c /\ c.kind = "remove" /\ Tells(c, data, res')
        /\ Items(data') = Items(data) \ {c.key}
    BY <1>6, RemoveStep
  <2>2. Abstract!Effect(c) = Items(data) \ {c.key}
    BY <2>1 DEF Abstract!Effect
  <2>3. Abstract!Result(c) = (c.key \in Items(data))
    BY <2>1 DEF Abstract!Result
  <2> QED BY <1>3, <2>1, <2>2, <2>3
<1>7. CASE Reserve(c)
  <2>1. /\ HashInv' /\ call' = c /\ c.kind = "reserve" /\ res' = {}
        /\ Items(data') = Items(data)
    BY <1>7, ReserveStep
  <2>2. Abstract!Effect(c) = Items(data) /\ Abstract!Result(c) = {}
    BY <2>1 DEF Abstract!Effect, Abstract!Result
  <2> QED BY <2>1, <2>2
<1>8. CASE Clear(c)
  <2>1. /\ HashInv' /\ call' = c /\ c.kind = "clear" /\ res' = {}
        /\ Items(data') = {}
    BY <1>8, ClearStep
  <2>2. Abstract!Effect(c) = {} /\ Abstract!Result(c) = {}
    BY <2>1 DEF Abstract!Effect, Abstract!Result
  <2> QED BY <2>1, <2>2
<1> QED BY <1>1, <1>4, <1>5, <1>6, <1>7, <1>8

\* The invariant, from Init and the steps.
LEMMA NextHashInv == HashInv /\ [Next]_vars => HashInv'
<1> SUFFICES ASSUME HashInv, [Next]_vars PROVE HashInv'
  OBVIOUS
<1>1. CASE Next
  BY <1>1, CallStep
<1>2. CASE UNCHANGED vars
  BY <1>2 DEF vars, HashInv
<1> QED BY <1>1, <1>2

LEMMA SpecHashInv == Spec => []HashInv
<1>1. Init => HashInv
  BY InitHashInv
<1> QED BY <1>1, NextHashInv, PTL DEF Spec

\* The number of slots is zero or a power of two that a status can address, and
\* `len` is the number of keys in them.
THEOREM TypeCorrect == Spec => []TypeOK
<1>1. HashInv => TypeOK
  <2> SUFFICES ASSUME HashInv PROVE TypeOK
    OBVIOUS
  <2>1. PICK n \in Nat : Sound(data, n, len, free)
    BY DEF HashInv
  <2>2. Array(data, n) /\ Capacity(n) /\ len = Cardinality(KeySlots(data))
    BY <2>1 DEF Sound, Counted
  <2>3. Slots(data) = n
    BY <2>2, ArraySlots
  <2>4. n \in {0} \cup {2 ^ i : i \in 0 .. StatusBits}
    BY <2>2 DEF Capacity
  <2> QED BY <2>2, <2>3, <2>4 DEF TypeOK, Array, KeySlots
<1> QED BY <1>1, SpecHashInv, PTL

\* Every search meets a free slot: a quarter of the slots stays free through any
\* sequence of insertions into tombstones, removals, clears and rehashes.
THEOREM SearchesEnd == Spec => []SearchEnds
<1>1. HashInv => SearchEnds
  <2> SUFFICES ASSUME HashInv PROVE SearchEnds
    OBVIOUS
  <2>1. PICK n \in Nat : Sound(data, n, len, free)
    BY DEF HashInv
  <2>2. /\ Array(data, n) /\ free <= Cardinality(FreeSlots(data)) /\ free >= n \div 4
    BY <2>1 DEF Sound, Counted
  <2>3. Slots(data) = n
    BY <2>2, ArraySlots
  <2> QED BY <2>2, <2>3 DEF SearchEnds, FreeSlots
<1> QED BY <1>1, SpecHashInv, PTL

\* Every key in a slot is found, whatever was removed or rehashed before.
THEOREM KeptKeysFound == Spec => []KeptIsFound
<1>1. HashInv => KeptIsFound
  <2> SUFFICES ASSUME HashInv, NEW k \in Items(data) PROVE find(table, k) = TRUE
    BY DEF KeptIsFound
  <2>1. PICK n \in Nat : Record(table, data, len, free) /\ Sound(data, n, len, free)
    BY OldState
  <2>2. k \in Keys
    BY DEF Items
  <2> QED BY <2>1, <2>2, FindAnswers
<1> QED BY <1>1, SpecHashInv, PTL

\* The table implements a set: every call answers and changes what it does for
\* the set of the keys in the slots.
THEOREM IsASet == Spec => Implements
<1>1. Init => Abstract!Init
  BY InitHashInv DEF Init, Abstract!Init, NoCall, Abstract!NoCall
<1>2. HashInv /\ [Next]_vars => [Abstract!Next]_(Abstract!vars)
  <2> SUFFICES ASSUME HashInv, [Next]_vars PROVE [Abstract!Next]_(Abstract!vars)
    OBVIOUS
  <2>1. CASE Next
    BY <2>1, CallStep
  <2>2. CASE UNCHANGED vars
    BY <2>2 DEF vars, Abstract!vars, Items
  <2> QED BY <2>1, <2>2
<1> QED BY <1>1, <1>2, SpecHashInv, PTL DEF Spec, Implements, Abstract!Spec

=============================================================================
