--------------------------- MODULE NumberTheorems ---------------------------
(***************************************************************************)
(* What the proofs need to know of numbers.  Induction over the natural    *)
(* numbers in terms of sets: the theorems of NaturalsInduction take the    *)
(* induction hypothesis as an operator, these take it as a set of numbers. *)
(* Minima and maxima, remainders and powers of two follow, then the sum of *)
(* a function over a finite set (SumFunctionOnSet).                        *)
(***************************************************************************)
EXTENDS Integers, FiniteSets, FiniteSetsExt, Functions, FiniteSetTheorems,
        WellFoundedInduction, TLAPS

\* A set of natural numbers that is not empty has a least element.
THEOREM LeastNatural ==
  ASSUME NEW T \in SUBSET Nat, T # {}
  PROVE  \E m \in T : \A k \in T : m <= k
<1> DEFINE Below(m) == 0 .. m
           B == {Below(m) : m \in T}
<1>1. B \subseteq FiniteSubsetsOf(Nat)
  <2> SUFFICES ASSUME NEW m \in T PROVE Below(m) \in FiniteSubsetsOf(Nat)
    OBVIOUS
  <2>1. m \in Int /\ 0 \in Int
    OBVIOUS
  <2>2. IsFiniteSet(0 .. m)
    BY <2>1, FS_Interval
  <2> QED BY <2>2 DEF FiniteSubsetsOf
<1>2. B # {}
  OBVIOUS
<1>3. PICK s \in B : \A u \in B : ~(<<u, s>> \in StrictSubsetOrdering(Nat))
  <2> HIDE DEF B
  <2> QED BY <1>1, <1>2, FS_StrictSubsetOrderingWellFounded, WFMin
<1>4. PICK m \in T : s = Below(m)
  OBVIOUS
<1>5. ASSUME NEW k \in T, k < m PROVE FALSE
  <2>1. Below(k) \in B /\ Below(k) \subseteq Nat /\ s \subseteq Nat
    BY <1>4
  <2>2. Below(k) \subseteq s /\ Below(k) # s
    <3>1. m \in s /\ m \notin Below(k)
      BY <1>4, <1>5
    <3> QED BY <3>1, <1>4, <1>5
  <2> HIDE DEF Below
  <2>3. <<Below(k), s>> \in StrictSubsetOrdering(Nat)
    BY <2>1, <2>2 DEF StrictSubsetOrdering
  <2> QED BY <1>3, <2>1, <2>3
<1> QED BY <1>5

\* A set that holds 0 and with each number below n the next one holds 0 .. n.
THEOREM InductionUpTo ==
  ASSUME NEW n \in Nat, NEW S, 0 \in S,
         \A i \in 0 .. n - 1 : i \in S => i + 1 \in S
  PROVE  0 .. n \subseteq S
<1> DEFINE T == {i \in 0 .. n : i \notin S}
<1> SUFFICES ASSUME T # {} PROVE FALSE
  OBVIOUS
<1>1. PICK m \in T : \A k \in T : m <= k
  <2>1. T \in SUBSET Nat
    OBVIOUS
  <2> HIDE DEF T
  <2> QED BY <2>1, LeastNatural
<1>2. m # 0 /\ m - 1 \in 0 .. n - 1
  OBVIOUS
<1>3. m - 1 \in S
  BY <1>1, <1>2
<1> QED BY <1>1, <1>2, <1>3

\* The steps F[1] ... F[n] stay in S.
StaysIn(F, n, S) == \A i \in 1 .. n : \A s \in S : F[i][s] \in S

\* A function that is defined by recursion over 0 .. n exists if each step stays
\* in a set.
THEOREM RecursionUpTo ==
  ASSUME NEW n \in Nat, NEW S, NEW x \in S, NEW F, StaysIn(F, n, S)
  PROVE  \E g \in [0 .. n -> S] : g[0] = x /\ \A i \in 1 .. n : g[i] = F[i][g[i - 1]]
<1> DEFINE Solves(g, k) == /\ g \in [0 .. k -> S] /\ g[0] = x
                           /\ \A i \in 1 .. k : g[i] = F[i][g[i - 1]]
           Good == {k \in 0 .. n : \E g : Solves(g, k)}
<1>1. 0 \in Good
  <2>1. Solves([i \in 0 .. 0 |-> x], 0)
    OBVIOUS
  <2> HIDE DEF Solves
  <2> QED BY <2>1
<1>2. ASSUME NEW k \in 0 .. n - 1, k \in Good PROVE k + 1 \in Good
  <2>1. PICK g : Solves(g, k)
    BY <1>2
  <2> DEFINE h == [i \in 0 .. k + 1 |-> IF i = k + 1 THEN F[k + 1][g[k]] ELSE g[i]]
  <2>2. k + 1 \in 1 .. n /\ g[k] \in S
    BY <2>1
  <2>3. h \in [0 .. k + 1 -> S] /\ h[0] = x
    BY <2>1, <2>2 DEF StaysIn
  <2>4. ASSUME NEW i \in 1 .. k + 1 PROVE h[i] = F[i][h[i - 1]]
    <3>1. i - 1 \in 0 .. k /\ i - 1 # k + 1
      OBVIOUS
    <3>2. h[i - 1] = g[i - 1]
      BY <3>1
    <3>3. CASE i = k + 1
      BY <3>2, <3>3
    <3>4. CASE i # k + 1
      <4>1. i \in 1 .. k
        BY <3>4
      <4> QED BY <2>1, <3>2, <4>1
    <3> QED BY <3>3, <3>4
  <2>5. Solves(h, k + 1)
    BY <2>3, <2>4
  <2>6. k + 1 \in 0 .. n
    OBVIOUS
  <2> HIDE DEF Solves, h
  <2> QED BY <2>5, <2>6
<1>3. n \in Good
  <2> HIDE DEF Good
  <2>1. 0 .. n \subseteq Good
    BY <1>1, <1>2, InductionUpTo
  <2> QED BY <2>1
<1> QED BY <1>3

\* Min returns the least element.
THEOREM MinNatural ==
  ASSUME NEW T \in SUBSET Nat, T # {}
  PROVE  Min(T) \in T /\ \A k \in T : Min(T) <= k
BY LeastNatural DEF Min

\* Max returns the greatest element of a set with an upper bound.
THEOREM MaxNatural ==
  ASSUME NEW T \in SUBSET Nat, T # {}, NEW b \in Nat, \A k \in T : k <= b
  PROVE  Max(T) \in T /\ \A k \in T : Max(T) >= k
<1> DEFINE U == {b - k : k \in T}
<1>1. U \in SUBSET Nat /\ U # {}
  <2>1. U \subseteq Nat
    <3> SUFFICES ASSUME NEW k \in T PROVE b - k \in Nat
      OBVIOUS
    <3>1. k \in Nat /\ k <= b
      OBVIOUS
    <3> QED BY <3>1
  <2>2. PICK k \in T : TRUE
    OBVIOUS
  <2>3. b - k \in U
    OBVIOUS
  <2> QED BY <2>1, <2>3
<1>2. PICK m \in U : \A k \in U : m <= k
  <2> HIDE DEF U
  <2> QED BY <1>1, LeastNatural
<1>3. b - m \in T /\ \A k \in T : b - m >= k
  <2>1. PICK t \in T : m = b - t
    OBVIOUS
  <2>2. \A k \in T : b - t <= b - k
    BY <1>2, <2>1
  <2>3. b - m = t
    BY <2>1
  <2>4. ASSUME NEW k \in T PROVE t >= k
    <3>1. b - t <= b - k
      BY <2>2
    <3>2. k \in Nat /\ t \in Nat
      OBVIOUS
    <3> QED BY <3>1, <3>2
  <2> QED BY <2>3, <2>4
<1>4. \E x \in T : \A y \in T : x >= y
  BY <1>3
<1> QED BY <1>4 DEF Max

-----------------------------------------------------------------------------
(* Positions modulo the size of a table.                                   *)

\* The remainder is the one number below n that differs by a multiple of n.
LEMMA RemainderUnique ==
  ASSUME NEW n \in Nat, n > 0, NEW q \in Int, NEW r \in 0 .. n - 1, NEW a, a = n * q + r
  PROVE  a % n = r
OBVIOUS

\* Every number is a multiple of n and a remainder.
LEMMA RemainderSplit ==
  ASSUME NEW n \in Nat, n > 0, NEW a \in Nat
  PROVE  \E q \in Nat, r \in 0 .. n - 1 : a = n * q + r /\ a % n = r
<1>1. a % n \in 0 .. n - 1 /\ a = n * (a \div n) + (a % n)
  OBVIOUS
<1>2. a \div n \in Nat
  OBVIOUS
<1> QED BY <1>1, <1>2

\* The position behind a position.
THEOREM NextPosition ==
  ASSUME NEW n \in Nat, n > 0, NEW a \in Nat
  PROVE  (a + 1) % n = ((a % n) + 1) % n
<1>1. PICK q \in Nat, r \in 0 .. n - 1 : a = n * q + r /\ a % n = r
  BY RemainderSplit
<1>2. PICK b, t : b = a + 1 /\ t = r + 1
  OBVIOUS
<1>3. b % n = t % n
  <2>1. CASE r < n - 1
    <3>1. t \in 0 .. n - 1 /\ b = n * q + t /\ t = n * 0 + t /\ 0 \in Int
      BY <1>1, <1>2, <2>1
    <3>2. b % n = t
      BY <3>1, RemainderUnique
    <3>3. t % n = t
      BY <3>1, RemainderUnique
    <3> QED BY <3>2, <3>3
  <2>2. CASE r = n - 1
    <3>1. PICK q1 \in Int : q1 = q + 1
      OBVIOUS
    <3>2. b = n * q1 + 0 /\ t = n * 1 + 0 /\ 0 \in 0 .. n - 1 /\ 1 \in Int
      BY <1>1, <1>2, <2>2, <3>1
    <3>3. b % n = 0
      BY <3>2, RemainderUnique
    <3>4. t % n = 0
      BY <3>2, RemainderUnique
    <3> QED BY <3>3, <3>4
  <2> QED BY <2>1, <2>2
<1> QED BY <1>1, <1>2, <1>3

\* A walk of n steps comes to every position.
THEOREM EveryPosition ==
  ASSUME NEW n \in Nat, n > 0, NEW h \in Nat, NEW s \in 0 .. n - 1
  PROVE  \E i \in 0 .. n - 1 : (h + i) % n = s
<1>1. PICK q \in Nat, r \in 0 .. n - 1 : h = n * q + r /\ h % n = r
  BY RemainderSplit
<1>2. CASE r <= s
  <2>1. PICK i, a : i = s - r /\ a = h + i
    OBVIOUS
  <2>2. i \in 0 .. n - 1 /\ a = n * q + s /\ q \in Int
    BY <1>1, <1>2, <2>1
  <2>3. a % n = s
    BY <2>2, RemainderUnique
  <2> QED BY <2>1, <2>2, <2>3
<1>3. CASE r > s
  <2>1. PICK i, a, p : i = s + n - r /\ a = h + i /\ p = q + 1
    OBVIOUS
  <2>2. i \in 0 .. n - 1 /\ a = n * p + s /\ p \in Int
    BY <1>1, <1>3, <2>1
  <2>3. a % n = s
    BY <2>2, RemainderUnique
  <2> QED BY <2>1, <2>2, <2>3
<1> QED BY <1>2, <1>3

\* x and y are i steps behind h; for x, h has been cut to a multiple of n.
Cut(n, M, h, i, x, y) ==
  /\ n \in Nat /\ n > 0 /\ \E m \in Nat : m > 0 /\ M = n * m
  /\ h \in Nat /\ i \in Nat /\ x = (h % M) + i /\ y = h + i

\* Cutting a number to a multiple of n does not change its remainder.
THEOREM CutRemainder ==
  ASSUME NEW n, NEW M, NEW h, NEW i, NEW x, NEW y, Cut(n, M, h, i, x, y)
  PROVE  x % n = y % n
<1> n \in Nat /\ n > 0 /\ h \in Nat /\ i \in Nat /\ x = (h % M) + i /\ y = h + i
  BY DEF Cut
<1>0. PICK m \in Nat : m > 0 /\ M = n * m
  BY DEF Cut
<1>1. M = n * m
  BY <1>0
<1>2. M \in Nat /\ M > 0
  BY <1>0, <1>1
<1>3. PICK q \in Nat, c \in 0 .. M - 1 : h = M * q + c /\ h % M = c
  BY <1>2, RemainderSplit
<1>4. c + i \in Nat
  BY <1>2
<1>5. PICK p \in Nat, r \in 0 .. n - 1 : c + i = n * p + r /\ (c + i) % n = r
  BY <1>4, RemainderSplit
<1>6. PICK a, k : a = h + i /\ k = m * q
  OBVIOUS
<1>7. k \in Nat /\ M * q = n * k
  BY <1>1, <1>6
<1>8. PICK z : z = n * k
  OBVIOUS
<1>9. z \in Nat
  BY <1>7, <1>8
<1>10. a = z + (c + i)
  <2>1. h = z + c
    BY <1>3, <1>7, <1>8
  <2> QED BY <1>6, <1>9, <2>1, <1>2
<1>11. PICK t \in Int : t = k + p
  BY <1>7
<1>12. n * t = n * k + n * p
  BY <1>7, <1>11
<1>13. a = n * t + r
  <2>1. PICK u, v, w : u = n * k /\ v = n * p /\ w = n * t
    OBVIOUS
  <2>2. u \in Nat /\ v \in Nat /\ w = u + v /\ a = u + (c + i) /\ c + i = v + r
    BY <1>5, <1>7, <1>8, <1>10, <1>12, <2>1
  <2>3. c + i \in Nat /\ r \in Nat
    BY <1>4, <1>5
  <2>4. a = w + r
    <3> HIDE <1>1
    <3> QED BY <2>2, <2>3
  <2> QED BY <2>1, <2>4
<1>14. a % n = r
  BY <1>13, RemainderUnique
<1> QED BY <1>1, <1>3, <1>5, <1>6, <1>14

-----------------------------------------------------------------------------
(* Powers of two. The provers know nothing of exponents; that a set of n   *)
(* elements has 2 ^ n subsets says enough.                                 *)

\* 2 ^ n is the number of subsets of 1 .. n.
LEMMA PowerIsSubsets ==
  ASSUME NEW n \in Nat
  PROVE  /\ IsFiniteSet(SUBSET (1 .. n))
         /\ Cardinality(SUBSET (1 .. n)) = 2 ^ n
         /\ 2 ^ n \in Nat
<1>1. IsFiniteSet(1 .. n) /\ Cardinality(1 .. n) = n
  <2>1. 1 \in Int /\ n \in Int
    OBVIOUS
  <2>2. IsFiniteSet(1 .. n) /\ Cardinality(1 .. n) = IF 1 > n THEN 0 ELSE n - 1 + 1
    BY <2>1, FS_Interval
  <2> QED BY <2>2
<1>2. IsFiniteSet(SUBSET (1 .. n)) /\ Cardinality(SUBSET (1 .. n)) = 2 ^ Cardinality(1 .. n)
  BY <1>1, FS_SUBSET
<1>3. Cardinality(SUBSET (1 .. n)) \in Nat
  BY <1>2, FS_CardinalityType
<1> QED BY <1>1, <1>2, <1>3

\* 2 ^ 0 is 1.
LEMMA PowerZero == 2 ^ 0 = 1
<1>1. Cardinality(SUBSET (1 .. 0)) = 2 ^ 0
  BY PowerIsSubsets
<1>2. SUBSET (1 .. 0) = {{}}
  OBVIOUS
<1> QED BY <1>1, <1>2, FS_Singleton

\* The next power is twice the power.
THEOREM PowerStep ==
  ASSUME NEW n \in Nat
  PROVE  2 ^ n \in Nat /\ 2 ^ (n + 1) = 2 * 2 ^ n
<1> DEFINE A == SUBSET (1 .. n)
           W(x) == x \cup {n + 1}
           B == {W(x) : x \in A}
           f == [x \in A |-> W(x)]
<1>1. IsFiniteSet(A) /\ Cardinality(A) = 2 ^ n /\ 2 ^ n \in Nat
  BY PowerIsSubsets
<1>2. Cardinality(SUBSET (1 .. n + 1)) = 2 ^ (n + 1)
  BY PowerIsSubsets
<1>3. ASSUME NEW x \in A PROVE n + 1 \notin x /\ W(x) \ {n + 1} = x
  OBVIOUS
<1>4. SUBSET (1 .. n + 1) = A \cup B /\ A \cap B = {}
  <2>1. ASSUME NEW y \in SUBSET (1 .. n + 1) PROVE y \in A \cup B
    <3>1. CASE n + 1 \in y
      <4>1. y \ {n + 1} \in A /\ y = W(y \ {n + 1})
        BY <3>1
      <4> QED BY <4>1
    <3>2. CASE n + 1 \notin y
      BY <3>2
    <3> QED BY <3>1, <3>2
  <2>2. ASSUME NEW x \in A PROVE x \in SUBSET (1 .. n + 1) /\ W(x) \in SUBSET (1 .. n + 1)
    <3>1. 1 .. n \subseteq 1 .. n + 1 /\ n + 1 \in 1 .. n + 1
      OBVIOUS
    <3> QED BY <3>1
  <2>3. A \cap B = {}
    OBVIOUS
  <2>4. A \cup B \subseteq SUBSET (1 .. n + 1)
    <3> HIDE DEF A, W
    <3> SUFFICES ASSUME NEW y \in A \cup B PROVE y \in SUBSET (1 .. n + 1)
      OBVIOUS
    <3> QED BY <2>2
  <2>5. SUBSET (1 .. n + 1) \subseteq A \cup B
    BY <2>1
  <2> HIDE DEF A, B
  <2> QED BY <2>3, <2>4, <2>5
<1>5. f \in Surjection(A, B)
  BY DEF Surjection
<1>6. f \in Injection(A, B)
  <2>1. ASSUME NEW x \in A, NEW y \in A, W(x) = W(y) PROVE x = y
    BY <1>3, <2>1
  <2>2. \A x \in A : f[x] = W(x)
    OBVIOUS
  <2>3. f \in [A -> B]
    OBVIOUS
  <2> HIDE DEF A, W, f, B
  <2> QED BY <2>1, <2>2, <2>3 DEF Injection, IsInjective
<1> HIDE DEF A, B, f
<1>7. IsFiniteSet(B) /\ Cardinality(B) = Cardinality(A)
  BY <1>1, <1>5, <1>6, FS_Surjection
<1>8. Cardinality(A \cup B) = Cardinality(A) + Cardinality(B) - Cardinality(A \cap B)
  BY <1>1, <1>7, FS_Union
<1>9. Cardinality(A \cap B) = 0
  BY <1>4, FS_EmptySet
<1>10. PICK p, q : p = 2 ^ n /\ q = 2 ^ (n + 1)
  OBVIOUS
<1>11. p \in Nat /\ q = p + p - 0
  BY <1>1, <1>2, <1>4, <1>7, <1>8, <1>9, <1>10
<1>12. q = 2 * p
  BY <1>11
<1> QED BY <1>10, <1>11, <1>12

\* A power divides the greater ones.
THEOREM PowerDivides ==
  ASSUME NEW a \in Nat, NEW b \in Nat, a <= b
  PROVE  \E m \in Nat : m > 0 /\ 2 ^ b = 2 ^ a * m /\ (a < b => m >= 2)
<1> DEFINE S == {j \in Nat : \E m \in Nat : /\ m > 0 /\ 2 ^ (a + j) = 2 ^ a * m
                                            /\ (j > 0 => m >= 2)}
<1>0. 2 ^ a \in Nat
  BY PowerStep
<1>1. 0 \in S
  <2>1. a + 0 = a /\ 1 \in Nat /\ 2 ^ a = 2 ^ a * 1
    BY <1>0
  <2> QED BY <2>1
<1>2. ASSUME NEW j \in 0 .. (b - a) - 1, j \in S PROVE j + 1 \in S
  <2>1. PICK m \in Nat : m > 0 /\ 2 ^ (a + j) = 2 ^ a * m
    BY <1>2
  <2>2. a + j \in Nat /\ (a + j) + 1 = a + (j + 1)
    OBVIOUS
  <2>3. 2 ^ (a + (j + 1)) = 2 * 2 ^ (a + j)
    BY <2>2, PowerStep
  <2>4. PICK p, k : p = 2 ^ a /\ k = 2 * m
    OBVIOUS
  <2>5. k \in Nat /\ k > 0 /\ k >= 2 /\ 2 * (p * m) = p * k
    BY <1>0, <2>1, <2>4
  <2>6. 2 ^ (a + (j + 1)) = 2 ^ a * k
    BY <2>1, <2>3, <2>4, <2>5
  <2>7. j + 1 \in Nat
    OBVIOUS
  <2> QED BY <2>5, <2>6, <2>7
<1>3. b - a \in S
  <2>1. b - a \in Nat /\ b - a \in 0 .. (b - a)
    OBVIOUS
  <2> HIDE DEF S
  <2>2. 0 .. (b - a) \subseteq S
    BY <1>1, <1>2, <2>1, InductionUpTo
  <2> QED BY <2>1, <2>2
<1>4. a + (b - a) = b /\ (a < b => b - a > 0)
  OBVIOUS
<1> QED BY <1>3, <1>4

\* A power is greater than its exponent.
THEOREM PowerAbove == ASSUME NEW n \in Nat PROVE 2 ^ n > n
<1> DEFINE S == {i \in Nat : 2 ^ i > i}
<1>1. 0 \in S
  BY PowerZero
<1>2. ASSUME NEW i \in 0 .. n - 1, i \in S PROVE i + 1 \in S
  <2>1. 2 ^ (i + 1) = 2 * 2 ^ i /\ 2 ^ i \in Nat
    BY PowerStep
  <2> DEFINE p == 2 ^ i
  <2>2. p > i
    BY <1>2
  <2> HIDE DEF p
  <2>3. p \in Nat
    BY <2>1 DEF p
  <2>4. 2 * p > i + 1
    BY <2>2, <2>3
  <2> QED BY <2>1, <2>4 DEF p
<1> HIDE DEF S
<1>3. 0 .. n \subseteq S
  BY <1>1, <1>2, InductionUpTo
<1> QED BY <1>3 DEF S

-----------------------------------------------------------------------------
(* Sums over finite sets.  SumFunctionOnSet is defined by recursion over    *)
(* an arbitrary enumeration of the set; the sum is shown to be a difference *)
(* of two cardinalities, which does not depend on the enumeration.          *)

\* f[x] points over x, and -f[x] points over x if that is negative.
Above(f, s) == {p \in s \X Nat : p[2] < f[p[1]]}
Under(f, s) == {p \in s \X Nat : p[2] < -f[p[1]]}
Points(f, s) == Cardinality(Above(f, s)) - Cardinality(Under(f, s))

\* Points over one element of the set.
Column(x, n) == {x} \X (0 .. n - 1)

\* A column has as many points as its height.
LEMMA ColumnSize ==
  ASSUME NEW x, NEW n \in Int
  PROVE  /\ IsFiniteSet(Column(x, n))
         /\ Cardinality(Column(x, n)) = IF n > 0 THEN n ELSE 0
<1>1. IsFiniteSet({x}) /\ Cardinality({x}) = 1
  BY FS_Singleton
<1>2. IsFiniteSet(0 .. n - 1) /\ Cardinality(0 .. n - 1) = IF n > 0 THEN n ELSE 0
  BY FS_Interval
<1>3. /\ IsFiniteSet(Column(x, n))
      /\ Cardinality(Column(x, n)) = Cardinality({x}) * Cardinality(0 .. n - 1)
  BY <1>1, <1>2, FS_Product DEF Column
<1> QED BY <1>1, <1>2, <1>3

\* There are finitely many points over a finite set.
LEMMA AboveFinite ==
  ASSUME NEW s, IsFiniteSet(s), NEW f, \A x \in s : f[x] \in Int
  PROVE  IsFiniteSet(Above(f, s))
<1> DEFINE col == [x \in s |-> Column(x, f[x])]
           T == {Column(x, f[x]) : x \in s}
<1>1. col \in Surjection(s, T)
  BY DEF Surjection
<1>2. IsFiniteSet(T)
  <2> HIDE DEF col, T
  <2> QED BY <1>1, FS_Surjection
<1>3. \A C \in T : IsFiniteSet(C)
  BY ColumnSize
<1>4. IsFiniteSet(UNION T)
  <2> HIDE DEF T
  <2> QED BY <1>2, <1>3, FS_UNION
<1>5. Above(f, s) \subseteq UNION T
  <2> SUFFICES ASSUME NEW p \in Above(f, s) PROVE p \in UNION T
    OBVIOUS
  <2>1. p \in Column(p[1], f[p[1]]) /\ p[1] \in s
    BY DEF Above, Column
  <2> QED BY <2>1
<1> QED BY <1>4, <1>5, FS_Subset

\* Taking one element away takes its column away.
LEMMA AboveStep ==
  ASSUME NEW s, IsFiniteSet(s), NEW f, \A x \in s : f[x] \in Int, NEW x \in s
  PROVE  /\ IsFiniteSet(Above(f, s)) /\ IsFiniteSet(Above(f, s \ {x}))
         /\ Cardinality(Above(f, s)) =
              Cardinality(Above(f, s \ {x})) + (IF f[x] > 0 THEN f[x] ELSE 0)
<1> DEFINE A == Above(f, s)
           B == Above(f, s \ {x})
           C == Column(x, f[x])
<1>1. IsFiniteSet(A)
  BY AboveFinite
<1>2. A = B \cup C /\ B \cap C = {}
  BY DEF Above, Column
<1>3. IsFiniteSet(C) /\ Cardinality(C) = IF f[x] > 0 THEN f[x] ELSE 0
  BY ColumnSize
<1> HIDE DEF A, B, C
<1>4. IsFiniteSet(B) /\ Cardinality(B \cap C) = 0 /\ Cardinality(B) \in Nat
  BY <1>1, <1>2, FS_Subset, FS_EmptySet, FS_CardinalityType
<1>5. Cardinality(A) = Cardinality(B) + Cardinality(C)
  <2>1. Cardinality(B \cup C) = Cardinality(B) + Cardinality(C) - Cardinality(B \cap C)
    BY <1>3, <1>4, FS_Union
  <2>2. Cardinality(C) \in Nat
    BY <1>3, FS_CardinalityType
  <2> QED BY <1>2, <1>4, <2>1, <2>2
<1> QED BY <1>1, <1>3, <1>4, <1>5 DEF A, B, C

\* The same for the points of both signs.
LEMMA PointsStep ==
  ASSUME NEW s, IsFiniteSet(s), NEW f, \A y \in s : f[y] \in Int, NEW x \in s
  PROVE  Points(f, s) = f[x] + Points(f, s \ {x}) /\ Points(f, s \ {x}) \in Int
<1> DEFINE g == [y \in s |-> -f[y]]
<1>1. \A y \in s : g[y] \in Int
  OBVIOUS
<1>2. Under(f, s) = Above(g, s) /\ Under(f, s \ {x}) = Above(g, s \ {x})
  BY DEF Under, Above
<1>3. g[x] = -f[x]
  OBVIOUS
<1> HIDE DEF g
<1>4. /\ IsFiniteSet(Above(f, s \ {x})) /\ IsFiniteSet(Above(g, s \ {x}))
      /\ Cardinality(Above(f, s)) =
           Cardinality(Above(f, s \ {x})) + (IF f[x] > 0 THEN f[x] ELSE 0)
      /\ Cardinality(Above(g, s)) =
           Cardinality(Above(g, s \ {x})) + (IF g[x] > 0 THEN g[x] ELSE 0)
  BY <1>1, AboveStep
<1>5. /\ Cardinality(Above(f, s \ {x})) \in Nat
      /\ Cardinality(Above(g, s \ {x})) \in Nat
  BY <1>4, FS_CardinalityType
<1> QED BY <1>2, <1>3, <1>4, <1>5 DEF Points

\* There are no points over nothing.
LEMMA PointsEmpty == ASSUME NEW f PROVE Points(f, {}) = 0
<1>1. Above(f, {}) = {} /\ Under(f, {}) = {}
  BY DEF Above, Under
<1> QED BY <1>1, FS_EmptySet DEF Points

\* The recursion of MapThenFoldSet, for sums.
Recursion(g, f, S) ==
  g = [s \in SUBSET S |->
         IF s = {} THEN 0
         ELSE f[CHOOSE x \in s : TRUE] + g[s \ {CHOOSE x \in s : TRUE}]]

\* SumFunctionOnSet is the value of that recursion.
LEMMA SumIsRecursion ==
  ASSUME NEW f, NEW S
  PROVE  SumFunctionOnSet(f, S) = (CHOOSE g : Recursion(g, f, S))[S]
BY DEF SumFunctionOnSet, FoldFunctionOnSet, MapThenFoldSet, Recursion

\* The sum of f over a finite set is the number of points.
LEMMA SumIsPoints ==
  ASSUME NEW S, IsFiniteSet(S), NEW f, \A x \in S : f[x] \in Int
  PROVE  SumFunctionOnSet(f, S) = Points(f, S)
<1>1. ASSUME NEW s \in SUBSET S PROVE IsFiniteSet(s) /\ \A x \in s : f[x] \in Int
  BY FS_Subset
<1> DEFINE p == [s \in SUBSET S |-> Points(f, s)]
           x(s) == CHOOSE y \in s : TRUE
<1>2. Recursion(p, f, S)
  <2>1. ASSUME NEW s \in SUBSET S
        PROVE  p[s] = IF s = {} THEN 0 ELSE f[x(s)] + p[s \ {x(s)}]
    <3>1. CASE s = {}
      BY <3>1, PointsEmpty
    <3>2. CASE s # {}
      <4>1. x(s) \in s
        BY <3>2
      <4> HIDE DEF x
      <4>2. Points(f, s) = f[x(s)] + Points(f, s \ {x(s)})
        BY <1>1, <4>1, PointsStep
      <4> QED BY <3>2, <4>1, <4>2
    <3> QED BY <3>1, <3>2
  <2>2. p = [s \in SUBSET S |-> IF s = {} THEN 0 ELSE f[x(s)] + p[s \ {x(s)}]]
    BY <2>1
  <2> QED BY <2>2 DEF Recursion
<1> DEFINE g == CHOOSE h : Recursion(h, f, S)
<1>3. Recursion(g, f, S)
  BY <1>2
<1> HIDE DEF g, p
<1>4. \A s \in SUBSET S : g[s] = p[s]
  <2> DEFINE Bad == {s \in SUBSET S : g[s] # p[s]}
  <2> SUFFICES ASSUME Bad # {} PROVE FALSE
    OBVIOUS
  <2>1. Bad \subseteq FiniteSubsetsOf(S)
    BY <1>1 DEF FiniteSubsetsOf
  <2>2. PICK s \in Bad : \A u \in Bad : ~(<<u, s>> \in StrictSubsetOrdering(S))
    <3> HIDE DEF Bad
    <3> QED BY <2>1, FS_StrictSubsetOrderingWellFounded, WFMin
  <2>3. s # {}
    BY <1>2, <1>3 DEF Recursion
  <2>4. x(s) \in s
    BY <2>3
  <2>5. /\ g[s] = f[x(s)] + g[s \ {x(s)}]
        /\ p[s] = f[x(s)] + p[s \ {x(s)}]
    BY <1>2, <1>3, <2>3 DEF Recursion
  <2> HIDE DEF x
  <2>6. s \ {x(s)} \in Bad
    BY <2>4, <2>5
  <2>7. <<s \ {x(s)}, s>> \in StrictSubsetOrdering(S)
    BY <2>1, <2>4, <2>6 DEF StrictSubsetOrdering, FiniteSubsetsOf
  <2> QED BY <2>2, <2>6, <2>7
<1>5. SumFunctionOnSet(f, S) = g[S]
  BY SumIsRecursion DEF g
<1> QED BY <1>4, <1>5 DEF p

-----------------------------------------------------------------------------
\* The sum over the empty set is 0.
THEOREM SumEmpty == ASSUME NEW f PROVE SumFunctionOnSet(f, {}) = 0
BY SumIsPoints, PointsEmpty, FS_EmptySet

\* One summand can be taken out of a sum, whichever it is.
THEOREM SumStep ==
  ASSUME NEW S, IsFiniteSet(S), NEW f, \A y \in S : f[y] \in Int, NEW x \in S
  PROVE  /\ SumFunctionOnSet(f, S \ {x}) \in Int
         /\ SumFunctionOnSet(f, S) = f[x] + SumFunctionOnSet(f, S \ {x})
<1>1. IsFiniteSet(S \ {x})
  BY FS_Subset
<1>2. SumFunctionOnSet(f, S) = Points(f, S)
  BY SumIsPoints
<1>3. SumFunctionOnSet(f, S \ {x}) = Points(f, S \ {x})
  BY <1>1, SumIsPoints
<1> QED BY <1>2, <1>3, PointsStep

\* Functions that agree on the set have the same sum over it.
THEOREM SumSame ==
  ASSUME NEW S, IsFiniteSet(S), NEW f, NEW g,
         \A x \in S : f[x] \in Int /\ g[x] = f[x]
  PROVE  SumFunctionOnSet(g, S) = SumFunctionOnSet(f, S)
<1>1. Above(f, S) = Above(g, S) /\ Under(f, S) = Under(g, S)
  BY DEF Above, Under
<1>2. Points(f, S) = Points(g, S)
  BY <1>1 DEF Points
<1> QED BY <1>2, SumIsPoints

\* A sum of integers is an integer.
THEOREM SumType ==
  ASSUME NEW S, IsFiniteSet(S), NEW f, \A x \in S : f[x] \in Int
  PROVE  SumFunctionOnSet(f, S) \in Int
<1>1. CASE S = {}
  BY <1>1, SumEmpty
<1>2. CASE S # {}
  <2>1. PICK x : x \in S
    BY <1>2
  <2>2. /\ SumFunctionOnSet(f, S \ {x}) \in Int
        /\ SumFunctionOnSet(f, S) = f[x] + SumFunctionOnSet(f, S \ {x})
    BY <2>1, SumStep
  <2>3. f[x] \in Int
    BY <2>1
  <2> QED BY <2>2, <2>3
<1> QED BY <1>1, <1>2

\* A change of one summand changes the sum by as much.
THEOREM SumChange ==
  ASSUME NEW S, IsFiniteSet(S), NEW f, NEW g, NEW x \in S,
         \A y \in S : f[y] \in Int /\ g[y] \in Int,
         \A y \in S \ {x} : g[y] = f[y]
  PROVE  SumFunctionOnSet(g, S) = SumFunctionOnSet(f, S) - f[x] + g[x]
<1>1. IsFiniteSet(S \ {x})
  BY FS_Subset
<1>2. SumFunctionOnSet(g, S \ {x}) = SumFunctionOnSet(f, S \ {x})
  BY <1>1, SumSame
<1>3. /\ SumFunctionOnSet(f, S \ {x}) \in Int
      /\ SumFunctionOnSet(f, S) = f[x] + SumFunctionOnSet(f, S \ {x})
      /\ SumFunctionOnSet(g, S) = g[x] + SumFunctionOnSet(g, S \ {x})
  BY SumStep
<1>4. f[x] \in Int /\ g[x] \in Int
  OBVIOUS
<1> QED BY <1>2, <1>3, <1>4

\* A sum of natural numbers is none smaller than its summands.
THEOREM SumBound ==
  ASSUME NEW S, IsFiniteSet(S), NEW f, \A x \in S : f[x] \in Nat
  PROVE  /\ SumFunctionOnSet(f, S) \in Nat
         /\ \A x \in S : f[x] <= SumFunctionOnSet(f, S)
<1>1. ASSUME NEW s \in SUBSET S PROVE SumFunctionOnSet(f, s) \in Nat
  <2>1. IsFiniteSet(s) /\ \A x \in s : f[x] \in Int /\ ~(f[x] < 0)
    BY FS_Subset
  <2>2. Under(f, s) = {}
    BY <2>1 DEF Under
  <2>3. SumFunctionOnSet(f, s) = Cardinality(Above(f, s)) - 0
    BY <2>1, <2>2, SumIsPoints, FS_EmptySet DEF Points
  <2>4. Cardinality(Above(f, s)) \in Nat
    BY <2>1, AboveFinite, FS_CardinalityType
  <2> QED BY <2>3, <2>4
<1>2. ASSUME NEW x \in S PROVE f[x] <= SumFunctionOnSet(f, S)
  <2>1. SumFunctionOnSet(f, S) = f[x] + SumFunctionOnSet(f, S \ {x})
    BY SumStep
  <2>2. SumFunctionOnSet(f, S \ {x}) \in Nat /\ f[x] \in Nat
    BY <1>1
  <2> QED BY <2>1, <2>2
<1> QED BY <1>1, <1>2

\* The sum of zeros.
THEOREM SumZero ==
  ASSUME NEW S, IsFiniteSet(S), NEW f, \A x \in S : f[x] = 0
  PROVE  SumFunctionOnSet(f, S) = 0
<1>1. Above(f, S) = {} /\ Under(f, S) = {}
  BY DEF Above, Under
<1>2. \A x \in S : f[x] \in Int
  OBVIOUS
<1> QED BY <1>1, <1>2, SumIsPoints, FS_EmptySet DEF Points

=============================================================================
