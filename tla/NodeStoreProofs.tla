--------------------------- MODULE NodeStoreProofs ---------------------------
(***************************************************************************)
(* Proof that no slot of a node store is ever handed out twice and none is *)
(* ever lost, for any threads, stores, capacities and chunk size; and that *)
(* a local state that serves no store has no uncommitted count, and the    *)
(* node counter never runs behind the nodes.                               *)
(***************************************************************************)
EXTENDS NodeStore, NumberTheorems, SequenceTheorems

(***************************************************************************)
(* The argument is about four values of one store: the set N of slots that *)
(* hold a node, the sequence L of shared free lists, the slots O[t] a      *)
(* thread may hand out on its own, and the number A of slots that have     *)
(* left the uninitialised part of the array.  Sound says that these parts  *)
(* are disjoint, Covered that they make up the allocated slots.            *)
(***************************************************************************)
Covered(N, L, O, A) ==
  \A i \in 0 .. A - 1 :
    \/ i \in N
    \/ \E k \in 1 .. Len(L) : i \in L[k]
    \/ \E t \in Threads : i \in O[t]

Sound(N, L, O, A) ==
  /\ N \subseteq 0 .. A - 1
  /\ \A k \in 1 .. Len(L) : L[k] \subseteq 0 .. A - 1 /\ L[k] \cap N = {}
  /\ \A j, k \in 1 .. Len(L) : j # k => L[j] \cap L[k] = {}
  /\ \A t \in Threads : O[t] \subseteq 0 .. A - 1 /\ O[t] \cap N = {}
  /\ \A t \in Threads : \A k \in 1 .. Len(L) : O[t] \cap L[k] = {}
  /\ \A t, u \in Threads : t # u => O[t] \cap O[u] = {}
  /\ Covered(N, L, O, A)

\* A thread hands out a slot of its own.
LEMMA TakeOwned ==
  ASSUME NEW N, NEW L, NEW O \in [Threads -> SUBSET Nat], NEW A \in Nat,
         Sound(N, L, O, A), NEW t \in Threads, NEW i \in O[t]
  PROVE  Sound(N \cup {i}, L, [O EXCEPT ![t] = @ \ {i}], A)
<1>1. Covered(N \cup {i}, L, [O EXCEPT ![t] = @ \ {i}], A)
  BY DEF Sound, Covered
<1> QED BY <1>1 DEF Sound

\* A freed slot becomes the thread's own.
LEMMA FreeToOwned ==
  ASSUME NEW N, NEW L, NEW O \in [Threads -> SUBSET Nat], NEW A \in Nat,
         Sound(N, L, O, A), NEW t \in Threads, NEW i \in N
  PROVE  Sound(N \ {i}, L, [O EXCEPT ![t] = @ \cup {i}], A)
<1>1. Covered(N \ {i}, L, [O EXCEPT ![t] = @ \cup {i}], A)
  BY DEF Sound, Covered
<1> QED BY <1>1 DEF Sound

\* What remains when the last list is popped.
LEMMA FrontFacts ==
  ASSUME NEW S, NEW L \in Seq(S), L # <<>>
  PROVE  /\ Len(L) \in Nat \ {0}
         /\ Last(L) = L[Len(L)] /\ Last(L) \in S
         /\ Front(L) \in Seq(S)
         /\ Len(Front(L)) = Len(L) - 1
         /\ \A k \in 1 .. Len(L) - 1 : Front(L)[k] = L[k]
<1> DEFINE m == Len(L) - 1
<1>1. m \in Nat /\ m + 1 = Len(L)
  BY EmptySeq
<1>2. \A k \in 1 .. m : L[k] \in S
  BY <1>1
<1>3. Len(SubSeq(L, 1, m)) = m
  <2> HIDE DEF m
  <2> QED BY <1>1, <1>2, SubSeqProperties
<1>4. Front(L) \in Seq(S) /\ \A k \in 1 .. m : Front(L)[k] = L[k]
  BY <1>1 DEF Front
<1> QED
  BY <1>1, <1>3, <1>4 DEF Front, Last

\* A thread takes over the last shared list and hands out one of its slots.
LEMMA TakeList ==
  ASSUME NEW N, NEW L \in Seq(SUBSET Nat), NEW O \in [Threads -> SUBSET Nat],
         NEW A \in Nat, Sound(N, L, O, A), NEW t \in Threads, O[t] = {},
         L # <<>>, NEW i \in Last(L)
  PROVE  Sound(N \cup {i}, Front(L), [O EXCEPT ![t] = Last(L) \ {i}], A)
<1> DEFINE n == Len(L)
           M == Front(L)
           K == Last(L) \ {i}
           P == [O EXCEPT ![t] = K]
<1>1. /\ n \in Nat \ {0} /\ K = L[n] \ {i} /\ i \in L[n]
      /\ Len(M) = n - 1 /\ \A k \in 1 .. n - 1 : M[k] = L[k]
  BY FrontFacts
<1>2. P[t] = K /\ \A u \in Threads \ {t} : P[u] = O[u]
  OBVIOUS
<1>3. n \in 1 .. n /\ \A k \in 1 .. n - 1 : k \in 1 .. n /\ k # n
  BY <1>1
<1>4. /\ L[n] \subseteq 0 .. A - 1 /\ L[n] \cap N = {}
      /\ \A u \in Threads : O[u] \cap L[n] = {}
      /\ \A k \in 1 .. n - 1 : /\ M[k] \subseteq 0 .. A - 1
                               /\ M[k] \cap N = {} /\ M[k] \cap L[n] = {}
                               /\ \A u \in Threads : O[u] \cap M[k] = {}
      /\ \A j, k \in 1 .. n - 1 : j # k => M[j] \cap M[k] = {}
  <2> HIDE DEF M, K, P
  <2>1. /\ L[n] \subseteq 0 .. A - 1 /\ L[n] \cap N = {}
        /\ \A u \in Threads : O[u] \cap L[n] = {}
    BY <1>3 DEF Sound
  <2>2. ASSUME NEW k \in 1 .. n - 1
        PROVE  /\ M[k] \subseteq 0 .. A - 1
               /\ M[k] \cap N = {} /\ M[k] \cap L[n] = {}
               /\ \A u \in Threads : O[u] \cap M[k] = {}
    <3>1. k \in 1 .. n /\ n \in 1 .. n /\ k # n /\ M[k] = L[k]
      BY <1>1, <1>3
    <3> QED BY <3>1 DEF Sound
  <2>3. ASSUME NEW j \in 1 .. n - 1, NEW k \in 1 .. n - 1, j # k
        PROVE  M[j] \cap M[k] = {}
    <3>1. j \in 1 .. n /\ k \in 1 .. n /\ M[j] = L[j] /\ M[k] = L[k]
      BY <1>1, <1>3
    <3> QED BY <2>3, <3>1 DEF Sound
  <2> QED BY <2>1, <2>2, <2>3
<1> HIDE DEF n, M, K, P
<1>5. \A u \in Threads : P[u] \subseteq 0 .. A - 1 /\ P[u] \cap (N \cup {i}) = {}
  BY <1>1, <1>2, <1>4 DEF Sound
<1>6. \A u \in Threads : \A k \in 1 .. n - 1 : P[u] \cap M[k] = {}
  BY <1>1, <1>2, <1>4
<1>7. \A u, v \in Threads : u # v => P[u] \cap P[v] = {}
  BY <1>1, <1>2, <1>4 DEF Sound
<1>8. /\ N \cup {i} \subseteq 0 .. A - 1
      /\ \A k \in 1 .. n - 1 : M[k] \cap (N \cup {i}) = {}
  <2>1. N \subseteq 0 .. A - 1
    BY DEF Sound
  <2> QED BY <1>1, <1>4, <2>1
<1>9. Covered(N \cup {i}, M, P, A)
  <2> SUFFICES ASSUME NEW x \in 0 .. A - 1
               PROVE  \/ x \in N \cup {i}
                      \/ \E k \in 1 .. n - 1 : x \in M[k]
                      \/ \E u \in Threads : x \in P[u]
    BY <1>1 DEF Covered
  <2>1. CASE x \in N
    BY <2>1
  <2>2. ASSUME NEW k \in 1 .. n, x \in L[k]
        PROVE  x \in {i} \cup P[t] \/ \E j \in 1 .. n - 1 : x \in M[j]
    BY <1>1, <1>2, <2>2
  <2>3. ASSUME NEW u \in Threads, x \in O[u] PROVE x \in P[u]
    BY <1>2, <2>3
  <2> QED BY <2>1, <2>2, <2>3 DEF Sound, Covered, n
<1>10. Sound(N \cup {i}, M, P, A)
  BY <1>1, <1>4, <1>5, <1>6, <1>7, <1>8, <1>9 DEF Sound
<1> QED
  BY <1>10 DEF M, P, K

\* An empty last list leaves the vector.
LEMMA PopList ==
  ASSUME NEW N, NEW L \in Seq(SUBSET Nat), NEW O \in [Threads -> SUBSET Nat],
         NEW A \in Nat, Sound(N, L, O, A), L # <<>>, Last(L) = {}
  PROVE  Sound(N, Front(L), O, A)
<1> DEFINE M == Front(L)
<1>1. /\ Len(L) \in Nat \ {0} /\ Len(M) = Len(L) - 1 /\ L[Len(L)] = {}
      /\ \A k \in 1 .. Len(L) - 1 : M[k] = L[k]
  BY FrontFacts
<1>2. \A k \in 1 .. Len(M) : k \in 1 .. Len(L) /\ M[k] = L[k]
  BY <1>1
<1> HIDE DEF M
<1>3. \A k \in 1 .. Len(L) : k # Len(L) => k \in 1 .. Len(M) /\ M[k] = L[k]
  BY <1>1
<1>4. Covered(N, M, O, A)
  BY <1>1, <1>3 DEF Sound, Covered
<1>5. Sound(N, M, O, A)
  BY <1>2, <1>4 DEF Sound
<1> QED
  BY <1>5 DEF M

\* One slot of the last shared list is handed out, the rest is put back.
LEMMA TakeFromList ==
  ASSUME NEW N, NEW L \in Seq(SUBSET Nat), NEW O \in [Threads -> SUBSET Nat],
         NEW A \in Nat, Sound(N, L, O, A), L # <<>>, NEW i \in Last(L)
  PROVE  Sound(N \cup {i}, Append(Front(L), Last(L) \ {i}), O, A)
<1> DEFINE n == Len(L)
           K == Last(L) \ {i}
           M == Append(Front(L), K)
<1>1. n \in Nat \ {0} /\ K = L[n] \ {i} /\ i \in L[n] /\ K \in SUBSET Nat
  BY FrontFacts
<1>2. Front(L) \in Seq(SUBSET Nat) /\ Len(Front(L)) = n - 1
      /\ \A k \in 1 .. n - 1 : Front(L)[k] = L[k]
  BY FrontFacts
<1> HIDE DEF n, K
<1>3. Len(M) = n /\ M[n] = K /\ \A k \in 1 .. n - 1 : M[k] = L[k]
  BY <1>1, <1>2, AppendProperties
<1> HIDE DEF M
<1>4. n \in 1 .. n /\ \A k \in 1 .. n : k # n => k \in 1 .. n - 1
  BY <1>1
<1>5. \A k \in 1 .. n : M[k] \subseteq L[k] /\ i \notin M[k]
  <2> SUFFICES ASSUME NEW k \in 1 .. n PROVE M[k] \subseteq L[k] /\ i \notin M[k]
    OBVIOUS
  <2>1. k # n => L[k] \cap L[n] = {}
    BY <1>4 DEF Sound, n
  <2> QED BY <2>1, <1>1, <1>3, <1>4
<1>6. i \in 0 .. A - 1 /\ \A t \in Threads : i \notin O[t]
  BY <1>1, <1>4 DEF Sound, n
<1>7. Sound(N \cup {i}, M, O, A)
  <2>1. \A k \in 1 .. n : M[k] \subseteq 0 .. A - 1 /\ M[k] \cap (N \cup {i}) = {}
    BY <1>5 DEF Sound, n
  <2>2. \A j, k \in 1 .. n : j # k => M[j] \cap M[k] = {}
    BY <1>5 DEF Sound, n
  <2>3. \A t \in Threads : \A k \in 1 .. n : O[t] \cap M[k] = {}
    BY <1>5 DEF Sound, n
  <2>4. \A k \in 1 .. n : L[k] \subseteq M[k] \cup {i}
    BY <1>1, <1>3, <1>4
  <2>5. Covered(N \cup {i}, M, O, A)
    BY <1>3, <2>4 DEF Sound, Covered, n
  <2> QED BY <2>1, <2>2, <2>3, <2>5, <1>3, <1>6 DEF Sound
<1> QED
  BY <1>7 DEF M, K

\* A freed slot is put in front of the last shared list.
LEMMA FreeToList ==
  ASSUME NEW N, NEW L \in Seq(SUBSET Nat), NEW O \in [Threads -> SUBSET Nat],
         NEW A \in Nat, Sound(N, L, O, A), L # <<>>, NEW i \in N, i \in Nat
  PROVE  Sound(N \ {i}, Append(Front(L), Last(L) \cup {i}), O, A)
<1> DEFINE n == Len(L)
           M == Append(Front(L), Last(L) \cup {i})
<1>1. /\ n \in Nat \ {0} /\ n \in 1 .. n
      /\ Len(M) = n /\ M[n] = L[n] \cup {i}
      /\ \A k \in 1 .. n - 1 : M[k] = L[k]
  <2>1. /\ n \in Nat \ {0} /\ Last(L) = L[n] /\ Last(L) \in SUBSET Nat
        /\ Front(L) \in Seq(SUBSET Nat) /\ Len(Front(L)) = n - 1
        /\ \A k \in 1 .. n - 1 : Front(L)[k] = L[k]
    BY FrontFacts
  <2>2. Last(L) \cup {i} \in SUBSET Nat
    BY <2>1
  <2> QED BY <2>1, <2>2, AppendProperties
<1> HIDE DEF M
<1>2. \A k \in 1 .. n : L[k] \subseteq M[k]
  BY <1>1
<1>3. Covered(N \ {i}, M, O, A)
  BY <1>1, <1>2 DEF Sound, Covered
<1>4. \A k \in 1 .. n : k # n => M[k] = L[k]
  BY <1>1
<1>5. /\ \A k \in 1 .. n : M[k] \subseteq 0 .. A - 1 /\ M[k] \cap (N \ {i}) = {}
      /\ \A j, k \in 1 .. n : j # k => M[j] \cap M[k] = {}
      /\ \A t \in Threads : \A k \in 1 .. n : O[t] \cap M[k] = {}
  <2>1. \A k \in 1 .. n : M[k] \subseteq 0 .. A - 1 /\ M[k] \cap (N \ {i}) = {}
    BY <1>1, <1>4 DEF Sound
  <2>2. \A j, k \in 1 .. n : j # k => M[j] \cap M[k] = {}
    BY <1>1, <1>4 DEF Sound
  <2>3. \A t \in Threads : \A k \in 1 .. n : O[t] \cap M[k] = {}
    BY <1>1, <1>4 DEF Sound
  <2> QED BY <2>1, <2>2, <2>3
<1>6. Sound(N \ {i}, M, O, A)
  BY <1>1, <1>3, <1>5 DEF Sound
<1> QED BY <1>6 DEF M

\* A freed slot starts a new shared list.
LEMMA FreeToNewList ==
  ASSUME NEW N, NEW L \in Seq(SUBSET Nat), NEW O \in [Threads -> SUBSET Nat],
         NEW A \in Nat, Sound(N, L, O, A), NEW i \in N, i \in Nat
  PROVE  Sound(N \ {i}, Append(L, {i}), O, A)
<1> DEFINE n == Len(L)
           M == Append(L, {i})
<1>1. /\ Len(M) = n + 1 /\ M[n + 1] = {i} /\ n \in Nat
      /\ \A k \in 1 .. n : M[k] = L[k] /\ k \in 1 .. n + 1
      /\ \A k \in 1 .. n + 1 : k # n + 1 => k \in 1 .. n
      /\ n + 1 \in 1 .. n + 1
  OBVIOUS
<1> HIDE DEF M
<1>2. Covered(N \ {i}, M, O, A)
  BY <1>1 DEF Sound, Covered
<1>3. /\ \A k \in 1 .. n + 1 : M[k] \subseteq 0 .. A - 1 /\ M[k] \cap (N \ {i}) = {}
      /\ \A j, k \in 1 .. n + 1 : j # k => M[j] \cap M[k] = {}
      /\ \A t \in Threads : \A k \in 1 .. n + 1 : O[t] \cap M[k] = {}
  <2>1. /\ \A k \in 1 .. n + 1 : k # n + 1 => M[k] = L[k] /\ k \in 1 .. Len(L)
        /\ \A k \in 1 .. n + 1 : k = n + 1 => M[k] = {i}
    BY <1>1
  <2>2. \A k \in 1 .. n + 1 : M[k] \subseteq 0 .. A - 1 /\ M[k] \cap (N \ {i}) = {}
    BY <2>1 DEF Sound
  <2>3. \A j, k \in 1 .. n + 1 : j # k => M[j] \cap M[k] = {}
    BY <2>1 DEF Sound
  <2>4. \A t \in Threads : \A k \in 1 .. n + 1 : O[t] \cap M[k] = {}
    BY <2>1 DEF Sound
  <2> QED BY <2>2, <2>3, <2>4
<1>4. Sound(N \ {i}, M, O, A)
  BY <1>1, <1>2, <1>3 DEF Sound
<1> QED BY <1>4 DEF M

\* A thread returns some of the slots it owns as a new shared list.
LEMMA ReturnOwned ==
  ASSUME NEW N, NEW L \in Seq(SUBSET Nat), NEW O \in [Threads -> SUBSET Nat],
         NEW A \in Nat, Sound(N, L, O, A), NEW t \in Threads, NEW K \in SUBSET O[t]
  PROVE  Sound(N, Append(L, K), [O EXCEPT ![t] = @ \ K], A)
<1> DEFINE n == Len(L)
           M == Append(L, K)
           P == [O EXCEPT ![t] = @ \ K]
<1>1. /\ Len(M) = n + 1 /\ M[n + 1] = K /\ n \in Nat
      /\ \A k \in 1 .. n : M[k] = L[k]
  BY AppendProperties
<1>2. P[t] = O[t] \ K /\ \A u \in Threads \ {t} : P[u] = O[u]
  OBVIOUS
<1>3. \A k \in 1 .. n + 1 : k # n + 1 => k \in 1 .. n
  BY <1>1
<1> HIDE DEF M, P
<1>4. /\ \A k \in 1 .. n + 1 : M[k] \subseteq 0 .. A - 1 /\ M[k] \cap N = {}
      /\ \A j, k \in 1 .. n + 1 : j # k => M[j] \cap M[k] = {}
  BY <1>1, <1>3 DEF Sound
<1>5. \A u \in Threads : \A k \in 1 .. n + 1 : P[u] \cap M[k] = {}
  BY <1>1, <1>2, <1>3 DEF Sound
<1>6. Covered(N, M, P, A)
  <2>1. \A k \in 1 .. n : k \in 1 .. n + 1 /\ L[k] = M[k]
    BY <1>1
  <2>2. n + 1 \in 1 .. n + 1
    BY <1>1
  <2>3. \A u \in Threads : O[u] \subseteq P[u] \cup M[n + 1]
    BY <1>1, <1>2
  <2> QED BY <1>1, <2>1, <2>2, <2>3 DEF Sound, Covered
<1>7. /\ \A u \in Threads : P[u] \subseteq O[u]
      /\ Sound(N, M, P, A)
  BY <1>1, <1>2, <1>4, <1>5, <1>6 DEF Sound
<1> QED BY <1>7 DEF M, P

\* Fresh slots A .. B-1: the first is handed out, the thread keeps the rest.
LEMMA TakeFresh ==
  ASSUME NEW N, NEW L, NEW O \in [Threads -> SUBSET Nat], NEW A \in Nat,
         NEW B \in Nat, A < B, NEW R, R = A + 1 .. B - 1,
         Sound(N, L, O, A), NEW t \in Threads, O[t] = {}
  PROVE  Sound(N \cup {A}, L, [O EXCEPT ![t] = R], B)
<1> DEFINE P == [O EXCEPT ![t] = R]
<1>1. P[t] = R /\ \A u \in Threads \ {t} : P[u] = O[u]
  OBVIOUS
<1>2. A \notin 0 .. A - 1 /\ A \in 0 .. B - 1 /\ A \notin R
  OBVIOUS
<1>3. 0 .. A - 1 \subseteq 0 .. B - 1 /\ R \subseteq 0 .. B - 1
      /\ R \cap 0 .. A - 1 = {}
  OBVIOUS
<1> HIDE DEF P
<1>4. Sound(N \cup {A}, L, P, B)
  <2>1. N \cup {A} \subseteq 0 .. B - 1
    BY <1>2, <1>3 DEF Sound
  <2>2. \A k \in 1 .. Len(L) : L[k] \subseteq 0 .. B - 1 /\ L[k] \cap (N \cup {A}) = {}
    BY <1>2, <1>3 DEF Sound
  <2>3. ASSUME NEW u \in Threads
        PROVE  P[u] \subseteq 0 .. B - 1 /\ P[u] \cap (N \cup {A}) = {}
    <3>1. N \subseteq 0 .. A - 1 /\ O[u] \subseteq 0 .. A - 1 /\ O[u] \cap N = {}
      BY DEF Sound
    <3>2. CASE u = t
      BY <1>1, <1>2, <1>3, <3>1, <3>2
    <3>3. CASE u # t
      BY <1>1, <1>2, <1>3, <3>1, <3>3
    <3> QED BY <3>2, <3>3
  <2>4. \A u \in Threads : \A k \in 1 .. Len(L) : P[u] \cap L[k] = {}
    BY <1>1, <1>3 DEF Sound
  <2>5. \A u, v \in Threads : u # v => P[u] \cap P[v] = {}
    BY <1>1, <1>3 DEF Sound
  <2>6. \A i \in 0 .. B - 1 : i \in 0 .. A - 1 \/ i = A \/ i \in R
    OBVIOUS
  <2>7. \A u \in Threads : O[u] \subseteq P[u]
    BY <1>1
  <2>8. Covered(N \cup {A}, L, P, B)
    BY <1>1, <2>6, <2>7 DEF Sound, Covered
  <2> QED BY <2>1, <2>2, <2>3, <2>4, <2>5, <2>8 DEF Sound
<1> QED
  BY <1>4 DEF P

-----------------------------------------------------------------------------
(* Chunk arithmetic *)

\* The chunk that get_slot_from_shared opens at i ends after i and has at most
\* CHUNK_SIZE slots; what a thread still has of it lies inside it.
LEMMA ChunkFacts ==
  ASSUME NEW i \in Nat
  PROVE  /\ ChunkEnd(i) \in Nat
         /\ i < ChunkEnd(i)
         /\ ChunkEnd(i) <= i + CHUNK_SIZE
         /\ ChunkRest(i) \in SUBSET Nat
         /\ ChunkRest(i) \subseteq i .. ChunkEnd(i) - 1
         /\ ChunkRest(i + 1) = i + 1 .. ChunkEnd(i) - 1
         /\ i % CHUNK_SIZE # 0 =>
              i \in ChunkRest(i) /\ ChunkRest(i + 1) = ChunkRest(i) \ {i}
<1>1. ChunkEnd(i) \in Nat /\ i < ChunkEnd(i) /\ ChunkEnd(i) <= i + CHUNK_SIZE
  BY StoreAssumption DEF ChunkEnd
<1>2. (i + 1) % CHUNK_SIZE # 0 => ChunkEnd(i + 1) = ChunkEnd(i)
  BY StoreAssumption DEF ChunkEnd
<1>3. ASSUME (i + 1) % CHUNK_SIZE = 0 PROVE ChunkEnd(i) = i + 1
  <2> DEFINE C == CHUNK_SIZE
             q == i \div C
             p == (i + 1) \div C
  <2>1. C \in Nat \ {0} /\ q \in Nat /\ p \in Nat
    BY StoreAssumption
  <2>2. i + 1 = C * p
    BY <1>3, <2>1
  <2>3. C * q <= i /\ i < C * q + C
    BY <2>1
  <2> HIDE DEF p, q, C
  <2>4. C * p > C * q /\ C * p <= C * (q + 1)
    BY <2>1, <2>2, <2>3
  <2>5. ~(p <= q) /\ ~(p >= q + 2)
    BY <2>1, <2>4
  <2>6. p = q + 1
    BY <2>1, <2>5
  <2> QED BY <2>1, <2>2, <2>6 DEF ChunkEnd, p, q, C
<1> QED BY <1>1, <1>2, <1>3 DEF ChunkRest

-----------------------------------------------------------------------------
(* The inductive invariant *)

OwnedBy(s) == [t \in Threads |-> Owned(t, s)]

\* Every store is sound, and a thread's two sources of slots do not overlap;
\* dedicated threads serve their own store throughout.
SlotInv(s) == Sound(node[s], sharedFree[s], OwnedBy(s), allocated[s])
SourceInv(t) ==
  currentStore[t] # NoStore => localFree[t] \cap ChunkRest(initialized[t]) = {}
HomeInv(t) == t \in Pool => currentStore[t] = Home[t]

IInv ==
  /\ TypeOK
  /\ \A s \in Stores : SlotInv(s)
  /\ \A t \in Threads : SourceInv(t) /\ HomeInv(t)

\* The slots a thread holds for a store are slot numbers.
LEMMA OwnedType ==
  ASSUME TypeOK, NEW s \in Stores
  PROVE  OwnedBy(s) \in [Threads -> SUBSET Nat]
BY ChunkFacts DEF OwnedBy, Owned, TypeOK

\* A new manager satisfies the invariant: no slot is held by anyone.
LEMMA InitInv == Init => IInv
<1> SUFFICES ASSUME Init PROVE IInv
  OBVIOUS
<1>1. TypeOK
  BY StoreAssumption DEF Init, TypeOK, Frame, Threads, Slots
<1>2. ASSUME NEW s \in Stores PROVE SlotInv(s)
  <2>1. \A t \in Threads : OwnedBy(s)[t] = {}
    BY StoreAssumption DEF Init, OwnedBy, Owned, ChunkRest
  <2>2. Covered(node[s], sharedFree[s], OwnedBy(s), allocated[s])
    BY DEF Init, Covered
  <2> QED BY <2>1, <2>2 DEF Init, SlotInv, Sound
<1>3. \A t \in Threads : SourceInv(t) /\ HomeInv(t)
  BY DEF Init, SourceInv, HomeInv
<1> QED BY <1>1, <1>2, <1>3 DEF IInv

-----------------------------------------------------------------------------
(* What a step has to do to preserve the invariant *)

\* Facts on one thread and one store that every step starts from.
LEMMA Facts ==
  ASSUME IInv, NEW t \in Threads, NEW s \in Stores
  PROVE  /\ TypeOK /\ SlotInv(s) /\ SourceInv(t) /\ HomeInv(t)
         /\ s # NoStore
         /\ localFree[t] \in SUBSET Nat /\ initialized[t] \in Nat
         /\ sharedFree[s] \in Seq(SUBSET Nat) /\ allocated[s] \in Nat
         /\ allocated[s] <= Capacity[s] /\ Capacity[s] \in Nat
         /\ OwnedBy(s) \in [Threads -> SUBSET Nat]
         /\ OwnedBy(s)[t] = Owned(t, s)
BY OwnedType, StoreAssumption DEF IInv, TypeOK, OwnedBy

\* TypeOK without the bounds on the slots.
Typed ==
  /\ node \in [Stores -> SUBSET Nat]
  /\ sharedFree \in [Stores -> Seq(SUBSET Nat)]
  /\ allocated \in [Stores -> Nat]
  /\ nodeCount \in [Stores -> Int]
  /\ gcState \in [Stores -> {"Disabled", "Init", "Triggered"}]
  /\ localFree \in [Threads -> SUBSET Nat]
  /\ initialized \in [Threads -> Nat]
  /\ currentStore \in [Threads -> Stores \cup {NoStore}]
  /\ delta \in [Threads -> Int]
  /\ frames \in [App -> Seq(Frame)]
  /\ gcPc \in [Stores -> {"enter", "wait", "collect"}]
  /\ faulted \in SUBSET Threads

\* The step concerns at most store s and the local state of thread t.
OnlyStore(s) ==
  \A r \in Stores \ {s} :
    /\ node'[r] = node[r] /\ sharedFree'[r] = sharedFree[r]
    /\ allocated'[r] = allocated[r]
OnlyThread(t) ==
  \A u \in Threads \ {t} :
    /\ localFree'[u] = localFree[u] /\ initialized'[u] = initialized[u]
    /\ currentStore'[u] = currentStore[u]

\* A step of thread t on store s: the other stores stay sound, and s does if
\* Sound holds for its new values.
LEMMA StepInv ==
  ASSUME IInv, NEW t \in Threads, NEW s \in Stores,
         Typed', OnlyStore(s), OnlyThread(t),
         \A r \in Stores \ {s} : Owned(t, r)' = Owned(t, r),
         allocated'[s] <= Capacity[s],
         Sound(node'[s], sharedFree'[s],
               [OwnedBy(s) EXCEPT ![t] = Owned(t, s)'], allocated'[s]),
         SourceInv(t)', HomeInv(t)'
  PROVE  IInv'
<1>1. ASSUME NEW r \in Stores \ {s} PROVE SlotInv(r)'
  <2>1. \A u \in Threads : Owned(u, r)' = Owned(u, r)
    BY DEF Owned, Attached, OnlyThread
  <2>2. OwnedBy(r)' = OwnedBy(r)
    BY <2>1 DEF OwnedBy
  <2> QED BY <2>2 DEF SlotInv, IInv, OnlyStore
<1>2. SlotInv(s)'
  <2>1. \A u \in Threads \ {t} : Owned(u, s)' = Owned(u, s)
    BY DEF Owned, Attached, OnlyThread
  <2>2. OwnedBy(s)' = [OwnedBy(s) EXCEPT ![t] = Owned(t, s)']
    BY <2>1 DEF OwnedBy
  <2> QED BY <2>2 DEF SlotInv
<1>3. \A u \in Threads : SourceInv(u)' /\ HomeInv(u)'
  BY DEF IInv, SourceInv, HomeInv, OnlyThread
<1>4. ASSUME NEW r \in Stores
      PROVE  node'[r] \subseteq Slots(r) /\ allocated'[r] <= Capacity[r]
  <2>1. CASE r = s
    <3>1. node'[s] \subseteq 0 .. allocated'[s] - 1
      BY DEF Sound
    <3>2. allocated'[s] \in Nat /\ Capacity[s] \in Nat
      BY StoreAssumption DEF Typed
    <3> QED BY <2>1, <3>1, <3>2 DEF Slots
  <2>2. CASE r # s
    BY <2>2 DEF IInv, TypeOK, Slots, OnlyStore
  <2> QED BY <2>1, <2>2
<1>5. TypeOK'
  BY <1>4 DEF TypeOK, Typed, Slots
<1> QED BY <1>1, <1>2, <1>3, <1>5 DEF IInv

-----------------------------------------------------------------------------
(* add_node from the thread's own slots *)

\* add_node taking the head of the thread's own free list keeps the invariant.
LEMMA AddFromLocalListInv ==
  ASSUME IInv, NEW t \in Threads, NEW s \in Stores, NEW i \in Slots(s),
         AddFromLocalList(t, s, i)
  PROVE  IInv'
<1> DEFINE O == OwnedBy(s)
<1>1. /\ TypeOK /\ SlotInv(s) /\ SourceInv(t) /\ HomeInv(t) /\ s # NoStore
      /\ O \in [Threads -> SUBSET Nat] /\ O[t] = Owned(t, s)
      /\ allocated[s] \in Nat /\ allocated[s] <= Capacity[s]
  BY Facts
<1>2. currentStore[t] = s /\ i \in localFree[t] /\ i \in Nat
  BY DEF AddFromLocalList, Attached, Slots
<1>3. Typed' /\ OnlyStore(s) /\ OnlyThread(t)
  BY <1>1, <1>2 DEF AddFromLocalList, Occupy, sharedVars, controlVars, TypeOK, Typed,
                    OnlyStore, OnlyThread
<1>4. /\ localFree'[t] = localFree[t] \ {i} /\ initialized'[t] = initialized[t]
      /\ currentStore'[t] = s
      /\ node'[s] = node[s] \cup {i} /\ sharedFree'[s] = sharedFree[s]
      /\ allocated'[s] = allocated[s]
  BY <1>1, <1>2 DEF TypeOK, AddFromLocalList, Occupy, sharedVars
<1>5. /\ Owned(t, s)' = Owned(t, s) \ {i} /\ i \in Owned(t, s)
      /\ \A r \in Stores \ {s} : Owned(t, r)' = Owned(t, r)
      /\ SourceInv(t)' /\ HomeInv(t)'
  BY <1>1, <1>2, <1>4 DEF Owned, Attached, SourceInv, HomeInv
<1>6. Sound(node[s] \cup {i}, sharedFree[s], [O EXCEPT ![t] = @ \ {i}], allocated[s])
  <2> HIDE DEF O
  <2> QED BY <1>1, <1>5, TakeOwned DEF SlotInv, O
<1> QED BY <1>1, <1>3, <1>4, <1>5, <1>6, StepInv

\* add_node taking the next slot of the thread's own chunk keeps the invariant.
LEMMA AddFromLocalChunkInv ==
  ASSUME IInv, NEW t \in Threads, NEW s \in Stores, AddFromLocalChunk(t, s)
  PROVE  IInv'
<1> DEFINE i == initialized[t]
           O == OwnedBy(s)
<1>1. /\ TypeOK /\ SlotInv(s) /\ HomeInv(t) /\ i \in Nat
      /\ O \in [Threads -> SUBSET Nat] /\ O[t] = Owned(t, s)
      /\ allocated[s] \in Nat /\ allocated[s] <= Capacity[s]
  BY Facts
<1>2. currentStore[t] = s /\ localFree[t] = {}
  BY DEF Attached, AddFromLocalChunk
<1>3. i \in ChunkRest(i) /\ ChunkRest(i + 1) = ChunkRest(i) \ {i}
  BY <1>1, ChunkFacts DEF AddFromLocalChunk
<1>4. Typed' /\ OnlyStore(s) /\ OnlyThread(t)
  BY <1>1 DEF AddFromLocalChunk, Occupy, sharedVars, controlVars, TypeOK, Typed,
              OnlyStore, OnlyThread
<1>5. /\ localFree'[t] = {} /\ initialized'[t] = i + 1 /\ currentStore'[t] = s
      /\ node'[s] = node[s] \cup {i} /\ sharedFree'[s] = sharedFree[s]
      /\ allocated'[s] = allocated[s]
  BY <1>1, <1>2 DEF TypeOK, AddFromLocalChunk, Occupy, sharedVars
<1>6. /\ Owned(t, s)' = Owned(t, s) \ {i} /\ i \in Owned(t, s)
      /\ \A r \in Stores \ {s} : Owned(t, r)' = Owned(t, r)
      /\ SourceInv(t)' /\ HomeInv(t)'
  BY <1>1, <1>2, <1>3, <1>5 DEF Owned, Attached, SourceInv, HomeInv
<1>7. Sound(node[s] \cup {i}, sharedFree[s], [O EXCEPT ![t] = @ \ {i}], allocated[s])
  <2> HIDE DEF O, i
  <2> QED BY <1>1, <1>6, TakeOwned DEF SlotInv, O
<1> QED BY <1>1, <1>4, <1>5, <1>6, <1>7, StepInv

-----------------------------------------------------------------------------
(* add_node through get_slot_from_shared *)

\* Publishing the node count, with or without triggering a gc, keeps the types.
LEMMA CountNodeType ==
  ASSUME TypeOK, NEW t \in Threads, NEW s \in Stores, CountNode(t, s)
  PROVE  /\ nodeCount' \in [Stores -> Int]
         /\ gcState' \in [Stores -> {"Disabled", "Init", "Triggered"}]
         /\ delta' \in [Threads -> Int]
         /\ gcPc' \in [Stores -> {"enter", "wait", "collect"}]
         /\ frames' \in [App -> Seq(Frame)]
         /\ currentStore' = currentStore
<1>1. CountDelta(t, s) \in Int
  BY DEF TypeOK, CountDelta
<1>2. nodeCount' \in [Stores -> Int] /\ delta' \in [Threads -> Int]
  BY <1>1 DEF TypeOK, CountNode
<1>3. gcState' \in [Stores -> {"Disabled", "Init", "Triggered"}]
      /\ gcPc' \in [Stores -> {"enter", "wait", "collect"}]
  BY DEF TypeOK, CountNode
<1>5. frames' \in [App -> Seq(Frame)] /\ currentStore' = currentStore
  BY DEF TypeOK, CountNode
<1> QED BY <1>2, <1>3, <1>5

\* A thread that needs the shared state owns nothing of the store.
LEMMA NothingOwned ==
  ASSUME NEW t \in Threads, NEW s \in Stores, NeedsShared(t, s)
  PROVE  /\ Owned(t, s) = {}
         /\ Attached(t, s) => /\ currentStore[t] = s
                              /\ localFree[t] = {}
                              /\ ChunkRest(initialized[t]) = {}
BY DEF NeedsShared, Owned, ChunkRest, Attached

\* If the local state stays the same, so does what is owned.
LEMMA SameLocal ==
  ASSUME NEW t \in Threads, localFree' = localFree, initialized' = initialized,
         currentStore' = currentStore
  PROVE  /\ \A r \in Stores : Owned(t, r)' = Owned(t, r)
         /\ SourceInv(t) => SourceInv(t)'
         /\ HomeInv(t) => HomeInv(t)'
         /\ OnlyThread(t)
BY DEF Owned, Attached, SourceInv, HomeInv, OnlyThread

\* An attached thread that takes over a shared free list keeps the invariant.
LEMMA AddOwnFromSharedListInv ==
  ASSUME IInv, NEW t \in Threads, NEW s \in Stores, NEW i \in Slots(s),
         AddOwnFromSharedList(t, s, i)
  PROVE  IInv'
<1> DEFINE O == OwnedBy(s)
           L == sharedFree[s]
           K == Last(L) \ {i}
<1>1. /\ TypeOK /\ SlotInv(s) /\ HomeInv(t)
      /\ O \in [Threads -> SUBSET Nat] /\ O[t] = Owned(t, s)
      /\ allocated[s] \in Nat /\ allocated[s] <= Capacity[s]
      /\ L \in Seq(SUBSET Nat)
  BY Facts
<1>2. /\ NeedsShared(t, s) /\ CountNode(t, s) /\ Attached(t, s)
      /\ L # <<>> /\ i \in Last(L) /\ i \in Nat
  BY DEF AddOwnFromSharedList, HasList, Slots
<1>3. Owned(t, s) = {} /\ currentStore[t] = s /\ ChunkRest(initialized[t]) = {}
  BY <1>2, NothingOwned
<1>4. K \in SUBSET Nat /\ Front(L) \in Seq(SUBSET Nat)
  BY <1>1, <1>2, FrontFacts
<1>5. /\ node' = [node EXCEPT ![s] = @ \cup {i}]
      /\ sharedFree' = [sharedFree EXCEPT ![s] = Front(L)]
      /\ localFree' = [localFree EXCEPT ![t] = K]
      /\ allocated' = allocated /\ initialized' = initialized /\ faulted' = faulted
      /\ currentStore' = currentStore
  BY DEF AddOwnFromSharedList, Occupy, CountNode
<1> HIDE DEF K, L
<1>6. Typed' /\ OnlyStore(s) /\ OnlyThread(t)
  BY <1>1, <1>2, <1>4, <1>5, CountNodeType DEF TypeOK, Typed, OnlyStore, OnlyThread
<1>7. /\ localFree'[t] = K /\ node'[s] = node[s] \cup {i} /\ sharedFree'[s] = Front(L)
  BY <1>1, <1>5 DEF TypeOK
<1>8. /\ Owned(t, s)' = K
      /\ \A r \in Stores \ {s} : Owned(t, r)' = Owned(t, r)
      /\ SourceInv(t)' /\ HomeInv(t)'
  BY <1>1, <1>3, <1>5, <1>7 DEF Owned, Attached, SourceInv, HomeInv
<1>9. Sound(node[s] \cup {i}, Front(L), [O EXCEPT ![t] = K], allocated[s])
  <2> HIDE DEF O
  <2> QED BY <1>1, <1>2, <1>3, TakeList DEF SlotInv, O, K, L
<1> QED BY <1>1, <1>5, <1>6, <1>7, <1>8, <1>9, StepInv

\* An attached thread that opens a new chunk keeps the invariant.
LEMMA AddOwnFromNewChunkInv ==
  ASSUME IInv, NEW t \in Threads, NEW s \in Stores, AddOwnFromNewChunk(t, s)
  PROVE  IInv'
<1> DEFINE O == OwnedBy(s)
           A == allocated[s]
           B == ChunkEnd(A)
           R == ChunkRest(A + 1)
<1>1. /\ TypeOK /\ SlotInv(s) /\ HomeInv(t)
      /\ O \in [Threads -> SUBSET Nat] /\ O[t] = Owned(t, s)
      /\ A \in Nat /\ Capacity[s] \in Nat
  BY Facts
<1>2. /\ NeedsShared(t, s) /\ CountNode(t, s) /\ Attached(t, s)
      /\ A + CHUNK_SIZE < Capacity[s]
  BY DEF AddOwnFromNewChunk
<1>3. Owned(t, s) = {} /\ currentStore[t] = s /\ localFree[t] = {}
  BY <1>2, NothingOwned
<1>4. B \in Nat /\ A < B /\ B <= Capacity[s] /\ R = A + 1 .. B - 1
  <2>1. /\ B \in Nat /\ A < B /\ B <= A + CHUNK_SIZE /\ R = A + 1 .. B - 1
        /\ CHUNK_SIZE \in Nat
    BY <1>1, ChunkFacts, StoreAssumption
  <2> HIDE DEF A, B, R
  <2> QED BY <1>1, <1>2, <2>1
<1>5. /\ node' = [node EXCEPT ![s] = @ \cup {A}]
      /\ allocated' = [allocated EXCEPT ![s] = B]
      /\ initialized' = [initialized EXCEPT ![t] = A + 1]
      /\ sharedFree' = sharedFree /\ localFree' = localFree /\ faulted' = faulted
      /\ currentStore' = currentStore
  BY DEF AddOwnFromNewChunk, Occupy, CountNode
<1> HIDE DEF A, B
<1>6. Typed' /\ OnlyStore(s) /\ OnlyThread(t)
  <2>1. /\ node' \in [Stores -> SUBSET Nat] /\ allocated' \in [Stores -> Nat]
        /\ initialized' \in [Threads -> Nat]
    BY <1>1, <1>4, <1>5 DEF TypeOK
  <2>2. Typed'
    BY <1>1, <1>2, <1>5, <2>1, CountNodeType DEF TypeOK, Typed
  <2> QED BY <1>1, <1>5, <2>2 DEF TypeOK, OnlyStore, OnlyThread
<1>7. initialized'[t] = A + 1 /\ node'[s] = node[s] \cup {A} /\ allocated'[s] = B
  BY <1>1, <1>5 DEF TypeOK
<1>8. /\ Owned(t, s)' = R
      /\ \A r \in Stores \ {s} : Owned(t, r)' = Owned(t, r)
      /\ SourceInv(t)' /\ HomeInv(t)'
  BY <1>1, <1>3, <1>5, <1>7 DEF Owned, Attached, SourceInv, HomeInv
<1>9. Sound(node[s] \cup {A}, sharedFree[s], [O EXCEPT ![t] = R], B)
  <2> HIDE DEF O, R
  <2> QED BY <1>1, <1>3, <1>4, TakeFresh DEF SlotInv, O, A
<1> QED BY <1>4, <1>5, <1>6, <1>7, <1>8, <1>9, StepInv

\* The two paths that hand out one fresh slot.
LEMMA SingleSlotInv ==
  ASSUME IInv, NEW t \in Threads, NEW s \in Stores,
         AddOwnSingleSlot(t, s) \/ AddForeignSingleSlot(t, s)
  PROVE  IInv'
<1> DEFINE O == OwnedBy(s)
           A == allocated[s]
<1>1. /\ TypeOK /\ SlotInv(s) /\ HomeInv(t) /\ SourceInv(t)
      /\ O \in [Threads -> SUBSET Nat] /\ O[t] = Owned(t, s)
      /\ A \in Nat /\ Capacity[s] \in Nat
  BY Facts
<1>2. NeedsShared(t, s) /\ CountNode(t, s) /\ A < Capacity[s]
  BY DEF AddOwnSingleSlot, AddForeignSingleSlot
<1>3. Owned(t, s) = {}
  BY <1>2, NothingOwned
<1>4. /\ node' = [node EXCEPT ![s] = @ \cup {A}]
      /\ allocated' = [allocated EXCEPT ![s] = A + 1]
      /\ sharedFree' = sharedFree /\ localFree' = localFree /\ faulted' = faulted
      /\ initialized' = initialized /\ currentStore' = currentStore
  BY DEF AddOwnSingleSlot, AddForeignSingleSlot, Occupy, CountNode
<1> HIDE DEF A
<1>5. Typed' /\ OnlyStore(s)
  <2>1. node' \in [Stores -> SUBSET Nat] /\ allocated' \in [Stores -> Nat]
    BY <1>1, <1>4 DEF TypeOK
  <2>2. Typed'
    BY <1>1, <1>2, <1>4, <2>1, CountNodeType DEF TypeOK, Typed
  <2>3. OnlyStore(s)
    BY <1>1, <1>4 DEF TypeOK, OnlyStore
  <2> QED BY <2>2, <2>3
<1>6. node'[s] = node[s] \cup {A} /\ allocated'[s] = A + 1
  BY <1>1, <1>4 DEF TypeOK
<1>7. /\ OnlyThread(t) /\ \A r \in Stores : Owned(t, r)' = Owned(t, r)
      /\ SourceInv(t)' /\ HomeInv(t)'
  BY <1>1, <1>4, SameLocal
<1>8. Sound(node[s] \cup {A}, sharedFree[s], [O EXCEPT ![t] = {}], A + 1)
  <2>1. A + 1 \in Nat /\ A < A + 1 /\ {} = A + 1 .. (A + 1) - 1
    BY <1>1
  <2> HIDE DEF O
  <2> QED BY <1>1, <1>3, <2>1, TakeFresh DEF SlotInv, O, A
<1>9. A + 1 <= Capacity[s]
  BY <1>1, <1>2
<1> QED BY <1>3, <1>4, <1>5, <1>6, <1>7, <1>8, <1>9, StepInv

\* A thread attached elsewhere that takes one slot of a shared list keeps the
\* invariant; the rest of the list goes back to the shared state.
LEMMA AddForeignFromSharedListInv ==
  ASSUME IInv, NEW t \in Threads, NEW s \in Stores, NEW i \in Slots(s),
         AddForeignFromSharedList(t, s, i)
  PROVE  IInv'
<1> DEFINE O == OwnedBy(s)
           L == sharedFree[s]
           M == Append(Front(L), Last(L) \ {i})
<1>1. /\ TypeOK /\ SlotInv(s) /\ HomeInv(t) /\ SourceInv(t)
      /\ O \in [Threads -> SUBSET Nat] /\ O[t] = Owned(t, s)
      /\ allocated[s] \in Nat /\ allocated[s] <= Capacity[s]
      /\ L \in Seq(SUBSET Nat)
  BY Facts
<1>2. CountNode(t, s) /\ L # <<>> /\ i \in Last(L) /\ i \in Nat
  BY DEF AddForeignFromSharedList, HasList, Slots
<1>3. M \in Seq(SUBSET Nat)
  BY <1>1, <1>2, FrontFacts, AppendProperties
<1>4. /\ node' = [node EXCEPT ![s] = @ \cup {i}]
      /\ sharedFree' = [sharedFree EXCEPT ![s] = M]
      /\ allocated' = allocated /\ localFree' = localFree /\ faulted' = faulted
      /\ initialized' = initialized /\ currentStore' = currentStore
  BY DEF AddForeignFromSharedList, Occupy, CountNode
<1> HIDE DEF M, L
<1>5. Typed' /\ OnlyStore(s)
  BY <1>1, <1>2, <1>3, <1>4, CountNodeType DEF TypeOK, Typed, OnlyStore
<1>6. node'[s] = node[s] \cup {i} /\ sharedFree'[s] = M
  BY <1>1, <1>4 DEF TypeOK
<1>7. /\ OnlyThread(t) /\ \A r \in Stores : Owned(t, r)' = Owned(t, r)
      /\ SourceInv(t)' /\ HomeInv(t)'
  BY <1>1, <1>4, SameLocal
<1>8. Sound(node[s] \cup {i}, M, O, allocated[s])
  <2> HIDE DEF O
  <2> QED BY <1>1, <1>2, TakeFromList DEF SlotInv, O, M, L
<1>9. O = [O EXCEPT ![t] = Owned(t, s)']
  BY <1>1, <1>7
<1> QED BY <1>1, <1>4, <1>5, <1>6, <1>7, <1>8, <1>9, StepInv

\* No slot changes hands: out of memory, or the popped list is empty.
LEMMA NoSlotInv ==
  ASSUME IInv, NEW t \in Threads, NEW s \in Stores,
         AddOutOfMemory(t, s) \/ AddFromNullList(t, s)
  PROVE  IInv'
<1> DEFINE O == OwnedBy(s)
           L == sharedFree[s]
<1>1. /\ TypeOK /\ SlotInv(s) /\ HomeInv(t) /\ SourceInv(t)
      /\ O \in [Threads -> SUBSET Nat] /\ O[t] = Owned(t, s)
      /\ allocated[s] \in Nat /\ allocated[s] <= Capacity[s]
      /\ L \in Seq(SUBSET Nat)
  BY Facts
<1>2. /\ CountNode(t, s) /\ node' = node /\ allocated' = allocated
      /\ localFree' = localFree /\ initialized' = initialized
      /\ currentStore' = currentStore /\ faulted' \subseteq faulted \cup {t}
      /\ \/ sharedFree' = sharedFree
         \/ /\ L # <<>> /\ Last(L) = {}
            /\ sharedFree' = [sharedFree EXCEPT ![s] = Front(L)]
  BY DEF AddOutOfMemory, AddFromNullList, HasList, CountNode
<1>3. L # <<>> /\ Last(L) = {} =>
        Front(L) \in Seq(SUBSET Nat) /\ Sound(node[s], Front(L), O, allocated[s])
  <2> HIDE DEF O
  <2> QED BY <1>1, FrontFacts, PopList DEF SlotInv, O
<1>4. /\ sharedFree' \in [Stores -> Seq(SUBSET Nat)]
      /\ \A r \in Stores \ {s} : sharedFree'[r] = sharedFree[r]
      /\ Sound(node[s], sharedFree'[s], O, allocated[s])
  <2> HIDE DEF O
  <2>1. Sound(node[s], L, O, allocated[s])
    BY <1>1 DEF SlotInv, O
  <2> QED BY <1>1, <1>2, <1>3, <2>1 DEF TypeOK
<1>5. Typed' /\ OnlyStore(s)
  BY <1>1, <1>2, <1>4, CountNodeType DEF TypeOK, Typed, OnlyStore
<1>6. /\ OnlyThread(t) /\ \A r \in Stores : Owned(t, r)' = Owned(t, r)
      /\ SourceInv(t)' /\ HomeInv(t)'
  BY <1>1, <1>2, SameLocal
<1>7. O = [O EXCEPT ![t] = Owned(t, s)']
  BY <1>1, <1>6
<1> QED BY <1>1, <1>2, <1>4, <1>5, <1>6, <1>7, StepInv

-----------------------------------------------------------------------------
(* free_slot *)

\* free_slot into the thread's own list, flushed or not, keeps the invariant.
LEMMA FreeOwnInv ==
  ASSUME IInv, NEW t \in Threads, NEW s \in Stores, NEW i \in Slots(s),
         FreeOwn(t, s, i)
  PROVE  IInv'
<1> DEFINE O == OwnedBy(s)
           F == localFree[t] \cup {i}
           C == ChunkRest(initialized[t])
           P == [O EXCEPT ![t] = @ \cup {i}]
<1>1. /\ TypeOK /\ SlotInv(s) /\ HomeInv(t) /\ SourceInv(t) /\ s # NoStore
      /\ O \in [Threads -> SUBSET Nat] /\ O[t] = Owned(t, s)
      /\ allocated[s] \in Nat /\ allocated[s] <= Capacity[s]
      /\ sharedFree[s] \in Seq(SUBSET Nat) /\ localFree[t] \in SUBSET Nat
  BY Facts
<1>2. currentStore[t] = s /\ i \in node[s] /\ i \in Nat
  BY DEF FreeOwn, Attached, Slots
<1>3. /\ Owned(t, s) = localFree[t] \cup C /\ localFree[t] \cap C = {} /\ i \notin C
      /\ F \in SUBSET Nat
  <2>1. Owned(t, s) = localFree[t] \cup C /\ localFree[t] \cap C = {}
    BY <1>1, <1>2 DEF Owned, Attached, SourceInv
  <2>2. O[t] \cap node[s] = {}
    BY <1>1 DEF SlotInv, Sound
  <2> QED BY <1>1, <1>2, <2>1, <2>2
<1>4. Sound(node[s] \ {i}, sharedFree[s], P, allocated[s])
  <2> HIDE DEF O
  <2> QED BY <1>1, <1>2, FreeToOwned DEF SlotInv, O
<1>5. /\ node' = [node EXCEPT ![s] = @ \ {i}] /\ allocated' = allocated
      /\ initialized' = initialized /\ currentStore' = currentStore
      /\ gcState' = gcState /\ frames' = frames /\ gcPc' = gcPc
      /\ faulted' = faulted
  BY DEF FreeOwn, sharedVars, controlVars
<1>6. /\ node' \in [Stores -> SUBSET Nat] /\ node'[s] = node[s] \ {i}
      /\ \A r \in Stores \ {s} : node'[r] = node[r]
  BY <1>1, <1>5 DEF TypeOK
<1>7. CASE delta[t] - 1 > -CHUNK_SIZE
  <2>1. /\ localFree' = [localFree EXCEPT ![t] = F] /\ sharedFree' = sharedFree
        /\ delta' = [delta EXCEPT ![t] = @ - 1] /\ nodeCount' = nodeCount
    BY <1>7 DEF FreeOwn, sharedVars
  <2> HIDE DEF F
  <2>2. Typed' /\ OnlyStore(s) /\ OnlyThread(t) /\ localFree'[t] = F
    BY <1>1, <1>3, <1>5, <1>6, <2>1 DEF TypeOK, Typed, OnlyStore, OnlyThread
  <2>3. /\ Owned(t, s)' = O[t] \cup {i}
        /\ \A r \in Stores \ {s} : Owned(t, r)' = Owned(t, r)
        /\ SourceInv(t)' /\ HomeInv(t)'
    BY <1>1, <1>2, <1>3, <1>5, <2>2 DEF Owned, Attached, SourceInv, HomeInv, F
  <2> QED BY <1>1, <1>4, <1>5, <1>6, <2>1, <2>2, <2>3, StepInv
<1>8. CASE ~(delta[t] - 1 > -CHUNK_SIZE)
  <2> DEFINE M == Append(sharedFree[s], F)
  <2>1. /\ localFree' = [localFree EXCEPT ![t] = {}]
        /\ delta' = [delta EXCEPT ![t] = 0]
        /\ sharedFree' = [sharedFree EXCEPT ![s] = M]
        /\ nodeCount' = [nodeCount EXCEPT ![s] = @ + delta[t]]
    BY <1>8 DEF FreeOwn
  <2>2. Sound(node[s] \ {i}, M, [P EXCEPT ![t] = @ \ F], allocated[s])
    <3>1. P \in [Threads -> SUBSET Nat] /\ F \in SUBSET P[t]
      BY <1>1, <1>2, <1>3
    <3> HIDE DEF P, F
    <3> QED BY <1>1, <1>4, <3>1, ReturnOwned
  <2>3. M \in Seq(SUBSET Nat)
    BY <1>1, <1>3, AppendProperties
  <2> HIDE DEF M, F
  <2>4. sharedFree' \in [Stores -> Seq(SUBSET Nat)] /\ localFree' \in [Threads -> SUBSET Nat]
        /\ nodeCount' \in [Stores -> Int] /\ delta' \in [Threads -> Int]
    BY <1>1, <2>1, <2>3 DEF TypeOK
  <2>5. Typed'
    BY <1>1, <1>5, <1>6, <2>4 DEF TypeOK, Typed
  <2>6. OnlyStore(s) /\ OnlyThread(t) /\ localFree'[t] = {} /\ sharedFree'[s] = M
    BY <1>1, <1>5, <1>6, <2>1 DEF TypeOK, OnlyStore, OnlyThread
  <2>7. /\ Owned(t, s)' = C
        /\ \A r \in Stores \ {s} : Owned(t, r)' = Owned(t, r)
        /\ SourceInv(t)' /\ HomeInv(t)'
    BY <1>1, <1>2, <1>5, <2>6 DEF Owned, Attached, SourceInv, HomeInv
  <2>8. [P EXCEPT ![t] = @ \ F] = [O EXCEPT ![t] = C]
    <3>1. (O[t] \cup {i}) \ F = C
      BY <1>1, <1>3 DEF F
    <3> QED BY <1>1, <3>1
  <2> QED BY <1>1, <1>5, <1>6, <2>2, <2>5, <2>6, <2>7, <2>8, StepInv
<1> QED BY <1>7, <1>8

\* free_slot into the shared lists (return_slot) keeps the invariant.
LEMMA FreeForeignInv ==
  ASSUME IInv, NEW t \in Threads, NEW s \in Stores, NEW i \in Slots(s),
         FreeForeign(t, s, i)
  PROVE  IInv'
<1> DEFINE O == OwnedBy(s)
           L == sharedFree[s]
           M == IF L = <<>> THEN <<{i}>> ELSE Append(Front(L), Last(L) \cup {i})
<1>1. /\ TypeOK /\ SlotInv(s) /\ HomeInv(t) /\ SourceInv(t)
      /\ O \in [Threads -> SUBSET Nat] /\ O[t] = Owned(t, s)
      /\ allocated[s] \in Nat /\ allocated[s] <= Capacity[s]
      /\ L \in Seq(SUBSET Nat)
  BY Facts
<1>2. i \in node[s] /\ i \in Nat
  BY DEF FreeForeign, Slots
<1>3. M \in Seq(SUBSET Nat) /\ Sound(node[s] \ {i}, M, O, allocated[s])
  <2>1. CASE L = <<>>
    <3>1. M = Append(L, {i})
      BY <2>1
    <3> HIDE DEF O, M
    <3> QED BY <1>1, <1>2, <3>1, FreeToNewList, AppendProperties DEF SlotInv, O
  <2>2. CASE L # <<>>
    <3>1. M = Append(Front(L), Last(L) \cup {i}) /\ Last(L) \cup {i} \in SUBSET Nat
          /\ Front(L) \in Seq(SUBSET Nat)
      BY <1>1, <1>2, <2>2, FrontFacts
    <3> HIDE DEF O, M
    <3>2. M \in Seq(SUBSET Nat)
      BY <3>1, AppendProperties
    <3> QED BY <1>1, <1>2, <2>2, <3>1, <3>2, FreeToList DEF SlotInv, O
  <2> QED BY <2>1, <2>2
<1>4. /\ node' = [node EXCEPT ![s] = @ \ {i}]
      /\ sharedFree' = [sharedFree EXCEPT ![s] = M]
      /\ nodeCount' = [nodeCount EXCEPT ![s] = @ - 1]
      /\ allocated' = allocated /\ gcState' = gcState
      /\ localFree' = localFree /\ initialized' = initialized
      /\ currentStore' = currentStore /\ delta' = delta /\ frames' = frames
      /\ gcPc' = gcPc /\ faulted' = faulted
  BY DEF FreeForeign, localVars, controlVars
<1> HIDE DEF M
<1>5. node' \in [Stores -> SUBSET Nat] /\ sharedFree' \in [Stores -> Seq(SUBSET Nat)]
      /\ nodeCount' \in [Stores -> Int]
  BY <1>1, <1>3, <1>4 DEF TypeOK
<1>6. Typed'
  BY <1>1, <1>4, <1>5 DEF TypeOK, Typed
<1>7. OnlyStore(s) /\ node'[s] = node[s] \ {i} /\ sharedFree'[s] = M
  BY <1>1, <1>4 DEF TypeOK, OnlyStore
<1>8. /\ OnlyThread(t) /\ \A r \in Stores : Owned(t, r)' = Owned(t, r)
      /\ SourceInv(t)' /\ HomeInv(t)'
  BY <1>1, <1>4, SameLocal
<1>9. O = [O EXCEPT ![t] = Owned(t, s)']
  BY <1>1, <1>8
<1> QED BY <1>1, <1>3, <1>4, <1>6, <1>7, <1>8, <1>9, StepInv

-----------------------------------------------------------------------------
(* The gc thread's loop and the with_manager_* calls *)

\* The guard drop at the end of the gc thread's turn keeps the invariant.
LEMMA GcSyncInv ==
  ASSUME IInv, NEW s \in Stores, GcSync(s)
  PROVE  IInv'
<1> DEFINE t == GcThread[s]
           O == OwnedBy(s)
           F == localFree[t]
           C == ChunkRest(initialized[t])
           M == Append(sharedFree[s], F)
<1>1. t \in Threads /\ t \in Pool /\ Home[t] = s
  BY StoreAssumption DEF Threads
<1> HIDE DEF t
<1>2. /\ TypeOK /\ SlotInv(s) /\ HomeInv(t) /\ SourceInv(t) /\ s # NoStore
      /\ O \in [Threads -> SUBSET Nat] /\ O[t] = Owned(t, s)
      /\ allocated[s] \in Nat /\ allocated[s] <= Capacity[s]
      /\ sharedFree[s] \in Seq(SUBSET Nat) /\ F \in SUBSET Nat
  BY <1>1, Facts
<1>3. /\ currentStore[t] = s /\ Owned(t, s) = F \cup C /\ F \cap C = {}
  BY <1>1, <1>2 DEF HomeInv, SourceInv, Owned, Attached
<1>4. /\ node' = node /\ allocated' = allocated /\ initialized' = initialized
      /\ currentStore' = currentStore /\ frames' = frames
      /\ faulted' = faulted /\ gcPc' = [gcPc EXCEPT ![s] = "enter"]
      /\ gcState' = [gcState EXCEPT ![s] =
           IF nodeCount'[s] < GcLwm /\ @ # "Disabled" THEN "Init" ELSE @]
  BY DEF GcSync
<1>5. /\ gcPc' \in [Stores -> {"enter", "wait", "collect"}]
      /\ gcState' \in [Stores -> {"Disabled", "Init", "Triggered"}]
  BY <1>2, <1>4 DEF TypeOK
<1>6. CASE F = {}
  <2>1. sharedFree' = sharedFree /\ nodeCount' = nodeCount /\ localFree' = localFree
        /\ delta' = delta
    BY <1>6 DEF GcSync, t
  <2>2. Typed' /\ OnlyStore(s)
    BY <1>2, <1>4, <1>5, <2>1 DEF TypeOK, Typed, OnlyStore
  <2>3. /\ OnlyThread(t) /\ \A r \in Stores : Owned(t, r)' = Owned(t, r)
        /\ SourceInv(t)' /\ HomeInv(t)'
    BY <1>1, <1>2, <1>4, <2>1, SameLocal
  <2>4. O = [O EXCEPT ![t] = Owned(t, s)']
    BY <1>2, <2>3
  <2> QED BY <1>1, <1>2, <1>4, <2>1, <2>2, <2>3, <2>4, StepInv DEF SlotInv
<1>7. CASE F # {}
  <2>1. /\ sharedFree' = [sharedFree EXCEPT ![s] = M]
        /\ nodeCount' = [nodeCount EXCEPT ![s] = @ + delta[t]]
        /\ localFree' = [localFree EXCEPT ![t] = {}]
        /\ delta' = [delta EXCEPT ![t] = 0]
    BY <1>7 DEF GcSync, t
  <2>2. M \in Seq(SUBSET Nat) /\ Sound(node[s], M, [O EXCEPT ![t] = @ \ F], allocated[s])
    <3>1. M \in Seq(SUBSET Nat)
      BY <1>2, AppendProperties
    <3>2. F \in SUBSET O[t]
      BY <1>2, <1>3
    <3> HIDE DEF O, F
    <3> QED BY <1>1, <1>2, <3>1, <3>2, ReturnOwned DEF SlotInv, O
  <2> HIDE DEF M
  <2>3. sharedFree' \in [Stores -> Seq(SUBSET Nat)] /\ localFree' \in [Threads -> SUBSET Nat]
        /\ nodeCount' \in [Stores -> Int] /\ delta' \in [Threads -> Int]
    BY <1>1, <1>2, <2>1, <2>2 DEF TypeOK
  <2>4. Typed'
    BY <1>2, <1>4, <1>5, <2>3 DEF TypeOK, Typed
  <2>5. OnlyStore(s) /\ OnlyThread(t) /\ localFree'[t] = {} /\ sharedFree'[s] = M
    BY <1>1, <1>2, <1>4, <2>1 DEF TypeOK, OnlyStore, OnlyThread
  <2>6. /\ Owned(t, s)' = C
        /\ \A r \in Stores \ {s} : Owned(t, r)' = Owned(t, r)
        /\ SourceInv(t)' /\ HomeInv(t)'
    BY <1>1, <1>2, <1>3, <1>4, <2>5 DEF Owned, Attached, SourceInv, HomeInv
  <2>7. [O EXCEPT ![t] = @ \ F] = [O EXCEPT ![t] = C]
    <3>1. O[t] \ F = C
      BY <1>2, <1>3
    <3> QED BY <1>2, <3>1
  <2> QED BY <1>1, <1>2, <1>4, <2>2, <2>4, <2>5, <2>6, <2>7, StepInv
<1> QED BY <1>6, <1>7

\* Entering with_manager_*, which may attach the local state, keeps the
\* invariant.
LEMMA EnterManagerInv ==
  ASSUME IInv, NEW t \in App, NEW s \in Stores, EnterManager(t, s)
  PROVE  IInv'
<1> DEFINE O == OwnedBy(s)
           f == [store |-> s, guard |-> currentStore[t] = NoStore]
<1>1. t \in Threads /\ t \notin Pool
  BY StoreAssumption DEF Threads
<1>2. /\ TypeOK /\ SlotInv(s) /\ HomeInv(t) /\ SourceInv(t) /\ s # NoStore
      /\ O \in [Threads -> SUBSET Nat] /\ O[t] = Owned(t, s)
      /\ allocated[s] <= Capacity[s]
  BY <1>1, Facts
<1>3. /\ node' = node /\ sharedFree' = sharedFree /\ allocated' = allocated
      /\ nodeCount' = nodeCount /\ gcState' = gcState /\ gcPc' = gcPc
      /\ faulted' = faulted /\ prepare_local_state(t, s)
      /\ frames' = [frames EXCEPT ![t] = Append(@, f)]
  BY DEF EnterManager, sharedVars
<1>4. frames' \in [App -> Seq(Frame)]
  <2>1. f \in Frame
    BY Zenon DEF Frame
  <2> HIDE DEF f
  <2>2. Append(frames[t], f) \in Seq(Frame)
    BY <1>2, <2>1, AppendProperties DEF TypeOK
  <2> QED BY <1>2, <1>3, <2>2 DEF TypeOK
<1>5. CASE currentStore[t] = NoStore
  <2>1. /\ localFree' = [localFree EXCEPT ![t] = {}]
        /\ initialized' = [initialized EXCEPT ![t] = 0]
        /\ currentStore' = [currentStore EXCEPT ![t] = s] /\ delta' = delta
    BY <1>3, <1>5 DEF prepare_local_state
  <2>2. Typed' /\ OnlyStore(s) /\ OnlyThread(t)
    BY <1>1, <1>2, <1>3, <1>4, <2>1 DEF TypeOK, Typed, OnlyStore, OnlyThread
  <2>3. localFree'[t] = {} /\ ChunkRest(initialized'[t]) = {} /\ currentStore'[t] = s
    BY <1>1, <1>2, <2>1, StoreAssumption DEF TypeOK, ChunkRest
  <2>4. Owned(t, s) = {} /\ Owned(t, s)' = {}
    BY <1>2, <1>5, <2>3 DEF Owned, Attached
  <2>5. \A r \in Stores \ {s} : Owned(t, r)' = Owned(t, r)
    BY <1>5, <2>3, StoreAssumption DEF Owned, Attached
  <2>6. SourceInv(t)' /\ HomeInv(t)'
    BY <1>1, <2>3 DEF SourceInv, HomeInv
  <2>7. O = [O EXCEPT ![t] = Owned(t, s)']
    BY <1>2, <2>4
  <2> QED BY <1>1, <1>2, <1>3, <2>2, <2>5, <2>6, <2>7, StepInv DEF SlotInv
<1>6. CASE currentStore[t] # NoStore
  <2>1. /\ localFree' = localFree /\ initialized' = initialized
        /\ currentStore' = currentStore /\ delta' = delta
    BY <1>3, <1>6 DEF prepare_local_state, localVars
  <2>2. Typed' /\ OnlyStore(s)
    BY <1>2, <1>3, <1>4, <2>1 DEF TypeOK, Typed, OnlyStore
  <2>3. /\ OnlyThread(t) /\ \A r \in Stores : Owned(t, r)' = Owned(t, r)
        /\ SourceInv(t)' /\ HomeInv(t)'
    BY <1>1, <1>2, <2>1, SameLocal
  <2>4. O = [O EXCEPT ![t] = Owned(t, s)']
    BY <1>2, <2>3
  <2> QED BY <1>1, <1>2, <1>3, <2>2, <2>3, <2>4, StepInv DEF SlotInv
<1> QED BY <1>5, <1>6

\* Leaving with_manager_*, which drops the guard, keeps the invariant.
LEMMA ExitManagerInv ==
  ASSUME IInv, NEW t \in App, ExitManager(t)
  PROVE  IInv'
<1>1. t \in Threads /\ t \notin Pool
  BY StoreAssumption DEF Threads
<1>2. Last(frames[t]) \in Frame /\ Front(frames[t]) \in Seq(Frame)
  BY FrontFacts DEF IInv, TypeOK, ExitManager
<1>3. PICK s \in Stores : s = Last(frames[t]).store
  BY <1>2 DEF Frame
<1> DEFINE O == OwnedBy(s)
<1>4. /\ TypeOK /\ SlotInv(s) /\ HomeInv(t) /\ SourceInv(t) /\ s # NoStore
      /\ O \in [Threads -> SUBSET Nat] /\ O[t] = Owned(t, s)
      /\ allocated[s] \in Nat /\ allocated[s] <= Capacity[s]
      /\ sharedFree[s] \in Seq(SUBSET Nat)
  BY <1>1, <1>3, Facts
<1>5. /\ node' = node /\ gcPc' = gcPc /\ faulted' = faulted
      /\ frames' = [frames EXCEPT ![t] = Front(@)]
      /\ DropGuard(t, s) \/ UNCHANGED <<sharedVars, localVars>>
  BY <1>3 DEF ExitManager
<1>6. frames' \in [App -> Seq(Frame)]
  BY <1>2, <1>4, <1>5 DEF TypeOK
<1>7. CASE UNCHANGED <<sharedVars, localVars>>
  <2>1. /\ sharedFree' = sharedFree /\ allocated' = allocated
        /\ nodeCount' = nodeCount /\ gcState' = gcState
        /\ localFree' = localFree /\ initialized' = initialized
        /\ currentStore' = currentStore /\ delta' = delta
    BY <1>7 DEF sharedVars, localVars
  <2>2. Typed' /\ OnlyStore(s)
    BY <1>4, <1>5, <1>6, <2>1 DEF TypeOK, Typed, OnlyStore
  <2>3. /\ OnlyThread(t) /\ \A r \in Stores : Owned(t, r)' = Owned(t, r)
        /\ SourceInv(t)' /\ HomeInv(t)'
    BY <1>1, <1>4, <2>1, SameLocal
  <2>4. O = [O EXCEPT ![t] = Owned(t, s)']
    BY <1>4, <2>3
  <2> QED BY <1>1, <1>3, <1>4, <1>5, <2>1, <2>2, <2>3, <2>4, StepInv DEF SlotInv
<1>8. CASE Attached(t, s) /\ DropGuard(t, s) /\ ~ UNCHANGED <<sharedVars, localVars>>
  <2> DEFINE K == localFree[t] \cup ChunkRest(initialized[t])
             M == PushUnlessEmpty(sharedFree[s], K)
  <2>1. K = O[t] /\ currentStore[t] = s /\ K \in SUBSET Nat
    BY <1>1, <1>4, <1>8 DEF Owned, Attached
  <2>2. /\ sharedFree' = [sharedFree EXCEPT ![s] = M]
        /\ nodeCount' = [nodeCount EXCEPT ![s] = @ + delta[t]]
        /\ allocated' = allocated /\ gcState' = gcState
        /\ localFree' = localFree /\ initialized' = initialized
        /\ currentStore' = [currentStore EXCEPT ![t] = NoStore]
        /\ delta' = [delta EXCEPT ![t] = 0]
    BY <1>8 DEF DropGuard, ReturnSlots
  <2>3. M \in Seq(SUBSET Nat) /\ Sound(node[s], M, [O EXCEPT ![t] = {}], allocated[s])
    <3>1. Sound(node[s], Append(sharedFree[s], K), [O EXCEPT ![t] = @ \ K], allocated[s])
          /\ Append(sharedFree[s], K) \in Seq(SUBSET Nat)
      <4> HIDE DEF O, K
      <4> QED BY <1>1, <1>4, <2>1, ReturnOwned, AppendProperties DEF SlotInv, O
    <3>2. [O EXCEPT ![t] = @ \ K] = [O EXCEPT ![t] = {}]
      <4>1. O[t] \ K = {}
        BY <2>1
      <4> QED BY <1>4, <4>1
    <3>3. K = {} => O = [O EXCEPT ![t] = {}]
      BY <1>4, <2>1
    <3> HIDE DEF K
    <3> QED BY <1>4, <3>1, <3>2, <3>3 DEF PushUnlessEmpty, SlotInv
  <2> HIDE DEF M
  <2>4. /\ sharedFree' \in [Stores -> Seq(SUBSET Nat)]
        /\ nodeCount' \in [Stores -> Int] /\ delta' \in [Threads -> Int]
        /\ currentStore' \in [Threads -> Stores \cup {NoStore}]
    BY <1>1, <1>3, <1>4, <2>2, <2>3 DEF TypeOK
  <2>5. Typed'
    BY <1>4, <1>5, <1>6, <2>2, <2>4 DEF TypeOK, Typed
  <2>6. /\ OnlyStore(s) /\ OnlyThread(t) /\ sharedFree'[s] = M
        /\ currentStore'[t] = NoStore
    BY <1>1, <1>3, <1>4, <1>5, <2>2 DEF TypeOK, OnlyStore, OnlyThread
  <2>7. /\ Owned(t, s)' = {}
        /\ \A r \in Stores \ {s} : Owned(t, r)' = Owned(t, r)
        /\ SourceInv(t)' /\ HomeInv(t)'
    BY <1>1, <1>4, <2>1, <2>6, StoreAssumption DEF Owned, Attached, SourceInv, HomeInv
  <2> QED BY <1>1, <1>3, <1>4, <1>5, <2>2, <2>3, <2>5, <2>6, <2>7, StepInv
<1> QED BY <1>5, <1>7, <1>8 DEF DropGuard

-----------------------------------------------------------------------------
(* The theorems *)

\* A step that changes nothing keeps the invariant.
LEMMA StutterInv == ASSUME IInv, UNCHANGED vars PROVE IInv'
<1>1. /\ node' = node /\ sharedFree' = sharedFree /\ allocated' = allocated
      /\ nodeCount' = nodeCount /\ gcState' = gcState
      /\ localFree' = localFree /\ initialized' = initialized
      /\ currentStore' = currentStore /\ delta' = delta /\ frames' = frames
      /\ gcPc' = gcPc /\ faulted' = faulted
  BY DEF vars, sharedVars, localVars, controlVars
<1>2. \A s \in Stores : OwnedBy(s)' = OwnedBy(s)
  BY <1>1 DEF OwnedBy, Owned, Attached
<1> QED BY <1>1, <1>2 DEF IInv, TypeOK, SlotInv, SourceInv, HomeInv

\* The gc thread starting to wait keeps the invariant.
LEMMA GcWaitInv == ASSUME IInv, NEW s \in Stores, GcWait(s) PROVE IInv'
<1>1. /\ node' = node /\ sharedFree' = sharedFree /\ allocated' = allocated
      /\ nodeCount' = nodeCount /\ gcState' = gcState
      /\ localFree' = localFree /\ initialized' = initialized
      /\ currentStore' = currentStore /\ delta' = delta /\ frames' = frames
      /\ faulted' = faulted
      /\ gcPc' = [gcPc EXCEPT ![s] = "wait"]
  BY DEF GcWait, sharedVars, localVars
<1>2. \A r \in Stores : OwnedBy(r)' = OwnedBy(r)
  BY <1>1 DEF OwnedBy, Owned, Attached
<1>3. TypeOK'
  BY <1>1 DEF IInv, TypeOK
<1> QED BY <1>1, <1>2, <1>3 DEF IInv, SlotInv, SourceInv, HomeInv

\* Every step of the node store keeps the invariant.
LEMMA NextInv == IInv /\ [Next]_vars => IInv'
<1> SUFFICES ASSUME IInv, [Next]_vars PROVE IInv'
  OBVIOUS
<1>1. CASE UNCHANGED vars
  BY <1>1, StutterInv
<1>2. ASSUME NEW t \in App, NEW s \in Stores, EnterManager(t, s) PROVE IInv'
  BY <1>2, EnterManagerInv
<1>3. ASSUME NEW t \in App, ExitManager(t) PROVE IInv'
  BY <1>3, ExitManagerInv
<1>4. ASSUME NEW t \in Threads, NEW s \in Stores, Add(t, s) PROVE IInv'
  BY <1>4, AddFromLocalListInv, AddOwnFromSharedListInv, AddForeignFromSharedListInv,
     AddFromLocalChunkInv, AddOwnFromNewChunkInv, SingleSlotInv, NoSlotInv DEF Add
<1>5. ASSUME NEW t \in Threads, NEW s \in Stores, Free(t, s) PROVE IInv'
  BY <1>5, FreeOwnInv, FreeForeignInv DEF Free
<1>6. ASSUME NEW s \in Stores, GcWait(s) \/ GcSync(s) PROVE IInv'
  BY <1>6, GcWaitInv, GcSyncInv
<1> QED BY <1>1, <1>2, <1>3, <1>4, <1>5, <1>6 DEF Next

\* The invariant holds in every reachable state.
LEMMA SpecInv == Spec => []IInv
BY InitInv, NextInv, PTL DEF Spec

\* Every variable keeps its type and no node lies outside the allocated part of
\* the slot array, whatever the threads, stores, capacities and chunk size.
THEOREM TypeCorrect == Spec => []TypeOK
<1>1. IInv => TypeOK
  BY DEF IInv
<1> QED BY <1>1, SpecInv, PTL

\* The invariant excludes that a slot is handed out twice.
LEMMA InvImpliesHandedOutOnce == IInv => HandedOutOnce
<1> SUFFICES ASSUME IInv, NEW s \in Stores
             PROVE  /\ Listed(s) \cap node[s] = {}
                    /\ \A j, k \in DOMAIN sharedFree[s] :
                         j # k => sharedFree[s][j] \cap sharedFree[s][k] = {}
                    /\ \A t \in Threads :
                         /\ Owned(t, s) \cap (node[s] \cup Listed(s)) = {}
                         /\ \A u \in Threads \ {t} : Owned(t, s) \cap Owned(u, s) = {}
  BY DEF HandedOutOnce
<1>1. DOMAIN sharedFree[s] = 1 .. Len(sharedFree[s])
  BY LenProperties DEF IInv, TypeOK
<1>2. \A t \in Threads : OwnedBy(s)[t] = Owned(t, s)
  BY DEF OwnedBy
<1>3. SlotInv(s)
  BY DEF IInv
<1>4. Listed(s) \cap node[s] = {}
  BY <1>1, <1>3 DEF Listed, SlotInv, Sound
<1>5. \A t \in Threads : Owned(t, s) \cap (node[s] \cup Listed(s)) = {}
  BY <1>1, <1>2, <1>3 DEF Listed, SlotInv, Sound
<1> QED BY <1>1, <1>2, <1>3, <1>4, <1>5 DEF SlotInv, Sound

\* add_node never hands out a slot that holds a node, that is on a shared list
\* or that another thread may hand out, for any number of threads and stores.
THEOREM SlotSafety == Spec => []HandedOutOnce
BY InvImpliesHandedOutOnce, SpecInv, PTL

\* The invariant says where each slot is.
LEMMA InvImpliesNoSlotLost == IInv => NoSlotLost
<1> SUFFICES ASSUME IInv, NEW s \in Stores
             PROVE  0 .. allocated[s] - 1
                      = node[s] \cup Listed(s) \cup UNION {Owned(t, s) : t \in Threads}
  BY DEF NoSlotLost
<1>1. DOMAIN sharedFree[s] = 1 .. Len(sharedFree[s])
  BY LenProperties DEF IInv, TypeOK
<1>2. \A t \in Threads : OwnedBy(s)[t] = Owned(t, s)
  BY DEF OwnedBy
<1>3. SlotInv(s)
  BY DEF IInv
<1>4. /\ node[s] \subseteq 0 .. allocated[s] - 1
      /\ Listed(s) \subseteq 0 .. allocated[s] - 1
      /\ \A t \in Threads : Owned(t, s) \subseteq 0 .. allocated[s] - 1
  BY <1>1, <1>2, <1>3 DEF Listed, SlotInv, Sound
<1>5. ASSUME NEW i \in 0 .. allocated[s] - 1
      PROVE  i \in node[s] \/ i \in Listed(s) \/ \E t \in Threads : i \in Owned(t, s)
  BY <1>1, <1>2, <1>3 DEF Listed, SlotInv, Sound, Covered
<1> QED BY <1>4, <1>5

\* Through chunk hand-out, guard drop, list transfer and gc, every slot that ever
\* left the uninitialised part of the array holds a node, is on a shared list, or
\* is at the disposal of a thread that serves the store.
THEOREM SlotsKept == Spec => []NoSlotLost
BY InvImpliesNoSlotLost, SpecInv, PTL

-----------------------------------------------------------------------------
(* The uncommitted changes of the node counter *)

\* A step of add_node or free_slot by t changes no delta but that of t, and that
\* one only while t serves the store or by setting it to 0.
LEMMA DeltaOfAddFree ==
  ASSUME TypeOK, NEW t \in Threads, NEW s \in Stores, Add(t, s) \/ Free(t, s)
  PROVE  /\ currentStore' = currentStore
         /\ \/ delta' = delta
            \/ /\ currentStore[t] = s
               /\ \A u \in Threads \ {t} : delta'[u] = delta[u]
<1>1. CASE Add(t, s)
  BY <1>1 DEF Add, AddFromLocalList, AddFromLocalChunk, AddOwnFromSharedList,
     AddOwnFromNewChunk, AddOwnSingleSlot, AddForeignFromSharedList,
     AddForeignSingleSlot, AddOutOfMemory, AddFromNullList, CountNode, Attached, TypeOK
<1>2. CASE Free(t, s)
  BY <1>2 DEF Free, FreeOwn, FreeForeign, Attached, localVars, TypeOK
<1> QED BY <1>1, <1>2

\* Every step leaves a detached thread without uncommitted changes.
LEMMA NextSynced ==
  ASSUME IInv, DetachedIsSynced, [Next]_vars
  PROVE  DetachedIsSynced'
<1> USE DEF DetachedIsSynced
<1>1. CASE UNCHANGED vars
  BY <1>1 DEF vars, localVars
<1>2. ASSUME NEW t \in App, NEW s \in Stores, EnterManager(t, s)
      PROVE  DetachedIsSynced'
  BY <1>2, StoreAssumption
     DEF EnterManager, prepare_local_state, localVars, IInv, TypeOK, Threads
<1>3. ASSUME NEW t \in App, ExitManager(t) PROVE DetachedIsSynced'
  BY <1>3 DEF ExitManager, DropGuard, localVars, IInv, TypeOK, Threads
<1>4. ASSUME NEW t \in Threads, NEW s \in Stores, Add(t, s) \/ Free(t, s)
      PROVE  DetachedIsSynced'
  BY <1>4, DeltaOfAddFree, StoreAssumption DEF IInv
<1>5. ASSUME NEW s \in Stores, GcWait(s) \/ GcSync(s) PROVE DetachedIsSynced'
  BY <1>5, StoreAssumption DEF GcWait, GcSync, localVars, IInv, TypeOK, Threads
<1> QED BY <1>1, <1>2, <1>3, <1>4, <1>5 DEF Next

\* A thread that detaches from a store has committed its changes of the node
\* counter, so prepare_local_state never loses any when the thread next serves a
\* store: its debug assertion cannot fail.
THEOREM DetachedSynced == Spec => []DetachedIsSynced
<1>1. Init => DetachedIsSynced
  BY DEF Init, DetachedIsSynced
<1>2. IInv /\ DetachedIsSynced /\ [Next]_vars => DetachedIsSynced'
  BY NextSynced
<1> QED BY <1>1, <1>2, SpecInv, PTL DEF Spec

-----------------------------------------------------------------------------
(* The node counter *)

\* What the threads serving r have not committed, and the part of thread t.
Serving(c, r) == {u \in Threads : c[u] = r}
Uncommitted(r) == SumFunctionOnSet(delta, Serving(currentStore, r))
Share(t, r) == IF currentStore[t] = r THEN delta[t] ELSE 0

\* A sum over the threads serving r, with t's part set apart, and the difference
\* between the sums for two local states.
Part(f, c, t, r) == IF c[t] = r THEN f[t] ELSE 0
Apart(f, c, t, r) ==
  /\ IsFiniteSet(Serving(c, r) \ {t})
  /\ SumFunctionOnSet(f, Serving(c, r) \ {t}) \in Int
  /\ SumFunctionOnSet(f, Serving(c, r)) =
       SumFunctionOnSet(f, Serving(c, r) \ {t}) + Part(f, c, t, r)
Moved(f, g, c, d, t, r) ==
  /\ SumFunctionOnSet(f, Serving(c, r)) \in Int
  /\ SumFunctionOnSet(g, Serving(d, r)) =
       SumFunctionOnSet(f, Serving(c, r)) - Part(f, c, t, r) + Part(g, d, t, r)

\* Every thread's part can be set apart.
LEMMA UncommittedWithout ==
  ASSUME NEW f, NEW c, \A u \in Threads : f[u] \in Int,
         NEW t \in Threads, NEW r \in Stores
  PROVE  Apart(f, c, t, r)
<1> DEFINE S == Serving(c, r)
           R == S \ {t}
<1>1. IsFiniteSet(S) /\ IsFiniteSet(R)
  BY StoreAssumption, FS_Subset DEF Threads, Serving
<1>2. (\A u \in S : f[u] \in Int) /\ (\A u \in R : f[u] \in Int) /\ f[t] \in Int
  BY DEF Serving
<1>3. SumFunctionOnSet(f, R) \in Int
  <2> HIDE DEF R
  <2> QED BY <1>1, <1>2, SumType
<1>4. CASE c[t] = r
  <2>1. t \in S
    BY <1>4 DEF Serving
  <2>2. SumFunctionOnSet(f, S) = f[t] + SumFunctionOnSet(f, R)
    <3> HIDE DEF S
    <3> QED BY <1>1, <1>2, <2>1, SumStep
  <2> HIDE DEF S, R
  <2>3. SumFunctionOnSet(f, S) = SumFunctionOnSet(f, R) + f[t]
    BY <1>2, <1>3, <2>2
  <2> QED BY <1>1, <1>3, <1>4, <2>3 DEF S, R, Apart, Part
<1>5. CASE c[t] # r
  <2>1. S = R
    BY <1>5 DEF Serving
  <2> HIDE DEF S, R
  <2>2. SumFunctionOnSet(f, S) = SumFunctionOnSet(f, R) + 0
    BY <1>3, <2>1
  <2> QED BY <1>1, <1>3, <1>5, <2>2 DEF S, R, Apart, Part
<1> QED BY <1>4, <1>5

\* The sums for two local states that differ at t only differ by t's part.
LEMMA UncommittedMove ==
  ASSUME NEW f, NEW g, NEW c, NEW d, NEW t \in Threads, NEW r \in Stores,
         \A u \in Threads : f[u] \in Int,
         \A u \in Threads : g[u] \in Int,
         \A u \in Threads \ {t} : d[u] = c[u] /\ g[u] = f[u]
  PROVE  Moved(f, g, c, d, t, r)
<1> DEFINE R == Serving(c, r) \ {t}
           x == Part(f, c, t, r)
           y == Part(g, d, t, r)
<1>1. Apart(f, c, t, r) /\ Apart(g, d, t, r)
  BY UncommittedWithout
<1>2. Serving(d, r) \ {t} = R
  BY DEF Serving
<1>3. SumFunctionOnSet(g, R) = SumFunctionOnSet(f, R)
  <2>1. IsFiniteSet(R) /\ \A u \in R : f[u] \in Int /\ g[u] = f[u]
    BY <1>1 DEF Serving, Apart
  <2> HIDE DEF R
  <2> QED BY <2>1, SumSame
<1>4. x \in Int /\ y \in Int
  BY DEF Part
<1> HIDE DEF R, x, y
<1>5. /\ SumFunctionOnSet(f, R) \in Int
      /\ SumFunctionOnSet(f, Serving(c, r)) = SumFunctionOnSet(f, R) + x
      /\ SumFunctionOnSet(g, Serving(d, r)) = SumFunctionOnSet(f, R) + y
  BY <1>1, <1>2, <1>3 DEF Apart, R, x, y
<1>6. /\ SumFunctionOnSet(f, Serving(c, r)) \in Int
      /\ SumFunctionOnSet(g, Serving(d, r)) = SumFunctionOnSet(f, Serving(c, r)) - x + y
  BY <1>4, <1>5
<1> QED BY <1>6 DEF Moved, x, y

\* If only t's local state changes, what is uncommitted changes by t's part.
LEMMA UncommittedChange ==
  ASSUME TypeOK, TypeOK', NEW t \in Threads, NEW r \in Stores,
         \A u \in Threads \ {t} : currentStore'[u] = currentStore[u] /\ delta'[u] = delta[u]
  PROVE  /\ Uncommitted(r) \in Int
         /\ Uncommitted(r)' = Uncommitted(r) - Share(t, r) + Share(t, r)'
<1>1. PICK f, g, c, d : f = delta /\ g = delta' /\ c = currentStore /\ d = currentStore'
  OBVIOUS
<1>2. /\ \A u \in Threads : f[u] \in Int
      /\ \A u \in Threads : g[u] \in Int
      /\ \A u \in Threads \ {t} : d[u] = c[u] /\ g[u] = f[u]
  BY <1>1 DEF TypeOK
<1>3. Moved(f, g, c, d, t, r)
  BY <1>2, UncommittedMove
<1> QED BY <1>1, <1>3 DEF Moved, Part, Uncommitted, Share, Serving

\* A step of thread t on store s may add as many nodes as it counts.
CountsEnough(t, s) ==
  /\ \A u \in Threads \ {t} : currentStore'[u] = currentStore[u] /\ delta'[u] = delta[u]
  /\ \A r \in Stores \ {s} : /\ node'[r] = node[r] /\ nodeCount'[r] = nodeCount[r]
                             /\ Share(t, r)' = Share(t, r)
  /\ LET more == nodeCount'[s] - nodeCount[s] + Share(t, s)' - Share(t, s)
     IN  \/ node'[s] = node[s] /\ more >= 0
         \/ (\E i \in Nat : node'[s] = node[s] \cup {i}) /\ more >= 1
         \/ (\E i \in node[s] : node'[s] = node[s] \ {i}) /\ more >= -1

\* Such a step does not let the counter fall behind.
LEMMA CountStep ==
  ASSUME IInv, IInv', CountNotBehind, NEW t \in Threads, NEW s \in Stores,
         CountsEnough(t, s)
  PROVE  CountNotBehind'
<1> SUFFICES ASSUME NEW r \in Stores
             PROVE  nodeCount'[r] + Uncommitted(r)' >= Cardinality(node'[r])
  BY DEF CountNotBehind, CountedNodes, Uncommitted, Serving, Attached
<1>0. TypeOK /\ TypeOK'
  BY DEF IInv
<1>1. /\ nodeCount[r] \in Int /\ nodeCount'[r] \in Int
      /\ Share(t, r) \in Int /\ Share(t, r)' \in Int
  BY <1>0 DEF TypeOK, Share
<1>2. /\ Uncommitted(r) \in Int
      /\ Uncommitted(r)' = Uncommitted(r) - Share(t, r) + Share(t, r)'
  BY <1>0, UncommittedChange DEF CountsEnough
<1>3. IsFiniteSet(node[r]) /\ Cardinality(node[r]) \in Nat
  <2>1. node[r] \subseteq 0 .. Capacity[r] - 1
    BY <1>0 DEF TypeOK, Slots
  <2>2. IsFiniteSet(0 .. Capacity[r] - 1)
    <3>1. 0 \in Int /\ Capacity[r] - 1 \in Int
      BY StoreAssumption
    <3> QED BY <3>1, FS_Interval
  <2> QED BY <2>1, <2>2, FS_Subset, FS_CardinalityType
<1>4. nodeCount[r] + Uncommitted(r) >= Cardinality(node[r])
  BY DEF CountNotBehind, CountedNodes, Uncommitted, Serving, Attached
<1> DEFINE more == nodeCount'[r] - nodeCount[r] + Share(t, r)' - Share(t, r)
<1>5. \/ node'[r] = node[r] /\ more >= 0
      \/ (\E i \in Nat : node'[r] = node[r] \cup {i}) /\ more >= 1
      \/ (\E i \in node[r] : node'[r] = node[r] \ {i}) /\ more >= -1
  <2>1. CASE r = s
    BY <2>1 DEF CountsEnough
  <2>2. CASE r # s
    BY <1>1, <2>2 DEF CountsEnough
  <2> QED BY <2>1, <2>2
<1>6. /\ Cardinality(node'[r]) \in Nat
      /\ Cardinality(node'[r]) <= Cardinality(node[r]) + more /\ more \in Int
  <2>1. more \in Int
    BY <1>1
  <2> HIDE DEF more
  <2>2. CASE node'[r] = node[r] /\ more >= 0
    BY <1>3, <2>1, <2>2
  <2>3. ASSUME NEW i \in Nat, node'[r] = node[r] \cup {i}, more >= 1
        PROVE  /\ Cardinality(node'[r]) \in Nat
               /\ Cardinality(node'[r]) <= Cardinality(node[r]) + more
    <3>1. \/ Cardinality(node'[r]) = Cardinality(node[r])
          \/ Cardinality(node'[r]) = Cardinality(node[r]) + 1
      BY <1>3, <2>3, FS_AddElement
    <3> QED BY <1>3, <2>1, <2>3, <3>1
  <2>4. ASSUME NEW i \in node[r], node'[r] = node[r] \ {i}, more >= -1
        PROVE  /\ Cardinality(node'[r]) \in Nat
               /\ Cardinality(node'[r]) <= Cardinality(node[r]) + more
    <3>1. /\ Cardinality(node'[r]) = Cardinality(node[r]) - 1
          /\ IsFiniteSet(node'[r])
      BY <1>3, <2>4, FS_RemoveElement
    <3>2. Cardinality(node'[r]) \in Nat
      BY <3>1, FS_CardinalityType
    <3> QED BY <1>3, <2>1, <2>4, <3>1, <3>2
  <2> QED BY <1>5, <2>1, <2>2, <2>3, <2>4
<1> QED BY <1>1, <1>2, <1>3, <1>4, <1>6

\* add_node counts every node it adds.
LEMMA AddCounts ==
  ASSUME IInv, NEW t \in Threads, NEW s \in Stores, Add(t, s)
  PROVE  CountsEnough(t, s)
<1>1. /\ TypeOK /\ s # NoStore /\ delta[t] \in Int /\ nodeCount[s] \in Int
      /\ initialized[t] \in Nat /\ allocated[s] \in Nat
      /\ delta \in [Threads -> Int] /\ nodeCount \in [Stores -> Int]
      /\ node \in [Stores -> SUBSET Nat]
  BY StoreAssumption DEF IInv, TypeOK
<1> DEFINE Counted == /\ nodeCount' = [nodeCount EXCEPT ![s] = @ + CountDelta(t, s)]
                      /\ delta' = IF Attached(t, s) THEN [delta EXCEPT ![t] = 0] ELSE delta
                      /\ currentStore' = currentStore
<1>2. /\ currentStore' = currentStore
      /\ \/ \E i \in Nat : node' = [node EXCEPT ![s] = @ \cup {i}]
         \/ node' = node
      /\ \/ /\ Attached(t, s) /\ delta' = [delta EXCEPT ![t] = @ + 1]
            /\ nodeCount' = nodeCount
         \/ Counted
  <2>1. ASSUME NEW i \in Slots(s), AddFromLocalList(t, s, i)
        PROVE  /\ currentStore' = currentStore /\ nodeCount' = nodeCount
               /\ Attached(t, s) /\ delta' = [delta EXCEPT ![t] = @ + 1]
               /\ node' = [node EXCEPT ![s] = @ \cup {i}] /\ i \in Nat
    BY <2>1 DEF AddFromLocalList, Occupy, sharedVars, Slots
  <2>2. ASSUME AddFromLocalChunk(t, s)
        PROVE  /\ currentStore' = currentStore /\ nodeCount' = nodeCount
               /\ Attached(t, s) /\ delta' = [delta EXCEPT ![t] = @ + 1]
               /\ node' = [node EXCEPT ![s] = @ \cup {initialized[t]}]
    BY <2>2 DEF AddFromLocalChunk, Occupy, sharedVars
  <2>3. CountNode(t, s) => Counted
    BY DEF CountNode
  <2>4. ASSUME NEW i \in Slots(s),
               AddOwnFromSharedList(t, s, i) \/ AddForeignFromSharedList(t, s, i)
        PROVE  /\ CountNode(t, s) /\ i \in Nat
               /\ node' = [node EXCEPT ![s] = @ \cup {i}]
    BY <2>4 DEF AddOwnFromSharedList, AddForeignFromSharedList, Occupy, Slots
  <2>5. ASSUME \/ AddOwnFromNewChunk(t, s) \/ AddOwnSingleSlot(t, s)
               \/ AddForeignSingleSlot(t, s)
        PROVE  CountNode(t, s) /\ node' = [node EXCEPT ![s] = @ \cup {allocated[s]}]
    BY <2>5 DEF AddOwnFromNewChunk, AddOwnSingleSlot, AddForeignSingleSlot, Occupy
  <2>6. ASSUME AddOutOfMemory(t, s) \/ AddFromNullList(t, s)
        PROVE  CountNode(t, s) /\ node' = node
    BY <2>6 DEF AddOutOfMemory, AddFromNullList
  <2> HIDE DEF Counted
  <2>7. Counted => currentStore' = currentStore
    BY DEF Counted
  <2> QED BY <1>1, <2>1, <2>2, <2>3, <2>4, <2>5, <2>6, <2>7 DEF Add
<1>3. /\ \A u \in Threads \ {t} : currentStore'[u] = currentStore[u] /\ delta'[u] = delta[u]
      /\ \A r \in Stores \ {s} : /\ node'[r] = node[r] /\ nodeCount'[r] = nodeCount[r]
                                 /\ Share(t, r)' = Share(t, r)
  BY <1>1, <1>2 DEF Attached, Share
<1>4. nodeCount'[s] - nodeCount[s] + Share(t, s)' - Share(t, s) = 1
  <2>1. CASE Attached(t, s) /\ delta'[t] = delta[t] + 1 /\ nodeCount' = nodeCount
    BY <1>1, <1>2, <2>1 DEF Attached, Share
  <2>2. CASE Counted
    BY <1>1, <2>2 DEF Attached, Share, CountDelta
  <2> QED BY <1>1, <1>2, <2>1, <2>2
<1>5. node'[s] = node[s] \/ \E i \in Nat : node'[s] = node[s] \cup {i}
  BY <1>1, <1>2
<1> QED BY <1>3, <1>4, <1>5 DEF CountsEnough

\* free_slot takes at most the freed node off the count.
LEMMA FreeCounts ==
  ASSUME IInv, NEW t \in Threads, NEW s \in Stores, Free(t, s)
  PROVE  CountsEnough(t, s)
<1>1. /\ TypeOK /\ s # NoStore /\ delta[t] \in Int /\ nodeCount[s] \in Int
      /\ delta \in [Threads -> Int] /\ nodeCount \in [Stores -> Int]
      /\ node \in [Stores -> SUBSET Nat]
  BY StoreAssumption DEF IInv, TypeOK
<1>2. PICK i \in Slots(s) : FreeOwn(t, s, i) \/ FreeForeign(t, s, i)
  BY DEF Free
<1>3. i \in node[s] /\ node' = [node EXCEPT ![s] = @ \ {i}] /\ currentStore' = currentStore
  BY <1>2 DEF FreeOwn, FreeForeign, localVars
<1>4. \/ /\ Attached(t, s) /\ delta' = [delta EXCEPT ![t] = @ - 1] /\ nodeCount' = nodeCount
      \/ /\ Attached(t, s) /\ delta' = [delta EXCEPT ![t] = 0]
         /\ nodeCount' = [nodeCount EXCEPT ![s] = @ + delta[t]]
      \/ /\ ~Attached(t, s) /\ delta' = delta
         /\ nodeCount' = [nodeCount EXCEPT ![s] = @ - 1]
  BY <1>2 DEF FreeOwn, FreeForeign, localVars, sharedVars
<1>5. /\ \A u \in Threads \ {t} : currentStore'[u] = currentStore[u] /\ delta'[u] = delta[u]
      /\ \A r \in Stores \ {s} : /\ node'[r] = node[r] /\ nodeCount'[r] = nodeCount[r]
                                 /\ Share(t, r)' = Share(t, r)
  BY <1>1, <1>3, <1>4 DEF Attached, Share
<1>6. nodeCount'[s] - nodeCount[s] + Share(t, s)' - Share(t, s) >= -1
  BY <1>1, <1>3, <1>4 DEF Attached, Share
<1>7. node'[s] = node[s] \ {i}
  BY <1>1, <1>3
<1> QED BY <1>3, <1>5, <1>6, <1>7 DEF CountsEnough

\* Entering and leaving a manager moves counts but changes no sum.
LEMMA EnterExitCounts ==
  ASSUME IInv, DetachedIsSynced, NEW t \in App,
         (\E s \in Stores : EnterManager(t, s)) \/ ExitManager(t)
  PROVE  \E s \in Stores : CountsEnough(t, s)
<1>1. /\ TypeOK /\ t \in Threads /\ delta[t] \in Int
      /\ delta \in [Threads -> Int] /\ nodeCount \in [Stores -> Int]
      /\ currentStore \in [Threads -> Stores \cup {NoStore}]
      /\ frames[t] \in Seq(Frame)
  BY DEF IInv, TypeOK, Threads
<1>2. ASSUME NEW s \in Stores, EnterManager(t, s) PROVE CountsEnough(t, s)
  <2>1. /\ node' = node /\ nodeCount' = nodeCount /\ delta' = delta
        /\ \/ currentStore' = currentStore
           \/ /\ currentStore[t] = NoStore /\ delta[t] = 0
              /\ currentStore' = [currentStore EXCEPT ![t] = s]
    BY <1>1, <1>2 DEF EnterManager, prepare_local_state, sharedVars, localVars, DetachedIsSynced
  <2>2. \A r \in Stores : Share(t, r)' = Share(t, r)
    BY <1>1, <2>1, StoreAssumption DEF Share
  <2>3. nodeCount'[s] - nodeCount[s] + Share(t, s)' - Share(t, s) = 0
    BY <1>1, <2>1, <2>2 DEF Share
  <2> QED BY <1>1, <2>1, <2>2, <2>3 DEF CountsEnough
<1>3. ASSUME ExitManager(t) PROVE \E s \in Stores : CountsEnough(t, s)
  <2>1. PICK s \in Stores : s = Last(frames[t]).store /\ s # NoStore
    <3>1. Last(frames[t]) \in Frame
      BY <1>1, <1>3, FrontFacts DEF ExitManager
    <3> QED BY <3>1, StoreAssumption DEF Frame
  <2>2. /\ node' = node
        /\ \/ nodeCount' = nodeCount /\ delta' = delta /\ currentStore' = currentStore
           \/ /\ currentStore[t] = s
              /\ nodeCount' = [nodeCount EXCEPT ![s] = @ + delta[t]]
              /\ delta' = [delta EXCEPT ![t] = 0]
              /\ currentStore' = [currentStore EXCEPT ![t] = NoStore]
    BY <1>3, <2>1 DEF ExitManager, DropGuard, ReturnSlots, Attached, sharedVars, localVars
  <2>3. /\ \A u \in Threads \ {t} : currentStore'[u] = currentStore[u] /\ delta'[u] = delta[u]
        /\ \A r \in Stores \ {s} : /\ node'[r] = node[r] /\ nodeCount'[r] = nodeCount[r]
                                   /\ Share(t, r)' = Share(t, r)
    BY <1>1, <2>1, <2>2, StoreAssumption DEF Share
  <2>4. nodeCount'[s] - nodeCount[s] + Share(t, s)' - Share(t, s) = 0
    <3>1. nodeCount[s] \in Int /\ Share(t, s) \in Int
      BY <1>1, <2>1 DEF Share
    <3>2. \/ nodeCount'[s] = nodeCount[s] /\ Share(t, s)' = Share(t, s)
          \/ nodeCount'[s] = nodeCount[s] + Share(t, s) /\ Share(t, s)' = 0
      BY <1>1, <2>1, <2>2 DEF Share
    <3> QED BY <3>1, <3>2
  <2>5. CountsEnough(t, s)
    BY <2>2, <2>3, <2>4 DEF CountsEnough
  <2> QED BY <2>1, <2>5
<1> QED BY <1>2, <1>3

\* So does the gc thread when it returns its free list.
LEMMA GcCounts ==
  ASSUME IInv, NEW s \in Stores, GcWait(s) \/ GcSync(s)
  PROVE  CountsEnough(GcThread[s], s)
<1> DEFINE g == GcThread[s]
<1>1. /\ g \in Threads /\ currentStore[g] = s /\ delta[g] \in Int
      /\ delta \in [Threads -> Int] /\ nodeCount \in [Stores -> Int]
  BY StoreAssumption DEF IInv, TypeOK, HomeInv, Threads
<1>2. /\ node' = node /\ currentStore' = currentStore
      /\ \/ nodeCount' = nodeCount /\ delta' = delta
         \/ /\ nodeCount' = [nodeCount EXCEPT ![s] = @ + delta[g]]
            /\ delta' = [delta EXCEPT ![g] = 0]
  BY DEF GcWait, GcSync, sharedVars, localVars
<1> HIDE DEF g
<1>3. /\ \A u \in Threads \ {g} : currentStore'[u] = currentStore[u] /\ delta'[u] = delta[u]
      /\ \A r \in Stores \ {s} : /\ node'[r] = node[r] /\ nodeCount'[r] = nodeCount[r]
                                 /\ Share(g, r)' = Share(g, r)
  BY <1>1, <1>2 DEF Share
<1>4. nodeCount'[s] - nodeCount[s] + Share(g, s)' - Share(g, s) = 0
  BY <1>1, <1>2 DEF Share
<1>5. CountsEnough(g, s)
  BY <1>2, <1>3, <1>4 DEF CountsEnough
<1> QED BY <1>5 DEF g

\* Every step keeps the counter at or above the number of nodes.
LEMMA NextCounted ==
  ASSUME IInv, IInv', DetachedIsSynced, CountNotBehind, [Next]_vars
  PROVE  CountNotBehind'
<1>1. CASE UNCHANGED vars
  BY <1>1 DEF vars, sharedVars, localVars, CountNotBehind, CountedNodes, Attached
<1>2. ASSUME NEW t \in App, (\E s \in Stores : EnterManager(t, s)) \/ ExitManager(t)
      PROVE  CountNotBehind'
  BY <1>2, EnterExitCounts, CountStep DEF Threads
<1>3. ASSUME NEW t \in Threads, NEW s \in Stores, Add(t, s) \/ Free(t, s)
      PROVE  CountNotBehind'
  BY <1>3, AddCounts, FreeCounts, CountStep
<1>4. ASSUME NEW s \in Stores, GcWait(s) \/ GcSync(s) PROVE CountNotBehind'
  <2>1. GcThread[s] \in Threads
    BY StoreAssumption DEF Threads
  <2> QED BY <1>4, <2>1, GcCounts, CountStep
<1> QED BY <1>1, <1>2, <1>3, <1>4 DEF Next

\* The shared node counter and the uncommitted deltas never add up to less than
\* the nodes of the store, so the trigger of the automatic gc is never late by
\* more than what the threads have not committed yet.
THEOREM CountKept == Spec => []CountNotBehind
<1>1. Init => CountNotBehind
  <2> SUFFICES ASSUME Init, NEW s \in Stores
               PROVE  CountedNodes(s) >= Cardinality(node[s])
    BY DEF CountNotBehind
  <2> DEFINE S == {t \in Threads : Attached(t, s)}
  <2>1. IsFiniteSet(S)
    BY StoreAssumption, FS_Subset DEF Threads
  <2>2. \A t \in S : delta[t] = 0
    BY DEF Init
  <2>3. SumFunctionOnSet(delta, S) = 0
    <3> HIDE DEF S
    <3> QED BY <2>1, <2>2, SumZero
  <2>4. nodeCount[s] = 0 /\ Cardinality(node[s]) = 0
    BY FS_EmptySet DEF Init
  <2> QED BY <2>3, <2>4 DEF CountedNodes
<1>2. IInv /\ IInv' /\ DetachedIsSynced /\ CountNotBehind /\ [Next]_vars => CountNotBehind'
  BY NextCounted
<1> QED BY <1>1, <1>2, SpecInv, DetachedSynced, PTL DEF Spec

=============================================================================
