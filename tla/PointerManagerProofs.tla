----------------------- MODULE PointerManagerProofs ------------------------
(***************************************************************************)
(* Proof that the slab outlives what refers to it, that its free list is   *)
(* sound and that the counts of nodes and items are exact, for any number  *)
(* of threads, levels, pages, functions and references.                    *)
(***************************************************************************)
EXTENDS PointerManager, NumberTheorems

-----------------------------------------------------------------------------
(* The inductive invariant. The parts about slots and nodes are predicates *)
(* on values, so that their lemmas do not mention steps.                   *)

\* The free list as a set.
FreeSet(f) == {f[k] : k \in DOMAIN f}

Listing(f) == f \in Seq(Slots) /\ f # <<>> /\ \A j, k \in DOMAIN f : f[j] = f[k] => j = k

\* The slot between the free list and the tables that a thread has in hand.
Hand(t) == IF pc[t] \in {"write", "gc"} THEN edge[t] ELSE False

\* Slots up to b exist; counts R, free slots F and slots in hand H are apart.
Apart(R, F, H, b) ==
  /\ \A x \in F : R[x] = 0 /\ x <= b
  /\ \A s \in Slots : R[s] > 0 => s <= b
  /\ \A t \in Threads : H[t] \in Slots => R[H[t]] = 0 /\ H[t] \notin F /\ H[t] <= b
  /\ \A t, u \in Threads : H[t] \in Slots /\ H[t] = H[u] => t = u

SlotInv ==
  /\ Listing(free)
  /\ Apart(rc, FreeSet(free), [t \in Threads |-> Hand(t)], pages * PageSlots)

\* The edges to s in the nodes with children K, and with the clients C.
InNodes(K, s) == SumFunctionOnSet([p \in Slots |-> Occurs(s, K[p])], Slots)
InClients(C, s) == SumFunctionOnSet([t \in Threads |-> C[t][s]], Threads)

\* A node has one edge in the table of its level, and its count is exact.
Exact(R, L, K, T, C) ==
  \A s \in Slots :
    /\ R[s] = (IF R[s] > 0 THEN 1 ELSE 0) + InNodes(K, s) + InClients(C, s)
    /\ R[s] = 0 => K[s] = NoKids
    /\ {l \in DOMAIN T : s \in T[l]} = (IF R[s] > 0 THEN {L[s]} ELSE {})

Clients == [t \in Threads |-> [s \in Slots |-> OwnedBy(t, s)]]

NodeInv == Exact(rc, level, kids, table, Clients)

\* The nodes are counted.
Live(R) == {s \in Slots : R[s] > 0}
Entries(T) == SumFunctionOnSet([l \in DOMAIN T |-> Cardinality(T[l])], DOMAIN T)

ItemInv == items = Cardinality(Live(rc)) /\ items = Entries(table)

\* A thread in the manager has a handle, and what it has in hand depends on what
\* it is doing.
AccessInv(t) ==
  /\ access[t] # "none" => Handles(t) > 0
  /\ pc[t] \in {"made", "owned", "alloc", "write", "gc"} => access[t] # "none"
  /\ pc[t] = "clone" => Handles(t) > 0
  /\ pc[t] = "drop" => access[t] = "none"
  /\ pc[t] \in {"idle", "drop", "alloc"} => edge[t] = False
  /\ pc[t] = "write" => edge[t] \in Slots
  /\ pc[t] = "gc" => edge[t] # True

\* The mutexes of the levels.
LockInv(t) ==
  /\ pc[t] \in {"alloc", "write"} => \E l \in DOMAIN table : tableLock[l] = t
  /\ \A l \in DOMAIN table : tableLock[l] = t =>
       pc[t] \in {"alloc", "write"} \/ (pc[t] = "gc" /\ l = gcLevel)
  /\ \A l, m \in DOMAIN table : tableLock[l] = t /\ tableLock[m] = t => l = m
  /\ pc[t] = "gc" => gcOwner = t /\ gcLevel \in DOMAIN table
  /\ pc[t] = "gc" /\ tableLock[gcLevel] = t => todo \subseteq table[gcLevel]

ThreadInv == \A t \in Threads : AccessInv(t) /\ LockInv(t)

SlabInv ==
  /\ slabRc = SumFunctionOnSet([t \in Threads |-> HoldsOfSlab(t)], Threads)
  /\ alive <=> slabRc > 0

IInv == TypeOK /\ SlabInv /\ ThreadInv /\ (alive => SlotInv /\ NodeInv /\ ItemInv)

-----------------------------------------------------------------------------
(* Slots, edges and lists.                                                 *)

\* Slots are numbers from 1 on, terminals are not among them.
LEMMA SlotFacts ==
  /\ IsFiniteSet(Slots) /\ IsFiniteSet(Edges) /\ IsFiniteSet(Threads)
  /\ \A s \in Slots : s \in Nat /\ s > 0 /\ s \in Edges /\ IsInner(s)
  /\ False \notin Slots /\ True \notin Slots /\ False \in Edges /\ True \in Edges
  /\ False # True
  /\ \A e \in Edges : IsInner(e) <=> e \in Slots
<1>1. PICK n : n = PageSlots * MaxPages
  OBVIOUS
<1>2. n \in Nat
  BY <1>1, SlabAssumption
<1>3. Slots = 1 .. n
  BY <1>1 DEF Slots
<1>4. IsFiniteSet(1 .. n)
  <2>1. 1 \in Int /\ n \in Int
    BY <1>2
  <2> QED BY <2>1, FS_Interval
<1>5. IsFiniteSet(Edges)
  <2>1. Edges = (Slots \cup {False}) \cup {True}
    BY DEF Edges, Terminals
  <2>2. IsFiniteSet(Slots \cup {False})
    BY <1>3, <1>4, FS_AddElement
  <2> QED BY <2>1, <2>2, FS_AddElement
<1>6. IsFiniteSet(Threads)
  BY ManagerAssumption
<1> QED BY <1>2, <1>3, <1>4, <1>5, <1>6 DEF Edges, Terminals, False, True, IsInner

\* How often an edge occurs in no, one and two edges.
One(e, s) == IF e = s THEN 1 ELSE 0

\* In the empty list.
LEMMA OccursNone == ASSUME NEW s PROVE Occurs(s, <<>>) = 0
<1>1. {i \in DOMAIN <<>> : <<>>[i] = s} = {}
  OBVIOUS
<1> QED BY <1>1, FS_EmptySet DEF Occurs

\* In a list of one edge.
LEMMA OccursOne == ASSUME NEW s, NEW e PROVE Occurs(s, <<e>>) = One(e, s)
<1>1. e = s => {i \in DOMAIN <<e>> : <<e>>[i] = s} = {1}
  OBVIOUS
<1>2. e # s => {i \in DOMAIN <<e>> : <<e>>[i] = s} = {}
  OBVIOUS
<1>3. Cardinality({1}) = 1 /\ Cardinality({}) = 0
  BY FS_Singleton, FS_EmptySet
<1> QED BY <1>1, <1>2, <1>3 DEF Occurs, One

\* In the two children of a node.
LEMMA OccursTwo ==
  ASSUME NEW s, NEW a, NEW b PROVE Occurs(s, <<a, b>>) = One(a, s) + One(b, s)
<1> DEFINE D == {i \in DOMAIN <<a, b>> : <<a, b>>[i] = s}
<1>1. DOMAIN <<a, b>> = {1, 2} /\ <<a, b>>[1] = a /\ <<a, b>>[2] = b
  OBVIOUS
<1>2. Cardinality({1}) = 1 /\ Cardinality({2}) = 1 /\ Cardinality({}) = 0 /\ IsFiniteSet({1})
  BY FS_Singleton, FS_EmptySet
<1>3. Cardinality({1, 2}) = 2
  <2>1. 2 \notin {1} /\ {1, 2} = {1} \cup {2}
    OBVIOUS
  <2>2. Cardinality({1} \cup {2}) = Cardinality({1}) + 1
    BY <1>2, <2>1, FS_AddElement
  <2> QED BY <1>2, <2>1, <2>2
<1>4. D = {i \in {1, 2} : IF i = 1 THEN a = s ELSE b = s}
  BY <1>1
<1>5. Occurs(s, <<a, b>>) = Cardinality(D)
  BY DEF Occurs
<1> HIDE DEF D
<1>6. /\ (a = s /\ b = s) => D = {1, 2}
      /\ (a = s /\ b # s) => D = {1}
      /\ (a # s /\ b = s) => D = {2}
      /\ (a # s /\ b # s) => D = {}
  BY <1>4
<1> QED BY <1>2, <1>3, <1>5, <1>6 DEF One

\* The children of a node as two edges.
LEMMA OccursPair ==
  ASSUME NEW k \in Edges \X Edges, NEW s
  PROVE  Occurs(s, k) = One(k[1], s) + One(k[2], s) /\ Occurs(s, k) \in Nat
<1>1. k = <<k[1], k[2]>>
  OBVIOUS
<1>2. Occurs(s, k) = One(k[1], s) + One(k[2], s)
  BY <1>1, OccursTwo
<1> QED BY <1>2 DEF One

\* Taking the first slot of a list that has more.
LEMMA TakeSlot ==
  ASSUME NEW f, Listing(f), Len(f) > 1
  PROVE  Listing(Tail(f)) /\ FreeSet(Tail(f)) = FreeSet(f) \ {Head(f)} /\ Head(f) \in FreeSet(f)
<1>1. f \in Seq(Slots) /\ Len(f) \in Nat /\ DOMAIN f = 1 .. Len(f)
  BY DEF Listing
<1>2. /\ Tail(f) \in Seq(Slots) /\ Len(Tail(f)) = Len(f) - 1
      /\ \A i \in 1 .. Len(f) - 1 : Tail(f)[i] = f[i + 1]
      /\ Head(f) = f[1] /\ DOMAIN Tail(f) = 1 .. Len(f) - 1
  BY <1>1
<1>3. Tail(f) # <<>>
  <2>1. Len(Tail(f)) > 0 /\ Len(<<>>) = 0
    BY <1>1, <1>2
  <2> QED BY <2>1
<1>4. \A j, k \in DOMAIN f : f[j] = f[k] => j = k
  BY DEF Listing
<1>5. \A j, k \in 1 .. Len(f) - 1 : Tail(f)[j] = Tail(f)[k] => j = k
  <2> SUFFICES ASSUME NEW j \in 1 .. Len(f) - 1, NEW k \in 1 .. Len(f) - 1,
                      f[j + 1] = f[k + 1]
               PROVE  j = k
    BY <1>2
  <2>1. j + 1 \in 1 .. Len(f) /\ k + 1 \in 1 .. Len(f)
    BY <1>1
  <2>2. j + 1 = k + 1
    BY <1>1, <1>4, <2>1
  <2> QED BY <1>1, <2>2
<1>6. Listing(Tail(f))
  BY <1>2, <1>3, <1>5 DEF Listing
<1>7. ASSUME NEW x \in FreeSet(Tail(f)) PROVE x \in FreeSet(f) \ {Head(f)}
  <2>1. PICK i \in 1 .. Len(f) - 1 : x = f[i + 1]
    BY <1>2 DEF FreeSet
  <2>2. i + 1 \in 1 .. Len(f) /\ i + 1 # 1 /\ 1 \in 1 .. Len(f)
    BY <1>1
  <2>3. f[i + 1] # f[1]
    BY <1>1, <1>4, <2>2
  <2> QED BY <1>1, <1>2, <2>1, <2>2, <2>3 DEF FreeSet
<1>8. ASSUME NEW x \in FreeSet(f), x # Head(f) PROVE x \in FreeSet(Tail(f))
  <2>1. PICK i \in 1 .. Len(f) : x = f[i]
    BY <1>1 DEF FreeSet
  <2>2. i # 1
    BY <1>2, <1>8, <2>1
  <2>3. i - 1 \in 1 .. Len(f) - 1 /\ (i - 1) + 1 = i
    BY <1>1, <2>2
  <2>4. Tail(f)[i - 1] = x
    BY <1>2, <2>1, <2>3
  <2> QED BY <1>2, <2>3, <2>4 DEF FreeSet
<1>9. Head(f) \in FreeSet(f)
  BY <1>1, <1>2 DEF FreeSet
<1> QED BY <1>6, <1>7, <1>8, <1>9

\* Putting a slot in front of a list that does not have it.
LEMMA PutSlot ==
  ASSUME NEW f, Listing(f), NEW s \in Slots, s \notin FreeSet(f)
  PROVE  Listing(<<s>> \o f) /\ FreeSet(<<s>> \o f) = FreeSet(f) \cup {s}
<1>1. f \in Seq(Slots) /\ Len(f) \in Nat /\ DOMAIN f = 1 .. Len(f)
  BY DEF Listing
<1>2. PICK g : g = <<s>> \o f
  OBVIOUS
<1>3. /\ g \in Seq(Slots) /\ Len(g) = Len(f) + 1 /\ DOMAIN g = 1 .. Len(f) + 1
      /\ g[1] = s /\ \A i \in 1 .. Len(f) : g[i + 1] = f[i]
  <2>1. <<s>> \in Seq(Slots) /\ Len(<<s>>) = 1 /\ <<s>>[1] = s
    OBVIOUS
  <2>2. g \in Seq(Slots) /\ Len(g) = Len(f) + 1
    BY <1>1, <1>2, <2>1
  <2>3. DOMAIN g = 1 .. Len(f) + 1
    BY <2>2
  <2>4. ASSUME NEW i \in 1 .. Len(f) + 1 PROVE g[i] = IF i <= 1 THEN <<s>>[i] ELSE f[i - 1]
    BY <1>1, <1>2, <2>1
  <2>5. g[1] = s
    BY <1>1, <2>1, <2>4
  <2>6. ASSUME NEW i \in 1 .. Len(f) PROVE g[i + 1] = f[i]
    <3>1. i + 1 \in 1 .. Len(f) + 1 /\ ~(i + 1 <= 1) /\ (i + 1) - 1 = i
      BY <1>1
    <3> QED BY <2>4, <3>1
  <2> QED BY <2>2, <2>3, <2>5, <2>6
<1>4. ASSUME NEW i \in 1 .. Len(f) + 1, i # 1
      PROVE  i - 1 \in 1 .. Len(f) /\ g[i] = f[i - 1]
  <2>1. i - 1 \in 1 .. Len(f) /\ (i - 1) + 1 = i
    BY <1>1, <1>4
  <2> QED BY <1>3, <2>1
<1>5. \A j \in 1 .. Len(f) : f[j] # s
  BY <1>1 DEF FreeSet
<1>6. \A j, k \in 1 .. Len(f) : f[j] = f[k] => j = k
  BY <1>1 DEF Listing
<1>7. ASSUME NEW j \in 1 .. Len(f) + 1, NEW k \in 1 .. Len(f) + 1, g[j] = g[k] PROVE j = k
  <2>1. CASE j = 1 /\ k = 1
    BY <2>1
  <2>2. CASE j = 1 /\ k # 1
    BY <1>3, <1>4, <1>5, <1>7, <2>2
  <2>3. CASE j # 1 /\ k = 1
    BY <1>3, <1>4, <1>5, <1>7, <2>3
  <2>4. CASE j # 1 /\ k # 1
    <3>1. j - 1 = k - 1
      BY <1>4, <1>6, <1>7, <2>4
    <3> QED BY <1>1, <3>1
  <2> QED BY <2>1, <2>2, <2>3, <2>4
<1>8. g # <<>>
  BY <1>1, <1>3
<1>9. Listing(g)
  BY <1>3, <1>7, <1>8 DEF Listing
<1>10. FreeSet(g) = FreeSet(f) \cup {s}
  <2>1. ASSUME NEW x \in FreeSet(g) PROVE x \in FreeSet(f) \cup {s}
    <3>1. PICK i \in 1 .. Len(f) + 1 : x = g[i]
      BY <1>3 DEF FreeSet
    <3>2. CASE i = 1
      BY <1>3, <3>1, <3>2
    <3>3. CASE i # 1
      BY <1>1, <1>4, <3>1, <3>3 DEF FreeSet
    <3> QED BY <3>2, <3>3
  <2>2. ASSUME NEW x \in FreeSet(f) PROVE x \in FreeSet(g)
    <3>1. PICK i \in 1 .. Len(f) : x = f[i]
      BY <1>1 DEF FreeSet
    <3>2. i + 1 \in 1 .. Len(f) + 1 /\ g[i + 1] = x
      BY <1>1, <1>3, <3>1
    <3> QED BY <1>3, <3>2 DEF FreeSet
  <2>3. s \in FreeSet(g)
    <3>1. 1 \in 1 .. Len(f) + 1
      BY <1>1
    <3> QED BY <1>3, <3>1 DEF FreeSet
  <2> QED BY <2>1, <2>2, <2>3
<1> QED BY <1>2, <1>9, <1>10

\* The slots of page p + 1 lie above those of the first p pages.
LEMMA NewPage ==
  ASSUME NEW p \in Nat, p < MaxPages, NEW b, b = p * PageSlots, NEW c, c = (p + 1) * PageSlots
  PROVE  /\ b \in Nat /\ c \in Nat /\ b <= c
         /\ Listing(PageOf(p + 1))
         /\ \A x \in FreeSet(PageOf(p + 1)) : x > b /\ x <= c
<1>1. PageSlots \in Nat /\ PageSlots > 0 /\ MaxPages \in Nat
  BY SlabAssumption
<1>2. b \in Nat /\ c = b + PageSlots
  BY <1>1
<1>3. PICK m : m = PageSlots * MaxPages
  OBVIOUS
<1>4. m \in Nat /\ c <= m
  <2>1. PICK q \in Nat : MaxPages = (p + 1) + q
    <3>1. MaxPages - (p + 1) \in Nat
      BY <1>1
    <3> QED BY <1>1, <3>1
  <2>2. PageSlots * MaxPages = PageSlots * (p + 1) + PageSlots * q
    BY <1>1, <2>1
  <2>3. PICK x, y : x = PageSlots * (p + 1) /\ y = PageSlots * q
    OBVIOUS
  <2>4. x \in Nat /\ y \in Nat /\ x = c
    BY <1>1, <2>3
  <2>5. m = x + y
    BY <1>3, <2>2, <2>3
  <2> HIDE <2>2
  <2> QED BY <2>4, <2>5
<1>5. Slots = 1 .. m
  BY <1>3 DEF Slots
<1>6. PICK f : f = PageOf(p + 1)
  OBVIOUS
<1>7. /\ f = [k \in 1 .. PageSlots |-> b + k]
  BY <1>6 DEF PageOf
<1>8. \A k \in 1 .. PageSlots : b + k \in 1 .. m
  BY <1>1, <1>2, <1>4
<1>9. f \in Seq(Slots) /\ DOMAIN f = 1 .. PageSlots /\ f # <<>>
  <2>1. f \in [1 .. PageSlots -> Slots]
    BY <1>5, <1>7, <1>8
  <2>2. f \in Seq(Slots) /\ Len(f) = PageSlots
    BY <1>1, <2>1
  <2> QED BY <1>1, <1>7, <2>2
<1>10. \A j, k \in 1 .. PageSlots : f[j] = f[k] => j = k
  BY <1>1, <1>2, <1>7
<1>11. Listing(f)
  BY <1>9, <1>10 DEF Listing
<1>12. \A x \in FreeSet(f) : x > b /\ x <= c
  BY <1>1, <1>2, <1>7, <1>9 DEF FreeSet
<1> QED BY <1>1, <1>2, <1>6, <1>11, <1>12

-----------------------------------------------------------------------------
(* Slots in the free list, in hand, and with a node are apart.             *)

\* What get_slot does to the free list f on p pages, with the slot x for the caller.
Got(f, p, x, f2, p2) ==
  /\ x = Head(f)
  /\ \/ Len(f) > 1 /\ f2 = Tail(f) /\ p2 = p
     \/ ~(Len(f) > 1) /\ p < MaxPages /\ p2 = p + 1 /\ f2 = PageOf(p + 1)

\* A slot that no thread other than t has in hand and that is not free.
Spare(F, H, b, t, x) ==
  x \in Slots /\ x \notin F /\ x <= b /\ \A u \in Threads \ {t} : H[u] # x

\* The slot that get_slot hands out is nowhere else.
LEMMA ApartGot ==
  ASSUME NEW R \in [Slots -> Nat], NEW H, NEW f, NEW p \in Nat, NEW x, NEW f2, NEW p2,
         Listing(f), Got(f, p, x, f2, p2), Apart(R, FreeSet(f), H, p * PageSlots)
  PROVE  /\ Listing(f2) /\ Apart(R, FreeSet(f2), H, p2 * PageSlots) /\ R[x] = 0
         /\ \A t \in Threads : Spare(FreeSet(f2), H, p2 * PageSlots, t, x)
<1>1. f \in Seq(Slots) /\ Len(f) \in Nat /\ Len(f) > 0 /\ DOMAIN f = 1 .. Len(f)
  BY DEF Listing
<1>2. x \in FreeSet(f) /\ x \in Slots
  BY <1>1 DEF Got, FreeSet
<1>3. PICK b, b2 : b = p * PageSlots /\ b2 = p2 * PageSlots
  OBVIOUS
<1>4. Apart(R, FreeSet(f), H, b)
  BY <1>3
<1>5. b \in Nat
  BY <1>3, SlabAssumption
<1>6. \A y \in Slots : y \in Nat
  BY SlotFacts
<1>7. \A u \in Threads : H[u] # x
  BY <1>2, <1>4 DEF Apart
<1>8. R[x] = 0 /\ x <= b
  BY <1>2, <1>4 DEF Apart
<1>9. /\ Listing(f2) /\ x \notin FreeSet(f2) /\ b2 \in Nat /\ b <= b2
      /\ \A y \in FreeSet(f2) : y \in FreeSet(f) \/ (y \in Slots /\ y > b /\ y <= b2)
  <2>1. CASE Len(f) > 1
    <3>1. f2 = Tail(f) /\ p2 = p /\ x = Head(f)
      BY <2>1 DEF Got
    <3>2. Listing(f2) /\ FreeSet(f2) = FreeSet(f) \ {x}
      BY <2>1, <3>1, TakeSlot
    <3>3. b2 = b
      BY <1>3, <3>1
    <3> QED BY <1>5, <3>2, <3>3
  <2>2. CASE ~(Len(f) > 1)
    <3>1. p < MaxPages /\ p2 = p + 1 /\ f2 = PageOf(p + 1)
      BY <2>2 DEF Got
    <3>2. b2 = (p + 1) * PageSlots
      BY <1>3, <3>1
    <3>3. b2 \in Nat /\ b <= b2 /\ Listing(f2) /\ \A y \in FreeSet(f2) : y > b /\ y <= b2
      BY <1>3, <3>1, <3>2, NewPage
    <3>4. FreeSet(f2) \subseteq Slots
      BY <3>3 DEF Listing, FreeSet
    <3>5. x \notin FreeSet(f2)
      BY <1>2, <1>5, <1>6, <1>8, <3>3
    <3> QED BY <3>3, <3>4, <3>5
  <2> QED BY <2>1, <2>2
<1>10. \A s \in Slots : s <= b => s <= b2
  BY <1>5, <1>6, <1>9
<1>11. FreeSet(f) \subseteq Slots
  BY <1>1 DEF FreeSet
<1>12. \A s \in Slots : s > b => ~(s <= b)
  BY <1>5, <1>6
<1>13. Apart(R, FreeSet(f2), H, b2)
  <2>1. ASSUME NEW y \in FreeSet(f2) PROVE R[y] = 0 /\ y <= b2
    <3>1. CASE y \in FreeSet(f)
      BY <1>4, <1>10, <1>11, <3>1 DEF Apart
    <3>2. CASE y \in Slots /\ y > b /\ y <= b2
      <4>1. ~(R[y] > 0)
        BY <1>4, <1>12, <3>2 DEF Apart
      <4> QED BY <3>2, <4>1
    <3> QED BY <1>9, <3>1, <3>2
  <2>2. ASSUME NEW s \in Slots, R[s] > 0 PROVE s <= b2
    BY <1>4, <1>10, <2>2 DEF Apart
  <2>3. ASSUME NEW t \in Threads, H[t] \in Slots
        PROVE  R[H[t]] = 0 /\ H[t] \notin FreeSet(f2) /\ H[t] <= b2
    <3>1. R[H[t]] = 0 /\ H[t] \notin FreeSet(f) /\ H[t] <= b
      BY <1>4, <2>3 DEF Apart
    <3> QED BY <1>9, <1>10, <1>12, <2>3, <3>1
  <2> QED BY <1>4, <2>1, <2>2, <2>3 DEF Apart
<1>14. \A t \in Threads : Spare(FreeSet(f2), H, b2, t, x)
  BY <1>2, <1>7, <1>8, <1>9, <1>10 DEF Spare
<1> QED BY <1>3, <1>8, <1>9, <1>13, <1>14

\* The counts R2 differ from R on x only, as far as which slots are counted.
SameSupport(R, R2, X) ==
  /\ R \in [Slots -> Nat] /\ R2 \in [Slots -> Nat]
  /\ \A s \in Slots \ X : R2[s] > 0 <=> R[s] > 0

\* Thread t takes a spare slot in hand, turns it into a node, or takes it from one.
LEMMA ApartHand ==
  ASSUME NEW R, NEW F \in SUBSET Slots, NEW H, NEW b, NEW R2, NEW H2,
         NEW t \in Threads, NEW x, Apart(R, F, H, b), Spare(F, H, b, t, x),
         SameSupport(R, R2, {x}), \A u \in Threads \ {t} : H2[u] = H[u],
         H2[t] \notin Slots \/ (H2[t] = x /\ R2[x] = 0)
  PROVE  Apart(R2, F, H2, b)
<1>1. \A s \in Slots : s # x /\ R[s] = 0 => R2[s] = 0
  BY DEF SameSupport
<1>2. ASSUME NEW y \in F PROVE R2[y] = 0 /\ y <= b
  <2>1. y # x /\ R[y] = 0 /\ y <= b
    BY DEF Apart, Spare
  <2> QED BY <1>1, <2>1
<1>3. ASSUME NEW s \in Slots, R2[s] > 0 PROVE s <= b
  <2>1. CASE s = x
    BY <2>1 DEF Spare
  <2>2. CASE s # x
    BY <1>3, <2>2 DEF SameSupport, Apart
  <2> QED BY <2>1, <2>2
<1>4. ASSUME NEW u \in Threads, H2[u] \in Slots
      PROVE  R2[H2[u]] = 0 /\ H2[u] \notin F /\ H2[u] <= b
  <2>1. CASE u = t
    BY <1>4, <2>1 DEF Spare
  <2>2. CASE u # t
    <3>1. H2[u] = H[u] /\ H[u] # x
      BY <2>2 DEF Spare
    <3>2. R[H[u]] = 0 /\ H[u] \notin F /\ H[u] <= b
      BY <1>4, <3>1 DEF Apart
    <3> QED BY <1>1, <1>4, <3>1, <3>2
  <2> QED BY <2>1, <2>2
<1>5. ASSUME NEW u \in Threads, NEW v \in Threads, H2[u] \in Slots, H2[u] = H2[v]
      PROVE  u = v
  <2>1. CASE u = t \/ v = t
    <3>1. \A w \in Threads \ {t} : H2[w] # x
      BY DEF Spare
    <3> QED BY <1>5, <2>1, <3>1
  <2>2. CASE u # t /\ v # t
    BY <1>5, <2>2 DEF Apart
  <2> QED BY <2>1, <2>2
<1> QED BY <1>2, <1>3, <1>4, <1>5 DEF Apart

\* Nothing moves, whatever happens to the counts of nodes.
LEMMA ApartSame ==
  ASSUME NEW R, NEW F \in SUBSET Slots, NEW H, NEW b, NEW R2, NEW H2,
         Apart(R, F, H, b), SameSupport(R, R2, {}),
         \A u \in Threads : H2[u] = H[u] \/ H2[u] \notin Slots
  PROVE  Apart(R2, F, H2, b)
<1>1. \A s \in Slots : R[s] = 0 => R2[s] = 0
  BY DEF SameSupport
<1>2. \A y \in F : R2[y] = 0 /\ y <= b
  BY <1>1 DEF Apart
<1>3. \A s \in Slots : R2[s] > 0 => s <= b
  BY DEF SameSupport, Apart
<1>4. ASSUME NEW u \in Threads, H2[u] \in Slots
      PROVE  R2[H2[u]] = 0 /\ H2[u] \notin F /\ H2[u] <= b
  BY <1>1, <1>4 DEF Apart
<1>5. \A u, v \in Threads : H2[u] \in Slots /\ H2[u] = H2[v] => u = v
  BY DEF Apart
<1> QED BY <1>2, <1>3, <1>4, <1>5 DEF Apart

\* Thread t puts the slot in its hand into the free list.
LEMMA ApartFree ==
  ASSUME NEW R, NEW F \in SUBSET Slots, NEW H, NEW b, NEW H2,
         NEW t \in Threads, Apart(R, F, H, b), H[t] \in Slots,
         \A u \in Threads \ {t} : H2[u] = H[u], H2[t] \notin Slots
  PROVE  Apart(R, F \cup {H[t]}, H2, b) /\ H[t] \notin F
<1>1. R[H[t]] = 0 /\ H[t] \notin F /\ H[t] <= b
  BY DEF Apart
<1>2. \A y \in F \cup {H[t]} : R[y] = 0 /\ y <= b
  BY <1>1 DEF Apart
<1>3. ASSUME NEW u \in Threads, H2[u] \in Slots
      PROVE  R[H2[u]] = 0 /\ H2[u] \notin F \cup {H[t]} /\ H2[u] <= b
  BY <1>3 DEF Apart
<1>4. \A u, v \in Threads : H2[u] \in Slots /\ H2[u] = H2[v] => u = v
  BY DEF Apart
<1> QED BY <1>1, <1>2, <1>3, <1>4 DEF Apart

\* A node is neither free nor in hand.
LEMMA ApartNode ==
  ASSUME NEW R, NEW F, NEW H, NEW b, NEW t, NEW x \in Slots, Apart(R, F, H, b), R[x] > 0
  PROVE  Spare(F, H, b, t, x)
BY DEF Apart, Spare

-----------------------------------------------------------------------------
(* Counts of nodes.                                                        *)

KidsType == [Slots -> Edges \X Edges]
ClientsType == [Threads -> [Slots -> Nat]]

\* Edges in nodes and edges of clients are counted with natural numbers.
LEMMA InNodesBound ==
  ASSUME NEW K \in KidsType, NEW s
  PROVE  InNodes(K, s) \in Nat /\ \A p \in Slots : Occurs(s, K[p]) <= InNodes(K, s)
<1> DEFINE f == [p \in Slots |-> Occurs(s, K[p])]
<1>1. \A p \in Slots : K[p] \in Edges \X Edges
  BY DEF KidsType
<1>2. \A p \in Slots : f[p] \in Nat /\ f[p] = Occurs(s, K[p])
  BY <1>1, OccursPair
<1>3. InNodes(K, s) = SumFunctionOnSet(f, Slots)
  BY DEF InNodes
<1> HIDE DEF f
<1>4. SumFunctionOnSet(f, Slots) \in Nat /\ \A p \in Slots : f[p] <= SumFunctionOnSet(f, Slots)
  BY <1>2, SlotFacts, SumBound
<1> QED BY <1>2, <1>3, <1>4

\* The edges with the clients are at least those of one client.
LEMMA InClientsBound ==
  ASSUME NEW C \in ClientsType, NEW s \in Slots
  PROVE  InClients(C, s) \in Nat /\ \A t \in Threads : C[t][s] <= InClients(C, s)
<1> DEFINE f == [t \in Threads |-> C[t][s]]
<1>1. \A t \in Threads : f[t] \in Nat /\ f[t] = C[t][s]
  BY DEF ClientsType
<1>2. InClients(C, s) = SumFunctionOnSet(f, Threads)
  BY DEF InClients
<1> HIDE DEF f
<1>3. SumFunctionOnSet(f, Threads) \in Nat /\ \A t \in Threads : f[t] <= SumFunctionOnSet(f, Threads)
  BY <1>1, SlotFacts, SumBound
<1> QED BY <1>1, <1>2, <1>3

\* One node's children change.
LEMMA InNodesChange ==
  ASSUME NEW K \in KidsType, NEW K2 \in KidsType, NEW p \in Slots, NEW s,
         \A q \in Slots \ {p} : K2[q] = K[q]
  PROVE  InNodes(K2, s) = InNodes(K, s) - Occurs(s, K[p]) + Occurs(s, K2[p])
<1> DEFINE f == [q \in Slots |-> Occurs(s, K[q])]
           g == [q \in Slots |-> Occurs(s, K2[q])]
<1>1. \A q \in Slots : K[q] \in Edges \X Edges /\ K2[q] \in Edges \X Edges
  BY DEF KidsType
<1>2. \A q \in Slots : f[q] \in Int /\ g[q] \in Int
  BY <1>1, OccursPair
<1>3. \A q \in Slots \ {p} : g[q] = f[q]
  OBVIOUS
<1>4. f[p] = Occurs(s, K[p]) /\ g[p] = Occurs(s, K2[p])
  OBVIOUS
<1>5. InNodes(K, s) = SumFunctionOnSet(f, Slots) /\ InNodes(K2, s) = SumFunctionOnSet(g, Slots)
  BY DEF InNodes
<1> HIDE DEF f, g
<1>6. IsFiniteSet(Slots)
  BY SlotFacts
<1>7. SumFunctionOnSet(g, Slots) = SumFunctionOnSet(f, Slots) - f[p] + g[p]
  BY <1>2, <1>3, <1>6, SumChange
<1> QED BY <1>4, <1>5, <1>7

\* One client's edges change.
LEMMA InClientsChange ==
  ASSUME NEW C \in ClientsType, NEW C2 \in ClientsType, NEW t \in Threads, NEW s \in Slots,
         \A u \in Threads \ {t} : C2[u][s] = C[u][s]
  PROVE  InClients(C2, s) = InClients(C, s) - C[t][s] + C2[t][s]
<1> DEFINE f == [u \in Threads |-> C[u][s]]
           g == [u \in Threads |-> C2[u][s]]
<1>1. \A u \in Threads : f[u] \in Int /\ g[u] \in Int
  BY DEF ClientsType
<1>2. \A u \in Threads \ {t} : g[u] = f[u]
  OBVIOUS
<1>3. f[t] = C[t][s] /\ g[t] = C2[t][s]
  OBVIOUS
<1>4. InClients(C, s) = SumFunctionOnSet(f, Threads) /\ InClients(C2, s) = SumFunctionOnSet(g, Threads)
  BY DEF InClients
<1> HIDE DEF f, g
<1>5. SumFunctionOnSet(g, Threads) = SumFunctionOnSet(f, Threads) - f[t] + g[t]
  BY <1>1, <1>2, SlotFacts, SumChange
<1> QED BY <1>3, <1>4, <1>5

\* What the exact counts say about edges: a slot without a node has none, and
\* a node that a client or another node refers to is counted for it.
LEMMA ExactBounds ==
  ASSUME NEW R \in [Slots -> Nat], NEW L, NEW K \in KidsType, NEW T, NEW C \in ClientsType,
         Exact(R, L, K, T, C), NEW s \in Slots
  PROVE  /\ R[s] = 0 => InNodes(K, s) = 0 /\ InClients(C, s) = 0
         /\ \A t \in Threads : C[t][s] > 0 => R[s] > C[t][s]
         /\ \A p \in Slots : Occurs(s, K[p]) > 0 => R[s] > Occurs(s, K[p])
         /\ \A t \in Threads : C[t][s] \in Nat
         /\ \A p \in Slots : Occurs(s, K[p]) \in Nat
<1>1. PICK n, c : n = InNodes(K, s) /\ c = InClients(C, s)
  OBVIOUS
<1>2. n \in Nat /\ \A p \in Slots : Occurs(s, K[p]) <= n
  BY <1>1, InNodesBound
<1>3. c \in Nat /\ \A t \in Threads : C[t][s] <= c
  BY <1>1, InClientsBound
<1>4. R[s] = (IF R[s] > 0 THEN 1 ELSE 0) + n + c /\ R[s] \in Nat
  BY <1>1 DEF Exact
<1>5. \A t \in Threads : C[t][s] \in Nat
  BY DEF ClientsType
<1>6. ASSUME NEW p \in Slots PROVE Occurs(s, K[p]) \in Nat
  <2>1. K[p] \in Edges \X Edges
    BY DEF KidsType
  <2> QED BY <2>1, OccursPair
<1>7. R[s] = 0 => n = 0 /\ c = 0
  BY <1>2, <1>3, <1>4
<1>8. ASSUME NEW t \in Threads, C[t][s] > 0 PROVE R[s] > C[t][s]
  BY <1>2, <1>3, <1>4, <1>5, <1>8
<1>9. ASSUME NEW p \in Slots, Occurs(s, K[p]) > 0 PROVE R[s] > Occurs(s, K[p])
  BY <1>2, <1>3, <1>4, <1>6, <1>9
<1> QED BY <1>1, <1>5, <1>6, <1>7, <1>8, <1>9

\* The clients C2 have n more edges to e than C, all with thread t.
More(C, C2, t, e, n) ==
  /\ C2 \in ClientsType /\ \A u \in Threads \ {t} : C2[u] = C[u]
  /\ \A s \in Slots : C2[t][s] = C[t][s] + n * One(e, s)

\* Edges are counted for the clients they are with.
LEMMA MoreSum ==
  ASSUME NEW C \in ClientsType, NEW C2, NEW t \in Threads, NEW e, NEW n \in Int,
         More(C, C2, t, e, n), NEW s \in Slots
  PROVE  InClients(C2, s) = InClients(C, s) + n * One(e, s)
<1>1. C2 \in ClientsType /\ \A u \in Threads \ {t} : C2[u][s] = C[u][s]
  BY DEF More
<1>2. InClients(C2, s) = InClients(C, s) - C[t][s] + C2[t][s]
  BY <1>1, InClientsChange
<1>3. InClients(C, s) \in Nat
  BY InClientsBound
<1>4. C2[t][s] = C[t][s] + n * One(e, s) /\ C[t][s] \in Nat
  BY DEF More, ClientsType
<1>5. PICK d : d = n * One(e, s)
  OBVIOUS
<1>6. d \in Int
  BY <1>5 DEF One
<1>7. InClients(C2, s) = InClients(C, s) + d
  BY <1>2, <1>3, <1>4, <1>5, <1>6
<1> QED BY <1>5, <1>7

\* An edge moves from one client to another.
LEMMA ExactMove ==
  ASSUME NEW R, NEW L, NEW K, NEW T, NEW C \in ClientsType, NEW C2 \in ClientsType,
         Exact(R, L, K, T, C), \A s \in Slots : InClients(C2, s) = InClients(C, s)
  PROVE  Exact(R, L, K, T, C2)
BY DEF Exact

\* A client gets one more edge to a node.
LEMMA ExactRetain ==
  ASSUME NEW R \in [Slots -> Nat], NEW L, NEW K \in KidsType, NEW T, NEW C \in ClientsType,
         Exact(R, L, K, T, C), NEW e \in Edges, e \in Slots => R[e] > 0,
         NEW t \in Threads, NEW C2, More(C, C2, t, e, 1)
  PROVE  /\ Exact(Retained(R, e), L, K, T, C2)
         /\ SameSupport(R, Retained(R, e), {})
<1>1. PICK R2 : R2 = Retained(R, e)
  OBVIOUS
<1>2. \A s \in Slots : R2[s] = R[s] + One(e, s)
  BY <1>1, SlotFacts DEF Retained, One
<1>3. R2 \in [Slots -> Nat]
  BY <1>1, SlotFacts DEF Retained
<1>4. ASSUME NEW s \in Slots
      PROVE  /\ R2[s] > 0 <=> R[s] > 0
             /\ R2[s] = (IF R2[s] > 0 THEN 1 ELSE 0) + InNodes(K, s) + InClients(C2, s)
  <2>1. InClients(C2, s) = InClients(C, s) + One(e, s)
    <3>1. InClients(C2, s) = InClients(C, s) + 1 * One(e, s)
      BY MoreSum
    <3>2. InClients(C, s) \in Nat
      BY InClientsBound
    <3> QED BY <3>1, <3>2 DEF One
  <2>2. InNodes(K, s) \in Nat /\ InClients(C, s) \in Nat /\ One(e, s) \in {0, 1}
    BY InNodesBound, InClientsBound DEF One
  <2>3. R[s] = (IF R[s] > 0 THEN 1 ELSE 0) + InNodes(K, s) + InClients(C, s) /\ R[s] \in Nat
    BY DEF Exact
  <2>4. One(e, s) = 1 => R[s] > 0
    BY DEF One
  <2>5. R2[s] = R[s] + One(e, s)
    BY <1>2
  <2>6. CASE One(e, s) = 0
    BY <2>1, <2>2, <2>3, <2>5, <2>6
  <2>7. CASE One(e, s) = 1
    BY <2>1, <2>2, <2>3, <2>4, <2>5, <2>7
  <2> QED BY <2>2, <2>6, <2>7
<1>5. \A s \in Slots : R2[s] = 0 <=> R[s] = 0
  BY <1>3, <1>4
<1>6. Exact(R2, L, K, T, C2)
  BY <1>4, <1>5 DEF Exact
<1> QED BY <1>1, <1>3, <1>4, <1>6 DEF SameSupport

\* A client gives up an edge to a node. It was not the last one.
LEMMA ExactRelease ==
  ASSUME NEW R \in [Slots -> Nat], NEW L, NEW K \in KidsType, NEW T, NEW C \in ClientsType,
         Exact(R, L, K, T, C), NEW e \in Edges,
         NEW t \in Threads, NEW C2, More(C, C2, t, e, -1)
  PROVE  /\ Exact(Released(R, e), L, K, T, C2)
         /\ SameSupport(R, Released(R, e), {})
<1>1. PICK R2 : R2 = Released(R, e)
  OBVIOUS
<1>2. \A s \in Slots : R2[s] = R[s] - One(e, s)
  BY <1>1, SlotFacts DEF Released, One
<1>3. ASSUME NEW s \in Slots
      PROVE  /\ R2[s] \in Nat
             /\ R2[s] > 0 <=> R[s] > 0
             /\ R2[s] = (IF R2[s] > 0 THEN 1 ELSE 0) + InNodes(K, s) + InClients(C2, s)
  <2>1. InClients(C2, s) = InClients(C, s) - One(e, s)
    <3>1. InClients(C2, s) = InClients(C, s) + (-1) * One(e, s)
      BY MoreSum
    <3>2. InClients(C, s) \in Nat
      BY InClientsBound
    <3> QED BY <3>1, <3>2 DEF One
  <2>2. InNodes(K, s) \in Nat /\ InClients(C, s) \in Nat /\ One(e, s) \in {0, 1}
    BY InNodesBound, InClientsBound DEF One
  <2>3. InClients(C2, s) \in Nat
    <3>1. C2 \in ClientsType
      BY DEF More
    <3> QED BY <3>1, InClientsBound
  <2>4. R[s] = (IF R[s] > 0 THEN 1 ELSE 0) + InNodes(K, s) + InClients(C, s) /\ R[s] \in Nat
    BY DEF Exact
  <2> QED BY <1>2, <2>1, <2>2, <2>3, <2>4
<1>4. R2 \in [Slots -> Nat]
  <2>1. DOMAIN R2 = Slots
    BY <1>1 DEF Released
  <2>2. R2 = [s \in Slots |-> R2[s]]
    BY <1>1 DEF Released
  <2> QED BY <1>3, <2>2
<1>5. \A s \in Slots : R2[s] = 0 <=> R[s] = 0
  BY <1>3
<1>6. Exact(R2, L, K, T, C2)
  BY <1>3, <1>5 DEF Exact
<1> QED BY <1>1, <1>3, <1>4, <1>6 DEF SameSupport

\* A level without nodes is added.
LEMMA ExactLevel ==
  ASSUME NEW R \in [Slots -> Nat], NEW L, NEW K, NEW T \in Seq(SUBSET Slots), NEW C,
         Exact(R, L, K, T, C)
  PROVE  Exact(R, L, K, Append(T, {}), C)
<1>1. PICK U : U = Append(T, {})
  OBVIOUS
<1>2. /\ Len(T) \in Nat /\ DOMAIN T = 1 .. Len(T) /\ DOMAIN U = 1 .. Len(T) + 1
      /\ \A l \in 1 .. Len(T) : U[l] = T[l]
      /\ U[Len(T) + 1] = {}
  BY <1>1
<1>3. ASSUME NEW s \in Slots PROVE {l \in DOMAIN U : s \in U[l]} = {l \in DOMAIN T : s \in T[l]}
  <2>1. ASSUME NEW l \in DOMAIN U, s \in U[l] PROVE l \in DOMAIN T /\ s \in T[l]
    BY <1>2, <2>1
  <2>2. ASSUME NEW l \in DOMAIN T, s \in T[l] PROVE l \in DOMAIN U /\ s \in U[l]
    BY <1>2, <2>2
  <2> QED BY <2>1, <2>2
<1>4. Exact(R, L, K, U, C)
  BY <1>3 DEF Exact
<1> QED BY <1>1, <1>4

\* Thread t turns the slot x into a node at level l with children k that it owned,
\* and has one edge to the node.
Creation(R, L, K, T, C, t, x, k, l, R2, L2, K2, T2, C2) ==
  /\ R2 = [R EXCEPT ![x] = 2] /\ L2 = [L EXCEPT ![x] = l] /\ K2 = [K EXCEPT ![x] = k]
  /\ T2 = [T EXCEPT ![l] = @ \cup {x}]
  /\ C2 \in ClientsType /\ \A u \in Threads \ {t} : C2[u] = C[u]
  /\ \A s \in Slots : C2[t][s] = C[t][s] - Occurs(s, k) + One(x, s)
  /\ \A s \in Slots : Occurs(s, k) <= C[t][s]

\* Counts stay exact when a node enters its table with the edges of its children.
LEMMA ExactCreate ==
  ASSUME NEW R \in [Slots -> Nat], NEW L \in [Slots -> Nat], NEW K \in KidsType,
         NEW T \in Seq(SUBSET Slots), NEW C \in ClientsType, Exact(R, L, K, T, C),
         NEW t \in Threads, NEW x \in Slots, NEW k \in Edges \X Edges, NEW l \in DOMAIN T,
         NEW R2, NEW L2, NEW K2, NEW T2, NEW C2, R[x] = 0,
         Creation(R, L, K, T, C, t, x, k, l, R2, L2, K2, T2, C2)
  PROVE  Exact(R2, L2, K2, T2, C2) /\ SameSupport(R, R2, {x})
<1>1. R2 \in [Slots -> Nat] /\ R2[x] = 2 /\ \A s \in Slots \ {x} : R2[s] = R[s]
  BY DEF Creation
<1>2. L2[x] = l /\ \A s \in Slots \ {x} : L2[s] = L[s]
  BY DEF Creation
<1>3. K2[x] = k /\ \A s \in Slots \ {x} : K2[s] = K[s]
  BY DEF Creation, KidsType
<1>4. DOMAIN T2 = DOMAIN T /\ T2[l] = T[l] \cup {x} /\ \A m \in DOMAIN T \ {l} : T2[m] = T[m]
  BY DEF Creation
<1>5. ASSUME NEW s \in Slots
      PROVE  /\ InNodes(K2, s) = InNodes(K, s) + Occurs(s, k)
             /\ InClients(C2, s) = InClients(C, s) - Occurs(s, k) + One(x, s)
             /\ InNodes(K, s) \in Nat /\ InClients(C, s) \in Nat
             /\ Occurs(s, k) \in Nat /\ Occurs(s, k) <= InClients(C, s)
  <2>1. K[x] = NoKids
    BY DEF Exact
  <2>2. Occurs(s, NoKids) = 0
    <3>1. Occurs(s, NoKids) = One(False, s) + One(False, s)
      BY OccursTwo DEF NoKids
    <3>2. False # s
      BY SlotFacts
    <3> QED BY <3>1, <3>2 DEF One
  <2>3. InNodes(K, s) \in Nat /\ InClients(C, s) \in Nat /\ C[t][s] <= InClients(C, s)
    BY InNodesBound, InClientsBound
  <2>4. Occurs(s, k) \in Nat
    BY OccursPair
  <2>5. K2 \in KidsType
    BY DEF Creation, KidsType
  <2>6. InNodes(K2, s) = InNodes(K, s) - Occurs(s, K[x]) + Occurs(s, k)
    BY <1>3, <2>5, InNodesChange
  <2>7. InNodes(K2, s) = InNodes(K, s) + Occurs(s, k)
    BY <2>1, <2>2, <2>3, <2>4, <2>6
  <2>8. C2 \in ClientsType /\ \A u \in Threads \ {t} : C2[u][s] = C[u][s]
    BY DEF Creation
  <2>9. InClients(C2, s) = InClients(C, s) - C[t][s] + C2[t][s]
    BY <2>8, InClientsChange
  <2>10. C2[t][s] = C[t][s] - Occurs(s, k) + One(x, s) /\ C[t][s] \in Nat /\ Occurs(s, k) <= C[t][s]
    BY DEF Creation, ClientsType
  <2>11. One(x, s) \in Nat
    BY DEF One
  <2>12. InClients(C2, s) = InClients(C, s) - Occurs(s, k) + One(x, s)
    <3>1. PICK c, o, d, n : c = C[t][s] /\ o = Occurs(s, k) /\ d = One(x, s) /\ n = InClients(C, s)
      OBVIOUS
    <3>2. c \in Nat /\ o \in Nat /\ d \in Nat /\ n \in Nat
      BY <2>3, <2>4, <2>10, <2>11, <3>1
    <3>3. InClients(C2, s) = n - c + (c - o + d)
      BY <2>9, <2>10, <3>1
    <3>4. InClients(C2, s) = n - o + d
      BY <3>2, <3>3
    <3> QED BY <3>1, <3>4
  <2>13. Occurs(s, k) <= InClients(C, s)
    BY <2>3, <2>4, <2>10
  <2> QED BY <2>3, <2>4, <2>7, <2>12, <2>13
<1>6. ASSUME NEW s \in Slots, s # x
      PROVE  /\ R2[s] = (IF R2[s] > 0 THEN 1 ELSE 0) + InNodes(K2, s) + InClients(C2, s)
             /\ R2[s] = 0 => K2[s] = NoKids
             /\ {m \in DOMAIN T2 : s \in T2[m]} = (IF R2[s] > 0 THEN {L2[s]} ELSE {})
  <2>1. One(x, s) = 0
    BY <1>6 DEF One
  <2>2. R2[s] = R[s] /\ L2[s] = L[s] /\ K2[s] = K[s]
    BY <1>1, <1>2, <1>3, <1>6
  <2>3. R[s] = (IF R[s] > 0 THEN 1 ELSE 0) + InNodes(K, s) + InClients(C, s)
    BY DEF Exact
  <2>4. R2[s] = (IF R2[s] > 0 THEN 1 ELSE 0) + InNodes(K2, s) + InClients(C2, s)
    <3>1. PICK o, n, c : o = Occurs(s, k) /\ n = InNodes(K, s) /\ c = InClients(C, s)
      OBVIOUS
    <3>2. o \in Nat /\ n \in Nat /\ c \in Nat
      BY <1>5, <3>1
    <3>3. InNodes(K2, s) = n + o /\ InClients(C2, s) = c - o + 0
      BY <1>5, <2>1, <3>1
    <3>4. PICK b : b = (IF R[s] > 0 THEN 1 ELSE 0)
      OBVIOUS
    <3>5. b \in Nat
      BY <3>4
    <3>6. b + InNodes(K2, s) + InClients(C2, s) = b + n + c
      BY <3>2, <3>3, <3>5
    <3> QED BY <2>2, <2>3, <3>1, <3>4, <3>6
  <2>5. {m \in DOMAIN T2 : s \in T2[m]} = {m \in DOMAIN T : s \in T[m]}
    BY <1>4, <1>6
  <2> QED BY <2>2, <2>4, <2>5 DEF Exact
<1>7. /\ R2[x] = (IF R2[x] > 0 THEN 1 ELSE 0) + InNodes(K2, x) + InClients(C2, x)
      /\ R2[x] # 0
      /\ {m \in DOMAIN T2 : x \in T2[m]} = (IF R2[x] > 0 THEN {L2[x]} ELSE {})
  <2>1. InNodes(K, x) = 0 /\ InClients(C, x) = 0
    BY ExactBounds
  <2>2. One(x, x) = 1
    BY DEF One
  <2>3. Occurs(x, k) = 0
    BY <1>5, <2>1
  <2>4. InNodes(K2, x) = 0 /\ InClients(C2, x) = 1
    BY <1>5, <2>1, <2>2, <2>3
  <2>5. {m \in DOMAIN T : x \in T[m]} = {}
    BY DEF Exact
  <2>6. {m \in DOMAIN T2 : x \in T2[m]} = {l}
    BY <1>4, <2>5
  <2> QED BY <1>1, <1>2, <2>4, <2>6
<1>8. Exact(R2, L2, K2, T2, C2)
  BY <1>6, <1>7 DEF Exact
<1> QED BY <1>1, <1>8 DEF SameSupport

\* The node x, to which only the table refers, goes with its edges.
Deletion(R, L, K, T, x, R2, L2, K2, T2) ==
  /\ R[x] = 1
  /\ R2 = Released(Released([R EXCEPT ![x] = 0], K[x][1]), K[x][2])
  /\ L2 = [L EXCEPT ![x] = 0] /\ K2 = [K EXCEPT ![x] = NoKids]
  /\ T2 = [T EXCEPT ![L[x]] = @ \ {x}]

\* Counts stay exact when a node leaves its table and its children lose an edge.
LEMMA ExactDelete ==
  ASSUME NEW R \in [Slots -> Nat], NEW L \in [Slots -> Nat], NEW K \in KidsType,
         NEW T \in Seq(SUBSET Slots), NEW C \in ClientsType, Exact(R, L, K, T, C),
         NEW x \in Slots, NEW R2, NEW L2, NEW K2, NEW T2,
         Deletion(R, L, K, T, x, R2, L2, K2, T2)
  PROVE  Exact(R2, L2, K2, T2, C) /\ SameSupport(R, R2, {x}) /\ R2[x] = 0
<1>1. R[x] = 1
  BY DEF Deletion
<1>2. K[x] \in Edges \X Edges /\ K[x][1] \in Edges /\ K[x][2] \in Edges
  BY DEF KidsType
<1>3. PICK a \in Edges, b \in Edges : a = K[x][1] /\ b = K[x][2]
  BY <1>2
<1>4. ASSUME NEW s \in Slots
      PROVE  Occurs(s, K[x]) = One(a, s) + One(b, s) /\ Occurs(s, K[x]) \in Nat
  BY <1>2, <1>3, OccursPair
<1>5. InNodes(K, x) = 0 /\ InClients(C, x) = 0
  <2>1. R[x] = 1 + InNodes(K, x) + InClients(C, x)
    BY <1>1 DEF Exact
  <2>2. InNodes(K, x) \in Nat /\ InClients(C, x) \in Nat
    BY InNodesBound, InClientsBound
  <2> QED BY <1>1, <2>1, <2>2
<1>6. Occurs(x, K[x]) = 0
  BY <1>4, <1>5, InNodesBound
<1>7. a # x /\ b # x
  BY <1>4, <1>6 DEF One
<1>8. /\ R2 = [s \in Slots |-> R2[s]]
      /\ \A s \in Slots : R2[s] = (IF s = x THEN 0 ELSE R[s]) - One(a, s) - One(b, s)
  <2>1. PICK R1 : R1 = Released([R EXCEPT ![x] = 0], a)
    OBVIOUS
  <2>2. DOMAIN R1 = Slots /\ \A s \in Slots : R1[s] = (IF s = x THEN 0 ELSE R[s]) - One(a, s)
    BY <2>1, SlotFacts DEF Released, One
  <2>3. R2 = Released(R1, b)
    BY <1>3, <2>1 DEF Deletion
  <2>4. R1 = [s \in Slots |-> R1[s]]
    BY <2>1 DEF Released
  <2>5. \A s \in Slots : R1[s] \in Int
    BY <2>2 DEF One
  <2>6. \A s \in Slots : R2[s] = R1[s] - One(b, s)
    BY <2>3, <2>4, <2>5, SlotFacts DEF Released, One
  <2>7. R2 = [s \in Slots |-> R2[s]]
    BY <2>3, <2>4 DEF Released
  <2> QED BY <2>2, <2>6, <2>7
<1>9. R2[x] = 0
  BY <1>7, <1>8 DEF One
<1>10. ASSUME NEW s \in Slots, s # x
      PROVE  /\ R2[s] = R[s] - Occurs(s, K[x]) /\ R2[s] \in Nat /\ (R2[s] > 0 <=> R[s] > 0)
             /\ R[s] = (IF R[s] > 0 THEN 1 ELSE 0) + InNodes(K, s) + InClients(C, s)
             /\ InNodes(K, s) \in Nat /\ InClients(C, s) \in Nat
  <2>1. R2[s] = R[s] - One(a, s) - One(b, s) /\ R[s] \in Nat
    BY <1>8, <1>10
  <2>2. R2[s] = R[s] - Occurs(s, K[x])
    BY <1>4, <2>1 DEF One
  <2>3. PICK n, c, o : n = InNodes(K, s) /\ c = InClients(C, s) /\ o = Occurs(s, K[x])
    OBVIOUS
  <2>4. n \in Nat /\ c \in Nat /\ o \in Nat /\ o <= n
    BY <1>4, <2>3, InNodesBound, InClientsBound
  <2>5. R[s] = (IF R[s] > 0 THEN 1 ELSE 0) + n + c
    BY <2>3 DEF Exact
  <2>6. R2[s] = R[s] - o
    BY <2>2, <2>3
  <2>7. CASE R[s] > 0
    <3>1. R[s] = 1 + n + c
      BY <2>5, <2>7
    <3>2. R2[s] = 1 + (n - o) + c /\ n - o \in Nat
      BY <2>4, <2>6, <3>1
    <3>3. R2[s] \in Nat /\ R2[s] > 0
      BY <2>4, <3>2
    <3> QED BY <2>2, <2>3, <2>4, <2>5, <2>7, <3>3
  <2>8. CASE R[s] = 0
    <3>1. n = 0 /\ c = 0 /\ o = 0
      BY <2>4, <2>5, <2>8
    <3> QED BY <2>2, <2>3, <2>4, <2>5, <2>6, <2>8, <3>1
  <2> QED BY <2>1, <2>7, <2>8
<1>11. R2 \in [Slots -> Nat]
  BY <1>8, <1>9, <1>10
<1>12. K2[x] = NoKids /\ \A s \in Slots \ {x} : K2[s] = K[s] /\ L2[s] = L[s]
  BY DEF Deletion, KidsType
<1>13. ASSUME NEW s \in Slots PROVE InNodes(K2, s) = InNodes(K, s) - Occurs(s, K[x])
  <2>1. NoKids \in Edges \X Edges
    BY SlotFacts DEF NoKids
  <2>2. K2 \in KidsType
    BY <2>1 DEF Deletion, KidsType
  <2>3. InNodes(K2, s) = InNodes(K, s) - Occurs(s, K[x]) + Occurs(s, NoKids)
    BY <1>12, <2>2, InNodesChange
  <2>4. Occurs(s, NoKids) = 0
    <3>1. Occurs(s, NoKids) = One(False, s) + One(False, s)
      BY OccursTwo DEF NoKids
    <3>2. False # s
      BY SlotFacts
    <3> QED BY <3>1, <3>2 DEF One
  <2>5. InNodes(K, s) \in Nat
    BY InNodesBound
  <2> QED BY <1>4, <2>3, <2>4, <2>5
<1>14. {m \in DOMAIN T : x \in T[m]} = {L[x]}
  BY <1>1 DEF Exact
<1>15. DOMAIN T2 = DOMAIN T /\ \A m \in DOMAIN T : T2[m] = IF m = L[x] THEN T[m] \ {x} ELSE T[m]
  BY DEF Deletion
<1>16. ASSUME NEW s \in Slots, s # x
      PROVE  /\ R2[s] = (IF R2[s] > 0 THEN 1 ELSE 0) + InNodes(K2, s) + InClients(C, s)
             /\ R2[s] = 0 => K2[s] = NoKids
             /\ {m \in DOMAIN T2 : s \in T2[m]} = (IF R2[s] > 0 THEN {L2[s]} ELSE {})
  <2>1. R2[s] = (IF R2[s] > 0 THEN 1 ELSE 0) + InNodes(K2, s) + InClients(C, s)
    BY <1>4, <1>10, <1>13, <1>16
  <2>2. {m \in DOMAIN T2 : s \in T2[m]} = {m \in DOMAIN T : s \in T[m]}
    BY <1>15, <1>16
  <2>3. {m \in DOMAIN T : s \in T[m]} = (IF R[s] > 0 THEN {L[s]} ELSE {})
    BY DEF Exact
  <2>4. K2[s] = K[s] /\ L2[s] = L[s]
    BY <1>12, <1>16
  <2>5. R2[s] = 0 => R[s] = 0
    BY <1>10, <1>16
  <2>6. R2[s] = 0 => K2[s] = NoKids
    BY <2>4, <2>5 DEF Exact
  <2> QED BY <1>10, <1>16, <2>1, <2>2, <2>3, <2>4, <2>6
<1>17. {m \in DOMAIN T2 : x \in T2[m]} = {}
  BY <1>14, <1>15
<1>18. R2[x] = (IF R2[x] > 0 THEN 1 ELSE 0) + InNodes(K2, x) + InClients(C, x)
  BY <1>5, <1>6, <1>9, <1>13
<1>19. Exact(R2, L2, K2, T2, C)
  BY <1>9, <1>12, <1>16, <1>17, <1>18 DEF Exact
<1> QED BY <1>9, <1>10, <1>11, <1>19 DEF SameSupport

-----------------------------------------------------------------------------
(* Numbers of items.                                                       *)

Counted(n, R, T) == n = Cardinality(Live(R)) /\ n = Entries(T)

\* The tables U are the tables T but for the one of level l.
OtherTables(T, U, l) ==
  /\ T \in Seq(SUBSET Slots) /\ U \in Seq(SUBSET Slots) /\ l \in DOMAIN T
  /\ DOMAIN U = DOMAIN T /\ \A m \in DOMAIN T \ {l} : U[m] = T[m]

\* Sets of slots are finite.
LEMMA SlotSets ==
  ASSUME NEW X \in SUBSET Slots
  PROVE  IsFiniteSet(X) /\ Cardinality(X) \in Nat
<1>1. IsFiniteSet(X)
  BY SlotFacts, FS_Subset
<1> QED BY <1>1, FS_CardinalityType

\* There are finitely many tables, each a finite set.
LEMMA TableFacts ==
  ASSUME NEW T \in Seq(SUBSET Slots)
  PROVE  /\ IsFiniteSet(DOMAIN T)
         /\ \A l \in DOMAIN T : T[l] \in SUBSET Slots /\ Cardinality(T[l]) \in Nat
<1>1. DOMAIN T = 1 .. Len(T) /\ Len(T) \in Int /\ 1 \in Int
  OBVIOUS
<1>2. IsFiniteSet(1 .. Len(T))
  BY <1>1, FS_Interval
<1>3. \A l \in DOMAIN T : T[l] \in SUBSET Slots
  OBVIOUS
<1> QED BY <1>1, <1>2, <1>3, SlotSets

\* One table changes.
LEMMA EntriesChange ==
  ASSUME NEW T, NEW U, NEW l, OtherTables(T, U, l)
  PROVE  /\ Entries(U) = Entries(T) - Cardinality(T[l]) + Cardinality(U[l])
         /\ Entries(T) \in Int
<1> DEFINE S == DOMAIN T
           f == [m \in S |-> Cardinality(T[m])]
           g == [m \in S |-> Cardinality(U[m])]
<1>1. T \in Seq(SUBSET Slots) /\ U \in Seq(SUBSET Slots) /\ l \in S /\ DOMAIN U = S
  BY DEF OtherTables
<1>2. IsFiniteSet(S) /\ \A m \in S : f[m] \in Int /\ g[m] \in Int
  BY <1>1, TableFacts
<1>3. \A m \in S \ {l} : g[m] = f[m]
  BY DEF OtherTables
<1>4. f[l] = Cardinality(T[l]) /\ g[l] = Cardinality(U[l])
  BY <1>1
<1>5. Entries(T) = SumFunctionOnSet(f, S) /\ Entries(U) = SumFunctionOnSet(g, S)
  BY <1>1 DEF Entries
<1> HIDE DEF S, f, g
<1>6. SumFunctionOnSet(g, S) = SumFunctionOnSet(f, S) - f[l] + g[l]
  <2>1. l \in S
    BY <1>1
  <2>2. IsFiniteSet(S)
    BY <1>2
  <2>3. \A m \in S : f[m] \in Int /\ g[m] \in Int
    BY <1>2
  <2> QED BY <2>1, <2>2, <2>3, <1>3, SumChange
<1>7. SumFunctionOnSet(f, S) \in Int
  BY <1>2, SumType
<1> QED BY <1>4, <1>5, <1>6, <1>7

\* An empty table has no entries.
LEMMA EntriesLevel ==
  ASSUME NEW T \in Seq(SUBSET Slots)
  PROVE  Entries(Append(T, {})) = Entries(T)
<1>1. PICK U : U = Append(T, {})
  OBVIOUS
<1>2. PICK n \in Nat : n = Len(T)
  OBVIOUS
<1>3. /\ DOMAIN T = 1 .. n /\ DOMAIN U = 1 .. n + 1 /\ U \in Seq(SUBSET Slots)
      /\ \A l \in 1 .. n : U[l] = T[l]
      /\ U[n + 1] = {}
  BY <1>1, <1>2
<1> DEFINE f == [m \in 1 .. n |-> Cardinality(T[m])]
           g == [m \in 1 .. n + 1 |-> Cardinality(U[m])]
<1>4. IsFiniteSet(1 .. n) /\ IsFiniteSet(1 .. n + 1)
  BY <1>3, TableFacts
<1>5. (1 .. n + 1) \ {n + 1} = 1 .. n /\ n + 1 \in 1 .. n + 1
  OBVIOUS
<1>6. \A m \in 1 .. n + 1 : g[m] \in Int
  BY <1>3, TableFacts
<1>7. \A m \in 1 .. n : f[m] \in Int /\ g[m] = f[m]
  BY <1>3, <1>5, TableFacts
<1>8. g[n + 1] = 0
  BY <1>3, <1>5, FS_EmptySet
<1>9. Entries(T) = SumFunctionOnSet(f, 1 .. n) /\ Entries(U) = SumFunctionOnSet(g, 1 .. n + 1)
  BY <1>3 DEF Entries
<1> HIDE DEF f, g
<1>10. PICK S, x : S = 1 .. n + 1 /\ x = n + 1
  OBVIOUS
<1>11. IsFiniteSet(S) /\ x \in S /\ \A m \in S : g[m] \in Int
  BY <1>4, <1>5, <1>6, <1>10
<1>12. /\ SumFunctionOnSet(g, S \ {x}) \in Int
       /\ SumFunctionOnSet(g, S) = g[x] + SumFunctionOnSet(g, S \ {x})
  BY <1>11, SumStep
<1>13. SumFunctionOnSet(g, 1 .. n) = SumFunctionOnSet(f, 1 .. n)
  BY <1>4, <1>7, SumSame
<1>14. S \ {x} = 1 .. n
  BY <1>5, <1>10
<1>15. Entries(U) = Entries(T)
  <2>1. Entries(U) = SumFunctionOnSet(g, S) /\ g[x] = 0
    BY <1>8, <1>9, <1>10
  <2>2. Entries(U) = SumFunctionOnSet(g, S \ {x})
    BY <1>12, <2>1
  <2> QED BY <1>9, <1>13, <1>14, <2>2
<1> QED BY <1>1, <1>15

\* Which slots are counted does not change.
LEMMA CountedSame ==
  ASSUME NEW n, NEW R, NEW T, NEW R2, Counted(n, R, T), SameSupport(R, R2, {})
  PROVE  Counted(n, R2, T)
<1>1. Live(R2) = Live(R)
  BY DEF Live, SameSupport
<1> QED BY <1>1 DEF Counted

\* A node is added to the table of level l.
LEMMA CountedCreate ==
  ASSUME NEW n \in Nat, NEW R, NEW T, NEW R2, NEW U, NEW l, NEW x \in Slots,
         Counted(n, R, T), SameSupport(R, R2, {x}), R[x] = 0, R2[x] > 0,
         OtherTables(T, U, l), x \notin T[l], U[l] = T[l] \cup {x}
  PROVE  Counted(n + 1, R2, U)
<1>1. Live(R2) = Live(R) \cup {x} /\ x \notin Live(R) /\ Live(R) \in SUBSET Slots
  BY DEF Live, SameSupport
<1>2. Cardinality(Live(R2)) = Cardinality(Live(R)) + 1
  BY <1>1, SlotSets, FS_AddElement
<1>3. T[l] \in SUBSET Slots
  BY TableFacts DEF OtherTables
<1>4. PICK c : c = Cardinality(T[l])
  OBVIOUS
<1>5. Cardinality(U[l]) = c + 1 /\ c \in Nat
  BY <1>3, <1>4, SlotSets, FS_AddElement
<1>6. Entries(U) = Entries(T) - c + Cardinality(U[l]) /\ Entries(T) \in Int
  BY <1>4, EntriesChange
<1>7. Entries(U) = Entries(T) + 1
  BY <1>5, <1>6
<1> QED BY <1>2, <1>7 DEF Counted

\* A node is taken from the table of level l.
LEMMA CountedDelete ==
  ASSUME NEW n \in Nat, NEW R, NEW T, NEW R2, NEW U, NEW l, NEW x \in Slots,
         Counted(n, R, T), SameSupport(R, R2, {x}), R[x] > 0, R2[x] = 0,
         OtherTables(T, U, l), x \in T[l], U[l] = T[l] \ {x}
  PROVE  Counted(n - 1, R2, U) /\ n > 0
<1>1. Live(R2) = Live(R) \ {x} /\ x \in Live(R) /\ Live(R) \in SUBSET Slots
  BY DEF Live, SameSupport
<1>2. Cardinality(Live(R2)) = Cardinality(Live(R)) - 1 /\ Cardinality(Live(R)) > 0
  <2>1. IsFiniteSet(Live(R)) /\ Cardinality(Live(R)) \in Nat
    BY <1>1, SlotSets
  <2>2. Cardinality(Live(R) \ {x}) = Cardinality(Live(R)) - 1
    BY <1>1, <2>1, FS_RemoveElement
  <2>3. Cardinality(Live(R) \ {x}) \in Nat
    BY <1>1, SlotSets
  <2> QED BY <1>1, <2>1, <2>2, <2>3
<1>3. T[l] \in SUBSET Slots
  BY TableFacts DEF OtherTables
<1>4. PICK c : c = Cardinality(T[l])
  OBVIOUS
<1>5. Cardinality(U[l]) = c - 1 /\ c \in Nat
  BY <1>3, <1>4, SlotSets, FS_RemoveElement
<1>6. Entries(U) = Entries(T) - c + Cardinality(U[l]) /\ Entries(T) \in Int
  BY <1>4, EntriesChange
<1>7. Entries(U) = Entries(T) - 1
  BY <1>5, <1>6
<1> QED BY <1>2, <1>7 DEF Counted

-----------------------------------------------------------------------------
(* What threads hold.                                                      *)

HandsOK ==
  /\ functions \in [Threads -> [Edges -> Nat]]
  /\ refs \in [Threads -> Nat]
  /\ pc \in [Threads -> {"idle", "clone", "drop", "made", "owned", "alloc", "write", "gc"}]
  /\ edge \in [Threads -> Edges]
  /\ want \in [Threads -> Edges \X Edges]

\* The edges to s that a thread owns besides its functions, by what it is doing.
Own(p, w, e, s) ==
  IF p \in {"alloc", "write"} THEN Occurs(s, w)
  ELSE IF p \in {"clone", "made", "owned"} THEN One(e, s) ELSE 0

\* What a client owns, in terms of what it is doing.
LEMMA ClientsValue ==
  ASSUME NEW t \in Threads, NEW s \in Slots
  PROVE  /\ Clients[t][s] = functions[t][s] + Own(pc[t], want[t], edge[t], s)
         /\ (Clients')[t][s] = functions'[t][s] + Own(pc'[t], want'[t], edge'[t], s)
<1>1. Clients[t][s] = functions[t][s] + Occurs(s, OwnEdges(t))
  BY DEF Clients, OwnedBy
<1>2. (Clients')[t][s] = functions'[t][s] + Occurs(s, OwnEdges(t)')
  BY DEF Clients, OwnedBy
<1>3. Occurs(s, OwnEdges(t)) = Own(pc[t], want[t], edge[t], s)
  <2>1. CASE pc[t] \in {"alloc", "write"}
    BY <2>1 DEF OwnEdges, Own
  <2>2. CASE pc[t] \in {"clone", "made", "owned"}
    <3>1. OwnEdges(t) = <<edge[t]>>
      BY <2>2 DEF OwnEdges
    <3> QED BY <2>2, <3>1, OccursOne DEF Own
  <2>3. CASE pc[t] \notin {"alloc", "write", "clone", "made", "owned"}
    <3>1. OwnEdges(t) = <<>>
      BY <2>3 DEF OwnEdges
    <3> QED BY <2>3, <3>1, OccursNone DEF Own
  <2> QED BY <2>1, <2>2, <2>3
<1>4. Occurs(s, OwnEdges(t)') = Own(pc'[t], want'[t], edge'[t], s)
  <2>1. CASE pc'[t] \in {"alloc", "write"}
    BY <2>1 DEF OwnEdges, Own
  <2>2. CASE pc'[t] \in {"clone", "made", "owned"}
    <3>1. OwnEdges(t)' = <<edge'[t]>>
      BY <2>2 DEF OwnEdges
    <3> QED BY <2>2, <3>1, OccursOne DEF Own
  <2>3. CASE pc'[t] \notin {"alloc", "write", "clone", "made", "owned"}
    <3>1. OwnEdges(t)' = <<>>
      BY <2>3 DEF OwnEdges
    <3> QED BY <2>3, <3>1, OccursNone DEF Own
  <2> QED BY <2>1, <2>2, <2>3
<1> QED BY <1>1, <1>2, <1>3, <1>4

\* It is a natural number.
LEMMA OwnType ==
  ASSUME NEW p, NEW w \in Edges \X Edges, NEW e, NEW s
  PROVE  Own(p, w, e, s) \in Nat
BY OccursPair DEF Own, One

\* What all clients own has its type, before and after a step.
LEMMA ClientsTyped ==
  /\ HandsOK => Clients \in ClientsType
  /\ HandsOK' => Clients' \in ClientsType
<1>1. ASSUME HandsOK PROVE Clients \in ClientsType
  <2>1. ASSUME NEW t \in Threads, NEW s \in Slots PROVE Clients[t][s] \in Nat
    <3>1. functions[t][s] \in Nat /\ want[t] \in Edges \X Edges
      BY <1>1, SlotFacts DEF HandsOK
    <3>2. Own(pc[t], want[t], edge[t], s) \in Nat
      BY <3>1, OwnType
    <3> QED BY <3>1, <3>2, ClientsValue
  <2>2. Clients = [t \in Threads |-> [s \in Slots |-> Clients[t][s]]]
    BY DEF Clients
  <2> QED BY <2>1, <2>2 DEF ClientsType
<1>2. ASSUME HandsOK' PROVE Clients' \in ClientsType
  <2>1. ASSUME NEW t \in Threads, NEW s \in Slots PROVE (Clients')[t][s] \in Nat
    <3>1. functions'[t][s] \in Nat /\ want'[t] \in Edges \X Edges
      BY <1>2, SlotFacts DEF HandsOK
    <3>2. Own(pc'[t], want'[t], edge'[t], s) \in Nat
      BY <3>1, OwnType
    <3> QED BY <3>1, <3>2, ClientsValue
  <2>2. Clients' = [t \in Threads |-> [s \in Slots |-> (Clients')[t][s]]]
    BY DEF Clients
  <2> QED BY <2>1, <2>2 DEF ClientsType
<1> QED BY <1>1, <1>2

\* A thread keeps what it has.
Stays(u) == UNCHANGED <<functions[u], pc[u], want[u], edge[u]>>

\* Such a thread owns the same edges after the step.
LEMMA ClientsStay ==
  ASSUME NEW u \in Threads, Stays(u)
  PROVE  (Clients')[u] = Clients[u]
<1>1. ASSUME NEW s \in Slots PROVE OwnedBy(u, s)' = OwnedBy(u, s)
  BY DEF Stays, OwnedBy, OwnEdges
<1> QED BY <1>1 DEF Clients

\* Functions are counted with natural numbers.
LEMMA FunctionsBound ==
  ASSUME NEW f \in [Edges -> Nat]
  PROVE  /\ SumFunctionOnSet(f, Edges) \in Nat
         /\ \A e \in Edges : f[e] <= SumFunctionOnSet(f, Edges)
<1>1. IsFiniteSet(Edges) /\ \A e \in Edges : f[e] \in Nat
  BY SlotFacts
<1> QED BY <1>1, SumBound

\* What a thread holds of the slab is a natural number and counts its functions and references.
LEMMA HandlesType ==
  ASSUME NEW t \in Threads
  PROVE  /\ HandsOK => /\ HeldBy(t) \in Nat /\ Handles(t) \in Nat /\ HoldsOfSlab(t) \in Nat
                       /\ \A e \in Edges : functions[t][e] \in Nat /\ functions[t][e] <= Handles(t)
                       /\ refs[t] \in Nat /\ refs[t] <= Handles(t)
                       /\ Handles(t) <= HoldsOfSlab(t)
                       /\ pc[t] = "drop" => HoldsOfSlab(t) > 0
         /\ HandsOK' => HeldBy(t)' \in Nat /\ Handles(t)' \in Nat /\ HoldsOfSlab(t)' \in Nat
<1>1. ASSUME HandsOK
      PROVE  /\ HeldBy(t) \in Nat /\ Handles(t) \in Nat /\ HoldsOfSlab(t) \in Nat
             /\ \A e \in Edges : functions[t][e] \in Nat /\ functions[t][e] <= Handles(t)
             /\ refs[t] \in Nat /\ refs[t] <= Handles(t)
             /\ Handles(t) <= HoldsOfSlab(t)
             /\ pc[t] = "drop" => HoldsOfSlab(t) > 0
  <2>1. functions[t] \in [Edges -> Nat] /\ refs[t] \in Nat
    BY <1>1 DEF HandsOK
  <2>2. HeldBy(t) \in Nat /\ \A e \in Edges : functions[t][e] \in Nat /\ functions[t][e] <= HeldBy(t)
    BY <2>1, FunctionsBound DEF HeldBy
  <2>3. Handles(t) = HeldBy(t) + refs[t]
    BY DEF Handles
  <2>4. HoldsOfSlab(t) = Handles(t) + (IF pc[t] = "drop" THEN 1 ELSE 0)
    BY DEF HoldsOfSlab
  <2> HIDE DEF HeldBy, Handles, HoldsOfSlab
  <2>5. Handles(t) \in Nat /\ \A e \in Edges : functions[t][e] <= Handles(t)
    BY <2>1, <2>2, <2>3
  <2> QED BY <2>1, <2>2, <2>3, <2>4, <2>5
<1>2. ASSUME HandsOK'
      PROVE  HeldBy(t)' \in Nat /\ Handles(t)' \in Nat /\ HoldsOfSlab(t)' \in Nat
  <2>1. functions'[t] \in [Edges -> Nat] /\ refs'[t] \in Nat
    BY <1>2 DEF HandsOK
  <2>2. HeldBy(t)' \in Nat
    BY <2>1, FunctionsBound DEF HeldBy
  <2> QED BY <2>1, <2>2 DEF Handles, HoldsOfSlab
<1> QED BY <1>1, <1>2

\* A thread gets a function or loses one.
LEMMA HandlesAdd ==
  ASSUME HandsOK, NEW u \in Threads, NEW e \in Edges, NEW n \in Int,
         functions' = Add(functions, u, e, n), UNCHANGED refs,
         functions[u][e] + n \in Nat
  PROVE  /\ functions' \in [Threads -> [Edges -> Nat]]
         /\ Handles(u)' = Handles(u) + n
         /\ \A v \in Threads \ {u} : Handles(v)' = Handles(v) /\ functions'[v] = functions[v]
         /\ functions'[u][e] = functions[u][e] + n
         /\ \A s \in Edges \ {e} : functions'[u][s] = functions[u][s]
<1>1. functions' \in [Threads -> [Edges -> Nat]]
  BY DEF Add, HandsOK
<1>2. \A v \in Threads \ {u} : functions'[v] = functions[v]
  BY DEF Add, HandsOK
<1>3. functions'[u][e] = functions[u][e] + n /\ \A s \in Edges \ {e} : functions'[u][s] = functions[u][s]
  BY DEF Add, HandsOK
<1>4. \A v \in Threads \ {u} : Handles(v)' = Handles(v)
  BY <1>2 DEF Handles, HeldBy
<1>5. PICK f, g : f = functions[u] /\ g = functions'[u]
  OBVIOUS
<1>6. f \in [Edges -> Nat] /\ g \in [Edges -> Nat]
  BY <1>1, <1>5 DEF HandsOK
<1>7. IsFiniteSet(Edges) /\ \A s \in Edges : f[s] \in Int /\ g[s] \in Int
  BY <1>6, SlotFacts
<1>8. \A s \in Edges \ {e} : g[s] = f[s]
  BY <1>3, <1>5
<1>9. SumFunctionOnSet(g, Edges) = SumFunctionOnSet(f, Edges) - f[e] + g[e]
  <2>1. IsFiniteSet(Edges)
    BY <1>7
  <2>2. \A s \in Edges : f[s] \in Int /\ g[s] \in Int
    BY <1>7
  <2> QED BY <1>8, <2>1, <2>2, SumChange
<1>10. SumFunctionOnSet(f, Edges) \in Nat
  BY <1>6, FunctionsBound
<1>11. g[e] = f[e] + n /\ f[e] \in Nat
  BY <1>3, <1>5, <1>6
<1>12. SumFunctionOnSet(g, Edges) = SumFunctionOnSet(f, Edges) + n
  BY <1>9, <1>10, <1>11
<1>13. HeldBy(u) = SumFunctionOnSet(f, Edges) /\ HeldBy(u)' = SumFunctionOnSet(g, Edges)
  BY <1>5 DEF HeldBy
<1>14. refs[u] \in Nat /\ refs'[u] = refs[u]
  BY DEF HandsOK
<1>15. Handles(u)' = Handles(u) + n
  BY <1>10, <1>12, <1>13, <1>14 DEF Handles
<1> QED BY <1>1, <1>2, <1>3, <1>4, <1>15

-----------------------------------------------------------------------------
(* The count of the slab.                                                  *)

\* The types of what threads hold, from the invariant.
LEMMA TypedHands == IInv => HandsOK /\ slabRc \in Nat
BY DEF IInv, TypeOK, HandsOK

\* A thread that holds something of the slab finds it alive.
LEMMA SlabAlive ==
  ASSUME IInv, NEW t \in Threads, HoldsOfSlab(t) > 0
  PROVE  slabRc > 0 /\ alive /\ SlotInv /\ NodeInv /\ ItemInv
<1> DEFINE f == [u \in Threads |-> HoldsOfSlab(u)]
<1>1. \A u \in Threads : f[u] \in Nat
  BY TypedHands, HandlesType
<1>2. f[t] = HoldsOfSlab(t) /\ slabRc = SumFunctionOnSet(f, Threads)
  BY DEF IInv, SlabInv
<1> HIDE DEF f
<1>3. f[t] <= SumFunctionOnSet(f, Threads) /\ SumFunctionOnSet(f, Threads) \in Nat /\ f[t] \in Nat
  BY <1>1, SlotFacts, SumBound
<1>4. slabRc > 0
  BY <1>2, <1>3
<1>5. alive
  BY <1>4 DEF IInv, SlabInv
<1> QED BY <1>4, <1>5 DEF IInv

\* The sum of what the threads hold changes by what thread t gets.
LEMMA SlabSum ==
  ASSUME IInv, HandsOK', NEW t \in Threads, NEW n \in Int,
         \A u \in Threads \ {t} : HoldsOfSlab(u)' = HoldsOfSlab(u),
         HoldsOfSlab(t)' = HoldsOfSlab(t) + n
  PROVE  SumFunctionOnSet([u \in Threads |-> HoldsOfSlab(u)'], Threads) = slabRc + n
<1> DEFINE f == [u \in Threads |-> HoldsOfSlab(u)]
           g == [u \in Threads |-> HoldsOfSlab(u)']
<1>1. \A u \in Threads : f[u] \in Nat /\ g[u] \in Nat
  BY TypedHands, HandlesType
<1>2. \A u \in Threads \ {t} : g[u] = f[u]
  OBVIOUS
<1>3. g[t] = f[t] + n
  OBVIOUS
<1>4. slabRc = SumFunctionOnSet(f, Threads)
  BY DEF IInv, SlabInv
<1> HIDE DEF f, g
<1>5. IsFiniteSet(Threads)
  BY SlotFacts
<1>6. \A u \in Threads : f[u] \in Int /\ g[u] \in Int
  BY <1>1
<1>7. SumFunctionOnSet(g, Threads) = SumFunctionOnSet(f, Threads) - f[t] + g[t]
  BY <1>2, <1>5, <1>6, SumChange
<1>8. f[t] \in Int /\ slabRc \in Int
  BY <1>6, TypedHands
<1>9. SumFunctionOnSet(g, Threads) = slabRc + n
  BY <1>3, <1>4, <1>7, <1>8
<1> QED BY <1>9 DEF g

\* The slab's variables stay in their types.
SlabTyped ==
  /\ SlabInv' /\ slabRc' \in Nat /\ pages' \in 0 .. MaxPages /\ free' \in Seq(Slots)
  /\ alive' \in BOOLEAN
  /\ alive' => UNCHANGED <<free, pages>>

\* ArcSlab::retain for thread t.
LEMMA SlabRetained ==
  ASSUME IInv, HandsOK', NEW t \in Threads, slabRc > 0, retain,
         \A u \in Threads \ {t} : HoldsOfSlab(u)' = HoldsOfSlab(u),
         HoldsOfSlab(t)' = HoldsOfSlab(t) + 1
  PROVE  SlabTyped
<1>1. slabRc' = slabRc + 1 /\ slabRc \in Nat
  BY TypedHands DEF retain
<1>2. SumFunctionOnSet([u \in Threads |-> HoldsOfSlab(u)'], Threads) = slabRc + 1
  BY SlabSum
<1>3. slabRc' \in Nat /\ slabRc' > 0
  BY <1>1
<1>4. alive /\ alive \in BOOLEAN /\ pages \in 0 .. MaxPages /\ free \in Seq(Slots)
  BY DEF IInv, SlabInv, TypeOK
<1>5. alive' = alive /\ UNCHANGED <<free, pages>>
  BY DEF retain
<1>6. SlabInv'
  BY <1>1, <1>2, <1>3, <1>4, <1>5 DEF SlabInv
<1> QED BY <1>3, <1>4, <1>5, <1>6 DEF SlabTyped

\* ArcSlab::release for thread t.
LEMMA SlabReleased ==
  ASSUME IInv, HandsOK', NEW t \in Threads, slabRc > 0, release,
         \A u \in Threads \ {t} : HoldsOfSlab(u)' = HoldsOfSlab(u),
         HoldsOfSlab(t)' = HoldsOfSlab(t) - 1
  PROVE  SlabTyped
<1>1. slabRc' = slabRc - 1 /\ slabRc \in Nat
  BY TypedHands DEF release
<1>2. SumFunctionOnSet([u \in Threads |-> HoldsOfSlab(u)'], Threads) = slabRc + (-1)
  <2>1. HoldsOfSlab(t)' = HoldsOfSlab(t) + (-1)
    BY TypedHands, HandlesType
  <2>2. PICK n \in Int : n = -1
    OBVIOUS
  <2>3. HoldsOfSlab(t)' = HoldsOfSlab(t) + n
    BY <2>1, <2>2
  <2>4. SumFunctionOnSet([u \in Threads |-> HoldsOfSlab(u)'], Threads) = slabRc + n
    BY <2>3, SlabSum
  <2> QED BY <2>2, <2>4
<1>3. slabRc' \in Nat /\ slabRc + (-1) = slabRc'
  BY <1>1
<1>4. alive /\ alive \in BOOLEAN /\ pages \in 0 .. MaxPages /\ free \in Seq(Slots)
  BY DEF IInv, SlabInv, TypeOK
<1>5. CASE slabRc = 1
  <2>1. alive' = FALSE /\ free' = <<>> /\ pages' = 0 /\ slabRc' = 0
    BY <1>1, <1>5 DEF release
  <2>2. ~(slabRc' > 0)
    BY <2>1
  <2>3. SlabInv'
    BY <1>2, <1>3, <2>1, <2>2 DEF SlabInv
  <2>4. 0 \in 0 .. MaxPages /\ <<>> \in Seq(Slots)
    BY SlabAssumption
  <2> QED BY <1>3, <2>1, <2>3, <2>4 DEF SlabTyped
<1>6. CASE slabRc # 1
  <2>1. alive' = alive /\ UNCHANGED <<free, pages>>
    BY <1>6 DEF release
  <2>2. slabRc' > 0
    BY <1>1, <1>6
  <2>3. SlabInv'
    BY <1>2, <1>3, <1>4, <2>1, <2>2 DEF SlabInv
  <2> QED BY <1>3, <1>4, <2>1, <2>3 DEF SlabTyped
<1> QED BY <1>5, <1>6

\* Nobody gets a handle or loses one.
LEMMA SlabKept ==
  ASSUME IInv, UNCHANGED <<slabRc, alive>>,
         \A u \in Threads : HoldsOfSlab(u)' = HoldsOfSlab(u)
  PROVE  SlabInv'
<1>1. [u \in Threads |-> HoldsOfSlab(u)'] = [u \in Threads |-> HoldsOfSlab(u)]
  OBVIOUS
<1> QED BY <1>1 DEF IInv, SlabInv

-----------------------------------------------------------------------------
(* Threads that do not take part, and tables that do not change.           *)

\* AccessInv of a thread that the step leaves alone.
LEMMA AccessKept ==
  ASSUME IInv, HandsOK', NEW u \in Threads, UNCHANGED <<access[u], pc[u], edge[u]>>,
         Handles(u)' >= Handles(u)
  PROVE  AccessInv(u)'
<1>1. AccessInv(u)
  BY DEF IInv, ThreadInv
<1>2. Handles(u) \in Nat /\ Handles(u)' \in Nat
  BY TypedHands, HandlesType
<1>3. Handles(u) > 0 => Handles(u)' > 0
  BY <1>2
<1> HIDE DEF Handles
<1> QED BY <1>1, <1>3 DEF AccessInv

\* The threads that hold mutexes of levels go on.
SameLocks(t) ==
  /\ UNCHANGED <<table, tableLock, gcLevel, gcOwner, todo>>
  /\ \A u \in Threads \ {t} : pc'[u] = pc[u]
  /\ pc'[t] \in {"alloc", "write"} <=> pc[t] \in {"alloc", "write"}
  /\ pc'[t] = "gc" <=> pc[t] = "gc"

\* LockInv of every thread when only t changes, and no lock with it.
LEMMA LocksKept ==
  ASSUME IInv, NEW t \in Threads, SameLocks(t), NEW u \in Threads
  PROVE  LockInv(u)'
<1>1. LockInv(u)
  BY DEF IInv, ThreadInv
<1>2. /\ pc'[u] \in {"alloc", "write"} <=> pc[u] \in {"alloc", "write"}
      /\ pc'[u] = "gc" <=> pc[u] = "gc"
  BY DEF SameLocks
<1>3. UNCHANGED <<table, tableLock, gcLevel, gcOwner, todo>>
  BY DEF SameLocks
<1> QED BY <1>1, <1>2, <1>3 DEF LockInv

\* The parts of TypeOK that steps of clients leave alone.
TablesOK ==
  /\ items \in Nat
  /\ level \in [Slots -> 0 .. MaxLevels]
  /\ kids \in [Slots -> Edges \X Edges]
  /\ table \in Seq(SUBSET Slots) /\ Len(table) <= MaxLevels
  /\ tableLock \in [DOMAIN table -> Threads \cup {NoThread}]
  /\ gcOwner \in Threads \cup {NoThread}
  /\ gcLevel \in 0 .. Len(table) /\ todo \in SUBSET Slots

\* The other types, from the invariant and to it.
LEMMA TypeParts ==
  /\ IInv => TablesOK /\ access \in [Threads -> {"none", "shared", "exclusive"}]
  /\ (/\ slabRc \in Nat /\ pages \in 0 .. MaxPages /\ alive \in BOOLEAN /\ free \in Seq(Slots)
      /\ rc \in [Slots -> Nat] /\ access \in [Threads -> {"none", "shared", "exclusive"}]
      /\ HandsOK /\ TablesOK)' => TypeOK'
BY DEF IInv, TypeOK, HandsOK, TablesOK

\* No slot moves but from a thread's hand.
LEMMA SlotsKept ==
  ASSUME SlotInv, UNCHANGED <<free, pages>>, SameSupport(rc, rc', {}),
         \A u \in Threads : Hand(u)' = Hand(u) \/ Hand(u)' \notin Slots
  PROVE  SlotInv'
<1>1. Listing(free) /\ Apart(rc, FreeSet(free), [u \in Threads |-> Hand(u)], pages * PageSlots)
  BY DEF SlotInv
<1>2. FreeSet(free) \in SUBSET Slots
  BY <1>1 DEF Listing, FreeSet
<1>3. PICK F, H, b, R2, H2 :
        /\ F = FreeSet(free) /\ H = [u \in Threads |-> Hand(u)] /\ b = pages * PageSlots
        /\ R2 = rc' /\ H2 = [u \in Threads |-> Hand(u)']
  OBVIOUS
<1>4. \A u \in Threads : H2[u] = H[u] \/ H2[u] \notin Slots
  BY <1>3
<1>5. Apart(rc, F, H, b) /\ SameSupport(rc, R2, {}) /\ F \in SUBSET Slots
  BY <1>1, <1>2, <1>3
<1>6. Apart(R2, F, H2, b)
  BY <1>4, <1>5, ApartSame
<1> QED BY <1>1, <1>3, <1>6 DEF SlotInv

\* No node comes or goes.
LEMMA ItemsKept ==
  ASSUME ItemInv, UNCHANGED <<items, table>>, SameSupport(rc, rc', {})
  PROVE  ItemInv'
<1>1. Counted(items, rc, table)
  BY DEF ItemInv, Counted
<1>2. PICK R2 : R2 = rc'
  OBVIOUS
<1>3. Counted(items, R2, table)
  BY <1>1, <1>2, CountedSame
<1> QED BY <1>2, <1>3 DEF Counted, ItemInv

\* A client's step: it changes the counts of nodes and of the slab together with
\* what thread t holds, and nothing in the manager.
ClientStep(t) ==
  /\ UNCHANGED <<items, level, kids, table, tableLock, gcOwner, gcLevel, todo>>
  /\ SameLocks(t)
  /\ \A u \in Threads \ {t} : edge'[u] = edge[u]
  /\ pc[t] \notin {"write", "gc"} /\ pc'[t] \notin {"write", "gc"}
  /\ access' \in [Threads -> {"none", "shared", "exclusive"}]

\* A step outside the manager keeps the invariant when it keeps the counts of nodes exact.
LEMMA ClientInv ==
  ASSUME IInv, alive, NEW t \in Threads, ClientStep(t), HandsOK', SlabTyped,
         SameSupport(rc, rc', {}), Exact(rc', level, kids, table, Clients'),
         \A u \in Threads : AccessInv(u)'
  PROVE  IInv'
<1>1. SlotInv /\ NodeInv /\ ItemInv
  BY DEF IInv
<1>2. TablesOK'
  <2>1. TablesOK
    BY TypeParts
  <2> QED BY <2>1 DEF TablesOK, ClientStep
<1>3. rc' \in [Slots -> Nat]
  BY DEF SameSupport
<1>4. TypeOK'
  BY <1>2, <1>3, TypeParts DEF SlabTyped, ClientStep
<1>5. ThreadInv'
  BY LocksKept DEF ClientStep, ThreadInv
<1>6. ASSUME alive' PROVE SlotInv'
  <2>1. UNCHANGED <<free, pages>>
    BY <1>6 DEF SlabTyped
  <2>2. ASSUME NEW u \in Threads PROVE Hand(u)' = Hand(u) \/ Hand(u)' \notin Slots
    <3>1. CASE u = t
      <4>1. Hand(u)' = False
        BY <3>1 DEF Hand, ClientStep
      <4> QED BY <4>1, SlotFacts
    <3>2. CASE u # t
      BY <3>2 DEF Hand, ClientStep, SameLocks
    <3> QED BY <3>1, <3>2
  <2> QED BY <1>1, <2>1, <2>2, SlotsKept
<1>7. NodeInv'
  BY DEF NodeInv, ClientStep
<1>8. ItemInv'
  BY <1>1, ItemsKept DEF ClientStep
<1> QED BY <1>4, <1>5, <1>6, <1>7, <1>8 DEF IInv, SlabTyped

-----------------------------------------------------------------------------
(* Clients' edges and the counts of nodes.                                 *)

\* The edges to s of thread t before and after a step.
Before(t, s) == functions[t][s] + Own(pc[t], want[t], edge[t], s)
After(t, s) == functions'[t][s] + Own(pc'[t], want'[t], edge'[t], s)

\* What a client owns before and after the step are natural numbers.
LEMMA OwnedNat ==
  ASSUME HandsOK, HandsOK', NEW t \in Threads, NEW s \in Slots
  PROVE  Before(t, s) \in Nat /\ After(t, s) \in Nat
BY ClientsValue, ClientsTyped DEF Before, After, ClientsType

\* The types that the lemmas about Exact ask for.
LEMMA ExactTypes ==
  ASSUME IInv
  PROVE  /\ rc \in [Slots -> Nat] /\ kids \in KidsType /\ Clients \in ClientsType
         /\ table \in Seq(SUBSET Slots) /\ level \in [Slots -> Nat]
         /\ \A s \in Slots : level[s] \in Nat
<1>1. level \in [Slots -> 0 .. MaxLevels] /\ MaxLevels \in Nat
  BY ManagerAssumption DEF IInv, TypeOK
<1>2. level \in [Slots -> Nat]
  BY <1>1
<1>3. Clients \in ClientsType
  BY TypedHands, ClientsTyped
<1>4. rc \in [Slots -> Nat] /\ kids \in KidsType /\ table \in Seq(SUBSET Slots)
  BY DEF IInv, TypeOK, KidsType
<1> QED BY <1>2, <1>3, <1>4

\* No thread's edges change.
LEMMA ClientsKept ==
  ASSUME NEW t \in Threads, \A u \in Threads \ {t} : Stays(u),
         \A s \in Slots : After(t, s) = Before(t, s)
  PROVE  Clients' = Clients
<1>1. ASSUME NEW u \in Threads PROVE (Clients')[u] = Clients[u]
  <2>1. CASE u = t
    <3>1. \A s \in Slots : (Clients')[t][s] = Clients[t][s]
      BY ClientsValue DEF Before, After
    <3>2. Clients[t] = [s \in Slots |-> Clients[t][s]] /\ (Clients')[t] = [s \in Slots |-> (Clients')[t][s]]
      BY DEF Clients
    <3> QED BY <2>1, <3>1, <3>2
  <2>2. CASE u # t
    BY <2>2, ClientsStay
  <2> QED BY <2>1, <2>2
<1>2. Clients = [u \in Threads |-> Clients[u]] /\ Clients' = [u \in Threads |-> (Clients')[u]]
  BY DEF Clients
<1> QED BY <1>1, <1>2

\* Counts stay exact when t owns the same edges as before.
LEMMA EdgesKept ==
  ASSUME IInv, NodeInv, UNCHANGED rc, NEW t \in Threads,
         \A u \in Threads \ {t} : Stays(u), \A s \in Slots : After(t, s) = Before(t, s)
  PROVE  Exact(rc', level, kids, table, Clients') /\ SameSupport(rc, rc', {})
<1>1. Clients' = Clients
  BY ClientsKept
<1>2. SameSupport(rc, rc', {})
  BY ExactTypes DEF SameSupport
<1> QED BY <1>1, <1>2 DEF NodeInv

\* Thread t gets an edge.
LEMMA EdgeRetained ==
  ASSUME IInv, NodeInv, HandsOK', NEW t \in Threads, NEW e \in Edges, e \in Slots => rc[e] > 0,
         rc' = Retained(rc, e), \A u \in Threads \ {t} : Stays(u),
         \A s \in Slots : After(t, s) = Before(t, s) + One(e, s)
  PROVE  Exact(rc', level, kids, table, Clients') /\ SameSupport(rc, rc', {})
<1>1. PICK C, C2, R2 : C = Clients /\ C2 = Clients' /\ R2 = Retained(rc, e)
  OBVIOUS
<1>2. C2 \in ClientsType /\ C \in ClientsType /\ rc \in [Slots -> Nat] /\ kids \in KidsType
  BY <1>1, ExactTypes, ClientsTyped
<1>3. \A u \in Threads \ {t} : C2[u] = C[u]
  BY <1>1, ClientsStay
<1>4. ASSUME NEW s \in Slots PROVE C2[t][s] = C[t][s] + 1 * One(e, s)
  <2>1. C2[t][s] = C[t][s] + One(e, s)
    BY <1>1, ClientsValue DEF Before, After
  <2>2. 1 * One(e, s) = One(e, s)
    BY DEF One
  <2> QED BY <2>1, <2>2
<1>5. More(C, C2, t, e, 1)
  BY <1>2, <1>3, <1>4 DEF More
<1>6. Exact(rc, level, kids, table, C)
  BY <1>1 DEF NodeInv
<1>7. Exact(R2, level, kids, table, C2) /\ SameSupport(rc, R2, {})
  BY <1>1, <1>2, <1>5, <1>6, ExactRetain
<1> QED BY <1>1, <1>7

\* Thread t gives up an edge.
LEMMA EdgeReleased ==
  ASSUME IInv, NodeInv, HandsOK', NEW t \in Threads, NEW e \in Edges,
         rc' = Released(rc, e), \A u \in Threads \ {t} : Stays(u),
         \A s \in Slots : After(t, s) = Before(t, s) - One(e, s)
  PROVE  Exact(rc', level, kids, table, Clients') /\ SameSupport(rc, rc', {})
<1>1. PICK C, C2, R2 : C = Clients /\ C2 = Clients' /\ R2 = Released(rc, e)
  OBVIOUS
<1>2. C2 \in ClientsType /\ C \in ClientsType /\ rc \in [Slots -> Nat] /\ kids \in KidsType
  BY <1>1, ExactTypes, ClientsTyped
<1>3. \A u \in Threads \ {t} : C2[u] = C[u]
  BY <1>1, ClientsStay
<1>4. ASSUME NEW s \in Slots PROVE C2[t][s] = C[t][s] + (-1) * One(e, s)
  <2>1. C2[t][s] = C[t][s] - One(e, s) /\ C[t][s] \in Nat
    BY <1>1, <1>2, ClientsValue DEF Before, After, ClientsType
  <2> QED BY <2>1 DEF One
<1>5. More(C, C2, t, e, -1)
  BY <1>2, <1>3, <1>4 DEF More
<1>6. Exact(rc, level, kids, table, C)
  BY <1>1 DEF NodeInv
<1>7. Exact(R2, level, kids, table, C2) /\ SameSupport(rc, R2, {})
  BY <1>1, <1>2, <1>5, <1>6, ExactRelease
<1> QED BY <1>1, <1>7

\* A thread's edges go to nodes.
LEMMA EdgeToNode ==
  ASSUME IInv, NodeInv, NEW t \in Threads, NEW s \in Slots
  PROVE  /\ functions[t][s] > 0 => rc[s] > 0
         /\ pc[t] \in {"clone", "made", "owned"} /\ edge[t] = s => rc[s] > 0
         /\ functions[t][s] \in Nat
<1>1. Clients[t][s] > 0 => rc[s] > Clients[t][s]
  BY ExactTypes, ExactBounds DEF NodeInv
<1>2. Clients[t][s] = functions[t][s] + Own(pc[t], want[t], edge[t], s)
  BY ClientsValue
<1>3. functions[t][s] \in Nat /\ want[t] \in Edges \X Edges
  BY TypedHands, SlotFacts DEF HandsOK
<1>4. Own(pc[t], want[t], edge[t], s) \in Nat
  BY <1>3, OwnType
<1>5. rc[s] \in Nat /\ Clients[t][s] \in Nat
  BY <1>2, <1>3, <1>4, ExactTypes
<1>6. pc[t] \in {"clone", "made", "owned"} /\ edge[t] = s => Own(pc[t], want[t], edge[t], s) = 1
  BY DEF Own, One
<1>7. Clients[t][s] > 0 => rc[s] > 0
  BY <1>1, <1>5
<1> QED BY <1>2, <1>3, <1>4, <1>5, <1>6, <1>7

-----------------------------------------------------------------------------
(* Handles: one lemma per action.                                          *)

\* ManagerRef::clone.
LEMMA CloneRefInv ==
  ASSUME IInv, NEW t \in Threads, NEW u \in Threads, CloneRef(t, u)
  PROVE  IInv'
<1>1. HandsOK /\ slabRc \in Nat
  BY TypedHands
<1>2. HoldsOfSlab(t) > 0
  BY <1>1, HandlesType DEF CloneRef
<1>3. slabRc > 0 /\ alive /\ NodeInv
  BY <1>2, SlabAlive
<1>4. HandsOK'
  BY <1>1 DEF HandsOK, CloneRef, handleVars
<1>5. \A v \in Threads : UNCHANGED <<access[v], pc[v], edge[v], functions[v], want[v]>>
  BY DEF CloneRef
<1>6. ASSUME NEW v \in Threads
      PROVE  Handles(v)' = Handles(v) + (IF v = u THEN 1 ELSE 0)
  <2>1. HeldBy(v)' = HeldBy(v) /\ HeldBy(v) \in Nat /\ refs[v] \in Nat
    BY <1>1, <1>5, HandlesType DEF HeldBy
  <2>2. refs'[v] = refs[v] + (IF v = u THEN 1 ELSE 0)
    BY <1>1 DEF CloneRef, HandsOK
  <2> QED BY <2>1, <2>2 DEF Handles
<1>7. ASSUME NEW v \in Threads
      PROVE  HoldsOfSlab(v)' = HoldsOfSlab(v) + (IF v = u THEN 1 ELSE 0)
  <2>1. Handles(v) \in Nat
    BY <1>1, HandlesType
  <2> QED BY <1>5, <1>6, <2>1 DEF HoldsOfSlab
<1>8. \A v \in Threads \ {u} : HoldsOfSlab(v)' = HoldsOfSlab(v)
  BY <1>1, <1>7, HandlesType
<1>9. SlabTyped
  BY <1>3, <1>4, <1>7, <1>8, SlabRetained DEF CloneRef
<1>10. ASSUME NEW v \in Threads PROVE AccessInv(v)'
  <2>1. Handles(v)' >= Handles(v)
    BY <1>1, <1>6, HandlesType
  <2> QED BY <1>4, <1>5, <2>1, AccessKept
<1>11. Exact(rc', level, kids, table, Clients') /\ SameSupport(rc, rc', {})
  <2>1. \A v \in Threads \ {t} : Stays(v)
    BY <1>5 DEF Stays
  <2>2. \A s \in Slots : After(t, s) = Before(t, s)
    BY <1>5 DEF After, Before
  <2>3. UNCHANGED rc
    BY DEF CloneRef
  <2> QED BY <1>3, <1>4, <2>1, <2>2, <2>3, EdgesKept
<1>12. ClientStep(t)
  BY TypeParts DEF ClientStep, SameLocks, CloneRef, nodeVars
<1> QED BY <1>3, <1>4, <1>9, <1>10, <1>11, <1>12, ClientInv

\* ManagerRef::drop.
LEMMA DropRefInv ==
  ASSUME IInv, NEW t \in Threads, DropRef(t)
  PROVE  IInv'
<1>1. HandsOK /\ slabRc \in Nat
  BY TypedHands
<1>2. HoldsOfSlab(t) > 0
  BY <1>1, HandlesType DEF DropRef
<1>3. slabRc > 0 /\ alive /\ NodeInv
  BY <1>2, SlabAlive
<1>4. HandsOK'
  BY <1>1 DEF HandsOK, DropRef, handleVars
<1>5. \A v \in Threads : UNCHANGED <<access[v], pc[v], edge[v], functions[v], want[v]>>
  BY DEF DropRef
<1>6. ASSUME NEW v \in Threads
      PROVE  Handles(v)' = Handles(v) - (IF v = t THEN 1 ELSE 0)
  <2>1. HeldBy(v)' = HeldBy(v) /\ HeldBy(v) \in Nat /\ refs[v] \in Nat
    BY <1>1, <1>5, HandlesType DEF HeldBy
  <2>2. refs'[v] = refs[v] - (IF v = t THEN 1 ELSE 0)
    BY <1>1 DEF DropRef, HandsOK
  <2> QED BY <2>1, <2>2 DEF Handles
<1>7. ASSUME NEW v \in Threads
      PROVE  HoldsOfSlab(v)' = HoldsOfSlab(v) - (IF v = t THEN 1 ELSE 0)
  <2>1. Handles(v) \in Nat
    BY <1>1, HandlesType
  <2> QED BY <1>5, <1>6, <2>1 DEF HoldsOfSlab
<1>8. \A v \in Threads \ {t} : HoldsOfSlab(v)' = HoldsOfSlab(v)
  BY <1>1, <1>7, HandlesType
<1>9. SlabTyped
  BY <1>3, <1>4, <1>7, <1>8, SlabReleased DEF DropRef
<1>10. ASSUME NEW v \in Threads PROVE AccessInv(v)'
  <2>1. CASE v = t
    <3>1. AccessInv(v)
      BY DEF IInv, ThreadInv
    <3> QED BY <1>5, <2>1, <3>1 DEF AccessInv, DropRef
  <2>2. CASE v # t
    <3>1. Handles(v)' >= Handles(v)
      BY <1>1, <1>6, <2>2, HandlesType
    <3> QED BY <1>4, <1>5, <3>1, AccessKept
  <2> QED BY <2>1, <2>2
<1>11. Exact(rc', level, kids, table, Clients') /\ SameSupport(rc, rc', {})
  <2>1. \A v \in Threads \ {t} : Stays(v)
    BY <1>5 DEF Stays
  <2>2. \A s \in Slots : After(t, s) = Before(t, s)
    BY <1>5 DEF After, Before
  <2>3. UNCHANGED rc
    BY DEF DropRef
  <2> QED BY <1>3, <1>4, <2>1, <2>2, <2>3, EdgesKept
<1>12. ClientStep(t)
  BY TypeParts DEF ClientStep, SameLocks, DropRef, nodeVars
<1> QED BY <1>3, <1>4, <1>9, <1>10, <1>11, <1>12, ClientInv

\* Function::clone counts the node,
LEMMA CloneNodeInv ==
  ASSUME IInv, NEW t \in Threads, NEW e \in Edges, CloneNode(t, e)
  PROVE  IInv'
<1>1. HandsOK /\ slabRc \in Nat
  BY TypedHands
<1>2. Handles(t) > 0 /\ HoldsOfSlab(t) > 0 /\ Handles(t) \in Nat
  BY <1>1, HandlesType DEF CloneNode
<1>3. slabRc > 0 /\ alive /\ NodeInv
  BY <1>2, SlabAlive
<1>4. HandsOK'
  BY <1>1 DEF HandsOK, CloneNode, handleVars, Goto, InHand
<1>5. \A v \in Threads \ {t} : UNCHANGED <<access[v], pc[v], edge[v], functions[v], want[v]>>
  BY <1>1 DEF CloneNode, handleVars, Goto, InHand, HandsOK
<1>6. pc[t] = "idle" /\ pc'[t] = "clone" /\ edge'[t] = e /\ UNCHANGED <<functions[t], access[t]>>
  BY <1>1 DEF CloneNode, handleVars, Goto, InHand, HandsOK
<1>7. ASSUME NEW v \in Threads PROVE Handles(v)' = Handles(v)
  BY DEF CloneNode, handleVars, Handles, HeldBy
<1>8. SlabTyped
  <2>1. ASSUME NEW v \in Threads PROVE HoldsOfSlab(v)' = HoldsOfSlab(v)
    BY <1>5, <1>6, <1>7 DEF HoldsOfSlab
  <2>2. SlabInv'
    BY <2>1, SlabKept DEF CloneNode
  <2> QED BY <2>2 DEF CloneNode, SlabTyped, IInv, TypeOK
<1>9. ASSUME NEW v \in Threads PROVE AccessInv(v)'
  <2>1. CASE v = t
    <3>1. AccessInv(t)
      BY DEF IInv, ThreadInv
    <3>2. Handles(t)' > 0
      BY <1>2, <1>7
    <3> QED BY <1>6, <2>1, <3>1, <3>2 DEF AccessInv
  <2>2. CASE v # t
    <3>1. Handles(v)' >= Handles(v)
      BY <1>1, <1>7, <2>2, HandlesType
    <3> QED BY <1>4, <1>5, <2>2, <3>1, AccessKept
  <2> QED BY <2>1, <2>2
<1>10. Exact(rc', level, kids, table, Clients') /\ SameSupport(rc, rc', {})
  <2>1. \A v \in Threads \ {t} : Stays(v)
    BY <1>5 DEF Stays
  <2>2. ASSUME NEW s \in Slots PROVE After(t, s) = Before(t, s) + One(e, s)
    <3>1. functions[t][s] \in Nat
      BY <1>3, EdgeToNode
    <3> QED BY <1>6, <3>1 DEF After, Before, Own, One
  <2>3. rc' = Retained(rc, e)
    BY DEF CloneNode
  <2>4. e \in Slots => rc[e] > 0
    BY <1>3, EdgeToNode DEF CloneNode
  <2> QED BY <1>3, <1>4, <2>1, <2>2, <2>3, <2>4, EdgeRetained
<1>11. ClientStep(t)
  BY <1>5, <1>6, TypeParts DEF ClientStep, SameLocks, CloneNode, nodeVars
<1> QED BY <1>3, <1>4, <1>8, <1>9, <1>10, <1>11, ClientInv

\* The copy of the function goes from thread t, which has made it, to thread u.
LEMMA EdgeSent ==
  ASSUME IInv, NodeInv, HandsOK', UNCHANGED rc, NEW t \in Threads, NEW u \in Threads, u # t,
         NEW e \in Edges, \A v \in Threads \ {t, u} : Stays(v),
         \A s \in Slots : After(t, s) = Before(t, s) - One(e, s),
         \A s \in Slots : After(u, s) = Before(u, s) + One(e, s)
  PROVE  Exact(rc', level, kids, table, Clients') /\ SameSupport(rc, rc', {})
<1>1. PICK C, C2 : C = Clients /\ C2 = Clients'
  OBVIOUS
<1>2. C2 \in ClientsType /\ C \in ClientsType /\ rc \in [Slots -> Nat]
  BY <1>1, ExactTypes, ClientsTyped
<1>3. \A v \in Threads \ {t, u} : C2[v] = C[v]
  BY <1>1, ClientsStay
<1>4. ASSUME NEW s \in Slots
      PROVE  C2[t][s] = C[t][s] - One(e, s) /\ C2[u][s] = C[u][s] + One(e, s)
  BY <1>1, ClientsValue DEF Before, After
<1>5. PICK D : D = [C EXCEPT ![t] = C2[t]]
  OBVIOUS
<1>6. /\ D \in ClientsType /\ D[t] = C2[t]
      /\ \A v \in Threads \ {t} : D[v] = C[v]
      /\ \A v \in Threads \ {u} : C2[v] = D[v]
  BY <1>2, <1>3, <1>5 DEF ClientsType
<1>7. ASSUME NEW s \in Slots PROVE InClients(C2, s) = InClients(C, s)
  <2>1. InClients(D, s) = InClients(C, s) - C[t][s] + D[t][s]
    BY <1>2, <1>6, InClientsChange
  <2>2. InClients(C2, s) = InClients(D, s) - D[u][s] + C2[u][s]
    BY <1>2, <1>6, InClientsChange
  <2>3. InClients(C, s) \in Nat /\ C[t][s] \in Nat /\ C[u][s] \in Nat /\ One(e, s) \in Nat
    BY <1>2, InClientsBound DEF ClientsType, One
  <2>4. D[t][s] = C[t][s] - One(e, s) /\ D[u][s] = C[u][s]
    BY <1>4, <1>6
  <2>5. PICK i, d, j, a, b, o : /\ i = InClients(C, s) /\ d = InClients(D, s) /\ j = InClients(C2, s)
                                /\ a = C[t][s] /\ b = C[u][s] /\ o = One(e, s)
    OBVIOUS
  <2>6. d = i - a + (a - o) /\ j = d - b + (b + o)
    BY <1>4, <2>1, <2>2, <2>4, <2>5
  <2>7. i \in Nat /\ a \in Nat /\ b \in Nat /\ o \in Nat
    BY <2>3, <2>5
  <2>8. j = i
    BY <2>6, <2>7
  <2> QED BY <2>5, <2>8
<1>8. Exact(rc, level, kids, table, C)
  BY <1>1 DEF NodeInv
<1>9. Exact(rc, level, kids, table, C2)
  BY <1>2, <1>7, <1>8, ExactMove
<1> QED BY <1>1, <1>2, <1>9 DEF SameSupport

\* then the slab.
LEMMA CloneSlabInv ==
  ASSUME IInv, NEW t \in Threads, NEW u \in Threads, CloneSlab(t, u)
  PROVE  IInv'
<1>1. HandsOK /\ slabRc \in Nat
  BY TypedHands
<1>2. AccessInv(t) /\ pc[t] = "clone"
  BY DEF IInv, ThreadInv, CloneSlab
<1>3. Handles(t) > 0 /\ Handles(t) \in Nat /\ HoldsOfSlab(t) > 0
  BY <1>1, <1>2, HandlesType DEF AccessInv
<1>4. slabRc > 0 /\ alive /\ NodeInv
  BY <1>3, SlabAlive
<1>5. PICK e \in Edges : e = edge[t]
  BY <1>1 DEF HandsOK
<1>6. /\ functions' \in [Threads -> [Edges -> Nat]]
      /\ Handles(u)' = Handles(u) + 1
      /\ \A v \in Threads \ {u} : Handles(v)' = Handles(v) /\ functions'[v] = functions[v]
      /\ functions'[u][e] = functions[u][e] + 1
      /\ \A s \in Edges \ {e} : functions'[u][s] = functions[u][s]
  <2>1. functions' = Add(functions, u, e, 1) /\ UNCHANGED refs
    BY <1>5 DEF CloneSlab
  <2>2. functions[u][e] + 1 \in Nat
    BY <1>1 DEF HandsOK
  <2> QED BY <1>1, <2>1, <2>2, HandlesAdd
<1>7. HandsOK'
  BY <1>1, <1>6, SlotFacts DEF HandsOK, CloneSlab, Goto, InHand
<1>8. /\ \A v \in Threads \ {t} : UNCHANGED <<pc[v], edge[v]>>
      /\ \A v \in Threads : UNCHANGED <<access[v], want[v]>>
      /\ pc'[t] = "idle" /\ edge'[t] = False
  BY <1>1 DEF CloneSlab, Goto, InHand, HandsOK
<1>9. SlabTyped
  <2>1. \A v \in Threads : pc'[v] = "drop" <=> pc[v] = "drop"
    BY <1>2, <1>8
  <2>2. \A v \in Threads \ {u} : HoldsOfSlab(v)' = HoldsOfSlab(v)
    BY <1>6, <2>1 DEF HoldsOfSlab
  <2>3. HoldsOfSlab(u)' = HoldsOfSlab(u) + 1
    <3>1. Handles(u) \in Nat
      BY <1>1, HandlesType
    <3> QED BY <1>6, <2>1, <3>1 DEF HoldsOfSlab
  <2> QED BY <1>4, <1>7, <2>2, <2>3, SlabRetained DEF CloneSlab
<1>10. \A v \in Threads : Handles(v)' >= Handles(v)
  BY <1>1, <1>6, HandlesType
<1>11. ASSUME NEW v \in Threads PROVE AccessInv(v)'
  <2>1. CASE v = t
    <3>1. Handles(t)' > 0 
      BY <1>3, <1>6, <1>10
    <3> QED BY <1>2, <1>8, <2>1, <3>1 DEF AccessInv
  <2>2. CASE v # t
    BY <1>7, <1>8, <1>10, <2>2, AccessKept
  <2> QED BY <2>1, <2>2
<1>12. Exact(rc', level, kids, table, Clients') /\ SameSupport(rc, rc', {})
  <2>1. UNCHANGED rc
    BY DEF CloneSlab
  <2>2. \A s \in Slots : s \in Edges /\ functions[t][s] \in Nat /\ functions[u][s] \in Nat
    BY <1>4, EdgeToNode, SlotFacts
  <2>3. CASE u = t
    <3>1. \A v \in Threads \ {t} : Stays(v)
      BY <1>6, <1>8, <2>3 DEF Stays
    <3>2. ASSUME NEW s \in Slots PROVE After(t, s) = Before(t, s)
      <4>1. functions'[t][s] = functions[t][s] + One(e, s)
        BY <1>6, <2>2, <2>3 DEF One
      <4> QED BY <1>2, <1>5, <1>8, <2>2, <4>1 DEF After, Before, Own, One
    <3> QED BY <1>4, <1>7, <2>1, <3>1, <3>2, EdgesKept
  <2>4. CASE u # t
    <3>1. \A v \in Threads \ {t, u} : Stays(v)
      BY <1>6, <1>8 DEF Stays
    <3>2. ASSUME NEW s \in Slots PROVE After(t, s) = Before(t, s) - One(e, s)
      <4>1. functions'[t][s] = functions[t][s]
        BY <1>6, <2>4
      <4> QED BY <1>2, <1>5, <1>8, <2>2, <4>1 DEF After, Before, Own, One
    <3>3. ASSUME NEW s \in Slots PROVE After(u, s) = Before(u, s) + One(e, s)
      <4>1. functions'[u][s] = functions[u][s] + One(e, s)
        BY <1>6, <2>2 DEF One
      <4>2. PICK o : o = Own(pc[u], want[u], edge[u], s)
        OBVIOUS
      <4>3. Own(pc'[u], want'[u], edge'[u], s) = o
        BY <1>8, <2>4, <4>2
      <4>4. o \in Nat
        BY <1>1, <4>2, OwnType DEF HandsOK
      <4> QED BY <2>2, <4>1, <4>2, <4>3, <4>4 DEF After, Before, One
    <3> QED BY <1>4, <1>7, <2>1, <2>4, <3>1, <3>2, <3>3, EdgeSent
  <2> QED BY <2>3, <2>4
<1>13. ClientStep(t)
  BY <1>2, <1>8, TypeParts DEF ClientStep, SameLocks, CloneSlab, nodeVars
<1> QED BY <1>4, <1>7, <1>9, <1>11, <1>12, <1>13, ClientInv

\* Function::drop releases the node,
LEMMA DropNodeInv ==
  ASSUME IInv, NEW t \in Threads, NEW e \in Edges, DropNode(t, e)
  PROVE  IInv'
<1>1. HandsOK /\ slabRc \in Nat
  BY TypedHands
<1>2. functions[t][e] > 0 /\ functions[t][e] \in Nat /\ HoldsOfSlab(t) > 0
  BY <1>1, HandlesType DEF DropNode
<1>3. slabRc > 0 /\ alive /\ NodeInv
  BY <1>2, SlabAlive
<1>4. /\ functions' \in [Threads -> [Edges -> Nat]]
      /\ Handles(t)' = Handles(t) - 1
      /\ \A v \in Threads \ {t} : Handles(v)' = Handles(v) /\ functions'[v] = functions[v]
      /\ functions'[t][e] = functions[t][e] - 1
      /\ \A s \in Edges \ {e} : functions'[t][s] = functions[t][s]
  <2>1. PICK n \in Int : n = -1
    OBVIOUS
  <2>2. functions' = Add(functions, t, e, n) /\ UNCHANGED refs
    BY <2>1 DEF DropNode
  <2>3. functions[t][e] + n \in Nat
    BY <1>2, <2>1
  <2>4. /\ functions' \in [Threads -> [Edges -> Nat]]
        /\ Handles(t)' = Handles(t) + n
        /\ \A v \in Threads \ {t} : Handles(v)' = Handles(v) /\ functions'[v] = functions[v]
        /\ functions'[t][e] = functions[t][e] + n
        /\ \A s \in Edges \ {e} : functions'[t][s] = functions[t][s]
    BY <1>1, <2>2, <2>3, HandlesAdd
  <2>5. Handles(t) \in Nat
    BY <1>1, HandlesType
  <2> QED BY <1>2, <2>1, <2>4, <2>5
<1>5. HandsOK'
  BY <1>1, <1>4 DEF HandsOK, DropNode, Goto
<1>6. /\ \A v \in Threads \ {t} : pc'[v] = pc[v]
      /\ \A v \in Threads : UNCHANGED <<access[v], want[v], edge[v]>>
      /\ pc[t] = "idle" /\ pc'[t] = "drop" /\ access[t] = "none"
  BY <1>1 DEF DropNode, Goto, HandsOK
<1>7. SlabTyped
  <2>1. \A v \in Threads \ {t} : HoldsOfSlab(v)' = HoldsOfSlab(v)
    BY <1>4, <1>6 DEF HoldsOfSlab
  <2>2. HoldsOfSlab(t)' = HoldsOfSlab(t)
    <3>1. Handles(t) \in Nat
      BY <1>1, HandlesType
    <3> QED BY <1>4, <1>6, <3>1 DEF HoldsOfSlab
  <2>3. SlabInv'
    BY <2>1, <2>2, SlabKept DEF DropNode
  <2> QED BY <2>3 DEF DropNode, SlabTyped, IInv, TypeOK
<1>8. ASSUME NEW v \in Threads PROVE AccessInv(v)'
  <2>1. CASE v = t
    <3>1. AccessInv(t)
      BY DEF IInv, ThreadInv
    <3> QED BY <1>6, <2>1, <3>1 DEF AccessInv
  <2>2. CASE v # t
    <3>1. Handles(v)' >= Handles(v)
      BY <1>1, <1>4, <2>2, HandlesType
    <3> QED BY <1>5, <1>6, <2>2, <3>1, AccessKept
  <2> QED BY <2>1, <2>2
<1>9. Exact(rc', level, kids, table, Clients') /\ SameSupport(rc, rc', {})
  <2>1. \A v \in Threads \ {t} : Stays(v)
    BY <1>4, <1>6 DEF Stays
  <2>2. ASSUME NEW s \in Slots PROVE After(t, s) = Before(t, s) - One(e, s)
    <3>1. functions[t][s] \in Nat /\ s \in Edges
      BY <1>3, EdgeToNode, SlotFacts
    <3>2. functions'[t][s] = functions[t][s] - One(e, s)
      BY <1>4, <3>1 DEF One
    <3> QED BY <1>6, <3>1, <3>2 DEF After, Before, Own, One
  <2>3. rc' = Released(rc, e)
    BY DEF DropNode
  <2> QED BY <1>3, <1>5, <2>1, <2>2, <2>3, EdgeReleased
<1>10. ClientStep(t)
  BY <1>6, TypeParts DEF ClientStep, SameLocks, DropNode, nodeVars
<1> QED BY <1>3, <1>5, <1>7, <1>8, <1>9, <1>10, ClientInv

\* then the slab.
LEMMA DropSlabInv ==
  ASSUME IInv, NEW t \in Threads, DropSlab(t)
  PROVE  IInv'
<1>1. HandsOK /\ slabRc \in Nat
  BY TypedHands
<1>2. HoldsOfSlab(t) > 0
  BY <1>1, HandlesType DEF DropSlab
<1>3. slabRc > 0 /\ alive /\ NodeInv
  BY <1>2, SlabAlive
<1>4. HandsOK'
  BY <1>1 DEF HandsOK, DropSlab, handleVars, Goto
<1>5. /\ \A v \in Threads \ {t} : pc'[v] = pc[v]
      /\ \A v \in Threads : UNCHANGED <<access[v], edge[v], functions[v], want[v]>>
      /\ pc[t] = "drop" /\ pc'[t] = "idle"
  BY <1>1 DEF DropSlab, handleVars, Goto, HandsOK
<1>6. ASSUME NEW v \in Threads PROVE Handles(v)' = Handles(v) /\ Handles(v) \in Nat
  BY <1>1, HandlesType DEF DropSlab, handleVars, Handles, HeldBy
<1>7. SlabTyped
  <2>1. \A v \in Threads \ {t} : HoldsOfSlab(v)' = HoldsOfSlab(v)
    BY <1>5, <1>6 DEF HoldsOfSlab
  <2>2. HoldsOfSlab(t)' = HoldsOfSlab(t) - 1
    BY <1>5, <1>6 DEF HoldsOfSlab
  <2> QED BY <1>3, <1>4, <2>1, <2>2, SlabReleased DEF DropSlab
<1>8. ASSUME NEW v \in Threads PROVE AccessInv(v)'
  <2>1. CASE v = t
    <3>1. AccessInv(t)
      BY DEF IInv, ThreadInv
    <3> QED BY <1>5, <2>1, <3>1 DEF AccessInv
  <2>2. CASE v # t
    <3>1. Handles(v)' >= Handles(v)
      BY <1>6
    <3> QED BY <1>4, <1>5, <2>2, <3>1, AccessKept
  <2> QED BY <2>1, <2>2
<1>9. Exact(rc', level, kids, table, Clients') /\ SameSupport(rc, rc', {})
  <2>1. \A v \in Threads \ {t} : Stays(v)
    BY <1>5 DEF Stays
  <2>2. \A s \in Slots : After(t, s) = Before(t, s)
    BY <1>5 DEF After, Before, Own
  <2>3. UNCHANGED rc
    BY DEF DropSlab
  <2> QED BY <1>3, <1>4, <2>1, <2>2, <2>3, EdgesKept
<1>10. ClientStep(t)
  BY <1>5, TypeParts DEF ClientStep, SameLocks, DropSlab, nodeVars
<1> QED BY <1>3, <1>4, <1>7, <1>8, <1>9, <1>10, ClientInv

\* A thread in the manager holds something of the slab, which is alive.
LEMMA InManager ==
  ASSUME IInv, NEW t \in Threads,
         access[t] # "none" \/ pc[t] \in {"made", "owned", "alloc", "write", "gc"}
  PROVE  /\ AccessInv(t) /\ LockInv(t) /\ access[t] # "none"
         /\ Handles(t) > 0 /\ Handles(t) \in Nat
         /\ slabRc > 0 /\ alive /\ SlotInv /\ NodeInv /\ ItemInv
<1>1. AccessInv(t) /\ LockInv(t)
  BY DEF IInv, ThreadInv
<1>2. access[t] # "none" /\ Handles(t) > 0
  BY <1>1 DEF AccessInv
<1>3. Handles(t) \in Nat /\ HoldsOfSlab(t) > 0
  BY <1>2, TypedHands, HandlesType
<1> QED BY <1>1, <1>2, <1>3, SlabAlive

\* Function::from_edge.
LEMMA FromEdgeInv ==
  ASSUME IInv, NEW t \in Threads, FromEdge(t)
  PROVE  IInv'
<1>1. HandsOK /\ slabRc \in Nat
  BY TypedHands
<1>2. AccessInv(t) /\ Handles(t) > 0 /\ Handles(t) \in Nat /\ slabRc > 0 /\ alive /\ NodeInv
  BY InManager DEF FromEdge
<1>3. PICK e \in Edges : e = edge[t]
  BY <1>1 DEF HandsOK
<1>4. /\ functions' \in [Threads -> [Edges -> Nat]]
      /\ Handles(t)' = Handles(t) + 1
      /\ \A v \in Threads \ {t} : Handles(v)' = Handles(v) /\ functions'[v] = functions[v]
      /\ functions'[t][e] = functions[t][e] + 1
      /\ \A s \in Edges \ {e} : functions'[t][s] = functions[t][s]
  <2>1. functions' = Add(functions, t, e, 1) /\ UNCHANGED refs
    BY <1>3 DEF FromEdge
  <2>2. functions[t][e] + 1 \in Nat
    BY <1>1 DEF HandsOK
  <2> QED BY <1>1, <2>1, <2>2, HandlesAdd
<1>5. HandsOK'
  BY <1>1, <1>4, SlotFacts DEF HandsOK, FromEdge, Goto, InHand
<1>6. /\ \A v \in Threads \ {t} : UNCHANGED <<pc[v], edge[v]>>
      /\ \A v \in Threads : UNCHANGED <<access[v], want[v]>>
      /\ pc[t] = "made" /\ pc'[t] = "idle" /\ edge'[t] = False
  BY <1>1 DEF FromEdge, Goto, InHand, HandsOK
<1>7. SlabTyped
  <2>1. \A v \in Threads \ {t} : HoldsOfSlab(v)' = HoldsOfSlab(v)
    BY <1>4, <1>6 DEF HoldsOfSlab
  <2>2. HoldsOfSlab(t)' = HoldsOfSlab(t) + 1
    BY <1>2, <1>4, <1>6 DEF HoldsOfSlab
  <2> QED BY <1>2, <1>5, <2>1, <2>2, SlabRetained DEF FromEdge
<1>8. ASSUME NEW v \in Threads PROVE AccessInv(v)'
  <2>1. CASE v = t
    <3>1. Handles(t)' > 0
      BY <1>2, <1>4
    <3> QED BY <1>2, <1>6, <2>1, <3>1 DEF AccessInv
  <2>2. CASE v # t
    <3>1. Handles(v)' >= Handles(v)
      BY <1>1, <1>4, <2>2, HandlesType
    <3> QED BY <1>5, <1>6, <2>2, <3>1, AccessKept
  <2> QED BY <2>1, <2>2
<1>9. Exact(rc', level, kids, table, Clients') /\ SameSupport(rc, rc', {})
  <2>1. \A v \in Threads \ {t} : Stays(v)
    BY <1>4, <1>6 DEF Stays
  <2>2. ASSUME NEW s \in Slots PROVE After(t, s) = Before(t, s)
    <3>1. functions[t][s] \in Nat /\ s \in Edges
      BY <1>2, EdgeToNode, SlotFacts
    <3>2. functions'[t][s] = functions[t][s] + One(e, s)
      BY <1>4, <3>1 DEF One
    <3> QED BY <1>3, <1>6, <3>1, <3>2 DEF After, Before, Own, One
  <2>3. UNCHANGED rc
    BY DEF FromEdge
  <2> QED BY <1>2, <1>5, <2>1, <2>2, <2>3, EdgesKept
<1>10. ClientStep(t)
  BY <1>6, TypeParts DEF ClientStep, SameLocks, FromEdge, nodeVars
<1> QED BY <1>2, <1>5, <1>7, <1>8, <1>9, <1>10, ClientInv

\* Function::into_edge.
LEMMA IntoEdgeInv ==
  ASSUME IInv, NEW t \in Threads, NEW e \in Edges, IntoEdge(t, e)
  PROVE  IInv'
<1>1. HandsOK /\ slabRc \in Nat
  BY TypedHands
<1>2. AccessInv(t) /\ Handles(t) \in Nat /\ slabRc > 0 /\ alive /\ NodeInv
  BY InManager DEF IntoEdge
<1>3. functions[t][e] > 0 /\ functions[t][e] \in Nat /\ Handles(t) > 1
  BY <1>1, HandlesType DEF IntoEdge
<1>4. /\ functions' \in [Threads -> [Edges -> Nat]]
      /\ Handles(t)' = Handles(t) - 1
      /\ \A v \in Threads \ {t} : Handles(v)' = Handles(v) /\ functions'[v] = functions[v]
      /\ functions'[t][e] = functions[t][e] - 1
      /\ \A s \in Edges \ {e} : functions'[t][s] = functions[t][s]
  <2>1. PICK n \in Int : n = -1
    OBVIOUS
  <2>2. functions' = Add(functions, t, e, n) /\ UNCHANGED refs
    BY <2>1 DEF IntoEdge
  <2>3. functions[t][e] + n \in Nat
    BY <1>3, <2>1
  <2>4. /\ functions' \in [Threads -> [Edges -> Nat]]
        /\ Handles(t)' = Handles(t) + n
        /\ \A v \in Threads \ {t} : Handles(v)' = Handles(v) /\ functions'[v] = functions[v]
        /\ functions'[t][e] = functions[t][e] + n
        /\ \A s \in Edges \ {e} : functions'[t][s] = functions[t][s]
    BY <1>1, <2>2, <2>3, HandlesAdd
  <2> QED BY <1>2, <1>3, <2>1, <2>4
<1>5. HandsOK'
  BY <1>1, <1>4 DEF HandsOK, IntoEdge, Goto, InHand
<1>6. /\ \A v \in Threads \ {t} : UNCHANGED <<pc[v], edge[v]>>
      /\ \A v \in Threads : UNCHANGED <<access[v], want[v]>>
      /\ pc[t] = "idle" /\ pc'[t] = "owned" /\ access[t] # "none" /\ edge'[t] = e
  BY <1>1 DEF IntoEdge, Goto, InHand, HandsOK
<1>7. SlabTyped
  <2>1. \A v \in Threads \ {t} : HoldsOfSlab(v)' = HoldsOfSlab(v)
    BY <1>4, <1>6 DEF HoldsOfSlab
  <2>2. HoldsOfSlab(t)' = HoldsOfSlab(t) - 1
    BY <1>2, <1>4, <1>6 DEF HoldsOfSlab
  <2> QED BY <1>2, <1>5, <2>1, <2>2, SlabReleased DEF IntoEdge
<1>8. ASSUME NEW v \in Threads PROVE AccessInv(v)'
  <2>1. CASE v = t
    <3>1. Handles(t)' > 0
      BY <1>2, <1>3, <1>4
    <3> QED BY <1>2, <1>6, <2>1, <3>1 DEF AccessInv
  <2>2. CASE v # t
    <3>1. Handles(v)' >= Handles(v)
      BY <1>1, <1>4, <2>2, HandlesType
    <3> QED BY <1>5, <1>6, <2>2, <3>1, AccessKept
  <2> QED BY <2>1, <2>2
<1>9. Exact(rc', level, kids, table, Clients') /\ SameSupport(rc, rc', {})
  <2>1. \A v \in Threads \ {t} : Stays(v)
    BY <1>4, <1>6 DEF Stays
  <2>2. ASSUME NEW s \in Slots PROVE After(t, s) = Before(t, s)
    <3>1. functions[t][s] \in Nat /\ s \in Edges
      BY <1>2, EdgeToNode, SlotFacts
    <3>2. functions'[t][s] = functions[t][s] - One(e, s)
      BY <1>4, <3>1 DEF One
    <3> QED BY <1>6, <3>1, <3>2 DEF After, Before, Own, One
  <2>3. UNCHANGED rc
    BY DEF IntoEdge
  <2> QED BY <1>2, <1>5, <2>1, <2>2, <2>3, EdgesKept
<1>10. ClientStep(t)
  BY <1>6, TypeParts DEF ClientStep, SameLocks, IntoEdge, nodeVars
<1> QED BY <1>2, <1>5, <1>7, <1>8, <1>9, <1>10, ClientInv

\* Nothing happens to the handles of threads, nor to threads other than t.
EdgeStep(t) ==
  /\ UNCHANGED <<slabRc, alive, handleVars>>
  /\ edge' \in [Threads -> Edges] /\ want' \in [Threads -> Edges \X Edges]
  /\ pc' \in [Threads -> {"idle", "clone", "drop", "made", "owned", "alloc", "write", "gc"}]
  /\ \A u \in Threads \ {t} : UNCHANGED <<pc[u], edge[u], want[u], access[u]>>

\* Such a step keeps what every thread holds of the slab.
LEMMA EdgeStepHandles ==
  ASSUME IInv, NEW t \in Threads, EdgeStep(t), pc[t] # "drop", pc'[t] # "drop"
  PROVE  /\ HandsOK' /\ SlabInv'
         /\ UNCHANGED <<free, pages>> => SlabTyped
         /\ \A u \in Threads : Handles(u)' = Handles(u) /\ functions'[u] = functions[u]
         /\ \A u \in Threads \ {t} : AccessInv(u)'
         /\ \A u \in Threads \ {t} : Stays(u)
<1>1. HandsOK
  BY TypedHands
<1>2. HandsOK'
  BY <1>1 DEF HandsOK, EdgeStep, handleVars
<1>3. ASSUME NEW u \in Threads PROVE Handles(u)' = Handles(u) /\ functions'[u] = functions[u]
  BY DEF EdgeStep, handleVars, Handles, HeldBy
<1>4. ASSUME NEW u \in Threads PROVE HoldsOfSlab(u)' = HoldsOfSlab(u)
  <2>1. pc'[u] = "drop" <=> pc[u] = "drop"
    BY DEF EdgeStep
  <2> QED BY <1>3, <2>1 DEF HoldsOfSlab
<1>5. SlabInv'
  BY <1>4, SlabKept DEF EdgeStep
<1>6. UNCHANGED <<free, pages>> => SlabTyped
  BY <1>5 DEF SlabTyped, EdgeStep, IInv, TypeOK
<1>7. ASSUME NEW u \in Threads \ {t} PROVE AccessInv(u)'
  <2>1. Handles(u)' >= Handles(u)
    BY <1>1, <1>3, HandlesType
  <2>2. UNCHANGED <<access[u], pc[u], edge[u]>>
    BY DEF EdgeStep
  <2> QED BY <1>2, <2>1, <2>2, AccessKept
<1>8. \A u \in Threads \ {t} : Stays(u)
  BY <1>3 DEF Stays, EdgeStep
<1> QED BY <1>2, <1>3, <1>5, <1>6, <1>7, <1>8

\* drop_edge.
LEMMA DropEdgeInv ==
  ASSUME IInv, NEW t \in Threads, DropEdge(t)
  PROVE  IInv'
<1>1. HandsOK
  BY TypedHands
<1>2. AccessInv(t) /\ alive /\ NodeInv
  BY InManager DEF DropEdge
<1>3. PICK e \in Edges : e = edge[t]
  BY <1>1 DEF HandsOK
<1>4. /\ EdgeStep(t) /\ pc[t] = "owned" /\ pc'[t] = "idle" /\ edge'[t] = False
      /\ UNCHANGED <<functions[t], access[t]>>
  BY <1>1, SlotFacts DEF HandsOK, EdgeStep, DropEdge, nodeVars, handleVars, Goto, InHand
<1>5. /\ HandsOK' /\ SlabTyped
      /\ \A u \in Threads : Handles(u)' = Handles(u) /\ functions'[u] = functions[u]
      /\ \A u \in Threads \ {t} : AccessInv(u)'
      /\ \A u \in Threads \ {t} : Stays(u)
  BY <1>4, EdgeStepHandles DEF DropEdge
<1>6. AccessInv(t)'
  BY <1>2, <1>4, <1>5 DEF AccessInv
<1>7. Exact(rc', level, kids, table, Clients') /\ SameSupport(rc, rc', {})
  <2>1. ASSUME NEW s \in Slots PROVE After(t, s) = Before(t, s) - One(e, s)
    <3>1. functions[t][s] \in Nat
      BY <1>2, EdgeToNode
    <3> QED BY <1>3, <1>4, <3>1 DEF After, Before, Own, One
  <2>2. rc' = Released(rc, e)
    BY <1>3 DEF DropEdge
  <2> QED BY <1>2, <1>5, <2>1, <2>2, EdgeReleased
<1>8. ClientStep(t)
  BY <1>4, TypeParts DEF ClientStep, SameLocks, EdgeStep, DropEdge, nodeVars
<1> QED BY <1>2, <1>5, <1>6, <1>7, <1>8, ClientInv

\* get_terminal.
LEMMA GetTerminalInv ==
  ASSUME IInv, NEW t \in Threads, GetTerminal(t, True)
  PROVE  IInv'
<1>1. HandsOK
  BY TypedHands
<1>2. AccessInv(t) /\ access[t] # "none" /\ alive /\ NodeInv
  BY InManager DEF GetTerminal
<1>3. /\ EdgeStep(t) /\ pc[t] = "idle" /\ pc'[t] = "made" /\ edge'[t] = True
      /\ UNCHANGED <<functions[t], access[t]>>
  BY <1>1, SlotFacts DEF HandsOK, EdgeStep, GetTerminal, nodeVars, handleVars, slabVars, Goto, InHand
<1>4. /\ HandsOK' /\ SlabTyped
      /\ \A u \in Threads : Handles(u)' = Handles(u) /\ functions'[u] = functions[u]
      /\ \A u \in Threads \ {t} : AccessInv(u)'
      /\ \A u \in Threads \ {t} : Stays(u)
  BY <1>3, EdgeStepHandles DEF GetTerminal, slabVars
<1>5. AccessInv(t)'
  BY <1>2, <1>3, <1>4 DEF AccessInv
<1>6. Exact(rc', level, kids, table, Clients') /\ SameSupport(rc, rc', {})
  <2>1. ASSUME NEW s \in Slots PROVE After(t, s) = Before(t, s)
    <3>1. functions[t][s] \in Nat /\ True # s
      BY <1>2, EdgeToNode, SlotFacts
    <3> QED BY <1>3, <3>1 DEF After, Before, Own, One
  <2>2. UNCHANGED rc
    BY DEF GetTerminal, slabVars
  <2> QED BY <1>2, <1>4, <2>1, <2>2, EdgesKept
<1>7. ClientStep(t)
  BY <1>3, TypeParts DEF ClientStep, SameLocks, EdgeStep, GetTerminal, nodeVars, slabVars
<1> QED BY <1>2, <1>4, <1>5, <1>6, <1>7, ClientInv

-----------------------------------------------------------------------------
(* Access to the manager.                                                  *)

\* Thread t enters or leaves.
LEMMA AccessStep ==
  ASSUME IInv, NEW t \in Threads, pc[t] = "idle", Handles(t) > 0,
         NEW a \in {"none", "shared", "exclusive"}, access' = [access EXCEPT ![t] = a],
         UNCHANGED <<slabVars, nodeVars, tableLock, gcOwner, handleVars, pc, edge, want, gcLevel, todo>>
  PROVE  IInv'
<1>1. HandsOK /\ access \in [Threads -> {"none", "shared", "exclusive"}]
  BY TypedHands, TypeParts
<1>2. Handles(t) \in Nat /\ HoldsOfSlab(t) > 0
  BY <1>1, HandlesType
<1>3. alive /\ NodeInv
  BY <1>2, SlabAlive
<1>4. EdgeStep(t) /\ pc'[t] = "idle" /\ UNCHANGED <<free, pages, edge>>
  BY <1>1 DEF HandsOK, EdgeStep, nodeVars, handleVars, slabVars
<1>5. /\ HandsOK' /\ SlabTyped
      /\ \A u \in Threads : Handles(u)' = Handles(u) /\ functions'[u] = functions[u]
      /\ \A u \in Threads \ {t} : AccessInv(u)'
      /\ \A u \in Threads \ {t} : Stays(u)
  BY <1>4, EdgeStepHandles
<1>6. AccessInv(t)'
  <2>1. AccessInv(t)
    BY DEF IInv, ThreadInv
  <2>2. Handles(t)' > 0
    BY <1>5
  <2> QED BY <1>4, <2>1, <2>2 DEF AccessInv
<1>7. Exact(rc', level, kids, table, Clients') /\ SameSupport(rc, rc', {})
  <2>1. \A s \in Slots : After(t, s) = Before(t, s)
    BY <1>5 DEF After, Before
  <2>2. UNCHANGED rc
    BY DEF slabVars
  <2> QED BY <1>3, <1>5, <2>1, <2>2, EdgesKept
<1>8. ClientStep(t)
  BY <1>1 DEF ClientStep, SameLocks, nodeVars, slabVars
<1> QED BY <1>3, <1>5, <1>6, <1>7, <1>8, ClientInv

\* The guard of the manager is taken or given back.
LEMMA EnterInv ==
  ASSUME IInv, NEW t \in Threads, EnterShared(t) \/ EnterExclusive(t) \/ Leave(t)
  PROVE  IInv'
<1>1. CASE EnterShared(t)
  BY <1>1, AccessStep DEF EnterShared
<1>2. CASE EnterExclusive(t)
  BY <1>2, AccessStep DEF EnterExclusive
<1>3. CASE Leave(t)
  BY <1>3, InManager, AccessStep DEF Leave
<1> QED BY <1>1, <1>2, <1>3

-----------------------------------------------------------------------------
(* Making nodes.                                                           *)

\* Thread t gets the edges a and b.
LEMMA EdgesRetained ==
  ASSUME IInv, NodeInv, HandsOK', NEW t \in Threads, NEW a \in Edges, NEW b \in Edges,
         a \in Slots => rc[a] > 0, b \in Slots => rc[b] > 0,
         rc' = Retained(Retained(rc, a), b), \A u \in Threads \ {t} : Stays(u),
         \A s \in Slots : After(t, s) = Before(t, s) + One(a, s) + One(b, s)
  PROVE  Exact(rc', level, kids, table, Clients') /\ SameSupport(rc, rc', {})
<1>1. PICK C, C2, R1, R2 : C = Clients /\ C2 = Clients' /\ R1 = Retained(rc, a) /\ R2 = Retained(R1, b)
  OBVIOUS
<1>2. C2 \in ClientsType /\ C \in ClientsType /\ rc \in [Slots -> Nat] /\ kids \in KidsType
  BY <1>1, ExactTypes, ClientsTyped
<1>3. \A u \in Threads \ {t} : C2[u] = C[u]
  BY <1>1, ClientsStay
<1>4. PICK D : D = [C EXCEPT ![t] = [s \in Slots |-> C[t][s] + One(a, s)]]
  OBVIOUS
<1>5. /\ \A u \in Threads \ {t} : D[u] = C[u] /\ C2[u] = D[u]
      /\ \A s \in Slots : D[t][s] = C[t][s] + One(a, s)
      /\ D \in ClientsType
  BY <1>2, <1>3, <1>4 DEF ClientsType, One
<1>6. ASSUME NEW s \in Slots
      PROVE  D[t][s] = C[t][s] + 1 * One(a, s) /\ C2[t][s] = D[t][s] + 1 * One(b, s)
  <2>1. C2[t][s] = C[t][s] + One(a, s) + One(b, s)
    BY <1>1, ClientsValue DEF Before, After
  <2>2. 1 * One(a, s) = One(a, s) /\ 1 * One(b, s) = One(b, s)
    BY DEF One
  <2> QED BY <1>5, <2>1, <2>2
<1>7. More(C, D, t, a, 1) /\ More(D, C2, t, b, 1)
  BY <1>2, <1>5, <1>6 DEF More
<1>8. Exact(rc, level, kids, table, C)
  BY <1>1 DEF NodeInv
<1>9. Exact(R1, level, kids, table, D) /\ SameSupport(rc, R1, {})
  BY <1>1, <1>2, <1>7, <1>8, ExactRetain
<1>10. R1 \in [Slots -> Nat] /\ (b \in Slots => R1[b] > 0)
  BY <1>9 DEF SameSupport
<1>11. Exact(R2, level, kids, table, C2) /\ SameSupport(R1, R2, {})
  BY <1>1, <1>2, <1>5, <1>7, <1>9, <1>10, ExactRetain
<1>12. SameSupport(rc, R2, {})
  BY <1>9, <1>11 DEF SameSupport
<1> QED BY <1>1, <1>11, <1>12

\* The mutexes that thread u holds stay with it while thread t takes or gives back
\* one, or adds a level.
LEMMA OthersLocked ==
  ASSUME IInv, NEW t \in Threads, NEW u \in Threads \ {t}, pc'[u] = pc[u],
         DOMAIN table \subseteq DOMAIN table',
         \A m \in DOMAIN table' : tableLock'[m] = u <=> m \in DOMAIN table /\ tableLock[m] = u,
         pc[u] = "gc" => /\ UNCHANGED <<gcOwner, gcLevel, todo>>
                         /\ \A m \in DOMAIN table : table[m] \subseteq table'[m]
  PROVE  LockInv(u)'
<1>1. LockInv(u)
  BY DEF IInv, ThreadInv
<1>2. pc'[u] \in {"alloc", "write"} => \E l \in DOMAIN table' : tableLock'[l] = u
  BY <1>1 DEF LockInv
<1>3. \A l \in DOMAIN table' : tableLock'[l] = u =>
        pc'[u] \in {"alloc", "write"} \/ (pc'[u] = "gc" /\ l = gcLevel')
  BY <1>1 DEF LockInv
<1>4. \A l, m \in DOMAIN table' : tableLock'[l] = u /\ tableLock'[m] = u => l = m
  BY <1>1 DEF LockInv
<1>5. pc'[u] = "gc" => gcOwner' = u /\ gcLevel' \in DOMAIN table'
  BY <1>1 DEF LockInv
<1>6. pc'[u] = "gc" /\ tableLock'[gcLevel'] = u => todo' \subseteq table'[gcLevel']
  BY <1>1 DEF LockInv
<1> QED BY <1>2, <1>3, <1>4, <1>5, <1>6 DEF LockInv

\* Children that a thread can reach are nodes or terminals.
LEMMA ReachableNode ==
  ASSUME IInv, NodeInv, NEW t \in Threads, NEW e \in Reachable(t)
  PROVE  e \in Edges /\ (e \in Slots => rc[e] > 0)
<1>1. CASE e \in Edges /\ functions[t][e] > 0
  BY <1>1, EdgeToNode
<1>2. CASE e \in Terminals
  BY <1>2, SlotFacts DEF Terminals
<1>3. ASSUME NEW s \in Slots, functions[t][s] > 0, NEW i \in 1 .. 2, e = kids[s][i]
      PROVE  e \in Edges /\ (e \in Slots => rc[e] > 0)
  <2>1. kids[s] \in Edges \X Edges
    BY ExactTypes DEF KidsType
  <2>2. e \in Edges /\ (e = kids[s][1] \/ e = kids[s][2])
    BY <1>3, <2>1
  <2>3. Occurs(e, kids[s]) > 0
    BY <2>1, <2>2, OccursPair DEF One
  <2>4. ASSUME e \in Slots PROVE rc[e] > 0
    <3>1. Occurs(e, kids[s]) \in Nat /\ rc[e] > Occurs(e, kids[s])
      BY <2>3, <2>4, ExactTypes, ExactBounds DEF NodeInv
    <3>2. rc[e] \in Nat
      BY <2>4, ExactTypes
    <3> QED BY <3>1, <3>2
  <2> QED BY <2>2, <2>4
<1> QED BY <1>1, <1>2, <1>3 DEF Reachable

\* An entry of a unique table is a node.
LEMMA EntryIsNode ==
  ASSUME IInv, NodeInv, NEW l \in DOMAIN table, NEW s \in table[l]
  PROVE  s \in Slots /\ rc[s] > 0 /\ level[s] = l
<1>1. s \in Slots
  BY ExactTypes
<1>2. {m \in DOMAIN table : s \in table[m]} = (IF rc[s] > 0 THEN {level[s]} ELSE {})
  BY <1>1 DEF NodeInv, Exact
<1>3. l \in {m \in DOMAIN table : s \in table[m]}
  OBVIOUS
<1> QED BY <1>1, <1>2, <1>3

\* get_or_insert looks up the node in the table of its level.
LEMMA FindInv ==
  ASSUME IInv, NEW t \in Threads, NEW l \in DOMAIN table, NEW a \in Edges, NEW b \in Edges,
         a \in Slots => rc[a] > 0, b \in Slots => rc[b] > 0, Find(t, l, <<a, b>>)
  PROVE  IInv'
<1>1. HandsOK
  BY TypedHands
<1>2. AccessInv(t) /\ LockInv(t) /\ access[t] # "none" /\ alive /\ SlotInv /\ NodeInv /\ ItemInv
  BY InManager DEF Find
<1>3. pc[t] = "idle" /\ edge[t] = False
  BY <1>2 DEF Find, AccessInv
<1> DEFINE Hit == /\ \E s \in Equal(l, <<a, b>>) : rc' = Retained(rc, s) /\ InHand(t, s)
                  /\ Goto(t, "made")
                  /\ UNCHANGED <<tableLock, want>>
           Miss == /\ rc' = Retained(Retained(rc, a), b)
                   /\ tableLock' = [tableLock EXCEPT ![l] = t]
                   /\ want' = [want EXCEPT ![t] = <<a, b>>]
                   /\ Goto(t, "alloc")
                   /\ UNCHANGED edge
<1>4. CASE Hit
  <2>1. PICK s \in Equal(l, <<a, b>>) : rc' = Retained(rc, s) /\ InHand(t, s)
    BY <1>4 DEF Find
  <2>2. s \in Slots /\ rc[s] > 0 /\ s \in Edges
    BY <1>2, <2>1, EntryIsNode, SlotFacts DEF Equal
  <2>3. /\ EdgeStep(t) /\ pc'[t] = "made" /\ edge'[t] = s
        /\ UNCHANGED <<functions[t], access[t], free, pages>>
    BY <1>1, <1>4, <2>1, <2>2 DEF HandsOK, EdgeStep, Find, handleVars, Goto, InHand
  <2>4. /\ HandsOK' /\ SlabTyped
        /\ \A u \in Threads : Handles(u)' = Handles(u) /\ functions'[u] = functions[u]
        /\ \A u \in Threads \ {t} : AccessInv(u)'
        /\ \A u \in Threads \ {t} : Stays(u)
    BY <1>3, <2>3, EdgeStepHandles
  <2>5. AccessInv(t)'
    BY <1>2, <2>3, <2>4 DEF AccessInv
  <2>6. Exact(rc', level, kids, table, Clients') /\ SameSupport(rc, rc', {})
    <3>1. ASSUME NEW x \in Slots PROVE After(t, x) = Before(t, x) + One(s, x)
      <4>1. functions[t][x] \in Nat
        BY <1>2, EdgeToNode
      <4> QED BY <1>3, <2>3, <4>1 DEF After, Before, Own, One
    <3> QED BY <1>2, <2>1, <2>2, <2>4, <3>1, EdgeRetained
  <2>7. ClientStep(t)
    BY <1>3, <1>4, <2>3, TypeParts DEF ClientStep, SameLocks, EdgeStep, Find, nodeVars
  <2> QED BY <1>2, <2>4, <2>5, <2>6, <2>7, ClientInv
<1>5. CASE Miss
  <2>1. PICK k : k = <<a, b>>
    OBVIOUS
  <2>2. k \in Edges \X Edges /\ k[1] = a /\ k[2] = b
    BY <2>1
  <2>3. /\ EdgeStep(t) /\ pc'[t] = "alloc" /\ want'[t] = k
        /\ UNCHANGED <<functions[t], access, edge, free, pages, items, level, kids, table,
                       gcOwner, gcLevel, todo>>
        /\ rc' = Retained(Retained(rc, a), b)
        /\ tableLock' = [tableLock EXCEPT ![l] = t] /\ tableLock[l] = NoThread
    BY <1>1, <1>5, <2>1, <2>2 DEF HandsOK, EdgeStep, Find, nodeVars, handleVars, Goto
  <2>4. /\ HandsOK' /\ SlabTyped
        /\ \A u \in Threads : Handles(u)' = Handles(u) /\ functions'[u] = functions[u]
        /\ \A u \in Threads \ {t} : AccessInv(u)'
        /\ \A u \in Threads \ {t} : Stays(u)
    BY <1>3, <2>3, EdgeStepHandles
  <2>5. AccessInv(t)'
    BY <1>2, <1>3, <2>3, <2>4 DEF AccessInv
  <2>6. Exact(rc', level, kids, table, Clients') /\ SameSupport(rc, rc', {})
    <3>1. ASSUME NEW x \in Slots PROVE After(t, x) = Before(t, x) + One(a, x) + One(b, x)
      <4>1. functions[t][x] \in Nat
        BY <1>2, EdgeToNode
      <4>2. Own(pc[t], want[t], edge[t], x) = 0
        BY <1>3 DEF Own
      <4>3. Own(pc'[t], want'[t], edge'[t], x) = One(a, x) + One(b, x)
        BY <2>2, <2>3, OccursPair DEF Own
      <4>4. functions'[t][x] = functions[t][x]
        BY <2>3
      <4> QED BY <4>1, <4>2, <4>3, <4>4 DEF After, Before, One
    <3> QED BY <1>2, <2>3, <2>4, <3>1, EdgesRetained
  <2>7. tableLock \in [DOMAIN table -> Threads \cup {NoThread}] /\ NoThread \notin Threads
    BY ManagerAssumption DEF IInv, TypeOK
  <2>8. ASSUME NEW u \in Threads PROVE LockInv(u)'
    <3>1. \A m \in DOMAIN table : tableLock'[m] = IF m = l THEN t ELSE tableLock[m]
      BY <2>3, <2>7
    <3>2. CASE u = t
      <4>1. \A m \in DOMAIN table : tableLock[m] # t
        BY <1>2, <1>3 DEF LockInv
      <4>2. pc'[t] = "alloc" /\ DOMAIN table' = DOMAIN table
        BY <2>3
      <4> QED BY <3>1, <3>2, <4>1, <4>2 DEF LockInv
    <3>3. CASE u # t
      <4>1. \A m \in DOMAIN table' : tableLock'[m] = u <=> m \in DOMAIN table /\ tableLock[m] = u
        BY <2>3, <2>7, <3>1, <3>3
      <4> QED BY <2>3, <3>3, <4>1, OthersLocked DEF EdgeStep
    <3> QED BY <3>2, <3>3
  <2>9. TablesOK'
    BY <2>3, <2>7, TypeParts DEF TablesOK
  <2>10. TypeOK'
    <3>1. rc' \in [Slots -> Nat] /\ access \in [Threads -> {"none", "shared", "exclusive"}]
      BY <2>6, TypeParts DEF SameSupport
    <3> QED BY <2>3, <2>4, <2>9, <3>1, TypeParts DEF SlabTyped
  <2>11. SlotInv'
    <3>1. ASSUME NEW u \in Threads PROVE Hand(u)' = Hand(u) \/ Hand(u)' \notin Slots
      BY <1>3, <2>3 DEF Hand, EdgeStep
    <3> QED BY <1>2, <2>3, <2>6, <3>1, SlotsKept
  <2>12. NodeInv'
    BY <2>3, <2>6 DEF NodeInv
  <2>13. ItemInv'
    BY <1>2, <2>3, <2>6, ItemsKept
  <2>14. ThreadInv'
    BY <2>4, <2>5, <2>8 DEF ThreadInv
  <2> QED BY <2>4, <2>10, <2>11, <2>12, <2>13, <2>14 DEF IInv, SlabTyped
<1>6. Hit \/ Miss
  BY DEF Find
<1> QED BY <1>4, <1>5, <1>6

\* The slots in hand before a step.
Hands == [u \in Threads |-> Hand(u)]

\* PageList::get_slot hands out a slot that is nowhere else.
LEMMA GetSlot ==
  ASSUME IInv, SlotInv, get_slot
  PROVE  /\ Listing(free') /\ free' \in Seq(Slots) /\ pages' \in 0 .. MaxPages
         /\ Apart(rc, FreeSet(free'), Hands, pages' * PageSlots)
         /\ NextSlot \in Slots /\ rc[NextSlot] = 0
         /\ \A t \in Threads : Spare(FreeSet(free'), Hands, pages' * PageSlots, t, NextSlot)
         /\ UNCHANGED <<slabRc, alive>>
<1>1. PICK x, f2, p2, H : x = NextSlot /\ f2 = free' /\ p2 = pages' /\ H = Hands
  OBVIOUS
<1>2. pages \in Nat /\ pages <= MaxPages /\ MaxPages \in Nat /\ rc \in [Slots -> Nat]
  BY SlabAssumption DEF IInv, TypeOK
<1>3. Listing(free) /\ Apart(rc, FreeSet(free), H, pages * PageSlots)
  BY <1>1 DEF SlotInv, Hands
<1>4. Got(free, pages, x, f2, p2)
  BY <1>1 DEF get_slot, Got, NextSlot
<1>5. PICK f, p, R : f = free /\ p = pages /\ R = rc
  OBVIOUS
<1>6. /\ Listing(f2) /\ Apart(R, FreeSet(f2), H, p2 * PageSlots) /\ R[x] = 0
      /\ \A t \in Threads : Spare(FreeSet(f2), H, p2 * PageSlots, t, x)
  BY <1>2, <1>3, <1>4, <1>5, ApartGot
<1>7. p2 \in 0 .. MaxPages
  BY <1>2, <1>4 DEF Got
<1>8. x \in Slots
  <2>1. free \in Seq(Slots) /\ free # <<>>
    BY <1>3 DEF Listing
  <2> QED BY <1>1, <2>1 DEF NextSlot
<1>9. f2 \in Seq(Slots) /\ UNCHANGED <<slabRc, alive>>
  BY <1>6 DEF Listing, get_slot
<1> QED BY <1>1, <1>5, <1>6, <1>7, <1>8, <1>9

\* The slot x comes into t's hand, becomes a node, or stops being one.
LEMMA SlotMoved ==
  ASSUME NEW t \in Threads, NEW x, Listing(free'),
         Apart(rc, FreeSet(free'), Hands, pages' * PageSlots),
         Spare(FreeSet(free'), Hands, pages' * PageSlots, t, x),
         SameSupport(rc, rc', {x}), \A u \in Threads \ {t} : Hand(u)' = Hand(u),
         Hand(t)' \notin Slots \/ (Hand(t)' = x /\ rc'[x] = 0)
  PROVE  SlotInv'
<1>1. PICK F, H, b, R, R2, H2 :
        /\ F = FreeSet(free') /\ H = Hands /\ b = pages' * PageSlots
        /\ R = rc /\ R2 = rc' /\ H2 = [u \in Threads |-> Hand(u)']
  OBVIOUS
<1>2. F \in SUBSET Slots
  BY <1>1 DEF Listing, FreeSet
<1>3. Apart(R, F, H, b) /\ Spare(F, H, b, t, x) /\ SameSupport(R, R2, {x})
  BY <1>1
<1>4. \A u \in Threads \ {t} : H2[u] = H[u]
  BY <1>1 DEF Hands
<1>5. H2[t] \notin Slots \/ (H2[t] = x /\ R2[x] = 0)
  BY <1>1
<1>6. Apart(R2, F, H2, b)
  BY <1>2, <1>3, <1>4, <1>5, ApartHand
<1> QED BY <1>1, <1>6 DEF SlotInv

\* It takes a slot for a new node,
LEMMA AllocInv ==
  ASSUME IInv, NEW t \in Threads, Alloc(t)
  PROVE  IInv'
<1>1. HandsOK
  BY TypedHands
<1>2. AccessInv(t) /\ access[t] # "none" /\ alive /\ SlotInv /\ NodeInv /\ ItemInv
  BY InManager DEF Alloc
<1>3. PICK x : x = NextSlot
  OBVIOUS
<1>4. /\ Listing(free') /\ free' \in Seq(Slots) /\ pages' \in 0 .. MaxPages
      /\ Apart(rc, FreeSet(free'), Hands, pages' * PageSlots)
      /\ x \in Slots /\ rc[x] = 0
      /\ \A u \in Threads : Spare(FreeSet(free'), Hands, pages' * PageSlots, u, x)
      /\ UNCHANGED <<slabRc, alive>>
  BY <1>2, <1>3, GetSlot DEF Alloc
<1>5. x \in Edges
  BY <1>4, SlotFacts
<1>6. /\ EdgeStep(t) /\ pc[t] = "alloc" /\ pc'[t] = "write" /\ edge'[t] = x
      /\ UNCHANGED <<functions[t], want, access, items, rc, level, kids, table, tableLock,
                     gcOwner, gcLevel, todo>>
  BY <1>1, <1>3, <1>4, <1>5 DEF HandsOK, EdgeStep, Alloc, nodeVars, handleVars, Goto, InHand
<1>7. /\ HandsOK' /\ SlabInv'
      /\ \A u \in Threads : Handles(u)' = Handles(u) /\ functions'[u] = functions[u]
      /\ \A u \in Threads \ {t} : AccessInv(u)'
      /\ \A u \in Threads \ {t} : Stays(u)
  BY <1>6, EdgeStepHandles
<1>8. AccessInv(t)'
  BY <1>2, <1>4, <1>6, <1>7 DEF AccessInv
<1>9. SameLocks(t)
  BY <1>6 DEF SameLocks, EdgeStep
<1>10. ThreadInv'
  BY <1>7, <1>8, <1>9, LocksKept DEF ThreadInv
<1>11. TablesOK'
  BY <1>6, TypeParts DEF TablesOK
<1>12. TypeOK'
  <2>1. slabRc \in Nat /\ alive \in BOOLEAN /\ rc \in [Slots -> Nat]
    BY DEF IInv, TypeOK
  <2> QED BY <1>4, <1>6, <1>7, <1>11, <2>1, TypeParts
<1>13. NodeInv'
  <2>1. \A s \in Slots : After(t, s) = Before(t, s)
    BY <1>6 DEF After, Before, Own
  <2>2. Exact(rc', level, kids, table, Clients')
    BY <1>2, <1>6, <1>7, <2>1, EdgesKept
  <2> QED BY <1>6, <2>2 DEF NodeInv
<1>14. ItemInv'
  BY <1>2, <1>6 DEF ItemInv
<1>15. SlotInv'
  <2>1. \A u \in Threads \ {t} : Hand(u)' = Hand(u)
    BY <1>6 DEF Hand, EdgeStep
  <2>2. Hand(t)' = x /\ rc'[x] = 0
    BY <1>4, <1>6 DEF Hand
  <2>3. SameSupport(rc, rc', {x})
    BY <1>6 DEF SameSupport, IInv, TypeOK
  <2> QED BY <1>4, <2>1, <2>2, <2>3, SlotMoved
<1> QED BY <1>7, <1>10, <1>12, <1>13, <1>14, <1>15 DEF IInv

\* A slot x without a node and a level l, where the counts are exact.
Creatable(R, L, K, T, C, x, k, l, n) ==
  /\ R \in [Slots -> Nat] /\ L \in [Slots -> Nat] /\ K \in KidsType
  /\ T \in Seq(SUBSET Slots) /\ C \in ClientsType /\ Exact(R, L, K, T, C)
  /\ x \in Slots /\ R[x] = 0 /\ k \in Edges \X Edges /\ l \in DOMAIN T
  /\ n \in Nat /\ Counted(n, R, T)

\* A new node with its counts.
LEMMA Created ==
  ASSUME NEW R, NEW L, NEW K, NEW T, NEW C, NEW t \in Threads, NEW x, NEW k, NEW l, NEW n,
         NEW R2, NEW L2, NEW K2, NEW T2, NEW C2, Creatable(R, L, K, T, C, x, k, l, n),
         Creation(R, L, K, T, C, t, x, k, l, R2, L2, K2, T2, C2)
  PROVE  /\ Exact(R2, L2, K2, T2, C2) /\ SameSupport(R, R2, {x}) /\ Counted(n + 1, R2, T2)
         /\ T2 \in Seq(SUBSET Slots) /\ DOMAIN T2 = DOMAIN T /\ Len(T2) = Len(T)
         /\ \A m \in DOMAIN T : T[m] \subseteq T2[m]
<1>1. Exact(R2, L2, K2, T2, C2) /\ SameSupport(R, R2, {x})
  BY ExactCreate DEF Creatable
<1>2. T2 = [T EXCEPT ![l] = @ \cup {x}] /\ R2 = [R EXCEPT ![x] = 2]
  BY DEF Creation
<1>3. T2 \in Seq(SUBSET Slots) /\ DOMAIN T2 = DOMAIN T /\ Len(T2) = Len(T)
  <2>1. T \in Seq(SUBSET Slots) /\ T[l] \cup {x} \in SUBSET Slots /\ l \in DOMAIN T
    BY DEF Creatable
  <2> QED BY <1>2, <2>1
<1>4. T2[l] = T[l] \cup {x} /\ \A m \in DOMAIN T \ {l} : T2[m] = T[m]
  BY <1>2 DEF Creatable
<1>5. OtherTables(T, T2, l)
  BY <1>3, <1>4 DEF OtherTables, Creatable
<1>6. x \notin T[l]
  <2>1. {m \in DOMAIN T : x \in T[m]} = {}
    BY DEF Exact, Creatable
  <2> QED BY <2>1 DEF Creatable
<1>7. R2[x] > 0
  BY <1>2 DEF Creatable
<1>8. Counted(n + 1, R2, T2)
  BY <1>1, <1>4, <1>5, <1>6, <1>7, CountedCreate DEF Creatable
<1> QED BY <1>1, <1>3, <1>4, <1>8

\* The slot in t's hand is nowhere else.
LEMMA HandSpare ==
  ASSUME SlotInv, NEW t \in Threads, NEW x \in Slots, Hand(t) = x
  PROVE  /\ Apart(rc, FreeSet(free), Hands, pages * PageSlots) /\ rc[x] = 0 /\ Listing(free)
         /\ Spare(FreeSet(free), Hands, pages * PageSlots, t, x)
<1>1. PICK H, b, F : H = Hands /\ b = pages * PageSlots /\ F = FreeSet(free)
  OBVIOUS
<1>2. Apart(rc, F, H, b) /\ Listing(free)
  BY <1>1 DEF SlotInv, Hands
<1>3. H[t] = x
  BY <1>1 DEF Hands
<1>4. rc[x] = 0 /\ x \notin F /\ x <= b
  BY <1>2, <1>3 DEF Apart
<1>5. \A u \in Threads \ {t} : H[u] # x
  BY <1>2, <1>3 DEF Apart
<1> QED BY <1>1, <1>2, <1>4, <1>5 DEF Spare

\* and writes the node and enters it into the table.
LEMMA WriteInv ==
  ASSUME IInv, NEW t \in Threads, Write(t)
  PROVE  IInv'
<1>1. HandsOK
  BY TypedHands
<1>2. AccessInv(t) /\ LockInv(t) /\ access[t] # "none" /\ alive /\ SlotInv /\ NodeInv /\ ItemInv
  BY InManager DEF Write
<1>3. PICK x \in Slots : x = edge[t]
  BY <1>2 DEF Write, AccessInv
<1>4. PICK l \in DOMAIN table : l = LockedBy(t) /\ tableLock[l] = t
  <2>1. \E m \in DOMAIN table : tableLock[m] = t
    BY <1>2 DEF LockInv, Write
  <2>2. LockedBy(t) \in DOMAIN table /\ tableLock[LockedBy(t)] = t
    BY <2>1 DEF LockedBy
  <2> QED BY <2>2
<1>5. PICK k \in Edges \X Edges : k = want[t]
  BY <1>1 DEF HandsOK
<1>6. /\ pc[t] = "write" /\ pc'[t] = "made" /\ EdgeStep(t)
      /\ UNCHANGED <<functions[t], edge, access, free, pages, gcOwner, gcLevel, todo>>
      /\ items' = items + 1
  BY <1>1, SlotFacts DEF HandsOK, EdgeStep, Write, handleVars, Goto, count_item, NoKids
<1>7. /\ rc' = [rc EXCEPT ![x] = 2] /\ level' = [level EXCEPT ![x] = l]
      /\ kids' = [kids EXCEPT ![x] = k] /\ table' = [table EXCEPT ![l] = @ \cup {x}]
      /\ tableLock' = [tableLock EXCEPT ![l] = NoThread]
  BY <1>3, <1>4, <1>5 DEF Write
<1>8. /\ HandsOK' /\ SlabInv' /\ SlabTyped
      /\ \A u \in Threads : Handles(u)' = Handles(u) /\ functions'[u] = functions[u]
      /\ \A u \in Threads \ {t} : AccessInv(u)'
      /\ \A u \in Threads \ {t} : Stays(u)
  BY <1>6, EdgeStepHandles
<1>9. AccessInv(t)'
  BY <1>2, <1>6, <1>8 DEF AccessInv
<1>10. /\ Apart(rc, FreeSet(free), Hands, pages * PageSlots) /\ rc[x] = 0 /\ Listing(free)
       /\ Spare(FreeSet(free), Hands, pages * PageSlots, t, x)
  <2>1. Hand(t) = x
    BY <1>3, <1>6 DEF Hand
  <2> QED BY <1>2, <2>1, HandSpare
<1>11. PICK C, C2, R2, L2, K2, T2, n :
         /\ C = Clients /\ C2 = Clients' /\ R2 = rc' /\ L2 = level' /\ K2 = kids' /\ T2 = table'
         /\ n = items
  OBVIOUS
<1>12. Creation(rc, level, kids, table, C, t, x, k, l, R2, L2, K2, T2, C2)
  <2>1. C2 \in ClientsType /\ \A u \in Threads \ {t} : C2[u] = C[u]
    BY <1>8, <1>11, ClientsTyped, ClientsStay
  <2>2. ASSUME NEW s \in Slots
        PROVE  C2[t][s] = C[t][s] - Occurs(s, k) + One(x, s) /\ Occurs(s, k) <= C[t][s]
    <3>1. C[t][s] = functions[t][s] + Occurs(s, k)
      BY <1>5, <1>6, <1>11, ClientsValue DEF Own
    <3>2. C2[t][s] = functions[t][s] + One(x, s)
      BY <1>3, <1>6, <1>11, ClientsValue DEF Own
    <3>3. functions[t][s] \in Nat /\ Occurs(s, k) \in Nat
      BY <1>2, EdgeToNode, OccursPair
    <3> QED BY <3>1, <3>2, <3>3 DEF One
  <2> QED BY <1>7, <1>11, <2>1, <2>2 DEF Creation
<1>13. /\ rc \in [Slots -> Nat] /\ kids \in KidsType /\ C \in ClientsType
       /\ table \in Seq(SUBSET Slots) /\ level \in [Slots -> Nat]
       /\ Exact(rc, level, kids, table, C) /\ n \in Nat /\ Counted(n, rc, table)
  BY <1>2, <1>11, ExactTypes DEF NodeInv, ItemInv, Counted, IInv, TypeOK
<1>14. /\ Exact(R2, L2, K2, T2, C2) /\ SameSupport(rc, R2, {x}) /\ Counted(n + 1, R2, T2)
       /\ T2 \in Seq(SUBSET Slots) /\ DOMAIN T2 = DOMAIN table /\ Len(T2) = Len(table)
       /\ \A m \in DOMAIN table : table[m] \subseteq T2[m]
  <2>1. Creatable(rc, level, kids, table, C, x, k, l, n)
    BY <1>5, <1>6, <1>10, <1>13 DEF Creatable
  <2> QED BY <1>12, <2>1, Created
<1>15. NodeInv' /\ ItemInv'
  BY <1>6, <1>11, <1>14 DEF NodeInv, ItemInv, Counted
<1>16. SlotInv'
  <2>1. \A u \in Threads \ {t} : Hand(u)' = Hand(u)
    BY <1>6 DEF Hand, EdgeStep
  <2>2. Hand(t)' \notin Slots
    BY <1>6, SlotFacts DEF Hand
  <2>3. SameSupport(rc, rc', {x})
    BY <1>11, <1>14
  <2>4. free' = free /\ pages' = pages
    BY <1>6
  <2> QED BY <1>10, <2>1, <2>2, <2>3, <2>4, SlotMoved
<1>17. tableLock \in [DOMAIN table -> Threads \cup {NoThread}] /\ NoThread \notin Threads
  BY ManagerAssumption DEF IInv, TypeOK
<1>18. ASSUME NEW u \in Threads PROVE LockInv(u)'
  <2>1. \A m \in DOMAIN table : tableLock'[m] = IF m = l THEN NoThread ELSE tableLock[m]
    BY <1>7, <1>17
  <2>2. DOMAIN table' = DOMAIN table
    BY <1>11, <1>14
  <2>3. CASE u = t
    <3>1. \A m \in DOMAIN table : tableLock[m] = t => m = l
      BY <1>2, <1>4 DEF LockInv
    <3>2. \A m \in DOMAIN table' : tableLock'[m] # t
      BY <1>17, <2>1, <2>2, <3>1
    <3> QED BY <1>6, <2>3, <3>2 DEF LockInv
  <2>4. CASE u # t
    <3>1. \A m \in DOMAIN table' : tableLock'[m] = u <=> m \in DOMAIN table /\ tableLock[m] = u
      BY <1>4, <1>17, <2>1, <2>2, <2>4
    <3>2. \A m \in DOMAIN table : table[m] \subseteq table'[m]
      BY <1>11, <1>14
    <3>3. pc'[u] = pc[u] /\ UNCHANGED <<gcOwner, gcLevel, todo>>
      BY <1>6, <2>4 DEF EdgeStep
    <3> QED BY <2>2, <2>4, <3>1, <3>2, <3>3, OthersLocked
  <2> QED BY <2>3, <2>4
<1>19. TablesOK'
  <2>1. TablesOK
    BY TypeParts
  <2>2. l \in 0 .. MaxLevels
    <3>1. DOMAIN table = 1 .. Len(table) /\ Len(table) <= MaxLevels /\ MaxLevels \in Nat /\ Len(table) \in Nat
      BY <1>13, <2>1, ManagerAssumption DEF TablesOK
    <3> QED BY <3>1
  <2>3. items' \in Nat
    BY <1>6, <2>1 DEF TablesOK
  <2>4. level' \in [Slots -> 0 .. MaxLevels] /\ kids' \in [Slots -> Edges \X Edges]
    BY <1>7, <2>1, <2>2 DEF TablesOK
  <2>5. tableLock' \in [DOMAIN table' -> Threads \cup {NoThread}]
    BY <1>7, <1>11, <1>14, <1>17
  <2>6. table' \in Seq(SUBSET Slots) /\ Len(table') <= MaxLevels /\ gcLevel' \in 0 .. Len(table')
    BY <1>6, <1>11, <1>14, <2>1 DEF TablesOK
  <2> QED BY <1>6, <2>1, <2>3, <2>4, <2>5, <2>6 DEF TablesOK
<1>20. TypeOK'
  <2>1. rc' \in [Slots -> Nat] /\ access \in [Threads -> {"none", "shared", "exclusive"}]
    BY <1>11, <1>14, TypeParts DEF SameSupport
  <2> QED BY <1>6, <1>8, <1>19, <2>1, TypeParts DEF SlabTyped
<1>21. ThreadInv'
  BY <1>8, <1>9, <1>18 DEF ThreadInv
<1> QED BY <1>8, <1>15, <1>16, <1>20, <1>21 DEF IInv

\* A table is appended empty and then gets its first entry.
LEMMA FirstEntry ==
  ASSUME NEW T \in Seq(SUBSET Slots), NEW x \in Slots
  PROVE  /\ Append(T, {}) \in Seq(SUBSET Slots)
         /\ Len(T) + 1 \in DOMAIN Append(T, {})
         /\ Append(T, {x}) = [Append(T, {}) EXCEPT ![Len(T) + 1] = @ \cup {x}]
         /\ DOMAIN Append(T, {}) = 1 .. Len(T) + 1
         /\ \A m \in DOMAIN T : Append(T, {})[m] = T[m]
<1>1. PICK n, U, V : n = Len(T) /\ U = Append(T, {}) /\ V = Append(T, {x})
  OBVIOUS
<1>2. n \in Nat
  BY <1>1
<1>3. {} \in SUBSET Slots /\ {x} \in SUBSET Slots
  OBVIOUS
<1>4. /\ U \in Seq(SUBSET Slots) /\ V \in Seq(SUBSET Slots) /\ Len(U) = n + 1 /\ Len(V) = n + 1
      /\ DOMAIN U = 1 .. n + 1 /\ DOMAIN V = 1 .. n + 1
      /\ \A m \in 1 .. n : U[m] = T[m] /\ V[m] = T[m]
      /\ U[n + 1] = {} /\ V[n + 1] = {x}
  BY <1>2, <1>1, <1>3
<1>5. PICK W : W = [U EXCEPT ![n + 1] = @ \cup {x}]
  OBVIOUS
<1>6. n + 1 \in 1 .. n + 1
  BY <1>2
<1>7. W = [m \in 1 .. n + 1 |-> IF m = n + 1 THEN {x} ELSE U[m]]
  BY <1>2, <1>4, <1>5, <1>6
<1>8. V = [m \in 1 .. n + 1 |-> V[m]]
  BY <1>4
<1>9. \A m \in 1 .. n + 1 : V[m] = IF m = n + 1 THEN {x} ELSE U[m]
  BY <1>2, <1>4
<1>10. V = W
  BY <1>7, <1>8, <1>9
<1> QED BY <1>1, <1>4, <1>5, <1>6, <1>10

\* add_level.
LEMMA AddLevelInv ==
  ASSUME IInv, NEW t \in Threads, AddLevel(t)
  PROVE  IInv'
<1>1. HandsOK
  BY TypedHands
<1>2. AccessInv(t) /\ LockInv(t) /\ access[t] # "none" /\ alive /\ SlotInv /\ NodeInv /\ ItemInv
  BY InManager DEF AddLevel
<1>3. PICK x : x = NextSlot
  OBVIOUS
<1>4. /\ Listing(free') /\ free' \in Seq(Slots) /\ pages' \in 0 .. MaxPages
      /\ Apart(rc, FreeSet(free'), Hands, pages' * PageSlots)
      /\ x \in Slots /\ rc[x] = 0
      /\ \A u \in Threads : Spare(FreeSet(free'), Hands, pages' * PageSlots, u, x)
      /\ UNCHANGED <<slabRc, alive>>
  BY <1>2, <1>3, GetSlot DEF AddLevel
<1>5. x \in Edges
  BY <1>4, SlotFacts
<1>6. PICK n, l, U, k : /\ n = Len(table) /\ l = n + 1
                        /\ U = Append(table, {}) /\ k = <<True, False>>
  OBVIOUS
<1>7. n \in Nat
  BY <1>6, ExactTypes
<1>8. /\ pc[t] = "idle" /\ pc'[t] = "made" /\ edge[t] = False /\ edge'[t] = x /\ EdgeStep(t)
      /\ UNCHANGED <<functions[t], access, gcOwner, gcLevel, todo>>
      /\ items' = items + 1 /\ n < MaxLevels
  BY <1>1, <1>2, <1>3, <1>4, <1>5, <1>6
     DEF HandsOK, EdgeStep, AddLevel, handleVars, Goto, InHand, count_item, AccessInv
<1>9. /\ rc' = [rc EXCEPT ![x] = 2] /\ level' = [level EXCEPT ![x] = l]
      /\ kids' = [kids EXCEPT ![x] = k] /\ table' = Append(table, {x})
      /\ tableLock' = Append(tableLock, NoThread)
  BY <1>3, <1>6 DEF AddLevel
<1>10. /\ HandsOK' /\ SlabInv'
       /\ \A u \in Threads : Handles(u)' = Handles(u) /\ functions'[u] = functions[u]
       /\ \A u \in Threads \ {t} : AccessInv(u)'
       /\ \A u \in Threads \ {t} : Stays(u)
  BY <1>8, EdgeStepHandles
<1>11. AccessInv(t)'
  BY <1>2, <1>8, <1>10 DEF AccessInv
<1>12. PICK C, C2, R2, L2, K2, T2, i :
         /\ C = Clients /\ C2 = Clients' /\ R2 = rc' /\ L2 = level' /\ K2 = kids' /\ T2 = table'
         /\ i = items
  OBVIOUS
<1>13. /\ rc \in [Slots -> Nat] /\ kids \in KidsType /\ C \in ClientsType
       /\ table \in Seq(SUBSET Slots) /\ level \in [Slots -> Nat]
       /\ Exact(rc, level, kids, table, C) /\ i \in Nat /\ Counted(i, rc, table)
  BY <1>2, <1>12, ExactTypes DEF NodeInv, ItemInv, Counted, IInv, TypeOK
<1>14. /\ U \in Seq(SUBSET Slots) /\ l \in DOMAIN U /\ T2 = [U EXCEPT ![l] = @ \cup {x}]
       /\ DOMAIN U = 1 .. n + 1 /\ \A m \in DOMAIN table : U[m] = table[m]
  BY <1>4, <1>6, <1>9, <1>12, <1>13, FirstEntry
<1>15. Exact(rc, level, kids, U, C)
  BY <1>6, <1>13, ExactLevel
<1>16. Counted(i, rc, U)
  BY <1>6, <1>13, EntriesLevel DEF Counted
<1>17. k \in Edges \X Edges
  BY <1>6, SlotFacts
<1>18. Creation(rc, level, kids, U, C, t, x, k, l, R2, L2, K2, T2, C2)
  <2>1. C2 \in ClientsType /\ \A u \in Threads \ {t} : C2[u] = C[u]
    BY <1>10, <1>12, ClientsTyped, ClientsStay
  <2>2. ASSUME NEW s \in Slots
        PROVE  C2[t][s] = C[t][s] - Occurs(s, k) + One(x, s) /\ Occurs(s, k) <= C[t][s]
    <3>1. C[t][s] = functions[t][s] + 0
      BY <1>8, <1>12, ClientsValue DEF Own
    <3>2. C2[t][s] = functions[t][s] + One(x, s)
      BY <1>8, <1>12, ClientsValue DEF Own
    <3>3. functions[t][s] \in Nat
      BY <1>2, EdgeToNode
    <3>4. Occurs(s, k) = 0
      <4>1. Occurs(s, k) = One(True, s) + One(False, s)
        BY <1>6, OccursTwo
      <4>2. True # s /\ False # s
        BY SlotFacts
      <4> QED BY <4>1, <4>2 DEF One
    <3> QED BY <3>1, <3>2, <3>3, <3>4 DEF One
  <2> QED BY <1>9, <1>12, <1>14, <2>1, <2>2 DEF Creation
<1>19. /\ Exact(R2, L2, K2, T2, C2) /\ SameSupport(rc, R2, {x}) /\ Counted(i + 1, R2, T2)
       /\ T2 \in Seq(SUBSET Slots) /\ DOMAIN T2 = DOMAIN U /\ Len(T2) = Len(U)
       /\ \A m \in DOMAIN U : U[m] \subseteq T2[m]
  <2>1. x \in Slots /\ rc[x] = 0 /\ l \in DOMAIN U /\ U \in Seq(SUBSET Slots)
    BY <1>4, <1>14
  <2>2. /\ rc \in [Slots -> Nat] /\ kids \in KidsType /\ C \in ClientsType
        /\ level \in [Slots -> Nat] /\ i \in Nat
    BY <1>13
  <2>3. Creatable(rc, level, kids, U, C, x, k, l, i)
    BY <1>15, <1>16, <1>17, <2>1, <2>2 DEF Creatable
  <2> QED BY <1>18, <2>3, Created
<1>20. NodeInv' /\ ItemInv'
  BY <1>8, <1>12, <1>19 DEF NodeInv, ItemInv, Counted
<1>21. SlotInv'
  <2>1. \A u \in Threads \ {t} : Hand(u)' = Hand(u)
    BY <1>8 DEF Hand, EdgeStep
  <2>2. Hand(t)' \notin Slots
    BY <1>8, SlotFacts DEF Hand
  <2>3. SameSupport(rc, rc', {x})
    BY <1>12, <1>19
  <2> QED BY <1>4, <2>1, <2>2, <2>3, SlotMoved
<1>22. DOMAIN table = 1 .. n /\ DOMAIN table' = 1 .. n + 1 /\ Len(table') = n + 1
  BY <1>7, <1>6, <1>12, <1>13, <1>14, <1>19
<1>23. /\ tableLock' \in [DOMAIN table' -> Threads \cup {NoThread}] /\ NoThread \notin Threads
       /\ tableLock'[n + 1] = NoThread /\ \A m \in 1 .. n : tableLock'[m] = tableLock[m]
  <2>1. tableLock \in [1 .. n -> Threads \cup {NoThread}] /\ NoThread \notin Threads
    BY <1>22, ManagerAssumption DEF IInv, TypeOK
  <2>2. tableLock \in Seq(Threads \cup {NoThread}) /\ Len(tableLock) = n
    BY <1>7, <2>1
  <2>3. /\ tableLock' \in Seq(Threads \cup {NoThread}) /\ Len(tableLock') = n + 1
        /\ tableLock'[n + 1] = NoThread /\ \A m \in 1 .. n : tableLock'[m] = tableLock[m]
    BY <1>7, <1>9, <2>2
  <2>4. tableLock' \in [1 .. n + 1 -> Threads \cup {NoThread}]
    BY <2>3
  <2> QED BY <1>22, <2>1, <2>3, <2>4
<1>24. ASSUME NEW u \in Threads PROVE LockInv(u)'
  <2>1. \A m \in DOMAIN table' : tableLock'[m] = u <=> m \in DOMAIN table /\ tableLock[m] = u
    <3>1. \A m \in 1 .. n + 1 : m \in 1 .. n \/ m = n + 1
      BY <1>7
    <3>2. n + 1 \notin 1 .. n
      BY <1>7
    <3> QED BY <1>22, <1>23, <3>1, <3>2
  <2>2. CASE u = t
    <3>1. \A m \in DOMAIN table : tableLock[m] # t
      BY <1>2, <1>8 DEF LockInv
    <3> QED BY <1>8, <2>1, <2>2, <3>1 DEF LockInv
  <2>3. CASE u # t
    <3>1. DOMAIN table \subseteq DOMAIN table'
      BY <1>7, <1>22
    <3>2. \A m \in DOMAIN table : table[m] \subseteq table'[m]
      BY <1>12, <1>14, <1>19, <1>22
    <3>3. pc'[u] = pc[u] /\ UNCHANGED <<gcOwner, gcLevel, todo>>
      BY <1>8, <2>3 DEF EdgeStep
    <3> QED BY <2>1, <2>3, <3>1, <3>2, <3>3, OthersLocked
  <2> QED BY <2>2, <2>3
<1>25. TablesOK'
  <2>1. TablesOK
    BY TypeParts
  <2>2. l \in 0 .. MaxLevels /\ n + 1 <= MaxLevels
    BY <1>7, <1>6, <1>8, ManagerAssumption
  <2>3. items' \in Nat
    BY <1>8, <2>1 DEF TablesOK
  <2>4. level' \in [Slots -> 0 .. MaxLevels] /\ kids' \in [Slots -> Edges \X Edges]
    BY <1>9, <1>17, <2>1, <2>2 DEF TablesOK
  <2>5. gcLevel' \in 0 .. Len(table')
    BY <1>7, <1>6, <1>8, <1>22, <2>1 DEF TablesOK
  <2>6. table' \in Seq(SUBSET Slots) /\ Len(table') <= MaxLevels
    BY <1>12, <1>19, <1>22, <2>2
  <2> QED BY <1>8, <1>23, <2>1, <2>3, <2>4, <2>5, <2>6 DEF TablesOK
<1>26. TypeOK'
  <2>1. rc' \in [Slots -> Nat] /\ access \in [Threads -> {"none", "shared", "exclusive"}]
    BY <1>12, <1>19, TypeParts DEF SameSupport
  <2>2. slabRc \in Nat /\ alive \in BOOLEAN
    BY DEF IInv, TypeOK
  <2> QED BY <1>4, <1>8, <1>10, <1>25, <2>1, <2>2, TypeParts
<1>27. ThreadInv'
  BY <1>10, <1>11, <1>24 DEF ThreadInv
<1> QED BY <1>10, <1>20, <1>21, <1>26, <1>27 DEF IInv

-----------------------------------------------------------------------------
(* Garbage collection.                                                     *)

\* Only one thread collects.
LEMMA OneCollector ==
  ASSUME IInv, NEW t \in Threads, pc[t] = "gc" \/ gcOwner = NoThread, NEW u \in Threads \ {t}
  PROVE  pc[u] # "gc"
<1>1. LockInv(t) /\ LockInv(u) /\ NoThread \notin Threads
  BY ManagerAssumption DEF IInv, ThreadInv
<1> QED BY <1>1 DEF LockInv

\* A step of thread t that begins, goes on with, or ends a collection and leaves
\* nodes and slots alone.
QuietGc(t) ==
  /\ UNCHANGED <<slabVars, nodeVars, access, handleVars, edge, want>>
  /\ pc[t] \in {"idle", "gc"} /\ pc'[t] \in {"idle", "gc"}
  /\ pc' \in [Threads -> {"idle", "clone", "drop", "made", "owned", "alloc", "write", "gc"}]
  /\ pc'[t] # pc[t] => edge[t] = False
  /\ \A u \in Threads \ {t} : pc'[u] = pc[u]
  /\ tableLock' \in [DOMAIN table -> Threads \cup {NoThread}]
  /\ gcOwner' \in Threads \cup {NoThread}
  /\ gcLevel' \in 0 .. Len(table) /\ todo' \in SUBSET Slots

\* A step of the collection that frees nothing keeps the invariant.
LEMMA QuietGcInv ==
  ASSUME IInv, NEW t \in Threads, access[t] # "none", QuietGc(t),
         \A u \in Threads : LockInv(u)'
  PROVE  IInv'
<1>1. HandsOK
  BY TypedHands
<1>2. AccessInv(t) /\ Handles(t) > 0 /\ alive /\ SlotInv /\ NodeInv /\ ItemInv
  BY InManager
<1>3. EdgeStep(t) /\ pc[t] # "drop" /\ pc'[t] # "drop" /\ UNCHANGED <<free, pages>>
  BY <1>1 DEF HandsOK, EdgeStep, QuietGc, slabVars, handleVars
<1>4. /\ HandsOK' /\ SlabTyped
      /\ \A u \in Threads : Handles(u)' = Handles(u) /\ functions'[u] = functions[u]
      /\ \A u \in Threads \ {t} : AccessInv(u)'
      /\ \A u \in Threads \ {t} : Stays(u)
  BY <1>3, EdgeStepHandles
<1>5. AccessInv(t)'
  <2>1. pc'[t] = "gc" => edge'[t] # True
    BY <1>2, SlotFacts DEF QuietGc, AccessInv
  <2>2. pc'[t] = "idle" => edge'[t] = False
    BY <1>2 DEF QuietGc, AccessInv
  <2>3. access'[t] # "none" /\ Handles(t)' > 0 /\ pc'[t] \in {"idle", "gc"}
    BY <1>2, <1>4 DEF QuietGc
  <2> QED BY <2>1, <2>2, <2>3 DEF AccessInv
<1>6. TablesOK'
  BY TypeParts DEF TablesOK, QuietGc, nodeVars, slabVars
<1>7. SameSupport(rc, rc', {})
  BY DEF SameSupport, QuietGc, slabVars, IInv, TypeOK
<1>8. TypeOK'
  <2>1. rc' \in [Slots -> Nat] /\ access' \in [Threads -> {"none", "shared", "exclusive"}]
    BY <1>7, TypeParts DEF SameSupport, QuietGc
  <2> QED BY <1>4, <1>6, <2>1, TypeParts DEF SlabTyped
<1>9. SlotInv'
  <2>1. ASSUME NEW u \in Threads PROVE Hand(u)' = Hand(u) \/ Hand(u)' \notin Slots
    BY SlotFacts DEF Hand, QuietGc
  <2> QED BY <1>2, <1>3, <1>7, <2>1, SlotsKept
<1>10. NodeInv'
  <2>1. \A s \in Slots : After(t, s) = Before(t, s)
    BY <1>4 DEF After, Before, Own, QuietGc
  <2>2. Exact(rc', level, kids, table, Clients')
    BY <1>2, <1>4, <2>1, EdgesKept DEF QuietGc, slabVars
  <2> QED BY <2>2 DEF NodeInv, QuietGc, nodeVars
<1>11. ItemInv'
  BY <1>2, <1>7, ItemsKept DEF QuietGc, slabVars, nodeVars
<1>12. ThreadInv'
  BY <1>4, <1>5 DEF ThreadInv
<1> QED BY <1>4, <1>8, <1>9, <1>10, <1>11, <1>12 DEF IInv, SlabTyped

\* A step that changes nothing.
LEMMA StutterInv == ASSUME IInv, UNCHANGED vars PROVE IInv'
<1> USE DEF vars, slabVars, nodeVars, handleVars
<1>1. TypeOK'
  BY DEF IInv, TypeOK
<1>2. SlabInv'
  BY DEF IInv, SlabInv, HoldsOfSlab, Handles, HeldBy
<1>3. ThreadInv'
  BY DEF IInv, ThreadInv, AccessInv, LockInv, Handles, HeldBy
<1>4. SlotInv => SlotInv'
  BY DEF SlotInv, Hand
<1>5. NodeInv => NodeInv'
  BY DEF NodeInv, Clients, OwnedBy, OwnEdges
<1>6. ItemInv => ItemInv'
  BY DEF ItemInv
<1>7. alive' => alive
  OBVIOUS
<1> QED BY <1>1, <1>2, <1>3, <1>4, <1>5, <1>6, <1>7 DEF IInv

\* gc begins,
LEMMA GcBeginInv ==
  ASSUME IInv, NEW t \in Threads, GcBegin(t)
  PROVE  IInv'
<1>1. CASE gcOwner # NoThread
  <2>1. UNCHANGED vars
    BY <1>1 DEF GcBegin, vars
  <2> QED BY <2>1, StutterInv
<1>2. CASE gcOwner = NoThread
  <2>1. HandsOK /\ TablesOK
    BY TypedHands, TypeParts
  <2>2. AccessInv(t) /\ LockInv(t) /\ access[t] # "none"
    BY InManager DEF GcBegin
  <2>3. /\ pc[t] = "idle" /\ pc' = [pc EXCEPT ![t] = "gc"] /\ gcOwner' = t /\ gcLevel' = 1
        /\ UNCHANGED <<slabVars, nodeVars, access, handleVars, edge, want, tableLock, todo>>
    BY <1>2 DEF GcBegin, Goto
  <2>4. table \in Seq(SUBSET Slots) /\ 1 \in DOMAIN table /\ 1 \in 0 .. Len(table)
    <3>1. table \in Seq(SUBSET Slots) /\ table # <<>>
      BY <2>1 DEF TablesOK, GcBegin
    <3>2. Len(table) \in Nat /\ Len(table) # 0 /\ DOMAIN table = 1 .. Len(table)
      BY <3>1
    <3> QED BY <3>1, <3>2
  <2>5. edge[t] = False
    BY <2>2, <2>3 DEF AccessInv
  <2>6. QuietGc(t)
    BY <2>1, <2>3, <2>4, <2>5 DEF QuietGc, HandsOK, TablesOK
  <2>7. ASSUME NEW u \in Threads PROVE LockInv(u)'
    <3>1. table' = table
      BY <2>3 DEF nodeVars
    <3>2. CASE u = t
      <4>1. \A m \in DOMAIN table : tableLock[m] # t
        BY <2>2, <2>3 DEF LockInv
      <4>2. pc'[t] = "gc"
        BY <2>1, <2>3 DEF HandsOK
      <4> QED BY <2>3, <2>4, <3>1, <3>2, <4>1, <4>2 DEF LockInv
    <3>3. CASE u # t
      <4>1. pc[u] # "gc" /\ pc'[u] = pc[u]
        BY <1>2, <2>1, <2>3, <3>3, OneCollector DEF HandsOK
      <4>2. \A m \in DOMAIN table' : tableLock'[m] = u <=> m \in DOMAIN table /\ tableLock[m] = u
        BY <2>3, <3>1
      <4> QED BY <3>1, <3>3, <4>1, <4>2, OthersLocked
    <3> QED BY <3>2, <3>3
  <2> QED BY <2>2, <2>6, <2>7, QuietGcInv
<1> QED BY <1>1, <1>2

\* The collector, and what it knows of the level whose mutex it holds.
LEMMA Collector ==
  ASSUME IInv, NEW t \in Threads, pc[t] = "gc"
  PROVE  /\ AccessInv(t) /\ LockInv(t) /\ access[t] # "none" /\ alive
         /\ SlotInv /\ NodeInv /\ ItemInv
         /\ gcOwner = t /\ gcLevel \in DOMAIN table
         /\ \A m \in DOMAIN table : tableLock[m] = t => m = gcLevel
         /\ tableLock[gcLevel] = t => todo \subseteq table[gcLevel]
         /\ tableLock \in [DOMAIN table -> Threads \cup {NoThread}] /\ NoThread \notin Threads
         /\ HandsOK /\ TablesOK
<1>1. AccessInv(t) /\ LockInv(t) /\ access[t] # "none" /\ alive /\ SlotInv /\ NodeInv /\ ItemInv
  BY InManager
<1>2. tableLock \in [DOMAIN table -> Threads \cup {NoThread}] /\ NoThread \notin Threads
  BY ManagerAssumption DEF IInv, TypeOK
<1>3. HandsOK /\ TablesOK
  BY TypedHands, TypeParts
<1> QED BY <1>1, <1>2, <1>3 DEF LockInv

\* While thread t collects, the mutexes of the others stay with them.
LEMMA CollectorOthers ==
  ASSUME IInv, NEW t \in Threads, pc[t] = "gc", NEW u \in Threads \ {t}, pc'[u] = pc[u],
         DOMAIN table' = DOMAIN table, NEW l \in DOMAIN table, NEW x \in {t, NoThread},
         tableLock[l] \in {t, NoThread}, tableLock' = [tableLock EXCEPT ![l] = x]
  PROVE  LockInv(u)'
<1>1. pc[u] # "gc"
  BY OneCollector
<1>2. tableLock \in [DOMAIN table -> Threads \cup {NoThread}] /\ NoThread \notin Threads
  BY Collector
<1>3. \A m \in DOMAIN table : tableLock'[m] = IF m = l THEN x ELSE tableLock[m]
  BY <1>2
<1>4. \A m \in DOMAIN table' : tableLock'[m] = u <=> m \in DOMAIN table /\ tableLock[m] = u
  BY <1>2, <1>3
<1> QED BY <1>1, <1>4, OthersLocked

\* locks the table of the next level,
LEMMA GcLockLevelInv ==
  ASSUME IInv, NEW t \in Threads, GcLockLevel(t)
  PROVE  IInv'
<1>1. pc[t] = "gc" /\ tableLock[gcLevel] = NoThread
  BY DEF GcLockLevel
<1>2. /\ AccessInv(t) /\ access[t] # "none" /\ gcOwner = t /\ gcLevel \in DOMAIN table
      /\ \A m \in DOMAIN table : tableLock[m] = t => m = gcLevel
      /\ tableLock \in [DOMAIN table -> Threads \cup {NoThread}] /\ NoThread \notin Threads
      /\ HandsOK /\ TablesOK
  BY <1>1, Collector
<1>3. /\ tableLock' = [tableLock EXCEPT ![gcLevel] = t] /\ todo' = table[gcLevel]
      /\ UNCHANGED <<slabVars, nodeVars, access, handleVars, edge, want, pc, gcOwner, gcLevel>>
  BY DEF GcLockLevel
<1>4. table' = table
  BY <1>3 DEF nodeVars
<1>5. table[gcLevel] \in SUBSET Slots
  BY <1>2 DEF TablesOK
<1>6. QuietGc(t)
  BY <1>1, <1>2, <1>3, <1>5 DEF QuietGc, HandsOK, TablesOK
<1>7. ASSUME NEW u \in Threads PROVE LockInv(u)'
  <2>1. CASE u = t
    <3>1. \A m \in DOMAIN table : tableLock'[m] = IF m = gcLevel THEN t ELSE tableLock[m]
      BY <1>2, <1>3
    <3>2. \A m \in DOMAIN table : tableLock'[m] = t => m = gcLevel
      BY <1>2, <3>1
    <3> QED BY <1>1, <1>2, <1>3, <1>4, <2>1, <3>2 DEF LockInv
  <2>2. CASE u # t
    <3>1. pc'[u] = pc[u]
      BY <1>3
    <3> QED BY <1>1, <1>2, <1>3, <1>4, <2>2, <3>1, CollectorOthers
  <2> QED BY <2>1, <2>2
<1> QED BY <1>2, <1>6, <1>7, QuietGcInv

\* and unlocks it when it has seen every node.
LEMMA GcEndLevelInv ==
  ASSUME IInv, NEW t \in Threads, GcEndLevel(t)
  PROVE  IInv'
<1>1. pc[t] = "gc" /\ tableLock[gcLevel] = t /\ edge[t] = False
  BY DEF GcEndLevel, Locked
<1>2. /\ AccessInv(t) /\ access[t] # "none" /\ gcOwner = t /\ gcLevel \in DOMAIN table
      /\ \A m \in DOMAIN table : tableLock[m] = t => m = gcLevel
      /\ tableLock \in [DOMAIN table -> Threads \cup {NoThread}] /\ NoThread \notin Threads
      /\ HandsOK /\ TablesOK
  BY <1>1, Collector
<1>3. /\ tableLock' = [tableLock EXCEPT ![gcLevel] = NoThread]
      /\ UNCHANGED <<slabVars, nodeVars, access, handleVars, edge, want, todo>>
  BY DEF GcEndLevel
<1>4. table' = table
  BY <1>3 DEF nodeVars
<1>5. Len(table) \in Nat /\ DOMAIN table = 1 .. Len(table)
  BY <1>2 DEF TablesOK
<1>6. \A m \in DOMAIN table : tableLock'[m] # t
  BY <1>2, <1>3
<1>7. \/ gcLevel' = gcLevel + 1 /\ gcLevel < Len(table) /\ UNCHANGED <<gcOwner, pc>>
      \/ gcLevel' = 0 /\ gcOwner' = NoThread /\ pc' = [pc EXCEPT ![t] = "idle"]
  BY DEF GcEndLevel, Goto
<1>8. /\ pc'[t] \in {"idle", "gc"} /\ \A u \in Threads \ {t} : pc'[u] = pc[u]
      /\ pc' \in [Threads -> {"idle", "clone", "drop", "made", "owned", "alloc", "write", "gc"}]
      /\ pc'[t] = "gc" => gcOwner' = t /\ gcLevel' \in DOMAIN table
      /\ gcLevel' \in 0 .. Len(table) /\ gcOwner' \in Threads \cup {NoThread}
  <2>1. CASE gcLevel' = gcLevel + 1 /\ gcLevel < Len(table) /\ UNCHANGED <<gcOwner, pc>>
    BY <1>1, <1>2, <1>5, <2>1 DEF HandsOK
  <2>2. CASE gcLevel' = 0 /\ gcOwner' = NoThread /\ pc' = [pc EXCEPT ![t] = "idle"]
    BY <1>1, <1>2, <1>5, <2>2 DEF HandsOK
  <2> QED BY <1>7, <2>1, <2>2
<1>9. QuietGc(t)
  BY <1>1, <1>2, <1>3, <1>8 DEF QuietGc, TablesOK
<1>10. ASSUME NEW u \in Threads PROVE LockInv(u)'
  <2>1. CASE u = t
    BY <1>4, <1>6, <1>8, <2>1 DEF LockInv
  <2>2. CASE u # t
    <3>1. pc'[u] = pc[u]
      BY <1>8, <2>2
    <3> QED BY <1>1, <1>2, <1>3, <1>4, <2>2, <3>1, CollectorOthers
  <2> QED BY <2>1, <2>2
<1> QED BY <1>2, <1>9, <1>10, QuietGcInv

\* retain takes a node that only the table refers to out of it, and releases its children.
LEMMA GcVisitInv ==
  ASSUME IInv, NEW t \in Threads, NEW x \in todo, GcVisit(t, x)
  PROVE  IInv'
<1>1. pc[t] = "gc" /\ tableLock[gcLevel] = t /\ edge[t] = False
  BY DEF GcVisit, Locked
<1>2. /\ AccessInv(t) /\ access[t] # "none" /\ gcOwner = t /\ gcLevel \in DOMAIN table
      /\ alive /\ SlotInv /\ NodeInv /\ ItemInv
      /\ \A m \in DOMAIN table : tableLock[m] = t => m = gcLevel
      /\ todo \subseteq table[gcLevel]
      /\ tableLock \in [DOMAIN table -> Threads \cup {NoThread}] /\ NoThread \notin Threads
      /\ HandsOK /\ TablesOK
  BY <1>1, Collector
<1>3. x \in Slots /\ rc[x] > 0 /\ level[x] = gcLevel /\ x \in table[gcLevel]
  BY <1>2, EntryIsNode
<1>4. /\ todo' = todo \ {x}
      /\ UNCHANGED <<slabRc, free, pages, alive, tableLock, access, gcOwner, handleVars, pc, want, gcLevel>>
  BY DEF GcVisit
<1>5. ASSUME DOMAIN table' = DOMAIN table, table[gcLevel] \ {x} \subseteq table'[gcLevel],
             NEW u \in Threads
      PROVE  LockInv(u)'
  <2>1. CASE u = t
    <3>1. todo' \subseteq table'[gcLevel]
      BY <1>2, <1>4, <1>5
    <3> QED BY <1>1, <1>2, <1>4, <1>5, <2>1, <3>1 DEF LockInv
  <2>2. CASE u # t
    <3>1. tableLock' = [tableLock EXCEPT ![gcLevel] = t]
      BY <1>1, <1>2, <1>4
    <3>2. pc'[u] = pc[u]
      BY <1>4
    <3> QED BY <1>1, <1>2, <1>5, <2>2, <3>1, <3>2, CollectorOthers
  <2> QED BY <2>1, <2>2
<1>6. CASE ~Unreferenced(x)
  <2>1. UNCHANGED <<rc, items, nodeVars, edge>>
    BY <1>6 DEF GcVisit
  <2>2. todo' \in SUBSET Slots
    BY <1>2, <1>4 DEF TablesOK
  <2>3. QuietGc(t)
    BY <1>1, <1>2, <1>4, <2>1, <2>2 DEF QuietGc, HandsOK, TablesOK, slabVars
  <2>4. \A u \in Threads : LockInv(u)'
    BY <1>5, <2>1 DEF nodeVars
  <2> QED BY <1>2, <2>3, <2>4, QuietGcInv
<1>7. CASE Unreferenced(x)
  <2>1. rc[x] = 1
    <3>1. rc[x] \in Nat
      BY <1>3, ExactTypes
    <3> QED BY <1>7, <3>1 DEF Unreferenced
  <2>2. /\ rc' = WithoutNode(x) /\ items' = items - 1
        /\ table' = [table EXCEPT ![level[x]] = @ \ {x}]
        /\ level' = [level EXCEPT ![x] = 0] /\ kids' = [kids EXCEPT ![x] = NoKids]
        /\ edge' = [edge EXCEPT ![t] = x]
    BY <1>7 DEF GcVisit, uncount_item, InHand
  <2>3. EdgeStep(t) /\ pc'[t] = "gc" /\ edge'[t] = x
    BY <1>1, <1>2, <1>3, <1>4, <2>2, SlotFacts DEF EdgeStep, HandsOK
  <2>4. /\ HandsOK' /\ SlabTyped
        /\ \A u \in Threads : Handles(u)' = Handles(u) /\ functions'[u] = functions[u]
        /\ \A u \in Threads \ {t} : AccessInv(u)'
        /\ \A u \in Threads \ {t} : Stays(u)
    BY <1>1, <1>4, <2>3, EdgeStepHandles
  <2>5. AccessInv(t)'
    BY <1>1, <1>2, <1>3, <1>4, <2>3, <2>4, SlotFacts DEF AccessInv
  <2>6. Clients' = Clients
    <3>1. \A s \in Slots : After(t, s) = Before(t, s)
      BY <1>1, <2>3, <2>4 DEF After, Before, Own
    <3> QED BY <2>4, <3>1, ClientsKept
  <2>7. PICK C, R2, L2, K2, T2, n, l :
          /\ C = Clients /\ R2 = rc' /\ L2 = level' /\ K2 = kids' /\ T2 = table' /\ n = items
          /\ l = gcLevel
    OBVIOUS
  <2>8. /\ rc \in [Slots -> Nat] /\ kids \in KidsType /\ C \in ClientsType
        /\ table \in Seq(SUBSET Slots) /\ level \in [Slots -> Nat]
        /\ Exact(rc, level, kids, table, C) /\ n \in Nat /\ Counted(n, rc, table)
    BY <1>2, <2>7, ExactTypes DEF NodeInv, ItemInv, Counted, TablesOK
  <2>9. Deletion(rc, level, kids, table, x, R2, L2, K2, T2)
    BY <2>1, <2>2, <2>7 DEF Deletion, WithoutNode
  <2>10. Exact(R2, L2, K2, T2, C) /\ SameSupport(rc, R2, {x}) /\ R2[x] = 0
    <3>1. x \in Slots
      BY <1>3
    <3> QED BY <2>8, <2>9, <3>1, ExactDelete
  <2>11. T2 = [table EXCEPT ![l] = @ \ {x}] /\ l \in DOMAIN table
    BY <1>2, <1>3, <2>2, <2>7
  <2>12. T2 \in Seq(SUBSET Slots) /\ DOMAIN T2 = DOMAIN table /\ Len(T2) = Len(table)
    <3>1. table[l] \ {x} \in SUBSET Slots
      BY <2>8, <2>11
    <3> QED BY <2>8, <2>11, <3>1
  <2>13. T2[l] = table[l] \ {x} /\ \A m \in DOMAIN table \ {l} : T2[m] = table[m]
    BY <2>8, <2>11
  <2>14. OtherTables(table, T2, l)
    BY <2>8, <2>11, <2>12, <2>13 DEF OtherTables
  <2>15. Counted(n - 1, R2, T2) /\ n > 0
    <3>1. x \in table[l] /\ x \in Slots /\ rc[x] > 0
      BY <1>3, <2>7
    <3> QED BY <2>8, <2>10, <2>13, <2>14, <3>1, CountedDelete
  <2>16. NodeInv' /\ ItemInv'
    BY <2>2, <2>6, <2>7, <2>10, <2>15 DEF NodeInv, ItemInv, Counted
  <2>17. SlotInv'
    <3>1. Listing(free) /\ Apart(rc, FreeSet(free), Hands, pages * PageSlots)
      BY <1>2 DEF SlotInv, Hands
    <3>2. Spare(FreeSet(free), Hands, pages * PageSlots, t, x)
      BY <1>3, <3>1, ApartNode
    <3>3. \A u \in Threads \ {t} : Hand(u)' = Hand(u)
      BY <2>3 DEF Hand, EdgeStep
    <3>4. Hand(t)' = x /\ rc'[x] = 0 /\ SameSupport(rc, rc', {x})
      BY <2>3, <2>7, <2>10 DEF Hand
    <3>5. free' = free /\ pages' = pages
      BY <1>4
    <3> QED BY <3>1, <3>2, <3>3, <3>4, <3>5, SlotMoved
  <2>18. ASSUME NEW u \in Threads PROVE LockInv(u)'
    <3>1. DOMAIN table' = DOMAIN table /\ table[gcLevel] \ {x} \subseteq table'[gcLevel]
      BY <2>7, <2>12, <2>13
    <3> QED BY <1>5, <3>1
  <2>19. TablesOK'
    <3>1. items' \in Nat
      BY <2>2, <2>7, <2>8, <2>15
    <3>2. 0 \in 0 .. MaxLevels /\ NoKids \in Edges \X Edges
      BY ManagerAssumption, SlotFacts DEF NoKids
    <3>3. level' \in [Slots -> 0 .. MaxLevels] /\ kids' \in [Slots -> Edges \X Edges]
      BY <1>2, <2>2, <3>2 DEF TablesOK
    <3>4. table' \in Seq(SUBSET Slots) /\ Len(table') = Len(table) /\ DOMAIN table' = DOMAIN table
      BY <2>7, <2>12
    <3> QED BY <1>2, <1>4, <3>1, <3>3, <3>4 DEF TablesOK
  <2>20. TypeOK'
    <3>1. rc' \in [Slots -> Nat] /\ access' \in [Threads -> {"none", "shared", "exclusive"}]
      BY <1>4, <2>7, <2>10, TypeParts DEF SameSupport
    <3> QED BY <2>4, <2>19, <3>1, TypeParts DEF SlabTyped
  <2>21. ThreadInv'
    BY <2>4, <2>5, <2>18 DEF ThreadInv
  <2> QED BY <2>4, <2>16, <2>17, <2>20, <2>21 DEF IInv, SlabTyped
<1> QED BY <1>6, <1>7

\* The slot of such a node returns to the free list.
LEMMA GcFreeInv ==
  ASSUME IInv, NEW t \in Threads, GcFree(t)
  PROVE  IInv'
<1>1. pc[t] = "gc" /\ tableLock[gcLevel] = t /\ edge[t] # False
  BY DEF GcFree, Locked
<1>2. /\ AccessInv(t) /\ access[t] # "none" /\ alive /\ SlotInv /\ NodeInv /\ ItemInv
      /\ HandsOK /\ TablesOK
  BY <1>1, Collector
<1>3. PICK x \in Slots : x = edge[t]
  <2>1. edge[t] \in Edges /\ edge[t] # True
    BY <1>1, <1>2 DEF AccessInv, HandsOK
  <2> QED BY <1>1, <2>1 DEF Edges, Terminals
<1>4. /\ free' = <<x>> \o free /\ edge' = [edge EXCEPT ![t] = False]
      /\ UNCHANGED <<slabRc, pages, alive, items, rc, level, kids, table, tableLock, access,
                     gcOwner, handleVars, pc, want, gcLevel, todo>>
  BY <1>3 DEF GcFree, push_free, InHand, nodeVars
<1>5. EdgeStep(t) /\ pc'[t] = "gc" /\ edge'[t] = False
  BY <1>1, <1>2, <1>4, SlotFacts DEF EdgeStep, HandsOK
<1>6. /\ HandsOK' /\ SlabInv'
      /\ \A u \in Threads : Handles(u)' = Handles(u) /\ functions'[u] = functions[u]
      /\ \A u \in Threads \ {t} : AccessInv(u)'
      /\ \A u \in Threads \ {t} : Stays(u)
  BY <1>1, <1>5, EdgeStepHandles
<1>7. AccessInv(t)'
  BY <1>1, <1>2, <1>4, <1>5, <1>6, SlotFacts DEF AccessInv
<1>8. \A u \in Threads : LockInv(u)'
  <2>1. SameLocks(t)
    BY <1>4 DEF SameLocks
  <2> QED BY <2>1, LocksKept
<1>9. ThreadInv'
  BY <1>6, <1>7, <1>8 DEF ThreadInv
<1>10. SlotInv' /\ free' \in Seq(Slots)
  <2>1. PICK F, H, b, H2 : /\ F = FreeSet(free) /\ H = Hands /\ b = pages * PageSlots
                           /\ H2 = [u \in Threads |-> Hand(u)']
    OBVIOUS
  <2>2. Listing(free) /\ Apart(rc, F, H, b)
    BY <1>2, <2>1 DEF SlotInv, Hands
  <2>3. F \in SUBSET Slots
    BY <2>1, <2>2 DEF Listing, FreeSet
  <2>4. H[t] = x /\ H2[t] \notin Slots /\ \A u \in Threads \ {t} : H2[u] = H[u]
    <3>1. H[t] = x
      BY <1>1, <1>3, <2>1 DEF Hands, Hand
    <3>2. H2[t] = False
      BY <1>5, <2>1 DEF Hand
    <3>3. \A u \in Threads \ {t} : H2[u] = H[u]
      BY <1>5, <2>1 DEF Hands, Hand, EdgeStep
    <3> QED BY <3>1, <3>2, <3>3, SlotFacts
  <2>5. Apart(rc, F \cup {H[t]}, H2, b) /\ H[t] \notin F
    BY <2>2, <2>3, <2>4, ApartFree
  <2>6. Listing(<<x>> \o free) /\ FreeSet(<<x>> \o free) = FreeSet(free) \cup {x}
    BY <2>1, <2>2, <2>4, <2>5, PutSlot
  <2>7. free' \in Seq(Slots)
    BY <1>4, <2>6 DEF Listing
  <2> QED BY <1>4, <2>1, <2>4, <2>5, <2>6, <2>7 DEF SlotInv
<1>11. NodeInv'
  <2>1. \A s \in Slots : After(t, s) = Before(t, s)
    BY <1>1, <1>5, <1>6 DEF After, Before, Own
  <2>2. Exact(rc', level, kids, table, Clients')
    BY <1>2, <1>4, <1>6, <2>1, EdgesKept
  <2> QED BY <1>4, <2>2 DEF NodeInv
<1>12. ItemInv'
  BY <1>2, <1>4 DEF ItemInv
<1>13. TypeOK'
  <2>1. TablesOK'
    BY <1>2, <1>4 DEF TablesOK
  <2>2. /\ slabRc \in Nat /\ alive \in BOOLEAN /\ rc \in [Slots -> Nat] /\ pages \in 0 .. MaxPages
        /\ access \in [Threads -> {"none", "shared", "exclusive"}]
    BY DEF IInv, TypeOK
  <2> QED BY <1>4, <1>6, <1>10, <2>1, <2>2, TypeParts
<1> QED BY <1>6, <1>9, <1>10, <1>11, <1>12, <1>13 DEF IInv

-----------------------------------------------------------------------------
(* The invariant holds in every state.                                     *)

\* The invariant holds of a new manager,
LEMMA InitInv == Init => IInv
<1> SUFFICES ASSUME Init PROVE IInv
  OBVIOUS
<1>1. PICK t \in Threads : refs = [u \in Threads |-> IF u = t THEN 1 ELSE 0]
  BY DEF Init
<1>2. NoKids \in Edges \X Edges /\ False \in Edges
  BY SlotFacts DEF NoKids
<1>3. /\ slabRc = 1 /\ items = 0 /\ free = PageOf(1) /\ pages = 1 /\ alive = TRUE
      /\ rc = [s \in Slots |-> 0]
  BY DEF Init, SlabInit
<1>4. Listing(free) /\ (\A x \in FreeSet(free) : x <= pages * PageSlots)
  <2>1. PICK p, b, c : p = 0 /\ b = p * PageSlots /\ c = (p + 1) * PageSlots
    OBVIOUS
  <2>2. p \in Nat /\ p < MaxPages /\ p + 1 = 1
    BY <2>1, SlabAssumption
  <2>3. Listing(PageOf(p + 1)) /\ \A x \in FreeSet(PageOf(p + 1)) : x > b /\ x <= c
    BY <2>1, <2>2, NewPage
  <2>4. free = PageOf(p + 1) /\ pages = p + 1
    BY <1>3, <2>2
  <2> QED BY <2>1, <2>3, <2>4
<1>5. HandsOK
  BY <1>1, <1>2 DEF Init, HandsOK, Nothing
<1>6. TypeOK
  <2>1. 1 \in 0 .. MaxPages /\ 0 \in 0 .. MaxLevels /\ MaxLevels \in Nat
    BY SlabAssumption, ManagerAssumption
  <2>2. free \in Seq(Slots)
    BY <1>4 DEF Listing
  <2>3. table \in Seq(SUBSET Slots) /\ Len(table) = 0 /\ tableLock \in [DOMAIN table -> Threads \cup {NoThread}]
    BY DEF Init
  <2> QED BY <1>2, <1>3, <1>5, <2>1, <2>2, <2>3 DEF TypeOK, Init, HandsOK
<1>7. ASSUME NEW u \in Threads PROVE HeldBy(u) = 0
  <2>1. functions[u] = Nothing
    BY DEF Init
  <2>2. \A e \in Edges : Nothing[e] = 0
    BY DEF Nothing
  <2>3. SumFunctionOnSet(Nothing, Edges) = 0
    BY <2>2, SlotFacts, SumZero
  <2> QED BY <2>1, <2>3 DEF HeldBy
<1>8. SlabInv
  <2> DEFINE f == [u \in Threads |-> HoldsOfSlab(u)]
  <2>1. ASSUME NEW u \in Threads PROVE f[u] = IF u = t THEN 1 ELSE 0
    BY <1>1, <1>7 DEF HoldsOfSlab, Handles, Init
  <2>2. SlabInv <=> slabRc = SumFunctionOnSet(f, Threads) /\ (alive <=> slabRc > 0)
    BY DEF SlabInv
  <2> HIDE DEF f
  <2>3. IsFiniteSet(Threads) /\ IsFiniteSet(Threads \ {t})
    BY SlotFacts, FS_Subset
  <2>4. \A u \in Threads : f[u] \in Int
    BY <2>1
  <2>5. SumFunctionOnSet(f, Threads) = f[t] + SumFunctionOnSet(f, Threads \ {t})
    BY <2>3, <2>4, SumStep
  <2>6. \A u \in Threads \ {t} : f[u] = 0
    BY <2>1
  <2>7. SumFunctionOnSet(f, Threads \ {t}) = 0
    BY <2>3, <2>6, SumZero
  <2>8. SumFunctionOnSet(f, Threads) = 1
    BY <2>1, <2>5, <2>7
  <2> QED BY <1>3, <2>2, <2>8
<1>9. ThreadInv
  BY DEF Init, ThreadInv, AccessInv, LockInv
<1>10. SlotInv
  <2>1. \A u \in Threads : Hand(u) \notin Slots
    BY SlotFacts DEF Hand, Init
  <2>2. PICK b, F : b = pages * PageSlots /\ F = FreeSet(free)
    OBVIOUS
  <2>3. \A s \in Slots : rc[s] = 0
    BY <1>3
  <2>4. F \subseteq Slots /\ \A x \in F : x <= b
    BY <1>4, <2>2 DEF Listing, FreeSet
  <2>5. Apart(rc, F, [u \in Threads |-> Hand(u)], b)
    BY <2>1, <2>3, <2>4 DEF Apart
  <2> QED BY <1>4, <2>2, <2>5 DEF SlotInv
<1>11. NodeInv
  <2>1. ASSUME NEW s \in Slots PROVE InNodes(kids, s) = 0
    <3> DEFINE f == [p \in Slots |-> Occurs(s, kids[p])]
    <3>1. Occurs(s, NoKids) = One(False, s) + One(False, s)
      BY OccursTwo DEF NoKids
    <3>2. False # s
      BY SlotFacts
    <3>3. \A p \in Slots : f[p] = 0
      BY <3>1, <3>2 DEF One, Init
    <3>4. InNodes(kids, s) = SumFunctionOnSet(f, Slots)
      BY DEF InNodes
    <3> HIDE DEF f
    <3> QED BY <3>3, <3>4, SlotFacts, SumZero
  <2>2. ASSUME NEW s \in Slots PROVE InClients(Clients, s) = 0
    <3> DEFINE f == [u \in Threads |-> Clients[u][s]]
    <3>1. ASSUME NEW u \in Threads PROVE f[u] = 0
      <4>1. functions[u][s] = 0 /\ pc[u] = "idle"
        BY SlotFacts DEF Init, Nothing
      <4> QED BY <4>1, ClientsValue DEF Own
    <3>2. InClients(Clients, s) = SumFunctionOnSet(f, Threads)
      BY DEF InClients
    <3> HIDE DEF f
    <3> QED BY <3>1, <3>2, SlotFacts, SumZero
  <2>3. \A s \in Slots : rc[s] = 0 /\ kids[s] = NoKids
    BY <1>3 DEF Init
  <2>4. DOMAIN table = {}
    BY DEF Init
  <2> QED BY <2>1, <2>2, <2>3, <2>4 DEF NodeInv, Exact
<1>12. ItemInv
  <2>1. Live(rc) = {} /\ Cardinality({}) = 0
    BY <1>3, FS_EmptySet DEF Live
  <2>2. Entries(table) = 0
    <3>1. DOMAIN table = {}
      BY DEF Init
    <3> QED BY <3>1, SumEmpty DEF Entries
  <2> QED BY <1>3, <2>1, <2>2 DEF ItemInv
<1> QED BY <1>6, <1>8, <1>9, <1>10, <1>11, <1>12 DEF IInv

\* is kept by every step,
LEMMA NextInv == ASSUME IInv, [Next]_vars PROVE IInv'
<1>1. CASE UNCHANGED vars
  BY <1>1, StutterInv
<1>2. CASE Next
  <2>1. PICK t \in Threads :
          \/ \E u \in Threads : CloneRef(t, u) \/ CloneSlab(t, u)
          \/ DropRef(t)
          \/ \E e \in Edges : CloneNode(t, e) \/ DropNode(t, e) \/ IntoEdge(t, e)
          \/ DropSlab(t)
          \/ EnterShared(t) \/ EnterExclusive(t) \/ Leave(t)
          \/ FromEdge(t) \/ DropEdge(t)
          \/ GetTerminal(t, True)
          \/ \E l \in DOMAIN table, e \in Reachable(t) : Find(t, l, <<True, e>>)
          \/ Alloc(t) \/ Write(t)
          \/ AddLevel(t)
          \/ GcBegin(t) \/ GcLockLevel(t) \/ GcFree(t) \/ GcEndLevel(t)
          \/ \E s \in todo : GcVisit(t, s)
    BY <1>2 DEF Next
  <2>2. ASSUME NEW l \in DOMAIN table, NEW e \in Reachable(t), Find(t, l, <<True, e>>)
        PROVE  IInv'
    <3>1. NodeInv
      BY <2>2, InManager DEF Find
    <3>2. e \in Edges /\ (e \in Slots => rc[e] > 0) /\ True \in Edges /\ True \notin Slots
      BY <3>1, ReachableNode, SlotFacts
    <3> QED BY <2>2, <3>2, FindInv
  <2>3. CASE \E u \in Threads : CloneRef(t, u) \/ CloneSlab(t, u)
    BY <2>3, CloneRefInv, CloneSlabInv
  <2>4. CASE \E e \in Edges : CloneNode(t, e) \/ DropNode(t, e) \/ IntoEdge(t, e)
    BY <2>4, CloneNodeInv, DropNodeInv, IntoEdgeInv
  <2>5. CASE DropRef(t) \/ DropSlab(t)
    BY <2>5, DropRefInv, DropSlabInv
  <2>6. CASE EnterShared(t) \/ EnterExclusive(t) \/ Leave(t)
    BY <2>6, EnterInv
  <2>7. CASE FromEdge(t) \/ DropEdge(t) \/ GetTerminal(t, True)
    BY <2>7, FromEdgeInv, DropEdgeInv, GetTerminalInv
  <2>8. CASE Alloc(t) \/ Write(t) \/ AddLevel(t)
    BY <2>8, AllocInv, WriteInv, AddLevelInv
  <2>9. CASE GcBegin(t) \/ GcLockLevel(t) \/ GcFree(t) \/ GcEndLevel(t)
    BY <2>9, GcBeginInv, GcLockLevelInv, GcFreeInv, GcEndLevelInv
  <2>10. CASE \E s \in todo : GcVisit(t, s)
    BY <2>10, GcVisitInv
  <2> QED BY <2>1, <2>2, <2>3, <2>4, <2>5, <2>6, <2>7, <2>8, <2>9, <2>10
<1> QED BY <1>1, <1>2

\* and so always holds.
LEMMA Invariance == Spec => []IInv
BY InitInv, NextInv, PTL DEF Spec

-----------------------------------------------------------------------------
(* What the invariant says.                                                *)

\* Whoever is inside the manager, clones or drops finds the slab alive.
LEMMA OutlivesFollows == IInv => SlabOutlivesHandles
<1> SUFFICES ASSUME IInv PROVE SlabOutlivesHandles
  OBVIOUS
<1>1. ASSUME NEW t \in Threads, access[t] # "none" \/ pc[t] # "idle" PROVE alive
  <2>1. AccessInv(t)
    BY DEF IInv, ThreadInv
  <2>2. HandsOK
    BY TypedHands
  <2>3. CASE access[t] # "none" \/ pc[t] \in {"made", "owned", "alloc", "write", "gc"}
    BY <2>3, InManager
  <2>4. CASE pc[t] = "clone"
    <3>1. Handles(t) > 0 /\ Handles(t) \in Nat /\ HoldsOfSlab(t) \in Nat /\ Handles(t) <= HoldsOfSlab(t)
      BY <2>1, <2>2, <2>4, HandlesType DEF AccessInv
    <3> QED BY <3>1, SlabAlive
  <2>5. CASE pc[t] = "drop"
    BY <2>2, <2>5, HandlesType, SlabAlive
  <2> QED BY <1>1, <2>2, <2>3, <2>4, <2>5 DEF HandsOK
<1> QED BY <1>1 DEF IInv, SlabInv, SlabOutlivesHandles

\* A slot in the free list has no item and is in nobody's hands.
LEMMA FreeListFollows == IInv => FreeListSound
<1> SUFFICES ASSUME IInv, alive PROVE FreeListSound
  BY DEF FreeListSound
<1> DEFINE H == [u \in Threads |-> Hand(u)]
<1>1. Listing(free) /\ Apart(rc, FreeSet(free), H, pages * PageSlots)
  BY DEF IInv, SlotInv
<1>2. ASSUME NEW k \in DOMAIN free
      PROVE  /\ rc[free[k]] = 0
             /\ \A t \in Threads : pc[t] \in {"write", "gc"} => edge[t] # free[k]
  <2>1. free[k] \in FreeSet(free) /\ free[k] \in Slots
    BY <1>1 DEF FreeSet, Listing
  <2>2. rc[free[k]] = 0
    BY <1>1, <2>1 DEF Apart
  <2>3. ASSUME NEW t \in Threads, pc[t] \in {"write", "gc"} PROVE edge[t] # free[k]
    <3>1. H[t] = edge[t]
      BY <2>3 DEF Hand
    <3>2. H[t] \in Slots => H[t] \notin FreeSet(free)
      BY <1>1 DEF Apart
    <3> QED BY <2>1, <3>1, <3>2
  <2> QED BY <2>2, <2>3
<1> QED BY <1>1, <1>2 DEF FreeListSound, Listing

\* The counts are the edges, that of the unique table included.
LEMMA CountsFollow == IInv => CountsExact
<1> SUFFICES ASSUME IInv, alive, NEW s \in Slots
             PROVE  /\ rc[s] = Cardinality(Tables(s))
                        + SumFunctionOnSet([p \in Slots |-> Occurs(s, kids[p])], Slots)
                        + SumFunctionOnSet([t \in Threads |-> OwnedBy(t, s)], Threads)
                    /\ rc[s] > 0 => Tables(s) = {level[s]}
  BY DEF CountsExact
<1>1. /\ rc[s] = (IF rc[s] > 0 THEN 1 ELSE 0) + InNodes(kids, s) + InClients(Clients, s)
      /\ Tables(s) = (IF rc[s] > 0 THEN {level[s]} ELSE {})
  BY DEF IInv, NodeInv, Exact, Tables
<1>2. InNodes(kids, s) = SumFunctionOnSet([p \in Slots |-> Occurs(s, kids[p])], Slots)
  BY DEF InNodes
<1>3. InClients(Clients, s) = SumFunctionOnSet([t \in Threads |-> OwnedBy(t, s)], Threads)
  <2>1. [t \in Threads |-> Clients[t][s]] = [t \in Threads |-> OwnedBy(t, s)]
    BY DEF Clients
  <2> QED BY <2>1 DEF InClients
<1>4. Cardinality(Tables(s)) = (IF rc[s] > 0 THEN 1 ELSE 0)
  BY <1>1, FS_EmptySet, FS_Singleton
<1>5. rc[s] = Cardinality(Tables(s)) + InNodes(kids, s) + InClients(Clients, s)
  BY <1>1, <1>4
<1> QED BY <1>1, <1>2, <1>3, <1>5

\* The nodes are among the slots taken.
LEMMA ItemsFollow == IInv => ItemsCounted
<1> SUFFICES ASSUME IInv, alive PROVE ItemsCounted
  BY DEF ItemsCounted
<1>1. items = Cardinality(Live(rc)) /\ items = Entries(table)
  BY DEF IInv, ItemInv
<1>2. Apart(rc, FreeSet(free), [u \in Threads |-> Hand(u)], pages * PageSlots)
  BY DEF IInv, SlotInv
<1>3. Taken \in SUBSET Slots
  BY DEF Taken
<1>4. Live(rc) \subseteq Taken
  <2>1. ASSUME NEW s \in Slots, rc[s] > 0
        PROVE  s <= pages * PageSlots /\ s \notin FreeSet(free)
    <3>1. s <= pages * PageSlots
      BY <1>2, <2>1 DEF Apart
    <3>2. s \in FreeSet(free) => rc[s] = 0
      BY <1>2 DEF Apart
    <3> QED BY <2>1, <3>1, <3>2
  <2> QED BY <2>1 DEF Live, Taken, FreeSet
<1>5. Cardinality(Live(rc)) <= Cardinality(Taken)
  BY <1>3, <1>4, SlotSets, FS_Subset
<1> QED BY <1>1, <1>5 DEF ItemsCounted, Entries

-----------------------------------------------------------------------------
(* The theorems.                                                           *)

\* Every variable of the manager and of the slab stays in its type: no count
\* becomes negative and every edge leads to a terminal or to a slot.
THEOREM TypeCorrect == Spec => []TypeOK
<1>1. IInv => TypeOK
  BY DEF IInv
<1> QED BY <1>1, Invariance, PTL

\* ArcSlab::release never drops the slab while a ManagerRef or a function, or
\* a clone or a drop under way, still refers to it, and drops it with the last.
THEOREM SlabOutlives == Spec => []SlabOutlivesHandles
BY Invariance, OutlivesFollows, PTL

\* PageList::free_slot always points to a free slot, and no slot is handed out
\* twice, however get_slot and free_slot of several threads interleave.
THEOREM FreeListIsSound == Spec => []FreeListSound
BY Invariance, FreeListFollows, PTL

\* The count in every node is the number of edges to it, in tables, nodes and
\* clients, whatever clones, drops, insertions and collections are under way.
THEOREM CountsAreExact == Spec => []CountsExact
BY Invariance, CountsFollow, PTL

\* num_inner_nodes is the number of nodes in the unique tables and bounded by
\* the slots taken.
THEOREM ItemsAreCounted == Spec => []ItemsCounted
BY Invariance, ItemsFollow, PTL

=============================================================================
