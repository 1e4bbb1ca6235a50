--------------------------- MODULE ReorderProofs ---------------------------
(***************************************************************************)
(* Proofs about Reorder: the swaps that are under way at the same time are *)
(* on disjoint pairs of levels.                                            *)
(***************************************************************************)
EXTENDS Reorder, NumberTheorems

-----------------------------------------------------------------------------
(* level_down keeps the set of levels, and the tables finite.              *)

Shape(d, S) ==
  /\ "table" \in DOMAIN d
  /\ DOMAIN d.table = S
  /\ \A l \in S : IsFiniteSet(d.table[l])

\* Counting a reference keeps the tables.
LEMMA CloneShape == ASSUME NEW d, NEW S, NEW e, Shape(d, S) PROVE Shape(clone_edge(d, e), S)
BY DEF Shape, clone_edge

\* Dropping a reference keeps the tables.
LEMMA DropShape == ASSUME NEW d, NEW S, NEW e, Shape(d, S) PROVE Shape(drop_edge(d, e), S)
BY DEF Shape, drop_edge

\* Dropping the edge of a table that has been taken out keeps the tables.
LEMMA UniqueShape ==
  ASSUME NEW d, NEW S, NEW e, Shape(d, S)
  PROVE  Shape(drop_from_unique_table(d, e), S)
<1> DEFINE r == [d EXCEPT !.rc[e] = @ - 1]
<1>1. Shape(r, S)
  BY DEF Shape
<1> HIDE DEF r
<1> DEFINE q == [r EXCEPT !.kids[e] = Free]
<1>2. Shape(q, S)
  BY <1>1 DEF Shape
<1> HIDE DEF q
<1>3. Shape(drop_edge(drop_edge(q, d.kids[e][1]), d.kids[e][2]), S)
  BY <1>2, DropShape
<1> QED BY <1>1, <1>3 DEF drop_from_unique_table, r, q

\* A table with one entry more is finite.
LEMMA TableGrows ==
  ASSUME NEW d, NEW S, NEW l, NEW x, Shape(d, S)
  PROVE  Shape([d EXCEPT !.table[l] = @ \cup {x}], S)
<1>1. l \in S => IsFiniteSet(d.table[l] \cup {x})
  BY FS_AddElement DEF Shape
<1> QED BY <1>1 DEF Shape

\* insert keeps the set of levels.
LEMMA InsertShape ==
  ASSUME NEW d, NEW S, NEW l, NEW e, Shape(d, S)
  PROVE  Shape(insert(d, l, e), S)
<1> DEFINE x == [edge |-> e, key |-> d.kids[e]]
<1>1. Shape([d EXCEPT !.table[l] = @ \cup {x}], S)
  <2> HIDE DEF x
  <2> QED BY TableGrows
<1>2. Shape(drop_edge(d, e), S)
  BY DropShape
<1> QED BY <1>1, <1>2 DEF insert

\* get_or_insert keeps the set of levels.
LEMMA GetOrInsertShape ==
  ASSUME NEW d, NEW S, NEW l, NEW k, Shape(d, S)
  PROVE  Shape(get_or_insert(d, l, k).dd, S)
<1>1. CASE Found(d, d.table[l], k) # {}
  <2> DEFINE e == Get(d, d.table[l], k)
  <2>1. Shape(drop_edge(drop_edge(d, k[1]), k[2]), S)
    BY DropShape
  <2>2. Shape(clone_edge(drop_edge(drop_edge(d, k[1]), k[2]), e), S)
    BY <2>1, CloneShape
  <2>3. get_or_insert(d, l, k).dd = clone_edge(drop_edge(drop_edge(d, k[1]), k[2]), e)
    BY <1>1 DEF get_or_insert
  <2> QED BY <2>2, <2>3
<1>2. CASE Found(d, d.table[l], k) = {}
  <2> DEFINE e == Min(Unused(d))
             x == [edge |-> e, key |-> k]
             r == [d EXCEPT !.level[e] = l, !.kids[e] = k, !.rc[e] = 2]
  <2>1. Shape(r, S)
    BY DEF Shape
  <2>2. get_or_insert(d, l, k).dd =
          [d EXCEPT !.level[e] = l, !.kids[e] = k, !.rc[e] = 2, !.table[l] = @ \cup {x}]
    BY <1>2 DEF get_or_insert
  <2>3. get_or_insert(d, l, k).dd = [r EXCEPT !.table[l] = @ \cup {x}]
    BY <2>2
  <2> HIDE DEF r, x
  <2>4. Shape([r EXCEPT !.table[l] = @ \cup {x}], S)
    BY <2>1, TableGrows
  <2> QED BY <2>3, <2>4
<1> QED BY <1>1, <1>2

\* remove keeps the set of levels.
LEMMA RemoveShape ==
  ASSUME NEW d, NEW S, NEW l, NEW e, Shape(d, S)
  PROVE  Shape(remove(d, l, e), S)
<1> DEFINE hit == Found(d, d.table[l], d.kids[e])
           r == [d EXCEPT !.table[l] = @ \ hit]
<1>1. Shape(r, S)
  <2> HIDE DEF hit
  <2>1. l \in S => IsFiniteSet(d.table[l] \ hit)
    <3>1. ASSUME l \in S PROVE IsFiniteSet(d.table[l])
      BY <3>1 DEF Shape
    <3> QED BY <3>1, FS_Difference
  <2> QED BY <2>1 DEF Shape
<1>2. remove(d, l, e) = IF hit = {} THEN d
                        ELSE drop_from_unique_table(r, Get(d, d.table[l], d.kids[e]))
  BY DEF remove
<1> HIDE DEF hit, r
<1>3. Shape(drop_from_unique_table(r, Get(d, d.table[l], d.kids[e])), S)
  BY <1>1, UniqueShape
<1> QED BY <1>2, <1>3

\* reduce_and_get keeps the set of levels.
LEMMA ReduceShape ==
  ASSUME NEW d, NEW S, NEW taken, NEW lower, NEW k, Shape(d, S)
  PROVE  Shape(reduce_and_get(d, taken, lower, k).dd, S)
<1> DEFINE c == clone_edge(clone_edge(d, k[1]), k[2])
           e == Get(c, taken, k)
<1>1. Shape(c, S)
  BY CloneShape
<1> HIDE DEF c
<1>2. Shape(drop_edge(c, k[2]), S)
  BY <1>1, DropShape
<1>3. Shape(drop_edge(drop_edge(c, k[1]), k[2]), S)
  BY <1>1, DropShape
<1>4. Shape(clone_edge(drop_edge(drop_edge(c, k[1]), k[2]), e), S)
  BY <1>3, CloneShape
<1>5. Shape(get_or_insert(c, lower, k).dd, S)
  BY <1>1, GetOrInsertShape
<1>6. \/ reduce_and_get(d, taken, lower, k).dd = drop_edge(c, k[2])
      \/ reduce_and_get(d, taken, lower, k).dd =
           clone_edge(drop_edge(drop_edge(c, k[1]), k[2]), e)
      \/ reduce_and_get(d, taken, lower, k).dd = get_or_insert(c, lower, k).dd
  BY DEF reduce_and_get, c
<1> QED BY <1>2, <1>4, <1>5, <1>6

\* So do the three outcomes of a visit.
LEMMA VisitShape ==
  ASSUME NEW d, NEW S, NEW taken, NEW u, NEW e, Shape(d, S)
  PROVE  Shape(visit(d, taken, u, e), S)
<1>1. Shape([d EXCEPT !.panicked = TRUE], S)
  BY DEF Shape
<1>2. Shape(move_down(d, u, e), S)
  <2>1. Shape([d EXCEPT !.level[e] = u + 1], S)
    BY DEF Shape
  <2>2. Shape(clone_edge([d EXCEPT !.level[e] = u + 1], e), S)
    BY <2>1, CloneShape
  <2> QED BY <2>2, InsertShape DEF move_down
<1>3. Shape(rebuild(d, taken, u, e), S)
  <2> DEFINE kids == d.kids[e]
             g == [i \in 1 .. 2 |-> grandchildren(d, u + 1, kids[i])]
             r1 == reduce_and_get(d, taken, u + 1, <<g[1][1], g[2][1]>>)
             r2 == reduce_and_get(r1.dd, taken, u + 1, <<g[1][2], g[2][2]>>)
             one == remove_if_last(r2.dd, u, kids[1])
             freed == remove_if_last(one, u, kids[2])
             kept == insert(clone_edge(freed, e), u, e)
             first == set_child(kept, e, 1, r1.edge)
  <2>1. rebuild(d, taken, u, e) = set_child(first, e, 2, r2.edge)
    BY DEF rebuild
  <2>2. Shape(r1.dd, S)
    <3> HIDE DEF g
    <3> QED BY ReduceShape
  <2>3. Shape(r2.dd, S)
    <3> HIDE DEF g, r1
    <3> QED BY <2>2, ReduceShape
  <2> HIDE DEF kids, g, r1, r2
  <2>4. Shape(one, S)
    BY <2>3, RemoveShape DEF remove_if_last
  <2> HIDE DEF one
  <2>5. Shape(freed, S)
    BY <2>4, RemoveShape DEF remove_if_last
  <2> HIDE DEF freed
  <2>6. Shape(kept, S)
    BY <2>5, CloneShape, InsertShape
  <2> HIDE DEF kept
  <2>7. ASSUME NEW a, NEW i, NEW c, Shape(a, S) PROVE Shape(set_child(a, e, i, c), S)
    <3>1. Shape([a EXCEPT !.kids[e][i] = c], S)
      BY <2>7 DEF Shape
    <3> QED BY <3>1, DropShape DEF set_child
  <2>8. Shape(first, S)
    BY <2>6, <2>7
  <2> HIDE DEF first
  <2> QED BY <2>1, <2>7, <2>8
<1> QED BY <1>1, <1>2, <1>3 DEF visit

\* The loop over the nodes of the old upper level is a recursion that has a
\* solution, and each round of it keeps the set of levels.
LEMMA VisitedShape ==
  ASSUME NEW d, NEW S, NEW taken, NEW u, NEW visits, Len(visits) \in Nat, Shape(d, S)
  PROVE  Shape(Visited(d, taken, u, visits), S)
<1> DEFINE n == Len(visits)
           Solves(g, m) == g = [i \in 0 .. m |->
             IF i = 0 THEN d ELSE visit(g[i - 1], taken, u, visits[i])]
           Solved == {m \in 0 .. n : \E g : Solves(g, m)}
<1>1. 0 .. n \subseteq Solved
  <2>1. 0 \in Solved
    <3>1. Solves([i \in 0 .. 0 |-> d], 0)
      OBVIOUS
    <3> HIDE DEF Solves
    <3> QED BY <3>1
  <2>2. ASSUME NEW m \in 0 .. n - 1, m \in Solved PROVE m + 1 \in Solved
    <3>1. PICK g : Solves(g, m)
      BY <2>2
    <3> DEFINE h == [i \in 0 .. m + 1 |->
                       IF i = m + 1 THEN visit(g[m], taken, u, visits[m + 1]) ELSE g[i]]
    <3>2. ASSUME NEW i \in 0 .. m + 1
          PROVE  h[i] = IF i = 0 THEN d ELSE visit(h[i - 1], taken, u, visits[i])
      <4>1. CASE i = m + 1
        <5>1. h[i] = visit(g[m], taken, u, visits[m + 1]) /\ h[m] = g[m]
          BY <4>1
        <5>2. i - 1 = m /\ i # 0
          BY <4>1
        <5> HIDE DEF h
        <5> QED BY <4>1, <5>1, <5>2
      <4>2. CASE i # m + 1
        <5>1. h[i] = g[i] /\ i \in 0 .. m
          BY <4>2
        <5>2. i # 0 => h[i - 1] = g[i - 1]
          BY <4>2
        <5>3. g[i] = IF i = 0 THEN d ELSE visit(g[i - 1], taken, u, visits[i])
          BY <3>1, <5>1
        <5> HIDE DEF h
        <5> QED BY <5>1, <5>2, <5>3
      <4> QED BY <4>1, <4>2
    <3>3. Solves(h, m + 1)
      BY <3>2
    <3> HIDE DEF h, Solves
    <3>4. m + 1 \in 0 .. n
      OBVIOUS
    <3> QED BY <3>3, <3>4
  <2> HIDE DEF Solved
  <2> QED BY <2>1, <2>2, InductionUpTo
<1> DEFINE after == CHOOSE g : Solves(g, n)
<1>2. Solves(after, n)
  BY <1>1
<1>3. Visited(d, taken, u, visits) = after[n]
  BY DEF Visited
<1> HIDE DEF after, Solved
<1> DEFINE Good == {i \in 0 .. n : Shape(after[i], S)}
<1>4. 0 .. n \subseteq Good
  <2>1. 0 \in Good
    BY <1>2
  <2>2. ASSUME NEW i \in 0 .. n - 1, i \in Good PROVE i + 1 \in Good
    <3>1. after[i + 1] = visit(after[i], taken, u, visits[i + 1])
      BY <1>2
    <3> HIDE DEF Solves
    <3>2. Shape(visit(after[i], taken, u, visits[i + 1]), S)
      BY <2>2, VisitShape
    <3> QED BY <3>1, <3>2
  <2> HIDE DEF Good, Solves
  <2> QED BY <2>1, <2>2, InductionUpTo
<1> HIDE DEF Solves
<1> QED BY <1>3, <1>4

\* The same for the loop that drops the edges of the old table: it has a
\* solution, and each round of it keeps the set of levels.
LEMMA DroppedShape ==
  ASSUME NEW d, NEW S, NEW visits, Len(visits) \in Nat, Shape(d, S)
  PROVE  Shape(Dropped(d, visits), S)
<1> DEFINE n == Len(visits)
           Solves(g, m) == g = [i \in 0 .. m |->
             IF i = 0 THEN d ELSE drop_from_unique_table(g[i - 1], visits[i])]
           Solved == {m \in 0 .. n : \E g : Solves(g, m)}
<1>1. 0 .. n \subseteq Solved
  <2>1. 0 \in Solved
    <3>1. Solves([i \in 0 .. 0 |-> d], 0)
      OBVIOUS
    <3> HIDE DEF Solves
    <3> QED BY <3>1
  <2>2. ASSUME NEW m \in 0 .. n - 1, m \in Solved PROVE m + 1 \in Solved
    <3>1. PICK g : Solves(g, m)
      BY <2>2
    <3> DEFINE h == [i \in 0 .. m + 1 |->
                       IF i = m + 1 THEN drop_from_unique_table(g[m], visits[m + 1]) ELSE g[i]]
    <3>2. ASSUME NEW i \in 0 .. m + 1
          PROVE  h[i] = IF i = 0 THEN d ELSE drop_from_unique_table(h[i - 1], visits[i])
      <4>1. CASE i = m + 1
        <5>1. h[i] = drop_from_unique_table(g[m], visits[m + 1]) /\ h[m] = g[m]
          BY <4>1
        <5>2. i - 1 = m /\ i # 0
          BY <4>1
        <5> HIDE DEF h
        <5> QED BY <4>1, <5>1, <5>2
      <4>2. CASE i # m + 1
        <5>1. h[i] = g[i] /\ i \in 0 .. m
          BY <4>2
        <5>2. i # 0 => h[i - 1] = g[i - 1]
          BY <4>2
        <5>3. g[i] = IF i = 0 THEN d ELSE drop_from_unique_table(g[i - 1], visits[i])
          BY <3>1, <5>1
        <5> HIDE DEF h
        <5> QED BY <5>1, <5>2, <5>3
      <4> QED BY <4>1, <4>2
    <3>3. Solves(h, m + 1)
      BY <3>2
    <3> HIDE DEF h, Solves
    <3>4. m + 1 \in 0 .. n
      OBVIOUS
    <3> QED BY <3>3, <3>4
  <2> HIDE DEF Solved
  <2> QED BY <2>1, <2>2, InductionUpTo
<1> DEFINE after == CHOOSE g : Solves(g, n)
<1>2. Solves(after, n)
  BY <1>1
<1>3. Dropped(d, visits) = after[n]
  BY DEF Dropped
<1> HIDE DEF after, Solved
<1> DEFINE Good == {i \in 0 .. n : Shape(after[i], S)}
<1>4. 0 .. n \subseteq Good
  <2>1. 0 \in Good
    BY <1>2
  <2>2. ASSUME NEW i \in 0 .. n - 1, i \in Good PROVE i + 1 \in Good
    <3>1. after[i + 1] = drop_from_unique_table(after[i], visits[i + 1])
      BY <1>2
    <3> HIDE DEF Solves
    <3>2. Shape(drop_from_unique_table(after[i], visits[i + 1]), S)
      BY <2>2, UniqueShape
    <3> QED BY <3>1, <3>2
  <2> HIDE DEF Good, Solves
  <2> QED BY <2>1, <2>2, InductionUpTo
<1> HIDE DEF Solves
<1> QED BY <1>3, <1>4

\* An order of visits is a sequence.
LEMMA VisitsAreSequences ==
  ASSUME NEW d, NEW S, Shape(d, S), NEW u \in S, NEW visits \in Visits(d, u)
  PROVE  Len(visits) \in Nat
<1> DEFINE T == d.table[u]
           E == {x.edge : x \in T}
           f == [x \in T |-> x.edge]
<1>1. IsFiniteSet(T)
  BY DEF Shape
<1>2. f \in Surjection(T, E)
  BY DEF Surjection
<1> HIDE DEF T, f, E
<1>3. IsFiniteSet(E)
  BY <1>1, <1>2, FS_Surjection
<1>4. Cardinality(E) \in Nat
  BY <1>3, FS_CardinalityType
<1>5. visits \in [1 .. Cardinality(E) -> E]
  BY DEF Visits, SetToSeqs, E, T
<1> QED BY <1>4, <1>5

\* level_down keeps the set of levels, and the tables finite.
LEMMA LevelDownShape ==
  ASSUME NEW d, NEW S, Shape(d, S), NEW u \in S, u + 1 \in S, NEW visits \in Visits(d, u)
  PROVE  Shape(level_down(d, u, visits), S)
<1> DEFINE s == swap(d, u)
           start == [set_levels(s, u) EXCEPT !.table[u + 1] = {}]
           visited == Visited(start, s.table[u + 1], u, visits)
<1>1. Shape(s, S)
  BY DEF Shape, swap
<1> HIDE DEF s
<1>2. Shape(set_levels(s, u), S)
  BY <1>1 DEF Shape, set_levels
<1>3. Shape(start, S)
  BY <1>2, FS_EmptySet DEF Shape
<1> HIDE DEF start
<1>4. Len(visits) \in Nat
  BY VisitsAreSequences
<1>5. Shape(visited, S)
  BY <1>3, <1>4, VisitedShape
<1>6. level_down(d, u, visits) = IF visited.panicked THEN visited ELSE Dropped(visited, visits)
  BY DEF level_down, start, s
<1> HIDE DEF visited
<1>7. Shape(Dropped(visited, visits), S)
  BY <1>4, <1>5, DroppedShape
<1> QED BY <1>5, <1>6, <1>7

-----------------------------------------------------------------------------
(* The swaps the dispatcher has sent and not heard back from, as they move *)
(* from the task channel tq to the workers wk and on to the done channel   *)
(* dq. L is the set of levels, bl says which are blocked, c is the counter *)
(* of the dispatcher.                                                      *)

Apart(u, v) == u + 1 < v \/ v + 1 < u

JobTypes(L, tq, dq, wk, bl, c) ==
  /\ L \subseteq Nat
  /\ tq \in Seq(L) /\ dq \in Seq(L)
  /\ wk \in [Workers -> L \cup {NoTask}]
  /\ bl \in [L -> BOOLEAN]
  /\ c \in Nat

Busy(wk) == {w \in Workers : wk[w] # NoTask}

\* No two swaps overlap, wherever they are.
JobsApart(tq, dq, wk) ==
  /\ \A j, k \in DOMAIN tq : j # k => Apart(tq[j], tq[k])
  /\ \A j, k \in DOMAIN dq : j # k => Apart(dq[j], dq[k])
  /\ \A j \in DOMAIN tq, k \in DOMAIN dq : Apart(tq[j], dq[k])
  /\ \A v, w \in Busy(wk) : v # w => Apart(wk[v], wk[w])
  /\ \A v \in Busy(wk), k \in DOMAIN tq : Apart(wk[v], tq[k])
  /\ \A v \in Busy(wk), k \in DOMAIN dq : Apart(wk[v], dq[k])

\* The two levels of a swap are blocked ...
Blocks(L, bl, u) == u + 1 \in L /\ bl[u] /\ bl[u + 1]

JobsBlock(L, tq, dq, wk, bl) ==
  /\ \A k \in DOMAIN tq : Blocks(L, bl, tq[k])
  /\ \A k \in DOMAIN dq : Blocks(L, bl, dq[k])
  /\ \A w \in Busy(wk) : Blocks(L, bl, wk[w])

\* ... and no other level is.
Covers(u, l) == l = u \/ l = u + 1

BlockedByJobs(L, tq, dq, wk, bl) ==
  \A l \in L : bl[l] =>
    \/ \E k \in DOMAIN tq : Covers(tq[k], l)
    \/ \E k \in DOMAIN dq : Covers(dq[k], l)
    \/ \E w \in Busy(wk) : Covers(wk[w], l)

\* The dispatcher's counter is the number of swaps.
JobsCounted(tq, dq, wk, c) == c = Len(tq) + Len(dq) + Cardinality(Busy(wk))

Jobs(L, tq, dq, wk, bl, c) ==
  /\ JobTypes(L, tq, dq, wk, bl, c)
  /\ JobsApart(tq, dq, wk)
  /\ JobsBlock(L, tq, dq, wk, bl)
  /\ BlockedByJobs(L, tq, dq, wk, bl)
  /\ JobsCounted(tq, dq, wk, c)

\* There are finitely many busy workers.
LEMMA BusyFinite ==
  ASSUME NEW wk PROVE IsFiniteSet(Busy(wk)) /\ Cardinality(Busy(wk)) \in Nat
<1>1. Busy(wk) \subseteq Workers
  BY DEF Busy
<1>2. IsFiniteSet(Busy(wk))
  BY <1>1, WorkersAssumption, FS_Subset
<1> QED BY <1>2, FS_CardinalityType

\* Sending a swap of two levels that are not blocked.
LEMMA SendKeepsJobs ==
  ASSUME NEW L, NEW tq, NEW dq, NEW wk, NEW bl, NEW c, Jobs(L, tq, dq, wk, bl, c),
         NEW u \in L, u + 1 \in L, ~bl[u], ~bl[u + 1]
  PROVE  Jobs(L, Append(tq, u), dq, wk, Marked(bl, u, TRUE), c + 1)
<1> DEFINE q == Append(tq, u)
           b == Marked(bl, u, TRUE)
<1> USE DEF Jobs
<1>0. /\ L \subseteq Nat /\ tq \in Seq(L) /\ dq \in Seq(L)
      /\ wk \in [Workers -> L \cup {NoTask}] /\ bl \in [L -> BOOLEAN] /\ c \in Nat
  BY DEF JobTypes
<1>1. JobTypes(L, q, dq, wk, b, c + 1)
  <2>1. q \in Seq(L)
    BY <1>0
  <2>2. b \in [L -> BOOLEAN]
    BY <1>0 DEF Marked
  <2> HIDE DEF q, b
  <2>3. c + 1 \in Nat
    BY <1>0
  <2> QED BY <1>0, <2>1, <2>2, <2>3 DEF JobTypes
<1>2. /\ DOMAIN q = 1 .. Len(tq) + 1 /\ DOMAIN tq = 1 .. Len(tq) /\ Len(tq) \in Nat
      /\ Len(q) = Len(tq) + 1
      /\ \A k \in 1 .. Len(tq) : q[k] = tq[k] /\ tq[k] \in L
      /\ q[Len(tq) + 1] = u
  BY <1>0
<1>3. \A l \in L : b[l] = (bl[l] \/ l = u \/ l = u + 1)
  BY <1>0 DEF Marked
<1> HIDE DEF q, b
<1>4. ASSUME NEW v \in L, Blocks(L, bl, v) PROVE Apart(u, v) /\ Apart(v, u)
  BY <1>0, <1>4 DEF Apart, Blocks
<1>5. JobsApart(q, dq, wk)
  <2>1. ASSUME NEW k \in DOMAIN tq PROVE Apart(tq[k], u) /\ Apart(u, tq[k])
    BY <1>2, <1>4 DEF JobsBlock
  <2>2. ASSUME NEW k \in DOMAIN dq PROVE Apart(u, dq[k])
    <3>1. dq[k] \in L
      BY <1>0
    <3> QED BY <1>4, <3>1 DEF JobsBlock
  <2>3. ASSUME NEW v \in Busy(wk) PROVE Apart(wk[v], u)
    <3>1. wk[v] \in L
      BY <1>0 DEF Busy
    <3> QED BY <1>4, <3>1 DEF JobsBlock
  <2>4. ASSUME NEW k \in DOMAIN q
        PROVE  (k \in DOMAIN tq /\ q[k] = tq[k]) \/ (k = Len(tq) + 1 /\ q[k] = u)
    BY <1>2
  <2>5. ASSUME NEW j \in DOMAIN q, NEW k \in DOMAIN q, j # k PROVE Apart(q[j], q[k])
    BY <2>1, <2>4, <2>5 DEF JobsApart
  <2>6. ASSUME NEW j \in DOMAIN q, NEW k \in DOMAIN dq PROVE Apart(q[j], dq[k])
    BY <2>2, <2>4 DEF JobsApart
  <2>7. ASSUME NEW v \in Busy(wk), NEW k \in DOMAIN q PROVE Apart(wk[v], q[k])
    BY <2>3, <2>4 DEF JobsApart
  <2> QED BY <2>5, <2>6, <2>7 DEF JobsApart
<1>6. JobsBlock(L, q, dq, wk, b)
  <2>1. ASSUME NEW v \in L, Blocks(L, bl, v) PROVE Blocks(L, b, v)
    BY <1>3, <2>1 DEF Blocks
  <2>2. Blocks(L, b, u)
    BY <1>3 DEF Blocks
  <2>3. ASSUME NEW k \in DOMAIN q PROVE Blocks(L, b, q[k])
    <3>1. CASE k = Len(tq) + 1
      BY <1>2, <2>2, <3>1
    <3>2. CASE k # Len(tq) + 1
      <4>1. k \in DOMAIN tq /\ q[k] = tq[k] /\ tq[k] \in L
        BY <1>2, <3>2
      <4> QED BY <2>1, <4>1 DEF JobsBlock
    <3> QED BY <3>1, <3>2
  <2>4. ASSUME NEW k \in DOMAIN dq PROVE Blocks(L, b, dq[k])
    <3>1. dq[k] \in L
      BY <1>0
    <3> QED BY <2>1, <3>1 DEF JobsBlock
  <2>5. ASSUME NEW w \in Busy(wk) PROVE Blocks(L, b, wk[w])
    <3>1. wk[w] \in L
      BY <1>0 DEF Busy
    <3> QED BY <2>1, <3>1 DEF JobsBlock
  <2> QED BY <2>3, <2>4, <2>5 DEF JobsBlock
<1>7. BlockedByJobs(L, q, dq, wk, b)
  <2> SUFFICES ASSUME NEW l \in L, b[l]
               PROVE  \/ \E k \in DOMAIN q : Covers(q[k], l)
                      \/ \E k \in DOMAIN dq : Covers(dq[k], l)
                      \/ \E w \in Busy(wk) : Covers(wk[w], l)
    BY DEF BlockedByJobs
  <2>1. CASE bl[l]
    <3>1. ASSUME NEW k \in DOMAIN tq PROVE k \in DOMAIN q /\ q[k] = tq[k]
      BY <1>2
    <3> QED BY <2>1, <3>1 DEF BlockedByJobs
  <2>2. CASE l = u \/ l = u + 1
    <3>1. Covers(q[Len(tq) + 1], l) /\ Len(tq) + 1 \in DOMAIN q
      BY <1>2, <2>2 DEF Covers
    <3> QED BY <3>1
  <2> QED BY <1>3, <2>1, <2>2
<1>8. JobsCounted(q, dq, wk, c + 1)
  <2>1. Cardinality(Busy(wk)) \in Nat /\ Len(dq) \in Nat
    BY <1>0, BusyFinite
  <2> QED BY <1>0, <1>2, <2>1 DEF JobsCounted
<1>9. Jobs(L, q, dq, wk, b, c + 1)
  BY <1>1, <1>5, <1>6, <1>7, <1>8
<1> QED BY <1>9 DEF q, b

\* The types, in a form the provers use piece by piece.
LEMMA JobFacts ==
  ASSUME NEW L, NEW tq, NEW dq, NEW wk, NEW bl, NEW c, Jobs(L, tq, dq, wk, bl, c)
  PROVE  /\ L \subseteq Nat /\ tq \in Seq(L) /\ dq \in Seq(L)
         /\ wk \in [Workers -> L \cup {NoTask}] /\ bl \in [L -> BOOLEAN] /\ c \in Nat
         /\ \A w \in Busy(wk) : w \in Workers /\ wk[w] \in L
BY DEF Jobs, JobTypes, Busy

\* A worker takes a swap from the task channel.
LEMMA ReceiveKeepsJobs ==
  ASSUME NEW L, NEW tq, NEW dq, NEW wk, NEW bl, NEW c, Jobs(L, tq, dq, wk, bl, c),
         NEW w \in Workers, wk[w] = NoTask, tq # <<>>
  PROVE  Jobs(L, Tail(tq), dq, [wk EXCEPT ![w] = Head(tq)], bl, c)
<1> DEFINE q == Tail(tq)
           k2 == [wk EXCEPT ![w] = Head(tq)]
<1> USE DEF Jobs
<1>0. /\ L \subseteq Nat /\ tq \in Seq(L) /\ dq \in Seq(L)
      /\ wk \in [Workers -> L \cup {NoTask}] /\ bl \in [L -> BOOLEAN] /\ c \in Nat
      /\ \A v \in Busy(wk) : v \in Workers /\ wk[v] \in L
  BY JobFacts
<1>2. /\ DOMAIN tq = 1 .. Len(tq) /\ Len(tq) \in Nat /\ Len(tq) > 0
      /\ Len(q) = Len(tq) - 1 /\ DOMAIN q = 1 .. Len(tq) - 1 /\ q \in Seq(L)
      /\ \A k \in 1 .. Len(tq) - 1 : q[k] = tq[k + 1]
      /\ tq[1] \in L /\ Head(tq) = tq[1]
  BY <1>0
<1>3. k2 \in [Workers -> L \cup {NoTask}]
  BY <1>0, <1>2
<1>4. k2[w] = tq[1] /\ \A v \in Workers : v # w => k2[v] = wk[v]
  BY <1>0, <1>2
<1> HIDE DEF q, k2
<1>1. JobTypes(L, q, dq, k2, bl, c)
  BY <1>0, <1>2, <1>3 DEF JobTypes
<1>5. Busy(k2) = Busy(wk) \cup {w} /\ w \notin Busy(wk)
  <2>1. tq[1] # NoTask
    BY <1>0, <1>2, WorkersAssumption
  <2> QED BY <1>4, <2>1 DEF Busy
<1>6. ASSUME NEW k \in DOMAIN q PROVE k + 1 \in DOMAIN tq /\ k + 1 # 1 /\ q[k] = tq[k + 1]
  BY <1>2
<1>7. 1 \in DOMAIN tq
  BY <1>2
<1>8. \A v \in Busy(k2) : (v = w /\ k2[v] = tq[1]) \/ (v \in Busy(wk) /\ k2[v] = wk[v])
  BY <1>0, <1>4, <1>5
<1>9. JobsApart(q, dq, k2)
  <2>1. ASSUME NEW j \in DOMAIN q, NEW k \in DOMAIN q, j # k PROVE Apart(q[j], q[k])
    <3>1. j + 1 # k + 1
      BY <1>2, <2>1
    <3> QED BY <1>6, <3>1 DEF JobsApart
  <2>2. ASSUME NEW j \in DOMAIN q, NEW k \in DOMAIN dq PROVE Apart(q[j], dq[k])
    BY <1>6 DEF JobsApart
  <2>3. ASSUME NEW v \in Busy(k2), NEW x \in Busy(k2), v # x PROVE Apart(k2[v], k2[x])
    <3>1. ASSUME NEW y \in Busy(wk) PROVE Apart(wk[y], tq[1]) /\ Apart(tq[1], wk[y])
      BY <1>7 DEF JobsApart, Apart
    <3> QED BY <1>8, <2>3, <3>1 DEF JobsApart
  <2>4. ASSUME NEW v \in Busy(k2), NEW k \in DOMAIN q PROVE Apart(k2[v], q[k])
    BY <1>6, <1>7, <1>8 DEF JobsApart
  <2>5. ASSUME NEW v \in Busy(k2), NEW k \in DOMAIN dq PROVE Apart(k2[v], dq[k])
    BY <1>7, <1>8 DEF JobsApart
  <2> QED BY <2>1, <2>2, <2>3, <2>4, <2>5 DEF JobsApart
<1>10. JobsBlock(L, q, dq, k2, bl)
  BY <1>6, <1>7, <1>8 DEF JobsBlock
<1>11. BlockedByJobs(L, q, dq, k2, bl)
  <2> SUFFICES ASSUME NEW l \in L, bl[l]
               PROVE  \/ \E k \in DOMAIN q : Covers(q[k], l)
                      \/ \E k \in DOMAIN dq : Covers(dq[k], l)
                      \/ \E v \in Busy(k2) : Covers(k2[v], l)
    BY DEF BlockedByJobs
  <2>1. CASE \E k \in DOMAIN tq : Covers(tq[k], l)
    <3>1. PICK k \in DOMAIN tq : Covers(tq[k], l)
      BY <2>1
    <3>2. CASE k = 1
      BY <1>4, <1>5, <3>1, <3>2
    <3>3. CASE k # 1
      <4>1. k - 1 \in DOMAIN q /\ q[k - 1] = tq[k]
        BY <1>2, <3>3
      <4> QED BY <3>1, <4>1
    <3> QED BY <3>2, <3>3
  <2>2. CASE \E v \in Busy(wk) : Covers(wk[v], l)
    <3>1. \A v \in Busy(wk) : v \in Busy(k2) /\ k2[v] = wk[v]
      BY <1>0, <1>4, <1>5
    <3> QED BY <2>2, <3>1
  <2> QED BY <2>1, <2>2 DEF BlockedByJobs
<1>12. JobsCounted(q, dq, k2, c)
  <2>1. Cardinality(Busy(wk)) \in Nat /\ Len(dq) \in Nat
    BY <1>0, BusyFinite
  <2>2. Cardinality(Busy(k2)) = Cardinality(Busy(wk)) + 1
    BY <1>5, BusyFinite, FS_AddElement
  <2> QED BY <1>0, <1>2, <2>1, <2>2 DEF JobsCounted
<1>13. Jobs(L, q, dq, k2, bl, c)
  BY <1>1, <1>9, <1>10, <1>11, <1>12
<1> QED BY <1>13 DEF q, k2

\* A worker reports a swap through the done channel.
LEMMA DoneKeepsJobs ==
  ASSUME NEW L, NEW tq, NEW dq, NEW wk, NEW bl, NEW c, Jobs(L, tq, dq, wk, bl, c),
         NEW w \in Workers, wk[w] # NoTask
  PROVE  Jobs(L, tq, Append(dq, wk[w]), [wk EXCEPT ![w] = NoTask], bl, c)
<1> DEFINE q == Append(dq, wk[w])
           k2 == [wk EXCEPT ![w] = NoTask]
<1> USE DEF Jobs
<1>0. /\ L \subseteq Nat /\ tq \in Seq(L) /\ dq \in Seq(L)
      /\ wk \in [Workers -> L \cup {NoTask}] /\ bl \in [L -> BOOLEAN] /\ c \in Nat
      /\ \A v \in Busy(wk) : v \in Workers /\ wk[v] \in L
  BY JobFacts
<1>1. w \in Busy(wk) /\ wk[w] \in L
  BY <1>0 DEF Busy
<1>2. /\ DOMAIN dq = 1 .. Len(dq) /\ Len(dq) \in Nat
      /\ Len(q) = Len(dq) + 1 /\ DOMAIN q = 1 .. Len(dq) + 1 /\ q \in Seq(L)
      /\ \A k \in 1 .. Len(dq) : q[k] = dq[k]
      /\ q[Len(dq) + 1] = wk[w]
  BY <1>0, <1>1
<1>3. k2 \in [Workers -> L \cup {NoTask}]
  BY <1>0
<1>4. k2[w] = NoTask /\ \A v \in Workers : v # w => k2[v] = wk[v]
  BY <1>0
<1> HIDE DEF q, k2
<1>5. JobTypes(L, tq, q, k2, bl, c)
  BY <1>0, <1>2, <1>3 DEF JobTypes
<1>6. Busy(k2) = Busy(wk) \ {w}
  BY <1>4 DEF Busy
<1>7. \A v \in Busy(k2) : v \in Busy(wk) /\ v # w /\ k2[v] = wk[v]
  BY <1>0, <1>4, <1>6
<1>8. ASSUME NEW k \in DOMAIN q
      PROVE  (k \in DOMAIN dq /\ q[k] = dq[k]) \/ (k = Len(dq) + 1 /\ q[k] = wk[w])
  BY <1>2
<1>9. JobsApart(tq, q, k2)
  <2>1. ASSUME NEW j \in DOMAIN q, NEW k \in DOMAIN q, j # k PROVE Apart(q[j], q[k])
    <3>1. ASSUME NEW i \in DOMAIN dq PROVE Apart(wk[w], dq[i]) /\ Apart(dq[i], wk[w])
      BY <1>1 DEF JobsApart, Apart
    <3> QED BY <1>8, <2>1, <3>1 DEF JobsApart
  <2>2. ASSUME NEW j \in DOMAIN tq, NEW k \in DOMAIN q PROVE Apart(tq[j], q[k])
    <3>1. Apart(tq[j], wk[w])
      BY <1>1 DEF JobsApart, Apart
    <3> QED BY <1>8, <3>1 DEF JobsApart
  <2>3. ASSUME NEW v \in Busy(k2), NEW k \in DOMAIN q PROVE Apart(k2[v], q[k])
    BY <1>1, <1>7, <1>8 DEF JobsApart
  <2> QED BY <1>7, <2>1, <2>2, <2>3 DEF JobsApart
<1>10. JobsBlock(L, tq, q, k2, bl)
  BY <1>1, <1>7, <1>8 DEF JobsBlock
<1>11. BlockedByJobs(L, tq, q, k2, bl)
  <2> SUFFICES ASSUME NEW l \in L, bl[l]
               PROVE  \/ \E k \in DOMAIN tq : Covers(tq[k], l)
                      \/ \E k \in DOMAIN q : Covers(q[k], l)
                      \/ \E v \in Busy(k2) : Covers(k2[v], l)
    BY DEF BlockedByJobs
  <2>1. CASE \E k \in DOMAIN dq : Covers(dq[k], l)
    <3>1. \A k \in DOMAIN dq : k \in DOMAIN q /\ q[k] = dq[k]
      BY <1>2
    <3> QED BY <2>1, <3>1
  <2>2. CASE \E v \in Busy(wk) : Covers(wk[v], l)
    <3>1. PICK v \in Busy(wk) : Covers(wk[v], l)
      BY <2>2
    <3>2. CASE v = w
      <4>1. Len(dq) + 1 \in DOMAIN q
        BY <1>2
      <4> QED BY <1>2, <3>1, <3>2, <4>1
    <3>3. CASE v # w
      BY <1>6, <1>7, <3>1, <3>3
    <3> QED BY <3>2, <3>3
  <2> QED BY <2>1, <2>2 DEF BlockedByJobs
<1>12. JobsCounted(tq, q, k2, c)
  <2>1. Cardinality(Busy(wk)) \in Nat /\ Len(tq) \in Nat
    BY <1>0, BusyFinite
  <2>2. Cardinality(Busy(k2)) = Cardinality(Busy(wk)) - 1
    BY <1>1, <1>6, BusyFinite, FS_RemoveElement
  <2> QED BY <1>0, <1>2, <2>1, <2>2 DEF JobsCounted
<1>13. Jobs(L, tq, q, k2, bl, c)
  BY <1>5, <1>9, <1>10, <1>11, <1>12
<1> QED BY <1>13 DEF q, k2

\* The dispatcher takes a report: the two levels are no longer blocked.
LEMMA ReportKeepsJobs ==
  ASSUME NEW L, NEW tq, NEW dq, NEW wk, NEW bl, NEW c, Jobs(L, tq, dq, wk, bl, c), dq # <<>>
  PROVE  /\ Jobs(L, tq, Tail(dq), wk, Marked(bl, Head(dq), FALSE), c - 1)
         /\ Head(dq) \in L /\ Head(dq) + 1 \in L
<1> DEFINE q == Tail(dq)
           u == Head(dq)
           b == Marked(bl, u, FALSE)
<1> USE DEF Jobs
<1>0. /\ L \subseteq Nat /\ tq \in Seq(L) /\ dq \in Seq(L)
      /\ wk \in [Workers -> L \cup {NoTask}] /\ bl \in [L -> BOOLEAN] /\ c \in Nat
      /\ \A v \in Busy(wk) : v \in Workers /\ wk[v] \in L
  BY JobFacts
<1>1. /\ DOMAIN dq = 1 .. Len(dq) /\ Len(dq) \in Nat /\ Len(dq) > 0
      /\ Len(q) = Len(dq) - 1 /\ DOMAIN q = 1 .. Len(dq) - 1 /\ q \in Seq(L)
      /\ \A k \in 1 .. Len(dq) - 1 : q[k] = dq[k + 1]
      /\ u \in L /\ u = dq[1] /\ 1 \in DOMAIN dq
  BY <1>0
<1>2. b \in [L -> BOOLEAN]
  BY <1>0 DEF Marked
<1>3. \A l \in L : b[l] = (bl[l] /\ l # u /\ l # u + 1)
  BY <1>0 DEF Marked
<1> HIDE DEF q, u, b
<1>4. u + 1 \in L
  BY <1>1 DEF JobsBlock, Blocks
<1>5. ASSUME NEW k \in DOMAIN q PROVE k + 1 \in DOMAIN dq /\ k + 1 # 1 /\ q[k] = dq[k + 1]
  BY <1>1
<1>6. Cardinality(Busy(wk)) \in Nat /\ Len(tq) \in Nat
  BY <1>0, BusyFinite
<1>7. JobsCounted(tq, q, wk, c - 1) /\ c - 1 \in Nat
  BY <1>0, <1>1, <1>6 DEF JobsCounted
<1>8. JobTypes(L, tq, q, wk, b, c - 1)
  BY <1>0, <1>1, <1>2, <1>7 DEF JobTypes
<1>9. JobsApart(tq, q, wk)
  <2>1. ASSUME NEW j \in DOMAIN q, NEW k \in DOMAIN q, j # k PROVE Apart(q[j], q[k])
    <3>1. j + 1 # k + 1
      BY <1>1, <2>1
    <3> QED BY <1>5, <3>1 DEF JobsApart
  <2>2. ASSUME NEW j \in DOMAIN tq, NEW k \in DOMAIN q PROVE Apart(tq[j], q[k])
    BY <1>5 DEF JobsApart
  <2>3. ASSUME NEW v \in Busy(wk), NEW k \in DOMAIN q PROVE Apart(wk[v], q[k])
    BY <1>5 DEF JobsApart
  <2> QED BY <2>1, <2>2, <2>3 DEF JobsApart
<1>10. JobsBlock(L, tq, q, wk, b)
  <2>1. ASSUME NEW v \in L, Apart(v, u) \/ Apart(u, v), Blocks(L, bl, v)
        PROVE  Blocks(L, b, v)
    <3>1. v \in Nat /\ u \in Nat /\ v + 1 \in L
      BY <1>0, <1>1, <2>1 DEF Blocks
    <3>2. v # u /\ v # u + 1 /\ v + 1 # u /\ v + 1 # u + 1
      BY <2>1, <3>1 DEF Apart
    <3> QED BY <1>3, <2>1, <3>1, <3>2 DEF Blocks
  <2>2. ASSUME NEW k \in DOMAIN tq PROVE Blocks(L, b, tq[k])
    <3>1. tq[k] \in L /\ Apart(tq[k], u)
      BY <1>0, <1>1 DEF JobsApart
    <3> QED BY <2>1, <3>1 DEF JobsBlock
  <2>3. ASSUME NEW k \in DOMAIN q PROVE Blocks(L, b, q[k])
    <3>1. q[k] \in L
      BY <1>1
    <3>2. Apart(q[k], u)
      BY <1>1, <1>5 DEF JobsApart
    <3> QED BY <1>5, <2>1, <3>1, <3>2 DEF JobsBlock
  <2>4. ASSUME NEW v \in Busy(wk) PROVE Blocks(L, b, wk[v])
    <3>1. wk[v] \in L /\ Apart(wk[v], u)
      BY <1>0, <1>1 DEF JobsApart
    <3> QED BY <2>1, <3>1 DEF JobsBlock
  <2> QED BY <2>2, <2>3, <2>4 DEF JobsBlock
<1>11. BlockedByJobs(L, tq, q, wk, b)
  <2> SUFFICES ASSUME NEW l \in L, b[l]
               PROVE  \/ \E k \in DOMAIN tq : Covers(tq[k], l)
                      \/ \E k \in DOMAIN q : Covers(q[k], l)
                      \/ \E v \in Busy(wk) : Covers(wk[v], l)
    BY DEF BlockedByJobs
  <2>1. bl[l] /\ l # u /\ l # u + 1
    BY <1>3
  <2>2. CASE \E k \in DOMAIN dq : Covers(dq[k], l)
    <3>1. PICK k \in DOMAIN dq : Covers(dq[k], l)
      BY <2>2
    <3>2. k # 1
      BY <1>1, <2>1, <3>1 DEF Covers
    <3>3. k - 1 \in DOMAIN q /\ q[k - 1] = dq[k]
      BY <1>1, <3>2
    <3> QED BY <3>1, <3>3
  <2> QED BY <2>1, <2>2 DEF BlockedByJobs
<1>12. Jobs(L, tq, q, wk, b, c - 1)
  BY <1>7, <1>8, <1>9, <1>10, <1>11
<1> QED BY <1>1, <1>4, <1>12 DEF q, u, b

\* When the counter is 0 nothing is under way and nothing is blocked.
LEMMA NoJobs ==
  ASSUME NEW L, NEW tq, NEW dq, NEW wk, NEW bl, Jobs(L, tq, dq, wk, bl, 0)
  PROVE  tq = <<>> /\ dq = <<>> /\ Busy(wk) = {} /\ \A l \in L : ~bl[l]
<1>1. tq \in Seq(L) /\ dq \in Seq(L)
  BY JobFacts
<1>2. IsFiniteSet(Busy(wk)) /\ Cardinality(Busy(wk)) \in Nat
  BY BusyFinite
<1>3. Len(tq) = 0 /\ Len(dq) = 0 /\ Cardinality(Busy(wk)) = 0
  BY <1>1, <1>2 DEF Jobs, JobsCounted
<1>4. tq = <<>> /\ dq = <<>> /\ Busy(wk) = {}
  BY <1>1, <1>2, <1>3, FS_EmptySet
<1>5. DOMAIN tq = {} /\ DOMAIN dq = {}
  BY <1>4
<1> QED BY <1>4, <1>5 DEF Jobs, BlockedByJobs

-----------------------------------------------------------------------------
(* The inductive invariant. A scan has blocked nothing from its place on,  *)
(* and a dispatcher that is not running waits for nothing.                 *)

LevelsInv ==
  /\ num_levels(dd) \in Nat
  /\ Levels = LevelNos(num_levels(dd))
  /\ Shape(dd, Levels)

JobsInv == Jobs(Levels, taskQ, doneQ, worker, blocked, tasks)

DispatchInv ==
  /\ next \in Nat
  /\ dispatcher = "scan" => \A l \in Levels : l >= next => ~blocked[l]
  /\ dispatcher \in {"off", "ended"} => tasks = 0
  /\ call \in {"none", "returned", "sequential"} => dispatcher = "off"

PassInv ==
  /\ passes \in [n : Nat, new_n : Nat, i : Nat]
  /\ call = "sequential" =>
       passes.i >= 1 /\ passes.n <= num_levels(dd) /\ passes.new_n <= passes.n

SortInv == LevelsInv /\ JobsInv /\ DispatchInv /\ PassInv

\* A swap of the keys keeps the set of levels.
LEMMA SwappedDomain == ASSUME NEW s, NEW u PROVE DOMAIN Swapped(s, u) = DOMAIN s
BY DEF Swapped

\* What a step of the dispatcher leaves behind.
Sorted(s, L, dq, wk) == DOMAIN s.seq = L /\ Jobs(L, s.sent, dq, wk, s.blocked, s.tasks)

\* The closure `swap`, called for two levels that are not blocked.
LEMMA SendSwapKeeps ==
  ASSUME NEW s, NEW L, NEW dq, NEW wk, Sorted(s, L, dq, wk),
         NEW u \in L, u + 1 \in L, ~s.blocked[u], ~s.blocked[u + 1]
  PROVE  /\ Sorted(SendSwap(s, u), L, dq, wk)
         /\ \A l \in L : l # u /\ l # u + 1 => SendSwap(s, u).blocked[l] = s.blocked[l]
<1>1. Jobs(L, Append(s.sent, u), dq, wk, Marked(s.blocked, u, TRUE), s.tasks + 1)
  BY SendKeepsJobs DEF Sorted
<1>2. s.blocked \in [L -> BOOLEAN] /\ L \subseteq Nat
  BY JobFacts DEF Sorted
<1>3. DOMAIN Swapped(s.seq, u) = L
  BY SwappedDomain DEF Sorted
<1>4. \A l \in L : l # u /\ l # u + 1 => Marked(s.blocked, u, TRUE)[l] = s.blocked[l]
  BY <1>2 DEF Marked
<1> QED BY <1>1, <1>3, <1>4 DEF Sorted, SendSwap

\* The pair above is only swapped if neither level is blocked; the level below
\* u is not touched.
LEMMA TryAboveKeeps ==
  ASSUME NEW s, NEW L, NEW dq, NEW wk, Sorted(s, L, dq, wk), NEW n \in Nat, L = LevelNos(n),
         NEW u \in L, u + 1 \in L, ~s.blocked[u], ~s.blocked[u + 1]
  PROVE  Sorted(TryAbove(s, u), L, dq, wk) /\ ~TryAbove(s, u).blocked[u + 1]
<1>1. CASE u > 0 /\ s.seq[u - 1] > s.seq[u] /\ ~s.blocked[u - 1]
  <2>1. u - 1 \in L /\ (u - 1) + 1 = u /\ u + 1 # u - 1 /\ u + 1 # u /\ u \in Int
    BY <1>1 DEF LevelNos
  <2>2. TryAbove(s, u) = SendSwap(s, u - 1)
    BY <1>1 DEF TryAbove
  <2>3. /\ Sorted(SendSwap(s, u - 1), L, dq, wk)
        /\ \A l \in L : l # u - 1 /\ l # (u - 1) + 1 =>
             SendSwap(s, u - 1).blocked[l] = s.blocked[l]
    BY <1>1, <2>1, SendSwapKeeps
  <2> QED BY <2>1, <2>2, <2>3
<1>2. CASE ~(u > 0 /\ s.seq[u - 1] > s.seq[u] /\ ~s.blocked[u - 1])
  BY <1>2 DEF TryAbove
<1> QED BY <1>1, <1>2

\* So is the pair below.
LEMMA TryBelowKeeps ==
  ASSUME NEW s, NEW dq, NEW wk, Sorted(s, Levels, dq, wk), NEW n \in Nat, Levels = LevelNos(n),
         NEW u \in Levels, u + 1 \in Levels, ~s.blocked[u + 1]
  PROVE  Sorted(TryBelow(s, u), Levels, dq, wk)
<1>1. CASE u + 2 \in Levels /\ s.seq[u + 1] > s.seq[u + 2] /\ ~s.blocked[u + 2]
  <2>1. (u + 1) + 1 = u + 2
    BY DEF LevelNos
  <2>2. TryBelow(s, u) = SendSwap(s, u + 1)
    BY <1>1 DEF TryBelow
  <2>3. Sorted(SendSwap(s, u + 1), Levels, dq, wk)
    BY <1>1, <2>1, SendSwapKeeps
  <2> QED BY <2>2, <2>3
<1>2. CASE ~(u + 2 \in Levels /\ s.seq[u + 1] > s.seq[u + 2] /\ ~s.blocked[u + 2])
  BY <1>2 DEF TryBelow
<1> QED BY <1>1, <1>2

-----------------------------------------------------------------------------
(* The invariant holds initially and every step keeps it.                  *)

LEMMA InitSortInv == Init => SortInv
<1> SUFFICES ASSUME Init PROVE SortInv
  OBVIOUS
<1>1. PICK x \in Diagrams : dd = x.dd
  BY DEF Init
<1>2. /\ "table" \in DOMAIN dd /\ IsFiniteSet(DOMAIN dd.table)
      /\ DOMAIN dd.table = LevelNos(num_levels(dd))
      /\ \A l \in DOMAIN dd.table : IsFiniteSet(dd.table[l])
  BY <1>1, DiagramsAssumption
<1>3. num_levels(dd) \in Nat
  BY <1>2, FS_CardinalityType DEF num_levels
<1>4. Levels = LevelNos(num_levels(dd))
  BY DEF Init, Levels, Identity
<1>5. LevelsInv
  BY <1>2, <1>3, <1>4 DEF LevelsInv, Shape
<1>6. /\ blocked = [l \in Levels |-> FALSE] /\ tasks = 0 /\ taskQ = <<>> /\ doneQ = <<>>
      /\ worker = [w \in Workers |-> NoTask] /\ next = 0 /\ dispatcher = "off"
  BY DEF Init, SortOff
<1>7. JobsInv
  <2>1. Levels \subseteq Nat
    BY <1>3, <1>4 DEF LevelNos
  <2>2. JobTypes(Levels, taskQ, doneQ, worker, blocked, tasks)
    BY <1>6, <2>1 DEF JobTypes
  <2>3. Busy(worker) = {} /\ DOMAIN taskQ = {} /\ DOMAIN doneQ = {}
    BY <1>6 DEF Busy
  <2>4. JobsApart(taskQ, doneQ, worker) /\ JobsBlock(Levels, taskQ, doneQ, worker, blocked)
    BY <2>3 DEF JobsApart, JobsBlock
  <2>5. BlockedByJobs(Levels, taskQ, doneQ, worker, blocked)
    BY <1>6 DEF BlockedByJobs
  <2>6. JobsCounted(taskQ, doneQ, worker, tasks)
    <3>1. Cardinality(Busy(worker)) = 0
      BY <2>3, FS_EmptySet
    <3>2. Len(taskQ) = 0 /\ Len(doneQ) = 0
      BY <1>6
    <3> QED BY <1>6, <3>1, <3>2 DEF JobsCounted
  <2> QED BY <2>2, <2>4, <2>5, <2>6 DEF JobsInv, Jobs
<1>8. DispatchInv
  BY <1>6 DEF DispatchInv
<1>9. PassInv
  BY DEF Init, NoPass, PassInv
<1> QED BY <1>5, <1>7, <1>8, <1>9 DEF SortInv

\* A call that starts finds nothing under way.
LEMMA BeginKeeps ==
  ASSUME SortInv, NEW fs, NEW concurrent, Begin(fs, concurrent) PROVE SortInv'
<1> USE DEF SortInv
<1>1. dispatcher = "off" /\ tasks = 0
  BY DEF Begin, DispatchInv
<1>2. DOMAIN seq' = Levels /\ dd' = dd
  <2>1. CASE seq' = seq
    BY <2>1 DEF Begin, Levels
  <2>2. CASE seq' = sort_order(num_levels(dd), LevelsOf(fs))
    BY <2>2 DEF Begin, LevelsInv, sort_order
  <2> QED BY <2>1, <2>2 DEF Begin
<1>3. LevelsInv'
  BY <1>2 DEF LevelsInv, Levels, num_levels
<1>4. JobsInv'
  BY <1>2 DEF JobsInv, Begin, Levels
<1>5. \A l \in Levels : ~blocked[l]
  BY <1>1, NoJobs DEF JobsInv
<1>6. DispatchInv'
  <2>1. next' \in Nat /\ tasks' = 0 /\ blocked' = blocked
    BY <1>1 DEF Begin, DispatchInv
  <2>2. \A l \in Levels' : ~blocked'[l]
    BY <1>2, <1>5, <2>1 DEF Levels
  <2>3. call' \in {"none", "returned", "sequential"} => dispatcher' = "off"
    BY <1>1 DEF Begin
  <2> QED BY <2>1, <2>2, <2>3 DEF DispatchInv
<1>7. PassInv'
  <2>1. CASE UNCHANGED passes /\ call' \in {"returned", "panicked"}
    BY <2>1 DEF PassInv
  <2>2. CASE passes' = NoPass /\ call' = "concurrent"
    BY <2>2 DEF PassInv, NoPass
  <2>3. CASE passes' = [n |-> num_levels(dd), new_n |-> 0, i |-> 1]
    <3>1. num_levels(dd)' = num_levels(dd) /\ num_levels(dd) \in Nat
      BY <1>2 DEF num_levels, LevelsInv
    <3> QED BY <2>3, <3>1 DEF PassInv
  <2> QED BY <2>1, <2>2, <2>3 DEF Begin
<1> QED BY <1>3, <1>4, <1>6, <1>7

\* level_down keeps the levels.
LEMMA LevelDownKeeps ==
  ASSUME SortInv, NEW u \in Levels, u + 1 \in Levels, LevelDown(u), DOMAIN seq' = DOMAIN seq
  PROVE  /\ LevelsInv' /\ num_levels(dd)' = num_levels(dd)
         /\ call' \in {call, "aborted"}
<1>1. PICK visits \in Visits(dd, u) : dd' = level_down(dd, u, visits)
  BY DEF LevelDown
<1>2. Shape(dd, Levels)
  BY DEF SortInv, LevelsInv
<1>3. Shape(dd', Levels)
  BY <1>1, <1>2, LevelDownShape
<1>4. DOMAIN dd'.table = DOMAIN dd.table
  BY <1>2, <1>3 DEF Shape
<1>5. num_levels(dd') = num_levels(dd)
  BY <1>4 DEF num_levels
<1>6. Levels' = Levels
  BY DEF Levels
<1>7. LevelsInv'
  BY <1>3, <1>5, <1>6 DEF SortInv, LevelsInv
<1>8. call' \in {call, "aborted"}
  BY DEF LevelDown
<1> QED BY <1>5, <1>7, <1>8

\* What a step of bubble_sort leaves alone.
LEMMA CompareKeeps == ASSUME SortInv, Compare PROVE SortInv'
<1> USE DEF SortInv
<1>1. /\ passes \in [n : Nat, new_n : Nat, i : Nat]
      /\ passes.i >= 1 /\ passes.n <= num_levels(dd) /\ passes.new_n <= passes.n
      /\ passes.i < passes.n /\ call = "sequential" /\ num_levels(dd) \in Nat
  BY DEF PassInv, Compare, Advance, LevelsInv
<1>2. passes.i - 1 \in Levels /\ (passes.i - 1) + 1 \in Levels
  <2>1. passes.i \in Nat /\ passes.n \in Nat
    BY <1>1
  <2>2. Levels = 0 .. num_levels(dd) - 1
    BY DEF LevelsInv, LevelNos
  <2> QED BY <1>1, <2>1, <2>2
<1>3. DOMAIN seq' = DOMAIN seq
  BY SwappedDomain DEF Compare
<1>4. LevelsInv' /\ num_levels(dd)' = num_levels(dd) /\ call' \in {call, "aborted"}
  <2>1. CASE LevelDown(passes.i - 1)
    BY <1>2, <1>3, <2>1, LevelDownKeeps
  <2>2. CASE UNCHANGED <<seq, dd, varAt, call>>
    BY <2>2 DEF LevelsInv, Levels, num_levels
  <2> QED BY <2>1, <2>2 DEF Compare
<1>5. JobsInv'
  BY <1>3 DEF JobsInv, Compare, Advance, Levels
<1>6. DispatchInv'
  BY <1>1, <1>3, <1>4 DEF DispatchInv, Compare, Advance, Levels
<1>7. PassInv'
  <2>1. \/ passes' = [passes EXCEPT !.i = passes.i + 1, !.new_n = passes.i]
        \/ passes' = [passes EXCEPT !.i = passes.i + 1]
    BY <1>1 DEF Compare, Advance
  <2>2. PICK p, r : p = passes /\ r = passes'
    OBVIOUS
  <2>3. /\ p \in [n : Nat, new_n : Nat, i : Nat] /\ p.i < p.n /\ p.new_n <= p.n
        /\ \/ r = [p EXCEPT !.i = p.i + 1, !.new_n = p.i]
           \/ r = [p EXCEPT !.i = p.i + 1]
    BY <1>1, <2>1, <2>2
  <2>4. r \in [n : Nat, new_n : Nat, i : Nat] /\ r.i >= 1 /\ r.n = p.n /\ r.new_n <= r.n
    <3>1. p.n \in Nat /\ p.new_n \in Nat /\ p.i \in Nat
      BY <2>3
    <3>2. CASE r = [p EXCEPT !.i = p.i + 1, !.new_n = p.i]
      <4>1. r.i = p.i + 1 /\ r.new_n = p.i /\ r.n = p.n
        BY <2>3, <3>2
      <4>2. r \in [n : Nat, new_n : Nat, i : Nat]
        <5>1. p \in [n : Nat, new_n : Nat, i : Nat]
          BY <2>3
        <5>2. r = [n |-> p.n, new_n |-> p.i, i |-> p.i + 1]
          BY <3>2, <5>1
        <5> QED BY <3>1, <5>2
      <4> QED BY <2>3, <3>1, <4>1, <4>2
    <3>3. CASE r = [p EXCEPT !.i = p.i + 1]
      <4>1. r.i = p.i + 1 /\ r.new_n = p.new_n /\ r.n = p.n
        BY <2>3, <3>3
      <4>2. r \in [n : Nat, new_n : Nat, i : Nat]
        BY <2>3, <3>1, <3>3
      <4> QED BY <2>3, <3>1, <4>1, <4>2
    <3> QED BY <2>3, <3>2, <3>3
  <2> QED BY <1>1, <1>4, <2>2, <2>4 DEF PassInv
<1> QED BY <1>4, <1>5, <1>6, <1>7

\* The end of a pass.
LEMMA EndPassKeeps == ASSUME SortInv, EndPass PROVE SortInv'
<1> USE DEF SortInv
<1>1. LevelsInv' /\ JobsInv' /\ DispatchInv'
  BY DEF LevelsInv, JobsInv, DispatchInv, EndPass, sortVars, Levels, num_levels
<1>2. passes \in [n : Nat, new_n : Nat, i : Nat] /\ call = "sequential" /\ dd' = dd
      /\ passes.n <= num_levels(dd) /\ passes.new_n <= passes.n /\ num_levels(dd) \in Nat
  BY DEF PassInv, EndPass, LevelsInv
<1>3. num_levels(dd)' = num_levels(dd)
  BY <1>2 DEF num_levels
<1>4. PassInv'
  BY <1>2, <1>3 DEF PassInv, EndPass
<1> QED BY <1>1, <1>4

\* The end of a call.
LEMMA EndSequentialKeeps == ASSUME SortInv, EndSequential PROVE SortInv'
<1> USE DEF SortInv
<1>1. LevelsInv' /\ JobsInv'
  BY DEF LevelsInv, JobsInv, EndSequential, sortVars, Levels, num_levels
<1>2. DispatchInv'
  BY DEF DispatchInv, EndSequential, sortVars, Return, Levels
<1>3. PassInv'
  BY DEF PassInv, EndSequential, Return, NoPass
<1> QED BY <1>1, <1>2, <1>3

\* One round of the scan: the pair it may swap lies behind all it has blocked.
LEMMA ScanKeeps == ASSUME SortInv, call = "concurrent", Scan, Idle PROVE SortInv'
<1> USE DEF SortInv
<1>0. num_levels(dd) \in Nat /\ Levels = LevelNos(num_levels(dd)) /\ next \in Nat
  BY DEF LevelsInv, DispatchInv
<1>1. CASE next + 1 \in Levels /\ seq[next] > seq[next + 1]
  <2>1. next \in Levels
    BY <1>0, <1>1 DEF LevelNos
  <2>2. ~blocked[next] /\ ~blocked[next + 1]
    BY <1>0, <1>1, <2>1 DEF Scan, DispatchInv
  <2> DEFINE s == Dispatch
  <2>3. s.seq = seq /\ s.blocked = blocked /\ s.tasks = tasks /\ s.sent = taskQ
    BY DEF Dispatch
  <2>4. Sorted(s, Levels, doneQ, worker)
    BY <2>3 DEF Sorted, JobsInv, Levels
  <2> HIDE DEF s
  <2>5. /\ Sorted(SendSwap(s, next), Levels, doneQ, worker)
        /\ \A l \in Levels : l # next /\ l # next + 1 =>
             SendSwap(s, next).blocked[l] = s.blocked[l]
    BY <1>1, <2>1, <2>2, <2>3, <2>4, SendSwapKeeps
  <2>6. /\ Becomes(SendSwap(s, next)) /\ next' = next + 2
        /\ UNCHANGED <<dispatcher, doneQ, worker>>
    BY <1>1 DEF Scan, s
  <2>7. DOMAIN seq' = DOMAIN seq /\ Levels' = Levels
    BY <2>5, <2>6 DEF Becomes, Sorted, Levels
  <2>8. JobsInv'
    BY <2>5, <2>6, <2>7 DEF Becomes, Sorted, JobsInv
  <2>9. LevelsInv'
    BY <2>7 DEF LevelsInv, Idle, num_levels
  <2>10. ASSUME NEW l \in Levels, l >= next + 2 PROVE ~blocked'[l]
    <3>1. l # next /\ l # next + 1 /\ l >= next
      BY <1>0, <2>10 DEF LevelNos
    <3>2. blocked'[l] = blocked[l]
      BY <2>3, <2>5, <2>6, <3>1 DEF Becomes
    <3> QED BY <3>1, <3>2 DEF DispatchInv, Scan
  <2>11. DispatchInv'
    BY <1>0, <2>6, <2>7, <2>10 DEF DispatchInv, Scan, Idle
  <2>12. PassInv'
    BY DEF PassInv, Idle, num_levels
  <2> QED BY <2>8, <2>9, <2>11, <2>12
<1>2. CASE ~(next + 1 \in Levels /\ seq[next] > seq[next + 1])
  <2>1. UNCHANGED <<seq, blocked, tasks, taskQ, doneQ, worker>>
    BY <1>2 DEF Scan
  <2>2. /\ next' \in {next, next + 1}
        /\ dispatcher' \in {"scan", "wait"}
    BY <1>2 DEF Scan
  <2>3. LevelsInv' /\ JobsInv' /\ PassInv'
    BY <2>1 DEF LevelsInv, JobsInv, PassInv, Idle, Levels, num_levels
  <2>4. DispatchInv'
    <3>1. next' \in Nat /\ next' >= next
      BY <1>0, <2>2
    <3>2. ASSUME NEW l \in Levels, l >= next' PROVE ~blocked[l]
      <4>1. l >= next
        BY <1>0, <3>1, <3>2 DEF LevelNos
      <4> QED BY <4>1 DEF DispatchInv, Scan
    <3> QED BY <2>1, <2>2, <3>1, <3>2 DEF DispatchInv, Idle, Levels
  <2> QED BY <2>3, <2>4
<1> QED BY <1>1, <1>2

\* A report frees its two levels before the pairs around them are looked at.
LEMMA ReportKeeps == ASSUME SortInv, call = "concurrent", Report, Idle PROVE SortInv'
<1> USE DEF SortInv
<1> DEFINE u == Head(doneQ)
           q == Tail(doneQ)
           s == Unblocked(Dispatch, u)
           a == TryAbove(s, u)
           b == TryBelow(a, u)
<1>0. num_levels(dd) \in Nat /\ Levels = LevelNos(num_levels(dd))
  BY DEF LevelsInv
<1>1. doneQ # <<>> /\ Becomes(b) /\ doneQ' = q /\ UNCHANGED <<next, dispatcher, worker>>
  BY DEF Report
<1>2. /\ Jobs(Levels, taskQ, q, worker, Marked(blocked, u, FALSE), tasks - 1)
      /\ u \in Levels /\ u + 1 \in Levels
  BY <1>1, ReportKeepsJobs DEF JobsInv
<1>3. s.seq = seq /\ s.blocked = Marked(blocked, u, FALSE) /\ s.tasks = tasks - 1 /\ s.sent = taskQ
  BY DEF Unblocked, Dispatch
<1>4. blocked \in [Levels -> BOOLEAN] /\ Levels \subseteq Nat
  BY JobFacts DEF JobsInv
<1> HIDE DEF u, q
<1>5. ~Marked(blocked, u, FALSE)[u] /\ ~Marked(blocked, u, FALSE)[u + 1]
  BY <1>2, <1>4 DEF Marked
<1> HIDE DEF s
<1>6. Sorted(s, Levels, q, worker)
  BY <1>2, <1>3 DEF Sorted, Levels
<1>7. Sorted(a, Levels, q, worker) /\ ~a.blocked[u + 1]
  BY <1>0, <1>2, <1>3, <1>5, <1>6, TryAboveKeeps
<1> HIDE DEF a
<1>8. Sorted(b, Levels, q, worker)
  BY <1>0, <1>2, <1>7, TryBelowKeeps
<1> HIDE DEF b
<1>9. Levels' = Levels
  BY <1>1, <1>8 DEF Becomes, Sorted, Levels
<1>10. JobsInv'
  BY <1>1, <1>8, <1>9 DEF Becomes, Sorted, JobsInv
<1>11. LevelsInv'
  BY <1>9 DEF LevelsInv, Idle, num_levels
<1>12. DispatchInv'
  BY <1>1 DEF DispatchInv, Report, Idle
<1>13. PassInv'
  BY DEF PassInv, Idle, num_levels
<1> QED BY <1>10, <1>11, <1>12, <1>13

\* The dispatcher ends when it waits for nothing.
LEMMA EndDispatchKeeps == ASSUME SortInv, call = "concurrent", EndDispatch, Idle PROVE SortInv'
<1> USE DEF SortInv
<1>1. LevelsInv' /\ JobsInv' /\ PassInv'
  BY DEF LevelsInv, JobsInv, PassInv, EndDispatch, Idle, Levels, num_levels
<1>2. DispatchInv'
  BY DEF DispatchInv, EndDispatch, Idle
<1> QED BY <1>1, <1>2

\* A worker takes a task.
LEMMA TakeTaskKeeps == ASSUME SortInv, NEW w \in Workers, TakeTask(w) PROVE SortInv'
<1> USE DEF SortInv
<1>1. LevelsInv' /\ PassInv'
  BY DEF LevelsInv, PassInv, TakeTask, ReceiveTask, Idle, Levels, num_levels
<1>2. JobsInv'
  <2>1. Jobs(Levels, Tail(taskQ), doneQ, [worker EXCEPT ![w] = Head(taskQ)], blocked, tasks)
    BY ReceiveKeepsJobs DEF JobsInv, TakeTask, ReceiveTask
  <2>2. Levels' = Levels
    BY DEF TakeTask, ReceiveTask, Levels
  <2> QED BY <2>1, <2>2 DEF JobsInv, TakeTask, ReceiveTask
<1>3. DispatchInv'
  BY DEF DispatchInv, TakeTask, ReceiveTask, Idle, Levels
<1> QED BY <1>1, <1>2, <1>3

\* A worker swaps two levels and reports it.
LEMMA WorkerSwapKeeps == ASSUME SortInv, NEW w \in Workers, WorkerSwap(w) PROVE SortInv'
<1> USE DEF SortInv
<1>0. worker[w] # NoTask /\ LevelDown(worker[w]) /\ seq' = seq /\ call = "concurrent"
  BY DEF WorkerSwap, Finish, SendDone
<1>1. worker[w] \in Levels /\ worker[w] + 1 \in Levels
  <2>1. w \in Busy(worker)
    BY <1>0 DEF Busy
  <2>2. worker[w] \in Levels
    BY <2>1, JobFacts DEF JobsInv
  <2> QED BY <2>1, <2>2 DEF JobsInv, Jobs, JobsBlock, Blocks
<1>2. LevelsInv' /\ num_levels(dd)' = num_levels(dd) /\ call' \in {call, "aborted"}
  BY <1>0, <1>1, LevelDownKeeps
<1>3. JobsInv'
  <2>1. Jobs(Levels, taskQ, Append(doneQ, worker[w]), [worker EXCEPT ![w] = NoTask], blocked, tasks)
    BY <1>0, DoneKeepsJobs DEF JobsInv
  <2>2. Levels' = Levels
    BY <1>0 DEF Levels
  <2> QED BY <2>1, <2>2 DEF JobsInv, WorkerSwap, Finish, SendDone
<1>4. DispatchInv'
  BY <1>0, <1>2 DEF DispatchInv, WorkerSwap, Finish, SendDone, Levels
<1>5. PassInv'
  BY <1>0, <1>2 DEF PassInv, WorkerSwap, Finish
<1> QED BY <1>2, <1>3, <1>4, <1>5

\* The sort returns.
LEMMA EndConcurrentKeeps == ASSUME SortInv, EndConcurrent PROVE SortInv'
<1> USE DEF SortInv
<1>1. LevelsInv' /\ JobsInv'
  BY DEF LevelsInv, JobsInv, EndConcurrent, Levels, num_levels
<1>2. PassInv'
  BY DEF PassInv, EndConcurrent, Return
<1>3. DispatchInv'
  BY DEF DispatchInv, EndConcurrent, BroadcastReturns, Return, Levels
<1> QED BY <1>1, <1>2, <1>3

LEMMA NextSortInv == SortInv /\ [Next]_vars => SortInv'
<1> SUFFICES ASSUME SortInv, [Next]_vars PROVE SortInv'
  OBVIOUS
<1>1. CASE CallNext
  BY <1>1, BeginKeeps DEF CallNext, SetVarOrderSeq, SetVarOrder
<1>2. CASE Step
  BY <1>2, CompareKeeps, EndPassKeeps, EndSequentialKeeps, ScanKeeps, ReportKeeps,
     EndDispatchKeeps, TakeTaskKeeps, WorkerSwapKeeps, EndConcurrentKeeps
     DEF Step, Dispatcher
<1>3. CASE UNCHANGED vars
  BY <1>3 DEF vars, sortVars, SortInv, LevelsInv, JobsInv, DispatchInv, PassInv, Levels, num_levels
<1> QED BY <1>1, <1>2, <1>3 DEF Next

\* The invariant says in particular that no two swaps overlap.
LEMMA SortInvDisjoint == SortInv => SwapsDisjoint
<1> SUFFICES ASSUME SortInv PROVE SwapsDisjoint
  OBVIOUS
<1> USE DEF SortInv, JobsInv, Jobs
<1>1. /\ taskQ \in Seq(Levels) /\ doneQ \in Seq(Levels) /\ Levels \subseteq Nat
      /\ \A w \in Busy(worker) : w \in Workers /\ worker[w] \in Levels
  BY JobFacts
<1>2. ASSUME NEW u \in Pending, NEW v \in Pending PROVE u = v \/ u + 1 < v \/ v + 1 < u
  <2>1. \/ \E k \in DOMAIN taskQ : u = taskQ[k]
        \/ \E k \in DOMAIN doneQ : u = doneQ[k]
        \/ \E w \in Busy(worker) : u = worker[w]
    BY DEF Pending, Busy
  <2>2. \/ \E k \in DOMAIN taskQ : v = taskQ[k]
        \/ \E k \in DOMAIN doneQ : v = doneQ[k]
        \/ \E w \in Busy(worker) : v = worker[w]
    BY DEF Pending, Busy
  <2> QED BY <2>1, <2>2 DEF JobsApart, Apart
<1>3. ASSUME NEW v \in Workers, NEW w \in Workers, v # w, worker[v] # NoTask
      PROVE  worker[v] # worker[w]
  <2>1. CASE worker[w] = NoTask
    BY <1>3, <2>1
  <2>2. CASE worker[w] # NoTask
    <3>1. v \in Busy(worker) /\ w \in Busy(worker)
      BY <1>3, <2>2 DEF Busy
    <3>2. Apart(worker[v], worker[w]) /\ worker[v] \in Nat /\ worker[w] \in Nat
      BY <1>1, <1>3, <3>1 DEF JobsApart
    <3> QED BY <3>2 DEF Apart
  <2> QED BY <2>1, <2>2
<1>4. ASSUME NEW w \in Workers, NEW k \in DOMAIN taskQ PROVE worker[w] # taskQ[k]
  <2>1. taskQ[k] \in Nat
    <3> HIDE DEF SortInv, JobsInv, Jobs
    <3>1. PICK q : q = taskQ
      OBVIOUS
    <3>2. q \in Seq(Levels) /\ k \in DOMAIN q
      BY <1>1, <3>1
    <3>3. q[k] \in Levels
      BY <3>2
    <3> QED BY <1>1, <3>1, <3>3
  <2>2. CASE worker[w] = NoTask
    BY <2>1, <2>2, WorkersAssumption
  <2>3. CASE worker[w] # NoTask
    <3>1. w \in Busy(worker)
      BY <2>3 DEF Busy
    <3>2. Apart(worker[w], taskQ[k]) /\ worker[w] \in Nat
      BY <1>1, <3>1 DEF JobsApart
    <3> QED BY <2>1, <3>2 DEF Apart
  <2> QED BY <2>2, <2>3
<1> QED BY <1>2, <1>3, <1>4 DEF SwapsDisjoint

\* Two workers of concurrent_bubble_sort never swap levels that overlap, however
\* many workers and levels there are and whatever order is asked for: a pair that
\* is in a channel or with a worker shares no level with any other.
THEOREM SwapsAreDisjoint == Spec => []SwapsDisjoint
<1>1. Init => SortInv
  BY InitSortInv
<1>2. SortInv /\ [Next]_vars => SortInv'
  BY NextSortInv
<1>3. SortInv => SwapsDisjoint
  BY SortInvDisjoint
<1> QED BY <1>1, <1>2, <1>3, PTL DEF Spec

=============================================================================
