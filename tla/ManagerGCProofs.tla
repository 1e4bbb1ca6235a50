-------------------------- MODULE ManagerGCProofs ---------------------------
(***************************************************************************)
(* Proof that reference counts stay exact, edges do not dangle, only sweeps *)
(* give rise to duplicate nodes and a gc is complete, for any number of    *)
(* threads, nodes, levels, handles and cache entries and any hash function. *)
(***************************************************************************)
EXTENDS ManagerGC, FiniteSetTheorems, TLAPS

-----------------------------------------------------------------------------
(* The inductive invariant *)

Requesting == {"drop", "clone", "insert"}
Sweeping   == {"lock", "sweep", "free"}
Collecting == Sweeping \cup {"pre", "post"}

\* Children exist, at lower levels.
NodeInv ==
  \A id \in Ids : IsInner(id) =>
    /\ lo[id] \in Ids /\ level[lo[id]] > level[id]
    /\ hi[id] \in Ids /\ level[hi[id]] > level[id]

\* An edge belongs to a thread and its node is live.
EdgeInv ==
  \A h \in Handles : target[h] # Null => Live(target[h]) /\ owner[h] # NoThread

CacheInv ==
  \A e \in Entries : cacheKey[e] # Null =>
    cacheValue[e] # Null /\ Live(cacheKey[e]) /\ Live(cacheValue[e])

\* The child edges as functions of the parent, and how many edges lead to id.
LoEdge == [p \in Ids |-> IF IsInner(p) THEN lo[p] ELSE Null]
HiEdge == [p \in Ids |-> IF IsInner(p) THEN hi[p] ELSE Null]
Count(f, D, id) == Cardinality({x \in D : f[x] = id})

RcInv ==
  \A id \in Ids : Live(id) =>
    rc[id] = 1 + Count(target, Handles, id) + Count(LoEdge, Ids, id) + Count(HiEdge, Ids, id)

\* Inside get_or_insert or get_edge: the table is locked and the two handles
\* are set aside.  What has been found stays in the table, and what has not been
\* found stays absent or cut off.
ReqInv(t) ==
  /\ pc[t] \in Requesting =>
       /\ tableLock[reqLevel[t]] = t
       /\ reqLo[t] \in Handles /\ owner[reqLo[t]] = t
       /\ reqHi[t] \in Handles /\ owner[reqHi[t]] = t
  /\ pc[t] \in {"drop", "clone"} => found[t] \in Ids /\ level[found[t]] = reqLevel[t]
  /\ pc[t] = "drop" =>
       /\ reqLo[t] # reqHi[t]
       /\ target[reqLo[t]] # Null /\ target[reqHi[t]] # Null
  /\ pc[t] = "clone" => target[reqLo[t]] = Null /\ target[reqHi[t]] = Null
  /\ pc[t] = "insert" =>
       /\ Matches(reqLevel[t], keyLo[t], keyHi[t]) \subseteq cut
       /\ \/ /\ reqLevel[t] = NumLevels
             /\ reqLo[t] = reqHi[t] /\ target[reqLo[t]] = Null
          \/ /\ reqLevel[t] \in 0 .. NumLevels - 1
             /\ reqLo[t] # reqHi[t]
             /\ target[reqLo[t]] = keyLo[t] /\ target[reqHi[t]] = keyHi[t]
             /\ keyLo[t] \in Ids /\ level[keyLo[t]] > reqLevel[t]
             /\ keyHi[t] \in Ids /\ level[keyHi[t]] > reqLevel[t]

\* Inside a cache hit: the entry is locked, so its contents stay.
HitInv(t) ==
  pc[t] = "hit" =>
    /\ found[t] \in InnerIds
    /\ cacheLock[Bucket[found[t]]] = t /\ cacheKey[Bucket[found[t]]] # Null
    /\ reqLo[t] \in Handles /\ owner[reqLo[t]] = t /\ target[reqLo[t]] = Null

LockInv(t) ==
  \A e \in Entries : cacheLock[e] = t =>
    pc[t] \in Collecting \/ (pc[t] = "hit" /\ e = Bucket[found[t]])

\* Inside a gc: there is one at a time, while it sweeps the cache is empty and
\* locked, and a condemned node has no reference but the table's.
GcInv(t) ==
  /\ pc[t] \in Collecting => gcOwner = t
  /\ pc[t] = "pre" => \A e \in Entries : cacheLock[e] = t => cacheKey[e] = Null
  /\ pc[t] \in Sweeping =>
       gcStep \in Levels /\ \A e \in Entries : cacheLock[e] = t /\ cacheKey[e] = Null
  /\ pc[t] \in {"sweep", "free"} =>
       tableLock[gcStep] = t /\ \A id \in gcTodo : level[id] = gcStep
  /\ pc[t] = "free" =>
       /\ victim \in Ids /\ victim \notin gcTodo
       /\ level[victim] = gcStep /\ rc[victim] = 1

\* What was unreachable when the sweep began stays unreachable, with all the
\* nodes above it, until it is revived or freed; levels above have none left.
GarbageInv(t) ==
  /\ pc[t] \in Sweeping =>
       \A g \in garbage :
         /\ Live(g) /\ level[g] >= gcStep
         /\ \A h \in Handles : target[h] # g
         /\ \A p \in Ids : IsInner(p) /\ (lo[p] = g \/ hi[p] = g) => p \in garbage
         /\ pc[t] = "sweep" /\ level[g] = gcStep => g \in gcTodo
         /\ pc[t] = "free" /\ level[g] = gcStep => g \in gcTodo \cup {victim}
  /\ pc[t] = "post" => garbage = {}

ThreadInv(t) == ReqInv(t) /\ HitInv(t) /\ LockInv(t) /\ GcInv(t) /\ GarbageInv(t)

StateInv == NodeInv /\ EdgeInv /\ CacheInv /\ RcInv /\ Canonical

IInv == TypeOK /\ StateInv /\ \A t \in Threads : ThreadInv(t)

-----------------------------------------------------------------------------
(* Counting edges *)

\* g differs from f in the edge of k, which leads to b.
Redirected(f, g, D, k, b) == \A x \in D : g[x] = IF x = k THEN b ELSE f[x]

One(a, id) == IF a = id THEN 1 ELSE 0

\* Redirecting one edge from f[k] to b moves one count.
LEMMA CountUpdate ==
  ASSUME NEW D, IsFiniteSet(D), NEW f, NEW g, NEW k \in D, NEW b,
         Redirected(f, g, D, k, b), NEW id
  PROVE  Count(g, D, id) = Count(f, D, id) - One(f[k], id) + One(b, id)
<1> DEFINE F == {x \in D : f[x] = id}
           G == {x \in D : g[x] = id}
           R == {x \in D : f[x] = id} \ {k}
<1>1. IsFiniteSet(F) /\ IsFiniteSet(G) /\ IsFiniteSet(R)
  BY FS_Subset
<1>2. f[k] = id => F = R \cup {k}
  OBVIOUS
<1>3. f[k] # id => F = R
  OBVIOUS
<1>4. b = id => G = R \cup {k}
  BY DEF Redirected
<1>5. b # id => G = R
  BY DEF Redirected
<1>6. k \notin R
  OBVIOUS
<1>7. Count(f, D, id) = Cardinality(F) /\ Count(g, D, id) = Cardinality(G)
  BY DEF Count
<1> HIDE DEF F, G, R
<1>8. Cardinality(R) \in Nat /\ Cardinality(R \cup {k}) = Cardinality(R) + 1
  BY <1>1, <1>6, FS_CardinalityType, FS_AddElement
<1>9. Count(f, D, id) = Cardinality(R) + (IF f[k] = id THEN 1 ELSE 0)
  <2>1. CASE f[k] = id
    <3>1. Cardinality(F) = Cardinality(R) + 1
      BY <1>2, <1>8, <2>1
    <3> QED BY <1>7, <2>1, <3>1
  <2>2. CASE f[k] # id
    BY <1>3, <1>7, <1>8, <2>2
  <2> QED BY <2>1, <2>2
<1>10. Count(g, D, id) = Cardinality(R) + (IF b = id THEN 1 ELSE 0)
  <2>1. CASE b = id
    <3>1. Cardinality(G) = Cardinality(R) + 1
      BY <1>4, <1>8, <2>1
    <3> QED BY <1>7, <2>1, <3>1
  <2>2. CASE b # id
    BY <1>5, <1>7, <1>8, <2>2
  <2> QED BY <2>1, <2>2
<1> QED BY <1>8, <1>9, <1>10 DEF One

\* Counts are natural numbers, zero if there is no edge.
LEMMA CountType ==
  ASSUME NEW D, IsFiniteSet(D), NEW f, NEW id
  PROVE  /\ Count(f, D, id) \in Nat
         /\ Count(f, D, id) = 0 <=> \A x \in D : f[x] # id
<1> DEFINE F == {x \in D : f[x] = id}
<1>1. IsFiniteSet(F)
  BY FS_Subset
<1>2. Count(f, D, id) = Cardinality(F)
  BY DEF Count
<1>3. F = {} <=> \A x \in D : f[x] # id
  OBVIOUS
<1> HIDE DEF F
<1> QED BY <1>1, <1>2, <1>3, FS_CardinalityType, FS_EmptySet

-----------------------------------------------------------------------------
(* What the invariant says about single nodes *)

\* A live node is counted once for its table, so with a count of 1 it has no
\* other reference.
LEMMA LoneNode ==
  ASSUME TypeOK, RcInv, NEW id \in Ids, Live(id)
  PROVE  /\ rc[id] >= 1
         /\ rc[id] = 1 <=> /\ \A h \in Handles : target[h] # id
                           /\ \A p \in Ids : IsInner(p) => lo[p] # id /\ hi[p] # id
<1>1. PICK f, p, q : f = target /\ p = LoEdge /\ q = HiEdge
  OBVIOUS
<1>2. IsFiniteSet(Ids) /\ IsFiniteSet(Handles) /\ id # Null
  BY GcAssumption
<1>3. rc[id] = 1 + Count(f, Handles, id) + Count(p, Ids, id) + Count(q, Ids, id)
  BY <1>1 DEF RcInv
<1>4. /\ Count(f, Handles, id) \in Nat
      /\ Count(f, Handles, id) = 0 <=> \A h \in Handles : f[h] # id
  BY <1>2, CountType
<1>5. /\ Count(p, Ids, id) \in Nat
      /\ Count(p, Ids, id) = 0 <=> \A x \in Ids : p[x] # id
  BY <1>2, CountType
<1>6. /\ Count(q, Ids, id) \in Nat
      /\ Count(q, Ids, id) = 0 <=> \A x \in Ids : q[x] # id
  BY <1>2, CountType
<1>7. (\A x \in Ids : p[x] # id) <=> \A x \in Ids : IsInner(x) => lo[x] # id
  BY <1>1, <1>2 DEF LoEdge
<1>8. (\A x \in Ids : q[x] # id) <=> \A x \in Ids : IsInner(x) => hi[x] # id
  BY <1>1, <1>2 DEF HiEdge
<1>9. (\A h \in Handles : f[h] # id) <=> \A h \in Handles : target[h] # id
  BY <1>1
<1>10. rc[id] >= 1 /\ (rc[id] = 1 <=> /\ Count(f, Handles, id) = 0
                                      /\ Count(p, Ids, id) = 0 /\ Count(q, Ids, id) = 0)
  BY <1>3, <1>4, <1>5, <1>6
<1> QED BY <1>4, <1>5, <1>6, <1>7, <1>8, <1>9, <1>10

\* A node about to be freed has no reference but the table's.
Alone(id) ==
  /\ \A h \in Handles : target[h] # id
  /\ \A p \in Ids : IsInner(p) => lo[p] # id /\ hi[p] # id

\* The victim of a gc between the decision and free_slot is such a node.
LEMMA VictimAlone ==
  ASSUME IInv, NEW t \in Threads, pc[t] = "free"
  PROVE  /\ victim \in Ids /\ level[victim] = gcStep /\ Live(victim) /\ gcStep \in Levels
         /\ Alone(victim)
<1>1. victim \in Ids /\ level[victim] = gcStep /\ rc[victim] = 1 /\ gcStep \in Levels
  BY DEF IInv, ThreadInv, GcInv, Sweeping
<1>2. Live(victim)
  BY <1>1, GcAssumption DEF Live, Free, Levels
<1>3. TypeOK /\ RcInv
  BY DEF IInv, StateInv
<1> QED BY <1>1, <1>2, <1>3, LoneNode DEF Alone

\* A thread sees live nodes only, and a gc neither frees them nor counts them
\* as garbage.
LEMMA VisibleNode ==
  ASSUME IInv, NEW t \in Threads, NEW id \in Visible(t)
  PROVE  /\ id \in Ids /\ Live(id)
         /\ \A u \in Threads : pc[u] = "free" => id # victim
         /\ \A u \in Threads : pc[u] \in Sweeping => id \notin garbage
<1>1. PICK h \in Handles : Owns(t, h) /\ id \in {target[h]} \cup Children(target[h])
  BY DEF Visible
<1>2. target[h] \in Ids /\ Live(target[h])
  BY <1>1 DEF Owns, IInv, StateInv, EdgeInv, TypeOK
<1>3. id = target[h] \/ (IsInner(target[h]) /\ (id = lo[target[h]] \/ id = hi[target[h]]))
  BY <1>1 DEF Children
<1>4. id \in Ids /\ Live(id)
  <2>1. CASE id = target[h]
    BY <1>2, <2>1
  <2>2. CASE IsInner(target[h]) /\ (id = lo[target[h]] \/ id = hi[target[h]])
    <3>1. id \in Ids /\ level[id] > level[target[h]] /\ level[target[h]] \in Nat
      BY <1>2, <2>2, GcAssumption DEF IInv, StateInv, NodeInv, IsInner
    <3>2. level[id] \in Levels \cup {Free}
      BY <3>1 DEF IInv, TypeOK
    <3> QED BY <3>1, <3>2, GcAssumption DEF Live, Free, Levels
  <2> QED BY <1>3, <2>1, <2>2
<1>5. ASSUME NEW u \in Threads, pc[u] = "free" PROVE id # victim
  BY <1>2, <1>3, <1>5, VictimAlone DEF Alone
<1>6. ASSUME NEW u \in Threads, pc[u] \in Sweeping PROVE id \notin garbage
  <2>1. \A g \in garbage :
          /\ \A k \in Handles : target[k] # g
          /\ \A p \in Ids : IsInner(p) /\ (lo[p] = g \/ hi[p] = g) => p \in garbage
    BY <1>6 DEF IInv, ThreadInv, GarbageInv
  <2> QED BY <1>2, <1>3, <2>1
<1> QED BY <1>4, <1>5, <1>6

\* What is below S contains S and the children of its nodes.
LEMMA BelowClosed ==
  ASSUME NEW S, S \subseteq Ids
  PROVE  /\ S \subseteq Below(S)
         /\ \A p \in Below(S) : IsInner(p) =>
              /\ lo[p] \in Ids => lo[p] \in Below(S)
              /\ hi[p] \in Ids => hi[p] \in Below(S)
<1>1. S \subseteq Below(S)
  BY DEF Below
<1>2. ASSUME NEW p \in Below(S), IsInner(p), NEW c \in Ids, c \in Children(p)
      PROVE  c \in Below(S)
  BY <1>2 DEF Below
<1>3. \A p : IsInner(p) => Children(p) = {lo[p], hi[p]}
  BY DEF Children
<1> QED BY <1>1, <1>2, <1>3

-----------------------------------------------------------------------------
(* What a step may leave alone *)

SameNodes == UNCHANGED <<level, lo, hi>> /\ cut \subseteq cut'

\* The step does not touch what u keeps on its stack, ...
KeepsStack(u) ==
  /\ pc'[u] = pc[u] /\ reqLevel'[u] = reqLevel[u] /\ found'[u] = found[u]
  /\ reqLo'[u] = reqLo[u] /\ reqHi'[u] = reqHi[u]
  /\ keyLo'[u] = keyLo[u] /\ keyHi'[u] = keyHi[u]

\* ... the handles of u and their nodes, ...
KeepsHandles(u) ==
  \A h \in Handles : owner[h] = u =>
    /\ owner'[h] = u /\ target'[h] = target[h]
    /\ target[h] # Null => level'[target[h]] = level[target[h]]

\* ... the tables that u has locked, ...
KeepsTables(u) ==
  \A l \in Levels : tableLock[l] = u =>
    /\ tableLock'[l] = u
    /\ \A id \in Ids : level[id] = l \/ level'[id] = l =>
         /\ level'[id] = level[id] /\ lo'[id] = lo[id] /\ hi'[id] = hi[id]
         /\ id \in cut => id \in cut'

\* ... the cache entries that u has locked, ...
KeepsEntries(u) ==
  \A e \in Entries :
    /\ cacheLock'[e] = u <=> cacheLock[e] = u
    /\ cacheLock[e] = u => cacheKey'[e] = cacheKey[e]

\* ... and the gc of u.
KeepsGc(u) ==
  pc[u] \in Collecting =>
    /\ gcOwner' = gcOwner /\ gcStep' = gcStep /\ gcTodo' = gcTodo /\ victim' = victim
    /\ pc[u] = "free" => rc'[victim] = rc[victim]

Keeps(u) ==
  KeepsStack(u) /\ KeepsHandles(u) /\ KeepsTables(u) /\ KeepsEntries(u) /\ KeepsGc(u)

\* A request of u is not disturbed.
LEMMA ReqKept ==
  ASSUME IInv, NEW u \in Threads, Keeps(u) PROVE ReqInv(u)'
<1>1. KeepsStack(u) /\ KeepsHandles(u) /\ KeepsTables(u)
  BY DEF Keeps
<1>2. ReqInv(u) /\ TypeOK
  BY DEF IInv, ThreadInv
<1>3. ASSUME pc[u] \in Requesting
      PROVE  /\ tableLock'[reqLevel[u]] = u
             /\ owner'[reqLo[u]] = u /\ target'[reqLo[u]] = target[reqLo[u]]
             /\ owner'[reqHi[u]] = u /\ target'[reqHi[u]] = target[reqHi[u]]
             /\ target[reqLo[u]] # Null => level'[target[reqLo[u]]] = level[target[reqLo[u]]]
             /\ target[reqHi[u]] # Null => level'[target[reqHi[u]]] = level[target[reqHi[u]]]
             /\ reqLo[u] \in Handles /\ reqHi[u] \in Handles
  BY <1>1, <1>2, <1>3 DEF ReqInv, KeepsHandles, KeepsTables, TypeOK
<1>4. ASSUME pc[u] \in {"drop", "clone"} PROVE level'[found[u]] = level[found[u]]
  BY <1>1, <1>2, <1>4 DEF ReqInv, KeepsTables, TypeOK, Requesting
<1>5. ASSUME pc[u] = "insert"
      PROVE  Matches(reqLevel[u], keyLo[u], keyHi[u])' \subseteq cut'
  <2>1. /\ reqLevel[u] \in Levels /\ tableLock[reqLevel[u]] = u
        /\ Matches(reqLevel[u], keyLo[u], keyHi[u]) \subseteq cut
    BY <1>2, <1>5 DEF ReqInv, TypeOK, Requesting
  <2>2. \A id \in Ids : level'[id] = reqLevel[u] =>
           /\ level'[id] = level[id] /\ lo'[id] = lo[id] /\ hi'[id] = hi[id]
           /\ id \in cut => id \in cut'
    BY <1>1, <2>1 DEF KeepsTables
  <2> QED BY <1>1, <2>1, <2>2 DEF Matches, KeepsStack
<1>6. ASSUME pc[u] = "insert", reqLevel[u] # NumLevels
      PROVE  /\ keyLo[u] \in Ids /\ level'[keyLo[u]] = level[keyLo[u]]
             /\ keyHi[u] \in Ids /\ level'[keyHi[u]] = level[keyHi[u]]
  BY <1>2, <1>3, <1>6, GcAssumption DEF ReqInv, Requesting
<1>7. (pc[u] \in Requesting =>
       /\ tableLock[reqLevel[u]] = u
       /\ reqLo[u] \in Handles /\ owner[reqLo[u]] = u
       /\ reqHi[u] \in Handles /\ owner[reqHi[u]] = u)'
  BY <1>1, <1>3 DEF KeepsStack
<1>8. (pc[u] \in {"drop", "clone"} => found[u] \in Ids /\ level[found[u]] = reqLevel[u])'
  BY <1>1, <1>2, <1>4 DEF KeepsStack, ReqInv
<1>9. (pc[u] = "drop" =>
       /\ reqLo[u] # reqHi[u]
       /\ target[reqLo[u]] # Null /\ target[reqHi[u]] # Null)'
  BY <1>1, <1>2, <1>3 DEF KeepsStack, ReqInv, Requesting
<1>10. (pc[u] = "clone" => target[reqLo[u]] = Null /\ target[reqHi[u]] = Null)'
  BY <1>1, <1>2, <1>3 DEF KeepsStack, ReqInv, Requesting
<1>11. (pc[u] = "insert" =>
       /\ Matches(reqLevel[u], keyLo[u], keyHi[u]) \subseteq cut
       /\ \/ /\ reqLevel[u] = NumLevels
             /\ reqLo[u] = reqHi[u] /\ target[reqLo[u]] = Null
          \/ /\ reqLevel[u] \in 0 .. NumLevels - 1
             /\ reqLo[u] # reqHi[u]
             /\ target[reqLo[u]] = keyLo[u] /\ target[reqHi[u]] = keyHi[u]
             /\ keyLo[u] \in Ids /\ level[keyLo[u]] > reqLevel[u]
             /\ keyHi[u] \in Ids /\ level[keyHi[u]] > reqLevel[u])'
  BY <1>1, <1>2, <1>3, <1>5, <1>6 DEF KeepsStack, ReqInv, Requesting
<1> QED BY <1>7, <1>8, <1>9, <1>10, <1>11 DEF ReqInv

\* Neither is a cache hit, a locked entry or a gc.
LEMMA OthersKept ==
  ASSUME IInv, NEW u \in Threads, Keeps(u)
  PROVE  HitInv(u)' /\ LockInv(u)' /\ GcInv(u)'
<1>1. KeepsStack(u) /\ KeepsHandles(u) /\ KeepsTables(u) /\ KeepsEntries(u) /\ KeepsGc(u)
  BY DEF Keeps
<1>2. HitInv(u) /\ LockInv(u) /\ GcInv(u) /\ TypeOK
  BY DEF IInv, ThreadInv
<1>3. HitInv(u)'
  BY <1>1, <1>2, GcAssumption DEF HitInv, KeepsStack, KeepsHandles, KeepsEntries
<1>4. LockInv(u)'
  BY <1>1, <1>2 DEF LockInv, KeepsStack, KeepsEntries
<1>5. GcInv(u)'
  <2>1. CASE pc[u] \notin Collecting
    BY <1>1, <2>1 DEF GcInv, KeepsStack, Collecting, Sweeping
  <2>2. CASE pc[u] \in Collecting
    <3>1. gcOwner' = gcOwner /\ gcStep' = gcStep /\ gcTodo' = gcTodo /\ victim' = victim
      BY <1>1, <2>2 DEF KeepsGc
    <3>2. pc'[u] = pc[u]
      BY <1>1 DEF KeepsStack
    <3>3. pc[u] = "pre" => \A e \in Entries : cacheLock'[e] = u => cacheKey'[e] = Null
      BY <1>1, <1>2 DEF GcInv, KeepsEntries
    <3>4. pc[u] \in Sweeping =>
            \A e \in Entries : cacheLock'[e] = u /\ cacheKey'[e] = Null
      BY <1>1, <1>2 DEF GcInv, KeepsEntries
    <3>5. pc[u] \in {"sweep", "free"} =>
            /\ gcStep \in Levels /\ tableLock'[gcStep] = u
            /\ \A id \in Ids : level[id] = gcStep => level'[id] = gcStep
      BY <1>1, <1>2 DEF GcInv, KeepsTables, Sweeping
    <3>6. gcTodo \subseteq Ids
      BY <1>2 DEF TypeOK
    <3>7. pc[u] = "free" => rc'[victim] = rc[victim]
      BY <1>1, <2>2 DEF KeepsGc
    <3>8. GcInv(u)
      BY <1>2
    <3> QED BY <3>1, <3>2, <3>3, <3>4, <3>5, <3>6, <3>7, <3>8 DEF GcInv
  <2> QED BY <2>1, <2>2
<1> QED BY <1>3, <1>4, <1>5

\* The step does not touch what a sweep of u relies on: garbage is not
\* referenced anew.
KeepsGarbage(u) ==
  pc[u] \in Sweeping \cup {"post"} =>
    /\ garbage' = garbage
    /\ \A g \in garbage :
         /\ level'[g] = level[g]
         /\ \A h \in Handles : target[h] # g => target'[h] # g
         /\ \A p \in Ids :
              IsInner(p)' /\ (lo'[p] = g \/ hi'[p] = g) =>
                IsInner(p) /\ (lo[p] = g \/ hi[p] = g)

\* Then all that the invariant says about u is kept.
LEMMA ThreadKept ==
  ASSUME IInv, NEW u \in Threads, Keeps(u), KeepsGarbage(u)
  PROVE  ThreadInv(u)'
<1>1. pc'[u] = pc[u]
  BY DEF Keeps, KeepsStack
<1>2. GarbageInv(u)'
  <2>1. CASE pc[u] \in Sweeping
    <3>1. gcStep' = gcStep /\ gcTodo' = gcTodo /\ victim' = victim
      BY <2>1 DEF Keeps, KeepsGc, Collecting
    <3>2. GarbageInv(u)
      BY DEF IInv, ThreadInv
    <3>3. garbage' = garbage /\ pc[u] # "post"
      BY <2>1 DEF KeepsGarbage, Sweeping
    <3>4. ASSUME NEW g \in garbage
          PROVE  /\ Live(g)' /\ level'[g] >= gcStep
                 /\ \A h \in Handles : target'[h] # g
                 /\ \A p \in Ids : IsInner(p)' /\ (lo'[p] = g \/ hi'[p] = g) => p \in garbage
                 /\ pc[u] = "sweep" /\ level'[g] = gcStep => g \in gcTodo
                 /\ pc[u] = "free" /\ level'[g] = gcStep => g \in gcTodo \cup {victim}
      <4>1. level'[g] = level[g]
        BY <2>1 DEF KeepsGarbage
      <4>2. \A h \in Handles : target'[h] # g
        BY <2>1, <3>2 DEF KeepsGarbage, GarbageInv
      <4>3. \A p \in Ids : IsInner(p)' /\ (lo'[p] = g \/ hi'[p] = g) => p \in garbage
        BY <2>1, <3>2 DEF KeepsGarbage, GarbageInv
      <4>4. Live(g)'
        BY <2>1, <3>2, <4>1 DEF GarbageInv, Live
      <4> QED BY <2>1, <3>2, <4>1, <4>2, <4>3, <4>4 DEF GarbageInv
    <3> QED BY <1>1, <2>1, <3>1, <3>3, <3>4 DEF GarbageInv
  <2>2. CASE pc[u] = "post"
    BY <1>1, <2>2 DEF IInv, ThreadInv, GarbageInv, KeepsGarbage, Sweeping
  <2>3. CASE pc[u] \notin Sweeping \cup {"post"}
    BY <1>1, <2>3 DEF GarbageInv
  <2> QED BY <2>1, <2>2, <2>3
<1> QED BY <1>2, ReqKept, OthersKept DEF ThreadInv

\* A step that changes neither nodes nor edges keeps what depends on them.
LEMMA NodesKept ==
  ASSUME IInv, SameNodes
  PROVE  /\ NodeInv' /\ Canonical'
         /\ cacheKey' = cacheKey /\ cacheValue' = cacheValue => CacheInv'
         /\ \A id : Live(id)' <=> Live(id)
         /\ \A id : IsInner(id)' <=> IsInner(id)
<1>1. NodeInv /\ Canonical /\ CacheInv
  BY DEF IInv, StateInv
<1>2. NodeInv'
  BY <1>1 DEF NodeInv, IsInner, SameNodes
<1>3. Canonical'
  BY <1>1 DEF Canonical, Live, SameNodes
<1>4. cacheKey' = cacheKey /\ cacheValue' = cacheValue => CacheInv'
  BY <1>1 DEF CacheInv, Live, SameNodes
<1> QED BY <1>2, <1>3, <1>4 DEF Live, IsInner, SameNodes

\* Counts and owners are kept if the step leaves edges alone.
LEMMA CountsKept ==
  ASSUME IInv, SameNodes, rc' = rc, target' = target,
         \A h \in Handles : owner[h] # NoThread => owner'[h] # NoThread
  PROVE  RcInv' /\ EdgeInv'
<1>1. RcInv /\ EdgeInv
  BY DEF IInv, StateInv
<1>2. LoEdge' = LoEdge /\ HiEdge' = HiEdge
  BY DEF LoEdge, HiEdge, SameNodes, IsInner
<1>3. RcInv'
  BY <1>1, <1>2 DEF RcInv, Live, SameNodes
<1> QED BY <1>1, <1>3 DEF EdgeInv, Live, SameNodes

\* One edge is redirected and the counts of its two ends follow.
LEMMA CountsOneEdge ==
  ASSUME TypeOK, RcInv, SameNodes,
         NEW k \in Handles, NEW b \in Ids \cup {Null}, target' = [target EXCEPT ![k] = b],
         \A id \in Ids :
           rc'[id] = rc[id] - One(target[k], id) + One(b, id)
  PROVE  RcInv'
<1>1. PICK f, g : f = target /\ g = target'
  OBVIOUS
<1>2. IsFiniteSet(Handles) /\ IsFiniteSet(Ids)
  BY GcAssumption
<1>3. Redirected(f, g, Handles, k, b)
  BY <1>1 DEF TypeOK, Redirected
<1>4. LoEdge' = LoEdge /\ HiEdge' = HiEdge
  BY DEF LoEdge, HiEdge, SameNodes, IsInner
<1>5. ASSUME NEW id \in Ids, Live(id)
      PROVE  rc'[id] = 1 + Count(g, Handles, id) + Count(LoEdge, Ids, id) + Count(HiEdge, Ids, id)
  <2>1. Count(g, Handles, id) = Count(f, Handles, id) - One(f[k], id) + One(b, id)
    BY <1>2, <1>3, CountUpdate
  <2>2. PICK m, n : m = Count(LoEdge, Ids, id) /\ n = Count(HiEdge, Ids, id)
    OBVIOUS
  <2>3. m \in Nat /\ n \in Nat /\ Count(f, Handles, id) \in Nat
    BY <1>2, <2>2, CountType
  <2>4. rc[id] = 1 + Count(f, Handles, id) + m + n
    BY <1>1, <1>5, <2>2 DEF RcInv
  <2>5. rc'[id] = rc[id] - One(f[k], id) + One(b, id)
    BY <1>1
  <2>6. rc'[id] = 1 + Count(g, Handles, id) + m + n
    BY <2>1, <2>3, <2>4, <2>5 DEF One
  <2> QED BY <2>2, <2>6
<1>6. \A id \in Ids : Live(id)' <=> Live(id)
  BY DEF SameNodes, Live, gcVars, tableVars
<1> QED BY <1>1, <1>4, <1>5, <1>6 DEF RcInv

\* Two edges are redirected.
TwoEdges(j, k, a, b) ==
  /\ target' = [target EXCEPT ![j] = a, ![k] = b]
  /\ \A id \in Ids :
       rc'[id] = rc[id] - One(target[j], id) + One(a, id) - One(target[k], id) + One(b, id)

\* Counts are exact again after two edges have been redirected with them.
LEMMA CountsTwoEdges ==
  ASSUME TypeOK, RcInv, SameNodes,
         NEW j \in Handles, NEW k \in Handles, j # k,
         NEW a \in Ids \cup {Null}, NEW b \in Ids \cup {Null}, TwoEdges(j, k, a, b)
  PROVE  RcInv'
<1>1. PICK f, h, g : f = target /\ h = [target EXCEPT ![j] = a] /\ g = target'
  OBVIOUS
<1>2. IsFiniteSet(Handles) /\ IsFiniteSet(Ids)
  BY GcAssumption
<1>3. /\ Redirected(f, h, Handles, j, a)
      /\ Redirected(h, g, Handles, k, b)
      /\ h[k] = f[k]
  BY <1>1 DEF TypeOK, Redirected, TwoEdges
<1>4. LoEdge' = LoEdge /\ HiEdge' = HiEdge
  BY DEF LoEdge, HiEdge, SameNodes, IsInner
<1>5. ASSUME NEW id \in Ids, Live(id)
      PROVE  rc'[id] = 1 + Count(g, Handles, id) + Count(LoEdge, Ids, id) + Count(HiEdge, Ids, id)
  <2>1. Count(h, Handles, id) = Count(f, Handles, id) - One(f[j], id) + One(a, id)
    BY <1>2, <1>3, CountUpdate
  <2>2. Count(g, Handles, id) = Count(h, Handles, id) - One(h[k], id) + One(b, id)
    BY <1>2, <1>3, CountUpdate
  <2>3. PICK m, n : m = Count(LoEdge, Ids, id) /\ n = Count(HiEdge, Ids, id)
    OBVIOUS
  <2>4. m \in Nat /\ n \in Nat /\ Count(f, Handles, id) \in Nat
    BY <1>2, <2>3, CountType
  <2>5. rc[id] = 1 + Count(f, Handles, id) + m + n
    BY <1>1, <1>5, <2>3 DEF RcInv
  <2>6. rc'[id] = rc[id] - One(f[j], id) + One(a, id)
                         - One(f[k], id) + One(b, id)
    BY <1>1 DEF TwoEdges
  <2>7. Count(g, Handles, id) = Count(f, Handles, id)
                         - One(f[j], id) + One(a, id)
                         - One(f[k], id) + One(b, id)
    BY <1>3, <2>1, <2>2, <2>4 DEF One
  <2>8. rc'[id] = 1 + Count(g, Handles, id) + m + n
    BY <2>4, <2>5, <2>6, <2>7 DEF One
  <2> QED BY <2>3, <2>8
<1>6. \A id \in Ids : Live(id)' <=> Live(id)
  BY DEF SameNodes, Live, gcVars, tableVars
<1> QED BY <1>1, <1>4, <1>5, <1>6 DEF RcInv

\* Exact counts are natural numbers.
LEMMA CountsNat ==
  ASSUME RcInv', \A id \in Ids : ~Live(id)' => rc'[id] \in Nat
  PROVE  \A id \in Ids : rc'[id] \in Nat
<1> SUFFICES ASSUME NEW id \in Ids, Live(id)' PROVE rc'[id] \in Nat
  OBVIOUS
<1>1. PICK f, p, q : f = target' /\ p = LoEdge' /\ q = HiEdge'
  OBVIOUS
<1>2. rc'[id] = 1 + Count(f, Handles, id) + Count(p, Ids, id) + Count(q, Ids, id)
  BY <1>1 DEF RcInv
<1>3. /\ Count(f, Handles, id) \in Nat /\ Count(p, Ids, id) \in Nat
      /\ Count(q, Ids, id) \in Nat
  BY GcAssumption, CountType
<1> QED BY <1>2, <1>3

\* A quiet step changes neither nodes nor the targets of edges.
Quiet ==
  /\ SameNodes /\ rc' = rc /\ target' = target
  /\ \A h \in Handles : owner[h] # NoThread => owner'[h] = owner[h]

\* A quiet step keeps all that the invariant says about nodes and edges.
LEMMA QuietState ==
  ASSUME IInv, Quiet, CacheInv' \/ UNCHANGED <<cacheKey, cacheValue>>
  PROVE  StateInv'
<1>1. \A h \in Handles : owner[h] # NoThread => owner'[h] # NoThread
  BY DEF Quiet
<1> QED BY <1>1, NodesKept, CountsKept DEF Quiet, StateInv

\* A quiet step of another thread does not disturb u.
LEMMA QuietThread ==
  ASSUME IInv, Quiet, NEW u \in Threads, KeepsStack(u), KeepsEntries(u),
         \A l \in Levels : tableLock[l] = u => tableLock'[l] = u,
         pc[u] \in Collecting => UNCHANGED gcVars
  PROVE  ThreadInv(u)'
<1>1. u # NoThread
  BY GcAssumption
<1>2. KeepsHandles(u)
  BY <1>1 DEF KeepsHandles, Quiet, SameNodes
<1>3. KeepsTables(u)
  BY DEF KeepsTables, Quiet, SameNodes
<1>4. KeepsGc(u)
  BY DEF KeepsGc, Quiet, gcVars, tableVars
<1>5. KeepsGarbage(u)
  BY DEF KeepsGarbage, Quiet, SameNodes, IsInner, Collecting, gcVars, tableVars
<1> QED BY <1>2, <1>3, <1>4, <1>5, ThreadKept DEF Keeps

\* There is one gc at a time.
LEMMA OneGc ==
  ASSUME IInv, NEW t \in Threads, NEW u \in Threads,
         pc[t] \in Collecting, pc[u] \in Collecting
  PROVE  t = u
BY DEF IInv, ThreadInv, GcInv

-----------------------------------------------------------------------------
(* Steps that change neither nodes nor edges *)

\* A lookup in a locked table; GetTerminal also takes a handle.
LookupFacts(t, l, a, b, next) ==
  /\ l \in Levels /\ pc[t] = "idle" /\ tableLock[l] = NoThread
  /\ tableLock' = [tableLock EXCEPT ![l] = t]
  /\ reqLevel' = [reqLevel EXCEPT ![t] = l]
  /\ keyLo' = [keyLo EXCEPT ![t] = a] /\ keyHi' = [keyHi EXCEPT ![t] = b]
  /\ \/ /\ pc' = [pc EXCEPT ![t] = "insert"] /\ found' = found
        /\ Matches(l, a, b) \subseteq cut
     \/ /\ pc' = [pc EXCEPT ![t] = next]
        /\ \E id \in Ids : level[id] = l /\ found' = [found EXCEPT ![t] = id]

\* get_or_insert locks the table, and its two child edges stay with the thread.
LEMMA GetOrInsertInv ==
  ASSUME IInv, NEW t \in Threads, NEW l \in 0 .. NumLevels - 1,
         NEW a \in Handles, NEW b \in Handles, GetOrInsert(t, l, a, b)
  PROVE  IInv'
<1> DEFINE x == target[a]
           y == target[b]
<1>1. TypeOK
  BY DEF IInv
<1>2. /\ owner[a] = t /\ x # Null /\ owner[b] = t /\ y # Null /\ a # b
      /\ x \in Ids /\ y \in Ids /\ level[x] > l /\ level[y] > l
  BY <1>1 DEF GetOrInsert, Owns, TypeOK
<1>3. LookupFacts(t, l, x, y, "drop")
  BY GcAssumption DEF GetOrInsert, Lookup, LookupFacts, Matches, Levels, Idle, Goto
<1>4. /\ reqLo' = [reqLo EXCEPT ![t] = a] /\ reqHi' = [reqHi EXCEPT ![t] = b]
      /\ UNCHANGED <<nodeVars, edgeVars, cacheVars, gcVars>>
  BY DEF GetOrInsert
<1>5. Quiet
  BY <1>4 DEF Quiet, SameNodes, nodeVars, edgeVars, gcVars, tableVars
<1>6. TypeOK'
  BY <1>1, <1>2, <1>3, <1>4 DEF TypeOK, LookupFacts, nodeVars, edgeVars, cacheVars, gcVars, tableVars
<1>7. StateInv'
  BY <1>4, <1>5, QuietState DEF cacheVars
<1>8. ASSUME NEW u \in Threads \ {t} PROVE ThreadInv(u)'
  <2>1. KeepsStack(u)
    BY <1>1, <1>3, <1>4 DEF KeepsStack, LookupFacts, TypeOK
  <2>2. KeepsEntries(u)
    BY <1>4 DEF KeepsEntries, cacheVars
  <2>3. \A k \in Levels : tableLock[k] = u => tableLock'[k] = u
    BY <1>1, <1>3, GcAssumption DEF LookupFacts, TypeOK
  <2> QED BY <1>4, <1>5, <2>1, <2>2, <2>3, QuietThread
<1>9. ThreadInv(t)'
  <2>1. /\ pc'[t] \in {"insert", "drop"} /\ tableLock'[l] = t /\ reqLevel'[t] = l
        /\ keyLo'[t] = x /\ keyHi'[t] = y /\ reqLo'[t] = a /\ reqHi'[t] = b
        /\ pc'[t] = "drop" => found'[t] \in Ids /\ level[found'[t]] = l
        /\ pc'[t] = "insert" => Matches(l, x, y) \subseteq cut
    BY <1>1, <1>3, <1>4 DEF LookupFacts, TypeOK
  <2>2. Matches(l, x, y)' = Matches(l, x, y)
    BY <1>4 DEF Matches, nodeVars, edgeVars
  <2>3. ReqInv(t)'
    BY <1>2, <1>4, <2>1, <2>2 DEF ReqInv, nodeVars, edgeVars, gcVars, tableVars, Requesting
  <2>4. HitInv(t)' /\ GcInv(t)' /\ GarbageInv(t)'
    BY <2>1 DEF HitInv, GcInv, GarbageInv, Sweeping, Collecting
  <2>5. LockInv(t)'
    <3>1. \A e \in Entries : cacheLock[e] # t
      BY <1>3 DEF LookupFacts, IInv, ThreadInv, LockInv, Collecting, Sweeping
    <3> QED BY <1>4, <3>1 DEF LockInv, cacheVars
  <2> QED BY <2>3, <2>4, <2>5 DEF ThreadInv
<1> QED BY <1>6, <1>7, <1>8, <1>9 DEF IInv

\* get_edge locks the terminals and sets a handle aside for the result.
LEMMA GetTerminalInv ==
  ASSUME IInv, NEW t \in Threads, NEW v \in Values, NEW h \in Handles, GetTerminal(t, v, h)
  PROVE  IInv'
<1>1. TypeOK
  BY DEF IInv
<1>2. owner[h] = NoThread /\ target[h] = Null
  BY DEF GetTerminal, IInv, StateInv, EdgeInv
<1>3. LookupFacts(t, NumLevels, v, v, "clone")
  BY GcAssumption DEF GetTerminal, Lookup, LookupFacts, Matches, Levels, Idle, Goto
<1>4. /\ reqLo' = [reqLo EXCEPT ![t] = h] /\ reqHi' = [reqHi EXCEPT ![t] = h]
      /\ owner' = [owner EXCEPT ![h] = t]
      /\ UNCHANGED <<nodeVars, target, cacheVars, gcVars>>
  BY DEF GetTerminal
<1>5. Quiet
  BY <1>1, <1>2, <1>4 DEF Quiet, SameNodes, nodeVars, TypeOK, gcVars, tableVars
<1>6. TypeOK'
  BY <1>1, <1>2, <1>3, <1>4 DEF TypeOK, LookupFacts, nodeVars, cacheVars, gcVars, tableVars
<1>7. StateInv'
  BY <1>4, <1>5, QuietState DEF cacheVars
<1>8. ASSUME NEW u \in Threads \ {t} PROVE ThreadInv(u)'
  <2>1. KeepsStack(u)
    BY <1>1, <1>3, <1>4 DEF KeepsStack, LookupFacts, TypeOK
  <2>2. KeepsEntries(u)
    BY <1>4 DEF KeepsEntries, cacheVars
  <2>3. \A k \in Levels : tableLock[k] = u => tableLock'[k] = u
    BY <1>1, <1>3, GcAssumption DEF LookupFacts, TypeOK
  <2> QED BY <1>4, <1>5, <2>1, <2>2, <2>3, QuietThread
<1>9. ThreadInv(t)'
  <2>1. /\ pc'[t] \in {"insert", "clone"} /\ tableLock'[NumLevels] = t
        /\ reqLevel'[t] = NumLevels
        /\ keyLo'[t] = v /\ keyHi'[t] = v /\ reqLo'[t] = h /\ reqHi'[t] = h
        /\ pc'[t] = "clone" => found'[t] \in Ids /\ level[found'[t]] = NumLevels
        /\ pc'[t] = "insert" => Matches(NumLevels, v, v) \subseteq cut
    BY <1>1, <1>3, <1>4 DEF LookupFacts, TypeOK
  <2>2. Matches(NumLevels, v, v)' = Matches(NumLevels, v, v)
    BY <1>4 DEF Matches, nodeVars
  <2>3. owner'[h] = t
    BY <1>1, <1>4 DEF TypeOK
  <2>4. ReqInv(t)'
    BY <1>2, <1>4, <2>1, <2>2, <2>3 DEF ReqInv, nodeVars, gcVars, tableVars, Requesting
  <2>5. HitInv(t)' /\ GcInv(t)' /\ GarbageInv(t)'
    BY <2>1 DEF HitInv, GcInv, GarbageInv, Sweeping, Collecting
  <2>6. LockInv(t)'
    <3>1. \A e \in Entries : cacheLock[e] # t
      BY <1>3 DEF LookupFacts, IInv, ThreadInv, LockInv, Collecting, Sweeping
    <3> QED BY <1>4, <3>1 DEF LockInv, cacheVars
  <2> QED BY <2>4, <2>5, <2>6 DEF ThreadInv
<1> QED BY <1>6, <1>7, <1>8, <1>9 DEF IInv

\* An entry is written when nobody has locked it.
LEMMA EntryWritten ==
  ASSUME IInv, NEW e \in Entries, cacheLock[e] = NoThread,
         NEW k \in InnerIds \cup {Null}, NEW v \in Ids \cup {Null},
         k # Null => v # Null /\ Live(k) /\ Live(v),
         cacheKey' = [cacheKey EXCEPT ![e] = k], cacheValue' = [cacheValue EXCEPT ![e] = v],
         UNCHANGED <<nodeVars, edgeVars, tableLock, cacheLock, pc, reqVars, gcVars>>
  PROVE  IInv'
<1>1. TypeOK /\ CacheInv
  BY DEF IInv, StateInv
<1>2. Quiet
  BY DEF Quiet, SameNodes, nodeVars, edgeVars, gcVars, tableVars
<1>3. TypeOK'
  BY <1>1 DEF TypeOK, nodeVars, edgeVars, reqVars, gcVars, tableVars
<1>4. CacheInv'
  BY <1>1 DEF CacheInv, TypeOK, Live, nodeVars
<1>5. StateInv'
  BY <1>2, <1>4, QuietState
<1>6. ASSUME NEW u \in Threads PROVE ThreadInv(u)'
  <2>1. KeepsStack(u)
    BY DEF KeepsStack, reqVars
  <2>2. KeepsEntries(u)
    BY <1>1, GcAssumption DEF KeepsEntries, TypeOK
  <2> QED BY <1>2, <2>1, <2>2, QuietThread
<1> QED BY <1>3, <1>5, <1>6 DEF IInv

\* add caches nodes that the thread sees, which are live.
LEMMA CacheAddInv ==
  ASSUME IInv, NEW t \in Threads, NEW x \in InnerIds, NEW v \in Ids, CacheAdd(t, x, v)
  PROVE  IInv'
<1>1. x \in Visible(t) /\ v \in Visible(t) /\ v # Null /\ Bucket[x] \in Entries
  BY GcAssumption DEF CacheAdd
<1>2. Live(x) /\ Live(v)
  BY <1>1, VisibleNode
<1> QED BY <1>1, <1>2, EntryWritten DEF CacheAdd

\* clear empties an entry.
LEMMA CacheClearInv ==
  ASSUME IInv, NEW e \in Entries, CacheClear(e) PROVE IInv'
BY EntryWritten DEF CacheClear

\* A hit locks the entry and sets a handle aside for the clone of its value.
LEMMA CacheHitInv ==
  ASSUME IInv, NEW t \in Threads, NEW x \in InnerIds, NEW h \in Handles, CacheHit(t, x, h)
  PROVE  IInv'
<1> DEFINE e == Bucket[x]
<1>1. TypeOK /\ e \in Entries /\ x \in Ids /\ x # Null /\ t # NoThread
  BY GcAssumption DEF IInv, Ids
<1>2. /\ pc[t] = "idle" /\ owner[h] = NoThread /\ cacheLock[e] = NoThread /\ cacheKey[e] = x
      /\ cacheLock' = [cacheLock EXCEPT ![e] = t]
      /\ found' = [found EXCEPT ![t] = x]
      /\ reqLo' = [reqLo EXCEPT ![t] = h]
      /\ owner' = [owner EXCEPT ![h] = t]
      /\ pc' = [pc EXCEPT ![t] = "hit"]
      /\ UNCHANGED <<nodeVars, target, tableLock, cacheKey, cacheValue,
                     reqLevel, reqHi, keyLo, keyHi, gcVars>>
  BY DEF CacheHit, Idle, Goto
<1>3. target[h] = Null
  BY <1>2 DEF IInv, StateInv, EdgeInv
<1> HIDE DEF e
<1>4. Quiet
  BY <1>1, <1>2 DEF Quiet, SameNodes, nodeVars, TypeOK, gcVars, tableVars
<1>5. TypeOK'
  BY <1>1, <1>2 DEF TypeOK, nodeVars, gcVars, tableVars
<1>6. StateInv'
  BY <1>2, <1>4, QuietState
<1>7. ASSUME NEW u \in Threads \ {t} PROVE ThreadInv(u)'
  <2>1. KeepsStack(u)
    BY <1>1, <1>2 DEF KeepsStack, TypeOK
  <2>2. KeepsEntries(u)
    BY <1>1, <1>2, GcAssumption DEF KeepsEntries, TypeOK
  <2> QED BY <1>2, <1>4, <2>1, <2>2, QuietThread
<1>8. ThreadInv(t)'
  <2>1. pc'[t] = "hit" /\ found'[t] = x /\ reqLo'[t] = h /\ owner'[h] = t /\ cacheLock'[e] = t
    BY <1>1, <1>2 DEF TypeOK
  <2>2. ReqInv(t)' /\ GcInv(t)' /\ GarbageInv(t)'
    BY <2>1 DEF ReqInv, GcInv, GarbageInv, Sweeping, Collecting, Requesting
  <2>3. HitInv(t)'
    BY <1>1, <1>2, <1>3, <2>1 DEF HitInv, e
  <2>4. LockInv(t)'
    <3>1. \A d \in Entries : cacheLock[d] # t
      BY <1>2 DEF IInv, ThreadInv, LockInv, Collecting, Sweeping
    <3>2. \A d \in Entries : cacheLock'[d] = t => d = e
      BY <1>1, <1>2, <3>1 DEF TypeOK
    <3> QED BY <2>1, <3>2 DEF LockInv, e
  <2> QED BY <2>2, <2>3, <2>4 DEF ThreadInv
<1> QED BY <1>5, <1>6, <1>7, <1>8 DEF IInv

-----------------------------------------------------------------------------
(* The gc up to the first freed node, and after the last one *)

\* A gc starts only if none is ongoing.
LEMMA GcStartInv ==
  ASSUME IInv, NEW t \in Threads, GcStart(t) PROVE IInv'
<1>1. TypeOK /\ t # NoThread
  BY GcAssumption DEF IInv
<1>2. /\ pc[t] = "idle" /\ gcOwner = NoThread /\ gcOwner' = t
      /\ pc' = [pc EXCEPT ![t] = "pre"]
      /\ UNCHANGED <<nodeVars, edgeVars, tableLock, cacheVars, reqVars,
                     gcStep, gcTodo, victim, garbage, tableVars>>
  BY DEF GcStart, Idle, Goto
<1>3. Quiet
  BY <1>2 DEF Quiet, SameNodes, nodeVars, edgeVars, gcVars, tableVars
<1>4. TypeOK'
  BY <1>1, <1>2 DEF TypeOK, nodeVars, edgeVars, cacheVars, reqVars, tableVars
<1>5. StateInv'
  BY <1>2, <1>3, QuietState DEF cacheVars
<1>6. ASSUME NEW u \in Threads \ {t} PROVE ThreadInv(u)'
  <2>1. KeepsStack(u)
    BY <1>1, <1>2 DEF KeepsStack, TypeOK, reqVars
  <2>2. KeepsEntries(u)
    BY <1>2 DEF KeepsEntries, cacheVars
  <2>3. pc[u] \notin Collecting
    BY <1>2, GcAssumption DEF IInv, ThreadInv, GcInv
  <2> QED BY <1>2, <1>3, <2>1, <2>2, <2>3, QuietThread
<1>7. ThreadInv(t)'
  <2>1. pc'[t] = "pre"
    BY <1>1, <1>2 DEF TypeOK
  <2>2. \A e \in Entries : cacheLock'[e] # t
    BY <1>2 DEF IInv, ThreadInv, LockInv, Collecting, Sweeping, cacheVars
  <2> QED BY <1>2, <2>1, <2>2 DEF ThreadInv, ReqInv, HitInv, LockInv, GcInv, GarbageInv,
             Requesting, Sweeping, Collecting
<1> QED BY <1>4, <1>5, <1>6, <1>7 DEF IInv

\* pre_gc empties each entry it locks.
LEMMA GcPreInv ==
  ASSUME IInv, NEW t \in Threads, NEW e \in Entries, GcPre(t, e) PROVE IInv'
<1>1. TypeOK /\ t # NoThread /\ CacheInv
  BY GcAssumption DEF IInv, StateInv
<1>2. /\ pc[t] = "pre" /\ cacheLock[e] = NoThread
      /\ cacheLock' = [cacheLock EXCEPT ![e] = t]
      /\ cacheKey' = [cacheKey EXCEPT ![e] = Null]
      /\ cacheValue' = [cacheValue EXCEPT ![e] = Null]
      /\ UNCHANGED <<nodeVars, edgeVars, tableLock, pc, reqVars, gcVars>>
  BY DEF GcPre
<1>3. Quiet
  BY <1>2 DEF Quiet, SameNodes, nodeVars, edgeVars, gcVars, tableVars
<1>4. TypeOK'
  BY <1>1, <1>2 DEF TypeOK, nodeVars, edgeVars, gcVars, tableVars, reqVars
<1>5. CacheInv'
  BY <1>1, <1>2 DEF CacheInv, TypeOK, Live, nodeVars
<1>6. StateInv'
  BY <1>3, <1>5, QuietState
<1>7. ASSUME NEW u \in Threads \ {t} PROVE ThreadInv(u)'
  <2>1. KeepsStack(u)
    BY <1>2 DEF KeepsStack, reqVars
  <2>2. KeepsEntries(u)
    BY <1>1, <1>2, GcAssumption DEF KeepsEntries, TypeOK
  <2> QED BY <1>2, <1>3, <2>1, <2>2, QuietThread
<1>8. ThreadInv(t)'
  <2>1. ReqInv(t)' /\ HitInv(t)' /\ LockInv(t)' /\ GarbageInv(t)'
    BY <1>2 DEF ReqInv, HitInv, LockInv, GarbageInv, Requesting, Sweeping, Collecting
  <2>2. gcOwner = t /\ \A d \in Entries : cacheLock[d] = t => cacheKey[d] = Null
    BY <1>2 DEF IInv, ThreadInv, GcInv, Collecting
  <2>3. \A d \in Entries : cacheLock'[d] = t => cacheKey'[d] = Null
    BY <1>1, <1>2, <2>2 DEF TypeOK
  <2>4. GcInv(t)'
    BY <1>2, <2>2, <2>3 DEF GcInv, Sweeping, Collecting, gcVars, tableVars
  <2> QED BY <2>1, <2>4 DEF ThreadInv
<1> QED BY <1>4, <1>6, <1>7, <1>8 DEF IInv

\* The other threads while t collects: they are not collecting themselves.
LEMMA GcOthers ==
  ASSUME IInv, NEW t \in Threads, pc[t] \in Collecting, Quiet,
         NEW next, pc' = [pc EXCEPT ![t] = next], UNCHANGED <<cacheVars, reqVars>>,
         \A l \in Levels : tableLock[l] \notin {NoThread, t} => tableLock'[l] = tableLock[l],
         NEW u \in Threads \ {t}
  PROVE  ThreadInv(u)'
<1>1. TypeOK /\ u # NoThread
  BY GcAssumption DEF IInv
<1>2. KeepsStack(u)
  BY <1>1 DEF KeepsStack, TypeOK, reqVars
<1>3. KeepsEntries(u)
  BY DEF KeepsEntries, cacheVars
<1>4. pc[u] \notin Collecting
  BY OneGc
<1>5. \A l \in Levels : tableLock[l] = u => tableLock'[l] = u
  BY <1>1
<1> QED BY <1>2, <1>3, <1>4, <1>5, QuietThread

\* The collecting thread has neither a request nor a cache hit.
LEMMA GcOnly ==
  ASSUME NEW t \in Threads, pc'[t] \in Collecting
  PROVE  ReqInv(t)' /\ HitInv(t)' /\ LockInv(t)'
BY DEF ReqInv, HitInv, LockInv, Requesting, Sweeping, Collecting

\* When the sweep begins, the parents of an unreachable node are unreachable.
LEMMA GcBeginSweepInv ==
  ASSUME IInv, NEW t \in Threads, GcBeginSweep(t) PROVE IInv'
<1> DEFINE S == {target[h] : h \in Handles} \ {Null}
           G == {id \in Ids : Live(id)} \ Below(S)
<1>1. TypeOK /\ StateInv
  BY DEF IInv
<1>2. /\ pc[t] = "pre" /\ \A e \in Entries : cacheLock[e] = t
      /\ gcStep' = 0 /\ garbage' = G
      /\ pc' = [pc EXCEPT ![t] = "lock"]
      /\ UNCHANGED <<nodeVars, edgeVars, tableLock, cacheVars, reqVars, gcOwner, gcTodo, victim,
                     tableVars>>
  BY DEF GcBeginSweep, Reachable, Goto
<1>3. S \subseteq Ids
  BY <1>1 DEF TypeOK
<1>4. \A g \in G : /\ g \in Ids /\ Live(g) /\ level[g] >= 0
                   /\ \A h \in Handles : target[h] # g
                   /\ \A p \in Ids : IsInner(p) /\ (lo[p] = g \/ hi[p] = g) => p \in G
  <2> SUFFICES ASSUME NEW g \in G
               PROVE  /\ g \in Ids /\ Live(g) /\ level[g] >= 0
                      /\ \A h \in Handles : target[h] # g
                      /\ \A p \in Ids : IsInner(p) /\ (lo[p] = g \/ hi[p] = g) => p \in G
    OBVIOUS
  <2>1. g \in Ids /\ Live(g) /\ g \notin Below(S) /\ g # Null
    BY GcAssumption
  <2>2. level[g] >= 0
    BY <1>1, <2>1, GcAssumption DEF TypeOK, Live, Levels
  <2>3. ASSUME NEW h \in Handles PROVE target[h] # g
    <3>1. target[h] \in S \/ target[h] = Null
      OBVIOUS
    <3>2. S \subseteq Below(S)
      <4> HIDE DEF S
      <4> QED BY <1>3, BelowClosed
    <3> QED BY <2>1, <3>1, <3>2
  <2>4. ASSUME NEW p \in Ids, IsInner(p), lo[p] = g \/ hi[p] = g PROVE p \in G
    <3>1. p \notin Below(S)
      <4> HIDE DEF S
      <4> QED BY <1>3, <2>1, <2>4, BelowClosed
    <3>2. Live(p)
      BY <2>4, GcAssumption DEF IsInner, Live, Free
    <3> QED BY <3>1, <3>2
  <2> QED BY <2>1, <2>2, <2>3, <2>4
<1> HIDE DEF G, S
<1>5. Quiet
  BY <1>2 DEF Quiet, SameNodes, nodeVars, edgeVars, gcVars, tableVars
<1>6. TypeOK'
  BY <1>1, <1>2, <1>4, GcAssumption DEF TypeOK, nodeVars, edgeVars, cacheVars, reqVars, tableVars
<1>7. StateInv'
  BY <1>2, <1>5, QuietState DEF cacheVars
<1>8. ASSUME NEW u \in Threads \ {t} PROVE ThreadInv(u)'
  <2>1. pc[t] \in Collecting
    BY <1>2 DEF Collecting
  <2> QED BY <1>2, <1>5, <2>1, GcOthers
<1>9. ThreadInv(t)'
  <2>1. pc'[t] = "lock"
    BY <1>1, <1>2 DEF TypeOK
  <2>2. GcInv(t)'
    <3>1. gcOwner = t /\ \A e \in Entries : cacheLock[e] = t => cacheKey[e] = Null
      BY <1>2 DEF IInv, ThreadInv, GcInv, Collecting
    <3> QED BY <1>2, <2>1, <3>1, GcAssumption DEF GcInv, Levels, cacheVars, Collecting, Sweeping
  <2>3. GarbageInv(t)'
    BY <1>2, <1>4, <2>1 DEF GarbageInv, Live, IsInner, nodeVars, edgeVars, Sweeping
  <2> QED BY <2>1, <2>2, <2>3, GcOnly DEF ThreadInv, Collecting, Sweeping
<1> QED BY <1>6, <1>7, <1>8, <1>9 DEF IInv

\* The facts about the gc of t in one place.
LEMMA GcFacts ==
  ASSUME IInv, NEW t \in Threads, pc[t] \in Sweeping
  PROVE  /\ TypeOK /\ gcOwner = t /\ gcStep \in Levels /\ gcStep \in Nat
         /\ \A e \in Entries : cacheLock[e] = t /\ cacheKey[e] = Null
         /\ pc[t] \in {"sweep", "free"} =>
              tableLock[gcStep] = t /\ \A id \in gcTodo : id \in Ids /\ level[id] = gcStep
         /\ \A g \in garbage :
              /\ g \in Ids /\ Live(g) /\ level[g] \in Levels /\ level[g] >= gcStep
              /\ \A h \in Handles : target[h] # g
              /\ \A p \in Ids : IsInner(p) /\ (lo[p] = g \/ hi[p] = g) => p \in garbage
              /\ pc[t] = "sweep" /\ level[g] = gcStep => g \in gcTodo
              /\ pc[t] = "free" /\ level[g] = gcStep => g \in gcTodo \cup {victim}
<1>1. TypeOK /\ GcInv(t) /\ GarbageInv(t)
  BY DEF IInv, ThreadInv
<1>2. /\ gcOwner = t /\ gcStep \in Levels
      /\ \A e \in Entries : cacheLock[e] = t /\ cacheKey[e] = Null
      /\ pc[t] \in {"sweep", "free"} =>
              tableLock[gcStep] = t /\ \A id \in gcTodo : level[id] = gcStep
  BY <1>1 DEF GcInv, Collecting
<1>3. gcStep \in Nat /\ \A id \in gcTodo : id \in Ids
  BY <1>1, <1>2, GcAssumption DEF Levels, TypeOK
<1>4. \A g \in garbage : g \in Ids /\ Live(g) /\ level[g] \in Levels
  BY <1>1 DEF TypeOK, GarbageInv, Live
<1>5. \A g \in garbage :
              /\ level[g] >= gcStep
              /\ \A h \in Handles : target[h] # g
              /\ \A p \in Ids : IsInner(p) /\ (lo[p] = g \/ hi[p] = g) => p \in garbage
              /\ pc[t] = "sweep" /\ level[g] = gcStep => g \in gcTodo
              /\ pc[t] = "free" /\ level[g] = gcStep => g \in gcTodo \cup {victim}
  BY <1>1 DEF GarbageInv
<1> QED BY <1>1, <1>2, <1>3, <1>4, <1>5

\* The sweep of a level starts with all its nodes.
LEMMA GcLockLevelInv ==
  ASSUME IInv, NEW t \in Threads, GcLockLevel(t) PROVE IInv'
<1>1. /\ pc[t] = "lock" /\ tableLock[gcStep] = NoThread
      /\ tableLock' = [tableLock EXCEPT ![gcStep] = t]
      /\ gcTodo' = {id \in Ids : level[id] = gcStep}
      /\ pc' = [pc EXCEPT ![t] = "sweep"]
      /\ UNCHANGED <<nodeVars, edgeVars, cacheVars, reqVars, gcOwner, gcStep, victim, garbage,
                     tableVars>>
  BY DEF GcLockLevel, LevelAt, Goto
<1>2. pc[t] \in Sweeping /\ pc[t] \in Collecting
  BY <1>1 DEF Sweeping, Collecting
<1>3. TypeOK /\ t # NoThread
  BY GcAssumption DEF IInv
<1>4. Quiet
  BY <1>1 DEF Quiet, SameNodes, nodeVars, edgeVars, gcVars, tableVars
<1>5. TypeOK'
  BY <1>1, <1>3 DEF TypeOK, nodeVars, edgeVars, cacheVars, reqVars, tableVars
<1>6. StateInv'
  BY <1>1, <1>4, QuietState DEF cacheVars
<1>7. ASSUME NEW u \in Threads \ {t} PROVE ThreadInv(u)'
  <2>1. \A l \in Levels : tableLock[l] \notin {NoThread, t} => tableLock'[l] = tableLock[l]
    BY <1>1, <1>3 DEF TypeOK
  <2> QED BY <1>1, <1>2, <1>4, <2>1, GcOthers
<1>8. ThreadInv(t)'
  <2>1. pc'[t] = "sweep"
    BY <1>1, <1>3 DEF TypeOK
  <2>2. GcInv(t)'
    <3>1. tableLock'[gcStep] = t
      BY <1>1, <1>2, <1>3, GcFacts DEF TypeOK
    <3>2. gcOwner = t /\ gcStep \in Levels /\ \A e \in Entries : cacheLock[e] = t /\ cacheKey[e] = Null
      BY <1>2, GcFacts
    <3> QED BY <1>1, <2>1, <3>1, <3>2 DEF GcInv, nodeVars, cacheVars, Sweeping, Collecting
  <2>3. GarbageInv(t)'
    <3>1. \A g \in garbage :
              /\ g \in Ids /\ Live(g) /\ level[g] \in Levels /\ level[g] >= gcStep
              /\ \A h \in Handles : target[h] # g
              /\ \A p \in Ids : IsInner(p) /\ (lo[p] = g \/ hi[p] = g) => p \in garbage
      BY <1>2, GcFacts
    <3> QED BY <1>1, <2>1, <3>1 DEF GarbageInv, Live, IsInner, nodeVars, edgeVars, Sweeping
  <2> QED BY <2>1, <2>2, <2>3, GcOnly DEF ThreadInv, Collecting, Sweeping
<1> QED BY <1>5, <1>6, <1>7, <1>8 DEF IInv

\* A node that has references is not garbage of the level being swept: its
\* parents would be garbage of a level that has been swept already.
LEMMA GcKeepInv ==
  ASSUME IInv, NEW t \in Threads, NEW id \in Ids, GcKeep(t, id) PROVE IInv'
<1>1. /\ pc[t] = "sweep" /\ id \in gcTodo /\ rc[id] # 1
      /\ gcTodo' = gcTodo \ {id}
      /\ UNCHANGED <<nodeVars, edgeVars, tableLock, cacheVars, pc, reqVars,
                     gcOwner, gcStep, victim, garbage,
                     tableVars>>
  BY DEF GcKeep
<1>2. pc[t] \in Sweeping /\ pc[t] \in Collecting
  BY <1>1 DEF Sweeping, Collecting
<1>3. TypeOK /\ RcInv /\ NodeInv
  BY DEF IInv, StateInv
<1>4. Quiet
  BY <1>1 DEF Quiet, SameNodes, nodeVars, edgeVars, gcVars, tableVars
<1>5. TypeOK'
  BY <1>1, <1>3 DEF TypeOK, nodeVars, edgeVars, cacheVars, reqVars, tableVars
<1>6. StateInv'
  BY <1>1, <1>4, QuietState DEF cacheVars
<1>7. ASSUME NEW u \in Threads \ {t} PROVE ThreadInv(u)'
  <2>1. pc' = [pc EXCEPT ![t] = "sweep"]
    BY <1>1, <1>3 DEF TypeOK
  <2> QED BY <1>1, <1>2, <1>4, <2>1, GcOthers
<1>8. ThreadInv(t)'
  <2>1. pc'[t] = "sweep"
    BY <1>1
  <2>2. /\ gcOwner = t /\ gcStep \in Levels /\ gcStep \in Nat
        /\ \A e \in Entries : cacheLock[e] = t /\ cacheKey[e] = Null
        /\ tableLock[gcStep] = t /\ \A x \in gcTodo : level[x] = gcStep
    BY <1>1, <1>2, GcFacts
  <2>3. GcInv(t)'
    BY <1>1, <2>1, <2>2 DEF GcInv, nodeVars, cacheVars, Sweeping, Collecting
  <2>4. \A g \in garbage :
              /\ g \in Ids /\ Live(g) /\ level[g] \in Levels /\ level[g] >= gcStep
              /\ \A h \in Handles : target[h] # g
              /\ \A p \in Ids : IsInner(p) /\ (lo[p] = g \/ hi[p] = g) => p \in garbage
              /\ level[g] = gcStep => g \in gcTodo
    BY <1>1, <1>2, GcFacts
  <2>5. id \notin garbage
    <3> SUFFICES ASSUME id \in garbage PROVE FALSE
      OBVIOUS
    <3>1. Live(id) /\ level[id] = gcStep
      BY <1>1, <2>2, <2>4
    <3>2. ASSUME NEW p \in Ids, IsInner(p) PROVE lo[p] # id /\ hi[p] # id
      <4>1. p \notin garbage \/ level[p] >= gcStep
        BY <2>4
      <4>2. level[lo[p]] > level[p] /\ level[hi[p]] > level[p] /\ level[p] \in Int
        BY <1>3, <3>2, GcAssumption DEF NodeInv, IsInner
      <4> QED BY <2>2, <2>4, <3>1, <3>2, <4>1, <4>2
    <3>3. rc[id] = 1
      BY <1>3, <2>4, <3>1, <3>2, LoneNode
    <3> QED BY <1>1, <3>3
  <2>6. GarbageInv(t)'
    BY <1>1, <2>1, <2>4, <2>5 DEF GarbageInv, Live, IsInner, nodeVars, edgeVars, Sweeping
  <2> QED BY <2>1, <2>3, <2>6, GcOnly DEF ThreadInv, Collecting, Sweeping
<1> QED BY <1>5, <1>6, <1>7, <1>8 DEF IInv

\* A node whose count is read as 1 is condemned.
LEMMA GcCondemnInv ==
  ASSUME IInv, NEW t \in Threads, NEW id \in Ids, GcCondemn(t, id) PROVE IInv'
<1>1. /\ pc[t] = "sweep" /\ id \in gcTodo /\ rc[id] = 1
      /\ gcTodo' = gcTodo \ {id} /\ victim' = id
      /\ pc' = [pc EXCEPT ![t] = "free"]
      /\ UNCHANGED <<nodeVars, edgeVars, tableLock, cacheVars, reqVars,
                     gcOwner, gcStep, garbage, tableVars>>
  BY DEF GcCondemn, Goto
<1>2. pc[t] \in Sweeping /\ pc[t] \in Collecting
  BY <1>1 DEF Sweeping, Collecting
<1>3. TypeOK
  BY DEF IInv
<1>4. Quiet
  BY <1>1 DEF Quiet, SameNodes, nodeVars, edgeVars, gcVars, tableVars
<1>5. TypeOK'
  BY <1>1, <1>3 DEF TypeOK, nodeVars, edgeVars, cacheVars, reqVars, tableVars
<1>6. StateInv'
  BY <1>1, <1>4, QuietState DEF cacheVars
<1>7. ASSUME NEW u \in Threads \ {t} PROVE ThreadInv(u)'
  BY <1>1, <1>2, <1>4, GcOthers
<1>8. ThreadInv(t)'
  <2>1. pc'[t] = "free"
    BY <1>1, <1>3 DEF TypeOK
  <2>2. /\ gcOwner = t /\ gcStep \in Levels
        /\ \A e \in Entries : cacheLock[e] = t /\ cacheKey[e] = Null
        /\ tableLock[gcStep] = t /\ \A x \in gcTodo : level[x] = gcStep
    BY <1>1, <1>2, GcFacts
  <2>3. GcInv(t)'
    BY <1>1, <2>1, <2>2 DEF GcInv, nodeVars, cacheVars, Sweeping, Collecting
  <2>4. \A g \in garbage :
              /\ Live(g) /\ level[g] >= gcStep
              /\ \A h \in Handles : target[h] # g
              /\ \A p \in Ids : IsInner(p) /\ (lo[p] = g \/ hi[p] = g) => p \in garbage
              /\ level[g] = gcStep => g \in gcTodo
    BY <1>1, <1>2, GcFacts
  <2>5. GarbageInv(t)'
    BY <1>1, <2>1, <2>4 DEF GarbageInv, Live, IsInner, nodeVars, edgeVars, Sweeping
  <2> QED BY <2>1, <2>3, <2>5, GcOnly DEF ThreadInv, Collecting, Sweeping
<1> QED BY <1>5, <1>6, <1>7, <1>8 DEF IInv

\* After the terminals, no garbage is left.
LEMMA GcUnlockLevelInv ==
  ASSUME IInv, NEW t \in Threads, GcUnlockLevel(t) PROVE IInv'
<1> DEFINE next == IF gcStep = NumLevels THEN "post" ELSE "lock"
<1>1. /\ pc[t] = "sweep" /\ gcTodo = {}
      /\ tableLock' = [tableLock EXCEPT ![gcStep] = NoThread]
      /\ gcStep' = gcStep + 1
      /\ pc' = [pc EXCEPT ![t] = next]
      /\ holes' \in {holes, holes \ {gcStep}}
      /\ cut \subseteq cut' /\ cut' \subseteq cut \cup Ids
      /\ UNCHANGED <<nodeVars, edgeVars, cacheVars, reqVars, gcOwner, gcTodo, victim, garbage>>
  BY DEF GcUnlockLevel, LevelAt, Goto
<1>2. pc[t] \in Sweeping /\ pc[t] \in Collecting
  BY <1>1 DEF Sweeping, Collecting
<1>3. TypeOK
  BY DEF IInv
<1>4. Quiet
  BY <1>1 DEF Quiet, SameNodes, nodeVars, edgeVars, gcVars, tableVars
<1>5. /\ gcOwner = t /\ gcStep \in Levels /\ gcStep \in Nat /\ NumLevels \in Nat
      /\ \A e \in Entries : cacheLock[e] = t /\ cacheKey[e] = Null
      /\ tableLock[gcStep] = t
  BY <1>1, <1>2, GcFacts, GcAssumption
<1>6. gcStep \in 0 .. NumLevels /\ next \in {"post", "lock"}
  BY <1>5 DEF Levels
<1>7. TypeOK'
  BY <1>1, <1>3, <1>5, <1>6 DEF TypeOK, nodeVars, edgeVars, cacheVars, reqVars, tableVars
<1>8. StateInv'
  BY <1>1, <1>4, QuietState DEF cacheVars
<1>9. ASSUME NEW u \in Threads \ {t} PROVE ThreadInv(u)'
  <2>1. \A l \in Levels : tableLock[l] \notin {NoThread, t} => tableLock'[l] = tableLock[l]
    BY <1>1, <1>3, <1>5 DEF TypeOK
  <2> HIDE DEF next
  <2> QED BY <1>1, <1>2, <1>4, <2>1, GcOthers
<1>10. ThreadInv(t)'
  <2>1. pc'[t] = next
    BY <1>1, <1>3 DEF TypeOK
  <2>2. GcInv(t)'
    <3>1. next = "lock" => gcStep' \in Levels
      BY <1>1, <1>6, <1>5 DEF Levels
    <3> QED BY <1>1, <1>5, <1>6, <2>1, <3>1 DEF GcInv, cacheVars, Sweeping, Collecting
  <2>3. \A g \in garbage :
              /\ Live(g) /\ level[g] \in 0 .. NumLevels /\ level[g] >= gcStep /\ level[g] # gcStep
              /\ \A h \in Handles : target[h] # g
              /\ \A p \in Ids : IsInner(p) /\ (lo[p] = g \/ hi[p] = g) => p \in garbage
    BY <1>1, <1>2, GcFacts DEF Levels
  <2>4. GarbageInv(t)'
    <3>1. CASE gcStep = NumLevels
      <4>1. garbage = {}
        BY <1>5, <2>3, <3>1
      <4> QED BY <1>1, <2>1, <3>1, <4>1 DEF GarbageInv, Sweeping
    <3>2. CASE gcStep # NumLevels
      <4>1. \A g \in garbage : level[g] >= gcStep + 1
        BY <1>5, <2>3
      <4>2. pc'[t] = "lock"
        BY <2>1, <3>2
      <4> HIDE DEF next
      <4> QED BY <1>1, <2>3, <4>1, <4>2 DEF GarbageInv, Live, IsInner, nodeVars, edgeVars, Sweeping
    <3> QED BY <3>1, <3>2
  <2> QED BY <1>6, <2>1, <2>2, <2>4, GcOnly DEF ThreadInv, Collecting, Sweeping
<1> QED BY <1>7, <1>8, <1>9, <1>10 DEF IInv

\* post_gc unlocks the entries.
LEMMA GcPostInv ==
  ASSUME IInv, NEW t \in Threads, NEW e \in Entries, GcPost(t, e) PROVE IInv'
<1>1. TypeOK /\ t # NoThread
  BY GcAssumption DEF IInv
<1>2. /\ pc[t] = "post" /\ cacheLock[e] = t
      /\ cacheLock' = [cacheLock EXCEPT ![e] = NoThread]
      /\ UNCHANGED <<nodeVars, edgeVars, tableLock, cacheKey, cacheValue, pc, reqVars, gcVars>>
  BY DEF GcPost
<1>3. Quiet
  BY <1>2 DEF Quiet, SameNodes, nodeVars, edgeVars, gcVars, tableVars
<1>4. TypeOK'
  BY <1>1, <1>2 DEF TypeOK, nodeVars, edgeVars, gcVars, tableVars, reqVars
<1>5. StateInv'
  BY <1>2, <1>3, QuietState
<1>6. ASSUME NEW u \in Threads \ {t} PROVE ThreadInv(u)'
  <2>1. KeepsStack(u)
    BY <1>2 DEF KeepsStack, reqVars
  <2>2. KeepsEntries(u)
    BY <1>1, <1>2, GcAssumption DEF KeepsEntries, TypeOK
  <2> QED BY <1>2, <1>3, <2>1, <2>2, QuietThread
<1>7. ThreadInv(t)'
  <2>1. GcInv(t)'
    BY <1>2 DEF IInv, ThreadInv, GcInv, Sweeping, Collecting, gcVars, tableVars
  <2>2. GarbageInv(t)'
    BY <1>2 DEF IInv, ThreadInv, GarbageInv, Sweeping, gcVars, tableVars
  <2> QED BY <1>2, <2>1, <2>2, GcOnly DEF ThreadInv, Collecting
<1> QED BY <1>4, <1>5, <1>6, <1>7 DEF IInv

\* The gc ends when all entries are unlocked.
LEMMA GcEndInv ==
  ASSUME IInv, NEW t \in Threads, GcEnd(t) PROVE IInv'
<1>1. TypeOK
  BY DEF IInv
<1>2. /\ pc[t] = "post" /\ \A e \in Entries : cacheLock[e] # t
      /\ gcOwner' = NoThread /\ gcStep' = 0 /\ garbage' = {}
      /\ pc' = [pc EXCEPT ![t] = "idle"]
      /\ UNCHANGED <<nodeVars, edgeVars, tableLock, cacheVars, reqVars, gcTodo, victim,
                     tableVars>>
  BY DEF GcEnd, Goto
<1>3. Quiet
  BY <1>2 DEF Quiet, SameNodes, nodeVars, edgeVars, gcVars, tableVars
<1>4. TypeOK'
  BY <1>1, <1>2, GcAssumption DEF TypeOK, nodeVars, edgeVars, cacheVars, reqVars, tableVars
<1>5. StateInv'
  BY <1>2, <1>3, QuietState DEF cacheVars
<1>6. ASSUME NEW u \in Threads \ {t} PROVE ThreadInv(u)'
  <2>1. pc[t] \in Collecting
    BY <1>2 DEF Collecting
  <2> QED BY <1>2, <1>3, <2>1, GcOthers
<1>7. ThreadInv(t)'
  <2>1. pc'[t] = "idle"
    BY <1>1, <1>2 DEF TypeOK
  <2> QED BY <1>2, <2>1 DEF ThreadInv, ReqInv, HitInv, LockInv, GcInv, GarbageInv,
             Requesting, Sweeping, Collecting, cacheVars
<1> QED BY <1>4, <1>5, <1>6, <1>7 DEF IInv

-----------------------------------------------------------------------------
(* Steps that change edges but no nodes *)

\* They do not disturb u if they leave alone the handles of u, the count of a
\* condemned node and the garbage.
LEMMA EdgeThread ==
  ASSUME IInv, SameNodes, NEW u \in Threads, KeepsStack(u), KeepsEntries(u),
         \A h \in Handles : owner[h] = u => owner'[h] = u /\ target'[h] = target[h],
         \A l \in Levels : tableLock[l] = u => tableLock'[l] = u,
         UNCHANGED gcVars,
         pc[u] = "free" => rc'[victim] = rc[victim],
         pc[u] \in Sweeping =>
           \A h \in Handles : target'[h] = target[h] \/ target'[h] \notin garbage
  PROVE  ThreadInv(u)'
<1>1. KeepsHandles(u)
  BY DEF KeepsHandles, SameNodes
<1>2. KeepsTables(u)
  BY DEF KeepsTables, SameNodes
<1>3. KeepsGc(u)
  BY DEF KeepsGc, gcVars, tableVars
<1>4. KeepsGarbage(u)
  <2>1. pc[u] = "post" => garbage = {}
    BY DEF IInv, ThreadInv, GarbageInv
  <2> QED BY <2>1 DEF KeepsGarbage, gcVars, tableVars, SameNodes, IsInner
<1> QED BY <1>1, <1>2, <1>3, <1>4, ThreadKept DEF Keeps

\* A clone refers to a node its thread sees, so to no condemned node and to no
\* garbage.
LEMMA CloneEdgeInv ==
  ASSUME IInv, NEW t \in Threads, NEW v \in Threads, NEW id \in Ids, NEW k \in Handles,
         CloneEdge(t, v, id, k)
  PROVE  IInv'
<1>1. TypeOK /\ RcInv /\ EdgeInv /\ id # Null /\ v # NoThread
  BY GcAssumption DEF IInv, StateInv
<1>2. /\ id \in Visible(t) /\ owner[k] = NoThread
      /\ rc' = [rc EXCEPT ![id] = rc[id] + 1]
      /\ owner' = [owner EXCEPT ![k] = v]
      /\ target' = [target EXCEPT ![k] = id]
      /\ UNCHANGED <<level, lo, hi, tableLock, cacheVars, pc, reqVars, gcVars>>
  BY DEF CloneEdge, Retain
<1>3. SameNodes
  BY <1>2 DEF SameNodes, gcVars, tableVars
<1>4. target[k] = Null
  BY <1>1, <1>2 DEF EdgeInv
<1>5. /\ Live(id)
      /\ \A u \in Threads : pc[u] = "free" => id # victim /\ victim \in Ids
      /\ \A u \in Threads : pc[u] \in Sweeping => id \notin garbage
  BY <1>2, VisibleNode, VictimAlone
<1>6. \A x \in Ids : rc'[x] = rc[x] - One(target[k], x) + One(id, x)
  BY <1>1, <1>2, <1>4, GcAssumption DEF TypeOK, One
<1>7. RcInv'
  BY <1>1, <1>2, <1>3, <1>6, CountsOneEdge
<1>8. TypeOK'
  BY <1>1, <1>2 DEF TypeOK, cacheVars, reqVars, gcVars, tableVars
<1>9. EdgeInv'
  BY <1>1, <1>2, <1>5 DEF EdgeInv, TypeOK, Live
<1>10. StateInv'
  BY <1>2, <1>3, <1>7, <1>9, NodesKept DEF StateInv, cacheVars
<1>11. ASSUME NEW u \in Threads PROVE ThreadInv(u)'
  <2>1. KeepsStack(u) /\ KeepsEntries(u)
    BY <1>2 DEF KeepsStack, KeepsEntries, reqVars, cacheVars
  <2>2. \A h \in Handles : owner[h] = u => owner'[h] = u /\ target'[h] = target[h]
    BY <1>1, <1>2, GcAssumption DEF TypeOK
  <2>3. pc[u] = "free" => rc'[victim] = rc[victim]
    BY <1>1, <1>2, <1>5 DEF TypeOK
  <2>4. pc[u] \in Sweeping =>
          \A h \in Handles : target'[h] = target[h] \/ target'[h] \notin garbage
    BY <1>1, <1>2, <1>5 DEF TypeOK
  <2> QED BY <1>2, <1>3, <2>1, <2>2, <2>3, <2>4, EdgeThread
<1> QED BY <1>8, <1>10, <1>11 DEF IInv

\* Dropping an edge does not touch a condemned node, to which there is no edge.
LEMMA DropEdgeInv ==
  ASSUME IInv, NEW t \in Threads, NEW k \in Handles, DropEdge(t, k) PROVE IInv'
<1> DEFINE id == target[k]
<1>1. TypeOK /\ RcInv /\ EdgeInv /\ t # NoThread
  BY GcAssumption DEF IInv, StateInv
<1>2. /\ pc[t] = "idle" /\ owner[k] = t /\ id # Null
      /\ rc' = [rc EXCEPT ![id] = rc[id] - 1]
      /\ owner' = [owner EXCEPT ![k] = NoThread]
      /\ target' = [target EXCEPT ![k] = Null]
      /\ UNCHANGED <<level, lo, hi, tableLock, cacheVars, pc, reqVars, gcVars>>
  BY DEF DropEdge, Release, Owns, Idle
<1>3. SameNodes
  BY <1>2 DEF SameNodes, gcVars, tableVars
<1>4. id \in Ids /\ Live(id)
  BY <1>1, <1>2 DEF EdgeInv, TypeOK
<1>5. \A u \in Threads : pc[u] = "free" => id # victim /\ victim \in Ids
  BY VictimAlone DEF Alone
<1>6. \A x \in Ids : rc'[x] = rc[x] - One(target[k], x) + One(Null, x)
  BY <1>1, <1>2, <1>4, GcAssumption DEF TypeOK, One
<1>7. RcInv'
  BY <1>1, <1>2, <1>3, <1>6, CountsOneEdge
<1>8. TypeOK'
  <2>1. \A x \in Ids : rc'[x] \in Nat
    <3>1. \A x \in Ids : ~Live(x)' => rc'[x] \in Nat
      BY <1>1, <1>2, <1>4 DEF TypeOK, Live
    <3> QED BY <1>7, <3>1, CountsNat
  <2>2. rc' \in [Ids -> Nat]
    BY <1>1, <1>2, <2>1 DEF TypeOK
  <2> QED BY <1>1, <1>2, <2>2 DEF TypeOK, cacheVars, reqVars, gcVars, tableVars
<1>9. EdgeInv'
  BY <1>1, <1>2 DEF EdgeInv, TypeOK, Live
<1>10. StateInv'
  BY <1>2, <1>3, <1>7, <1>9, NodesKept DEF StateInv, cacheVars
<1>11. ASSUME NEW u \in Threads PROVE ThreadInv(u)'
  <2>1. KeepsStack(u) /\ KeepsEntries(u)
    BY <1>2 DEF KeepsStack, KeepsEntries, reqVars, cacheVars
  <2>2. CASE u # t
    <3>1. \A h \in Handles : owner[h] = u => owner'[h] = u /\ target'[h] = target[h]
      BY <1>1, <1>2, <2>2 DEF TypeOK
    <3>2. pc[u] = "free" => rc'[victim] = rc[victim]
      BY <1>1, <1>2, <1>5 DEF TypeOK
    <3>3. pc[u] \in Sweeping =>
            \A h \in Handles : target'[h] = target[h] \/ target'[h] \notin garbage
      BY <1>1, <1>2, GcAssumption DEF TypeOK
    <3> QED BY <1>2, <1>3, <2>1, <3>1, <3>2, <3>3, EdgeThread
  <2>3. CASE u = t
    <3>1. LockInv(t)
      BY DEF IInv, ThreadInv
    <3> QED BY <1>2, <2>3, <3>1 DEF ThreadInv, ReqInv, HitInv, LockInv, GcInv, GarbageInv,
               Requesting, Sweeping, Collecting, cacheVars
  <2> QED BY <2>2, <2>3
<1> QED BY <1>8, <1>10, <1>11 DEF IInv

\* A thread that has finished holds no entry.
LEMMA IdleThread ==
  ASSUME NEW t \in Threads, pc'[t] = "idle", \A e \in Entries : cacheLock'[e] # t
  PROVE  ThreadInv(t)'
BY DEF ThreadInv, ReqInv, HitInv, LockInv, GcInv, GarbageInv, Requesting, Sweeping, Collecting

\* The stack of a finished thread.
LEMMA FinishType ==
  ASSUME TypeOK, NEW t \in Threads, Finish(t)
  PROVE  /\ pc' \in [Threads -> {"idle", "drop", "clone", "insert", "hit", "pre",
                                 "lock", "sweep", "free", "post"}]
         /\ reqLevel' \in [Threads -> Levels]
         /\ reqLo' \in [Threads -> Handles \cup {Null}]
         /\ reqHi' \in [Threads -> Handles \cup {Null}]
         /\ keyLo' \in [Threads -> Ids \cup Values \cup {Null}]
         /\ keyHi' \in [Threads -> Ids \cup Values \cup {Null}]
         /\ found' \in [Threads -> Ids \cup {Null}]
         /\ pc'[t] = "idle"
         /\ \A u \in Threads \ {t} : KeepsStack(u)
<1>1. 0 \in Levels
  BY GcAssumption DEF Levels
<1> QED BY <1>1 DEF TypeOK, Finish, KeepsStack

\* The facts about a request of t in one place.
LEMMA ReqFacts ==
  ASSUME IInv, NEW t \in Threads, pc[t] \in Requesting
  PROVE  /\ TypeOK /\ t # NoThread
         /\ reqLevel[t] \in Levels /\ tableLock[reqLevel[t]] = t
         /\ reqLo[t] \in Handles /\ owner[reqLo[t]] = t
         /\ reqHi[t] \in Handles /\ owner[reqHi[t]] = t
         /\ \A e \in Entries : cacheLock[e] # t
         /\ \A u \in Threads : pc[u] = "free" => gcStep # reqLevel[t]
         /\ pc[t] \notin Sweeping
<1>1. TypeOK /\ ReqInv(t) /\ LockInv(t) /\ t # NoThread
  BY GcAssumption DEF IInv, ThreadInv
<1>2. \A e \in Entries : cacheLock[e] # t
  BY <1>1 DEF LockInv, Collecting, Sweeping, Requesting
<1>3. /\ reqLevel[t] \in Levels /\ tableLock[reqLevel[t]] = t
      /\ reqLo[t] \in Handles /\ owner[reqLo[t]] = t
      /\ reqHi[t] \in Handles /\ owner[reqHi[t]] = t
  BY <1>1 DEF ReqInv, TypeOK
<1>4. ASSUME NEW u \in Threads, pc[u] = "free" PROVE gcStep # reqLevel[t]
  <2>1. tableLock[gcStep] = u
    BY <1>4 DEF IInv, ThreadInv, GcInv
  <2> QED BY <1>3, <1>4, <2>1 DEF Requesting
<1> QED BY <1>1, <1>2, <1>3, <1>4 DEF Requesting, Sweeping

\* The new node is dropped with its child edges; the one found stays.
LEMMA DropNodeInv ==
  ASSUME IInv, NEW t \in Threads, DropNode(t) PROVE IInv'
<1>1. TypeOK /\ RcInv /\ EdgeInv /\ ReqInv(t)
  BY DEF IInv, StateInv, ThreadInv
<1>2. PICK j, k : j = reqLo[t] /\ k = reqHi[t]
  OBVIOUS
<1>3. /\ pc[t] = "drop"
      /\ rc' = [x \in Ids |-> rc[x] - (IF x = target[j] THEN 1 ELSE 0)
                                    - (IF x = target[k] THEN 1 ELSE 0)]
      /\ target' = [target EXCEPT ![j] = Null, ![k] = Null]
      /\ pc' = [pc EXCEPT ![t] = "clone"]
      /\ UNCHANGED <<level, lo, hi, owner, tableLock, cacheVars, reqVars, gcVars>>
  BY <1>2 DEF DropNode, ReleaseBoth, Goto
<1>4. /\ t # NoThread
      /\ reqLevel[t] \in Levels /\ tableLock[reqLevel[t]] = t
      /\ j \in Handles /\ owner[j] = t /\ k \in Handles /\ owner[k] = t
      /\ \A e \in Entries : cacheLock[e] # t
  BY <1>2, <1>3, ReqFacts DEF Requesting
<1>5. /\ j # k /\ target[j] # Null /\ target[k] # Null
      /\ found[t] \in Ids /\ level[found[t]] = reqLevel[t]
  BY <1>1, <1>2, <1>3 DEF ReqInv
<1>6. SameNodes
  BY <1>3 DEF SameNodes, gcVars, tableVars
<1>7. \A u \in Threads : pc[u] = "free" => target[j] # victim /\ target[k] # victim /\ victim \in Ids
  BY <1>4, VictimAlone DEF Alone
<1>8. RcInv'
  <2>1. \A x \in Ids : rc'[x] = rc[x] - One(target[j], x) + One(Null, x)
                                      - One(target[k], x) + One(Null, x)
    BY <1>1, <1>3, GcAssumption DEF TypeOK, One
  <2>2. TwoEdges(j, k, Null, Null)
    BY <1>3, <2>1 DEF TwoEdges
  <2> QED BY <1>1, <1>4, <1>5, <1>6, <2>2, CountsTwoEdges
<1>9. TypeOK'
  <2>1. \A x \in Ids : ~Live(x)' => rc'[x] \in Nat
    BY <1>1, <1>3, <1>4, <1>5 DEF TypeOK, Live, EdgeInv
  <2>2. \A x \in Ids : rc'[x] \in Nat
    BY <1>8, <2>1, CountsNat
  <2>3. rc' \in [Ids -> Nat]
    BY <1>3, <2>2
  <2> QED BY <1>1, <1>3, <2>3 DEF TypeOK, cacheVars, reqVars, gcVars, tableVars
<1>10. EdgeInv'
  BY <1>1, <1>3 DEF EdgeInv, TypeOK, Live
<1>11. StateInv'
  BY <1>3, <1>6, <1>8, <1>10, NodesKept DEF StateInv, cacheVars
<1>12. ASSUME NEW u \in Threads \ {t} PROVE ThreadInv(u)'
  <2>1. KeepsStack(u) /\ KeepsEntries(u)
    BY <1>1, <1>3 DEF KeepsStack, KeepsEntries, reqVars, cacheVars, TypeOK
  <2>2. \A h \in Handles : owner[h] = u => owner'[h] = u /\ target'[h] = target[h]
    BY <1>1, <1>3, <1>4 DEF TypeOK
  <2>3. pc[u] = "free" => rc'[victim] = rc[victim]
    BY <1>1, <1>3, <1>7 DEF TypeOK
  <2>4. pc[u] \in Sweeping =>
          \A h \in Handles : target'[h] = target[h] \/ target'[h] \notin garbage
    BY <1>1, <1>3, GcAssumption DEF TypeOK
  <2> QED BY <1>3, <1>6, <2>1, <2>2, <2>3, <2>4, EdgeThread
<1>13. ThreadInv(t)'
  <2>1. pc'[t] = "clone" /\ target'[j] = Null /\ target'[k] = Null
    BY <1>1, <1>3, <1>4 DEF TypeOK
  <2>2. ReqInv(t)'
    BY <1>2, <1>3, <1>4, <1>5, <2>1 DEF ReqInv, Requesting, reqVars
  <2> QED BY <1>3, <1>4, <2>1, <2>2 DEF ThreadInv, HitInv, LockInv, GcInv, GarbageInv,
             Sweeping, Collecting, cacheVars
<1> QED BY <1>9, <1>11, <1>12, <1>13 DEF IInv

\* Out of memory, the child edges are dropped and the table is unlocked.
LEMMA InsertOutOfMemoryInv ==
  ASSUME IInv, NEW t \in Threads, InsertOutOfMemory(t) PROVE IInv'
<1>1. TypeOK /\ RcInv /\ EdgeInv /\ ReqInv(t)
  BY DEF IInv, StateInv, ThreadInv
<1>2. PICK j, k, l : j = reqLo[t] /\ k = reqHi[t] /\ l = reqLevel[t]
  OBVIOUS
<1>3. /\ pc[t] = "insert"
      /\ rc' = [x \in Ids |-> rc[x] - (IF x = target[j] THEN 1 ELSE 0)
                                    - (IF x = target[k] THEN 1 ELSE 0)]
      /\ target' = [target EXCEPT ![j] = Null, ![k] = Null]
      /\ owner' = [owner EXCEPT ![j] = NoThread, ![k] = NoThread]
      /\ tableLock' = [tableLock EXCEPT ![l] = NoThread]
      /\ Finish(t)
      /\ UNCHANGED <<level, lo, hi, cacheVars, gcVars>>
  BY <1>2 DEF InsertOutOfMemory, ReleaseBoth
<1>4. /\ t # NoThread /\ l \in Levels /\ tableLock[l] = t
      /\ j \in Handles /\ owner[j] = t /\ k \in Handles /\ owner[k] = t
      /\ \A e \in Entries : cacheLock[e] # t
  BY <1>2, <1>3, ReqFacts DEF Requesting
<1>5. j # k \/ (j = k /\ target[j] = Null)
  BY <1>1, <1>2, <1>3 DEF ReqInv
<1>6. SameNodes
  BY <1>3 DEF SameNodes, gcVars, tableVars
<1>7. \A u \in Threads : pc[u] = "free" => target[j] # victim /\ target[k] # victim /\ victim \in Ids
  BY <1>4, VictimAlone DEF Alone
<1>8. RcInv'
  <2>1. CASE j # k
    <3>1. \A x \in Ids : rc'[x] = rc[x] - One(target[j], x) + One(Null, x)
                                        - One(target[k], x) + One(Null, x)
      BY <1>1, <1>3, GcAssumption DEF TypeOK, One
    <3>2. TwoEdges(j, k, Null, Null)
      BY <1>3, <3>1 DEF TwoEdges
    <3> QED BY <1>1, <1>4, <1>6, <2>1, <3>2, CountsTwoEdges
  <2>2. CASE j = k /\ target[j] = Null
    <3>1. \A x \in Ids : rc'[x] = rc[x] - One(target[j], x) + One(Null, x)
      BY <1>1, <1>3, <2>2, GcAssumption DEF TypeOK, One
    <3>2. target' = [target EXCEPT ![j] = Null]
      BY <1>1, <1>3, <2>2 DEF TypeOK
    <3> QED BY <1>1, <1>4, <1>6, <3>1, <3>2, CountsOneEdge
  <2> QED BY <1>5, <2>1, <2>2
<1>9. TypeOK'
  <2>1. \A x \in Ids : ~Live(x)' => rc'[x] \in Nat
    BY <1>1, <1>3, <1>4, GcAssumption DEF TypeOK, Live, EdgeInv
  <2>2. \A x \in Ids : rc'[x] \in Nat
    BY <1>8, <2>1, CountsNat
  <2>3. rc' \in [Ids -> Nat]
    BY <1>3, <2>2
  <2>4. /\ target' \in [Handles -> Ids \cup {Null}]
        /\ owner' \in [Handles -> Threads \cup {NoThread}]
        /\ tableLock' \in [Levels -> Threads \cup {NoThread}]
    BY <1>1, <1>3 DEF TypeOK
  <2> QED BY <1>1, <1>3, <2>3, <2>4, FinishType DEF TypeOK, cacheVars, gcVars, tableVars
<1>10. EdgeInv'
  BY <1>1, <1>3 DEF EdgeInv, TypeOK, Live
<1>11. StateInv'
  BY <1>3, <1>6, <1>8, <1>10, NodesKept DEF StateInv, cacheVars
<1>12. ASSUME NEW u \in Threads \ {t} PROVE ThreadInv(u)'
  <2>1. KeepsStack(u) /\ KeepsEntries(u)
    BY <1>1, <1>3 DEF KeepsStack, KeepsEntries, Finish, cacheVars, TypeOK
  <2>2. \A h \in Handles : owner[h] = u => owner'[h] = u /\ target'[h] = target[h]
    BY <1>1, <1>3, <1>4 DEF TypeOK
  <2>3. pc[u] = "free" => rc'[victim] = rc[victim]
    BY <1>1, <1>3, <1>7 DEF TypeOK
  <2>4. pc[u] \in Sweeping =>
          \A h \in Handles : target'[h] = target[h] \/ target'[h] \notin garbage
    BY <1>1, <1>3, GcAssumption DEF TypeOK
  <2>5. \A m \in Levels : tableLock[m] = u => tableLock'[m] = u
    BY <1>1, <1>3, <1>4 DEF TypeOK
  <2> QED BY <1>3, <1>6, <2>1, <2>2, <2>3, <2>4, <2>5, EdgeThread
<1>13. ThreadInv(t)'
  <2>1. pc'[t] = "idle" /\ \A e \in Entries : cacheLock'[e] # t
    BY <1>1, <1>3, <1>4 DEF TypeOK, Finish, cacheVars
  <2> QED BY <2>1, IdleThread
<1> QED BY <1>9, <1>11, <1>12, <1>13 DEF IInv

\* A cached value is live, and no gc is between pre_gc and post_gc.
LEMMA CacheCloneInv ==
  ASSUME IInv, NEW t \in Threads, CacheClone(t) PROVE IInv'
<1>1. TypeOK /\ RcInv /\ EdgeInv /\ CacheInv /\ HitInv(t) /\ LockInv(t) /\ t # NoThread
  BY GcAssumption DEF IInv, StateInv, ThreadInv
<1>2. PICK j, e, v : j = reqLo[t] /\ e = Bucket[found[t]] /\ v = cacheValue[e]
  OBVIOUS
<1>3. /\ pc[t] = "hit"
      /\ rc' = [rc EXCEPT ![v] = rc[v] + 1]
      /\ target' = [target EXCEPT ![j] = v]
      /\ cacheLock' = [cacheLock EXCEPT ![e] = NoThread]
      /\ Finish(t)
      /\ UNCHANGED <<level, lo, hi, owner, tableLock, cacheKey, cacheValue, gcVars>>
  BY <1>2 DEF CacheClone, Retain
<1>4. /\ e \in Entries /\ cacheLock[e] = t /\ cacheKey[e] # Null
      /\ j \in Handles /\ owner[j] = t /\ target[j] = Null
  BY <1>1, <1>2, <1>3, GcAssumption DEF HitInv
<1>5. v \in Ids /\ Live(v) /\ v # Null
  BY <1>1, <1>2, <1>4 DEF CacheInv, TypeOK
<1>6. \A u \in Threads : pc[u] \notin Sweeping
  <2> SUFFICES ASSUME NEW u \in Threads, pc[u] \in Sweeping PROVE FALSE
    OBVIOUS
  <2>1. cacheLock[e] = u
    BY <1>4, GcFacts
  <2> QED BY <1>3, <1>4, <2>1 DEF Sweeping
<1>7. SameNodes
  BY <1>3 DEF SameNodes, gcVars, tableVars
<1>8. RcInv'
  <2>1. \A x \in Ids : rc'[x] = rc[x] - One(target[j], x) + One(v, x)
    BY <1>1, <1>3, <1>4, <1>5, GcAssumption DEF TypeOK, One
  <2> QED BY <1>1, <1>3, <1>4, <1>5, <1>7, <2>1, CountsOneEdge
<1>9. TypeOK'
  <2>1. /\ target' \in [Handles -> Ids \cup {Null}]
        /\ cacheLock' \in [Entries -> Threads \cup {NoThread}]
    BY <1>1, <1>3, <1>5 DEF TypeOK
  <2>2. rc' \in [Ids -> Nat]
    <3>1. rc \in [Ids -> Nat] /\ rc[v] + 1 \in Nat
      BY <1>1, <1>5 DEF TypeOK
    <3> QED BY <1>3, <3>1
  <2> QED BY <1>1, <1>3, <2>1, <2>2, FinishType DEF TypeOK, gcVars, tableVars
<1>10. EdgeInv'
  BY <1>1, <1>3, <1>4, <1>5 DEF EdgeInv, TypeOK, Live
<1>11. StateInv'
  BY <1>3, <1>7, <1>8, <1>10, NodesKept DEF StateInv
<1>12. ASSUME NEW u \in Threads \ {t} PROVE ThreadInv(u)'
  <2>1. KeepsStack(u)
    BY <1>1, <1>3, FinishType
  <2>2. KeepsEntries(u)
    BY <1>1, <1>3, <1>4, GcAssumption DEF KeepsEntries, TypeOK
  <2>3. \A h \in Handles : owner[h] = u => owner'[h] = u /\ target'[h] = target[h]
    BY <1>1, <1>3, <1>4 DEF TypeOK
  <2>4. pc[u] # "free" /\ pc[u] \notin Sweeping
    BY <1>6 DEF Sweeping
  <2> QED BY <1>3, <1>7, <2>1, <2>2, <2>3, <2>4, EdgeThread
<1>13. ThreadInv(t)'
  <2>1. \A d \in Entries : cacheLock[d] = t => d = e
    BY <1>1, <1>2, <1>3 DEF LockInv, Collecting, Sweeping
  <2>2. \A d \in Entries : cacheLock'[d] # t
    BY <1>1, <1>3, <1>4, <2>1 DEF TypeOK
  <2>3. pc'[t] = "idle"
    BY <1>1, <1>3, FinishType
  <2> QED BY <2>2, <2>3, IdleThread
<1> QED BY <1>9, <1>11, <1>12, <1>13 DEF IInv

\* The edge that get_or_insert clones is the table's: its node may be garbage
\* and is revived with all that is below it, but it is not condemned, because
\* the table is locked.
LEMMA CloneFoundInv ==
  ASSUME IInv, NEW t \in Threads, CloneFound(t) PROVE IInv'
<1>1. TypeOK /\ RcInv /\ EdgeInv /\ NodeInv /\ ReqInv(t)
  BY DEF IInv, StateInv, ThreadInv
<1>2. PICK j, k, l, v, B : /\ j = reqLo[t] /\ k = reqHi[t] /\ l = reqLevel[t]
                           /\ v = found[t] /\ B = Below({v})
  OBVIOUS
<1>3. /\ pc[t] = "clone"
      /\ rc' = [rc EXCEPT ![v] = rc[v] + 1]
      /\ target' = [target EXCEPT ![k] = Null, ![j] = v]
      /\ owner' = [owner EXCEPT ![k] = NoThread, ![j] = t]
      /\ tableLock' = [tableLock EXCEPT ![l] = NoThread]
      /\ Finish(t)
      /\ garbage' = garbage \ B
      /\ UNCHANGED <<level, lo, hi, cacheVars, gcOwner, gcStep, gcTodo, victim,
                     tableVars>>
  BY <1>2 DEF CloneFound, Retain, Return
<1>4. /\ t # NoThread /\ l \in Levels /\ tableLock[l] = t
      /\ j \in Handles /\ owner[j] = t /\ k \in Handles /\ owner[k] = t
      /\ \A e \in Entries : cacheLock[e] # t
      /\ \A u \in Threads : pc[u] = "free" => gcStep # l
  BY <1>2, <1>3, ReqFacts DEF Requesting
<1>5. target[j] = Null /\ target[k] = Null /\ v \in Ids /\ level[v] = l /\ v # Null
  BY <1>1, <1>2, <1>3, GcAssumption DEF ReqInv
<1>6. Live(v)
  BY <1>4, <1>5, GcAssumption DEF Live, Levels, Free
<1>7. SameNodes
  BY <1>3 DEF SameNodes, gcVars, tableVars
<1>8. target' = [target EXCEPT ![j] = v]
  BY <1>1, <1>3, <1>4, <1>5 DEF TypeOK
<1>9. RcInv'
  <2>1. \A x \in Ids : rc'[x] = rc[x] - One(target[j], x) + One(v, x)
    BY <1>1, <1>3, <1>5, GcAssumption DEF TypeOK, One
  <2> QED BY <1>1, <1>4, <1>5, <1>7, <1>8, <2>1, CountsOneEdge
<1>10. TypeOK'
  <2>1. /\ target' \in [Handles -> Ids \cup {Null}]
        /\ owner' \in [Handles -> Threads \cup {NoThread}]
        /\ tableLock' \in [Levels -> Threads \cup {NoThread}]
        /\ garbage' \in SUBSET Ids
    BY <1>1, <1>3, <1>5, <1>8 DEF TypeOK
  <2>2. rc' \in [Ids -> Nat]
    <3>1. rc \in [Ids -> Nat] /\ rc[v] + 1 \in Nat
      BY <1>1, <1>5 DEF TypeOK
    <3> QED BY <1>3, <3>1
  <2> QED BY <1>1, <1>3, <2>1, <2>2, FinishType DEF TypeOK, cacheVars, tableVars
<1>11. EdgeInv'
  BY <1>1, <1>3, <1>4, <1>5, <1>6, <1>8 DEF EdgeInv, TypeOK, Live
<1>12. StateInv'
  BY <1>3, <1>7, <1>9, <1>11, NodesKept DEF StateInv, cacheVars
<1>13. ASSUME NEW u \in Threads \ {t} PROVE ThreadInv(u)'
  <2>1. KeepsStack(u)
    BY <1>1, <1>3, FinishType
  <2>2. KeepsEntries(u)
    BY <1>3 DEF KeepsEntries, cacheVars
  <2>3. KeepsHandles(u)
    BY <1>1, <1>3, <1>4, <1>8 DEF KeepsHandles, TypeOK
  <2>4. KeepsTables(u)
    BY <1>1, <1>3, <1>4 DEF KeepsTables, TypeOK, tableVars
  <2>5. KeepsGc(u)
    <3>1. pc[u] = "free" => victim \in Ids /\ victim # v
      BY <1>4, <1>5, VictimAlone
    <3> QED BY <1>1, <1>3, <3>1 DEF KeepsGc, TypeOK
  <2>6. Keeps(u)
    BY <2>1, <2>2, <2>3, <2>4, <2>5 DEF Keeps
  <2>7. GarbageInv(u)'
    <3>1. pc'[u] = pc[u]
      BY <2>1 DEF KeepsStack
    <3>2. CASE pc[u] \in Sweeping
      <4>1. \A g \in garbage :
              /\ Live(g) /\ level[g] >= gcStep /\ g \in Ids
              /\ \A h \in Handles : target[h] # g
              /\ \A p \in Ids : IsInner(p) /\ (lo[p] = g \/ hi[p] = g) => p \in garbage
              /\ pc[u] = "sweep" /\ level[g] = gcStep => g \in gcTodo
              /\ pc[u] = "free" /\ level[g] = gcStep => g \in gcTodo \cup {victim}
        BY <3>2, GcFacts
      <4>2. v \in B
        <5>1. {v} \subseteq Ids
          BY <1>5
        <5>2. {v} \subseteq B
          BY <1>2, <5>1, BelowClosed
        <5> QED BY <5>2
      <4>3. ASSUME NEW p \in B, IsInner(p), NEW g \in Ids, lo[p] = g \/ hi[p] = g
            PROVE  g \in B
        <5>1. {v} \subseteq Ids
          BY <1>5
        <5> QED BY <1>2, <4>3, <5>1, BelowClosed
      <4>4. \A g \in garbage' : \A h \in Handles : target'[h] # g
        BY <1>1, <1>3, <1>8, <4>1, <4>2 DEF TypeOK
      <4>5. \A g \in garbage' : \A p \in Ids :
              IsInner(p)' /\ (lo'[p] = g \/ hi'[p] = g) => p \in garbage'
        BY <1>3, <4>1, <4>3 DEF IsInner
      <4>6. \A g \in garbage' : g \in garbage /\ (Live(g)' <=> Live(g)) /\ level'[g] = level[g]
        BY <1>3 DEF Live
      <4>7. pc'[u] # "post"
        BY <3>1, <3>2 DEF Sweeping
      <4> QED BY <1>3, <3>1, <4>1, <4>4, <4>5, <4>6, <4>7 DEF GarbageInv
    <3>3. CASE pc[u] \notin Sweeping
      BY <1>3, <3>1, <3>3 DEF IInv, ThreadInv, GarbageInv
    <3> QED BY <3>2, <3>3
  <2> QED BY <2>6, <2>7, ReqKept, OthersKept DEF ThreadInv
<1>14. ThreadInv(t)'
  <2>1. pc'[t] = "idle" /\ \A e \in Entries : cacheLock'[e] # t
    BY <1>1, <1>3, <1>4, FinishType DEF cacheVars
  <2> QED BY <2>1, IdleThread
<1> QED BY <1>10, <1>12, <1>13, <1>14 DEF IInv

-----------------------------------------------------------------------------
(* Steps that change nodes *)

\* A free slot is not referenced.
LEMMA FreeSlot ==
  ASSUME IInv, NEW id \in Ids, ~Live(id)
  PROVE  /\ Alone(id)
         /\ \A e \in Entries : cacheKey[e] # Null => cacheKey[e] # id /\ cacheValue[e] # id
<1>1. TypeOK /\ NodeInv /\ EdgeInv /\ CacheInv /\ id # Null
  BY GcAssumption DEF IInv, StateInv
<1>2. \A h \in Handles : target[h] # id
  BY <1>1 DEF EdgeInv
<1>3. ASSUME NEW p \in Ids, IsInner(p) PROVE lo[p] # id /\ hi[p] # id
  <2>1. level[lo[p]] > level[p] /\ level[hi[p]] > level[p] /\ level[p] \in Nat
    BY <1>1, <1>3, GcAssumption DEF NodeInv, IsInner
  <2>2. level[id] = -1
    BY DEF Live, Free
  <2> QED BY <2>1, <2>2
<1>4. \A e \in Entries : cacheKey[e] # Null => cacheKey[e] # id /\ cacheValue[e] # id
  BY <1>1 DEF CacheInv
<1> QED BY <1>2, <1>3, <1>4 DEF Alone

\* The counts when the node id is put in a free slot: the edges of the handles
\* j and k become the child edges c and d of the node, and j gets an edge to it.
LEMMA CountsInsert ==
  ASSUME IInv, NEW id \in Ids, ~Live(id), NEW l \in Levels,
         NEW j \in Handles, NEW k \in Handles,
         NEW c \in Ids \cup {Null}, NEW d \in Ids \cup {Null}, c # id, d # id,
         target[j] = c, target[k] = d, j = k => c = Null,
         LoEdge' = [LoEdge EXCEPT ![id] = c], HiEdge' = [HiEdge EXCEPT ![id] = d],
         target' = [target EXCEPT ![k] = Null, ![j] = id],
         rc' = [rc EXCEPT ![id] = 2], level' = [level EXCEPT ![id] = l]
  PROVE  RcInv'
<1>1. PICK f, g, p, r, q, s : /\ f = target /\ g = target' /\ p = LoEdge /\ r = LoEdge'
                              /\ q = HiEdge /\ s = HiEdge'
  OBVIOUS
<1>2. IsFiniteSet(Handles) /\ IsFiniteSet(Ids) /\ Null \notin Ids
  BY GcAssumption
<1>3. TypeOK /\ RcInv /\ Alone(id)
  BY FreeSlot DEF IInv, StateInv
<1>4. Redirected(p, r, Ids, id, c) /\ Redirected(q, s, Ids, id, d)
  BY <1>1 DEF Redirected, LoEdge, HiEdge
<1>5. p[id] = Null /\ q[id] = Null
  BY <1>1 DEF LoEdge, HiEdge, Live, IsInner, Free
<1>6. ASSUME NEW x \in Ids
      PROVE  /\ Count(r, Ids, x) = Count(p, Ids, x) + One(c, x)
             /\ Count(s, Ids, x) = Count(q, Ids, x) + One(d, x)
  <2>1. Count(r, Ids, x) = Count(p, Ids, x) - One(p[id], x) + One(c, x)
    BY <1>2, <1>4, CountUpdate
  <2>2. Count(s, Ids, x) = Count(q, Ids, x) - One(q[id], x) + One(d, x)
    BY <1>2, <1>4, CountUpdate
  <2>3. Count(p, Ids, x) \in Nat /\ Count(q, Ids, x) \in Nat
    BY <1>2, CountType
  <2> QED BY <1>2, <1>5, <2>1, <2>2, <2>3 DEF One
<1>7. ASSUME NEW x \in Ids
      PROVE  Count(g, Handles, x) = Count(f, Handles, x) - One(c, x) - One(d, x) + One(id, x)
  <2>1. Count(f, Handles, x) \in Nat
    BY <1>2, CountType
  <2>2. PICK h : h = [target EXCEPT ![k] = Null]
    OBVIOUS
  <2>3. Redirected(f, h, Handles, k, Null) /\ Redirected(h, g, Handles, j, id)
    BY <1>1, <1>3, <2>2 DEF Redirected, TypeOK
  <2>4. Count(h, Handles, x) = Count(f, Handles, x) - One(f[k], x) + One(Null, x)
    BY <1>2, <2>3, CountUpdate
  <2>5. Count(g, Handles, x) = Count(h, Handles, x) - One(h[j], x) + One(id, x)
    BY <1>2, <2>3, CountUpdate
  <2>6. f[k] = d /\ h[j] = c
    BY <1>1, <1>3, <2>2 DEF TypeOK
  <2> QED BY <1>2, <2>1, <2>4, <2>5, <2>6 DEF One
<1>8. ASSUME NEW x \in Ids, Live(x)'
      PROVE  rc'[x] = 1 + Count(g, Handles, x) + Count(r, Ids, x) + Count(s, Ids, x)
  <2>1. /\ Count(f, Handles, x) \in Nat /\ Count(p, Ids, x) \in Nat /\ Count(q, Ids, x) \in Nat
    BY <1>2, CountType
  <2>2. CASE x = id
    <3>1. (\A y \in Handles : f[y] # x) /\ (\A y \in Ids : p[y] # x) /\ (\A y \in Ids : q[y] # x)
      BY <1>1, <1>2, <1>3, <2>2 DEF Alone, LoEdge, HiEdge
    <3>2. Count(f, Handles, x) = 0 /\ Count(p, Ids, x) = 0 /\ Count(q, Ids, x) = 0
      BY <1>2, <3>1, CountType
    <3>3. One(c, x) = 0 /\ One(d, x) = 0 /\ One(id, x) = 1
      BY <2>2 DEF One
    <3>4. rc'[x] = 2
      BY <1>3, <2>2 DEF TypeOK
    <3> QED BY <1>6, <1>7, <3>2, <3>3, <3>4
  <2>3. CASE x # id
    <3>1. Live(x) /\ rc'[x] = rc[x]
      BY <1>3, <1>8, <2>3 DEF Live, TypeOK
    <3>2. rc[x] = 1 + Count(f, Handles, x) + Count(p, Ids, x) + Count(q, Ids, x)
      BY <1>1, <1>3, <3>1 DEF RcInv
    <3>3. One(id, x) = 0 /\ One(c, x) \in {0, 1} /\ One(d, x) \in {0, 1}
      BY <2>3 DEF One
    <3> QED BY <1>6, <1>7, <2>1, <3>1, <3>2, <3>3
  <2> QED BY <2>2, <2>3
<1> QED BY <1>1, <1>8 DEF RcInv

\* Inserting a node keeps the diagrams canonical, because the key is still absent
\* from the locked table, and disturbs no other thread.
LEMMA InsertNodeInv ==
  ASSUME IInv, NEW t \in Threads, NEW id \in Ids, InsertNode(t, id) PROVE IInv'
<1>1. TypeOK /\ RcInv /\ EdgeInv /\ NodeInv /\ CacheInv /\ Canonical /\ ReqInv(t)
  BY DEF IInv, StateInv, ThreadInv
<1>2. PICK j, k, l, a, b : /\ j = reqLo[t] /\ k = reqHi[t] /\ l = reqLevel[t]
                           /\ a = keyLo[t] /\ b = keyHi[t]
  OBVIOUS
<1>3. /\ pc[t] = "insert" /\ ~Live(id)
      /\ level' = [level EXCEPT ![id] = l]
      /\ lo' = [lo EXCEPT ![id] = a] /\ hi' = [hi EXCEPT ![id] = b]
      /\ rc' = [rc EXCEPT ![id] = 2]
      /\ target' = [target EXCEPT ![k] = Null, ![j] = id]
      /\ owner' = [owner EXCEPT ![k] = NoThread, ![j] = t]
      /\ tableLock' = [tableLock EXCEPT ![l] = NoThread]
      /\ Finish(t)
      /\ UNCHANGED <<cacheVars, gcVars>>
  BY <1>2 DEF InsertNode, Return
<1>4. /\ t # NoThread /\ l \in Levels /\ tableLock[l] = t
      /\ j \in Handles /\ owner[j] = t /\ k \in Handles /\ owner[k] = t
      /\ \A e \in Entries : cacheLock[e] # t
  BY <1>2, <1>3, ReqFacts DEF Requesting
<1>5. Matches(l, a, b) \subseteq cut
  BY <1>1, <1>2, <1>3 DEF ReqInv
<1>6. \/ l = NumLevels /\ j = k /\ target[j] = Null
      \/ /\ l \in 0 .. NumLevels - 1 /\ j # k /\ target[j] = a /\ target[k] = b
         /\ a \in Ids /\ level[a] > l /\ b \in Ids /\ level[b] > l
  BY <1>1, <1>2, <1>3 DEF ReqInv
<1>7. l \in Nat /\ level[id] = -1 /\ NumLevels \in Nat /\ Null \notin Ids
  BY <1>3, <1>4, GcAssumption DEF Levels, Live, Free
<1>8. /\ \A h \in Handles : target[h] # id
      /\ \A p \in Ids : IsInner(p) => lo[p] # id /\ hi[p] # id
      /\ \A e \in Entries : cacheKey[e] # Null => cacheKey[e] # id /\ cacheValue[e] # id
  BY <1>3, FreeSlot DEF Alone
<1>9. /\ level'[id] = l /\ lo'[id] = a /\ hi'[id] = b
      /\ \A x \in Ids \ {id} : level'[x] = level[x] /\ lo'[x] = lo[x] /\ hi'[x] = hi[x]
  BY <1>1, <1>3 DEF TypeOK
<1>10. /\ IsInner(id)' <=> l # NumLevels
       /\ \A x \in Ids \ {id} : (IsInner(x)' <=> IsInner(x)) /\ (Live(x)' <=> Live(x))
       /\ Live(id)' /\ ~IsInner(id)
  BY <1>3, <1>4, <1>7, <1>9 DEF IsInner, Live, Levels, Free
<1>11. NodeInv'
  <2>1. ASSUME NEW x \in Ids \ {id}, IsInner(x)'
        PROVE  /\ lo'[x] \in Ids /\ level'[lo'[x]] > level'[x]
               /\ hi'[x] \in Ids /\ level'[hi'[x]] > level'[x]
    BY <1>1, <1>8, <1>9, <1>10, <2>1 DEF NodeInv
  <2>2. ASSUME IsInner(id)'
        PROVE  /\ lo'[id] \in Ids /\ level'[lo'[id]] > level'[id]
               /\ hi'[id] \in Ids /\ level'[hi'[id]] > level'[id]
    BY <1>6, <1>7, <1>9, <1>10, <2>2
  <2> QED BY <2>1, <2>2 DEF NodeInv
<1>12. Canonical'
  <2>1. \A y \in Ids \ {id} : level'[y] = l /\ lo'[y] = a /\ hi'[y] = b => y \in cut'
    BY <1>3, <1>5, <1>9 DEF Matches, gcVars, tableVars
  <2>2. \A x, y \in Ids \ {id} :
          /\ Live(x)' /\ level'[x] = level'[y] /\ lo'[x] = lo'[y] /\ hi'[x] = hi'[y]
          /\ x \notin cut' /\ y \notin cut'
          => x = y
    BY <1>1, <1>3, <1>9, <1>10 DEF Canonical, gcVars, tableVars
  <2> QED BY <1>9, <2>1, <2>2 DEF Canonical
<1>13. target'[j] = id /\ \A h \in Handles \ {j} : target'[h] \in {target[h], Null}
  BY <1>1, <1>3, <1>4 DEF TypeOK
<1>14. owner'[j] = t /\ \A h \in Handles \ {j, k} : owner'[h] = owner[h] /\ target'[h] = target[h]
  BY <1>1, <1>3, <1>4 DEF TypeOK
<1>15. EdgeInv'
  <2>1. ASSUME NEW h \in Handles, target'[h] # Null PROVE level'[target'[h]] # Free /\ owner'[h] # NoThread
    <3>1. CASE h = j
      BY <1>4, <1>10, <1>13, <1>14, <3>1 DEF Live
    <3>2. CASE h # j /\ h = k
      BY <1>1, <1>3, <1>4, <2>1, <3>2 DEF TypeOK
    <3>3. CASE h \notin {j, k}
      <4>1. target[h] \in Ids \ {id} /\ Live(target[h]) /\ owner[h] # NoThread
        BY <1>1, <1>8, <1>14, <2>1, <3>3 DEF EdgeInv, TypeOK
      <4> QED BY <1>10, <1>14, <3>3, <4>1 DEF Live
    <3> QED BY <3>1, <3>2, <3>3
  <2> QED BY <2>1 DEF EdgeInv, Live
<1>16. CacheInv'
  <2>1. \A e \in Entries : cacheKey[e] # Null =>
          /\ cacheKey[e] \in Ids \ {id} /\ cacheValue[e] \in Ids \ {id}
          /\ cacheValue[e] # Null /\ Live(cacheKey[e]) /\ Live(cacheValue[e])
    BY <1>1, <1>8 DEF CacheInv, TypeOK, Ids
  <2> QED BY <1>3, <1>10, <2>1 DEF CacheInv, cacheVars
<1>17. RcInv'
  <2>1. PICK c, d : /\ c = IF l = NumLevels THEN Null ELSE a
                    /\ d = IF l = NumLevels THEN Null ELSE b
    OBVIOUS
  <2>2. /\ c \in Ids \cup {Null} /\ d \in Ids \cup {Null} /\ c # id /\ d # id
        /\ target[j] = c /\ target[k] = d /\ (j = k => c = Null)
    BY <1>6, <1>7, <2>1
  <2>3. LoEdge' = [LoEdge EXCEPT ![id] = c] /\ HiEdge' = [HiEdge EXCEPT ![id] = d]
    BY <1>9, <1>10, <2>1 DEF LoEdge, HiEdge
  <2> QED BY <1>3, <1>4, <2>2, <2>3, CountsInsert
<1>18. StateInv'
  BY <1>11, <1>12, <1>15, <1>16, <1>17 DEF StateInv
<1>19. TypeOK'
  <2>1. /\ level' \in [Ids -> Levels \cup {Free}] /\ rc' \in [Ids -> Nat]
        /\ owner' \in [Handles -> Threads \cup {NoThread}]
        /\ target' \in [Handles -> Ids \cup {Null}]
        /\ tableLock' \in [Levels -> Threads \cup {NoThread}]
    BY <1>1, <1>3, <1>4 DEF TypeOK
  <2>2. a \in Ids \cup Values \cup {Null} /\ b \in Ids \cup Values \cup {Null}
    BY <1>1, <1>2 DEF TypeOK
  <2>3. /\ lo' \in [Ids -> Ids \cup Values \cup {Null}]
        /\ hi' \in [Ids -> Ids \cup Values \cup {Null}]
    BY <1>1, <1>3, <2>2 DEF TypeOK
  <2> QED BY <1>1, <1>3, <2>1, <2>3, FinishType DEF TypeOK, cacheVars, gcVars, tableVars
<1>20. ASSUME NEW u \in Threads \ {t} PROVE ThreadInv(u)'
  <2>1. KeepsStack(u)
    BY <1>1, <1>3, FinishType
  <2>2. KeepsEntries(u)
    BY <1>3 DEF KeepsEntries, cacheVars
  <2>3. KeepsHandles(u)
    <3>1. ASSUME NEW h \in Handles, owner[h] = u
          PROVE  /\ owner'[h] = u /\ target'[h] = target[h]
                 /\ target[h] # Null => level'[target[h]] = level[target[h]]
      <4>1. h \notin {j, k} /\ target[h] # id /\ target[h] \in Ids \cup {Null}
        BY <1>1, <1>4, <1>8, <3>1 DEF TypeOK
      <4> QED BY <1>9, <1>14, <3>1, <4>1
    <3> QED BY <3>1 DEF KeepsHandles
  <2>4. KeepsTables(u)
    <3>1. ASSUME NEW m \in Levels, tableLock[m] = u
          PROVE  /\ tableLock'[m] = u /\ m # l /\ m # -1
      BY <1>1, <1>3, <1>4, <3>1, GcAssumption DEF TypeOK, Levels
    <3> QED BY <1>3, <1>7, <1>9, <3>1 DEF KeepsTables, gcVars, tableVars
  <2>5. KeepsGc(u)
    <3>1. pc[u] = "free" => victim \in Ids \ {id}
      BY <1>3, VictimAlone
    <3> QED BY <1>1, <1>3, <3>1 DEF KeepsGc, TypeOK, gcVars, tableVars
  <2>6. KeepsGarbage(u)
    <3>1. CASE pc[u] \in Sweeping
      <4>1. \A g \in garbage :
              /\ g \in Ids /\ Live(g)
              /\ \A h \in Handles : target[h] # g
              /\ \A p \in Ids : IsInner(p) /\ (lo[p] = g \/ hi[p] = g) => p \in garbage
        BY <3>1, GcFacts
      <4>2. ASSUME NEW g \in garbage
            PROVE  /\ level'[g] = level[g]
                   /\ \A h \in Handles : target[h] # g => target'[h] # g
                   /\ \A p \in Ids :
                        IsInner(p)' /\ (lo'[p] = g \/ hi'[p] = g) =>
                          IsInner(p) /\ (lo[p] = g \/ hi[p] = g)
        <5>1. g \in Ids \ {id} /\ g # Null
          BY <1>3, <1>7, <4>1
        <5>2. \A h \in Handles : target[h] # g => target'[h] # g
          BY <1>13, <5>1
        <5>3. ASSUME IsInner(id)' PROVE lo'[id] # g /\ hi'[id] # g
          BY <1>4, <1>6, <1>9, <1>10, <4>1, <5>3
        <5> QED BY <1>9, <1>10, <5>1, <5>2, <5>3
      <4> QED BY <1>3, <4>2 DEF KeepsGarbage, gcVars, tableVars
    <3>2. CASE pc[u] = "post"
      <4>1. garbage = {}
        BY <3>2 DEF IInv, ThreadInv, GarbageInv
      <4> QED BY <1>3, <4>1 DEF KeepsGarbage, gcVars, tableVars
    <3> QED BY <3>1, <3>2 DEF KeepsGarbage
  <2> QED BY <2>1, <2>2, <2>3, <2>4, <2>5, <2>6, ThreadKept DEF Keeps
<1>21. ThreadInv(t)'
  <2>1. pc'[t] = "idle" /\ \A e \in Entries : cacheLock'[e] # t
    BY <1>1, <1>3, <1>4, FinishType DEF cacheVars
  <2> QED BY <2>1, IdleThread
<1> QED BY <1>18, <1>19, <1>20, <1>21 DEF IInv

\* The counts when the node v, to which no edge leads, is freed.
LEMMA CountsFree ==
  ASSUME IInv, NEW v \in Ids, Live(v),
         LoEdge' = [LoEdge EXCEPT ![v] = Null], HiEdge' = [HiEdge EXCEPT ![v] = Null],
         target' = target, level' = [level EXCEPT ![v] = Free],
         \A x \in Ids \ {v} : rc'[x] = rc[x] - One(LoEdge[v], x) - One(HiEdge[v], x)
  PROVE  RcInv'
<1>1. PICK f, p, r, q, s : /\ f = target /\ p = LoEdge /\ r = LoEdge'
                           /\ q = HiEdge /\ s = HiEdge'
  OBVIOUS
<1>2. IsFiniteSet(Handles) /\ IsFiniteSet(Ids) /\ Null \notin Ids
  BY GcAssumption
<1>3. TypeOK /\ RcInv
  BY DEF IInv, StateInv
<1>4. Redirected(p, r, Ids, v, Null) /\ Redirected(q, s, Ids, v, Null)
  BY <1>1 DEF Redirected, LoEdge, HiEdge
<1>5. ASSUME NEW x \in Ids, Live(x)'
      PROVE  rc'[x] = 1 + Count(f, Handles, x) + Count(r, Ids, x) + Count(s, Ids, x)
  <2>1. x # v /\ Live(x)
    BY <1>3, <1>5 DEF Live, TypeOK
  <2>2. Count(r, Ids, x) = Count(p, Ids, x) - One(p[v], x) + One(Null, x)
    BY <1>2, <1>4, CountUpdate
  <2>3. Count(s, Ids, x) = Count(q, Ids, x) - One(q[v], x) + One(Null, x)
    BY <1>2, <1>4, CountUpdate
  <2>4. /\ Count(f, Handles, x) \in Nat /\ Count(p, Ids, x) \in Nat /\ Count(q, Ids, x) \in Nat
    BY <1>2, CountType
  <2>5. rc[x] = 1 + Count(f, Handles, x) + Count(p, Ids, x) + Count(q, Ids, x)
    BY <1>1, <1>3, <2>1 DEF RcInv
  <2>6. rc'[x] = rc[x] - One(p[v], x) - One(q[v], x)
    BY <1>1, <2>1
  <2>7. One(Null, x) = 0 /\ One(p[v], x) \in {0, 1} /\ One(q[v], x) \in {0, 1}
    BY <1>2 DEF One
  <2> QED BY <2>2, <2>3, <2>4, <2>5, <2>6, <2>7
<1> QED BY <1>1, <1>5 DEF RcInv

\* Freeing the condemned node leaves no edge dangling, and its children lose one
\* reference each.
LEMMA GcFreeInv ==
  ASSUME IInv, NEW t \in Threads, GcFree(t) PROVE IInv'
<1>1. TypeOK /\ RcInv /\ EdgeInv /\ NodeInv /\ Canonical
  BY DEF IInv, StateInv
<1>2. PICK v, c, d : v = victim /\ c = LoEdge[v] /\ d = HiEdge[v]
  OBVIOUS
<1>3. /\ pc[t] = "free"
      /\ rc' = [x \in Ids |->
           IF x = v THEN 0
           ELSE rc[x] - (IF IsInner(v) /\ x = lo[v] THEN 1 ELSE 0)
                      - (IF IsInner(v) /\ x = hi[v] THEN 1 ELSE 0)]
      /\ level' = [level EXCEPT ![v] = Free]
      /\ lo' = [lo EXCEPT ![v] = Null] /\ hi' = [hi EXCEPT ![v] = Null]
      /\ victim' = Null
      /\ garbage' = garbage \ {v}
      /\ pc' = [pc EXCEPT ![t] = "sweep"]
      /\ holes' = holes \cup {level[v]} /\ cut' = cut \ {v}
      /\ UNCHANGED <<edgeVars, tableLock, cacheVars, reqVars, gcOwner, gcStep, gcTodo>>
  BY <1>2 DEF GcFree, Goto
<1>4. v \in Ids /\ level[v] = gcStep /\ Live(v) /\ Alone(v) /\ v \notin gcTodo
  BY <1>2, <1>3, VictimAlone DEF IInv, ThreadInv, GcInv
<1>5. pc[t] \in Sweeping /\ pc[t] \in Collecting
  BY <1>3 DEF Sweeping, Collecting
<1>6. /\ gcOwner = t /\ gcStep \in Levels /\ gcStep \in Nat
      /\ \A e \in Entries : cacheLock[e] = t /\ cacheKey[e] = Null
      /\ tableLock[gcStep] = t /\ \A x \in gcTodo : x \in Ids /\ level[x] = gcStep
  BY <1>3, <1>5, GcFacts
<1>7. /\ level'[v] = Free /\ Null \notin Ids /\ Free = -1
      /\ \A x \in Ids \ {v} : level'[x] = level[x] /\ lo'[x] = lo[x] /\ hi'[x] = hi[x]
  BY <1>1, <1>3, <1>4, GcAssumption DEF TypeOK, Free
<1>8. /\ ~IsInner(v)' /\ ~Live(v)'
      /\ \A x \in Ids \ {v} : (IsInner(x)' <=> IsInner(x)) /\ (Live(x)' <=> Live(x))
  BY <1>7, GcAssumption DEF IsInner, Live
<1>9. NodeInv'
  <2>1. ASSUME NEW x \in Ids, IsInner(x)'
        PROVE  /\ lo'[x] \in Ids /\ level'[lo'[x]] > level'[x]
               /\ hi'[x] \in Ids /\ level'[hi'[x]] > level'[x]
    <3>1. x # v /\ IsInner(x) /\ lo[x] # v /\ hi[x] # v
      BY <1>4, <1>8, <2>1 DEF Alone
    <3> QED BY <1>1, <1>7, <3>1 DEF NodeInv
  <2> QED BY <2>1 DEF NodeInv
<1>10. Canonical'
  <2>1. \A x \in Ids : Live(x)' => x # v /\ Live(x)
    BY <1>8
  <2>2. \A x, y \in Ids : Live(x)' /\ level'[x] = level'[y] => y # v
    BY <1>7 DEF Live
  <2>3. \A x \in Ids \ {v} : x \in cut => x \in cut'
    BY <1>3
  <2> QED BY <1>1, <1>7, <2>1, <2>2, <2>3 DEF Canonical
<1>11. EdgeInv'
  BY <1>1, <1>3, <1>4, <1>7 DEF EdgeInv, Alone, Live, edgeVars, TypeOK
<1>12. CacheInv'
  BY <1>3, <1>6 DEF CacheInv, cacheVars
<1>13. LoEdge' = [LoEdge EXCEPT ![v] = Null] /\ HiEdge' = [HiEdge EXCEPT ![v] = Null]
  BY <1>4, <1>7, <1>8 DEF LoEdge, HiEdge
<1>14. RcInv'
  <2>1. LoEdge[v] = (IF IsInner(v) THEN lo[v] ELSE Null) /\ HiEdge[v] = (IF IsInner(v) THEN hi[v] ELSE Null)
    BY <1>4 DEF LoEdge, HiEdge
  <2>2. \A x \in Ids \ {v} : rc'[x] = rc[x] - One(LoEdge[v], x) - One(HiEdge[v], x)
    BY <1>3, <1>7, <2>1 DEF One
  <2> QED BY <1>3, <1>4, <1>13, <2>2, CountsFree DEF edgeVars
<1>15. StateInv'
  BY <1>9, <1>10, <1>11, <1>12, <1>14 DEF StateInv
<1>16. TypeOK'
  <2>1. ASSUME NEW x \in Ids, ~Live(x)' PROVE rc'[x] \in Nat
    <3>1. CASE x = v
      BY <1>3, <3>1
    <3>2. CASE x # v
      <4>1. ~Live(x)
        BY <1>8, <2>1, <3>2
      <4>2. Alone(x)
        BY <4>1, FreeSlot
      <4>3. rc'[x] = rc[x]
        BY <1>1, <1>3, <1>4, <3>2, <4>2 DEF Alone, TypeOK
      <4> QED BY <1>1, <4>3 DEF TypeOK
    <3> QED BY <3>1, <3>2
  <2>2. \A x \in Ids : rc'[x] \in Nat
    BY <1>14, <2>1, CountsNat
  <2>3. rc' \in [Ids -> Nat]
    BY <1>3, <2>2
  <2>4. holes' \in SUBSET Levels /\ cut' \in SUBSET Ids
    BY <1>1, <1>3, <1>4, <1>6 DEF TypeOK
  <2> QED BY <1>1, <1>3, <2>3, <2>4 DEF TypeOK, edgeVars, cacheVars, reqVars
<1>17. ASSUME NEW u \in Threads \ {t} PROVE ThreadInv(u)'
  <2>1. KeepsStack(u)
    BY <1>1, <1>3 DEF KeepsStack, TypeOK, reqVars
  <2>2. KeepsEntries(u)
    BY <1>3 DEF KeepsEntries, cacheVars
  <2>3. KeepsHandles(u)
    BY <1>1, <1>3, <1>4, <1>7 DEF KeepsHandles, Alone, edgeVars, TypeOK
  <2>4. KeepsTables(u)
    <3>1. ASSUME NEW m \in Levels, tableLock[m] = u
          PROVE  tableLock'[m] = u /\ m # gcStep /\ m # -1
      BY <1>3, <1>6, <3>1, GcAssumption DEF Levels
    <3> QED BY <1>3, <1>4, <1>7, <3>1 DEF KeepsTables
  <2>5. pc[u] \notin Collecting
    BY <1>5, OneGc
  <2>6. KeepsGc(u) /\ KeepsGarbage(u)
    BY <2>5 DEF KeepsGc, KeepsGarbage, Collecting
  <2> QED BY <2>1, <2>2, <2>3, <2>4, <2>6, ThreadKept DEF Keeps
<1>18. ThreadInv(t)'
  <2>1. pc'[t] = "sweep"
    BY <1>1, <1>3 DEF TypeOK
  <2>2. \A x \in gcTodo : level'[x] = gcStep
    BY <1>4, <1>6, <1>7
  <2>3. GcInv(t)'
    BY <1>3, <1>6, <2>1, <2>2 DEF GcInv, cacheVars, Sweeping, Collecting
  <2>4. \A g \in garbage :
              /\ g \in Ids /\ Live(g) /\ level[g] >= gcStep
              /\ \A h \in Handles : target[h] # g
              /\ \A p \in Ids : IsInner(p) /\ (lo[p] = g \/ hi[p] = g) => p \in garbage
              /\ level[g] = gcStep => g \in gcTodo \cup {victim}
    BY <1>3, <1>5, GcFacts
  <2>5. \A g \in garbage' : g \in garbage /\ g \in Ids \ {v}
    BY <1>3, <2>4
  <2>6. \A g \in garbage' :
              /\ Live(g)' /\ level'[g] >= gcStep
              /\ \A h \in Handles : target'[h] # g
              /\ level'[g] = gcStep => g \in gcTodo
    BY <1>2, <1>3, <1>7, <1>8, <2>4, <2>5 DEF edgeVars
  <2>7. \A g \in garbage' : \A p \in Ids : IsInner(p)' /\ (lo'[p] = g \/ hi'[p] = g) => p \in garbage'
    BY <1>3, <1>7, <1>8, <2>4, <2>5
  <2>8. GarbageInv(t)'
    BY <1>3, <2>1, <2>6, <2>7 DEF GarbageInv, Sweeping
  <2> QED BY <2>1, <2>3, <2>8, GcOnly DEF ThreadInv, Collecting, Sweeping
<1> QED BY <1>15, <1>16, <1>17, <1>18 DEF IInv

-----------------------------------------------------------------------------
(* The theorems *)

\* The invariant holds in a new manager.
LEMMA InitInv == Init => IInv
<1> SUFFICES ASSUME Init PROVE IInv
  OBVIOUS
<1>1. TypeOK
  <2>1. 0 \in Levels /\ 0 \in 0 .. NumLevels + 1
    BY GcAssumption DEF Levels
  <2> QED BY <2>1 DEF Init, TypeOK
<1>2. \A id \in Ids : ~Live(id) /\ ~IsInner(id)
  BY GcAssumption DEF Init, Live, IsInner, Free
<1>3. StateInv
  BY <1>2 DEF Init, StateInv, NodeInv, EdgeInv, CacheInv, RcInv, Canonical
<1>4. ASSUME NEW t \in Threads PROVE ThreadInv(t)
  <2>1. pc[t] = "idle" /\ \A e \in Entries : cacheLock[e] # t
    BY GcAssumption DEF Init
  <2> QED BY <2>1 DEF ThreadInv, ReqInv, HitInv, LockInv, GcInv, GarbageInv,
             Requesting, Sweeping, Collecting
<1> QED BY <1>1, <1>3, <1>4 DEF IInv

\* It survives steps of others.
LEMMA StutterInv == ASSUME IInv, UNCHANGED vars PROVE IInv'
<1>1. Quiet /\ TypeOK /\ UNCHANGED gcVars
  BY DEF vars, nodeVars, edgeVars, Quiet, SameNodes, IInv, gcVars, tableVars
<1>2. TypeOK'
  BY <1>1 DEF TypeOK, vars, nodeVars, edgeVars, cacheVars, reqVars, gcVars, tableVars
<1>3. StateInv'
  BY <1>1, QuietState DEF vars, cacheVars
<1>4. ASSUME NEW u \in Threads PROVE ThreadInv(u)'
  <2>1. KeepsStack(u) /\ KeepsEntries(u)
    BY DEF KeepsStack, KeepsEntries, vars, reqVars, cacheVars
  <2>2. \A l \in Levels : tableLock[l] = u => tableLock'[l] = u
    BY DEF vars
  <2> QED BY <1>1, <2>1, <2>2, QuietThread
<1> QED BY <1>2, <1>3, <1>4 DEF IInv

\* Every step keeps the invariant.
LEMMA NextInv == ASSUME IInv, [Next]_vars PROVE IInv'
<1>1. CASE UNCHANGED vars
  BY <1>1, StutterInv
<1>2. ASSUME NEW e \in Entries, CacheClear(e) PROVE IInv'
  BY <1>2, CacheClearInv
<1>3. ASSUME NEW t \in Threads, Edges(t) PROVE IInv'
  BY <1>3, CloneEdgeInv, DropEdgeInv DEF Edges
<1>4. ASSUME NEW t \in Threads, Tables(t) PROVE IInv'
  BY <1>4, GetOrInsertInv, GetTerminalInv, DropNodeInv, CloneFoundInv, InsertNodeInv,
     InsertOutOfMemoryInv DEF Tables
<1>5. ASSUME NEW t \in Threads, Cache(t) PROVE IInv'
  BY <1>5, CacheAddInv, CacheHitInv, CacheCloneInv DEF Cache
<1>6. ASSUME NEW t \in Threads, Collect(t) PROVE IInv'
  BY <1>6, GcStartInv, GcPreInv, GcPostInv, GcBeginSweepInv, GcLockLevelInv, GcKeepInv,
     GcCondemnInv, GcFreeInv, GcUnlockLevelInv, GcEndInv DEF Collect
<1> QED BY <1>1, <1>2, <1>3, <1>4, <1>5, <1>6 DEF Next

\* The invariant holds throughout.
LEMMA Invariance == Spec => []IInv
<1>1. IInv /\ [Next]_vars => IInv'
  BY NextInv
<1> QED BY <1>1, InitInv, PTL DEF Spec

\* Elements with the kind of a reference in front.
Tagged(tag, S) == {<<tag, x>> : x \in S}

\* Tagging does not change the size of a set.
LEMMA TaggedSize ==
  ASSUME NEW S, IsFiniteSet(S), NEW tag
  PROVE  IsFiniteSet(Tagged(tag, S)) /\ Cardinality(Tagged(tag, S)) = Cardinality(S)
<1> DEFINE f == [x \in S |-> <<tag, x>>]
           T == Tagged(tag, S)
<1>1. f \in [S -> T]
  BY DEF Tagged
<1>2. \A x, y \in S : f[x] = f[y] => x = y
  OBVIOUS
<1>3. \A y \in T : \E x \in S : f[x] = y
  BY DEF Tagged
<1> HIDE DEF f, T
<1>4. f \in Bijection(S, T)
  BY <1>1, <1>2, <1>3 DEF Bijection, Injection, IsInjective, Surjection
<1>5. ExistsBijection(S, T)
  BY <1>4 DEF ExistsBijection
<1> QED BY <1>5, FS_Bijection DEF T

\* The size of a union of disjoint sets.
LEMMA DisjointUnion ==
  ASSUME NEW S, NEW T, IsFiniteSet(S), IsFiniteSet(T), S \cap T = {}
  PROVE  IsFiniteSet(S \cup T) /\ Cardinality(S \cup T) = Cardinality(S) + Cardinality(T)
<1>1. Cardinality(S \cap T) = 0
  BY FS_EmptySet
<1>2. Cardinality(S) \in Nat /\ Cardinality(T) \in Nat
  BY FS_CardinalityType
<1>3. IsFiniteSet(S \cup T) /\ Cardinality(S \cup T) = Cardinality(S) + Cardinality(T) - Cardinality(S \cap T)
  BY FS_Union
<1> QED BY <1>1, <1>2, <1>3

\* The references of a node, counted kind by kind.
LEMMA RefsSize ==
  ASSUME NEW id \in Ids
  PROVE  Cardinality(Refs(id)) =
           1 + Count(target, Handles, id) + Count(LoEdge, Ids, id) + Count(HiEdge, Ids, id)
<1>1. PICK H, L, R : /\ H = {k \in Handles : target[k] = id}
                     /\ L = {q \in Ids : LoEdge[q] = id}
                     /\ R = {q \in Ids : HiEdge[q] = id}
  OBVIOUS
<1>2. IsFiniteSet(H) /\ IsFiniteSet(L) /\ IsFiniteSet(R) /\ IsFiniteSet({id})
  BY <1>1, GcAssumption, FS_Subset, FS_Singleton
<1>3. /\ Count(target, Handles, id) = Cardinality(H)
      /\ Count(LoEdge, Ids, id) = Cardinality(L)
      /\ Count(HiEdge, Ids, id) = Cardinality(R)
  BY <1>1 DEF Count
<1>4. /\ L = {q \in Ids : IsInner(q) /\ lo[q] = id}
      /\ R = {q \in Ids : IsInner(q) /\ hi[q] = id}
  BY <1>1, GcAssumption DEF LoEdge, HiEdge
<1>5. PICK A, B, C, D : /\ A = Tagged("table", {id}) /\ B = Tagged("handle", H)
                        /\ C = Tagged("lo", L) /\ D = Tagged("hi", R)
  OBVIOUS
<1>6. Refs(id) = ((A \cup B) \cup C) \cup D
  <2>1. {<<"table", id>>} = A
    BY <1>5 DEF Tagged
  <2> QED BY <1>1, <1>4, <1>5, <2>1 DEF Refs, Tagged
<1>7. /\ IsFiniteSet(A) /\ Cardinality(A) = 1
      /\ IsFiniteSet(B) /\ Cardinality(B) = Cardinality(H)
      /\ IsFiniteSet(C) /\ Cardinality(C) = Cardinality(L)
      /\ IsFiniteSet(D) /\ Cardinality(D) = Cardinality(R)
  BY <1>2, <1>5, TaggedSize, FS_Singleton
<1>8. A \cap B = {} /\ (A \cup B) \cap C = {} /\ ((A \cup B) \cup C) \cap D = {}
  BY <1>5 DEF Tagged
<1>9. IsFiniteSet(A \cup B) /\ Cardinality(A \cup B) = 1 + Cardinality(H)
  BY <1>7, <1>8, DisjointUnion
<1>10. /\ IsFiniteSet((A \cup B) \cup C)
       /\ Cardinality((A \cup B) \cup C) = Cardinality(A \cup B) + Cardinality(L)
  BY <1>7, <1>8, <1>9, DisjointUnion
<1>11. Cardinality(((A \cup B) \cup C) \cup D) = Cardinality((A \cup B) \cup C) + Cardinality(R)
  BY <1>7, <1>8, <1>10, DisjointUnion
<1>12. Cardinality(H) \in Nat /\ Cardinality(L) \in Nat /\ Cardinality(R) \in Nat
  BY <1>2, FS_CardinalityType
<1> QED BY <1>3, <1>6, <1>9, <1>10, <1>11, <1>12

\* What the invariant implies.
LEMMA Consequences == IInv => TypeOK /\ RcExact /\ NoDangling /\ Canonical /\ GcComplete
<1> SUFFICES ASSUME IInv PROVE RcExact /\ NoDangling /\ GcComplete /\ TypeOK /\ Canonical
  OBVIOUS
<1>1. TypeOK /\ Canonical /\ NodeInv /\ EdgeInv /\ CacheInv /\ RcInv
  BY DEF IInv, StateInv
<1>2. RcExact
  BY <1>1, RefsSize DEF RcExact, RcInv
<1>3. NoDangling
  BY <1>1 DEF NoDangling, NodeInv, EdgeInv, CacheInv, Children
<1>4. GcComplete
  BY DEF IInv, ThreadInv, GarbageInv, GcComplete
<1> QED BY <1>1, <1>2, <1>3, <1>4

\* The state of the manager stays well-formed, so no count ever drops below
\* zero in release (NodeBase) whatever the threads do.
THEOREM TypeCorrect == Spec => []TypeOK
BY Invariance, Consequences, PTL

\* The reference count of a node is always the number of its references: the
\* table's, the edges owned by threads and the child edges of other nodes.  So
\* a count read as 1 by LevelViewSet::gc means that nobody refers to the node.
THEOREM CountsAreExact == Spec => []RcExact
BY Invariance, Consequences, PTL

\* No owned edge, child edge or apply cache entry refers to a freed slot, and
\* children stay below their parents, while any number of threads insert nodes
\* and one collects garbage.
THEOREM EdgesAreLive == Spec => []NoDangling
BY Invariance, Consequences, PTL

\* However many threads call get_or_insert and get_edge while another collects
\* garbage: two nodes of a level with the same children, or two terminals with
\* the same value, exist only if one of them was in its table when a sweep of
\* that table by RawTable::retain ended that had removed entries, then or before.
THEOREM DiagramsAreCanonical == Spec => []Canonical
BY Invariance, Consequences, PTL

\* One pass of Manager::gc from the top level to the terminals frees all that
\* was unreachable when it began and has not been revived by get_or_insert.
THEOREM CollectionIsComplete == Spec => []GcComplete
BY Invariance, Consequences, PTL

=============================================================================
