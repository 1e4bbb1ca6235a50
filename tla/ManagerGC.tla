----------------------------- MODULE ManagerGC ------------------------------
(***************************************************************************)
(* Reference counting, the unique tables, the apply cache and concurrent   *)
(* garbage collection of the index-based manager                           *)
(* (crates/oxidd-manager-index/src/manager.rs, node/fixed_arity.rs,        *)
(* terminal_manager/dynamic.rs, crates/oxidd-cache/src/direct.rs).         *)
(*                                                                         *)
(* All threads are inside the manager with shared access.  Level           *)
(* NumLevels stands for the terminal manager: its nodes carry a value      *)
(* where an inner node has its two child edges.  An owned edge (a Function *)
(* or an edge on a stack) is a handle; edges in nodes and in the unique    *)
(* tables are implicit in the nodes, edges in the cache are not counted.   *)
(*                                                                         *)
(* A table is swept with RawTable::retain, which frees slots inside probe  *)
(* chains (see RetainKeepsReachable of HashTable).  From then on a search  *)
(* may miss the nodes that were in that table.  Which ones depends on      *)
(* their hashes: the model allows any of them to be missed, and any of     *)
(* them to be found, for insertions and rehashes close the chains again.   *)
(***************************************************************************)
EXTENDS Integers, FiniteSets

CONSTANTS
  Threads, NoThread,
  InnerIds, TermIds,  \* slots for inner nodes and for terminals
  Null,               \* no node
  Values,             \* terminal values
  NumLevels,          \* number of levels
  Handles,            \* bound on the edges owned at the same time
  NumEntries,         \* entries of the apply cache
  Bucket              \* [InnerIds -> entries]: the hash of an operand

Ids     == InnerIds \cup TermIds
Levels  == 0 .. NumLevels
Entries == 1 .. NumEntries
Free    == -1         \* the "level" of a free slot

ASSUME GcAssumption ==
  /\ NoThread \notin Threads
  /\ Null \notin Ids
  /\ InnerIds \cap TermIds = {} /\ Values \cap (Ids \cup {Null}) = {}
  /\ IsFiniteSet(Ids) /\ IsFiniteSet(Handles)
  /\ NumLevels \in Nat /\ NumEntries \in Nat
  /\ Bucket \in [InnerIds -> Entries]

VARIABLES
  \* nodes, per slot
  level, lo, hi, rc,
  \* owned edges
  owner,      \* [Handles -> Threads \cup {NoThread}]
  target,     \* [Handles -> Ids \cup {Null}]
  \* the mutexes of the unique tables and of the terminal manager's state
  tableLock,
  \* the apply cache
  cacheLock, cacheKey, cacheValue,
  \* per thread: program counter, arguments of get_or_insert
  pc, reqLevel, reqLo, reqHi, keyLo, keyHi, found,
  \* garbage collection
  gcOwner,    \* gc_ongoing
  gcStep,     \* how many levels have been swept
  gcTodo,     \* nodes of the current level `retain` has not visited
  victim,     \* the node whose reference count was read as 1
  garbage,    \* history: unreachable when the sweep began, not revived since
  \* what sweeps did to the tables
  holes,      \* levels whose table has lost an entry to `retain`
  cut         \* nodes that were in such a table when a sweep of it ended: the
              \* slots before them may be free, so a search may miss them

nodeVars  == <<level, lo, hi, rc>>
edgeVars  == <<owner, target>>
cacheVars == <<cacheLock, cacheKey, cacheValue>>
reqVars   == <<reqLevel, reqLo, reqHi, keyLo, keyHi, found>>
tableVars == <<holes, cut>>
gcVars    == <<gcOwner, gcStep, gcTodo, victim, garbage, tableVars>>
vars == <<nodeVars, edgeVars, tableLock, cacheVars, pc, reqVars, gcVars>>

Live(id)    == level[id] # Free
SlotsOf(l)  == IF l = NumLevels THEN TermIds ELSE InnerIds
IsInner(id) == level[id] \in 0 .. NumLevels - 1
Children(id) == IF IsInner(id) THEN {lo[id], hi[id]} ELSE {}

\* The nodes reachable from S: the least superset of S closed under children.
Below(S) ==
  {id \in Ids : \A C \in SUBSET Ids :
     S \subseteq C /\ (\A x \in C : Children(x) \subseteq C) => id \in C}

Init ==
  /\ level = [id \in Ids |-> Free]
  /\ lo = [id \in Ids |-> Null] /\ hi = [id \in Ids |-> Null]
  /\ rc = [id \in Ids |-> 0]
  /\ owner = [h \in Handles |-> NoThread]
  /\ target = [h \in Handles |-> Null]
  /\ tableLock = [l \in Levels |-> NoThread]
  /\ cacheLock = [e \in Entries |-> NoThread]
  /\ cacheKey = [e \in Entries |-> Null]
  /\ cacheValue = [e \in Entries |-> Null]
  /\ pc = [t \in Threads |-> "idle"]
  /\ reqLevel = [t \in Threads |-> 0]
  /\ reqLo = [t \in Threads |-> Null] /\ reqHi = [t \in Threads |-> Null]
  /\ keyLo = [t \in Threads |-> Null] /\ keyHi = [t \in Threads |-> Null]
  /\ found = [t \in Threads |-> Null]
  /\ gcOwner = NoThread /\ gcStep = 0 /\ gcTodo = {}
  /\ victim = Null /\ garbage = {}
  /\ holes = {} /\ cut = {}

-----------------------------------------------------------------------------
(* Edges *)

\* An operation of t ends; what it kept on its stack is gone.
Finish(t) ==
  /\ pc' = [pc EXCEPT ![t] = "idle"]
  /\ reqLevel' = [reqLevel EXCEPT ![t] = 0]
  /\ reqLo' = [reqLo EXCEPT ![t] = Null] /\ reqHi' = [reqHi EXCEPT ![t] = Null]
  /\ keyLo' = [keyLo EXCEPT ![t] = Null] /\ keyHi' = [keyHi EXCEPT ![t] = Null]
  /\ found' = [found EXCEPT ![t] = Null]

Goto(t, next) == pc' = [pc EXCEPT ![t] = next]
Idle(t)    == pc[t] = "idle"
Owns(t, h) == owner[h] = t /\ target[h] # Null

\* Nodes t can borrow an edge to: owned edges and the children behind them.
Visible(t) ==
  UNION {{target[h]} \cup Children(target[h]) : h \in {k \in Handles : Owns(t, k)}}

\* NodeBase::retain and release
Retain(id)      == rc' = [rc EXCEPT ![id] = @ + 1]
Release(id)     == rc' = [rc EXCEPT ![id] = @ - 1]
ReleaseBoth(a, b) ==
  rc' = [id \in Ids |-> rc[id] - (IF id = a THEN 1 ELSE 0) - (IF id = b THEN 1 ELSE 0)]

\* clone_edge on any borrowed edge, for t itself or for thread u (a Function
\* that is sent away).
CloneEdge(t, u, id, k) ==
  /\ Idle(t)
  /\ id \in Visible(t)
  /\ owner[k] = NoThread
  /\ Retain(id)
  /\ owner' = [owner EXCEPT ![k] = u]
  /\ target' = [target EXCEPT ![k] = id]
  /\ UNCHANGED <<level, lo, hi, tableLock, cacheVars, pc, reqVars, gcVars>>

\* Mutant: the edge can be used after it was dropped.
DropEdgeKeepsHandle(t, h) ==
  /\ Idle(t) /\ Owns(t, h)
  /\ Release(target[h])
  /\ UNCHANGED <<level, lo, hi, edgeVars, tableLock, cacheVars, pc, reqVars, gcVars>>

\* drop_edge: the node stays in its unique table until the next gc.
DropEdge(t, h) ==
  /\ Idle(t) /\ Owns(t, h)
  /\ Release(target[h])
  /\ owner' = [owner EXCEPT ![h] = NoThread]
  /\ target' = [target EXCEPT ![h] = Null]
  /\ UNCHANGED <<level, lo, hi, tableLock, cacheVars, pc, reqVars, gcVars>>

-----------------------------------------------------------------------------
(* LevelView::get_or_insert and DynamicTerminalManager::get_edge *)

Matches(l, a, b) == {id \in Ids : level[id] = l /\ lo[id] = a /\ hi[id] = b}

\* Mutant: the mutex is not held from the lookup to the insertion.
LookupUnlocked(t, l, a, b, next) ==
  /\ Idle(t)
  /\ tableLock[l] = NoThread
  /\ reqLevel' = [reqLevel EXCEPT ![t] = l]
  /\ keyLo' = [keyLo EXCEPT ![t] = a]
  /\ keyHi' = [keyHi EXCEPT ![t] = b]
  /\ \/ /\ Matches(l, a, b) \subseteq cut
        /\ Goto(t, "insert")
        /\ UNCHANGED found
     \/ \E id \in Matches(l, a, b) :
          /\ Goto(t, next)
          /\ found' = [found EXCEPT ![t] = id]
  /\ UNCHANGED tableLock

\* With the table's mutex held: the key is looked up; the outcome is `next`.
\* The search may miss nodes that are cut off.
Lookup(t, l, a, b, next) ==
  /\ Idle(t)
  /\ tableLock[l] = NoThread
  /\ tableLock' = [tableLock EXCEPT ![l] = t]
  /\ reqLevel' = [reqLevel EXCEPT ![t] = l]
  /\ keyLo' = [keyLo EXCEPT ![t] = a]
  /\ keyHi' = [keyHi EXCEPT ![t] = b]
  /\ \/ /\ Matches(l, a, b) \subseteq cut
        /\ Goto(t, "insert")
        /\ UNCHANGED found
     \/ \E id \in Matches(l, a, b) :
          /\ Goto(t, next)
          /\ found' = [found EXCEPT ![t] = id]

\* get_or_insert of a node whose child edges are the handles a and b of t; all
\* children are at lower levels.
GetOrInsert(t, l, a, b) ==
  /\ Owns(t, a) /\ Owns(t, b) /\ a # b
  /\ level[target[a]] > l /\ level[target[b]] > l
  /\ Lookup(t, l, target[a], target[b], "drop")
  /\ reqLo' = [reqLo EXCEPT ![t] = a]
  /\ reqHi' = [reqHi EXCEPT ![t] = b]
  /\ UNCHANGED <<nodeVars, edgeVars, cacheVars, gcVars>>

\* get_terminal; the handle h will take the result.
GetTerminal(t, v, h) ==
  /\ owner[h] = NoThread
  /\ Lookup(t, NumLevels, v, v, "clone")
  /\ reqLo' = [reqLo EXCEPT ![t] = h]
  /\ reqHi' = [reqHi EXCEPT ![t] = h]
  /\ owner' = [owner EXCEPT ![h] = t]
  /\ UNCHANGED <<nodeVars, target, cacheVars, gcVars>>

\* Found: drop the new node and with it its child edges, ...
DropNode(t) ==
  /\ pc[t] = "drop"
  /\ ReleaseBoth(target[reqLo[t]], target[reqHi[t]])
  /\ target' = [target EXCEPT ![reqLo[t]] = Null, ![reqHi[t]] = Null]
  /\ Goto(t, "clone")
  /\ UNCHANGED <<level, lo, hi, owner, tableLock, cacheVars, reqVars, gcVars>>

\* The result edge is in the handle reqLo[t], the other handle is gone.
Return(t, id) ==
  /\ target' = [target EXCEPT ![reqHi[t]] = Null, ![reqLo[t]] = id]
  /\ owner' = [owner EXCEPT ![reqHi[t]] = NoThread, ![reqLo[t]] = t]
  /\ tableLock' = [tableLock EXCEPT ![reqLevel[t]] = NoThread]
  /\ Finish(t)

\* ... then clone the edge of the table.
CloneFound(t) ==
  /\ pc[t] = "clone"
  /\ Retain(found[t])
  /\ Return(t, found[t])
  /\ garbage' = garbage \ Below({found[t]})
  /\ UNCHANGED <<level, lo, hi, cacheVars, gcOwner, gcStep, gcTodo, victim, tableVars>>

\* Not found: a slot gets the node, one reference for the table and one for the
\* caller.
InsertNode(t, id) ==
  /\ pc[t] = "insert"
  /\ id \in SlotsOf(reqLevel[t]) /\ ~Live(id)
  /\ level' = [level EXCEPT ![id] = reqLevel[t]]
  /\ lo' = [lo EXCEPT ![id] = keyLo[t]]
  /\ hi' = [hi EXCEPT ![id] = keyHi[t]]
  /\ rc' = [rc EXCEPT ![id] = 2]
  /\ Return(t, id)
  /\ UNCHANGED <<cacheVars, gcVars>>

\* Err(OutOfMemory): the child edges of the node are dropped.
InsertOutOfMemory(t) ==
  /\ pc[t] = "insert"
  /\ \A id \in SlotsOf(reqLevel[t]) : Live(id)
  /\ ReleaseBoth(target[reqLo[t]], target[reqHi[t]])
  /\ target' = [target EXCEPT ![reqLo[t]] = Null, ![reqHi[t]] = Null]
  /\ owner' = [owner EXCEPT ![reqLo[t]] = NoThread, ![reqHi[t]] = NoThread]
  /\ tableLock' = [tableLock EXCEPT ![reqLevel[t]] = NoThread]
  /\ Finish(t)
  /\ UNCHANGED <<level, lo, hi, cacheVars, gcVars>>

-----------------------------------------------------------------------------
(* The apply cache; a lookup or insertion that finds its entry locked does *)
(* nothing (try_lock).                                                     *)

CacheAdd(t, x, v) ==
  LET e == Bucket[x] IN
  /\ Idle(t)
  /\ x \in Visible(t) \cap InnerIds /\ v \in Visible(t)
  /\ cacheLock[e] = NoThread
  /\ cacheKey' = [cacheKey EXCEPT ![e] = x]
  /\ cacheValue' = [cacheValue EXCEPT ![e] = v]
  /\ UNCHANGED <<nodeVars, edgeVars, tableLock, cacheLock, pc, reqVars, gcVars>>

\* A hit locks the entry; h will take the cloned value.
CacheHit(t, x, h) ==
  LET e == Bucket[x] IN
  /\ Idle(t)
  /\ x \in Visible(t) \cap InnerIds
  /\ owner[h] = NoThread
  /\ cacheLock[e] = NoThread /\ cacheKey[e] = x
  /\ cacheLock' = [cacheLock EXCEPT ![e] = t]
  /\ found' = [found EXCEPT ![t] = x]
  /\ reqLo' = [reqLo EXCEPT ![t] = h]
  /\ owner' = [owner EXCEPT ![h] = t]
  /\ Goto(t, "hit")
  /\ UNCHANGED <<nodeVars, target, tableLock, cacheKey, cacheValue,
                 reqLevel, reqHi, keyLo, keyHi, gcVars>>

\* The value is cloned while the entry is locked.
CacheClone(t) ==
  LET e == Bucket[found[t]] IN
  /\ pc[t] = "hit"
  /\ Retain(cacheValue[e])
  /\ target' = [target EXCEPT ![reqLo[t]] = cacheValue[e]]
  /\ cacheLock' = [cacheLock EXCEPT ![e] = NoThread]
  /\ Finish(t)
  /\ UNCHANGED <<level, lo, hi, owner, tableLock, cacheKey, cacheValue, gcVars>>

\* ApplyCache::clear, for one entry.
CacheClear(e) ==
  /\ cacheLock[e] = NoThread
  /\ cacheKey' = [cacheKey EXCEPT ![e] = Null]
  /\ cacheValue' = [cacheValue EXCEPT ![e] = Null]
  /\ UNCHANGED <<nodeVars, edgeVars, tableLock, cacheLock, pc, reqVars, gcVars>>

-----------------------------------------------------------------------------
(* Manager::gc; it returns at once if another gc is ongoing *)

GcStart(t) ==
  /\ Idle(t)
  /\ gcOwner = NoThread
  /\ gcOwner' = t
  /\ Goto(t, "pre")
  /\ UNCHANGED <<nodeVars, edgeVars, tableLock, cacheVars, reqVars,
                 gcStep, gcTodo, victim, garbage, tableVars>>

\* Mutant: the entries are locked but keep their contents.
GcPreWithoutClear(t, e) ==
  /\ pc[t] = "pre"
  /\ cacheLock[e] = NoThread
  /\ \A d \in 1 .. e - 1 : cacheLock[d] = t
  /\ cacheLock' = [cacheLock EXCEPT ![e] = t]
  /\ UNCHANGED <<nodeVars, edgeVars, tableLock, cacheKey, cacheValue, pc, reqVars, gcVars>>

\* pre_gc locks and clears the entries one after the other.
GcPre(t, e) ==
  /\ pc[t] = "pre"
  /\ cacheLock[e] = NoThread
  /\ \A d \in 1 .. e - 1 : cacheLock[d] = t
  /\ cacheLock' = [cacheLock EXCEPT ![e] = t]
  /\ cacheKey' = [cacheKey EXCEPT ![e] = Null]
  /\ cacheValue' = [cacheValue EXCEPT ![e] = Null]
  /\ UNCHANGED <<nodeVars, edgeVars, tableLock, pc, reqVars, gcVars>>

Reachable == Below({target[h] : h \in Handles} \ {Null})

GcBeginSweep(t) ==
  /\ pc[t] = "pre"
  /\ \A e \in Entries : cacheLock[e] = t
  /\ gcStep' = 0
  /\ garbage' = {id \in Ids : Live(id)} \ Reachable
  /\ Goto(t, "lock")
  /\ UNCHANGED <<nodeVars, edgeVars, tableLock, cacheVars, reqVars, gcOwner, gcTodo, victim,
                 tableVars>>

\* Mutant: from the terminals upwards.
LevelAtUpwards(k) == NumLevels - k

\* The k-th table to be swept: the levels in order, then the terminals.
LevelAt(k) == k

GcLockLevel(t) ==
  /\ pc[t] = "lock"
  /\ tableLock[LevelAt(gcStep)] = NoThread
  /\ tableLock' = [tableLock EXCEPT ![LevelAt(gcStep)] = t]
  /\ gcTodo' = {id \in Ids : level[id] = LevelAt(gcStep)}
  /\ Goto(t, "sweep")
  /\ UNCHANGED <<nodeVars, edgeVars, cacheVars, reqVars, gcOwner, gcStep, victim, garbage,
                 tableVars>>

\* retain: the node is referenced from outside the table and stays, ...
GcKeep(t, id) ==
  /\ pc[t] = "sweep"
  /\ id \in gcTodo /\ rc[id] # 1
  /\ gcTodo' = gcTodo \ {id}
  /\ UNCHANGED <<nodeVars, edgeVars, tableLock, cacheVars, pc, reqVars,
                 gcOwner, gcStep, victim, garbage, tableVars>>

\* ... or its reference count has been read as 1
GcCondemn(t, id) ==
  /\ pc[t] = "sweep"
  /\ id \in gcTodo /\ rc[id] = 1
  /\ gcTodo' = gcTodo \ {id}
  /\ victim' = id
  /\ Goto(t, "free")
  /\ UNCHANGED <<nodeVars, edgeVars, tableLock, cacheVars, reqVars, gcOwner, gcStep, garbage,
                 tableVars>>

\* Mutant: the child edges are forgotten instead of dropped.
GcFreeLeaksChildren(t) ==
  /\ pc[t] = "free"
  /\ rc' = [rc EXCEPT ![victim] = 0]
  /\ level' = [level EXCEPT ![victim] = Free]
  /\ lo' = [lo EXCEPT ![victim] = Null]
  /\ hi' = [hi EXCEPT ![victim] = Null]
  /\ victim' = Null
  /\ garbage' = garbage \ {victim}
  /\ Goto(t, "sweep")
  /\ holes' = holes \cup {level[victim]}
  /\ cut' = cut \ {victim}
  /\ UNCHANGED <<edgeVars, tableLock, cacheVars, reqVars, gcOwner, gcStep, gcTodo>>

\* and free_slot drops it and its child edges; its entry leaves the table.
GcFree(t) ==
  /\ pc[t] = "free"
  /\ rc' = [id \in Ids |->
       IF id = victim THEN 0
       ELSE rc[id] - (IF IsInner(victim) /\ id = lo[victim] THEN 1 ELSE 0)
                   - (IF IsInner(victim) /\ id = hi[victim] THEN 1 ELSE 0)]
  /\ level' = [level EXCEPT ![victim] = Free]
  /\ lo' = [lo EXCEPT ![victim] = Null]
  /\ hi' = [hi EXCEPT ![victim] = Null]
  /\ victim' = Null
  /\ garbage' = garbage \ {victim}
  /\ Goto(t, "sweep")
  /\ holes' = holes \cup {level[victim]}
  /\ cut' = cut \ {victim}
  /\ UNCHANGED <<edgeVars, tableLock, cacheVars, reqVars, gcOwner, gcStep, gcTodo>>

\* The end of retain.  It has freed slots of this sweep and of earlier ones,
\* wherever they are in the probe chains of the nodes that stay; a table that is
\* empty now has been rehashed and has no holes.
GcUnlockLevel(t) ==
  LET l == LevelAt(gcStep)
      kept == {id \in Ids : level[id] = l}
  IN
  /\ pc[t] = "sweep"
  /\ gcTodo = {}
  /\ tableLock' = [tableLock EXCEPT ![l] = NoThread]
  /\ gcStep' = gcStep + 1
  /\ Goto(t, IF gcStep = NumLevels THEN "post" ELSE "lock")
  /\ holes' = IF kept = {} THEN holes \ {l} ELSE holes
  /\ cut' = IF l \in holes THEN cut \cup kept ELSE cut
  /\ UNCHANGED <<nodeVars, edgeVars, cacheVars, reqVars, gcOwner, gcTodo, victim, garbage>>

\* post_gc unlocks the entries one after the other.
GcPost(t, e) ==
  /\ pc[t] = "post"
  /\ cacheLock[e] = t
  /\ \A d \in 1 .. e - 1 : cacheLock[d] # t
  /\ cacheLock' = [cacheLock EXCEPT ![e] = NoThread]
  /\ UNCHANGED <<nodeVars, edgeVars, tableLock, cacheKey, cacheValue, pc, reqVars, gcVars>>

GcEnd(t) ==
  /\ pc[t] = "post"
  /\ \A e \in Entries : cacheLock[e] # t
  /\ gcOwner' = NoThread
  /\ Goto(t, "idle")
  /\ gcStep' = 0 /\ garbage' = {}
  /\ UNCHANGED <<nodeVars, edgeVars, tableLock, cacheVars, reqVars, gcTodo, victim,
                 tableVars>>

-----------------------------------------------------------------------------
Edges(t) ==
  \/ \E u \in Threads, id \in Ids, k \in Handles : CloneEdge(t, u, id, k)
  \/ \E h \in Handles : DropEdge(t, h)

Tables(t) ==
  \/ \E l \in 0 .. NumLevels - 1, a, b \in Handles : GetOrInsert(t, l, a, b)
  \/ \E v \in Values, h \in Handles : GetTerminal(t, v, h)
  \/ DropNode(t)
  \/ CloneFound(t)
  \/ \E id \in Ids : InsertNode(t, id)
  \/ InsertOutOfMemory(t)

Cache(t) ==
  \/ \E x \in InnerIds, v \in Ids : CacheAdd(t, x, v)
  \/ \E x \in InnerIds, h \in Handles : CacheHit(t, x, h)
  \/ CacheClone(t)

Collect(t) ==
  \/ GcStart(t)
  \/ \E e \in Entries : GcPre(t, e) \/ GcPost(t, e)
  \/ GcBeginSweep(t)
  \/ GcLockLevel(t)
  \/ \E id \in Ids : GcKeep(t, id) \/ GcCondemn(t, id)
  \/ GcFree(t)
  \/ GcUnlockLevel(t)
  \/ GcEnd(t)

Next ==
  \/ \E t \in Threads : Edges(t) \/ Tables(t) \/ Cache(t) \/ Collect(t)
  \/ \E e \in Entries : CacheClear(e)

Spec == Init /\ [][Next]_vars

-----------------------------------------------------------------------------
(* Properties *)

TypeOK ==
  /\ level \in [Ids -> Levels \cup {Free}]
  /\ lo \in [Ids -> Ids \cup Values \cup {Null}]
  /\ hi \in [Ids -> Ids \cup Values \cup {Null}]
  /\ rc \in [Ids -> Nat]
  /\ owner \in [Handles -> Threads \cup {NoThread}]
  /\ target \in [Handles -> Ids \cup {Null}]
  /\ tableLock \in [Levels -> Threads \cup {NoThread}]
  /\ cacheLock \in [Entries -> Threads \cup {NoThread}]
  /\ cacheKey \in [Entries -> InnerIds \cup {Null}]
  /\ cacheValue \in [Entries -> Ids \cup {Null}]
  /\ pc \in [Threads -> {"idle", "drop", "clone", "insert", "hit", "pre",
                         "lock", "sweep", "free", "post"}]
  /\ reqLevel \in [Threads -> Levels]
  /\ reqLo \in [Threads -> Handles \cup {Null}]
  /\ reqHi \in [Threads -> Handles \cup {Null}]
  /\ keyLo \in [Threads -> Ids \cup Values \cup {Null}]
  /\ keyHi \in [Threads -> Ids \cup Values \cup {Null}]
  /\ found \in [Threads -> Ids \cup {Null}]
  /\ gcOwner \in Threads \cup {NoThread}
  /\ gcStep \in 0 .. NumLevels + 1
  /\ gcTodo \in SUBSET Ids
  /\ victim \in Ids \cup {Null}
  /\ garbage \in SUBSET Ids
  /\ holes \in SUBSET Levels
  /\ cut \in SUBSET Ids

\* The counted references to a node: the edge in its table, the owned edges
\* and the child edges of other nodes.
Refs(id) ==
  {<<"table", id>>}
    \cup {<<"handle", h>> : h \in {k \in Handles : target[k] = id}}
    \cup {<<"lo", p>> : p \in {q \in Ids : IsInner(q) /\ lo[q] = id}}
    \cup {<<"hi", p>> : p \in {q \in Ids : IsInner(q) /\ hi[q] = id}}

\* Reference counts are exact in every interleaving, so a node is never freed
\* too early and never leaked (the debug assertion of drop_edge, "there are no
\* "weak" edges" of LevelViewSet::gc).
RcExact == \A id \in Ids : Live(id) => rc[id] = Cardinality(Refs(id))

\* No edge dangles: owned edges, child edges and the uncounted edges of the
\* apply cache refer to nodes that are in their table, children at lower levels
\* than their parents.  So a cache hit never yields a freed or reused node.
NoDangling ==
  /\ \A h \in Handles : target[h] # Null => Live(target[h])
  /\ \A id \in Ids : IsInner(id) =>
       \A c \in Children(id) : c \in Ids /\ level[c] > level[id]
  /\ \A e \in Entries : cacheKey[e] # Null =>
       cacheValue[e] # Null /\ Live(cacheKey[e]) /\ Live(cacheValue[e])

\* What is left of uniqueness: of the nodes with one level and the same children
\* (or terminals with one value), at most one has not been through a sweep that
\* may have hidden it.  So threads that look keys up and insert them concurrently
\* with each other and with the gc never create duplicates by themselves; only
\* retain does, by hiding a node from get_or_insert, and in a table that no sweep
\* has removed anything from every node is unique.
Canonical ==
  \A x, y \in Ids :
    /\ Live(x) /\ level[x] = level[y] /\ lo[x] = lo[y] /\ hi[x] = hi[y]
    /\ x \notin cut /\ y \notin cut
    => x = y

\* One gc collects everything that was unreachable when its sweep began, chains
\* of nodes included, unless get_or_insert revived it meanwhile.
GcComplete == \A t \in Threads : pc[t] = "post" => garbage = {}

=============================================================================
