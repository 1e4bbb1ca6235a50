--------------------------- MODULE SatCountCache ----------------------------
(***************************************************************************)
(* The client's cache for model counts (crates/oxidd-core/src/util/mod.rs, *)
(* SatCountCache) used by sat_count_edge of                                *)
(* crates/oxidd-rules-bdd/src/simple/apply_rec.rs, while the manager       *)
(* creates, collects and reorders nodes.                                   *)
(*                                                                         *)
(* The cache maps node ids to counts.  It outlives the nodes: a garbage    *)
(* collection frees ids and later insertions use them again.               *)
(***************************************************************************)
EXTENDS Integers, FiniteSets

CONSTANTS
  Ids,          \* slots for inner nodes
  NumLevels,
  MaxVars,      \* bound on the domain size passed to sat_count
  MaxReorders   \* bound on the number of reorderings

Terminals == {"T", "F"}
Free == <<>>
Absent == -1
NoAnswer == [root |-> "F", n |-> 0, count |-> Absent]

ASSUME CacheAssumption ==
  IsFiniteSet(Ids) /\ Ids \cap Terminals = {} /\ {NumLevels, MaxVars, MaxReorders} \subseteq Nat

VARIABLES
  node,           \* [Ids -> Free or <<level, then, else>>]
  owned,          \* the nodes the client holds a Function of
  reorderCount,   \* Manager::reorder_count
  map, cacheVars, epoch,      \* the SatCountCache
  answer,         \* the last call of sat_count
  collected       \* history: a gc freed a node the map has an entry for

vars == <<node, owned, reorderCount, map, cacheVars, epoch, answer, collected>>

LevelOf(e) == IF e \in Ids THEN node[e][1] ELSE NumLevels

Init ==
  /\ node = [i \in Ids |-> Free]
  /\ owned = {}
  /\ reorderCount = 0
  /\ map = [i \in Ids |-> Absent] /\ cacheVars = 0 /\ epoch = 0
  /\ answer = NoAnswer
  /\ collected = FALSE

Live == {i \in Ids : node[i] # Free}

\* The inner nodes reachable from e
RECURSIVE Below(_)
Below(e) == IF e \in Terminals THEN {} ELSE {e} \cup Below(node[e][2]) \cup Below(node[e][3])

\* get_or_insert of a reduced node; the client keeps its function.
NewNode(i, l, t, e) ==
  /\ t # e /\ LevelOf(t) > l /\ LevelOf(e) > l
  /\ \/ node[i] = <<l, t, e>> /\ UNCHANGED node
     \/ /\ node[i] = Free
        /\ \A j \in Ids : node[j] # <<l, t, e>>
        /\ node' = [node EXCEPT ![i] = <<l, t, e>>]
  /\ owned' = owned \cup {i}
  /\ answer' = NoAnswer
  /\ UNCHANGED <<reorderCount, map, cacheVars, epoch, collected>>

DropFunction(i) ==
  /\ i \in owned
  /\ owned' = owned \ {i}
  /\ answer' = NoAnswer
  /\ UNCHANGED <<node, reorderCount, map, cacheVars, epoch, collected>>

Garbage == Live \ UNION {Below(i) : i \in owned}
Collect == node' = [i \in Ids |-> IF i \in Garbage THEN Free ELSE node[i]]

\* Manager::gc
Gc ==
  /\ Garbage # {}
  /\ Collect
  /\ collected' = (collected \/ \E i \in Garbage : map[i] # Absent)
  /\ answer' = NoAnswer
  /\ UNCHANGED <<owned, reorderCount, map, cacheVars, epoch>>

\* Manager::reorder; nodes may be deleted, which the reorder count tells.
Reorder ==
  /\ reorderCount < MaxReorders
  /\ reorderCount' = reorderCount + 1
  /\ Collect
  /\ answer' = NoAnswer
  /\ UNCHANGED <<owned, map, cacheVars, epoch, collected>>

\* Mutant: the epoch is not compared.
IsInvalidIgnoresEpoch(n) == n # cacheVars

\* clear_if_invalid
IsInvalid(n) == epoch # reorderCount \/ n # cacheVars

\* The count of e over n variables, given what m has recorded
RECURSIVE Inner(_, _, _)
Inner(e, n, m) ==
  IF e = "T" THEN 2 ^ n
  ELSE IF e = "F" THEN 0
  ELSE IF m[e] # Absent THEN m[e]
  ELSE (Inner(node[e][2], n, m) + Inner(node[e][3], n, m)) \div 2

\* The nodes whose counts Inner computes and records
RECURSIVE Visited(_, _)
Visited(e, m) ==
  IF e \in Terminals THEN {}
  ELSE IF m[e] # Absent THEN {}
  ELSE {e} \cup Visited(node[e][2], m) \cup Visited(node[e][3], m)

sat_count(i, n) ==
  LET m == IF IsInvalid(n) THEN [j \in Ids |-> Absent] ELSE map IN
  /\ i \in owned
  /\ epoch' = reorderCount /\ cacheVars' = n
  /\ map' = [j \in Ids |-> IF j \in Visited(i, m) THEN Inner(j, n, m) ELSE m[j]]
  /\ answer' = [root |-> i, n |-> n, count |-> Inner(i, n, m)]
  /\ collected' = (collected /\ ~IsInvalid(n))
  /\ UNCHANGED <<node, owned, reorderCount>>

Next ==
  \/ \E i \in Ids, l \in 0 .. NumLevels - 1, t, e \in Live \cup Terminals :
       NewNode(i, l, t, e)
  \/ \E i \in Ids : DropFunction(i)
  \/ Gc
  \/ Reorder
  \/ \E i \in Ids, n \in NumLevels .. MaxVars : sat_count(i, n)

Spec == Init /\ [][Next]_vars

-----------------------------------------------------------------------------
(* Properties *)

\* The satisfying assignments of e, as sets of levels
RECURSIVE Satisfies(_, _)
Satisfies(p, e) ==
  IF e \in Terminals THEN e = "T"
  ELSE Satisfies(p, IF node[e][1] \in p THEN node[e][2] ELSE node[e][3])

Models(e, n) ==
  Cardinality({p \in SUBSET (0 .. NumLevels - 1) : Satisfies(p, e)}) * 2 ^ (n - NumLevels)

\* sat_count returns the number of models, whatever was counted before: doc of
\* BooleanFunction::sat_count, "The cache will automatically be invalidated in
\* case there have been reordering operations or `vars` changed since the last
\* query".
CountRight == answer # NoAnswer => answer.count = Models(answer.root, answer.n)

\* The counts are right as long as no gc frees a node that has been counted:
\* reorderings, changes of the domain and shared nodes do no harm.
CountRightWithoutGc == ~collected => CountRight

=============================================================================
