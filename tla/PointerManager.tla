--------------------------- MODULE PointerManager ---------------------------
(* The pointer-based manager, crates/oxidd-manager-pointer/src/manager.rs,   *)
(* with its node store, the slab of crates/arcslab. The manager lives inside *)
(* the slab it uses: every Function and every ManagerRef of a client holds a *)
(* reference to the slab, edges in nodes and in the unique tables do not.    *)
(*                                                                           *)
(* A thread enters the manager through a handle (with_manager_shared and     *)
(* with_manager_exclusive, a read/write lock) and works there on edges.      *)
(* Cloning and dropping functions needs no access to the manager. The apply  *)
(* cache, whose uncounted edges gc removes before it starts, is the subject  *)
(* of ManagerGC. Edges are the slots 1, 2, ... and the terminals.            *)
EXTENDS ArcSlab, Functions

CONSTANTS Threads, NoThread,
          MaxLevels,     \* bound on the levels
          MaxFunctions,  \* bound on the functions clients hold at a time
          MaxRefs        \* bound on the ManagerRefs

ASSUME ManagerAssumption ==
  NoThread \notin Threads /\ IsFiniteSet(Threads) /\ MaxLevels \in Nat

False == -1
True == 0
Terminals == {False, True}
Edges == Slots \cup Terminals
IsInner(e) == e > 0

VARIABLES
  level, kids,   \* contents of the nodes, per slot
  table,         \* unique_table: a sequence of sets of slots
  tableLock,     \* [index of table -> the thread that holds its mutex]
  access,        \* [thread -> "none", "shared", "exclusive"]
  gcOwner,       \* gc_ongoing
  functions,     \* [thread -> [edge -> number of functions it holds]]
  refs,          \* [thread -> number of ManagerRefs it holds]
  pc,            \* [thread -> what it is doing]
  edge,          \* [thread -> an owned edge, a slot in hand, or False]
  want,          \* [thread -> the children of the node it asks for]
  gcLevel,       \* the level that gc has come to, 0 outside gc
  todo           \* slots of this level that gc has not visited

nodeVars == <<level, kids, table>>
handleVars == <<functions, refs>>
vars == <<slabVars, nodeVars, tableLock, access, gcOwner, handleVars, pc, edge,
          want, gcLevel, todo>>

NoKids == <<False, False>>
Nothing == [e \in Edges |-> 0]

(* new_manager: one ManagerRef.                                              *)
Init ==
  /\ SlabInit
  /\ level = [s \in Slots |-> 0]
  /\ kids = [s \in Slots |-> NoKids]
  /\ table = <<>>
  /\ tableLock = <<>>
  /\ access = [t \in Threads |-> "none"]
  /\ gcOwner = NoThread
  /\ functions = [t \in Threads |-> Nothing]
  /\ \E t \in Threads : refs = [u \in Threads |-> IF u = t THEN 1 ELSE 0]
  /\ pc = [t \in Threads |-> "idle"]
  /\ edge = [t \in Threads |-> False]
  /\ want = [t \in Threads |-> NoKids]
  /\ gcLevel = 0
  /\ todo = {}

-----------------------------------------------------------------------------
HeldBy(t) == SumFunctionOnSet(functions[t], Edges)

Held == SumFunctionOnSet([t \in Threads |-> HeldBy(t)], Threads)

Handles(t) == HeldBy(t) + refs[t]

Goto(t, next) == pc' = [pc EXCEPT ![t] = next]
InHand(t, e) == edge' = [edge EXCEPT ![t] = e]

Add(f, t, e, n) == [f EXCEPT ![t][e] = @ + n]

Retained(count, e) == IF IsInner(e) THEN [count EXCEPT ![e] = @ + 1] ELSE count

Released(count, e) == IF IsInner(e) THEN [count EXCEPT ![e] = @ - 1] ELSE count

-----------------------------------------------------------------------------
(* ManagerRef: clone (for any thread) and drop.                              *)

CloneRef(t, u) ==
  /\ pc[t] = "idle" /\ refs[t] > 0
  /\ SumFunctionOnSet(refs, Threads) < MaxRefs
  /\ retain
  /\ refs' = [refs EXCEPT ![u] = @ + 1]
  /\ UNCHANGED <<items, rc, nodeVars, tableLock, access, gcOwner, functions, pc,
                 edge, want, gcLevel, todo>>

DropRef(t) ==
  /\ pc[t] = "idle" /\ access[t] = "none" /\ refs[t] > 0
  /\ release
  /\ refs' = [refs EXCEPT ![t] = @ - 1]
  /\ UNCHANGED <<items, rc, nodeVars, tableLock, access, gcOwner, functions, pc,
                 edge, want, gcLevel, todo>>

(* Function::clone: first the node, then the slab. The copy may be sent to   *)
(* another thread.                                                           *)
CloneNode(t, e) ==
  /\ pc[t] = "idle" /\ functions[t][e] > 0
  /\ Held < MaxFunctions
  /\ rc' = Retained(rc, e)
  /\ InHand(t, e)
  /\ Goto(t, "clone")
  /\ UNCHANGED <<slabRc, items, free, pages, alive, nodeVars, tableLock, access,
                 gcOwner, handleVars, want, gcLevel, todo>>

CloneSlab(t, u) ==
  /\ pc[t] = "clone"
  /\ Held < MaxFunctions
  /\ retain
  /\ functions' = Add(functions, u, edge[t], 1)
  /\ InHand(t, False)
  /\ Goto(t, "idle")
  /\ UNCHANGED <<items, rc, nodeVars, tableLock, access, gcOwner, refs, want, gcLevel, todo>>

(* Function::drop: the node's count, which is never the last, then the slab. *)
DropNode(t, e) ==
  /\ pc[t] = "idle" /\ access[t] = "none" /\ functions[t][e] > 0
  /\ rc' = Released(rc, e)
  /\ functions' = Add(functions, t, e, -1)
  /\ Goto(t, "drop")
  /\ UNCHANGED <<slabRc, items, free, pages, alive, nodeVars, tableLock, access,
                 gcOwner, refs, edge, want, gcLevel, todo>>

DropSlab(t) ==
  /\ pc[t] = "drop"
  /\ release
  /\ Goto(t, "idle")
  /\ UNCHANGED <<items, rc, nodeVars, tableLock, access, gcOwner, handleVars, edge,
                 want, gcLevel, todo>>

-----------------------------------------------------------------------------
(* The read/write lock of the manager, borrowed through a handle of t.       *)

EnterShared(t) ==
  /\ pc[t] = "idle" /\ access[t] = "none" /\ Handles(t) > 0
  /\ \A u \in Threads : access[u] # "exclusive"
  /\ access' = [access EXCEPT ![t] = "shared"]
  /\ UNCHANGED <<slabVars, nodeVars, tableLock, gcOwner, handleVars, pc, edge, want, gcLevel, todo>>

EnterExclusive(t) ==
  /\ pc[t] = "idle" /\ access[t] = "none" /\ Handles(t) > 0
  /\ \A u \in Threads : access[u] = "none"
  /\ access' = [access EXCEPT ![t] = "exclusive"]
  /\ UNCHANGED <<slabVars, nodeVars, tableLock, gcOwner, handleVars, pc, edge, want, gcLevel, todo>>

Leave(t) ==
  /\ pc[t] = "idle" /\ access[t] # "none"
  /\ access' = [access EXCEPT ![t] = "none"]
  /\ UNCHANGED <<slabVars, nodeVars, tableLock, gcOwner, handleVars, pc, edge, want, gcLevel, todo>>

(* Function::from_edge of the edge in hand.                                  *)
FromEdge(t) ==
  /\ pc[t] = "made"
  /\ retain
  /\ functions' = Add(functions, t, edge[t], 1)
  /\ InHand(t, False)
  /\ Goto(t, "idle")
  /\ UNCHANGED <<items, rc, nodeVars, tableLock, access, gcOwner, refs, want, gcLevel, todo>>

(* Function::into_edge, then drop_edge of the edge. The handle through which *)
(* t is in the manager is another one.                                       *)
IntoEdge(t, e) ==
  /\ pc[t] = "idle" /\ access[t] # "none"
  /\ functions[t][e] > 0 /\ Handles(t) > 1
  /\ release
  /\ functions' = Add(functions, t, e, -1)
  /\ InHand(t, e)
  /\ Goto(t, "owned")
  /\ UNCHANGED <<items, rc, nodeVars, tableLock, access, gcOwner, refs, want, gcLevel, todo>>

DropEdge(t) ==
  /\ pc[t] = "owned"
  /\ rc' = Released(rc, edge[t])
  /\ InHand(t, False)
  /\ Goto(t, "idle")
  /\ UNCHANGED <<slabRc, items, free, pages, alive, nodeVars, tableLock, access,
                 gcOwner, handleVars, want, gcLevel, todo>>

(* A terminal edge: its function finds the slab through the address of the   *)
(* terminal and counts for it like any other.                                *)
GetTerminal(t, e) ==
  /\ pc[t] = "idle" /\ access[t] # "none" /\ Held < MaxFunctions
  /\ InHand(t, e)
  /\ Goto(t, "made")
  /\ UNCHANGED <<slabVars, nodeVars, tableLock, access, gcOwner, handleVars, want, gcLevel, todo>>

-----------------------------------------------------------------------------
(* LevelView::get_or_insert. The mutex of the level is held from the search  *)
(* to the insertion. The children are clones of edges t can reach. retain,    *)
(* with which gc sweeps a table, may hide nodes from later searches (see      *)
(* ManagerGC): here any search may miss, no property needs unique nodes.      *)

Reachable(t) ==
  {e \in Edges : functions[t][e] > 0}
  \cup {kids[s][i] : s \in {x \in Slots : functions[t][x] > 0}, i \in 1 .. 2}
  \cup Terminals

LevelOf(e) == IF IsInner(e) THEN level[e] ELSE MaxLevels + 1

Equal(l, k) == {s \in table[l] : kids[s] = k}

Find(t, l, k) ==
  /\ pc[t] = "idle" /\ access[t] # "none" /\ Held < MaxFunctions
  /\ l \in DOMAIN table /\ tableLock[l] = NoThread
  /\ k[1] # k[2]
  /\ \A i \in 1 .. 2 : LevelOf(k[i]) > l
  /\ \/ /\ \E s \in Equal(l, k) : rc' = Retained(rc, s) /\ InHand(t, s)
        /\ Goto(t, "made")
        /\ UNCHANGED <<tableLock, want>>
     \/ /\ rc' = Retained(Retained(rc, k[1]), k[2])
        /\ tableLock' = [tableLock EXCEPT ![l] = t]
        /\ want' = [want EXCEPT ![t] = k]
        /\ Goto(t, "alloc")
        /\ UNCHANGED edge
  /\ UNCHANGED <<slabRc, items, free, pages, alive, nodeVars, access, gcOwner,
                 handleVars, gcLevel, todo>>

LockedBy(t) == CHOOSE l \in DOMAIN table : tableLock[l] = t

(* add_node -> ArcSlab::add_item: take a slot ...                            *)
Alloc(t) ==
  /\ pc[t] = "alloc"
  /\ get_slot
  /\ InHand(t, NextSlot)
  /\ Goto(t, "write")
  /\ UNCHANGED <<items, rc, nodeVars, tableLock, access, gcOwner, handleVars, want, gcLevel, todo>>

(* ... count the item, write the node with one reference for the table and   *)
(* one for the caller, insert it and unlock the level.                       *)
Write(t) ==
  /\ pc[t] = "write"
  /\ LET s == edge[t]
         l == LockedBy(t)
     IN  /\ count_item
         /\ rc' = [rc EXCEPT ![s] = 2]
         /\ level' = [level EXCEPT ![s] = l]
         /\ kids' = [kids EXCEPT ![s] = want[t]]
         /\ table' = [table EXCEPT ![l] = @ \cup {s}]
         /\ tableLock' = [tableLock EXCEPT ![l] = NoThread]
  /\ want' = [want EXCEPT ![t] = NoKids]
  /\ Goto(t, "made")
  /\ UNCHANGED <<slabRc, free, pages, alive, access, gcOwner, handleVars, edge, gcLevel, todo>>

(* add_level with a variable's node, under exclusive access.                 *)
AddLevel(t) ==
  /\ pc[t] = "idle" /\ access[t] = "exclusive" /\ Held < MaxFunctions
  /\ Len(table) < MaxLevels
  /\ get_slot
  /\ LET s == NextSlot
     IN  /\ rc' = [rc EXCEPT ![s] = 2]
         /\ level' = [level EXCEPT ![s] = Len(table) + 1]
         /\ kids' = [kids EXCEPT ![s] = <<True, False>>]
         /\ table' = Append(table, {s})
         /\ InHand(t, s)
  /\ count_item
  /\ tableLock' = Append(tableLock, NoThread)
  /\ Goto(t, "made")
  /\ UNCHANGED <<access, gcOwner, handleVars, want, gcLevel, todo>>

-----------------------------------------------------------------------------
(* Manager::gc: one collection at a time, level by level under the level's   *)
(* mutex. edge[t] is the slot that is being freed, or False.                 *)

GcBegin(t) ==
  /\ pc[t] = "idle" /\ access[t] # "none" /\ table # <<>>
  /\ IF gcOwner # NoThread
     THEN UNCHANGED <<gcOwner, gcLevel, pc>>
     ELSE gcOwner' = t /\ gcLevel' = 1 /\ Goto(t, "gc")
  /\ UNCHANGED <<slabVars, nodeVars, tableLock, access, handleVars, edge, want, todo>>

GcLockLevel(t) ==
  /\ pc[t] = "gc" /\ tableLock[gcLevel] = NoThread
  /\ tableLock' = [tableLock EXCEPT ![gcLevel] = t]
  /\ todo' = table[gcLevel]
  /\ UNCHANGED <<slabVars, nodeVars, access, gcOwner, handleVars, pc, edge, want, gcLevel>>

Locked(t) == pc[t] = "gc" /\ tableLock[gcLevel] = t

\* Mutant: a node with one reference besides that of the table is collected.
UnreferencedButOne(s) == rc[s] - 1 <= 1

(* InnerNode::ref_count, which leaves out the unique table's reference.      *)
Unreferenced(s) == rc[s] - 1 = 0

\* Mutant: the edges of a collected node are not dropped.
WithoutNodeOnly(s) == [rc EXCEPT ![s] = 0]

(* Edge::drop_from_unique_table: the node goes with its edges.               *)
WithoutNode(s) == Released(Released([rc EXCEPT ![s] = 0], kids[s][1]), kids[s][2])

(* retain's predicate reads the count. A node to which only the table refers *)
(* loses this reference, its children are dropped, the items are counted...  *)
GcVisit(t, s) ==
  /\ Locked(t) /\ edge[t] = False
  /\ s \in todo
  /\ todo' = todo \ {s}
  /\ IF ~Unreferenced(s)
     THEN UNCHANGED <<rc, items, nodeVars, edge>>
     ELSE /\ rc' = WithoutNode(s)
          /\ uncount_item
          /\ table' = [table EXCEPT ![level[s]] = @ \ {s}]
          /\ level' = [level EXCEPT ![s] = 0]
          /\ kids' = [kids EXCEPT ![s] = NoKids]
          /\ InHand(t, s)
  /\ UNCHANGED <<slabRc, free, pages, alive, tableLock, access, gcOwner, handleVars,
                 pc, want, gcLevel>>

(* ... and the slot returns to the free list.                                *)
GcFree(t) ==
  /\ Locked(t) /\ edge[t] # False
  /\ push_free(edge[t])
  /\ InHand(t, False)
  /\ UNCHANGED <<items, rc, nodeVars, tableLock, access, gcOwner, handleVars, pc, want, gcLevel, todo>>

GcEndLevel(t) ==
  /\ Locked(t) /\ edge[t] = False /\ todo = {}
  /\ tableLock' = [tableLock EXCEPT ![gcLevel] = NoThread]
  /\ IF gcLevel < Len(table)
     THEN gcLevel' = gcLevel + 1 /\ UNCHANGED <<gcOwner, pc>>
     ELSE gcLevel' = 0 /\ gcOwner' = NoThread /\ Goto(t, "idle")
  /\ UNCHANGED <<slabVars, nodeVars, access, handleVars, edge, want, todo>>

-----------------------------------------------------------------------------
Next ==
  \E t \in Threads :
    \/ \E u \in Threads : CloneRef(t, u) \/ CloneSlab(t, u)
    \/ DropRef(t)
    \/ \E e \in Edges : CloneNode(t, e) \/ DropNode(t, e) \/ IntoEdge(t, e)
    \/ DropSlab(t)
    \/ EnterShared(t) \/ EnterExclusive(t) \/ Leave(t)
    \/ FromEdge(t) \/ DropEdge(t)
    \/ GetTerminal(t, True)
    \/ \E l \in DOMAIN table, e \in Reachable(t) : Find(t, l, <<True, e>>)
    \/ Alloc(t) \/ Write(t)
    \/ AddLevel(t)
    \/ GcBegin(t) \/ GcLockLevel(t) \/ GcFree(t) \/ GcEndLevel(t)
    \/ \E s \in todo : GcVisit(t, s)

Spec == Init /\ [][Next]_vars

-----------------------------------------------------------------------------
TypeOK ==
  /\ slabRc \in Nat /\ items \in Nat /\ pages \in 0 .. MaxPages
  /\ alive \in BOOLEAN
  /\ free \in Seq(Slots)
  /\ rc \in [Slots -> Nat]
  /\ level \in [Slots -> 0 .. MaxLevels]
  /\ kids \in [Slots -> Edges \X Edges]
  /\ table \in Seq(SUBSET Slots) /\ Len(table) <= MaxLevels
  /\ tableLock \in [DOMAIN table -> Threads \cup {NoThread}]
  /\ access \in [Threads -> {"none", "shared", "exclusive"}]
  /\ gcOwner \in Threads \cup {NoThread}
  /\ functions \in [Threads -> [Edges -> Nat]]
  /\ refs \in [Threads -> Nat]
  /\ pc \in [Threads -> {"idle", "clone", "drop", "made", "owned", "alloc", "write", "gc"}]
  /\ edge \in [Threads -> Edges]
  /\ want \in [Threads -> Edges \X Edges]
  /\ gcLevel \in 0 .. Len(table) /\ todo \in SUBSET Slots

(* What t holds of the slab: its handles, and one whose drop has not come to *)
(* the slab yet.                                                             *)
HoldsOfSlab(t) == Handles(t) + (IF pc[t] = "drop" THEN 1 ELSE 0)

(* The slab is alive exactly as long as a client can still get at it: its    *)
(* count is the number of ManagerRefs and functions, those included whose    *)
(* drop has not come to the slab yet. No step inside the manager, no clone   *)
(* and no drop that is under way finds it gone.                              *)
SlabOutlivesHandles ==
  /\ slabRc = SumFunctionOnSet([t \in Threads |-> HoldsOfSlab(t)], Threads)
  /\ alive <=> slabRc > 0
  /\ \A t \in Threads : (access[t] # "none" \/ pc[t] # "idle") => alive

(* "`free_slot` always points to a valid, free `Slot`": while the slab is    *)
(* alive the free list is not empty, lists no slot twice and none that holds *)
(* an item or is in the hands of a thread.                                   *)
FreeListSound ==
  alive =>
    /\ free # <<>>
    /\ \A j, k \in DOMAIN free : free[j] = free[k] => j = k
    /\ \A k \in DOMAIN free :
         /\ rc[free[k]] = 0
         /\ \A t \in Threads : pc[t] \in {"write", "gc"} => edge[t] # free[k]

(* How often the edge s is among the edges k.                                *)
Occurs(s, k) == Cardinality({i \in DOMAIN k : k[i] = s})

(* The edges that t owns besides its functions.                              *)
OwnEdges(t) ==
  CASE pc[t] \in {"alloc", "write"} -> want[t]
    [] pc[t] \in {"clone", "made", "owned"} -> <<edge[t]>>
    [] OTHER -> <<>>

OwnedBy(t, s) == functions[t][s] + Occurs(s, OwnEdges(t))

Tables(s) == {l \in DOMAIN table : s \in table[l]}

(* While the slab is alive the count of a node is the number of edges to it, *)
(* in the unique tables, in other nodes and with the threads, and a node to  *)
(* which anything refers is in the unique table of its level.                *)
CountsExact ==
  alive => \A s \in Slots :
    /\ rc[s] = Cardinality(Tables(s))
               + SumFunctionOnSet([p \in Slots |-> Occurs(s, kids[p])], Slots)
               + SumFunctionOnSet([t \in Threads |-> OwnedBy(t, s)], Threads)
    /\ rc[s] > 0 => Tables(s) = {level[s]}

(* num_inner_nodes, the count of items, is never larger than the number of   *)
(* slots taken and is the number of nodes in the unique tables.              *)
ItemsCounted ==
  alive => /\ items <= Cardinality(Taken)
           /\ items = SumFunctionOnSet([l \in DOMAIN table |-> Cardinality(table[l])], DOMAIN table)
=============================================================================
