------------------------------ MODULE NodeStore ------------------------------
(***************************************************************************)
(* The node store of the index-based manager                               *)
(* (crates/oxidd-manager-index/src/manager.rs): an array of slots shared   *)
(* by all threads, from which inner nodes are allocated.  A thread takes   *)
(* slots from its own LocalStoreState (a free list and the rest of a       *)
(* pre-allocated chunk) without synchronisation and falls back to the      *)
(* mutex-protected SharedStoreState.  A thread serves one store at a time  *)
(* from its local state; its operations on any other store go through the  *)
(* shared state ("foreign" below).                                         *)
(*                                                                         *)
(* A linked free list is represented by the set of the slots on it; the    *)
(* list head 0 ("no such slot") is the empty set.  The shared vector       *)
(* next_free of list heads is a sequence of such sets.  Slot indices carry *)
(* no TERMINALS offset.                                                    *)
(***************************************************************************)
EXTENDS Integers, Sequences, FiniteSets, SequencesExt

CONSTANTS
  App,           \* application threads
  Pool,          \* threads dedicated to one store: rayon workers, gc threads
  Stores,        \* addresses of Store objects
  NoStore,       \* the address 0 of a detached LocalStoreState
  Home,          \* [Pool -> Stores]: the store a dedicated thread belongs to
  GcThread,      \* [Stores -> Pool]: the "oxidd mi gc" thread of a store
  CHUNK_SIZE,    \* slots per pre-allocation
  Capacity,      \* [Stores -> Nat]: slots per store (inner_node_capacity)
  GcLwm, GcHwm,  \* gc_lwm and gc_hwm, the water marks of automatic gc
  MaxNesting,    \* bound on nested with_manager_* calls of a thread
  MaxNodeCount   \* bound on the shared node counter

ASSUME StoreAssumption ==
  /\ NoStore \notin Stores
  /\ App \cap Pool = {} /\ IsFiniteSet(App \cup Pool)
  /\ Home \in [Pool -> Stores]
  /\ GcThread \in [Stores -> Pool]
  /\ \A s \in Stores : Home[GcThread[s]] = s
  /\ CHUNK_SIZE \in Nat \ {0}
  /\ Capacity \in [Stores -> Nat]
  /\ GcLwm \in Int /\ GcHwm \in Int
  /\ MaxNesting \in Nat /\ MaxNodeCount \in Int

Threads == App \cup Pool
Workers == Pool \ {GcThread[s] : s \in Stores}
Slots(s) == 0 .. Capacity[s] - 1

VARIABLES
  node,          \* [Stores -> SUBSET Nat]: the slots that hold a node
  \* SharedStoreState, per store
  sharedFree,    \* next_free, a sequence of free lists
  allocated,     \* slots ever handed out
  nodeCount,     \* node_count
  gcState,       \* gc_state
  \* LocalStoreState, per thread
  localFree,     \* next_free, one free list
  initialized,   \* next slot of the pre-allocated chunk
  currentStore,  \* the store the local state belongs to, or NoStore
  delta,         \* node_count_delta
  frames,        \* [App -> Seq]: the with_manager_* calls a thread is inside
  gcPc,          \* [Stores -> {"enter", "wait", "collect"}]: the gc thread's loop
  faulted        \* threads that called use_free_slot with the ID 0

sharedVars  == <<sharedFree, allocated, nodeCount, gcState>>
localVars   == <<localFree, initialized, currentStore, delta>>
controlVars == <<frames, gcPc, faulted>>
vars == <<node, sharedVars, localVars, controlVars>>

(***************************************************************************)
(* All slots up to the next multiple of CHUNK_SIZE belong to the thread    *)
(* whose `initialized` is i; none if i is itself a multiple.               *)
(***************************************************************************)
ChunkEnd(i)  == (i \div CHUNK_SIZE + 1) * CHUNK_SIZE
ChunkRest(i) == IF i % CHUNK_SIZE = 0 THEN {} ELSE i .. ChunkEnd(i) - 1

Frame == [store : Stores, guard : BOOLEAN]

Init ==
  /\ node = [s \in Stores |-> {}]
  /\ sharedFree = [s \in Stores |-> <<>>]
  /\ allocated = [s \in Stores |-> 0]
  /\ nodeCount = [s \in Stores |-> 0]
  /\ gcState = [s \in Stores |-> IF GcLwm < GcHwm THEN "Init" ELSE "Disabled"]
  /\ localFree = [t \in Threads |-> {}]
  /\ initialized = [t \in Threads |-> 0]
  \* Dedicated threads attach to their store before their first job.
  /\ currentStore = [t \in Threads |-> IF t \in Pool THEN Home[t] ELSE NoStore]
  /\ delta = [t \in Threads |-> 0]
  /\ frames = [t \in App |-> <<>>]
  /\ gcPc = [s \in Stores |-> "enter"]
  /\ faulted = {}

-----------------------------------------------------------------------------
(* Who may operate on a store *)

Inside(t, s) == \E k \in DOMAIN frames[t] : frames[t][k].store = s

\* Jobs reach the pool from a closure running inside the manager.
MayAdd(t, s) ==
  /\ t \notin faulted
  /\ \/ t \in App /\ Inside(t, s)
     \/ t \in Workers /\ Home[t] = s /\ \E a \in App : Inside(a, s)

MayFree(t, s) ==
  MayAdd(t, s) \/ (t = GcThread[s] /\ gcPc[s] = "collect")

Attached(t, s) == currentStore[t] = s

-----------------------------------------------------------------------------
(* ManagerRef::with_manager_shared / with_manager_exclusive *)

\* prepare_local_state: a guard only if the local state is detached.
prepare_local_state(t, s) ==
  IF currentStore[t] = NoStore
  THEN /\ localFree' = [localFree EXCEPT ![t] = {}]
       /\ initialized' = [initialized EXCEPT ![t] = 0]
       /\ currentStore' = [currentStore EXCEPT ![t] = s]
       /\ UNCHANGED delta
  ELSE UNCHANGED localVars

EnterManager(t, s) ==
  /\ t \notin faulted
  /\ Len(frames[t]) < MaxNesting
  /\ prepare_local_state(t, s)
  /\ frames' = [frames EXCEPT ![t] =
       Append(@, [store |-> s, guard |-> currentStore[t] = NoStore])]
  /\ UNCHANGED <<node, sharedVars, gcPc, faulted>>

\* The local state holds something that has to go back to the store.
Dirty(t) ==
  \/ localFree[t] # {}
  \/ initialized[t] % CHUNK_SIZE # 0
  \/ delta[t] # 0

PushUnlessEmpty(lists, free) == IF free = {} THEN lists ELSE Append(lists, free)

\* drop_slow: the free list, the rest of the chunk and the delta go back.
ReturnSlots(t, s, free) ==
  /\ sharedFree' = [sharedFree EXCEPT ![s] = PushUnlessEmpty(@, free)]
  /\ nodeCount' = [nodeCount EXCEPT ![s] = @ + delta[t]]
  /\ UNCHANGED <<allocated, gcState, localFree, initialized>>

\* Mutant: the thread stays attached to what it has returned.
DropGuardStaysAttached(t, s) ==
  IF Attached(t, s) /\ Dirty(t)
  THEN /\ ReturnSlots(t, s, localFree[t] \cup ChunkRest(initialized[t]))
       /\ delta' = [delta EXCEPT ![t] = 0]
       /\ UNCHANGED currentStore
  ELSE UNCHANGED <<sharedVars, localVars>>

\* Mutant: the rest of the pre-allocated chunk is not returned.
DropGuardForgetsChunk(t, s) ==
  IF Attached(t, s) /\ Dirty(t)
  THEN /\ ReturnSlots(t, s, localFree[t])
       /\ currentStore' = [currentStore EXCEPT ![t] = NoStore]
       /\ delta' = [delta EXCEPT ![t] = 0]
  ELSE UNCHANGED <<sharedVars, localVars>>

\* Mutant: the delta is added to the shared counter but not reset.
DropGuardKeepsDelta(t, s) ==
  IF Attached(t, s) /\ Dirty(t)
  THEN /\ ReturnSlots(t, s, localFree[t] \cup ChunkRest(initialized[t]))
       /\ currentStore' = [currentStore EXCEPT ![t] = NoStore]
       /\ UNCHANGED delta
  ELSE UNCHANGED <<sharedVars, localVars>>

\* Drop of a LocalStoreStateGuard (drop_slow when there is anything to return).
DropGuard(t, s) ==
  IF Attached(t, s) /\ Dirty(t)
  THEN /\ ReturnSlots(t, s, localFree[t] \cup ChunkRest(initialized[t]))
       /\ currentStore' = [currentStore EXCEPT ![t] = NoStore]
       /\ delta' = [delta EXCEPT ![t] = 0]
  ELSE UNCHANGED <<sharedVars, localVars>>

ExitManager(t) ==
  /\ t \notin faulted
  /\ frames[t] # <<>>
  /\ frames' = [frames EXCEPT ![t] = Front(@)]
  /\ IF Last(frames[t]).guard
     THEN DropGuard(t, Last(frames[t]).store)
     ELSE UNCHANGED <<sharedVars, localVars>>
  /\ UNCHANGED <<node, gcPc, faulted>>

-----------------------------------------------------------------------------
(* Store::add_node *)

\* Slot i now holds a node.
Occupy(s, i) == node' = [node EXCEPT ![s] = @ \cup {i}]

\* Pop a slot from the thread's own free list.
AddFromLocalList(t, s, i) ==
  /\ MayAdd(t, s) /\ Attached(t, s)
  /\ i \in localFree[t]
  /\ Occupy(s, i)
  /\ localFree' = [localFree EXCEPT ![t] = @ \ {i}]
  /\ delta' = [delta EXCEPT ![t] = @ + 1]
  /\ UNCHANGED <<sharedVars, initialized, currentStore, controlVars>>

\* Take the next slot of the thread's pre-allocated chunk.
AddFromLocalChunk(t, s) ==
  /\ MayAdd(t, s) /\ Attached(t, s)
  /\ localFree[t] = {}
  /\ initialized[t] % CHUNK_SIZE # 0
  /\ Occupy(s, initialized[t])
  /\ initialized' = [initialized EXCEPT ![t] = @ + 1]
  /\ delta' = [delta EXCEPT ![t] = @ + 1]
  /\ UNCHANGED <<sharedVars, localFree, currentStore, controlVars>>

(***************************************************************************)
(* get_slot_from_shared: every path first moves the delta and the new node *)
(* to the shared counter and may trigger the gc thread (notify_one reaches *)
(* it only if it waits).                                                   *)
(***************************************************************************)
NeedsShared(t, s) ==
  /\ MayAdd(t, s)
  /\ Attached(t, s) => localFree[t] = {} /\ initialized[t] % CHUNK_SIZE = 0

\* Mutant: the node being added is not counted.
CountDeltaWithoutNode(t, s) == IF Attached(t, s) THEN delta[t] ELSE 1

CountDelta(t, s) == IF Attached(t, s) THEN delta[t] + 1 ELSE 1

Triggers(t, s) ==
  /\ gcState[s] = "Init"
  /\ nodeCount[s] + CountDelta(t, s) >= GcHwm

CountNode(t, s) ==
  /\ nodeCount[s] + CountDelta(t, s) <= MaxNodeCount
  /\ nodeCount' = [nodeCount EXCEPT ![s] = @ + CountDelta(t, s)]
  /\ delta' = IF Attached(t, s) THEN [delta EXCEPT ![t] = 0] ELSE delta
  /\ gcState' = [gcState EXCEPT ![s] = IF Triggers(t, s) THEN "Triggered" ELSE @]
  /\ gcPc' = [gcPc EXCEPT ![s] =
       IF Triggers(t, s) /\ @ = "wait" THEN "collect" ELSE @]
  /\ UNCHANGED <<frames, currentStore>>

HasList(s) == sharedFree[s] # <<>>

\* The thread serves this store: it takes the whole list over.
AddOwnFromSharedList(t, s, i) ==
  /\ NeedsShared(t, s) /\ Attached(t, s) /\ HasList(s)
  /\ i \in Last(sharedFree[s])
  /\ CountNode(t, s)
  /\ sharedFree' = [sharedFree EXCEPT ![s] = Front(@)]
  /\ localFree' = [localFree EXCEPT ![t] = Last(sharedFree[s]) \ {i}]
  /\ Occupy(s, i)
  /\ UNCHANGED <<allocated, initialized, faulted>>

\* ... or pre-allocates the rest of a chunk,
AddOwnFromNewChunk(t, s) ==
  /\ NeedsShared(t, s) /\ Attached(t, s) /\ ~HasList(s)
  /\ allocated[s] + CHUNK_SIZE < Capacity[s]
  /\ CountNode(t, s)
  /\ allocated' = [allocated EXCEPT ![s] = ChunkEnd(@)]
  /\ initialized' = [initialized EXCEPT ![t] = allocated[s] + 1]
  /\ Occupy(s, allocated[s])
  /\ UNCHANGED <<sharedFree, localFree, faulted>>

\* Mutant: no bounds check.
AddOwnSingleSlotUnchecked(t, s) ==
  /\ NeedsShared(t, s) /\ Attached(t, s) /\ ~HasList(s)
  /\ allocated[s] + CHUNK_SIZE >= Capacity[s]
  /\ CountNode(t, s)
  /\ allocated' = [allocated EXCEPT ![s] = @ + 1]
  /\ Occupy(s, allocated[s])
  /\ UNCHANGED <<sharedFree, localFree, initialized, faulted>>

\* ... or, near the end of the array, a single slot.
AddOwnSingleSlot(t, s) ==
  /\ NeedsShared(t, s) /\ Attached(t, s) /\ ~HasList(s)
  /\ allocated[s] + CHUNK_SIZE >= Capacity[s]
  /\ allocated[s] < Capacity[s]
  /\ CountNode(t, s)
  /\ allocated' = [allocated EXCEPT ![s] = @ + 1]
  /\ Occupy(s, allocated[s])
  /\ UNCHANGED <<sharedFree, localFree, initialized, faulted>>

\* A foreign thread takes one slot and puts the rest of the list back.
AddForeignFromSharedList(t, s, i) ==
  /\ NeedsShared(t, s) /\ ~Attached(t, s) /\ HasList(s)
  /\ i \in Last(sharedFree[s])
  /\ CountNode(t, s)
  /\ sharedFree' = [sharedFree EXCEPT ![s] = Append(Front(@), Last(@) \ {i})]
  /\ Occupy(s, i)
  /\ UNCHANGED <<allocated, localFree, initialized, faulted>>

AddForeignSingleSlot(t, s) ==
  /\ NeedsShared(t, s) /\ ~Attached(t, s) /\ ~HasList(s)
  /\ allocated[s] < Capacity[s]
  /\ CountNode(t, s)
  /\ allocated' = [allocated EXCEPT ![s] = @ + 1]
  /\ Occupy(s, allocated[s])
  /\ UNCHANGED <<sharedFree, localFree, initialized, faulted>>

\* Err(OutOfMemory); the shared counter keeps the increment.
AddOutOfMemory(t, s) ==
  /\ NeedsShared(t, s) /\ ~HasList(s)
  /\ allocated[s] >= Capacity[s]
  /\ CountNode(t, s)
  /\ UNCHANGED <<node, sharedFree, allocated, localFree, initialized, faulted>>

\* The popped head is 0: use_free_slot fails its assertion (or, without
\* assertions, leaves the array).  The thread is not followed any further.
AddFromNullList(t, s) ==
  /\ NeedsShared(t, s) /\ HasList(s)
  /\ Last(sharedFree[s]) = {}
  /\ CountNode(t, s)
  /\ sharedFree' = [sharedFree EXCEPT ![s] = Front(@)]
  /\ faulted' = faulted \cup {t}
  /\ UNCHANGED <<node, allocated, localFree, initialized>>

-----------------------------------------------------------------------------
(* Store::free_slot *)

FreeOwn(t, s, i) ==
  /\ MayFree(t, s) /\ Attached(t, s)
  /\ i \in node[s]
  /\ node' = [node EXCEPT ![s] = @ \ {i}]
  /\ IF delta[t] - 1 > -CHUNK_SIZE
     THEN /\ localFree' = [localFree EXCEPT ![t] = @ \cup {i}]
          /\ delta' = [delta EXCEPT ![t] = @ - 1]
          /\ UNCHANGED sharedVars
     ELSE /\ localFree' = [localFree EXCEPT ![t] = {}]
          /\ delta' = [delta EXCEPT ![t] = 0]
          /\ sharedFree' = [sharedFree EXCEPT ![s] = Append(@, localFree[t] \cup {i})]
          /\ nodeCount' = [nodeCount EXCEPT ![s] = @ + delta[t]]
          /\ UNCHANGED <<allocated, gcState>>
  /\ UNCHANGED <<initialized, currentStore, controlVars>>

\* return_slot: put the slot in front of the last shared list.
FreeForeign(t, s, i) ==
  /\ MayFree(t, s) /\ ~Attached(t, s)
  /\ i \in node[s]
  /\ node' = [node EXCEPT ![s] = @ \ {i}]
  /\ sharedFree' = [sharedFree EXCEPT ![s] =
       IF @ = <<>> THEN <<{i}>> ELSE Append(Front(@), Last(@) \cup {i})]
  /\ nodeCount' = [nodeCount EXCEPT ![s] = @ - 1]
  /\ UNCHANGED <<allocated, gcState, localVars, controlVars>>

-----------------------------------------------------------------------------
(* The loop of the gc thread (new_manager) *)

\* Condvar::wait parks the thread until CountNode notifies it.
GcWait(s) ==
  /\ gcPc[s] = "enter"
  /\ gcPc' = [gcPc EXCEPT ![s] = "wait"]
  /\ UNCHANGED <<node, sharedVars, localVars, frames, faulted>>

\* After Manager::gc: return the local list, possibly re-arm the trigger.
GcSync(s) ==
  LET g == GcThread[s] IN
  /\ gcPc[s] = "collect"
  /\ gcPc' = [gcPc EXCEPT ![s] = "enter"]
  /\ IF localFree[g] = {}
     THEN UNCHANGED <<sharedFree, nodeCount, localFree, delta>>
     ELSE /\ sharedFree' = [sharedFree EXCEPT ![s] = Append(@, localFree[g])]
          /\ nodeCount' = [nodeCount EXCEPT ![s] = @ + delta[g]]
          /\ localFree' = [localFree EXCEPT ![g] = {}]
          /\ delta' = [delta EXCEPT ![g] = 0]
  /\ gcState' = [gcState EXCEPT ![s] =
       IF nodeCount'[s] < GcLwm /\ @ # "Disabled" THEN "Init" ELSE @]
  /\ UNCHANGED <<node, allocated, initialized, currentStore, frames, faulted>>

-----------------------------------------------------------------------------
Add(t, s) ==
  \/ \E i \in Slots(s) : \/ AddFromLocalList(t, s, i)
                      \/ AddOwnFromSharedList(t, s, i)
                      \/ AddForeignFromSharedList(t, s, i)
  \/ AddFromLocalChunk(t, s)
  \/ AddOwnFromNewChunk(t, s)
  \/ AddOwnSingleSlot(t, s)
  \/ AddForeignSingleSlot(t, s)
  \/ AddOutOfMemory(t, s)
  \/ AddFromNullList(t, s)

Free(t, s) == \E i \in Slots(s) : FreeOwn(t, s, i) \/ FreeForeign(t, s, i)

Next ==
  \/ \E t \in App : (\E s \in Stores : EnterManager(t, s)) \/ ExitManager(t)
  \/ \E t \in Threads, s \in Stores : Add(t, s) \/ Free(t, s)
  \/ \E s \in Stores : GcWait(s) \/ GcSync(s)

Spec == Init /\ [][Next]_vars

-----------------------------------------------------------------------------
(* Properties *)

TypeOK ==
  /\ node \in [Stores -> SUBSET Nat]
  /\ sharedFree \in [Stores -> Seq(SUBSET Nat)]
  /\ allocated \in [Stores -> Nat]
  /\ nodeCount \in [Stores -> Int]
  /\ gcState \in [Stores -> {"Disabled", "Init", "Triggered"}]
  /\ localFree \in [Threads -> SUBSET Nat]
  /\ initialized \in [Threads -> Nat]
  /\ currentStore \in [Threads -> Stores \cup {NoStore}]
  /\ delta \in [Threads -> Int]
  /\ frames \in [App -> Seq(Frame)]
  /\ gcPc \in [Stores -> {"enter", "wait", "collect"}]
  /\ faulted \in SUBSET Threads
  /\ \A s \in Stores : node[s] \subseteq Slots(s) /\ allocated[s] <= Capacity[s]

\* The slots of s that thread t may hand out without synchronisation.
Owned(t, s) ==
  IF Attached(t, s) THEN localFree[t] \cup ChunkRest(initialized[t]) ELSE {}

\* The slots of s that are on some list of the shared state.
Listed(s) == UNION {sharedFree[s][k] : k \in DOMAIN sharedFree[s]}

\* Every slot is in one place (add_node's SAFETY comments: "we have exclusive
\* access"): the lists, the local states of any two threads and the nodes are
\* pairwise disjoint, so no slot is handed out twice and no node overwritten.
HandedOutOnce ==
  \A s \in Stores :
    /\ Listed(s) \cap node[s] = {}
    /\ \A j, k \in DOMAIN sharedFree[s] :
         j # k => sharedFree[s][j] \cap sharedFree[s][k] = {}
    /\ \A t \in Threads :
         /\ Owned(t, s) \cap (node[s] \cup Listed(s)) = {}
         /\ \A u \in Threads \ {t} : Owned(t, s) \cap Owned(u, s) = {}

\* No slot is lost: what was ever allocated is a node, on a shared list or at
\* the disposal of a thread that still serves the store, through chunk hand-out,
\* guard drop, list transfer and gc (SharedStoreState::allocated).
NoSlotLost ==
  \A s \in Stores :
    0 .. allocated[s] - 1
      = node[s] \cup Listed(s) \cup UNION {Owned(t, s) : t \in Threads}

\* The debug assertion of prepare_local_state: a local state that serves no
\* store has no uncommitted change of the node counter.
DetachedIsSynced ==
  \A t \in Threads : currentStore[t] = NoStore => delta[t] = 0

\* The nodes counted for s: the shared counter and the uncommitted deltas.
CountedNodes(s) ==
  nodeCount[s] + SumFunctionOnSet(delta, {t \in Threads : Attached(t, s)})

\* The node counter never runs behind the nodes in the store, so the automatic
\* gc of get_slot_from_shared is never triggered too late.
CountNotBehind == \A s \in Stores : CountedNodes(s) >= Cardinality(node[s])

=============================================================================
