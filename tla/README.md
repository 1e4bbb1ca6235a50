# OxiDD in TLA+

TLA+ modules, TLC configurations and TLAPS proofs for OxiDD, a concurrent
decision diagram library written in Rust. Every definition is a translation of
code under `src/crates/`; `PROJECT.json` maps each one to its lines.

Contents: [the system](#the-system), [plan](#plan), [modules and
code](#modules-and-code), [runs](#runs), [bounds](#bounds),
[fairness](#fairness), [proofs](#proofs), [findings](#findings), [what is not
modelled](#what-is-not-modelled).

## The system

A client holds *functions*, which are reference-counted edges into a shared
decision diagram owned by a *manager*. Operations on functions (`and`, `ite`,
`exist`, ...) run recursive algorithms that create nodes through the manager.

| component | state | operations | interacts with |
|---|---|---|---|
| node store (`oxidd-manager-index`, `Store`) | slot array; `SharedStoreState` (free lists, `allocated`, `node_count`, `gc_state`); per thread `LocalStoreState` (free list, rest of a chunk, `current_store`, counter delta) | `with_manager_*`, `add_node`, `free_slot`, guard drop | every thread; triggers the gc thread |
| store lifetime (`ManagerRef`) | `Arc` strong count, `gc_signal` and its condition variable | clone, drop, gc thread loop | owns the store; ends the gc thread |
| edges, unique tables, gc (`Manager`) | nodes with level, children and reference count; one mutex-protected hash set per level; terminals | `clone_edge`, `drop_edge`, `get_or_insert`, `get_terminal`, `gc` | node store, apply cache |
| apply cache (`oxidd-cache`) | direct-mapped entries with *uncounted* edges, a try-lock each | `get`, `add`, `clear`, `pre_gc`, `post_gc` | operations fill it, gc empties it |
| BDD and BCDD rules (`oxidd-rules-bdd`) | none beyond the diagrams | reduction rules, Boolean operations, quantification, substitution, restriction, counting, cube picking | call the manager and the cache |
| ZBDD rules (`oxidd-rules-zbdd`) | per level the diagram of all sets (`ZBDDCache`) | set operations and Boolean operations on the same diagrams | call the manager and the cache |
| MTBDD, TDD rules | none beyond the diagrams | pseudo-Boolean and three-valued functions | call the manager and the cache |
| recursors | split depth | sequential or rayon `join` of two subcalls | the rules |
| model count cache (`oxidd-core`, `SatCountCache`) | map id to count, `vars`, `epoch` | `clear_if_invalid`, `sat_count` | compared with `reorder_count` |
| linear probing table (`linear-hashtbl`) | slots, `len`, `free` | find, insert, remove, retain, resize | the unique tables and terminal tables |
| reordering (`oxidd-reorder`) | level order; segment tree; two channels between dispatcher and workers | `level_down`, `set_var_order` | exclusive access to the manager and its level views |
| arc slab (`arcslab`) | pages, one free list, counts of references and items | add an item, retain, release | the pointer manager lives in one |
| pointer manager (`oxidd-manager-pointer`) | like the index manager, nodes are slots of the slab | like the index manager | an alternative to it |
| dddmp (`oxidd-dump`) | a file | `export`, `DumpHeader::load`, `import` | reads and builds diagrams |
| dot, parsers, FFI, CLI, derive | | text formats, bindings, code generation | clients of the library |

### What is hard about it

* **Concurrency.** Threads allocate from thread-local state without
  synchronisation; edges are cloned and dropped while a gc sweeps; the apply
  cache keeps edges that no count protects; unique tables are locked level by
  level; the gc runs in a thread of its own, woken by a condition variable.
* **Lifetime.** A thread-local state outlives the guard, the manager and even
  the store whose address it holds. Slot ids are reused.
* **Failure.** `add_node` fails when the store is full, in the middle of
  operations that own edges, and in one of two branches that run in parallel.
* **In-place change.** Reordering edits nodes that other nodes, functions and
  hash tables refer to, on several pairs of levels at a time.
* **Numbers.** Chunk boundaries, counter deltas published at a bound,
  saturating model counts.
* **Algorithms.** Terminal cases, operand swaps, complement tags and
  quantifier dispatch have many cases each; one wrong case yields a
  well-formed diagram of the wrong function.

Correctness then means: no slot is handed out twice or lost, and the node count
can be trusted (node store); the gc thread lives exactly as long as it is
needed (lifetime); reference counts are exact, no edge dangles, equal nodes are
one node, and one gc collects all garbage (manager and cache); results are
reduced and denote what the traits in `oxidd-core` promise (rules), also when
they were computed in parallel or went through a file; cached counts are counts
(count cache); a hash table is a set (table); reordering loses no reference and
ends with the order asked for (reordering); a slab is freed after its last user
(arc slab). `PROJECT.json` lists the individual hazards
with the lines at which they bite and the properties aimed at them.

## Plan

In order of importance. Done:

1. `NodeStore`, `NodeStoreProofs`: slot allocation. Every invariant of the run is
   proved.
2. `GcSignal`, `GcSignalProofs`: life and death of the gc thread. Its safety is
   proved.
3. `ManagerGC`, `ManagerGCProofs`: edges, unique tables, apply cache and gc with
   concurrent threads. Every invariant of the run is proved.
4. `BooleanFunctions` (abstract), `BooleanCalls` (the calls both levels share),
   `BDDCases` (terminal cases), `BDD` on top of it, `BCDD` and `ZBDD`, on numbers
   of `Saturating`, `BooleanDiagrams` (a client of one of them, refining
   `BooleanFunctions`), `SatCountCache`.
5. `PointwiseFunctions` (abstract), `ValuedCalls`, `MTBDD` on numbers of
   `Int64`, `TDD`, `ValuedDiagrams` (a client of one of them, refining
   `PointwiseFunctions`).
6. `SetTable` (abstract), `TableCalls`, `HashTable` refining `SetTable`,
   `HashTableProofs`: invariants and refinement are proved.
7. `SortOrder`, `ConcurrentSort`, `LevelSwap` and their composition `Reorder`,
   `ReorderProofs`: concurrent swaps are proved disjoint.
8. `ArcSlab` and `PointerManager` on top of it, `PointerManagerProofs`: all
   invariants are proved.
9. `Dddmp`: export and import, called by the client of `BooleanDiagrams`.
10. `ParallelApply`, `ParallelApplyProofs`: fork-join recursion against cache,
    gc and exhaustion. Every invariant of the run is proved.

What could be proved next: `CountRightWithoutGc` of `SatCountCache`, whose
recursion would have to be a function of the level, as `Path` of `ParallelApply`
is.

Abstract specifications: `BooleanFunctions`, `PointwiseFunctions`, `SetTable`.
Composition: `BooleanDiagrams` instantiates `BDD`, `BCDD`, `ZBDD` and `Dddmp`
and, through a refinement mapping, `BooleanFunctions`; `ValuedDiagrams` does the
same with `MTBDD`, `TDD` and `PointwiseFunctions`; `Reorder` composes the
target order, the threads that sort and the swap; `PointerManager` is built on
`ArcSlab`; `ParallelApply` and `BDD` take the terminal cases from `BDDCases`;
`ManagerGC` composes unique tables, terminal table, apply cache and gc in one
state machine, because each of its invariants relates two of them.

## Modules and code

**`NodeStore`** (`oxidd-manager-index/src/manager.rs`). One variable per field
of `SharedStoreState` (per store) and `LocalStoreState` (per thread). A linked
free list is the set of its slots; the list head 0 is the empty set; the vector
of list heads is a sequence of such sets. `EnterManager`/`ExitManager` are
`with_manager_shared`/`_exclusive` with `prepare_local_state` and the guard
drop (`DropGuard`, `ReturnSlots`). `add_node` is split by the source of the
slot: own list, own chunk, a shared list or a new chunk for an attached thread,
a single slot near the capacity, and the foreign paths for a thread whose local
state serves another store; failure is `AddOutOfMemory`. `FreeOwn` and
`FreeForeign` are `free_slot`. `GcWait` and `GcSync` are the loop of the gc
thread. Every action is atomic because it either touches only thread-local
state or runs under the mutex of the shared state. `faulted` and `frames` record
what the panics and the call stack of the program record.

**`GcSignal`** (same file). `CloneRef`; a drop in up to four steps (read the
strong count, set `Quit` under the mutex, notify, decrement), because other
threads act in between; `TriggerGc`; the gc thread's loop, with the wait split
into lock, park and wake. `signal` and `gcPc` are the mutex-protected value and
the position of the thread.

**`ManagerGC`** (same file, `node/fixed_arity.rs`,
`terminal_manager/dynamic.rs`, `oxidd-cache/src/direct.rs`). Nodes are
functions of ids: `level` (or `Free`), `lo`, `hi`, `rc`. *Handles* are the edges
the program holds; a handle has an owner thread and a target. `get_or_insert` is
split where other threads can see a difference: `GetOrInsert`/`GetTerminal`
take the level's mutex and look up, then `DropNode` and `CloneFound`, or
`InsertNode`, or `InsertOutOfMemory`, and `Return`. A cache entry has a lock, a
key and a value; `CacheHit` and `CacheClone` are separate because the entry is
read before its edge is retained. `gc` is `GcStart`, one `GcPre` per entry,
then per level `GcLockLevel`, `GcKeep` or `GcCondemn` and `GcFree` per node,
`GcUnlockLevel`, then one `GcPost` per entry, `GcEnd`. The counter `rc` includes
the reference of the unique table. A unique table is not an exact set: the sweep
is `RawTable::retain`, which may free a slot in the middle of a probe chain
(finding 1). `holes` has the levels whose tables a sweep has taken entries from,
`cut` the nodes kept by such a sweep; `Lookup` may miss a node of `cut`, and
`get_or_insert` then makes it a second time. (A table that a sweep leaves empty
is rehashed and has no holes.) Relaxed atomics on a single counter are read-modify-write operations
and therefore steps of their own; the store is modelled as sequentially
consistent.

**`BooleanFunctions`, `BooleanCalls`, `BDDCases`, `BDD`, `BCDD`, `ZBDD`,
`Saturating`, `Dddmp`, `BooleanDiagrams`** (`oxidd-core/src/function.rs`, `util/num.rs`,
`oxidd-rules-bdd`, `oxidd-rules-zbdd`, `oxidd-dump/src/dddmp.rs`). The abstract
specification keeps registers with Boolean functions (sets of points) and
answers every call with what the documentation of the traits `BooleanFunction`,
`BooleanFunctionQuant`, `FunctionSubst` and `BooleanVecSet` defines. `BDD`,
`BCDD` and `ZBDD` contain the translated algorithms; a diagram is a value (a
terminal or a tuple of level and children), so sharing is equality. In
`BooleanDiagrams`, a client of a manager of one `kind`, chosen initially, keeps
diagrams in its registers and makes the calls that kind offers (`Offers`).
`Implements` is the abstract `Spec` under the mapping that takes a diagram to
the set of points at which `eval` is true. Picked cubes are looked at but not
kept, because which cube a kind picks is in part its own choice: `Picks` has the
cubes that the documentation allows, which follow `choice` or `literal_set`
wherever both values of a variable are possible. BDDs and BCDDs do not keep this
promise in `pick_cube_symbolic_set` (observation E). `LiteralsIgnored` says which
literals they may ignore, and `Implements` allows such a step beside those of
`BooleanFunctions`, and no other.

`Dddmp` is the file format between `export` and `import`: numbering of the nodes
level by level, support variables and their permutation, relative and absolute
ids, groups of bits with escapes in binary files, the validation of the header,
and the level check of every node that is read. A client exports two functions
and imports one of them, into the same variables or into others
(`ReturnFromFile`); the expected result is the function itself, its variables
renamed. A damaged file (one number changed) must be refused or yield a reduced
diagram, of whatever function. Text is left out, but for the words that a
reader has to tell apart.

The same functions serve the sequential and the multi-threaded variants
(`BDDFunction`, `BDDFunctionMT`): subcalls are pure functions of diagrams, so
the schedule of their recursor cannot change results; what the schedule does to
the manager is the subject of `ManagerGC` and `ParallelApply`. The apply cache
is left out here for the same reason: it returns results of earlier equal calls
as long as its edges are valid, which is `NoDangling`. That equal nodes are equal
edges is taken for granted here and in `ParallelApply`: after a collection that
has cut nodes off it need not be so (finding 1).

**`PointwiseFunctions`, `ValuedCalls`, `MTBDD`, `Int64`, `TDD`,
`ValuedDiagrams`** (`oxidd-core/src/function.rs`, `oxidd-rules-mtbdd`,
`oxidd-rules-tdd`). The same construction for functions with more than two
values: the abstract specification applies the operator point by point, to
integers of a fixed width with two infinities and NaN, or to the three values of
a Kleene logic. It has arithmetic of its own (`Arithmetic`: an integer out of
range is the infinity of its sign, products and quotients follow the rule of
signs), against which that of the code, in `Int64`, is checked. `terminal_bin` of both crates, with its shortcuts for neutral
and absorbing operands, equal operands and swapped operands, is in `MTBDD` and
`TDD`, as is the dispatch of the three-valued `ite` on mixed terminals. `MTBDD`
has the apply cache, since `max` uses the keys of `min`: a query may hit any
entry that was made for its key, or miss. The client makes every call. Where
MTBDDs break the promise (observation N), `Deviates` says how, point by point
(`ZeroMinus`, `SignLost`, `Extremum`), and `Implements` allows these values and
no others; without any one of the three TLC finds a counterexample.

**`SetTable`, `TableCalls`, `HashTable`** (`linear-hashtbl/src/raw.rs`). The
array of slots, `len` and `free`; a slot is free, a tombstone or holds a key.
Every call of `RawTable` is a step: `find` and `find_or_find_insert_slot` with
their probe loops, insertion into the first tombstone or free slot, removal with
its look at the next slot, `reserve` and the rehash in the order of the old
slots, `clear`, `iter`, and, in `FullNext`, `retain`, `drain` and
`reset_no_drop`. A search that never meets a free slot has the result
`Undefined`. The abstract specification is a set.

**`SortOrder`, `ConcurrentSort`, `LevelSwap`, `Reorder`**
(`oxidd-reorder/src/lib.rs`). `SortOrder` has `sort_order` with its segment
tree; `ConcurrentSort` the dispatcher (`Scan`, `Report`, `EndDispatch`), the two
channels and the workers (`ReceiveTask`, `SendDone`); `LevelSwap` has
`level_down`, on the level views of the pointer manager: nodes change level and
children in place, with reference counts and unique tables whose entries keep
the children they were hashed with. A node is freed only with its table's edge;
one whose last reference goes in `drop_edge` is lost. `Reorder` is `set_var_order` and
`set_var_order_seq` on a given diagram. A swap is one step, which is justified
by `SwapsDisjoint`. A panic in a worker aborts the process.

**`ArcSlab`, `PointerManager`** (`arcslab/src/lib.rs`,
`oxidd-manager-pointer/src/manager.rs`). `ArcSlab` has the external reference
count, the item count, the free list and the pages. In `PointerManager` threads
clone and drop manager references and functions without access to the manager,
in two steps each (node, then slab), enter it shared or exclusively, look up and
create nodes, add levels and collect, level by level (`gcLevel`, `todo`).
`edge` and `want` are what a thread has in hand: an edge, a slot between the
free list and a table, the children of the node it creates.

**`ParallelApply`** (`oxidd-rules-bdd/src/recursor.rs`,
`simple/apply_rec.rs`). A running call is a task with its operands, its split
depth, the edges it holds and its position: terminal case or delegation to
another operator, cache lookup, `Recurse` into one branch after the other or,
through `join`, into both, `Reduce`, which may be out of memory, and `Add` to
the cache. A failing branch drops what the other one returned. `GcBegin` empties
and locks the cache, `GcEnd` has swept and unlocks it; lookups and additions in
between miss. The clients own the functions `Owned` of the diagram `Nodes` and
drop their results. The field `call` is a history: delegation changes operator
and operands of a task, `call` keeps what was asked for. A result is not compared
with that of another algorithm but with the meaning of the call: `Value` walks
from an edge to a terminal as `eval` does, and `Meaning` combines the values of
the operands.

**`SatCountCache`** (`oxidd-core/src/util/mod.rs`, `sat_count_edge` of
`simple/apply_rec.rs`). A client creates nodes, drops functions, collects,
reorders and counts; the cache has its map, domain size and epoch.

## Runs

Passing:

| run | properties | shows |
|---|---|---|
| `store` | `TypeOK`, `HandedOutOnce`, `NoSlotLost`, `DetachedIsSynced`, `CountNotBehind` | an application thread, a rayon worker and two gc threads on two stores, any interleaving, foreign paths included: no slot is in two places or lost, stores do not mix, a detached thread owes nothing, and the counter is never below the number of nodes |
| `signal_safe` | `TypeOK`, `QuitMeansUnused`, `ParkedThreadQuits` | `Quit` is set only when nobody can use the store; a parked gc thread that is told to quit does |
| `gc` | `TypeOK`, `RcExact`, `NoDangling`, `Canonical`, `GcComplete` | two threads on chains over two levels: table against cache against gc; nodes are equal only if a gc has cut one of them off; one gc collects a whole dead chain |
| `parallel` | `TypeOK`, `CountsExact`, `NoDangling`, `TableReduced`, `ResultRight`, `CallEnds` | two clients with forked tasks, shared cache, gc and too little memory: counts exact at every step, tables reduced and ordered, every result the function asked for, every call ends |
| `bool` | `ResultReduced`, `Implements` | BDDs, BCDDs and ZBDDs of three variables under every call, export and import included: what the traits promise, except for the literals that `pick_cube_symbolic_set` ignores |
| `valued` | `ResultReduced`, `Implements` | MTBDDs and TDDs of two variables under every operator: the operator point by point, except for the three deviations of MTBDDs |
| `count_reorder` | `CountRightWithoutGc` | counts are right across creation, sharing, reordering and changes of the domain, as long as no gc frees a node |
| `hash` | `TypeOK`, `SearchEnds`, `KeptIsFound`, `Implements` | a table with colliding keys that grows, rehashes and collects tombstones is a set |
| `pointer` | `TypeOK`, `SlabOutlivesHandles`, `FreeListSound`, `CountsExact`, `ItemsCounted` | two threads with functions and references, node creation and gc: the slab lives as long as it is referenced, counts and free list are exact |
| `reorder` | `SwapsDisjoint`, `NodesAccounted`, `OrderReached`, `CallEnds` | sequential and concurrent sorting of levels: concurrent swaps are disjoint, nodes are listed on their levels and counted exactly also through swaps that replace children, the order is reached with the fewest swaps unless a swap has put a node out of order, and the call ends |

`HandedOutOnce` says that nodes, shared lists, local lists and chunks of a store
are pairwise disjoint; `NoSlotLost` that together they are everything
`allocated`. `RcExact` and `CountsExact` equate every counter with the number of
edges that exist, in handles, in nodes, in the tables and in the locals of
running operations. `GcComplete` compares what a gc leaves with the nodes that
were unreachable when it began. `SearchEnds` asks that the counter `free` is
never larger than the number of free slots and that a quarter stays free, also
when tombstones pile up.

Violated: each of these runs states what a comment or a doc of the repository
says, and TLC refutes it. See [findings](#findings).

| run | property | counterexample |
|---|---|---|
| `hash_retain` | `KeptIsFound` | `retain` frees a slot in the middle of a probe chain |
| `reorder_swap` | `Ordered` | a swap makes a node its own child |

Every property of a passing run is paired in `PROJECT.json` with a mutant of
the code that breaks it (the definitions named `...Without...`, `...Keeps...`,
`...Unchecked`, `...Leaks` and so on, next to what they mutate).

## Bounds

* `store`: `CHUNK_SIZE` 2 and capacity 3, so that one full chunk, a partial
  chunk (single slots) and exhaustion all occur; the second store has capacity 0
  and only serves to attach threads elsewhere. One application thread, one
  worker and the gc threads of both stores, so that lists and chunks change
  hands; water marks 1 and 2; `MaxNodeCount` 2 caps the counter, which a failing
  `add_node` can otherwise raise for ever. Calls nest once. A thread that trips
  the assertion of `use_free_slot` stops, so the system may stop, and deadlock is
  not checked.
* `signal_safe`: three users and four references, so that drops overlap with a
  clone and with another drop. The system ends, so deadlock is not checked.
* `gc`: two threads, two inner ids, two terminal slots and two values, two
  levels, three handles, two cache entries, at most three nodes and terminals at
  a time (`FewNodes`). Two levels are what a chain of dead nodes needs; three
  handles let one thread hold a node while both look up the same one; terminal
  slots are reused after a gc, and with two of them a value that a gc has cut off
  is entered a second time; with two entries one can be locked by the gc while
  the other is in use. Deadlock is checked.
* `parallel`: each client needs two new nodes and there is room for two, so that
  either branch of either call may run out of memory. One client calls `ite` on
  operands that make it `imp`, which goes on with `not` in one branch; the other
  calls `equiv`, or an `ite` whose two branches return the same edge. Split depth
  0 or 1, so that calls fork at the top and are sequential below; three
  variables, so that a forked branch recurses once more. Deadlock is checked.
* `bool`: three variables suffice for operand levels above, at and below each
  other, for substitution that moves a variable past another, and for quantified
  sets with variables above, between and below the support. There is one
  register, the other operands are x0 xor x2 and x0 -> x1; the client of BDDs and
  BCDDs then builds all 256 functions, that of ZBDDs, which have no
  substitution, 128 of them. Numbers have five bits and domains of
  counting go to five variables, so that counts of BDDs saturate; BCDDs are asked
  up to four variables (observation F), ZBDDs for the variables of their manager.
  Bytes of files have groups of four bits instead of seven, so that numbers up to
  300 take up to three bytes and reach all escapes. `subset0`, `subset1` and
  `change` are left out (observation L).
* `valued`: two variables, two registers, two-bit integers (every pair of
  operands near the bounds overflows), two results kept: three calls in a row,
  so that an entry of the apply cache outlives the call that made it and is hit
  in a call on other functions. The client may keep no
  more, so it may stop, and deadlock is not checked.
* `hash`: five keys, of which two collide in every table, one with them in small
  tables, and two at the end of tables of four and eight slots, so that chains
  wrap around; at least four slots (16 in the code) and three bits of hash in a
  status. `hash_retain` uses the same keys.
* `pointer`: two threads, two pages of two slots, two levels, two functions and
  two references: a third node needs the second page, and a thread can drop the
  last function while the other drops the last reference. When everything is
  dropped the system ends, so deadlock is not checked.
* `reorder`: a diagram of five levels with two workers, where up to two disjoint
  swaps run and others are blocked by them; one of four levels with shared nodes
  and two nodes on a level; the variables of a fresh manager, where a swap
  panics; and two of three and four levels in which the level at the bottom, to
  which nodes of the level above refer, may be moved, so that the swap replaces
  children and removes nodes. Up to three levels are sorted sequentially (8 in
  the code). After an abort and after the last call nothing happens, so deadlock
  is not checked.
* `count_reorder`: three ids, two levels, domains up to three variables, two
  reorderings. Ids suffice to free one and reuse it while another is counted.

Symmetry is over threads, ids, handles and terminals where no constant tells
them apart; never in runs with temporal properties or refinements.

## Fairness

`GcSignal` asks for weak fairness of the gc thread's step and of each drop that
has begun: a destructor that has started runs to its end, while nobody is
obliged to drop. `Reorder` asks for weak fairness of the calling thread, of the
dispatcher thread and of each worker's receipt and report: they are OS threads
that no lock keeps away, and the `level_down` between the two always ends (the
fairness of a step with a swap is stated for the thread's own part of it,
`Advance` and `Finish`); nothing makes a client call again. `ParallelApply` asks
that, as long as a call runs, some task of it proceeds: the thread that called
`install` and the workers of the pool run. All other specifications carry no
fairness and are checked for safety only.

## Proofs

| module | theorems | property of a run |
|---|---|---|
| `NodeStoreProofs` | `TypeCorrect`, `SlotSafety`, `SlotsKept`, `DetachedSynced`, `CountKept` | `TypeOK`, `HandedOutOnce`, `NoSlotLost`, `DetachedIsSynced`, `CountNotBehind` |
| `GcSignalProofs` | `TypeCorrect`, `QuitOnlyUnused`, `StrongCountExact` | `TypeOK`, `QuitMeansUnused` |
| `ManagerGCProofs` | `TypeCorrect`, `CountsAreExact`, `EdgesAreLive`, `DiagramsAreCanonical`, `CollectionIsComplete` | `TypeOK`, `RcExact`, `NoDangling`, `Canonical`, `GcComplete` |
| `HashTableProofs` | `TypeCorrect`, `SearchesEnd`, `KeptKeysFound`, `IsASet` | `TypeOK`, `SearchEnds`, `KeptIsFound`, `Implements` |
| `ReorderProofs` | `SwapsAreDisjoint` | `SwapsDisjoint` |
| `PointerManagerProofs` | `TypeCorrect`, `SlabOutlives`, `FreeListIsSound`, `CountsAreExact`, `ItemsAreCounted` | `TypeOK`, `SlabOutlivesHandles`, `FreeListSound`, `CountsExact`, `ItemsCounted` |
| `ParallelApplyProofs` | `TypeCorrect`, `CountsAreExact`, `EdgesAreLive`, `TablesReduced`, `ResultsAreRight` | `TypeOK`, `CountsExact`, `NoDangling`, `TableReduced`, `ResultRight` |
| `NumberTheorems` | facts about induction, recursive functions, sums, remainders, powers of two | |

Each theorem has the form `Spec => []Inv` (`IsASet`: `Spec => Implements`) and
holds for every value of the constants that the named assumptions allow. TLC
evaluates the assumptions in the runs of the same modules.

**Assumptions.** `StoreAssumption`: application threads and dedicated threads
are distinct and finitely many, each gc thread belongs to its store, capacities
and `CHUNK_SIZE` are numbers. `SignalAssumption`: finitely many users.
`GcAssumption`: inner ids, terminal ids and values are distinct; finitely many
ids and handles; a hash function from ids to cache entries. `TableAssumption`:
hashes are numbers, the least capacity is a power of two between 4 and what a
status can address, FREE and TOMBSTONE are no keys. `WorkersAssumption`:
finitely many workers. `DiagramsAssumption`: a diagram has finitely many levels
numbered from 0, with finite tables. `SlabAssumption`, `ManagerAssumption`:
finitely many threads, numbers of slots and pages above 0. `ParallelAssumption`:
the functions that the clients own are finite reduced ordered diagrams that fit
into the store, without nodes nobody refers to, and the clients call operators
with as many operands as they have, from these functions. All of them hold of a
program that runs on a finite machine; nothing is assumed about sizes.

**`NodeStoreProofs`.** `HandedOutOnce` is not inductive: `add_node` takes slots
from a chunk that the shared state no longer mentions, so one must know that
open chunks lie below `allocated` and end there or earlier, that the chunks of
different threads differ, and that a thread's free list and its chunk do not
overlap. The inductive invariant is

    IInv == TypeOK /\ SlotInv (every store) /\ SourceInv, HomeInv (every thread)

`SlotInv` says that the nodes, the shared lists and each thread's slots are
pairwise disjoint and together everything below `allocated`; `SourceInv` keeps
the two sources of a thread apart; `HomeInv` pins workers and gc threads to
their store, without which the guard drop of the gc thread could return slots to
a store they did not come from. A lemma about an abstract partition (`Sound`)
for each kind of move of slots (from a thread to the nodes, from the nodes to a
thread, from a list to a thread, ...), then one lemma per action that names the
move it makes. `CountKept` adds the sum of the uncommitted deltas: an action
changes the delta of one thread, the shared counter or the set of nodes, and
`SumChange` says what this does to the sum. `ChunkFacts` contains the
arithmetic of chunk ends, the only place where division occurs.

**`GcSignalProofs`.** `ManagerRef::drop` decides on the strong count alone, so
the invariant says what the count means (`CountInv`): the references of the
users and, until it is released, that of the gc thread. A thread that has read 2
holds the only reference left (`DropInv`), and nobody else can clone it.

**`ManagerGCProofs`.** `RcExact` and `NoDangling` need each other and much more.
`ReqInv` says for every position inside `get_or_insert` which table is locked,
which handles are set aside, and that what was found is still in the table and
what was not found still absent; `HitInv` and `LockInv` that a cache entry is
locked while its value is being cloned; `GcInv` that during a sweep the cache is
empty and locked and that a condemned node has no reference but the table's;
`GarbageInv` that what was unreachable when a sweep began is unreachable still,
with all nodes above it, unless it was revived or freed. References are counted
as sets of handles and of parents; `CountUpdate` moves one count when one edge is
redirected. `RcInv` and `RcExact` are the same count in two forms. `Canonical`
allows a duplicate only of a node in `cut`: `ReqInv` has it that a search without
a result leaves no equal node that it could have found, until the level's lock is
given back. Nothing else uses uniqueness, so counts, liveness of edges and
completeness of a collection are proved with duplicates in the tables.

**`HashTableProofs`.** The invariant (`Sound`) says that a key is in one slot at
most, that on the way from the slot of its hash to its own no slot is free
(`Paths`), that the number of slots is zero or a power of two from 4 on, and how
the counters relate to the slots (`Counted`). Removal frees a slot only if the
next one is free: a way through the slot would come to that free slot
(`RemoveKeeps`). A rehash places keys by the bits of the hash that the status
keeps; since the capacity divides `2 ^ StatusBits` these bits lead to the same
slots (`StatusLeadsToSlot`). `RehashKeeps` is an induction over the slots of the
old array. `NextCapacity` shows that the capacity for r keys leaves a quarter
free. `retain`, which breaks `KeptIsFound`, is not among the steps of `Spec`
(`FullSpec` has it, see run `hash_retain`).

**`ReorderProofs`.** `SortInv` says that a level is blocked exactly if a swap of
it is in the task channel, with a worker or in the channel of finished swaps,
each pair once, and that the dispatcher waits for as many swaps as there are
(`JobsInv`); that levels to which its first scan has not come are not blocked
(`DispatchInv`); and that the diagram keeps its levels through `level_down`
(`LevelsInv`, from a lemma per operation of `LevelSwap`).

**`PointerManagerProofs`.** None of the four safety properties is inductive
alone: that the slab is alive while a thread works on a node needs its count
(`SlabInv`) and that such a thread has a handle (`AccessInv`); that a slot comes
back to the free list once needs that free slots, slots in hand and nodes are
apart (`SlotInv`); that the counts are exact needs the slab's life and the
mutexes of the tables (`LockInv`: a table changes between search and insertion
only through its holder, and what gc has still to visit is in the table). The
invariant is

    IInv == TypeOK /\ SlabInv /\ ThreadInv /\ (alive => SlotInv /\ NodeInv /\ ItemInv)

`NodeInv` and `SlotInv` are predicates on values (`Exact`, `Apart`), so the
lemmas about a clone, a drop, a creation and a deletion are stated once and
without steps; the lemma of an action names the one it makes. Counts are sums
over nodes and threads, and `SumChange` says what a step does to them. The
bounds on functions, references and pages are constants too, so the theorems
hold for all their values. A search of a table (`Find`) may always miss there:
none of the theorems needs unique nodes.

**`ParallelApplyProofs`.** The invariant is a predicate on the four variables,

    IInv == Good(rc, cache, gcRunning, task)
    Good(R, C, gc, T) == TableOK /\ Exact /\ CacheOK /\ TasksOK /\ Tree

and none of its parts is inductive without the others. `ResultRight` needs that
the cache entry a task finds is right for its key and that the two parts a task
joins are right for the cofactors of its operands. `CacheOK` says the former,
and that the cache is empty while gc sweeps. `Faithful` says the latter, and
that what a task works on after a delegation has the results of its `call`.
`Tree` ties the tasks together: a recursive call exists only while its caller
waits for it and is a call for the right cofactor; without it a result could be
handed to the wrong caller. `Holds` says for every position which edges a task
holds, all of them in the tables; `Exact` counts references over the set of
those edges, of the parents and of the clients' functions. `TableOK` says that
the tables are a diagram that contains the clients' one, so that operands, which
are borrowed and not counted, survive every gc.

The lemmas come in three groups. About diagrams: `Path` exists and passes
through lower and lower levels (`PathFacts`), so a node has the value of the
child that its variable selects (`ValueOfNode`); each terminal case returns an
edge, or hands on to a call, with the meaning of what was asked
(`LatticeDecides`, `ParityDecides`, `ImplicationDecides`, `IteOutcome`); calls
with one cache key mean the same (`KeySame`); and the node that joins results for
both cofactors is right for the call (`JoinedRight`, the Shannon expansion).
About counts: one lemma for each thing an action does to them (`ExactRetain`,
`ExactRelease`, `ExactMove`, `ExactNode`, `ExactSweep`). About tasks: one that
starts, changes, or returns to its caller (`TaskStarts`, `OneTaskChanges`,
`TasksReturn`). The lemma of an action names the one it needs of each group. A
gc sweeps level by level, so `SweptFacts` is an induction over levels: the counts
stay exact, only nodes that nobody refers to go, and `Nodes` stay.

**Induction.** The theorems of the library that take a predicate as a parameter
cannot be instantiated by the provers. `NumberTheorems` states induction for a
set instead (`InductionUpTo`: a set that contains 0 and with each i below n also
i + 1 contains 0 .. n), which is enough for recursive functions; a recursive
function is first shown to exist, also by induction (`RecursionUpTo`, for a
function whose value at i + 1 is given by a step function of i and its value at
i). The same is done for sums over finite sets. As the provers know nothing of
exponents, the module derives the facts about `2 ^ n` from the number of subsets of
an n-element set.

**Model-checked only.** Liveness under fairness is out of the prover's reach
(`ParkedThreadQuits` and both `CallEnds`). The modules on diagrams (`BDD`,
`BCDD`, `ZBDD`, `MTBDD`, `TDD`, `Dddmp`, `SatCountCache`, and with them
`BooleanDiagrams`, `ValuedDiagrams`) use `RECURSIVE` operators, with which the
prover loses its SMT backend, and would need induction over diagrams:
`Implements` and `ResultReduced` of those modules and `CountRightWithoutGc` rest
on TLC. (`ParallelApplyProofs` has `not`, the binary operators and `ite` of BDDs,
whose recursion is a tree of tasks there.) So do
`NodesAccounted` and `OrderReached` of `Reorder`.

## Findings

Details and quotations are in `PROJECT.json`. Shown by a run:

1. `RawTable::retain` (`linear-hashtbl/src/raw.rs`, l. 703) turns a removed entry
   into a free slot if it has seen a free slot further back, also when a kept
   entry of the same probe chain lies in between; the kept entry is no longer
   found. Every garbage collection sweeps the unique tables with `retain`
   (`oxidd-manager-index/src/manager.rs`, l. 1294, `terminal_manager/dynamic.rs`,
   l. 225, `oxidd-manager-pointer/src/manager.rs`, l. 1146). After one,
   `get_or_insert` and `get_edge` can miss a node or terminal that is there and
   insert an equal one, so diagrams need not be canonical and equal functions
   need not be equal edges. `ManagerGC` and `PointerManager` have searches that
   miss; the modules on diagrams and `ParallelApply` describe a manager whose
   searches find what is there.
2. `level_down` (`oxidd-reorder/src/lib.rs`, l. 92) compares the level of a child
   with `lower_no` after the nodes of that level were renumbered to `upper_no`,
   so children are never taken apart. The recomputed node is the node itself,
   which the search among the old nodes of the level finds: it becomes its own
   child on both sides. The function is lost, no new node is ever made, and an
   old child with no other parent is removed from its table but never freed,
   because its last reference goes in `drop_edge` (pointer manager, l. 495: a
   debug build fails the assertion in the next line).

Met while modelling and kept in the models as the code has them; the properties
and the calls of the clients are such that they promise no more. Line numbers are
those of `oxidd-manager-index/src/manager.rs` unless another file is named.

* A. `free_slot` (l. 737) publishes the delta without the free at hand, so the
  node count stays one too high. `CountNotBehind` is what remains true.
* B. `get_slot_from_shared` (l. 633) counts a node before it fails with
  `OutOfMemory`; again only the lower bound holds.
* C. `ManagerRef::drop` (l. 1789) reads the strong count before it decrements;
  two concurrent drops can both see 3, and nobody tells the gc thread to quit.
* D. The gc thread (l. 2073) parks without looking at the signal: a `Quit` set
  while it collects is not seen, and thread and store are leaked.
  `ParkedThreadQuits` speaks of a thread that is parked.
* E. `pick_cube_symbolic_set` (`simple/apply_rec.rs`, l. 1107) continues below a
  literal with the branch of the literal set that is false, so that a positive
  literal is followed only if it is the first one. With complement edges,
  `set_pop` (`oxidd-rules-bdd/src/lib.rs`, l. 34) moreover takes child 0 without
  the tag of the edge, so that a later literal is taken with either sign. The
  documentation (`function.rs`, l. 685) promises the polarity of every literal;
  `BooleanFunctions` states that promise and `LiteralsIgnored` what becomes of it.
* F. `sat_count` with complement edges (`complement_edge/apply_rec.rs`, l. 1170)
  subtracts from a saturated number: over at least as many variables as bits,
  the constant false has `T::MAX` models.
* G. `sat_count` of ZBDDs (`oxidd-rules-zbdd/src/apply_rec.rs`, l. 791) computes
  `num_levels - vars` in `u32`, which underflows over larger domains.
* H. `get_slot_from_shared` (l. 667) pushes the rest of a list back even when it
  is empty, and a later pop fails the assertion of `use_free_slot` (variable
  `faulted`). The vector of shared lists then has an empty list.
* I. The gc trigger (l. 636) notifies without the mutex, and the gc thread waits
  without a predicate, so automatic gc can be lost for good.
* J. A guard whose state is clean (l. 875) leaves `current_store` set; a store
  that later gets the same address inherits the state.
* K. `SatCountCache::clear_if_invalid` (`util/mod.rs`, l. 557) does not notice a
  gc; a count of a collected node is returned for a new one with its id.
* L. `subset` (`oxidd-rules-zbdd/src/apply_rec.rs`, l. 63) takes child 0 for
  `subset0` and child 1 for `subset1`, but child 0 is `hi`; and where the
  diagram skips the level of the variable (l. 49, 65) it returns the empty
  family for `subset0` and `change` too.
* M. `RawTable::find` asserts in debug builds that a slot is free (l. 443), which
  fails on a table without slots; release builds, and the model, search none.
  `RawTable::drain` sets `free` to the number of slots although tombstones
  behind the last entry stay, and `reset_no_drop` leaves `free` as it was
  although no slot is left. `FullSpec` has both calls; no run makes them.
* N. `terminal_bin` of MTBDDs (`oxidd-rules-mtbdd/src/lib.rs`) answers `0 - g`
  with `g` (l. 139) and uses the key of `min` for `max` (l. 203), so either may
  return a result of the other. `Int64` (`terminal/int64.rs`) turns a sum or
  difference that is too small into +inf (l. 118, 142) and zero minus the least
  integer into -inf, and ignores the sign of an integer by which it multiplies or
  divides an infinity, zero included (l. 174, 202). `Deviates` of
  `ValuedDiagrams` states all of this.
  `TVLFunction::u` (`function.rs`, l. 1526) returns the edge of true.
* O. `level_down` (`oxidd-reorder/src/lib.rs`) calls `unwrap_inner` on the
  children of nodes (l. 91) and panics at a terminal: a diagram that consists of
  variables cannot be reordered. It inserts a node by its old children (l. 147)
  and replaces them afterwards, so that the entry has a stale hash and a search
  for the node misses it. `LevelView::swap` of the index manager (l. 1507)
  swaps its two guards and not the tables they guard.
* P. `From<&Manager> for ManagerRef` of the pointer manager (l. 1668 of its
  `manager.rs`) increments the count and then reaches a `todo!()`.
* Q. dddmp (`oxidd-dump/src/dddmp.rs`): `import` checks the level of a child
  before it complements it, and the complement of a ZBDD may start at another
  level, so a file with complemented edges yields an unordered ZBDD; `checked_shl`
  (l. 866) never reports an overflow; terminals of TDDs are written in a form that
  `import` does not read; a file that ends within the last bytes panics at
  `&buf[..4]` (l. 945); what was built is leaked when reading fails.

## What is not modelled

* Adding variables to a ZBDD manager that has functions; apply cache keys and
  substitution ids; the dynamic terminal manager, the tag bits and the apply
  cache of the pointer manager (for the cache see `ManagerGC`).
* Reordering on the index manager and gc inside `reorder`; the `RwLock` around
  the index manager (entering is always possible in `NodeStore`; that of the
  pointer manager is modelled).
* Quantification and substitution in parallel: they fork as `not`, the binary
  operators and `ite` do.
* Weak memory: shared data are accessed under mutexes or through single atomic
  counters; orderings are not examined.
* `pick_cube_uniform`, `BigUint` and floating-point counts, the static terminal
  manager of the index manager (no state).
* Dot files, `visualize`, the tokens of a dddmp header, and the parsers: text
  formats. Facade, derive macros, FFI and language bindings: delegation and
  generated code. Huge page allocator: a wrapper around system calls. Command
  line tool and test utilities: clients of the library.
