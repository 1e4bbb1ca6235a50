------------------------------- MODULE Reorder -------------------------------
(* Reordering the variables of a manager: crates/oxidd-reorder/src/lib.rs,   *)
(* `set_var_order` and `set_var_order_seq`. The client names functions in    *)
(* the order in which their top variables shall come; sort_order turns this  *)
(* into a key per level, and bubble_sort or concurrent_bubble_sort swaps     *)
(* neighbouring levels with level_down until the keys are sorted.            *)
(*                                                                           *)
(* A swap is one step. The swaps that run at the same time are on disjoint   *)
(* pairs of levels (SwapsDisjoint), a swap writes nodes and tables of its    *)
(* two levels only, counts references atomically, and of the levels of other *)
(* nodes it only asks whether they are below its own, which swaps further    *)
(* down do not change.                                                       *)
EXTENDS LevelSwap, ConcurrentSort, SortOrder

CONSTANTS
  Diagrams,         \* [dd, roots]: diagrams and the functions a client holds
  SequentialUpTo,   \* 8 in the code: up to this many levels, no threads
  MaxCalls          \* bound on the calls

num_levels(d) == Cardinality(DOMAIN d.table)

(* The levels are numbered from 0 and their tables are finite.               *)
ASSUME DiagramsAssumption ==
  \A x \in Diagrams :
    /\ DOMAIN x.dd = {"level", "kids", "rc", "table", "panicked"}
    /\ IsFiniteSet(DOMAIN x.dd.table)
    /\ DOMAIN x.dd.table = LevelNos(num_levels(x.dd))
    /\ \A l \in DOMAIN x.dd.table : IsFiniteSet(x.dd.table[l])

VARIABLES
  dd,               \* the diagram
  roots,            \* the nodes of the functions that the client holds
  varAt,            \* [level -> variable]: follows the swaps
  before,           \* varAt before the call
  call,             \* the state of the call: see Calls
  order,            \* the argument `order`: a sequence of roots
  passes,           \* bubble_sort's [n, new_n, i]
  apply_cache,      \* "open" or "locked" (between pre_gc and post_gc)
  reorder_count,
  calls

vars == <<dd, roots, varAt, before, call, order, passes, apply_cache,
          reorder_count, calls, sortVars>>

Calls == {"none", "sequential", "concurrent", "returned", "panicked", "aborted"}

Identity(n) == [l \in LevelNos(n) |-> l]

NoPass == [n |-> 0, new_n |-> 0, i |-> 0]

Init ==
  /\ \E x \in Diagrams :
       /\ dd = x.dd
       /\ roots = x.roots
       /\ varAt = Identity(num_levels(x.dd))
  /\ before = varAt
  /\ call = "none"
  /\ order = <<>>
  /\ passes = NoPass
  /\ apply_cache = "open"
  /\ reorder_count = 0
  /\ calls = 0
  /\ seq = Identity(num_levels(dd))
  /\ SortOff

-----------------------------------------------------------------------------
(* The calls. Two functions with the same top level fail an assertion of     *)
(* sort_order before anything is changed.                                    *)

LevelsOf(fs) == [k \in DOMAIN fs |-> dd.level[fs[k]]]

Orders == SetToAllKPermutations(roots)

Begin(fs, concurrent) ==
  /\ call \in {"none", "returned"}
  /\ calls < MaxCalls
  /\ calls' = calls + 1
  /\ order' = fs
  /\ before' = varAt
  /\ varAt' = varAt
  /\ IF Len(fs) <= 1
     THEN call' = "returned" /\ UNCHANGED <<seq, passes, apply_cache, next, dispatcher>>
     ELSE IF ~IsInjective(LevelsOf(fs))
     THEN call' = "panicked" /\ UNCHANGED <<seq, passes, apply_cache, next, dispatcher>>
     ELSE LET target == sort_order(num_levels(dd), LevelsOf(fs))
              parallel == concurrent /\ num_levels(dd) > SequentialUpTo
          IN  /\ seq' = target
              /\ apply_cache' = "locked"
              /\ call' = IF parallel THEN "concurrent" ELSE "sequential"
              /\ passes' = IF parallel THEN NoPass
                           ELSE [n |-> num_levels(dd), new_n |-> 0, i |-> 1]
              /\ next' = 0
              /\ dispatcher' = IF parallel /\ ~Ascending(target) THEN "scan" ELSE "off"
  /\ UNCHANGED <<dd, roots, reorder_count, blocked, tasks, taskQ, doneQ, worker>>

SetVarOrderSeq == \E fs \in Orders : Begin(fs, FALSE)

SetVarOrder == \E fs \in Orders : Begin(fs, TRUE)

(* Manager::reorder after its closure: post_gc and the count of reorderings. *)
Return ==
  /\ call' = "returned"
  /\ apply_cache' = "open"
  /\ reorder_count' = reorder_count + 1

-----------------------------------------------------------------------------
(* One level_down. A panic in it aborts the process (AbortOnDrop).           *)
LevelDown(u) ==
  \E visits \in Visits(dd, u) :
    LET d == level_down(dd, u, visits)
    IN  /\ dd' = d
        /\ varAt' = Swapped(varAt, u)
        /\ call' = IF d.panicked THEN "aborted" ELSE call

(* bubble_sort: one comparison, or the end of a pass.                        *)
Advance ==
  /\ call = "sequential" /\ passes.n > 1 /\ passes.i < passes.n
  /\ passes' = [passes EXCEPT !.i = @ + 1,
                              !.new_n = IF seq[passes.i - 1] > seq[passes.i] THEN passes.i ELSE @]

Compare ==
  /\ Advance
  /\ IF seq[passes.i - 1] > seq[passes.i]
     THEN seq' = Swapped(seq, passes.i - 1) /\ LevelDown(passes.i - 1)
     ELSE UNCHANGED <<seq, dd, varAt, call>>
  /\ UNCHANGED <<roots, before, order, apply_cache, reorder_count, calls,
                 blocked, next, tasks, dispatcher, taskQ, doneQ, worker>>

EndPass ==
  /\ call = "sequential" /\ passes.n > 1 /\ passes.i = passes.n
  /\ passes' = [n |-> passes.new_n, new_n |-> 0, i |-> 1]
  /\ UNCHANGED <<dd, roots, varAt, before, call, order, apply_cache,
                 reorder_count, calls, sortVars>>

EndSequential ==
  /\ call = "sequential" /\ passes.n <= 1
  /\ Return
  /\ passes' = NoPass
  /\ UNCHANGED <<dd, roots, varAt, before, order, calls, sortVars>>

-----------------------------------------------------------------------------
(* concurrent_bubble_sort.                                                   *)

Idle == UNCHANGED <<dd, roots, varAt, before, call, order, passes,
                    apply_cache, reorder_count, calls>>

Dispatcher ==
  /\ call = "concurrent"
  /\ Scan \/ Report \/ EndDispatch
  /\ Idle

TakeTask(w) == call = "concurrent" /\ ReceiveTask(w) /\ Idle

Finish(w) == call = "concurrent" /\ SendDone(w)

WorkerSwap(w) ==
  /\ Finish(w)
  /\ LevelDown(worker[w])
  /\ UNCHANGED <<roots, before, order, passes, apply_cache, reorder_count, calls>>

(* The sort returns at once if there is nothing to do, or when every worker  *)
(* has left its loop.                                                        *)
EndConcurrent ==
  /\ call = "concurrent"
  /\ dispatcher = "off" \/ BroadcastReturns
  /\ Return
  /\ dispatcher' = "off"
  /\ UNCHANGED <<dd, roots, varAt, before, order, passes, calls,
                 seq, blocked, next, tasks, taskQ, doneQ, worker>>

-----------------------------------------------------------------------------
CallNext == SetVarOrderSeq \/ SetVarOrder

Step ==
  \/ Compare
  \/ EndPass
  \/ EndSequential
  \/ Dispatcher
  \/ \E w \in Workers : TakeTask(w) \/ WorkerSwap(w)
  \/ EndConcurrent

Next == CallNext \/ Step

(* The thread of the caller, the dispatcher and every worker run on; nothing *)
(* makes a client call again. level_down always ends, so that a thread goes  *)
(* on is fairness for its own part of Compare and of WorkerSwap.             *)
Fairness ==
  /\ WF_passes(Advance \/ EndPass \/ EndSequential)
  /\ WF_vars(Dispatcher)
  /\ \A w \in Workers : WF_vars(TakeTask(w)) /\ WF_worker(Finish(w))
  /\ WF_vars(EndConcurrent)

Spec == Init /\ [][Next]_vars /\ Fairness

-----------------------------------------------------------------------------
InUse(d) == {n \in Nodes : d.rc[n] > 0}

Running == call \notin {"panicked", "aborted"}

(* Every node is in order: its children are terminals or on levels further   *)
(* down. level_down says of nodes that refer to the level above them that    *)
(* this "is not allowed" and that it fixes it.                               *)
Ordered ==
  Running => \A n \in InUse(dd), i \in 1 .. 2 :
               IsInner(dd.kids[n][i]) => dd.level[dd.kids[n][i]] > dd.level[n]

References(d, n) == Cardinality({p \in Nodes \X (1 .. 2) : d.kids[p[1]][p[2]] = n})

Entries(d) == UNION {d.table[l] : l \in DOMAIN d.table}

(* No swap loses or forges a reference, not even one that replaces children  *)
(* and removes nodes: a node that is referred to is listed on the level that *)
(* it carries and on no other, and its count is the number of its entries,   *)
(* of children that refer to it and of functions of the client. The children *)
(* of a node that level_down has removed and not freed are among these.      *)
NodesAccounted ==
  Running =>
    /\ \A l \in DOMAIN dd.table :
         {x.edge : x \in dd.table[l]} = {n \in InUse(dd) : dd.level[n] = l}
    /\ \A n \in Nodes :
         dd.rc[n] = Cardinality({x \in Entries(dd) : x.edge = n})
                    + References(dd, n) + (IF n \in roots THEN 1 ELSE 0)

(* How far the variables in `at` are from where they were before the call.   *)
Swaps(at) ==
  LET LevelBefore(v) == CHOOSE l \in DOMAIN at : before[l] = v
  IN  Inversions([l \in DOMAIN at |-> LevelBefore(at[l])])

(* When a call returns the functions it listed are in the order of their     *)
(* levels ("such that the edges in `order` are sorted by their levels"), and *)
(* no cheaper rearrangement of the variables does that ("with the minimum    *)
(* number of swap operations possible"). A diagram in which a swap has put a *)
(* node out of order (see Ordered) is left out.                              *)
OrderReached ==
  call = "returned" /\ Ordered =>
    LET got == LevelsOf(order)
        AsAsked(at) ==
          \A j, k \in DOMAIN got : j < k =>
            \E l, m \in DOMAIN at : at[l] = varAt[got[j]] /\ at[m] = varAt[got[k]] /\ l < m
    IN  /\ \A j, k \in DOMAIN got : j < k => got[j] < got[k]
        /\ LET made == Swaps(varAt)
           IN  \A at \in Permutations(DOMAIN varAt) : AsAsked(at) => made <= Swaps(at)

(* Every call comes to an end: the workers do not wait for tasks for ever.   *)
CallEnds == (call \in {"sequential", "concurrent"}) ~> (call \in {"returned", "aborted"})
=============================================================================
