--------------------------- MODULE ConcurrentSort ---------------------------
(* crates/oxidd-reorder/src/lib.rs, `concurrent_bubble_sort`: a dispatcher   *)
(* thread decides which neighbouring levels to swap and sends the upper one  *)
(* of each pair through the task channel; the workers of the manager         *)
(* (`broadcast`) receive tasks, swap, and report through the done channel.   *)
(* The channels are unbounded FIFO queues; a closed task channel still       *)
(* delivers what it holds and then makes `recv` fail, which ends a worker.   *)
EXTENDS Integers, Sequences, FiniteSets

CONSTANTS Workers, NoTask

ASSUME WorkersAssumption == IsFiniteSet(Workers) /\ NoTask \notin Nat

VARIABLES
  seq,         \* [level -> key]: the dispatcher's copy of the order
  blocked,     \* [level -> BOOLEAN]: part of a swap that is not reported yet
  next,        \* the level its first scan has come to (`i` in the code)
  tasks,       \* the number of swaps it waits for
  dispatcher,  \* "off", "scan", "wait", "ended"
  taskQ,       \* the task channel
  doneQ,       \* the done channel
  worker       \* [worker -> the upper level it swaps, or NoTask]

sortVars == <<seq, blocked, next, tasks, dispatcher, taskQ, doneQ, worker>>

Levels == DOMAIN seq

Ascending(s) == \A l \in DOMAIN s : l + 1 \in DOMAIN s => s[l] <= s[l + 1]

Swapped(s, u) == [s EXCEPT ![u] = s[u + 1], ![u + 1] = s[u]]

Marked(b, u, value) == [b EXCEPT ![u] = value, ![u + 1] = value]

SortOff ==
  /\ blocked = [l \in Levels |-> FALSE]
  /\ next = 0
  /\ tasks = 0
  /\ dispatcher = "off"
  /\ taskQ = <<>>
  /\ doneQ = <<>>
  /\ worker = [w \in Workers |-> NoTask]

-----------------------------------------------------------------------------
(* The dispatcher. What it knows is passed through as a record, so that one  *)
(* report can start two swaps in the order of the code.                      *)

Dispatch == [seq |-> seq, blocked |-> blocked, tasks |-> tasks, sent |-> taskQ]

(* The closure `swap` and the `tasks += 1` that follows each of its calls.   *)
SendSwap(s, u) ==
  [seq |-> Swapped(s.seq, u), blocked |-> Marked(s.blocked, u, TRUE),
   tasks |-> s.tasks + 1, sent |-> Append(s.sent, u)]

Becomes(s) ==
  /\ seq' = s.seq
  /\ blocked' = s.blocked
  /\ tasks' = s.tasks
  /\ taskQ' = s.sent

(* One round of the scan over all neighbours.                                *)
Scan ==
  /\ dispatcher = "scan"
  /\ IF next + 1 \in Levels
     THEN /\ IF seq[next] > seq[next + 1]
             THEN Becomes(SendSwap(Dispatch, next)) /\ next' = next + 2
             ELSE UNCHANGED <<seq, blocked, tasks, taskQ>> /\ next' = next + 1
          /\ UNCHANGED dispatcher
     ELSE /\ dispatcher' = "wait"
          /\ UNCHANGED <<seq, blocked, tasks, taskQ, next>>
  /\ UNCHANGED <<doneQ, worker>>

\* Mutant: the report is not subtracted from the tasks.
UnblockedKeepsTask(s, u) == [s EXCEPT !.blocked = Marked(@, u, FALSE)]

Unblocked(s, u) ==
  [s EXCEPT !.blocked = Marked(@, u, FALSE), !.tasks = @ - 1]

TryAbove(s, u) ==
  IF u > 0 /\ s.seq[u - 1] > s.seq[u] /\ ~s.blocked[u - 1]
  THEN SendSwap(s, u - 1)
  ELSE s

\* Mutant: a level that is being swapped is not spared.
TryBelowUnchecked(s, u) ==
  IF u + 2 \in Levels /\ s.seq[u + 1] > s.seq[u + 2]
  THEN SendSwap(s, u + 1)
  ELSE s

TryBelow(s, u) ==
  IF u + 2 \in Levels /\ s.seq[u + 1] > s.seq[u + 2] /\ ~s.blocked[u + 2]
  THEN SendSwap(s, u + 1)
  ELSE s

(* One round of the loop `while tasks != 0`: a report frees its two levels   *)
(* and the pairs above and below are looked at again.                        *)
Report ==
  /\ dispatcher = "wait" /\ tasks # 0
  /\ doneQ # <<>>
  /\ LET u == Head(doneQ) IN Becomes(TryBelow(TryAbove(Unblocked(Dispatch, u), u), u))
  /\ doneQ' = Tail(doneQ)
  /\ UNCHANGED <<next, dispatcher, worker>>

(* The thread ends and drops its ends of both channels.                      *)
EndDispatch ==
  /\ dispatcher = "wait" /\ tasks = 0
  /\ dispatcher' = "ended"
  /\ UNCHANGED <<seq, blocked, next, tasks, taskQ, doneQ, worker>>

-----------------------------------------------------------------------------
(* The workers.                                                              *)

ReceiveTask(w) ==
  /\ dispatcher # "off"
  /\ worker[w] = NoTask
  /\ taskQ # <<>>
  /\ worker' = [worker EXCEPT ![w] = Head(taskQ)]
  /\ taskQ' = Tail(taskQ)
  /\ UNCHANGED <<seq, blocked, next, tasks, dispatcher, doneQ>>

(* `swap(upper)` has returned; the worker reports it. What the swap does is  *)
(* the caller's.                                                             *)
SendDone(w) ==
  /\ worker[w] # NoTask
  /\ doneQ' = Append(doneQ, worker[w])
  /\ worker' = [worker EXCEPT ![w] = NoTask]
  /\ UNCHANGED <<seq, blocked, next, tasks, dispatcher, taskQ>>

(* Every worker has seen the channel closed: `broadcast` returns.            *)
BroadcastReturns ==
  /\ dispatcher = "ended"
  /\ taskQ = <<>>
  /\ \A w \in Workers : worker[w] = NoTask

-----------------------------------------------------------------------------
(* The swaps the dispatcher has sent and not yet heard back from.            *)
Pending ==
  {taskQ[k] : k \in DOMAIN taskQ} \cup {doneQ[k] : k \in DOMAIN doneQ}
  \cup {worker[w] : w \in {v \in Workers : worker[v] # NoTask}}

(* Two workers never swap levels that overlap: "if there is a swap operation *)
(* for indices `i` and `i + 1`, there is no other swap operation with `i`    *)
(* and `i + 1` at the same time". A swap that waits in a channel counts too, *)
(* another worker may start it at any moment.                                *)
SwapsDisjoint ==
  /\ \A u, v \in Pending : u = v \/ u + 1 < v \/ v + 1 < u
  /\ \A v, w \in Workers : v # w /\ worker[v] # NoTask => worker[v] # worker[w]
  /\ \A w \in Workers, k \in DOMAIN taskQ : worker[w] # taskQ[k]
=============================================================================
