------------------------------ MODULE GcSignal ------------------------------
(***************************************************************************)
(* Lifetime of a store of the index-based manager and of its gc thread     *)
(* (crates/oxidd-manager-index/src/manager.rs).  ManagerRefs (those inside *)
(* Functions included) are Arc references to the store; the "oxidd mi gc"  *)
(* thread holds one of its own.  Dropping the second last reference is     *)
(* meant to terminate the gc thread: ManagerRef::drop compares the strong  *)
(* count with 2, writes GCSignal::Quit under the mutex of `gc_signal` and  *)
(* notifies its condition variable; the Arc itself is released afterwards. *)
(***************************************************************************)
EXTENDS Integers, FiniteSets, Functions

CONSTANTS
  Users,      \* threads of the application
  First,      \* the thread that called new_manager
  MaxRefs     \* bound on the references held by users at any time

ASSUME SignalAssumption ==
  /\ IsFiniteSet(Users) /\ First \in Users /\ MaxRefs \in Nat \ {0}

VARIABLES
  refs,       \* [Users -> Nat]: ManagerRefs owned by a thread
  dropPc,     \* [Users -> ...]: progress of a ManagerRef::drop
  strong,     \* the strong count of the Arc
  signal,     \* gc_signal.0
  gcPc        \* the gc thread: "loop", "locked" (holds the mutex), "wait",
              \* "woken", "gc", "quit" (left the loop), "release", "done"

vars == <<refs, dropPc, strong, signal, gcPc>>

Total == SumFunctionOnSet(refs, Users)

Init ==
  /\ refs = [u \in Users |-> IF u = First THEN 1 ELSE 0]
  /\ dropPc = [u \in Users |-> "idle"]
  /\ strong = 2
  /\ signal = "RunGc"
  /\ gcPc = "loop"

Notified == IF gcPc = "wait" THEN "woken" ELSE gcPc

-----------------------------------------------------------------------------
(* The application *)

\* u clones a reference (of a ManagerRef, a Function or from a &Manager), for
\* itself or for thread v.
CloneRef(u, v) ==
  /\ refs[u] > 0 /\ dropPc[u] = "idle"
  /\ Total < MaxRefs
  /\ refs' = [refs EXCEPT ![v] = @ + 1]
  /\ strong' = strong + 1
  /\ UNCHANGED <<dropPc, signal, gcPc>>

\* u adds a node and the counter reaches the high water mark: notify_one,
\* without the mutex of gc_signal.
TriggerGc(u) ==
  /\ refs[u] > 0 /\ dropPc[u] = "idle"
  /\ gcPc' = Notified
  /\ UNCHANGED <<refs, dropPc, strong, signal>>

\* Mutant: the gc thread's own reference is not counted.
DropCheckOffByOne(u) ==
  /\ refs[u] > 0 /\ dropPc[u] = "idle"
  /\ dropPc' = [dropPc EXCEPT ![u] = IF strong <= 3 THEN "signal" ELSE "release"]
  /\ UNCHANGED <<refs, strong, signal, gcPc>>

\* ManagerRef::drop: Arc::strong_count(..) == 2 ?
DropCheck(u) ==
  /\ refs[u] > 0 /\ dropPc[u] = "idle"
  /\ dropPc' = [dropPc EXCEPT ![u] = IF strong = 2 THEN "signal" ELSE "release"]
  /\ UNCHANGED <<refs, strong, signal, gcPc>>

\* *gc_signal.0.lock() = Quit; the gc thread holds the mutex in "locked".
DropSignal(u) ==
  /\ dropPc[u] = "signal"
  /\ gcPc # "locked"
  /\ signal' = "Quit"
  /\ dropPc' = [dropPc EXCEPT ![u] = "notify"]
  /\ UNCHANGED <<refs, strong, gcPc>>

DropNotify(u) ==
  /\ dropPc[u] = "notify"
  /\ gcPc' = Notified
  /\ dropPc' = [dropPc EXCEPT ![u] = "release"]
  /\ UNCHANGED <<refs, strong, signal>>

\* Mutant: the end of the drop is forgotten, so that it releases again.
DropReleaseTwice(u) ==
  /\ dropPc[u] = "release"
  /\ refs' = [refs EXCEPT ![u] = @ - 1]
  /\ strong' = strong - 1
  /\ UNCHANGED <<dropPc, signal, gcPc>>

\* Drop of the Arc.
DropRelease(u) ==
  /\ dropPc[u] = "release"
  /\ refs' = [refs EXCEPT ![u] = @ - 1]
  /\ strong' = strong - 1
  /\ dropPc' = [dropPc EXCEPT ![u] = "idle"]
  /\ UNCHANGED <<signal, gcPc>>

Drop(u) == DropSignal(u) \/ DropNotify(u) \/ DropRelease(u)

-----------------------------------------------------------------------------
(* The gc thread *)

GcLock ==
  /\ gcPc = "loop"
  /\ gcPc' = "locked"
  /\ UNCHANGED <<refs, dropPc, strong, signal>>

\* Condvar::wait parks the thread and releases the mutex; the signal is not
\* looked at before.
GcPark ==
  /\ gcPc = "locked"
  /\ gcPc' = "wait"
  /\ UNCHANGED <<refs, dropPc, strong, signal>>

\* Mutant: the signal is not read.
GcWakeIgnoresQuit ==
  /\ gcPc = "woken"
  /\ gcPc' = "gc"
  /\ UNCHANGED <<refs, dropPc, strong, signal>>

GcWake ==
  /\ gcPc = "woken"
  /\ gcPc' = IF signal = "Quit" THEN "quit" ELSE "gc"
  /\ UNCHANGED <<refs, dropPc, strong, signal>>

\* Manager::gc, the return of the local free list and the re-arming.
GcCollect ==
  /\ gcPc = "gc"
  /\ gcPc' = "loop"
  /\ UNCHANGED <<refs, dropPc, strong, signal>>

\* Drop of gc_mref: the same check (it signals nobody), then the Arc.
GcDropCheck ==
  /\ gcPc = "quit"
  /\ signal' = IF strong = 2 THEN "Quit" ELSE signal
  /\ gcPc' = "release"
  /\ UNCHANGED <<refs, dropPc, strong>>

GcRelease ==
  /\ gcPc = "release"
  /\ strong' = strong - 1
  /\ gcPc' = "done"
  /\ UNCHANGED <<refs, dropPc, signal>>

GcStep == GcLock \/ GcPark \/ GcWake \/ GcCollect \/ GcDropCheck \/ GcRelease

-----------------------------------------------------------------------------
Next ==
  \/ \E u \in Users : \/ \E v \in Users : CloneRef(u, v)
                      \/ TriggerGc(u)
                      \/ DropCheck(u)
                      \/ Drop(u)
  \/ GcStep

\* A drop that has begun ends, and the gc thread runs when it can.
Fairness == WF_vars(GcStep) /\ \A u \in Users : WF_vars(Drop(u))

Spec == Init /\ [][Next]_vars /\ Fairness

-----------------------------------------------------------------------------
(* Properties *)

TypeOK ==
  /\ refs \in [Users -> 0 .. MaxRefs]
  /\ dropPc \in [Users -> {"idle", "signal", "notify", "release"}]
  /\ strong \in 0 .. MaxRefs + 1
  /\ signal \in {"RunGc", "Quit"}
  /\ gcPc \in {"loop", "locked", "wait", "woken", "gc", "quit", "release", "done"}

\* The gc thread is told to quit only when no thread can use the store any
\* more: one reference is left at most, and it is being dropped.  So nobody
\* ever works on a store without a gc thread.
QuitMeansUnused ==
  signal = "Quit" =>
    /\ Total <= 1
    /\ \A u \in Users : refs[u] > 0 => dropPc[u] \in {"notify", "release"}

\* A parked gc thread that the last drop notifies ends, and the store with it.
ParkedThreadQuits ==
  \A u \in Users : (dropPc[u] = "notify" /\ gcPc = "wait") ~> (strong = 0)

=============================================================================
