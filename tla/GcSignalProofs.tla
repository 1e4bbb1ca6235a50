--------------------------- MODULE GcSignalProofs ---------------------------
(***************************************************************************)
(* Proof that the gc thread of a store is told to quit only when nobody    *)
(* can use the store any more, for any number of threads and references.   *)
(***************************************************************************)
EXTENDS GcSignal, NumberTheorems

(***************************************************************************)
(* ManagerRef::drop decides on the strong count alone, so the invariant    *)
(* has to say what the count means: the references of the users and, until *)
(* the gc thread has released it, one more.  A thread that has read 2 then *)
(* drops the only reference left; nobody can clone it meanwhile.           *)
(***************************************************************************)
CountInv == strong = Total + (IF gcPc = "done" THEN 0 ELSE 1)

DropInv ==
  \A u \in Users :
    /\ dropPc[u] # "idle" => refs[u] > 0
    /\ dropPc[u] = "signal" => Total = 1
    /\ dropPc[u] = "notify" => signal = "Quit"

QuitInv == gcPc \in {"quit", "release", "done"} => signal = "Quit"

IInv ==
  /\ TypeOK
  /\ Total \in Nat /\ Total <= MaxRefs
  /\ CountInv
  /\ DropInv
  /\ QuitInv
  /\ QuitMeansUnused

\* The references of two users cannot both count if there is only one.
LEMMA OnlyOne ==
  ASSUME refs \in [Users -> Nat], Total <= 1, NEW u \in Users, refs[u] > 0
  PROVE  refs[u] = 1 /\ \A v \in Users \ {u} : refs[v] = 0
<1>1. IsFiniteSet(Users) /\ \A x \in Users : refs[x] \in Nat
  BY SignalAssumption
<1>2. refs[u] <= Total /\ Total \in Nat
  BY <1>1, SumBound DEF Total
<1>3. refs[u] = 1
  BY <1>1, <1>2
<1>4. ASSUME NEW v \in Users \ {u} PROVE refs[v] = 0
  <2> DEFINE R == Users \ {u}
  <2>1. IsFiniteSet(R) /\ \A x \in R : refs[x] \in Nat
    BY <1>1, FS_Subset
  <2>2. Total = refs[u] + SumFunctionOnSet(refs, R)
    BY <1>1, SumStep DEF Total
  <2>3. refs[v] <= SumFunctionOnSet(refs, R) /\ SumFunctionOnSet(refs, R) \in Nat
    <3> HIDE DEF R
    <3> QED BY <1>4, <2>1, SumBound DEF R
  <2> QED BY <1>1, <1>2, <1>3, <2>2, <2>3
<1> QED BY <1>3, <1>4

\* One reference more or less at u changes the total by as much.
LEMMA TotalChange ==
  ASSUME refs \in [Users -> Nat], refs' \in [Users -> Nat], NEW u \in Users,
         \A v \in Users \ {u} : refs'[v] = refs[v]
  PROVE  /\ Total' = Total - refs[u] + refs'[u]
         /\ Total' \in Nat
         /\ \A v \in Users : refs'[v] <= Total'
<1>1. PICK f, r : f = refs /\ r = refs'
  OBVIOUS
<1>2. /\ IsFiniteSet(Users)
      /\ \A x \in Users : f[x] \in Int /\ r[x] \in Int
      /\ \A x \in Users : r[x] \in Nat
      /\ \A x \in Users \ {u} : r[x] = f[x]
  BY <1>1, SignalAssumption
<1>3. Total' = SumFunctionOnSet(r, Users) /\ Total = SumFunctionOnSet(f, Users)
  BY <1>1 DEF Total
<1>4. SumFunctionOnSet(r, Users) = SumFunctionOnSet(f, Users) - f[u] + r[u]
  BY <1>2, SumChange
<1>5. /\ SumFunctionOnSet(r, Users) \in Nat
      /\ \A x \in Users : r[x] <= SumFunctionOnSet(r, Users)
  BY <1>2, SumBound
<1> QED BY <1>1, <1>3, <1>4, <1>5

\* A new manager satisfies the invariant: one reference of the creator, one of
\* the gc thread.
LEMMA InitInv == Init => IInv
<1> SUFFICES ASSUME Init PROVE IInv
  OBVIOUS
<1>1. Total = 1
  <2> DEFINE R == Users \ {First}
             zero == [u \in Users |-> 0]
  <2>1. IsFiniteSet(Users) /\ First \in Users
    BY SignalAssumption
  <2>2. refs = [zero EXCEPT ![First] = 1] /\ zero \in [Users -> Nat]
    BY DEF Init
  <2>3. Total = SumFunctionOnSet(zero, Users) - zero[First] + refs[First]
    <3>1. /\ \A y \in Users : zero[y] \in Int /\ refs[y] \in Int
          /\ \A y \in Users \ {First} : refs[y] = zero[y]
      BY <2>2
    <3> HIDE DEF zero
    <3> QED BY <2>1, <3>1, SumChange DEF Total
  <2>4. SumFunctionOnSet(zero, Users) = 0
    <3>1. \A y \in Users : zero[y] = 0
      OBVIOUS
    <3> HIDE DEF zero
    <3> QED BY <2>1, <3>1, SumZero
  <2>5. zero[First] = 0 /\ refs[First] = 1
    BY <2>1, <2>2
  <2> QED BY <2>3, <2>4, <2>5
<1> QED BY <1>1, SignalAssumption
        DEF Init, IInv, TypeOK, CountInv, DropInv, QuitInv, QuitMeansUnused

-----------------------------------------------------------------------------
(* The steps *)

\* Steps that change neither references nor the count leave both sums alone.
LEMMA SameTotal == ASSUME refs' = refs PROVE Total' = Total
BY DEF Total

\* A clone is made by a thread that is not dropping its reference.
LEMMA CloneRefInv ==
  ASSUME IInv, NEW u \in Users, NEW v \in Users, CloneRef(u, v) PROVE IInv'
<1>1. /\ refs \in [Users -> Nat] /\ refs[u] > 0 /\ dropPc[u] = "idle"
      /\ Total \in Nat /\ Total < MaxRefs /\ MaxRefs \in Nat
      /\ refs' \in [Users -> Nat] /\ refs'[v] = refs[v] + 1 /\ refs[v] \in Nat
      /\ \A w \in Users \ {v} : refs'[w] = refs[w]
      /\ strong' = strong + 1
      /\ dropPc' = dropPc /\ signal' = signal /\ gcPc' = gcPc
  BY SignalAssumption DEF IInv, TypeOK, CloneRef
<1>2. /\ Total' = Total + 1 /\ Total' \in Nat /\ Total' <= MaxRefs
      /\ \A w \in Users : refs'[w] <= Total'
  BY <1>1, TotalChange
<1>3. signal # "Quit"
  BY <1>1 DEF IInv, QuitMeansUnused
<1>4. \A w \in Users : dropPc[w] # "signal"
  BY <1>1, OnlyOne DEF IInv, DropInv
<1>5. refs' \in [Users -> 0 .. MaxRefs]
  BY <1>1, <1>2
<1>6. strong' = Total' + (IF gcPc' = "done" THEN 0 ELSE 1)
  BY <1>1, <1>2 DEF IInv, CountInv
<1>7. TypeOK'
  BY <1>1, <1>2, <1>5, <1>6 DEF IInv, TypeOK
<1>8. DropInv'
  BY <1>1, <1>4 DEF IInv, DropInv
<1> QED BY <1>1, <1>2, <1>3, <1>6, <1>7, <1>8
        DEF IInv, CountInv, QuitInv, QuitMeansUnused

\* A thread that reads the strong count as 2 holds the last user reference.
LEMMA DropCheckInv ==
  ASSUME IInv, NEW u \in Users, DropCheck(u) PROVE IInv'
<1>1. /\ refs \in [Users -> Nat] /\ refs[u] > 0 /\ dropPc[u] = "idle"
      /\ dropPc' = [dropPc EXCEPT ![u] = IF strong = 2 THEN "signal" ELSE "release"]
      /\ refs' = refs /\ strong' = strong /\ signal' = signal /\ gcPc' = gcPc
      /\ Total' = Total /\ Total \in Nat
  BY SameTotal DEF IInv, TypeOK, DropCheck
<1>2. signal # "Quit" /\ gcPc # "done"
  BY <1>1 DEF IInv, QuitMeansUnused, QuitInv
<1>3. strong = 2 => Total = 1
  BY <1>1, <1>2 DEF IInv, CountInv
<1>4. TypeOK' /\ DropInv'
  BY <1>1, <1>3 DEF IInv, TypeOK, DropInv
<1> QED BY <1>1, <1>2, <1>4 DEF IInv, CountInv, QuitInv, QuitMeansUnused

\* Quit is written while the only user reference is being dropped.
LEMMA DropSignalInv ==
  ASSUME IInv, NEW u \in Users, DropSignal(u) PROVE IInv'
<1>1. /\ refs \in [Users -> Nat] /\ dropPc[u] = "signal"
      /\ signal' = "Quit" /\ dropPc' = [dropPc EXCEPT ![u] = "notify"]
      /\ refs' = refs /\ strong' = strong /\ gcPc' = gcPc /\ Total' = Total
  BY SameTotal DEF IInv, TypeOK, DropSignal
<1>2. Total = 1 /\ refs[u] > 0
  BY <1>1 DEF IInv, DropInv
<1>3. \A v \in Users \ {u} : refs[v] = 0
  BY <1>1, <1>2, OnlyOne
<1>4. TypeOK' /\ DropInv'
  BY <1>1, <1>2 DEF IInv, TypeOK, DropInv
<1>5. QuitMeansUnused'
  BY <1>1, <1>2, <1>3 DEF IInv, TypeOK, QuitMeansUnused
<1> QED BY <1>1, <1>4, <1>5 DEF IInv, CountInv, QuitInv

\* Notifying changes the gc thread's state only from "wait" to "woken".
LEMMA NotifyInv ==
  ASSUME IInv, NEW u \in Users, TriggerGc(u) \/ DropNotify(u) PROVE IInv'
<1>1. /\ refs' = refs /\ strong' = strong /\ signal' = signal
      /\ gcPc' = Notified /\ Total' = Total
      /\ \/ dropPc' = dropPc
         \/ dropPc[u] = "notify" /\ dropPc' = [dropPc EXCEPT ![u] = "release"]
  BY SameTotal DEF TriggerGc, DropNotify
<1>2. /\ gcPc' \in {"loop", "locked", "wait", "woken", "gc", "quit", "release", "done"}
      /\ gcPc' = "done" <=> gcPc = "done"
      /\ gcPc' \in {"quit", "release", "done"} => gcPc' = gcPc
  BY <1>1 DEF IInv, TypeOK, Notified
<1>3. TypeOK' /\ DropInv'
  BY <1>1, <1>2 DEF IInv, TypeOK, DropInv
<1>4. QuitMeansUnused'
  BY <1>1 DEF IInv, TypeOK, QuitMeansUnused
<1> QED BY <1>1, <1>2, <1>3, <1>4 DEF IInv, CountInv, QuitInv

\* The Arc of a reference is released.
LEMMA DropReleaseInv ==
  ASSUME IInv, NEW u \in Users, DropRelease(u) PROVE IInv'
<1>1. /\ refs \in [Users -> Nat] /\ refs[u] > 0 /\ dropPc[u] = "release"
      /\ refs' \in [Users -> Nat] /\ refs'[u] = refs[u] - 1 /\ refs[u] \in Nat
      /\ \A w \in Users \ {u} : refs'[w] = refs[w]
      /\ strong' = strong - 1 /\ Total \in Nat /\ Total <= MaxRefs /\ MaxRefs \in Nat
      /\ dropPc' = [dropPc EXCEPT ![u] = "idle"] /\ signal' = signal /\ gcPc' = gcPc
  BY SignalAssumption DEF IInv, TypeOK, DropRelease, DropInv
<1>2. /\ Total' = Total - 1 /\ Total' \in Nat /\ Total' <= MaxRefs
      /\ \A w \in Users : refs'[w] <= Total'
  BY <1>1, TotalChange
<1>3. refs' \in [Users -> 0 .. MaxRefs]
  BY <1>1, <1>2
<1>4. strong' = Total' + (IF gcPc' = "done" THEN 0 ELSE 1)
  BY <1>1, <1>2 DEF IInv, CountInv
<1>5. TypeOK'
  BY <1>1, <1>2, <1>3, <1>4 DEF IInv, TypeOK
<1>6. \A w \in Users \ {u} : dropPc[w] # "signal"
  BY <1>1, OnlyOne DEF IInv, DropInv
<1>7. DropInv'
  BY <1>1, <1>6 DEF IInv, TypeOK, DropInv
<1>8. QuitMeansUnused'
  <2>1. ASSUME signal = "Quit" PROVE \A w \in Users : refs'[w] = 0
    BY <1>1, <1>2, <2>1 DEF IInv, QuitMeansUnused
  <2> QED BY <1>1, <1>2, <2>1 DEF IInv, QuitMeansUnused
<1> QED BY <1>2, <1>4, <1>5, <1>7, <1>8, <1>1 DEF IInv, CountInv, QuitInv

\* The gc thread leaves its loop only after it has read Quit.
LEMMA GcStepInv == ASSUME IInv, GcStep PROVE IInv'
<1>1. CASE GcRelease
  <2>1. /\ gcPc = "release" /\ gcPc' = "done" /\ strong' = strong - 1
        /\ refs' = refs /\ dropPc' = dropPc /\ signal' = signal /\ Total' = Total
    BY <1>1, SameTotal DEF GcRelease
  <2>2. strong = Total + 1 /\ Total \in Nat /\ Total <= MaxRefs /\ MaxRefs \in Nat
    BY <2>1, SignalAssumption DEF IInv, CountInv
  <2>3. TypeOK'
    BY <2>1, <2>2 DEF IInv, TypeOK
  <2>4. CountInv' /\ QuitInv'
    BY <2>1, <2>2 DEF IInv, CountInv, QuitInv
  <2> QED BY <2>1, <2>3, <2>4 DEF IInv, DropInv, QuitMeansUnused
<1>2. CASE GcLock \/ GcPark \/ GcWake \/ GcCollect \/ GcDropCheck
  <2>1. /\ refs' = refs /\ dropPc' = dropPc /\ strong' = strong /\ Total' = Total
        /\ signal' = signal
        /\ gcPc # "done" /\ gcPc' # "done"
        /\ gcPc' \in {"quit", "release"} => signal = "Quit"
    BY <1>2, SameTotal DEF GcLock, GcPark, GcWake, GcCollect, GcDropCheck, IInv, QuitInv
  <2>2. gcPc' \in {"loop", "locked", "wait", "woken", "gc", "quit", "release", "done"}
    BY <1>2 DEF GcLock, GcPark, GcWake, GcCollect, GcDropCheck
  <2> QED BY <2>1, <2>2 DEF IInv, TypeOK, CountInv, DropInv, QuitInv, QuitMeansUnused
<1> QED BY <1>1, <1>2 DEF GcStep

\* Every step keeps the invariant.
LEMMA NextInv == IInv /\ [Next]_vars => IInv'
<1> SUFFICES ASSUME IInv, [Next]_vars PROVE IInv'
  OBVIOUS
<1>1. CASE UNCHANGED vars
  BY <1>1, SameTotal
     DEF vars, IInv, TypeOK, CountInv, DropInv, QuitInv, QuitMeansUnused
<1>2. CASE Next
  BY <1>2, CloneRefInv, DropCheckInv, DropSignalInv, NotifyInv, DropReleaseInv,
     GcStepInv DEF Next, Drop
<1> QED BY <1>1, <1>2

\* The invariant holds in every reachable state.
LEMMA SpecInv == Spec => []IInv
BY InitInv, NextInv, PTL DEF Spec

\* The strong count stays between 0 and the number of references plus the gc
\* thread's, and every thread is at a place of its code.
THEOREM TypeCorrect == Spec => []TypeOK
<1>1. IInv => TypeOK
  BY DEF IInv
<1> QED BY <1>1, SpecInv, PTL

\* ManagerRef::drop tells the gc thread to quit only when one reference is left at
\* most and that one is being dropped: comparing the strong count with 2 is safe
\* although other threads clone and drop references at the same time.
THEOREM QuitOnlyUnused == Spec => []QuitMeansUnused
<1>1. IInv => QuitMeansUnused
  BY DEF IInv
<1> QED BY <1>1, SpecInv, PTL

\* The strong count of the Arc is the number of references that users hold, and
\* one more until the gc thread has released its own.
THEOREM StrongCountExact == Spec => []CountInv
<1>1. IInv => CountInv
  BY DEF IInv
<1> QED BY <1>1, SpecInv, PTL

=============================================================================
