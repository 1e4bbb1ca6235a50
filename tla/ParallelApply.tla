---------------------------- MODULE ParallelApply ----------------------------
(***************************************************************************)
(* The multi-threaded apply algorithms of BDDs as they share one manager   *)
(* with each other and with its garbage collection                         *)
(* (crates/oxidd-rules-bdd/src/recursor.rs, simple/apply_rec.rs).          *)
(*                                                                         *)
(* A call of apply_not, apply_bin or apply_ite is a task; its first        *)
(* recursive call is the task id \o <<1>>, its second one id \o <<2>>.     *)
(* Tasks that join started run at the same time, as worker threads steal   *)
(* them.  A node is its level and children, as in module BDD: a search of  *)
(* a unique table is taken to find what the table holds, which is so until *)
(* a sweep cuts nodes off (ManagerGC shows when nodes are unique, and that *)
(* edges may be cloned and dropped in one step).  Terminals are not        *)
(* counted.                                                                *)
(***************************************************************************)
EXTENDS BDDCases, Sequences, FiniteSets

CONSTANTS
  Clients,
  Owned,        \* the functions that clients own
  Nodes,        \* the nodes of these functions
  ClientCalls,  \* the calls each client makes: <<operator, operands>>
  MaxDepth,     \* bound on split_depth
  MaxNodes      \* capacity of the node store

Vars      == 0 .. NumVars - 1
Terminals == {False, True}

\* D is a diagram: children are in D or terminals, at a lower level, and differ.
IsDiagram(D) ==
  \A n \in D :
    /\ n \in Vars \X (D \cup Terminals) \X (D \cup Terminals)
    /\ n[2] # n[3] /\ Level(n[2]) > n[1] /\ Level(n[3]) > n[1]

Commutative == {"and", "or", "nand", "nor", "xor", "equiv"}
Binaries    == Commutative \cup {"imp", "imp_strict"}
Operators   == Binaries \cup {"not", "ite"}

\* The operands of an operator, from S
Operands(op, S) == [1 .. (CASE op = "not" -> 1 [] op = "ite" -> 3 [] op \in Binaries -> 2) -> S]

ASSUME ParallelAssumption ==
  /\ {NumVars, MaxDepth, MaxNodes} \subseteq Nat
  /\ IsFiniteSet(Nodes) /\ Cardinality(Nodes) <= MaxNodes /\ IsDiagram(Nodes)
  /\ Owned \subseteq Nodes \cup Terminals
  /\ \A n \in Nodes \ Owned : \E p \in Nodes : n \in {p[2], p[3]}
  /\ \A c \in Clients : \A call \in ClientCalls[c] :
       call[1] \in Operators /\ call[2] \in Operands(call[1], Owned \cup Terminals)

VARIABLES
  rc,           \* the nodes in the unique tables and their reference counts,
                \* without the references of the tables
  cache,        \* the apply cache: a function from keys to edges
  gcRunning,    \* is the gc sweeping, with the cache locked?
  task          \* the running tasks

vars == <<rc, cache, gcRunning, task>>

NoEdge == <<>>

\* f with k mapped to v
Extend(f, k, v) == [x \in DOMAIN f \cup {k} |-> IF x = k THEN v ELSE f[x]]

Children(n) == <<n[2], n[3]>>

\* The child edges of the nodes in S that refer to n
ParentEdges(S, n) == {x \in S \X {1, 2} : Children(x[1])[x[2]] = n}

\* Every client function is referenced by one Function.
Init ==
  /\ rc = [n \in Nodes |-> Cardinality(ParentEdges(Nodes, n)) + Cardinality({n} \cap Owned)]
  /\ cache = <<>>
  /\ gcRunning = FALSE
  /\ task = <<>>

-----------------------------------------------------------------------------
(* Edges *)

retain(r, e)  == IF e \in DOMAIN r THEN [r EXCEPT ![e] = @ + 1] ELSE r
release(r, e) == IF e \in DOMAIN r THEN [r EXCEPT ![e] = @ - 1] ELSE r

-----------------------------------------------------------------------------
(* Tasks *)

Ids == DOMAIN task
At(id, pc) == id \in Ids /\ task[id].pc = pc
IsDone(id) == id \in Ids /\ task[id].pc \in {"ok", "err"}
First(id)  == Append(id, 1)
Second(id) == Append(id, 2)

NewTask(op, args, sequential, depth) ==
  [call |-> <<op, args>>, op |-> op, args |-> args, sequential |-> sequential, depth |-> depth,
   pc |-> "start", t |-> NoEdge, e |-> NoEdge, h |-> NoEdge]

Removed(tasks, S) == [id \in DOMAIN tasks \ S |-> tasks[id]]

Ends(id, edge)   == [task[id] EXCEPT !.pc = "ok", !.h = edge, !.t = NoEdge, !.e = NoEdge]
Fails(id)        == [task[id] EXCEPT !.pc = "err", !.t = NoEdge, !.e = NoEdge]

\* Mutant: tasks keep splitting.
NeverSwitches(x) == x

\* should_switch_to_sequential, at the beginning of every algorithm
Switched(x) == IF x.depth = 0 THEN [x EXCEPT !.sequential = TRUE] ELSE x

terminal_case(op, args) ==
  CASE op = "not" -> IF IsInner(args[1]) THEN Binary ELSE Done(Terminal(~args[1][2]))
    [] op = "ite" -> terminal_ite(args[1], args[2], args[3])
    [] op \notin {"not", "ite"} -> terminal_bin(op, args[1], args[2])

\* A unique representation of the operands of a commutative operator
Key(op, args) ==
  IF op \in Commutative THEN <<op, {args[1], args[2]}>>
  ELSE <<op, args>>

\* Done: the edge is cloned.
TerminalCase(id) ==
  LET operation == terminal_case(task[id].op, task[id].args) IN
  /\ At(id, "start") /\ operation[1] = "Done"
  /\ rc' = retain(rc, operation[2])
  /\ task' = [task EXCEPT ![id] = Ends(id, operation[2])]
  /\ UNCHANGED <<cache, gcRunning>>

\* The result is that of another algorithm, which goes on with the same recursor;
\* the field call keeps what was asked for.
Delegate(id) ==
  LET x == Switched(task[id])
      operation == terminal_case(x.op, x.args) IN
  /\ At(id, "start") /\ operation[1] \in {"Not", "Apply"}
  /\ task' = [task EXCEPT ![id] =
       IF operation[1] = "Not"
       THEN [x EXCEPT !.op = "not", !.args = <<operation[2]>>]
       ELSE [x EXCEPT !.op = operation[2], !.args = <<operation[3], operation[4]>>]]
  /\ UNCHANGED <<rc, cache, gcRunning>>

Recurses(id) ==
  At(id, "start") /\ terminal_case(task[id].op, task[id].args)[1] \in {"Binary", "Ternary"}

\* The entry is cloned while it is locked; the gc holds the lock of every entry.
CacheHit(id) ==
  LET key == Key(task[id].op, task[id].args) IN
  /\ Recurses(id)
  /\ ~gcRunning /\ key \in DOMAIN cache
  /\ rc' = retain(rc, cache[key])
  /\ task' = [task EXCEPT ![id] = Ends(id, cache[key])]
  /\ UNCHANGED <<cache, gcRunning>>

LevelOf(args) == CHOOSE l \in {Level(args[i]) : i \in DOMAIN args} :
                   \A i \in DOMAIN args : l <= Level(args[i])

\* Mutant: also the operands below the level are replaced by their children.
CofactorsOfAll(args, i) ==
  [k \in DOMAIN args |-> IF IsInner(args[k]) THEN Children(args[k])[i] ELSE args[k]]

Cofactors(args, i) ==
  [k \in DOMAIN args |->
     IF Level(args[k]) = LevelOf(args) THEN Children(args[k])[i] ELSE args[k]]

\* A miss, also because the entry is locked or was overwritten: the recursor
\* starts both calls with join, or the first one only.
Recurse(id) ==
  LET x == Switched(task[id])
      depth == IF x.sequential THEN x.depth ELSE x.depth - 1
      Call(i) == NewTask(x.op, Cofactors(x.args, i), x.sequential, depth) IN
  /\ Recurses(id)
  /\ task' = IF x.sequential
             THEN Extend([task EXCEPT ![id] = [x EXCEPT !.pc = "then"]], First(id), Call(1))
             ELSE Extend(Extend([task EXCEPT ![id] = [x EXCEPT !.pc = "join"]],
                                First(id), Call(1)), Second(id), Call(2))
  /\ UNCHANGED <<rc, cache, gcRunning>>

\* SequentialRecursor: the second call is made if the first one succeeds, ...
ThenReturns(id) ==
  LET x == task[id]
      r == task[First(id)] IN
  /\ At(id, "then") /\ IsDone(First(id))
  /\ task' = Removed(
       IF r.pc = "err" THEN [task EXCEPT ![id] = Fails(id)]
       ELSE Extend([task EXCEPT ![id] = [x EXCEPT !.pc = "else", !.t = r.h]],
                   Second(id), NewTask(x.op, Cofactors(x.args, 2), TRUE, x.depth)),
       {First(id)})
  /\ UNCHANGED <<rc, cache, gcRunning>>

\* Mutant: the first result is forgotten when the second call fails.
ElseReturnsLeaks(id) ==
  LET r == task[Second(id)] IN
  /\ At(id, "else") /\ IsDone(Second(id))
  /\ task' = Removed(
       [task EXCEPT ![id] = IF r.pc = "err" THEN Fails(id)
                            ELSE [task[id] EXCEPT !.pc = "reduce", !.e = r.h]],
       {Second(id)})
  /\ UNCHANGED <<rc, cache, gcRunning>>

\* ... and the guard of the first result drops it if the second one fails.
ElseReturns(id) ==
  LET r == task[Second(id)] IN
  /\ At(id, "else") /\ IsDone(Second(id))
  /\ rc' = IF r.pc = "err" THEN release(rc, task[id].t) ELSE rc
  /\ task' = Removed(
       [task EXCEPT ![id] = IF r.pc = "err" THEN Fails(id)
                            ELSE [task[id] EXCEPT !.pc = "reduce", !.e = r.h]],
       {Second(id)})
  /\ UNCHANGED <<cache, gcRunning>>

\* Mutant: a failed call is waited for.
JoinReturnsIfBothOk(id) ==
  LET a == task[First(id)]
      b == task[Second(id)] IN
  /\ At(id, "join") /\ At(First(id), "ok") /\ At(Second(id), "ok")
  /\ task' = Removed([task EXCEPT ![id] = [@ EXCEPT !.pc = "reduce", !.t = a.h, !.e = b.h]],
                     {First(id), Second(id)})
  /\ UNCHANGED <<rc, cache, gcRunning>>

\* ParallelRecursor: both calls have returned; if one failed, the guard of the
\* other one's result drops it.
JoinReturns(id) ==
  LET a == task[First(id)]
      b == task[Second(id)] IN
  /\ At(id, "join") /\ IsDone(First(id)) /\ IsDone(Second(id))
  /\ rc' = IF a.pc = "ok" /\ b.pc = "ok" THEN rc ELSE release(release(rc, a.h), b.h)
  /\ task' = Removed(
       [task EXCEPT ![id] =
          IF a.pc = "ok" /\ b.pc = "ok"
          THEN [task[id] EXCEPT !.pc = "reduce", !.t = a.h, !.e = b.h]
          ELSE Fails(id)],
       {First(id), Second(id)})
  /\ UNCHANGED <<cache, gcRunning>>

\* Mutant: equal children are not tested for.
ReduceKeepsRedundant(id) ==
  LET x == task[id]
      n == <<LevelOf(x.args), x.t, x.e>> IN
  /\ At(id, "reduce")
  /\ n \in DOMAIN rc \/ Cardinality(DOMAIN rc) < MaxNodes
  /\ rc' = IF n \in DOMAIN rc THEN retain(release(release(rc, x.t), x.e), n) ELSE Extend(rc, n, 1)
  /\ task' = [task EXCEPT ![id] = [Ends(id, n) EXCEPT !.pc = "add"]]
  /\ UNCHANGED <<cache, gcRunning>>

\* reduce and get_or_insert take t and e: a new node keeps them, otherwise they
\* are dropped, also if there is no memory for the node.
Reduce(id) ==
  LET x == task[id]
      n == <<LevelOf(x.args), x.t, x.e>>
      dropped == release(release(rc, x.t), x.e) IN
  /\ At(id, "reduce")
  /\ IF x.t = x.e
     THEN /\ rc' = release(rc, x.e)
          /\ task' = [task EXCEPT ![id] = [Ends(id, x.t) EXCEPT !.pc = "add"]]
     ELSE IF n \in DOMAIN rc
     THEN /\ rc' = retain(dropped, n)
          /\ task' = [task EXCEPT ![id] = [Ends(id, n) EXCEPT !.pc = "add"]]
     ELSE IF Cardinality(DOMAIN rc) < MaxNodes
     THEN /\ rc' = Extend(rc, n, 1)
          /\ task' = [task EXCEPT ![id] = [Ends(id, n) EXCEPT !.pc = "add"]]
     ELSE /\ rc' = dropped
          /\ task' = [task EXCEPT ![id] = Fails(id)]
  /\ UNCHANGED <<cache, gcRunning>>

\* The result is entered into the cache, unless the gc holds the lock.
Add(id) ==
  LET key == Key(task[id].op, task[id].args) IN
  /\ At(id, "add")
  /\ cache' = IF ~gcRunning THEN Extend(cache, key, task[id].h) ELSE cache
  /\ task' = [task EXCEPT ![id].pc = "ok"]
  /\ UNCHANGED <<rc, gcRunning>>

Step(id) ==
  \/ TerminalCase(id) \/ Delegate(id) \/ CacheHit(id) \/ Recurse(id)
  \/ ThenReturns(id) \/ ElseReturns(id) \/ JoinReturns(id)
  \/ Reduce(id) \/ Add(id)

-----------------------------------------------------------------------------
(* Clients and garbage collection *)

\* install: the algorithm runs in the worker pool.  The split depth may be set at
\* any time; it is read here.
Install(c, call, splitDepth) ==
  /\ <<c>> \notin Ids
  /\ task' = Extend(task, <<c>>, NewTask(call[1], call[2], FALSE, splitDepth))
  /\ UNCHANGED <<rc, cache, gcRunning>>

\* The client gets the result and drops it.
Return(c) ==
  /\ IsDone(<<c>>)
  /\ rc' = release(rc, task[<<c>>].h)
  /\ task' = Removed(task, {<<c>>})
  /\ UNCHANGED <<cache, gcRunning>>

\* Mutant: the cache keeps its entries.
GcBeginKeepsCache ==
  /\ ~gcRunning
  /\ gcRunning' = TRUE
  /\ UNCHANGED <<rc, cache, task>>

GcBegin ==
  /\ ~gcRunning
  /\ gcRunning' = TRUE
  /\ cache' = <<>>
  /\ UNCHANGED <<rc, task>>

\* The counts after the levels above l have been swept: a node whose only
\* reference is the table's goes, and with it its child edges.
Swept[l \in 0 .. NumVars] ==
  IF l = 0 THEN rc
  ELSE LET r == Swept[l - 1]
           dead == {n \in DOMAIN r : Level(n) = l - 1 /\ r[n] = 0} IN
       [n \in DOMAIN r \ dead |-> r[n] - Cardinality(ParentEdges(dead, n))]

GcEnd ==
  /\ gcRunning
  /\ rc' = Swept[NumVars]
  /\ gcRunning' = FALSE
  /\ UNCHANGED <<cache, task>>

Next ==
  \/ \E id \in Ids : Step(id)
  \/ \E c \in Clients :
       \/ Return(c)
       \/ \E call \in ClientCalls[c], d \in 0 .. MaxDepth : Install(c, call, d)
  \/ GcBegin \/ GcEnd

\* The workers run: as long as a client waits, some task of its call proceeds.
Fairness ==
  \A c \in Clients : WF_vars(\E id \in Ids : id[1] = c /\ Step(id))

Spec == Init /\ [][Next]_vars /\ Fairness

-----------------------------------------------------------------------------
(* Properties *)

\* remaining_depth is only decremented while it is positive.
TypeOK ==
  /\ rc \in [DOMAIN rc -> Nat]
  /\ IsFiniteSet(DOMAIN rc) /\ Cardinality(DOMAIN rc) <= MaxNodes
  /\ gcRunning \in BOOLEAN
  /\ \A id \in Ids :
       /\ task[id].op \in Operators /\ task[id].args \in Operands(task[id].op, Nodes \cup Terminals)
       /\ task[id].sequential \in BOOLEAN /\ task[id].depth \in 0 .. MaxDepth
       /\ task[id].pc \in {"start", "then", "else", "join", "reduce", "add", "ok", "err"}

\* The edges that a task holds
HeldBy(id) == {<<id, "t", task[id].t>>, <<id, "e", task[id].e>>, <<id, "h", task[id].h>>}
Held == UNION {HeldBy(id) : id \in Ids}

\* Reference counts are exact at every step of every interleaving, also when the
\* memory runs out in one of two parallel calls: what the other one returned is
\* neither leaked nor dropped twice.
CountsExact ==
  \A n \in DOMAIN rc :
    rc[n] = Cardinality(ParentEdges(DOMAIN rc, n)) + Cardinality({n} \cap Owned)
              + Cardinality({x \in Held : x[3] = n})

InTable(e) == e = NoEdge \/ e \in DOMAIN rc \cup Terminals

\* The borrowed operands of a task, the edges it holds and the uncounted edges in
\* the cache refer to nodes in the tables, although the gc runs in between.
NoDangling ==
  /\ \A x \in Held : InTable(x[3])
  /\ \A id \in Ids : \A i \in DOMAIN task[id].args : InTable(task[id].args[i])
  /\ \A key \in DOMAIN cache : InTable(cache[key])

\* The unique tables hold a reduced ordered diagram, whatever the tasks insert.
TableReduced == IsDiagram(DOMAIN rc)

\* eval: the edges from f down to a terminal at the point p, level by level
Path(f, p) ==
  LET at[l \in 0 .. NumVars] ==
        IF l = 0 THEN f
        ELSE IF Level(at[l - 1]) # l - 1 THEN at[l - 1]
        ELSE IF l - 1 \in p THEN at[l - 1][2] ELSE at[l - 1][3]
  IN  at

Value(f, p) == Path(f, p)[NumVars][2]

\* The value of an operator with values v of the operands
Combined(op, v) ==
  CASE op = "not"   -> ~v[1]
    [] op = "and"   -> v[1] /\ v[2]
    [] op = "or"    -> v[1] \/ v[2]
    [] op = "nand"  -> ~(v[1] /\ v[2])
    [] op = "nor"   -> ~(v[1] \/ v[2])
    [] op = "xor"   -> v[1] # v[2]
    [] op = "equiv" -> v[1] = v[2]
    [] op = "imp"   -> v[1] => v[2]
    [] op = "imp_strict" -> ~v[1] /\ v[2]
    [] op = "ite"   -> IF v[1] THEN v[2] ELSE v[3]

Meaning(op, args, p) == Combined(op, [i \in DOMAIN args |-> Value(args[i], p)])

\* Whatever the split depth, the interleaving and the cache hits, a task that
\* succeeds returns the diagram of the function it was called for.
ResultRight ==
  \A id \in Ids : task[id].h # NoEdge =>
    \A p \in SUBSET Vars :
      Value(task[id].h, p) = Meaning(task[id].call[1], task[id].call[2], p)

\* Every call returns, with a result or out of memory.
CallEnds == \A c \in Clients : <<c>> \in Ids ~> IsDone(<<c>>)

=============================================================================
