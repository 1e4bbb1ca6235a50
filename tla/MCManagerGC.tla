---------------------------- MODULE MCManagerGC -----------------------------
(* Instances of ManagerGC for TLC. *)
EXTENDS ManagerGC, TLC

CONSTANTS a, b, n1, n2, t1, t2, h1, h2, h3, v1, v2

\* The operands are spread over the entries of the cache.
Spread == [x \in InnerIds |-> IF x = n1 THEN 1 ELSE NumEntries]

\* Spread tells inner ids apart.
SpreadSymmetry ==
  Permutations(Threads) \cup Permutations(Handles)
    \cup Permutations(Values) \cup Permutations(TermIds)

\* Three live nodes are enough for a chain over two levels, and for a table that
\* loses one node, keeps another and gets its duplicate.
FewNodes == Cardinality({id \in Ids : Live(id)}) <= 3

=============================================================================
