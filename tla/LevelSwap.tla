------------------------------ MODULE LevelSwap ------------------------------
(* crates/oxidd-reorder/src/lib.rs, `level_down`: swap a level with the one  *)
(* below by editing the nodes in place, on the unique tables of the pointer  *)
(* based manager (crates/oxidd-manager-pointer/src/manager.rs, LevelView and *)
(* LevelViewSet) and with the rules of simple BDDs.                          *)
(*                                                                           *)
(* A diagram d is a record:                                                  *)
(*   d.level  [node -> level number stored in the node]                      *)
(*   d.kids   [node -> <<edge, edge>>]                                       *)
(*   d.rc     [node -> reference count, the unique table's edge included]    *)
(*   d.table  [level -> set of entries]: an entry holds an edge and the      *)
(*            children it was hashed with, `key`. A search for children k    *)
(*            finds an entry only if k has its hash and equals the node's    *)
(*            present children.                                              *)
(*   d.panicked  level_down panicked, the process is aborted                 *)
(* Edges are the nodes 1, 2, ... and the terminals False and True.           *)
EXTENDS Integers, Sequences, SequencesExt, FiniteSetsExt

CONSTANT MaxNodes       \* bound on the node numbers

Nodes == 1 .. MaxNodes
False == -1
True == 0
Edges == Nodes \cup {False, True}
IsInner(e) == e > 0

Free == <<False, False>>        \* stands for the children of a free slot

-----------------------------------------------------------------------------
(* Reference counts: clone_edge, drop_edge, and dropping a table's own edge, *)
(* which frees the node with the last reference and drops its children. Only *)
(* that frees a node: one whose count drop_edge brings to 0 is lost with its *)
(* children.                                                                 *)

clone_edge(d, e) == IF IsInner(e) THEN [d EXCEPT !.rc[e] = @ + 1] ELSE d

drop_edge(d, e) == IF IsInner(e) THEN [d EXCEPT !.rc[e] = @ - 1] ELSE d

drop_from_unique_table(d, e) ==
  LET r == [d EXCEPT !.rc[e] = @ - 1]
  IN  IF d.rc[e] = 1
      THEN drop_edge(drop_edge([r EXCEPT !.kids[e] = Free], d.kids[e][1]), d.kids[e][2])
      ELSE r

-----------------------------------------------------------------------------
(* LevelViewSet: get, insert, get_or_insert and remove on a set of entries.  *)

Found(d, set, k) == {x \in set : x.key = k /\ d.kids[x.edge] = k}

Get(d, set, k) == (CHOOSE x \in Found(d, set, k) : TRUE).edge

(* insert takes the counted edge e; if an equal node is there, e is dropped. *)
insert(d, l, e) ==
  IF Found(d, d.table[l], d.kids[e]) # {}
  THEN drop_edge(d, e)
  ELSE [d EXCEPT !.table[l] = @ \cup {[edge |-> e, key |-> d.kids[e]]}]

Unused(d) == {n \in Nodes : d.rc[n] = 0 /\ d.kids[n] = Free}

(* get_or_insert owns the children's references; a new node has count 2, for *)
(* the table and for the returned edge.                                      *)
get_or_insert(d, l, k) ==
  IF Found(d, d.table[l], k) # {}
  THEN LET e == Get(d, d.table[l], k)
       IN  [dd |-> clone_edge(drop_edge(drop_edge(d, k[1]), k[2]), e), edge |-> e]
  ELSE LET e == Min(Unused(d))
       IN  [dd |-> [d EXCEPT !.level[e] = l, !.kids[e] = k, !.rc[e] = 2,
                             !.table[l] = @ \cup {[edge |-> e, key |-> k]}],
            edge |-> e]

remove(d, l, e) ==
  LET hit == Found(d, d.table[l], d.kids[e])
  IN  IF hit = {} THEN d
      ELSE drop_from_unique_table([d EXCEPT !.table[l] = @ \ hit],
                                  Get(d, d.table[l], d.kids[e]))

(* LevelView::swap exchanges the two sets of nodes.                          *)
swap(d, u) == [d EXCEPT !.table[u] = d.table[u + 1], !.table[u + 1] = d.table[u]]

-----------------------------------------------------------------------------
(* BDDRules::reduce at level `lower`, then a search among the nodes that are *)
(* being moved and in the table of the lower level.                          *)
reduce_and_get(d, taken, lower, k) ==
  LET c == clone_edge(clone_edge(d, k[1]), k[2])
  IN  IF k[1] = k[2]
      THEN [dd |-> drop_edge(c, k[2]), edge |-> k[1]]
      ELSE IF Found(c, taken, k) # {}
           THEN LET e == Get(c, taken, k)
                IN  [dd |-> clone_edge(drop_edge(drop_edge(c, k[1]), k[2]), e), edge |-> e]
           ELSE get_or_insert(c, lower, k)

(* The cofactors of child c: only a child on the lower level is taken apart. *)
grandchildren(d, lower, c) ==
  IF d.level[c] = lower THEN d.kids[c] ELSE <<c, c>>

(* An old child that only node e and the unique table refer to is removed.   *)
remove_if_last(d, u, c) ==
  IF d.level[c] = u /\ d.rc[c] - 1 = 1 THEN remove(d, u, c) ELSE d

\* Mutant: the reference to the old child is not given back.
SetChildKeepsOld(d, e, i, c) == [d EXCEPT !.kids[e][i] = c]

set_child(d, e, i, c) == drop_edge([d EXCEPT !.kids[e][i] = c], d.kids[e][i])

move_down(d, u, e) ==
  insert(clone_edge([d EXCEPT !.level[e] = u + 1], e), u + 1, e)

rebuild(d, taken, u, e) ==
  LET kids == d.kids[e]
      g == [i \in 1 .. 2 |-> grandchildren(d, u + 1, kids[i])]
      r1 == reduce_and_get(d, taken, u + 1, <<g[1][1], g[2][1]>>)
      r2 == reduce_and_get(r1.dd, taken, u + 1, <<g[1][2], g[2][2]>>)
      freed == remove_if_last(remove_if_last(r2.dd, u, kids[1]), u, kids[2])
      kept == insert(clone_edge(freed, e), u, e)
  IN  set_child(set_child(kept, e, 1, r1.edge), e, 2, r2.edge)

(* One round of the loop over the nodes of the old upper level. Every child  *)
(* is asked for its level with unwrap_inner, which panics on a terminal.     *)
visit(d, taken, u, e) ==
  IF d.panicked THEN d
  ELSE IF \E i \in 1 .. 2 : ~IsInner(d.kids[e][i])
       THEN [d EXCEPT !.panicked = TRUE]
       ELSE IF \A i \in 1 .. 2 : d.level[d.kids[e][i]] > u + 1
            THEN move_down(d, u, e)
            ELSE rebuild(d, taken, u, e)

(* The nodes in the table of level u get the number u.                       *)
set_levels(d, u) ==
  [d EXCEPT !.level = [n \in Nodes |-> IF \E x \in d.table[u] : x.edge = n THEN u ELSE @[n]]]

(* The loop over the nodes of the old upper level, and dropping the edges    *)
(* that were taken from its table.                                           *)
Visited(d, taken, u, visits) ==
  LET after[i \in 0 .. Len(visits)] ==
        IF i = 0 THEN d ELSE visit(after[i - 1], taken, u, visits[i])
  IN  after[Len(visits)]

Dropped(d, visits) ==
  LET after[i \in 0 .. Len(visits)] ==
        IF i = 0 THEN d ELSE drop_from_unique_table(after[i - 1], visits[i])
  IN  after[Len(visits)]

(* level_down: swap the tables, number the nodes that moved up, take the     *)
(* nodes of the old upper level out, visit them in table order (some order), *)
(* and drop the taken edges.                                                 *)
level_down(d, u, visits) ==
  LET s == swap(d, u)
      start == [set_levels(s, u) EXCEPT !.table[u + 1] = {}]
      visited == Visited(start, s.table[u + 1], u, visits)
  IN  IF visited.panicked THEN visited ELSE Dropped(visited, visits)

(* The orders in which the nodes of level u may be visited.                  *)
Visits(d, u) == SetToSeqs({x.edge : x \in d.table[u]})
=============================================================================
