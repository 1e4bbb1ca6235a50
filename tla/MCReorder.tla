------------------------------ MODULE MCReorder ------------------------------
(* Diagrams to reorder. The last level holds its variable (node 1) and the   *)
(* negation of it (node 2).                                                  *)
EXTENDS Reorder

CONSTANTS w1, w2

Entry(n, kids) == [edge |-> n, key |-> kids]

(* The diagram in which node n has level levels[n] and the children kids[n]. *)
Diagram(levels, kids, held, n_levels) ==
  LET used == DOMAIN kids
      all == [n \in Nodes |-> IF n \in used THEN kids[n] ELSE <<False, False>>]
  IN  [dd |-> [level |-> [n \in Nodes |-> IF n \in used THEN levels[n] ELSE 0],
               kids |-> all,
               rc |-> [n \in Nodes |->
                         IF n \in used
                         THEN 1 + Cardinality({p \in used \X (1 .. 2) : all[p[1]][p[2]] = n})
                                + (IF n \in held THEN 1 ELSE 0)
                         ELSE 0],
               table |-> [l \in LevelNos(n_levels) |->
                            {Entry(n, kids[n]) : n \in {m \in used : levels[m] = l}}],
               panicked |-> FALSE],
       roots |-> held]

Bottom == <<<<True, False>>, <<False, True>>>>

(* The exclusive or of each variable with the last one.                      *)
Xors == Diagram(<<4, 4, 0, 1, 2, 3>>,
                Bottom \o <<<<2, 1>>, <<2, 1>>, <<2, 1>>, <<2, 1>>>>, {3, 4, 5, 6}, 5)

(* A function of three variables over one of two, and two functions on the   *)
(* same level.                                                               *)
Shared == Diagram(<<3, 3, 2, 0, 1, 1>>,
                  Bottom \o <<<<2, 1>>, <<3, 1>>, <<3, 2>>, <<1, 2>>>>, {4, 5, 6}, 4)

(* Variables, as a client gets them from new_var.                            *)
Vars == Diagram(<<2, 1, 0>>,
                <<<<True, False>>, <<True, False>>, <<True, False>>>>, {1, 2, 3}, 3)

(* The last variable is held as well, so that it may be moved: the swap with *)
(* the level above replaces children.                                        *)
Held == Diagram(<<2, 2, 0, 1>>, Bottom \o <<<<2, 1>>, <<2, 1>>>>, {1, 3, 4}, 3)

HeldToo == Diagram(<<3, 3, 0, 1, 2>>,
                   Bottom \o <<<<2, 1>>, <<2, 1>>, <<2, 1>>>>, {1, 3, 4, 5}, 4)

MCDiagrams == {Xors, Shared, Vars, Held, HeldToo}

BottomToo == {Held}

MCWorkers == {w1, w2}
=============================================================================
