------------------------------ MODULE SortOrder ------------------------------
(* The target order of a reordering: crates/oxidd-reorder/src/lib.rs,        *)
(* `sort_order` and the segment tree `MinSegTree` it uses to give the levels *)
(* that the caller did not list a place that costs the fewest swaps.         *)
(* Levels and tree positions are numbered as in the code: levels from 0, the *)
(* root of the tree is 1 and the children of node i are 2i and 2i + 1.       *)
EXTENDS Integers, Sequences, SequencesExt, FiniteSetsExt

I32Max == 2147483647       \* i32::MAX, the value of unused leaves

LevelNos(n) == 0 .. (n - 1)

-----------------------------------------------------------------------------
(* MinSegTree: delta is added to the whole subtree, min is the minimum of    *)
(* the subtree with the node's own delta included.                           *)

PowerOfTwoFrom(n) == CHOOSE p \in {1, 2, 4, 8, 16} : p >= n /\ p < 2 * n

Size(tree) == (Len(tree) + 1) \div 2       \* the code's vector has an entry 0

(* The same tree. TLC re-evaluates a recursively defined function at every   *)
(* use; a sequence operator turns it into a tuple of values once.            *)
Evaluated(tree) == SubSeq(tree, 1, Len(tree))

LesserMin(tree, i) == Min({tree[2 * i].min, tree[2 * i + 1].min})

(* MinSegTree::new(0 .. len): the leaf of index k holds k.                   *)
new(len) ==
  LET size == PowerOfTwoFrom(len)
      Leaf(k) == LET v == IF k < len THEN k ELSE I32Max
                 IN  [delta |-> v, min |-> v]
      tree[i \in 1 .. 2 * size - 1] ==
        IF i >= size
        THEN Leaf(i - size)
        ELSE [delta |-> 0, min |-> LesserMin(tree, i)]
  IN  Evaluated(tree)

(* The indices below node x are First(x) .. First(x) + Width(x) - 1.         *)
Span(tree) ==
  LET span[x \in DOMAIN tree] ==
        IF x = 1 THEN [first |-> 0, width |-> Size(tree)]
        ELSE LET up == span[x \div 2]
                 half == up.width \div 2
             IN  [first |-> up.first + (x % 2) * half, width |-> half]
  IN  Evaluated(span)

\* Mutant: the minimum is left as it was.
UpdatedDeltaOnly(entry, d) == [entry EXCEPT !.delta = @ + d]

updated(entry, d) ==
  IF entry.min = I32Max
  THEN entry
  ELSE [delta |-> entry.delta + d, min |-> entry.min + d]

(* MinSegTree::add_split: add `left` below index i and `right` from i on. The *)
(* walk from the root updates the largest subtrees that lie on one side of i  *)
(* and then recomputes the minima of the nodes it came through.               *)
add_split(tree, i, left, right) ==
  LET span == Span(tree)
      LeftOf(x) == span[x].first + span[x].width <= i
      RightOf(x) == span[x].first >= i
      OneSided(x) == LeftOf(x) \/ RightOf(x)
      new_tree[x \in DOMAIN tree] ==
        IF x > 1 /\ OneSided(x \div 2)
        THEN tree[x]
        ELSE CASE LeftOf(x) -> updated(tree[x], left)
               [] RightOf(x) -> updated(tree[x], right)
               [] OTHER -> [delta |-> tree[x].delta,
                            min |-> tree[x].delta + LesserMin(new_tree, x)]
  IN  Evaluated(new_tree)

(* MinSegTree::min_index: the smaller child, the left one on a tie, down to   *)
(* a leaf.                                                                    *)
min_index(tree) ==
  LET walk[i \in DOMAIN tree] ==
        IF i >= Size(tree)
        THEN i - Size(tree)
        ELSE IF tree[2 * i].min <= tree[2 * i + 1].min
             THEN walk[2 * i]
             ELSE walk[2 * i + 1]
  IN  walk[1]

-----------------------------------------------------------------------------
(* sort_order: the level listed k-th gets the value k (from 0); the levels    *)
(* that are not listed get, from the top level down, the value with the       *)
(* least cost among 0 .. Len(input).                                          *)

Listed(input) == ToSet(input)

IndexIn(input, level) == (CHOOSE k \in DOMAIN input : input[k] = level) - 1

sort_order(num_levels, input) ==
  LET Place(acc, level) ==
        IF level \in Listed(input)
        THEN [tree |-> add_split(acc.tree, IndexIn(input, level) + 1, 1, -1),
              order |-> Append(acc.order, IndexIn(input, level))]
        ELSE [acc EXCEPT !.order = Append(@, min_index(acc.tree))]
      levels == [k \in 1 .. num_levels |-> k - 1]
      placed == FoldLeft(Place, [tree |-> new(Len(input) + 1), order |-> <<>>], levels)
  IN  [level \in LevelNos(num_levels) |-> placed.order[level + 1]]

(* The number of neighbour swaps that sorting a target order takes.           *)
Inversions(target) ==
  Cardinality({p \in (DOMAIN target) \X (DOMAIN target) :
                 p[1] < p[2] /\ target[p[1]] > target[p[2]]})
=============================================================================
