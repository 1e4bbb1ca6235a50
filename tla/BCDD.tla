-------------------------------- MODULE BCDD --------------------------------
(***************************************************************************)
(* Binary decision diagrams with complemented edges                        *)
(* (crates/oxidd-rules-bdd/src/complement_edge/mod.rs and apply_rec.rs).   *)
(*                                                                         *)
(* An edge is <<level, then, else, complemented>>; the only terminal is    *)
(* true, at level NumVars.  Nodes are shared as in module BDD.             *)
(***************************************************************************)
EXTENDS BooleanCalls, Saturating

VARIABLE reg        \* the edges the client owns

get_terminal(b) == <<NumVars, 0, 0, ~b>>
IsInner(f)      == f[1] < NumVars
Level(f)        == f[1]
Tag(f)          == f[4]
WithTag(f, tag) == [f EXCEPT ![4] = tag]
not(f)          == [f EXCEPT ![4] = ~@]
is_false(f)     == f = get_terminal(FALSE)

Min(a, b) == IF a <= b THEN a ELSE b

\* Mutant: the complement stays on the then edge.
ReduceKeepsTag(level, t, e) == IF t = e THEN t ELSE <<level, t, e, FALSE>>

\* The then edge of a node is never complemented.
reduce(level, t, e) ==
  IF t = e THEN t
  ELSE IF Tag(t) THEN <<level, not(t), not(e), TRUE>>
  ELSE <<level, t, e, FALSE>>

\* AsciiDisplay and FromStr of BCDDTerminal, which accepts every text
describe(terminal) == "T"
from_str(s)        == {get_terminal(TRUE)}

\* Cofactors of f with respect to the variable at a level not below f's.
Cofactor(f, i) == IF Tag(f) THEN not(f[i]) ELSE f[i]
Then(f, level) == IF Level(f) = level THEN Cofactor(f, 2) ELSE f
Else(f, level) == IF Level(f) = level THEN Cofactor(f, 3) ELSE f

-----------------------------------------------------------------------------
(* apply_bin, apply_ite *)

Done(f) == <<"Done", f>>
Nodes   == <<"Nodes">>

terminal_and(f, g) ==
  IF WithTag(f, FALSE) = WithTag(g, FALSE) THEN
    Done(IF Tag(f) = Tag(g) THEN g ELSE get_terminal(FALSE))
  ELSE IF IsInner(f) /\ IsInner(g) THEN Nodes
  ELSE LET h == IF IsInner(f) THEN f ELSE g
           tag == IF IsInner(f) THEN Tag(g) ELSE Tag(f) IN
       Done(IF tag THEN get_terminal(FALSE) ELSE h)

terminal_xor(f, g) ==
  IF WithTag(f, FALSE) = WithTag(g, FALSE) THEN Done(get_terminal(Tag(f) # Tag(g)))
  ELSE IF IsInner(f) /\ IsInner(g) THEN Nodes
  ELSE LET h == IF IsInner(f) THEN f ELSE g
           tag == IF IsInner(f) THEN Tag(g) ELSE Tag(f) IN
       Done(IF tag THEN h ELSE not(h))

terminal_bin(op, f, g) == IF op = "xor" THEN terminal_xor(f, g) ELSE terminal_and(f, g)

RECURSIVE apply_bin(_, _, _)
apply_bin(op, f, g) ==
  LET operation == terminal_bin(op, f, g)
      level == Min(Level(f), Level(g)) IN
  IF operation # Nodes THEN operation[2]
  ELSE reduce(level, apply_bin(op, Then(f, level), Then(g, level)),
                     apply_bin(op, Else(f, level), Else(g, level)))

apply_and(f, g) == apply_bin("and", f, g)

\* The native operators are and, xor; the others are complements.
Or(f, g)        == not(apply_and(not(f), not(g)))
ImpStrict(f, g) == apply_and(not(f), g)
Imp(f, g)       == not(apply_and(f, not(g)))

bin_edge(op, f, g) ==
  CASE op = "and"   -> apply_and(f, g)
    [] op = "or"    -> Or(f, g)
    [] op = "nand"  -> not(apply_and(f, g))
    [] op = "nor"   -> apply_and(not(f), not(g))
    [] op = "xor"   -> apply_bin("xor", f, g)
    [] op = "equiv" -> not(apply_bin("xor", f, g))
    [] op = "imp"   -> Imp(f, g)
    [] op = "imp_strict" -> ImpStrict(f, g)

RECURSIVE apply_ite(_, _, _)
apply_ite(f, g, h) ==
  LET level == Min(Level(f), Min(Level(g), Level(h)))
      fu == WithTag(f, FALSE)
      gu == WithTag(g, FALSE)
      hu == WithTag(h, FALSE) IN
  IF gu = hu THEN (IF Tag(g) = Tag(h) THEN g ELSE not(apply_bin("xor", f, g)))
  ELSE IF fu = gu THEN (IF Tag(f) = Tag(g) THEN Or(f, h) ELSE ImpStrict(f, h))
  ELSE IF fu = hu THEN (IF Tag(f) = Tag(h) THEN apply_and(f, g) ELSE Imp(f, g))
  ELSE IF ~IsInner(f) THEN (IF Tag(f) THEN h ELSE g)
  ELSE IF ~IsInner(g) THEN (IF Tag(g) THEN ImpStrict(f, h) ELSE Or(f, h))
  ELSE IF ~IsInner(h) THEN (IF Tag(h) THEN apply_and(f, g) ELSE Imp(f, g))
  ELSE reduce(level, apply_ite(Then(f, level), Then(g, level), Then(h, level)),
                     apply_ite(Else(f, level), Else(g, level), Else(h, level)))

-----------------------------------------------------------------------------
(* substitute *)

new_var(x) == <<x, get_terminal(TRUE), get_terminal(FALSE), FALSE>>

\* An entry for every level down to the lowest variable that is replaced
substitute_prepare(subst) ==
  LET len == CHOOSE n \in 0 .. NumVars :
               /\ \A x \in DOMAIN subst : x < n
               /\ n = 0 \/ n - 1 \in DOMAIN subst IN
  [x \in 0 .. len - 1 |-> IF x \in DOMAIN subst THEN subst[x] ELSE new_var(x)]

RECURSIVE substitute(_, _)
substitute(f, subst) ==
  IF ~IsInner(f) \/ Level(f) \notin DOMAIN subst THEN f
  ELSE apply_ite(subst[Level(f)], substitute(Cofactor(f, 2), subst),
                                  substitute(Cofactor(f, 3), subst))

-----------------------------------------------------------------------------
(* restrict and the quantifications *)

\* f is taken to be complemented iff f_neg, v iff v_neg, whatever their tags
\* say.  The topmost literal of v is negative iff its then child is the
\* terminal and v is complemented.
RECURSIVE restrict_inner(_, _, _, _)
restrict_inner(f, f_neg, v, v_neg) ==
  LET negative == ~IsInner(v[2]) /\ v_neg
      rest     == IF negative THEN v[3] ELSE v[2]
      rest_neg == v_neg # Tag(rest)
      next     == IF Level(v) < Level(f) THEN f ELSE IF negative THEN f[3] ELSE f[2]
      next_neg == IF Level(v) < Level(f) THEN f_neg ELSE f_neg # Tag(next) IN
  IF Level(v) > Level(f)
  THEN [f |-> f, f_neg |-> f_neg, vars |-> WithTag(v, v_neg), done |-> FALSE]
  ELSE IF IsInner(rest) /\ IsInner(next)
  THEN restrict_inner(next, next_neg, rest, rest_neg)
  ELSE [f |-> WithTag(next, next_neg), done |-> TRUE]

\* The result for the untagged f gets the tag of f.
RestrictTag(result, f_neg) == WithTag(result, Tag(result) # f_neg)

RECURSIVE restrict(_, _)
restrict(f, v) ==
  LET inner == restrict_inner(f, Tag(f), v, Tag(v)) IN
  IF ~IsInner(f) \/ ~IsInner(v) THEN f
  ELSE IF inner.done THEN inner.f
  ELSE RestrictTag(
         reduce(Level(inner.f), restrict(inner.f[2], inner.vars),
                                restrict(inner.f[3], inner.vars)),
         inner.f_neg)

RECURSIVE set_pop(_, _)
set_pop(set, until) ==
  IF Level(set) < until /\ IsInner(set) THEN set_pop(set[2], until) ELSE set

QuantVars(q, v, level) == IF q = "unique" THEN v ELSE set_pop(v, level)

\* The cofactors combined
Combine(q, t, e) ==
  CASE q = "forall" -> apply_and(t, e)
    [] q = "exist"  -> not(apply_and(not(t), not(e)))
    [] q = "unique" -> apply_bin("xor", t, e)

RECURSIVE quant(_, _, _)
quant(q, f, v) ==
  LET w == QuantVars(q, v, Level(f))
      rest == IF Level(w) = Level(f) THEN w[2] ELSE w
      t == quant(q, Cofactor(f, 2), rest)
      e == quant(q, Cofactor(f, 3), rest) IN
  IF ~IsInner(f) THEN (IF q # "unique" \/ ~IsInner(v) THEN f ELSE get_terminal(FALSE))
  ELSE IF ~IsInner(w) THEN f
  ELSE IF q = "unique" /\ Level(w) < Level(f) THEN get_terminal(FALSE)
  ELSE IF Level(w) = Level(f) THEN Combine(q, t, e)
  ELSE reduce(Level(f), t, e)

\* op is and, xor or, for unique quantification only, nand.
RECURSIVE apply_quant(_, _, _, _, _)
apply_quant(q, op, f, g, v) ==
  LET operation == terminal_bin(op, f, g)
      Applied == IF op = "nand" THEN not(apply_and(f, g)) ELSE apply_bin(op, f, g)
      min_level == Min(Level(f), Level(g))
      w == QuantVars(q, v, min_level)
      rest == IF Level(w) = min_level THEN w[2] ELSE w
      t == apply_quant(q, op, Then(f, min_level), Then(g, min_level), rest)
      e == apply_quant(q, op, Else(f, min_level), Else(g, min_level), rest) IN
  IF operation # Nodes THEN
    quant(q, IF op = "nand" THEN not(operation[2]) ELSE operation[2], v)
  ELSE IF ~IsInner(w) THEN Applied
  ELSE IF Level(w) < min_level THEN
    (IF q = "unique" THEN get_terminal(FALSE) ELSE Applied)
  ELSE IF Level(w) = min_level THEN Combine(q, t, e)
  ELSE reduce(min_level, t, e)

\* forall and exist: the dual quantifier qn under a complement
apply_quant_dispatch(q, qn, op, f, g, v) ==
  CASE op = "and"   -> apply_quant(q, "and", f, g, v)
    [] op = "or"    -> not(apply_quant(qn, "and", not(f), not(g), v))
    [] op = "xor"   -> apply_quant(q, "xor", f, g, v)
    [] op = "equiv" -> not(apply_quant(qn, "xor", f, g, v))
    [] op = "nand"  -> not(apply_quant(qn, "and", f, g, v))
    [] op = "nor"   -> apply_quant(q, "and", not(f), not(g), v)
    [] op = "imp"   -> not(apply_quant(qn, "and", f, not(g), v))
    [] op = "imp_strict" -> apply_quant(q, "and", not(f), g, v)

apply_quant_unique_dispatch(op, f, g, v) ==
  CASE op = "and"   -> apply_quant("unique", "and", f, g, v)
    [] op = "or"    -> apply_quant("unique", "nand", not(f), not(g), v)
    [] op = "xor"   -> apply_quant("unique", "xor", f, g, v)
    [] op = "equiv" -> apply_quant("unique", "xor", not(f), g, v)
    [] op = "nand"  -> apply_quant("unique", "nand", f, g, v)
    [] op = "nor"   -> apply_quant("unique", "and", not(f), not(g), v)
    [] op = "imp"   -> apply_quant("unique", "nand", f, not(g), v)
    [] op = "imp_strict" -> apply_quant("unique", "and", not(f), g, v)

apply_quant_edge(q, op, f, g, v) ==
  CASE q = "forall" -> apply_quant_dispatch("forall", "exist", op, f, g, v)
    [] q = "exist"  -> apply_quant_dispatch("exist", "forall", op, f, g, v)
    [] q = "unique" -> apply_quant_unique_dispatch(op, f, g, v)

-----------------------------------------------------------------------------
(* eval, sat_count, pick_cube *)

RECURSIVE EvalInner(_, _, _)
EvalInner(f, complement, values) ==
  LET c == complement # Tag(f) IN
  IF IsInner(f) THEN EvalInner(IF Level(f) \in values THEN f[2] ELSE f[3], c, values)
                ELSE ~c

eval(f, values) == EvalInner(f, FALSE, values)

Complement(tag, n, terminal_val) == IF tag THEN Sub(terminal_val, n) ELSE n

\* The models of the node below f, whatever f's tag
RECURSIVE SatCountInner(_, _)
SatCountInner(f, terminal_val) ==
  LET Child(c) == Complement(Tag(c), SatCountInner(c, terminal_val), terminal_val) IN
  IF IsInner(f) THEN Shr(Add(Child(f[2]), Child(f[3])), 1) ELSE terminal_val

sat_count(f, n) == Complement(Tag(f), SatCountInner(f, One(n)), One(n))

\* The branch pick_cube takes at f: the only satisfiable one or else the choice.
Branch(f, c) ==
  IF is_false(Cofactor(f, 2)) THEN FALSE ELSE IF is_false(Cofactor(f, 3)) THEN TRUE ELSE c
Follow(f, c) == Cofactor(f, IF c THEN 2 ELSE 3)

\* A cube as a vector
RECURSIVE PickCubeInner(_, _, _)
PickCubeInner(f, choice, cube) ==
  LET c == Branch(f, Level(f) \in choice) IN
  IF ~IsInner(f) THEN cube
  ELSE PickCubeInner(Follow(f, c), choice,
         [cube EXCEPT ![Level(f)] = IF c THEN "true" ELSE "false"])

pick_cube(f, choice) ==
  IF is_false(f) THEN NoCube
  ELSE PickCubeInner(f, choice, [x \in Vars |-> "dont_care"])

add_literal_to_cube(sub, level, positive) ==
  IF ~positive THEN <<level, get_terminal(TRUE), not(sub), TRUE>>
  ELSE IF Tag(sub) THEN <<level, not(sub), get_terminal(TRUE), TRUE>>
  ELSE <<level, sub, get_terminal(FALSE), FALSE>>

RECURSIVE pick_cube_symbolic(_, _)
pick_cube_symbolic(f, choice) ==
  LET c == Branch(f, Level(f) \in choice) IN
  IF ~IsInner(f) THEN f
  ELSE add_literal_to_cube(pick_cube_symbolic(Follow(f, c), choice), Level(f), c)

RECURSIVE pick_cube_symbolic_set(_, _)
pick_cube_symbolic_set(f, literal_set) ==
  LET set  == set_pop(literal_set, Level(f))
      here == Level(set) = Level(f)
      positive == here /\ is_false(Cofactor(set, 3))
      rest == IF ~here THEN set ELSE Cofactor(set, IF positive THEN 3 ELSE 2)
      c    == Branch(f, positive) IN
  IF ~IsInner(f) THEN f
  ELSE add_literal_to_cube(pick_cube_symbolic_set(Follow(f, c), rest), Level(f), c)

-----------------------------------------------------------------------------
(* The client *)

Edge(o) ==
  IF o \in Regs THEN reg[o] ELSE bin_edge(o[1], new_var(o[2]), new_var(o[3]))

\* The diagram of a conjunction of literals over the variables from x on
RECURSIVE Conjunction(_, _)
Conjunction(l, x) ==
  IF x = NumVars THEN get_terminal(TRUE)
  ELSE LET rest == Conjunction(l, x + 1) IN
       IF x \in l.pos THEN reduce(x, rest, get_terminal(FALSE))
       ELSE IF x \in l.neg THEN reduce(x, get_terminal(FALSE), rest)
       ELSE rest

LiteralsEdge(l) == Conjunction(l, 0)
VarsEdge(S)     == LiteralsEdge([pos |-> S, neg |-> {}])

Result(c) ==
  CASE c.kind = "const" -> get_terminal(c.value)
    [] c.kind = "var"   -> new_var(c.var)
    [] c.kind = "not"   -> not(Edge(c.f))
    [] c.kind = "bin"   -> bin_edge(c.op, Edge(c.f), Edge(c.g))
    [] c.kind = "ite"   -> apply_ite(Edge(c.f), Edge(c.g), Edge(c.h))
    [] c.kind = "substitute" ->
         substitute(reg[c.f],
           substitute_prepare([x \in DOMAIN c.subst |-> Edge(c.subst[x])]))
    [] c.kind = "restrict" -> restrict(reg[c.f], LiteralsEdge(c.lits))
    [] c.kind = "quant" -> quant(c.q, reg[c.f], VarsEdge(c.vars))
    [] c.kind = "apply_quant" ->
         apply_quant_edge(c.q, c.op, reg[c.f], Edge(c.g), VarsEdge(c.vars))
    [] c.kind = "eval"  -> eval(reg[c.f], c.point)
    [] c.kind = "sat_count" -> sat_count(reg[c.f], c.n)
    [] c.kind = "pick_cube" -> pick_cube(reg[c.f], c.choice)
    [] c.kind = "pick_cube_symbolic" -> pick_cube_symbolic(reg[c.f], c.choice)
    [] c.kind = "pick_cube_symbolic_set" ->
         pick_cube_symbolic_set(reg[c.f], LiteralsEdge(c.lits))

\* Ordered, reduced and canonical: children are at lower levels and differ, no
\* then edge is complemented.
RECURSIVE IsBCDD(_)
IsBCDD(f) ==
  \/ f \in {get_terminal(FALSE), get_terminal(TRUE)}
  \/ /\ Level(f) \in Vars
     /\ f[2] # f[3] /\ ~Tag(f[2])
     /\ \A i \in 2 .. 3 : Level(f[i]) > Level(f) /\ IsBCDD(f[i])

=============================================================================
