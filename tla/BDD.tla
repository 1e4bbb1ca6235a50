-------------------------------- MODULE BDD ---------------------------------
(***************************************************************************)
(* Simple binary decision diagrams without complemented edges              *)
(* (crates/oxidd-rules-bdd/src/simple/mod.rs and apply_rec.rs).            *)
(*                                                                         *)
(* An inner node is <<level, then, else>>, a terminal <<NumVars, b, b>>.   *)
(* Nodes with equal level and children are the same node, as long as the   *)
(* unique tables find the nodes they hold: ManagerGC shows when they do,   *)
(* and models the running out of memory.  The apply cache only repeats     *)
(* results of the same operator and operands.                              *)
(***************************************************************************)
EXTENDS BooleanCalls, Saturating

VARIABLE reg        \* the edges the client owns

INSTANCE BDDCases

Min(a, b) == IF a <= b THEN a ELSE b

reduce(level, t, e) == IF t = e THEN t ELSE <<level, t, e>>

\* AsciiDisplay and FromStr of BDDTerminal
describe(terminal) == IF terminal = True THEN "T" ELSE "F"
from_str(s) == CASE s = "T" -> {True} [] s = "F" -> {False} [] OTHER -> {}

\* Cofactors of f with respect to the variable at a level not below f's.
Then(f, level) == IF Level(f) = level THEN f[2] ELSE f
Else(f, level) == IF Level(f) = level THEN f[3] ELSE f

-----------------------------------------------------------------------------
(* apply_not, apply_bin, apply_ite *)

RECURSIVE apply_not(_)
apply_not(f) ==
  IF IsInner(f) THEN reduce(Level(f), apply_not(f[2]), apply_not(f[3]))
                ELSE Terminal(~f[2])

RECURSIVE apply_bin(_, _, _)
apply_bin(op, f, g) ==
  LET operation == terminal_bin(op, f, g)
      level == Min(Level(f), Level(g)) IN
  CASE operation[1] = "Done" -> operation[2]
    [] operation[1] = "Not"  -> apply_not(operation[2])
    [] operation[1] = "Binary" ->
         reduce(level, apply_bin(op, Then(f, level), Then(g, level)),
                       apply_bin(op, Else(f, level), Else(g, level)))

RECURSIVE apply_ite(_, _, _)
apply_ite(f, g, h) ==
  LET operation == terminal_ite(f, g, h)
      level == Min(Level(f), Min(Level(g), Level(h))) IN
  CASE operation[1] = "Done"  -> operation[2]
    [] operation[1] = "Not"   -> apply_not(operation[2])
    [] operation[1] = "Apply" -> apply_bin(operation[2], operation[3], operation[4])
    [] operation[1] = "Ternary" ->
         reduce(level, apply_ite(Then(f, level), Then(g, level), Then(h, level)),
                       apply_ite(Else(f, level), Else(g, level), Else(h, level)))

-----------------------------------------------------------------------------
(* substitute *)

\* subst: a map from variables to edges.  The result has an entry for every
\* level down to the lowest variable: the variable's own function, unless it is
\* replaced.
substitute_prepare(subst) ==
  LET len == CHOOSE n \in 0 .. NumVars :
               /\ \A x \in DOMAIN subst : x < n
               /\ n = 0 \/ n - 1 \in DOMAIN subst IN
  [x \in 0 .. len - 1 |-> IF x \in DOMAIN subst THEN subst[x] ELSE <<x, True, False>>]

RECURSIVE substitute(_, _)
substitute(f, subst) ==
  IF ~IsInner(f) \/ Level(f) \notin DOMAIN subst THEN f
  ELSE apply_ite(subst[Level(f)], substitute(f[2], subst), substitute(f[3], subst))

-----------------------------------------------------------------------------
(* restrict and the quantifications *)

\* vars is a conjunction of literals; the literals above f or at its level are
\* consumed.  The result: nothing of vars is left (Done), or the topmost
\* literal is below f.
RECURSIVE restrict_inner(_, _)
restrict_inner(f, v) ==
  LET rest == IF v[2] = False THEN v[3] ELSE v[2]
      next == IF Level(v) < Level(f) THEN f
              ELSE IF v[2] = False THEN f[3] ELSE f[2] IN
  IF Level(v) > Level(f) THEN <<"Rec", f, v>>
  ELSE IF IsInner(rest) /\ IsInner(next) THEN restrict_inner(next, rest)
  ELSE Done(next)

RECURSIVE restrict(_, _)
restrict(f, v) ==
  LET inner == restrict_inner(f, v)
      f2 == inner[2] IN
  IF ~IsInner(f) \/ ~IsInner(v) THEN f
  ELSE IF inner[1] = "Done" THEN f2
  ELSE reduce(Level(f2), restrict(f2[2], inner[3]), restrict(f2[3], inner[3]))

RECURSIVE set_pop(_, _)
set_pop(set, until) ==
  IF Level(set) < until /\ IsInner(set) THEN set_pop(set[2], until) ELSE set

\* Q as the operator that combines the cofactors
QuantOp == [forall |-> "and", exist |-> "or", unique |-> "xor"]

\* Mutant: variables above f are dropped for every quantifier.
QuantVarsPopped(q, v, level) == set_pop(v, level)

\* Variables above f do not matter, except for unique quantification.
QuantVars(q, v, level) == IF q = "unique" THEN v ELSE set_pop(v, level)

RECURSIVE quant(_, _, _)
quant(q, f, v) ==
  LET w == QuantVars(q, v, Level(f))
      level == Level(f)
      rest == IF Level(w) = level THEN w[2] ELSE w
      t == quant(q, f[2], rest)
      e == quant(q, f[3], rest) IN
  IF ~IsInner(f) THEN (IF q # "unique" \/ ~IsInner(v) THEN f ELSE False)
  ELSE IF ~IsInner(w) THEN f
  ELSE IF q = "unique" /\ Level(w) < level THEN False
  ELSE IF Level(w) = level THEN apply_bin(QuantOp[q], t, e)
  ELSE reduce(level, t, e)

RECURSIVE apply_quant(_, _, _, _, _)
apply_quant(q, op, f, g, v) ==
  LET operation == terminal_bin(op, f, g)
      min_level == Min(Level(f), Level(g))
      w == QuantVars(q, v, min_level)
      rest == IF Level(w) = min_level THEN w[2] ELSE w
      t == apply_quant(q, op, Then(f, min_level), Then(g, min_level), rest)
      e == apply_quant(q, op, Else(f, min_level), Else(g, min_level), rest) IN
  CASE operation[1] = "Done" -> quant(q, operation[2], v)
    [] operation[1] = "Not"  -> quant(q, apply_not(operation[2]), v)
    [] operation[1] = "Binary" ->
         IF ~IsInner(w) THEN apply_bin(op, f, g)
         ELSE IF Level(w) < min_level THEN
           (IF q = "unique" THEN False ELSE apply_bin(op, f, g))
         ELSE IF Level(w) = min_level THEN apply_bin(QuantOp[q], t, e)
         ELSE reduce(min_level, t, e)

-----------------------------------------------------------------------------
(* eval, sat_count, pick_cube *)

RECURSIVE eval(_, _)
eval(f, values) ==
  IF IsInner(f) THEN eval(IF Level(f) \in values THEN f[2] ELSE f[3], values)
                ELSE f[2]

RECURSIVE SatCountInner(_, _)
SatCountInner(f, terminal_val) ==
  IF IsInner(f)
  THEN Shr(Add(SatCountInner(f[2], terminal_val), SatCountInner(f[3], terminal_val)), 1)
  ELSE IF f = True THEN terminal_val ELSE 0

sat_count(f, n) == SatCountInner(f, One(n))

\* The branch pick_cube takes at f: the only satisfiable one or else the choice.
Branch(f, c) == IF f[2] = False THEN FALSE ELSE IF f[3] = False THEN TRUE ELSE c

\* A cube as a vector
RECURSIVE PickCubeInner(_, _, _)
PickCubeInner(f, choice, cube) ==
  LET c == Branch(f, Level(f) \in choice) IN
  IF ~IsInner(f) THEN cube
  ELSE PickCubeInner(IF c THEN f[2] ELSE f[3], choice,
         [cube EXCEPT ![Level(f)] = IF c THEN "true" ELSE "false"])

pick_cube(f, choice) ==
  IF f = False THEN NoCube
  ELSE PickCubeInner(f, choice, [x \in Vars |-> "dont_care"])

\* A node for the literal of f's variable above the cube `sub`
Literal(f, c, sub) ==
  IF c THEN <<Level(f), sub, False>> ELSE <<Level(f), False, sub>>

RECURSIVE pick_cube_symbolic(_, _)
pick_cube_symbolic(f, choice) ==
  LET c == Branch(f, Level(f) \in choice) IN
  IF ~IsInner(f) THEN f
  ELSE Literal(f, c, pick_cube_symbolic(IF c THEN f[2] ELSE f[3], choice))

RECURSIVE pick_cube_symbolic_set(_, _)
pick_cube_symbolic_set(f, literal_set) ==
  LET set  == set_pop(literal_set, Level(f))
      here == Level(set) = Level(f)
      rest == IF ~here THEN set ELSE IF set[3] = False THEN set[3] ELSE set[2]
      c    == Branch(f, here /\ set[3] = False) IN
  IF ~IsInner(f) THEN f
  ELSE Literal(f, c, pick_cube_symbolic_set(IF c THEN f[2] ELSE f[3], rest))

-----------------------------------------------------------------------------
(* The client *)

new_var(x) == <<x, True, False>>

Edge(o) ==
  IF o \in Regs THEN reg[o] ELSE apply_bin(o[1], new_var(o[2]), new_var(o[3]))

\* The diagram of a conjunction of literals over the variables from x on
RECURSIVE Conjunction(_, _)
Conjunction(l, x) ==
  IF x = NumVars THEN True
  ELSE LET rest == Conjunction(l, x + 1) IN
       IF x \in l.pos THEN <<x, rest, False>>
       ELSE IF x \in l.neg THEN <<x, False, rest>>
       ELSE rest

LiteralsEdge(l) == Conjunction(l, 0)
VarsEdge(S)     == LiteralsEdge([pos |-> S, neg |-> {}])

Result(c) ==
  CASE c.kind = "const" -> Terminal(c.value)
    [] c.kind = "var"   -> new_var(c.var)
    [] c.kind = "not"   -> apply_not(Edge(c.f))
    [] c.kind = "bin"   -> apply_bin(c.op, Edge(c.f), Edge(c.g))
    [] c.kind = "ite"   -> apply_ite(Edge(c.f), Edge(c.g), Edge(c.h))
    [] c.kind = "substitute" ->
         substitute(reg[c.f],
           substitute_prepare([x \in DOMAIN c.subst |-> Edge(c.subst[x])]))
    [] c.kind = "restrict" -> restrict(reg[c.f], LiteralsEdge(c.lits))
    [] c.kind = "quant" -> quant(c.q, reg[c.f], VarsEdge(c.vars))
    [] c.kind = "apply_quant" ->
         apply_quant(c.q, c.op, reg[c.f], Edge(c.g), VarsEdge(c.vars))
    [] c.kind = "eval"  -> eval(reg[c.f], c.point)
    [] c.kind = "sat_count" -> sat_count(reg[c.f], c.n)
    [] c.kind = "pick_cube" -> pick_cube(reg[c.f], c.choice)
    [] c.kind = "pick_cube_symbolic" -> pick_cube_symbolic(reg[c.f], c.choice)
    [] c.kind = "pick_cube_symbolic_set" ->
         pick_cube_symbolic_set(reg[c.f], LiteralsEdge(c.lits))

\* Ordered and reduced: children are at lower levels and differ.
RECURSIVE IsROBDD(_)
IsROBDD(f) ==
  \/ f \in {False, True}
  \/ /\ Level(f) \in Vars
     /\ f[2] # f[3]
     /\ \A i \in 2 .. 3 : Level(f[i]) > Level(f) /\ IsROBDD(f[i])

=============================================================================
