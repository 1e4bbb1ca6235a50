-------------------------------- MODULE ZBDD --------------------------------
(***************************************************************************)
(* Zero-suppressed binary decision diagrams                                *)
(* (crates/oxidd-rules-zbdd/src/lib.rs and apply_rec.rs).                  *)
(*                                                                         *)
(* An inner node is <<level, hi, lo>>, the terminals are Empty and Base at *)
(* level NumVars.  A level that an edge skips means "variable is false".   *)
(* Nodes are shared as in module BDD.                                      *)
(***************************************************************************)
EXTENDS BooleanCalls, Saturating

VARIABLE reg        \* the edges the client owns

Empty      == <<NumVars, FALSE, FALSE>>
Base       == <<NumVars, TRUE, TRUE>>
IsInner(f) == f[1] < NumVars
Level(f)   == f[1]

Min(a, b) == IF a <= b THEN a ELSE b

reduce(level, hi, lo) == IF hi = Empty THEN lo ELSE <<level, hi, lo>>

\* AsciiDisplay and FromStr of ZBDDTerminal
describe(terminal) == IF terminal = Base THEN "B" ELSE "E"
from_str(s) == CASE s = "B" -> {Base} [] s = "E" -> {Empty} [] OTHER -> {}

\* ZBDDCache: for each level all sets of variables at that level and below,
\* built bottom-up when a level is added.
tautologies[level \in 0 .. NumVars] ==
  IF level = NumVars THEN Base
  ELSE <<level, tautologies[level + 1], tautologies[level + 1]>>

tautology(level) == tautologies[Min(level, NumVars)]

-----------------------------------------------------------------------------
(* subset, apply_union, apply_intsec, apply_diff, apply_symm_diff *)

\* VAL is 0 (subset0), 1 (subset1) or -1 (change); var is the level of the
\* variable.  Child 0 of a node is hi, child 1 is lo.
RECURSIVE subset(_, _, _)
subset(VAL, f, var) ==
  IF ~IsInner(f) \/ Level(f) > var THEN Empty
  ELSE IF Level(f) < var
  THEN reduce(Level(f), subset(VAL, f[2], var), subset(VAL, f[3], var))
  ELSE IF VAL = -1 THEN reduce(Level(f), f[3], f[2])
  ELSE f[VAL + 2]

RECURSIVE apply_union(_, _)
apply_union(f, g) ==
  IF f = g \/ g = Empty THEN f
  ELSE IF f = Empty THEN g
  ELSE IF Level(f) < Level(g) THEN reduce(Level(f), f[2], apply_union(f[3], g))
  ELSE IF Level(f) > Level(g) THEN reduce(Level(g), g[2], apply_union(f, g[3]))
  ELSE reduce(Level(f), apply_union(f[2], g[2]), apply_union(f[3], g[3]))

RECURSIVE apply_intsec(_, _)
apply_intsec(f, g) ==
  IF f = g THEN f
  ELSE IF Empty \in {f, g} THEN Empty
  ELSE IF Level(f) < Level(g) THEN apply_intsec(f[3], g)
  ELSE IF Level(f) > Level(g) THEN apply_intsec(f, g[3])
  ELSE reduce(Level(f), apply_intsec(f[2], g[2]), apply_intsec(f[3], g[3]))

RECURSIVE apply_diff(_, _)
apply_diff(f, g) ==
  IF f = g \/ f = Empty THEN Empty
  ELSE IF g = Empty THEN f
  ELSE IF Level(f) < Level(g) THEN reduce(Level(f), f[2], apply_diff(f[3], g))
  ELSE IF Level(f) > Level(g) THEN apply_diff(f, g[3])
  ELSE reduce(Level(f), apply_diff(f[2], g[2]), apply_diff(f[3], g[3]))

RECURSIVE apply_symm_diff(_, _)
apply_symm_diff(f, g) ==
  IF f = g THEN Empty
  ELSE IF f = Empty THEN g
  ELSE IF g = Empty THEN f
  ELSE IF Level(f) < Level(g) THEN reduce(Level(f), f[2], apply_symm_diff(f[3], g))
  ELSE IF Level(f) > Level(g) THEN reduce(Level(g), g[2], apply_symm_diff(f, g[3]))
  ELSE reduce(Level(f), apply_symm_diff(f[2], g[2]), apply_symm_diff(f[3], g[3]))

apply_not(f) == apply_diff(tautology(0), f)

-----------------------------------------------------------------------------
(* apply_ite *)

\* Mutant: the top level of all operands is taken for the top level of f.
IteTautologyOfF(flevel, glevel, hlevel) == flevel

\* The level whose tautology makes f or g trivial
IteLevel(flevel, glevel, hlevel) == Min(flevel, Min(glevel, hlevel))

RECURSIVE apply_ite(_, _, _)
apply_ite(f, g, h) ==
  LET fl == Level(f)
      gl == Level(g)
      hl == Level(h)
      taut == tautology(IteLevel(fl, gl, hl)) IN
  IF g = h THEN g
  ELSE IF f = g THEN apply_union(f, h)
  ELSE IF f = h THEN apply_intsec(f, g)
  ELSE IF f = Empty THEN h
  ELSE IF g = Empty THEN apply_diff(h, f)
  ELSE IF h = Empty THEN apply_intsec(f, g)
  ELSE IF f = taut THEN g
  ELSE IF g = taut THEN apply_union(f, h)
  ELSE IF fl < gl /\ fl < hl THEN apply_ite(f[3], g, h)
  ELSE IF gl < fl /\ gl < hl THEN apply_ite(f, g[3], h)
  ELSE IF hl < fl
  THEN reduce(hl, h[2], apply_ite(f, IF gl = hl THEN g[3] ELSE g, h[3]))
  ELSE IF hl > fl THEN reduce(fl, apply_intsec(f[2], g[2]), apply_ite(f[3], g[3], h))
  ELSE IF gl > fl THEN reduce(fl, apply_diff(h[2], f[2]), apply_ite(f[3], g, h[3]))
  ELSE reduce(fl, apply_ite(f[2], g[2], h[2]), apply_ite(f[3], g[3], h[3]))

bin_edge(op, f, g) ==
  CASE op = "and"   -> apply_intsec(f, g)
    [] op = "or"    -> apply_union(f, g)
    [] op = "nand"  -> apply_not(apply_intsec(f, g))
    [] op = "nor"   -> apply_not(apply_union(f, g))
    [] op = "xor"   -> apply_symm_diff(f, g)
    [] op = "equiv" -> apply_not(apply_symm_diff(f, g))
    [] op = "imp"   -> apply_ite(f, g, tautology(0))
    [] op = "imp_strict" -> apply_diff(g, f)

set_edge(op, f, g) ==
  CASE op = "union"  -> apply_union(f, g)
    [] op = "intsec" -> apply_intsec(f, g)
    [] op = "diff"   -> apply_diff(f, g)

-----------------------------------------------------------------------------
(* eval, sat_count, pick_cube *)

\* The variables not met on the path must be false.
RECURSIVE eval(_, _)
eval(f, values) ==
  IF IsInner(f)
  THEN eval(IF Level(f) \in values THEN f[2] ELSE f[3], values \ {Level(f)})
  ELSE f = Base /\ values = {}

RECURSIVE SatCountInner(_)
SatCountInner(f) ==
  IF IsInner(f) THEN Add(SatCountInner(f[2]), SatCountInner(f[3]))
  ELSE IF f = Empty THEN 0 ELSE 1

sat_count(f, n) == Shr(SatCountInner(f), NumVars - n)

\* A cube as a vector
RECURSIVE PickCubeInner(_, _, _)
PickCubeInner(f, choice, cube) ==
  LET c == f[3] = Empty \/ Level(f) \in choice
      val == IF f[2] = f[3] THEN "dont_care" ELSE IF c THEN "true" ELSE "false" IN
  IF ~IsInner(f) THEN cube
  ELSE PickCubeInner(IF f[2] = f[3] \/ c THEN f[2] ELSE f[3], choice,
         [cube EXCEPT ![Level(f)] = val])

pick_cube(f, choice) ==
  IF f = Empty THEN NoCube
  ELSE PickCubeInner(f, choice, [x \in Vars |-> "false"])

\* The cube `sub` below the value of f's variable: false needs no node.
Literal(f, c, dont_care, sub) ==
  IF c THEN <<Level(f), sub, IF dont_care THEN sub ELSE Empty>> ELSE sub

RECURSIVE pick_cube_symbolic(_, _)
pick_cube_symbolic(f, choice) ==
  LET dont_care == f[2] = f[3]
      c == dont_care \/ f[3] = Empty \/ Level(f) \in choice IN
  IF ~IsInner(f) THEN f
  ELSE Literal(f, c, dont_care, pick_cube_symbolic(IF c THEN f[2] ELSE f[3], choice))

RECURSIVE set_pop(_, _)
set_pop(set, until) ==
  IF IsInner(set) /\ Level(set) < until THEN set_pop(set[2], until) ELSE set

RECURSIVE pick_cube_symbolic_set(_, _)
pick_cube_symbolic_set(f, literal_set) ==
  LET set  == set_pop(literal_set, Level(f))
      here == Level(set) = Level(f)
      dont_care == f[3] # Empty /\ here /\ set[2] = set[3] /\ f[2] = f[3]
      c    == f[3] = Empty \/ here IN
  IF ~IsInner(f) THEN f
  ELSE Literal(f, c, dont_care, pick_cube_symbolic_set(IF c THEN f[2] ELSE f[3], set))

-----------------------------------------------------------------------------
(* The client *)

new_singleton(x) == <<x, Base, Empty>>

\* var_boolean_function: the levels above x do not matter.
RECURSIVE complete_chain(_, _)
complete_chain(n, edge) ==
  IF n = 0 THEN edge ELSE complete_chain(n - 1, <<n - 1, edge, edge>>)

var_boolean_function(x) == complete_chain(x, <<x, tautology(x + 1), Empty>>)

Edge(o) ==
  IF o \in Regs THEN reg[o] ELSE bin_edge(o[1], var_boolean_function(o[2]), var_boolean_function(o[3]))

\* The diagram of a conjunction of literals over the variables from x on
RECURSIVE Conjunction(_, _)
Conjunction(l, x) ==
  IF x = NumVars THEN Base
  ELSE LET rest == Conjunction(l, x + 1) IN
       IF x \in l.pos THEN <<x, rest, Empty>>
       ELSE IF x \in l.neg THEN rest
       ELSE <<x, rest, rest>>

LiteralsEdge(l) == Conjunction(l, 0)

Result(c) ==
  CASE c.kind = "const" -> IF c.value THEN tautology(0) ELSE Empty
    [] c.kind = "var"   -> var_boolean_function(c.var)
    [] c.kind = "not"   -> apply_not(Edge(c.f))
    [] c.kind = "bin"   -> bin_edge(c.op, Edge(c.f), Edge(c.g))
    [] c.kind = "ite"   -> apply_ite(Edge(c.f), Edge(c.g), Edge(c.h))
    [] c.kind = "eval"  -> eval(reg[c.f], c.point)
    [] c.kind = "sat_count" -> sat_count(reg[c.f], c.n)
    [] c.kind = "pick_cube" -> pick_cube(reg[c.f], c.choice)
    [] c.kind = "pick_cube_symbolic" -> pick_cube_symbolic(reg[c.f], c.choice)
    [] c.kind = "pick_cube_symbolic_set" ->
         pick_cube_symbolic_set(reg[c.f], LiteralsEdge(c.lits))
    [] c.kind = "empty" -> Empty
    [] c.kind = "base"  -> Base
    [] c.kind = "singleton" -> new_singleton(c.var)
    [] c.kind = "set"   -> set_edge(c.op, Edge(c.f), Edge(c.g))
    [] c.kind = "subset0" -> subset(0, reg[c.f], c.var)
    [] c.kind = "subset1" -> subset(1, reg[c.f], c.var)
    [] c.kind = "change"  -> subset(-1, reg[c.f], c.var)

\* Ordered and reduced: children are at lower levels, hi is not empty.
RECURSIVE IsZBDD(_)
IsZBDD(f) ==
  \/ f \in {Empty, Base}
  \/ /\ Level(f) \in Vars
     /\ f[2] # Empty
     /\ \A i \in 2 .. 3 : Level(f[i]) > Level(f) /\ IsZBDD(f[i])

=============================================================================
