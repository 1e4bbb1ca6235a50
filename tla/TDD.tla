-------------------------------- MODULE TDD ---------------------------------
(***************************************************************************)
(* Ternary decision diagrams (crates/oxidd-rules-tdd/src/lib.rs and        *)
(* apply_rec.rs).                                                          *)
(*                                                                         *)
(* An inner node is <<level, t, u, e>>, a terminal <<NumVars, value>>.     *)
(***************************************************************************)
EXTENDS ValuedCalls, FiniteSets

VARIABLE reg        \* the edges the client owns

Terminal(v) == <<NumVars, v>>
IsInner(f)  == f[1] < NumVars
Level(f)    == f[1]
Not3(v)     == T - v              \* Not of TDDTerminal

reduce(level, t, u, e) == IF t = u /\ u = e THEN t ELSE <<level, t, u, e>>

\* collect_children, if the node is at the level
Child(f, level, i) == IF Level(f) = level THEN f[i] ELSE f

RECURSIVE apply_not(_)
apply_not(f) ==
  IF IsInner(f)
  THEN reduce(Level(f), apply_not(f[2]), apply_not(f[3]), apply_not(f[4]))
  ELSE Terminal(Not3(f[2]))

-----------------------------------------------------------------------------
(* apply_bin *)

Done(f) == <<"Done", f>>
Not(f)  == <<"Not", f>>
Binary  == <<"Binary">>

\* and, or and their negations
TerminalLattice(absorbing, negated, f, g) ==
  LET neutral == Not3(absorbing)
      Pos(x)  == IF negated THEN Not(x) ELSE Done(x) IN
  IF f = g THEN Pos(f)
  ELSE IF Terminal(absorbing) \in {f, g}
       THEN Done(Terminal(IF negated THEN neutral ELSE absorbing))
  ELSE IF f = Terminal(neutral) THEN Pos(g)
  ELSE IF g = Terminal(neutral) THEN Pos(f)
  ELSE Binary

\* xor (neutral element F) and equiv (neutral element T)
TerminalParity(neutral, f, g) ==
  IF f = g THEN Done(Terminal(neutral))
  ELSE IF f = Terminal(neutral) THEN Done(g)
  ELSE IF g = Terminal(neutral) THEN Done(f)
  ELSE IF f = Terminal(Not3(neutral)) THEN Not(g)
  ELSE IF g = Terminal(Not3(neutral)) THEN Not(f)
  ELSE Binary

\* imp (v = T) and imp_strict (v = F)
TerminalImplication(v, f, g) ==
  IF f = g \/ f = Terminal(Not3(v)) \/ g = Terminal(v) THEN Done(Terminal(v))
  ELSE IF f = Terminal(v) THEN Done(g)
  ELSE IF g = Terminal(Not3(v)) THEN Not(f)
  ELSE Binary

terminal_bin(op, f, g) ==
  CASE op = "and"   -> TerminalLattice(F, FALSE, f, g)
    [] op = "or"    -> TerminalLattice(T, FALSE, f, g)
    [] op = "nand"  -> TerminalLattice(F, TRUE, f, g)
    [] op = "nor"   -> TerminalLattice(T, TRUE, f, g)
    [] op = "xor"   -> TerminalParity(F, f, g)
    [] op = "equiv" -> TerminalParity(T, f, g)
    [] op = "imp"   -> TerminalImplication(T, f, g)
    [] op = "imp_strict" -> TerminalImplication(F, f, g)

RECURSIVE apply_bin(_, _, _)
apply_bin(op, f, g) ==
  LET operation == terminal_bin(op, f, g)
      level == IF Level(f) < Level(g) THEN Level(f) ELSE Level(g)
      Rec(i) == apply_bin(op, Child(f, level, i), Child(g, level, i)) IN
  CASE operation[1] = "Done" -> operation[2]
    [] operation[1] = "Not"  -> apply_not(operation[2])
    [] operation[1] = "Binary" -> reduce(level, Rec(2), Rec(3), Rec(4))

-----------------------------------------------------------------------------
(* apply_ite_rec *)

\* Mutant: a negated condition is taken for the condition.
IteCaseNotSwapped(f, g, h) ==
  IF g = h THEN Done(g)
  ELSE IF f = g THEN <<"or", f, h>>
  ELSE IF f = h THEN <<"and", f, g>>
  ELSE IF f \in {Terminal(T), Terminal(F)} THEN Done(IF f = Terminal(T) THEN g ELSE h)
  ELSE IF ~IsInner(f) /\ ~IsInner(g) /\ ~IsInner(h) THEN Done(Terminal(U))
  ELSE IF <<g, h>> \in {<<Terminal(F), Terminal(T)>>, <<Terminal(T), Terminal(F)>>} THEN Done(f)
  ELSE Binary

\* The case that a call falls into: a result, an operation on two operands, or
\* a recursion over the three
IteCase(f, g, h) ==
  IF g = h THEN Done(g)
  ELSE IF f = g THEN <<"or", f, h>>
  ELSE IF f = h THEN <<"and", f, g>>
  ELSE IF f \in {Terminal(T), Terminal(F)} THEN Done(IF f = Terminal(T) THEN g ELSE h)
  ELSE IF ~IsInner(f) /\ ~IsInner(g) /\ ~IsInner(h) THEN Done(Terminal(U))
  ELSE IF ~IsInner(g) /\ IsInner(h) /\ g[2] # U
       THEN <<IF g[2] = T THEN "or" ELSE "imp_strict", f, h>>
  ELSE IF IsInner(g) /\ ~IsInner(h) /\ h[2] # U
       THEN <<IF h[2] = T THEN "imp" ELSE "and", f, g>>
  ELSE IF <<g, h>> = <<Terminal(F), Terminal(T)>> THEN Not(f)
  ELSE IF <<g, h>> = <<Terminal(T), Terminal(F)>> THEN Done(f)
  ELSE Binary

RECURSIVE apply_ite_rec(_, _, _)
apply_ite_rec(f, g, h) ==
  LET case  == IteCase(f, g, h)
      level == CHOOSE l \in {Level(f), Level(g), Level(h)} :
                 l <= Level(f) /\ l <= Level(g) /\ l <= Level(h)
      Rec(i) == apply_ite_rec(Child(f, level, i), Child(g, level, i), Child(h, level, i)) IN
  CASE case[1] = "Done" -> case[2]
    [] case[1] = "Not"  -> apply_not(case[2])
    [] case[1] = "Binary" -> reduce(level, Rec(2), Rec(3), Rec(4))
    [] OTHER -> apply_bin(case[1], case[2], case[3])

-----------------------------------------------------------------------------

new_var(x) == <<x, Terminal(T), Terminal(U), Terminal(F)>>

Edge(o) == IF o \in Regs THEN reg[o] ELSE new_var(o)

Result(c) ==
  CASE c.kind = "const" -> Terminal(c.value)
    [] c.kind = "var"   -> new_var(c.var)
    [] c.kind = "not"   -> apply_not(Edge(c.f))
    [] c.kind = "bin"   -> apply_bin(c.op, Edge(c.f), Edge(c.g))
    [] c.kind = "ite"   -> apply_ite_rec(Edge(c.f), Edge(c.g), Edge(c.h))

-----------------------------------------------------------------------------

RECURSIVE eval(_, _)
eval(f, p) == IF ~IsInner(f) THEN f[2] ELSE eval(f[4 - p[Level(f)]], p)

\* Ordered and reduced
RECURSIVE IsTDD(_)
IsTDD(f) ==
  IsInner(f) =>
    /\ Cardinality({f[2], f[3], f[4]}) > 1
    /\ \A i \in 2 .. 4 : Level(f) < Level(f[i]) /\ IsTDD(f[i])

=============================================================================
