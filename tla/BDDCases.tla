------------------------------ MODULE BDDCases ------------------------------
(***************************************************************************)
(* Terminals, nodes and the terminal cases of the apply algorithms of      *)
(* simple binary decision diagrams                                         *)
(* (crates/oxidd-rules-bdd/src/simple/mod.rs and apply_rec.rs).            *)
(*                                                                         *)
(* An inner node is <<level, then, else>>, a terminal <<NumVars, b, b>>.   *)
(***************************************************************************)
EXTENDS Integers

CONSTANT NumVars    \* number of variables

Terminal(b)   == <<NumVars, b, b>>
IsInner(f)    == f[1] < NumVars
Level(f)      == f[1]
False         == Terminal(FALSE)
True          == Terminal(TRUE)

-----------------------------------------------------------------------------
(* What an algorithm does first: it is done, another algorithm goes on, or   *)
(* it recurses.                                                              *)

Done(f)    == <<"Done", f>>
Not(f)     == <<"Not", f>>
Binary     == <<"Binary">>
Ternary    == <<"Ternary">>
Apply(op, f, g) == <<"Apply", op, f, g>>

\* Terminal cases of an operator with an absorbing element: and, or, and their
\* negations.
TerminalLattice(absorbing, negated, f, g) ==
  LET Pos(x) == IF negated THEN Not(x) ELSE Done(x) IN
  IF f = g THEN Pos(f)
  ELSE IF IsInner(f) /\ IsInner(g) THEN Binary
  ELSE IF Terminal(absorbing) \in {f, g} THEN Done(Terminal(absorbing # negated))
  ELSE IF ~IsInner(f) THEN Pos(g)
  ELSE Pos(f)

\* Terminal cases of xor (neutral element FALSE) and equiv (TRUE)
TerminalParity(neutral, f, g) ==
  IF f = g THEN Done(Terminal(neutral))
  ELSE IF IsInner(f) /\ IsInner(g) THEN Binary
  ELSE IF f = Terminal(neutral) THEN Done(g)
  ELSE IF g = Terminal(neutral) THEN Done(f)
  ELSE IF ~IsInner(f) THEN Not(g)
  ELSE Not(f)

\* Terminal cases of imp (b = TRUE) and imp_strict (b = FALSE)
TerminalImplication(b, f, g) ==
  IF f = g THEN Done(Terminal(b))
  ELSE IF IsInner(f) /\ IsInner(g) THEN Binary
  ELSE IF f = Terminal(~b) \/ g = Terminal(b) THEN Done(Terminal(b))
  ELSE IF ~IsInner(f) THEN Done(g)
  ELSE Not(f)

terminal_bin(op, f, g) ==
  CASE op = "and"   -> TerminalLattice(FALSE, FALSE, f, g)
    [] op = "or"    -> TerminalLattice(TRUE, FALSE, f, g)
    [] op = "nand"  -> TerminalLattice(FALSE, TRUE, f, g)
    [] op = "nor"   -> TerminalLattice(TRUE, TRUE, f, g)
    [] op = "xor"   -> TerminalParity(FALSE, f, g)
    [] op = "equiv" -> TerminalParity(TRUE, f, g)
    [] op = "imp"   -> TerminalImplication(TRUE, f, g)
    [] op = "imp_strict" -> TerminalImplication(FALSE, f, g)

\* Terminal cases of apply_ite; some are left to a binary operator.
terminal_ite(f, g, h) ==
  IF g = h THEN Done(g)
  ELSE IF f = g THEN Apply("or", f, h)
  ELSE IF f = h THEN Apply("and", f, g)
  ELSE IF ~IsInner(f) THEN Done(IF f = True THEN g ELSE h)
  ELSE IF ~IsInner(g) /\ IsInner(h) THEN Apply(IF g = True THEN "or" ELSE "imp_strict", f, h)
  ELSE IF IsInner(g) /\ ~IsInner(h) THEN Apply(IF h = True THEN "imp" ELSE "and", f, g)
  ELSE IF ~IsInner(g) /\ ~IsInner(h) THEN (IF g = True THEN Done(f) ELSE Not(f))
  ELSE Ternary

=============================================================================
