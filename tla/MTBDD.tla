------------------------------- MODULE MTBDD --------------------------------
(***************************************************************************)
(* Multi-terminal binary decision diagrams (crates/oxidd-rules-mtbdd/src/  *)
(* lib.rs and apply_rec.rs), with Int64 as terminals.                      *)
(*                                                                         *)
(* An inner node is <<level, then, else>>, a terminal <<NumVars, number>>. *)
(*                                                                         *)
(* The apply cache is part of the algorithm: max uses the keys of min, so  *)
(* an entry of one is an answer to the other.  What is in the cache at a   *)
(* given moment depends on hash values, locks and garbage collections: a   *)
(* query may hit any entry made for its key, and may miss.                 *)
(***************************************************************************)
EXTENDS Int64

VARIABLES
  reg,              \* the edges the client owns
  cache             \* entries made in the apply cache: [key, args, res]

Terminal(n) == <<NumVars, n>>
IsInner(f)  == f[1] < NumVars
Level(f)    == f[1]

\* Mutant: nodes are inserted without a look at their children.
ReduceNever(level, t, e) == <<level, t, e>>

reduce(level, t, e) == IF t = e THEN t ELSE <<level, t, e>>

\* collect_children, if the node is at the level
Child(f, level, i) == IF Level(f) = level THEN f[i] ELSE f

Done(f) == <<"Done", f>>

\* The operator that a query and an entry use, and the operands that they stand
\* for: those of a commutative operator in both orders
Operator(op) == IF op = "max" THEN "min" ELSE op
Args(op, f, g) == IF op \in {"sub", "div"} THEN {<<f, g>>} ELSE {<<f, g>>, <<g, f>>}
Binary(op, f, g) == <<"Binary", Operator(op), Args(op, f, g)>>

IsTerminal(f, n) == ~IsInner(f) /\ f[2] = n

\* The neutral elements that the terminal cases look for on either side
LeftNeutral(op)  == CASE op \in {"add", "sub"} -> {zero} [] op = "mul" -> {one} [] OTHER -> {}
RightNeutral(op) == CASE op \in {"add", "sub"} -> {zero} [] op \in {"mul", "div"} -> {one} [] OTHER -> {}

terminal_bin(op, f, g) ==
  IF op \in {"min", "max"} /\ f = g THEN Done(f)
  ELSE IF ~IsInner(f) /\ ~IsInner(g) THEN Done(Terminal(Apply(op, f[2], g[2])))
  ELSE IF \E n \in LeftNeutral(op) : IsTerminal(f, n) THEN Done(g)
  ELSE IF \E n \in RightNeutral(op) : IsTerminal(g, n) THEN Done(f)
  ELSE IF IsTerminal(f, NaN) \/ IsTerminal(g, NaN) THEN Done(Terminal(NaN))
  ELSE Binary(op, f, g)

\* What a query of the apply cache can find
Hits(key, args) == {c.res : c \in {d \in cache : d.key = key /\ d.args = args}}

\* The outcomes of a call, each with the entries that it leaves in the cache: the
\* one that is hit, or those of the two recursive calls and its own
RECURSIVE apply_bin(_, _, _)
apply_bin(op, f, g) ==
  LET operation == terminal_bin(op, f, g)
      level == IF Level(f) < Level(g) THEN Level(f) ELSE Level(g)
      Rec(i) == apply_bin(op, Child(f, level, i), Child(g, level, i))
      Entry(h) == [key |-> operation[2], args |-> operation[3], res |-> h]
      Computed(t, e) ==
        LET h == reduce(level, t.res, e.res) IN
        [res |-> h, added |-> t.added \cup e.added \cup {Entry(h)}] IN
  IF operation[1] = "Done" THEN {[res |-> operation[2], added |-> {}]}
  ELSE {[res |-> h, added |-> {}] : h \in Hits(operation[2], operation[3])}
         \cup {Computed(t, e) : t \in Rec(2), e \in Rec(3)}

new_var(x) == <<x, Terminal(one), Terminal(zero)>>

Edge(o) == IF o \in Regs THEN reg[o] ELSE new_var(o)

\* The outcomes of a call of the client
Results(c) ==
  CASE c.kind = "const" -> {[res |-> Terminal(c.value), added |-> {}]}
    [] c.kind = "var"   -> {[res |-> new_var(c.var), added |-> {}]}
    [] c.kind = "bin"   -> apply_bin(c.op, Edge(c.f), Edge(c.g))

-----------------------------------------------------------------------------

RECURSIVE eval(_, _)
eval(f, p) ==
  IF ~IsInner(f) THEN f[2] ELSE eval(IF p[Level(f)] = one THEN f[2] ELSE f[3], p)

\* Ordered and reduced
RECURSIVE IsMTBDD(_)
IsMTBDD(f) ==
  IsInner(f) =>
    /\ f[2] # f[3]
    /\ \A i \in 2 .. 3 : Level(f) < Level(f[i]) /\ IsMTBDD(f[i])

=============================================================================
