-------------------------- MODULE BooleanFunctions --------------------------
(***************************************************************************)
(* What the traits BooleanFunction, BooleanFunctionQuant, FunctionSubst    *)
(* and BooleanVecSet (crates/oxidd-core/src/function.rs) promise, whatever *)
(* kind of decision diagram implements them: a function is the set of      *)
(* assignments that satisfy it, and every call returns what its            *)
(* documentation says.                                                     *)
(***************************************************************************)
EXTENDS BooleanCalls

CONSTANT Width      \* bits of the number type used for counting

VARIABLES
  val,              \* [Regs -> SUBSET Points]
  call,             \* the call that returned last
  res               \* and its result, until the client takes it

vars == <<val, call, res>>

Var(x) == {p \in Points : x \in p}

Truth(op, a, b) ==
  CASE op = "and"   -> a /\ b
    [] op = "or"    -> a \/ b
    [] op = "xor"   -> a # b
    [] op = "equiv" -> a = b
    [] op = "nand"  -> ~(a /\ b)
    [] op = "nor"   -> ~(a \/ b)
    [] op = "imp"   -> (a => b)
    [] op = "imp_strict" -> ~a /\ b

Bin(op, f, g) == {p \in Points : Truth(op, p \in f, p \in g)}

Value(o) == IF o \in Regs THEN val[o] ELSE Bin(o[1], Var(o[2]), Var(o[3]))

\* The values f takes at p when the variables in S vary: all, some, or an odd
\* number of them are true.
Quant(q, f, S) ==
  LET At(p) == {p2 \in Points : p2 \ S = p \ S} IN
  CASE q = "forall" -> {p \in Points : At(p) \subseteq f}
    [] q = "exist"  -> {p \in Points : At(p) \cap f # {}}
    [] q = "unique" -> {p \in Points : Cardinality(At(p) \cap f) % 2 = 1}

Substitute(f, subst) ==
  {p \in Points :
     {x \in Vars : IF x \in DOMAIN subst THEN p \in Value(subst[x]) ELSE x \in p} \in f}

\* The variables f depends on
Support(f) == {x \in Vars : \E p \in f : (p \ {x} \notin f) \/ (p \cup {x} \notin f)}

\* f with its top-most variable replaced by a value
Cofactor(f, value) ==
  LET x == CHOOSE x \in Support(f) : Rank(x, Support(f)) = 0 IN
  IF Support(f) = {} THEN Rejected
  ELSE {p \in Points : (IF value THEN p \cup {x} ELSE p \ {x}) \in f}

Cube(l) == {p \in Points : l.pos \subseteq p /\ l.neg \cap p = {}}

\* The literals of l on variables above x
Above(l, x) == [pos |-> {y \in l.pos : y < x}, neg |-> {y \in l.neg : y < x}]

\* The cubes of f, conjunctions of literals that imply f, that follow a wish w.
\* Going down the variables, where there is a choice for one on which w has a
\* literal it has this literal, and one that makes no difference is left out,
\* unless it is in set, which literal_set of pick_cube_symbolic_set asks for.
Picks(f, w, set) ==
  LET Left(l, x) == f \cap Cube(Above(l, x))
      Follows(l, x) ==
        /\ x \in l.pos \cap w.neg => \A p \in Left(l, x) : x \in p
        /\ x \in l.neg \cap w.pos => \A p \in Left(l, x) : x \notin p
        /\ x \in (l.pos \cup l.neg) \ set =>
             \E p \in Left(l, x) : {p \ {x}, p \cup {x}} \cap f # {p \ {x}, p \cup {x}}
  IN  IF f = {} THEN {{}}
      ELSE {Cube(l) : l \in {k \in Literals : Cube(k) \subseteq f /\ \A x \in Vars : Follows(k, x)}}

\* Models of f over n >= NumVars variables; 2^Width - 1 is "out of bounds".
SatCount(f, n) ==
  CASE f = {}             -> 0
    [] f # {} /\ n < Width  -> Cardinality(f) * 2 ^ (n - NumVars)
    [] f # {} /\ n >= Width -> 2 ^ Width - 1

\* f with its i-th variable replaced by the i-th of a set, where S is the set of
\* the variables to be replaced
Renamed(f, S, to) ==
  {p \in Points : {x \in S : \E y \in to \cap p : Rank(y, to) = Rank(x, S)} \in f}

\* The results c may return.
Returns(c) ==
  CASE c.kind = "const" -> {IF c.value THEN Points ELSE {}}
    [] c.kind = "var"   -> {Var(c.var)}
    [] c.kind = "not"   -> {Points \ Value(c.f)}
    [] c.kind = "bin"   -> {Bin(c.op, Value(c.f), Value(c.g))}
    [] c.kind = "ite"   ->
         {(Value(c.f) \cap Value(c.g)) \cup (Value(c.h) \ Value(c.f))}
    [] c.kind = "substitute" -> {Substitute(val[c.f], c.subst)}
    [] c.kind = "restrict" ->
         {{p \in Points : (p \cup c.lits.pos) \ c.lits.neg \in val[c.f]}}
    [] c.kind = "quant" -> {Quant(c.q, val[c.f], c.vars)}
    [] c.kind = "apply_quant" ->
         {Quant(c.q, Bin(c.op, val[c.f], Value(c.g)), c.vars)}
    [] c.kind = "cofactor"    -> {Cofactor(val[c.f], c.value)}
    [] c.kind = "satisfiable" -> {val[c.f] # {}}
    [] c.kind = "valid"       -> {val[c.f] = Points}
    [] c.kind = "eval"  -> {c.point \in val[c.f]}
    [] c.kind = "sat_count" -> {SatCount(val[c.f], c.n)}
    [] c.kind \in {"pick_cube", "pick_cube_symbolic"} ->
         Picks(val[c.f], [pos |-> c.choice, neg |-> Vars \ c.choice], {})
    [] c.kind = "pick_cube_symbolic_set" ->
         Picks(val[c.f], c.lits, c.lits.pos \cup c.lits.neg)
    [] c.kind = "empty" -> {{}}
    [] c.kind = "base"  -> {{{}}}
    [] c.kind = "singleton" -> {{{c.var}}}
    [] c.kind = "set"   ->
         {CASE c.op = "union"  -> Value(c.f) \cup Value(c.g)
            [] c.op = "intsec" -> Value(c.f) \cap Value(c.g)
            [] c.op = "diff"   -> Value(c.f) \ Value(c.g)}
    [] c.kind = "subset0" -> {{s \in val[c.f] : c.var \notin s}}
    [] c.kind = "subset1" -> {{s \in val[c.f] : c.var \in s}}
    [] c.kind = "change"  ->
         {{IF c.var \in s THEN s \ {c.var} ELSE s \cup {c.var} : s \in val[c.f]}}
    [] c.kind = "dddmp" -> {Value(IF c.pick = 1 THEN c.f ELSE c.g)}
    [] c.kind = "dddmp_to" ->
         LET S == Support(val[c.f]) \cup Support(Value(c.g)) IN
         {Renamed(Value(IF c.pick = 1 THEN c.f ELSE c.g), S, c.to)}
    [] c.kind = "dddmp_damaged" -> {Rejected} \cup SUBSET Points
    [] c.kind = "dddmp_number" -> {c.n}

Init ==
  /\ val = [r \in Regs |-> {}]
  /\ call = NoCall /\ res = NoResult

Return ==
  /\ call = NoCall
  /\ call' \in Calls
  /\ res' \in Returns(call')
  /\ UNCHANGED val

\* The client keeps the result in r or forgets it.
Take(r) ==
  /\ call # NoCall
  /\ val' = IF IsKept(call) THEN [val EXCEPT ![r] = res] ELSE val
  /\ call' = NoCall /\ res' = NoResult

Next == Return \/ \E r \in Regs : Take(r)

Spec == Init /\ [][Next]_vars

=============================================================================
