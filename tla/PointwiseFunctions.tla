------------------------- MODULE PointwiseFunctions -------------------------
(***************************************************************************)
(* What the traits PseudoBooleanFunction and TVLFunction                   *)
(* (crates/oxidd-core/src/function.rs) promise: a function maps the points *)
(* of its domain to values, and every operation works point by point.      *)
(***************************************************************************)
EXTENDS ValuedCalls

VARIABLES
  kind,             \* kind of the manager
  val,              \* [Regs -> [Points -> Values(kind)]]
  call,             \* the call that returned last
  res               \* and its result, until the client takes it

vars == <<kind, val, call, res>>

Points == [Vars -> VarValues(kind)]

Const(v) == [p \in Points |-> v]
Var(x)   == [p \in Points |-> p[x]]
Value(o) == IF o \in Regs THEN val[o] ELSE Var(o)

Bound(n) == IF n < F THEN F ELSE IF n > T THEN T ELSE n
Dist(a, b) == IF a < b THEN b - a ELSE a - b

\* The three-valued logic of the terminal cases, a logic of Lukasiewicz
Logic(op, a, b) ==
  CASE op = "and"   -> IF a < b THEN a ELSE b
    [] op = "or"    -> IF a < b THEN b ELSE a
    [] op = "nand"  -> T - IF a < b THEN a ELSE b
    [] op = "nor"   -> T - IF a < b THEN b ELSE a
    [] op = "xor"   -> Dist(a, b)
    [] op = "equiv" -> T - Dist(a, b)
    [] op = "imp"   -> Bound(T - a + b)
    [] op = "imp_strict" -> Bound(b - a)

\* If the condition is unknown, so is the result, unless both cases agree or one
\* of them is unknown too: then the result is that of "or" or "and".
IfThenElse(a, b, c) ==
  CASE a = T -> b
    [] a = F -> c
    [] a = U /\ b = c -> b
    [] a = U /\ b # c /\ b = U -> Logic("or", a, c)
    [] a = U /\ b # c /\ c = U -> Logic("and", a, b)
    [] OTHER -> U

-----------------------------------------------------------------------------
(* Arithmetic of integers of a fixed width with NaN and two infinities *)

Infinities  == {MinusInf, PlusInf}
Infinity(n) == IF n < 0 THEN MinusInf ELSE PlusInf

Sign(a) == CASE a = MinusInf -> -1 [] a = PlusInf -> 1
             [] OTHER -> IF a < 0 THEN -1 ELSE IF a > 0 THEN 1 ELSE 0

Negative(a) == CASE a = MinusInf -> PlusInf [] a = PlusInf -> MinusInf [] OTHER -> -a

\* An integer out of range is the infinity of its sign.
Clip(n) == IF n \in Integer THEN n ELSE Infinity(n)

Plus(a, b) ==
  CASE {a, b} = Infinities -> NaN
    [] {a, b} \cap Infinities = {} -> Clip(a + b)
    [] OTHER -> IF a \in Infinities THEN a ELSE b

Times(a, b) ==
  CASE {a, b} \cap Infinities = {} -> Clip(a * b)
    [] 0 \in {a, b} -> NaN
    [] OTHER -> Infinity(Sign(a) * Sign(b))

\* The integer quotient, whose remainder has the sign of the dividend
Truncated(a, b) ==
  CHOOSE q \in -(2 ^ Bits) .. 2 ^ Bits :
    LET r == a - q * b IN Dist(0, r) < Dist(0, b) /\ r * a >= 0

Over(a, b) ==
  CASE b = 0 -> IF a = 0 THEN NaN ELSE Infinity(Sign(a))
    [] b \in Infinities -> IF a \in Infinities THEN NaN ELSE 0
    [] a \in Infinities /\ b \in Integer \ {0} -> Infinity(Sign(a) * Sign(b))
    [] OTHER -> Clip(Truncated(a, b))

AtMost(a, b) ==
  \/ a = MinusInf \/ b = PlusInf
  \/ {a, b} \subseteq Integer /\ a <= b

Arithmetic(op, a, b) ==
  IF NaN \in {a, b} THEN NaN
  ELSE CASE op = "add" -> Plus(a, b)
         [] op = "sub" -> Plus(a, Negative(b))
         [] op = "mul" -> Times(a, b)
         [] op = "div" -> Over(a, b)
         [] op = "min" -> IF AtMost(a, b) THEN a ELSE b
         [] op = "max" -> IF AtMost(a, b) THEN b ELSE a

-----------------------------------------------------------------------------

Op(op, a, b) == IF kind = "mtbdd" THEN Arithmetic(op, a, b) ELSE Logic(op, a, b)

Result(c) ==
  CASE c.kind = "const" -> Const(c.value)
    [] c.kind = "var"   -> Var(c.var)
    [] c.kind = "not"   -> [p \in Points |-> T - Value(c.f)[p]]
    [] c.kind = "bin"   -> [p \in Points |-> Op(c.op, Value(c.f)[p], Value(c.g)[p])]
    [] c.kind = "ite"   ->
         [p \in Points |-> IfThenElse(Value(c.f)[p], Value(c.g)[p], Value(c.h)[p])]

Init ==
  /\ kind \in {"mtbdd", "tdd"}
  /\ val = [r \in Regs |-> Const(0)]
  /\ call = NoCall /\ res = NoResult

Return ==
  /\ call = NoCall
  /\ call' \in Calls(kind)
  /\ res' = Result(call')
  /\ UNCHANGED <<kind, val>>

Take(r) ==
  /\ call # NoCall
  /\ val' = [val EXCEPT ![r] = res]
  /\ call' = NoCall /\ res' = NoResult
  /\ UNCHANGED kind

Next == Return \/ \E r \in Regs : Take(r)

Spec == Init /\ [][Next]_vars

=============================================================================
