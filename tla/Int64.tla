------------------------------- MODULE Int64 --------------------------------
(***************************************************************************)
(* The number type of crates/oxidd-rules-mtbdd/src/terminal/int64.rs:      *)
(* integers of a fixed width, two infinities and NaN.  An integer that is  *)
(* too large becomes an infinity.                                          *)
(***************************************************************************)
EXTENDS ValuedCalls

zero == 0
one  == 1

\* The infinity that replaces an integer out of range
Overflow(plus) == IF plus THEN PlusInf ELSE MinusInf


Checked(n, plus) == IF n \in Integer THEN n ELSE Overflow(plus)

SameSign(a, b)  == (a > 0 /\ b > 0) \/ (a < 0 /\ b < 0)
OtherSign(a, b) == (a > 0 /\ b < 0) \/ (a < 0 /\ b > 0)

\* Operands of which at least one is not an integer
Special(a, b) ==
  IF NaN \in {a, b} \/ {MinusInf, PlusInf} \subseteq {a, b} THEN NaN
  ELSE IF MinusInf \in {a, b} THEN MinusInf ELSE PlusInf

Bothints(a, b) == a \in Integer /\ b \in Integer

add(a, b) == IF Bothints(a, b) THEN Checked(a + b, SameSign(a, b)) ELSE Special(a, b)

sub(a, b) ==
  IF Bothints(a, b) THEN Checked(a - b, OtherSign(a, b))
  ELSE IF NaN \in {a, b} \/ a = b THEN NaN
  ELSE IF a = MinusInf \/ b = PlusInf THEN MinusInf ELSE PlusInf

mul(a, b) == IF Bothints(a, b) THEN Checked(a * b, SameSign(a, b)) ELSE Special(a, b)

\* Integer division rounds towards zero.
Quotient(a, b) ==
  LET Abs(n) == IF n < 0 THEN -n ELSE n
      q == Abs(a) \div Abs(b) IN
  IF OtherSign(a, b) THEN -q ELSE q

div(a, b) ==
  CASE Bothints(a, b) ->
         IF b # 0 THEN Checked(Quotient(a, b), TRUE)
         ELSE IF a < 0 THEN MinusInf ELSE IF a = 0 THEN NaN ELSE PlusInf
    [] a \in Integer /\ b \in {MinusInf, PlusInf} -> 0
    [] a \in {MinusInf, PlusInf} /\ b \in Integer -> a
    [] OTHER -> NaN

\* partial_cmp: numbers other than NaN are ordered, NaN equals itself only.
Comparable(a, b) == a = b \/ NaN \notin {a, b}
Leq(a, b) ==
  \/ a = b \/ a = MinusInf \/ b = PlusInf
  \/ Bothints(a, b) /\ a <= b

min(a, b) == IF ~Comparable(a, b) THEN NaN ELSE IF Leq(a, b) THEN a ELSE b
max(a, b) == IF ~Comparable(a, b) THEN NaN ELSE IF Leq(b, a) THEN a ELSE b

\* An operation of NumberBase by its name
Apply(op, a, b) ==
  CASE op = "add" -> add(a, b)
    [] op = "sub" -> sub(a, b)
    [] op = "mul" -> mul(a, b)
    [] op = "div" -> div(a, b)
    [] op = "min" -> min(a, b)
    [] op = "max" -> max(a, b)

=============================================================================
