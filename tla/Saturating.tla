----------------------------- MODULE Saturating -----------------------------
(***************************************************************************)
(* Saturating<T> of crates/oxidd-core/src/util/num.rs, the number type for *)
(* model counts, with Width bits.  The largest number means out of bounds; *)
(* subtraction and right shift do not change it.                           *)
(***************************************************************************)
EXTENDS Integers

CONSTANT Width

ASSUME WidthAssumption == Width \in Nat \ {0}

MaxNumber == 2 ^ Width - 1

Add(m, n) == IF m + n > MaxNumber THEN MaxNumber ELSE m + n
Sub(m, n) == IF m = MaxNumber THEN m ELSE m - n

Shr(n, k) == IF n = MaxNumber THEN n ELSE n \div 2 ^ k

\* 1 shifted left by k
One(k) == IF k >= Width THEN MaxNumber ELSE 2 ^ k

=============================================================================
