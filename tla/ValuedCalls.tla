---------------------------- MODULE ValuedCalls -----------------------------
(***************************************************************************)
(* The operations on functions with more than two values that clients      *)
(* call (crates/oxidd-core/src/function.rs): PseudoBooleanFunction, whose  *)
(* values are numbers, and TVLFunction, whose values are those of a        *)
(* three-valued logic.                                                     *)
(*                                                                         *)
(* A manager of kind "mtbdd" has functions of the first sort, one of kind  *)
(* "tdd" functions of the second.                                          *)
(***************************************************************************)
EXTENDS Integers

CONSTANTS
  NumVars,                  \* number of variables
  Regs,                     \* registers of the client
  Bits,                     \* width of the integers that are terminals (64)
  NaN, MinusInf, PlusInf    \* the terminals of Int64 that are not integers

ASSUME ValuedAssumption == NumVars \in Nat /\ Bits \in Nat \ {0}

Vars     == 0 .. NumVars - 1
Operands == Regs \cup Vars

Integer  == -(2 ^ (Bits - 1)) .. 2 ^ (Bits - 1) - 1
Number   == Integer \cup {NaN, MinusInf, PlusInf}

\* TDDTerminal: False, Unknown, True
F == 0
U == 1
T == 2

NumberOps == {"add", "sub", "mul", "div", "min", "max"}
LogicOps  == {"and", "or", "nand", "nor", "xor", "equiv", "imp", "imp_strict"}

Values(kind)   == IF kind = "mtbdd" THEN Number ELSE {F, U, T}
\* What a variable can be: 1 and 0, or T, U and F
VarValues(kind) == IF kind = "mtbdd" THEN {0, 1} ELSE {F, U, T}

Calls(kind) ==
  [kind : {"const"}, value : Values(kind)]
    \cup [kind : {"var"}, var : Vars]
    \cup [kind : {"bin"}, f : Operands, g : Operands,
          op : IF kind = "mtbdd" THEN NumberOps ELSE LogicOps]
    \cup IF kind = "mtbdd" THEN {}
         ELSE [kind : {"not"}, f : Operands]
                \cup [kind : {"ite"}, f : Operands, g : Operands, h : Operands]

NoCall   == [kind |-> "none"]
NoResult == <<>>

=============================================================================
