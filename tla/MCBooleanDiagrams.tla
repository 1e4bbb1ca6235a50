------------------------- MODULE MCBooleanDiagrams --------------------------
(* Instances of BooleanDiagrams for TLC. *)
EXTENDS BooleanDiagrams

CONSTANT r1

\* All calls but subset0, subset1 and change, which do not do what they promise
UsedKinds ==
  {"const", "var", "not", "bin", "ite", "substitute", "restrict", "quant", "apply_quant",
   "cofactor", "satisfiable", "valid", "eval", "sat_count",
   "pick_cube", "pick_cube_symbolic", "pick_cube_symbolic_set",
   "empty", "base", "singleton", "set",
   "dddmp", "dddmp_to", "dddmp_damaged", "dddmp_number"}

\* x0 xor x2 and x0 -> x1
TwoFunctions == {<<"xor", 0, 2>>, <<"imp", 0, 1>>}

=============================================================================
