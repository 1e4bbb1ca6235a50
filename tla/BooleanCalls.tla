---------------------------- MODULE BooleanCalls ----------------------------
(***************************************************************************)
(* The operations on Boolean functions that clients call                   *)
(* (crates/oxidd-core/src/function.rs: BooleanFunction,                    *)
(* BooleanFunctionQuant, FunctionSubst, BooleanVecSet), and their          *)
(* arguments.  A set of Boolean vectors is a Boolean function and vice     *)
(* versa.                                                                  *)
(*                                                                         *)
(* A client keeps functions in registers; variables are numbered by level. *)
(***************************************************************************)
EXTENDS Integers, FiniteSets

CONSTANTS
  NumVars,    \* number of variables
  Regs,       \* registers of the client
  Fixed,      \* operands besides Regs: <<op, x, y>> is the function x op y
  Kinds,      \* kinds of calls that the client makes
  MaxCount,   \* bound on the domain size passed to sat_count
  MaxFileNumber,  \* bound on the numbers written to binary files
  Rejected    \* no function: the error of an import, the None of cofactors

Vars   == 0 .. NumVars - 1
Points == SUBSET Vars             \* an assignment: the variables that are true

Operands == Regs \cup Fixed

\* BooleanOperator
BinOps == {"and", "or", "xor", "equiv", "nand", "nor", "imp", "imp_strict"}
SetOps == {"union", "intsec", "diff"}
Quants == {"forall", "exist", "unique"}

ASSUME CallsAssumption ==
  NumVars \in Nat /\ Fixed \subseteq BinOps \X Vars \X Vars /\ {MaxCount, MaxFileNumber} \subseteq Nat

\* A conjunction of literals
Literals == {l \in [pos : Points, neg : Points] : l.pos \cap l.neg = {}}

\* The number of elements of S less than x
Rank(x, S) == Cardinality({y \in S : y < x})

(***************************************************************************)
(* Calls of the module dddmp: two functions are exported and imported      *)
(* again, into the variables of the same names (dddmp) or, in their order, *)
(* into the variables of a set (dddmp_to), as ASCII or in binary, and one  *)
(* of them is kept.  In between, one number of a line may be altered       *)
(* (dddmp_damaged).  dddmp_number writes a number to a binary file and     *)
(* reads it.                                                               *)
(***************************************************************************)
DumpCalls ==
  [kind : {"dddmp"}, f : Regs, g : Operands, pick : 1 .. 2, ascii : BOOLEAN, order : BOOLEAN]
    \cup [kind : {"dddmp_to"}, f : Regs, g : Fixed, pick : 1 .. 2, ascii : BOOLEAN, to : Points]
    \cup [kind : {"dddmp_damaged"}, f : Regs, line : 1 .. NumVars + 1,
          field : {"text", "t", "e"}, value : -NumVars .. NumVars]
    \cup [kind : {"dddmp_number"}, n : 0 .. MaxFileNumber]

AllCalls ==
  [kind : {"const"}, value : BOOLEAN]
    \cup [kind : {"var"}, var : Vars]
    \cup [kind : {"not"}, f : Operands]
    \cup [kind : {"bin"}, op : BinOps, f : Operands, g : Operands]
    \cup [kind : {"ite"}, f : Operands, g : Operands, h : Operands]
    \cup [kind : {"substitute"}, f : Regs,
          subst : UNION {[S -> Operands] : S \in SUBSET Vars}]
    \cup [kind : {"restrict"}, f : Regs, lits : Literals]
    \cup [kind : {"quant"}, q : Quants, f : Regs, vars : Points]
    \cup UNION {[kind : {"apply_quant"}, q : Quants, op : BinOps, f : {r},
                 g : Operands \ {r}, vars : Points] : r \in Regs}
    \cup [kind : {"cofactor"}, f : Regs, value : BOOLEAN]
    \cup [kind : {"satisfiable", "valid"}, f : Regs]
    \cup [kind : {"eval"}, f : Regs, point : Points]
    \cup [kind : {"sat_count"}, f : Regs, n : NumVars .. MaxCount]
    \cup [kind : {"pick_cube", "pick_cube_symbolic"}, f : Regs, choice : Points]
    \cup [kind : {"pick_cube_symbolic_set"}, f : Regs, lits : Literals]
    \cup [kind : {"empty", "base"}]
    \cup [kind : {"singleton"}, var : Vars]
    \cup [kind : {"set"}, op : SetOps, f : Operands, g : Operands]
    \cup [kind : {"subset0", "subset1", "change"}, f : Regs, var : Vars]
    \cup DumpCalls

Calls == {c \in AllCalls : c.kind \in Kinds}

\* Calls that return something else than a function
IsQuery(c) ==
  c.kind \in {"satisfiable", "valid", "eval", "sat_count", "pick_cube", "dddmp_number"}

\* Calls whose result the client keeps as a function.  Cubes are only looked at:
\* which one is picked is left to the kind of diagram; and so is what a damaged
\* file still says.
IsKept(c) ==
  /\ ~IsQuery(c)
  /\ c.kind \notin
       {"cofactor", "pick_cube_symbolic", "pick_cube_symbolic_set", "dddmp_damaged"}

NoCall == [kind |-> "none"]
NoResult == "none"
NoCube == <<>>                    \* the None of pick_cube

=============================================================================
