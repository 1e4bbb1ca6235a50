--------------------------- MODULE ValuedDiagrams ---------------------------
(***************************************************************************)
(* A client of a manager of MTBDDs or of TDDs.  It keeps functions in      *)
(* registers and makes any call that the function type offers.             *)
(*                                                                         *)
(* The apply cache of the MTBDDs outlives the calls.                       *)
(***************************************************************************)
EXTENDS ValuedCalls

CONSTANT MaxKept    \* bound: how many results a client keeps

VARIABLES
  kind,             \* "mtbdd" or "tdd"
  reg,              \* [Regs -> edges]: the functions the client owns
  cache,            \* entries made in the apply cache of the MTBDDs
  call, res,        \* the call that returned last and its result
  kept              \* how many results were kept

vars == <<kind, reg, cache, call, res, kept>>

mtbdd == INSTANCE MTBDD
tdd   == INSTANCE TDD

Init ==
  /\ kind \in {"mtbdd", "tdd"}
  /\ reg = [r \in Regs |-> <<NumVars, 0>>]
  /\ cache = {} /\ call = NoCall /\ res = NoResult
  /\ kept = 0

Return(c) ==
  /\ call = NoCall
  /\ call' = c
  /\ \/ kind = "tdd" /\ res' = tdd!Result(c) /\ UNCHANGED cache
     \/ /\ kind = "mtbdd"
        /\ \E r \in mtbdd!Results(c) :
             res' = r.res /\ cache' = cache \cup r.added
  /\ UNCHANGED <<kind, reg, kept>>

Take(r) ==
  /\ call # NoCall /\ kept < MaxKept
  /\ reg' = [reg EXCEPT ![r] = res]
  /\ kept' = kept + 1
  /\ call' = NoCall /\ res' = NoResult
  /\ UNCHANGED <<kind, cache>>

Next ==
  \/ \E c \in Calls(kind) : Return(c)
  \/ \E r \in Regs : Take(r)

Spec == Init /\ [][Next]_vars

-----------------------------------------------------------------------------
(* Properties *)

\* Every edge a call returns is reduced and ordered, so equal functions are
\* equal edges: reduce sees every node that the recursions build.
ResultReduced ==
  call # NoCall => IF kind = "mtbdd" THEN mtbdd!IsMTBDD(res) ELSE tdd!IsTDD(res)

Points == [Vars -> VarValues(kind)]

Denotes(f) ==
  [p \in Points |-> IF kind = "mtbdd" THEN mtbdd!eval(f, p) ELSE tdd!eval(f, p)]

Abstract == INSTANCE PointwiseFunctions WITH
  val <- [r \in Regs |-> Denotes(reg[r])],
  res <- IF call = NoCall THEN res ELSE Denotes(res)

\* A shortcut of MTBDD terminal_bin: 0 - b is b.
ZeroMinus(op, a, b) == IF op = "sub" /\ a = 0 THEN {b} ELSE {}

\* Int64 loses a sign: a sum or difference that is too small is +inf, zero minus
\* the least integer is -inf, and the product or quotient of an infinity has the
\* infinity's sign, or is NaN.
SignLost(op, a, b) ==
  CASE op \in {"add", "sub"} /\ {a, b} \subseteq Integer ->
         CASE Abstract!Arithmetic(op, a, b) = MinusInf -> {PlusInf}
           [] Abstract!Arithmetic(op, a, b) = PlusInf /\ a = 0 -> {MinusInf}
           [] OTHER -> {}
    [] op = "mul" /\ NaN \notin {a, b} ->
         IF {a, b} = {MinusInf, PlusInf} THEN {NaN} ELSE {a, b} \cap {MinusInf, PlusInf}
    [] op = "div" /\ b \in Integer -> {a} \cap {MinusInf, PlusInf}
    [] OTHER -> {}

Other(op) == IF op = "min" THEN "max" ELSE "min"

\* An entry under the key of min that the other extremum made
Mistaken(op, entry) ==
  /\ entry.key = "min"
  /\ \E pair \in entry.args, p \in Points :
       Denotes(entry.res)[p] # Abstract!Arithmetic(op, Denotes(pair[1])[p], Denotes(pair[2])[p])

\* min and max answer each other's queries of the apply cache.
Extremum(op, a, b) ==
  IF op \in {"min", "max"} /\ \E entry \in cache : Mistaken(op, entry)
  THEN {Abstract!Arithmetic(Other(op), a, b)} ELSE {}

\* A call of a number operation that does not keep the promise: the value at a
\* point is that of the operation, or one of the three deviations.
Deviates ==
  /\ kind = "mtbdd" /\ call = NoCall
  /\ call' \in {c \in Calls(kind) : c.kind = "bin"}
  /\ \A p \in Points :
       LET a == Abstract!Value(call'.f)[p]
           b == Abstract!Value(call'.g)[p] IN
       mtbdd!eval(res', p) \in {Abstract!Arithmetic(call'.op, a, b)}
         \cup ZeroMinus(call'.op, a, b) \cup SignLost(call'.op, a, b)
         \cup Extremum(call'.op, a, b)
  /\ UNCHANGED <<kind, reg, kept>>

\* Every call returns the diagram of the function that its operation gives point
\* by point, at every depth of the recursion: the shortcuts for terminals, equal
\* operands and mixed operands of ite and the entries of the apply cache agree
\* with the three-valued logic and with the arithmetic of the integers, NaN and
\* the infinities, where an integer out of range is the infinity of its sign.
\* The calls that MTBDDs answer otherwise are those that Deviates names: 0 - g
\* is g, Int64 loses signs, and max and min share keys of the apply cache.
Implements == Abstract!Init /\ [][Abstract!Next \/ Deviates]_vars

=============================================================================
