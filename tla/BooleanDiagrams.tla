-------------------------- MODULE BooleanDiagrams ---------------------------
(***************************************************************************)
(* A client of a manager of some kind: BDD, BCDD or ZBDD.  It keeps        *)
(* functions in registers and makes any call that the function type of     *)
(* that kind offers.                                                       *)
(*                                                                         *)
(* A call stands for the sequential and for the multi-threaded variant of  *)
(* a function type (BDDFunction and BDDFunctionMT): both run the same      *)
(* recursion, whose subcalls are pure functions of diagrams.               *)
(***************************************************************************)
EXTENDS BooleanCalls, Saturating

CONSTANTS
  Managers,         \* the kinds of managers to consider
  GroupBits         \* bits of a number per byte of a binary file

VARIABLES
  kind,             \* the kind of the client's manager
  reg,              \* [Regs -> edges]: the functions the client owns
  call, res         \* the call that returned last and its result

vars == <<kind, reg, call, res>>

bdd  == INSTANCE BDD
bcdd == INSTANCE BCDD
zbdd == INSTANCE ZBDD

reduce(level, t, e) ==
  CASE kind = "bdd"  -> bdd!reduce(level, t, e)
    [] kind = "bcdd" -> bcdd!reduce(level, t, e)
    [] kind = "zbdd" -> zbdd!reduce(level, t, e)

Edge(o) ==
  CASE kind = "bdd" -> bdd!Edge(o) [] kind = "bcdd" -> bcdd!Edge(o) [] kind = "zbdd" -> zbdd!Edge(o)

not_edge_owned(e) ==
  CASE kind = "bdd" -> bdd!apply_not(e) [] kind = "bcdd" -> bcdd!not(e) [] kind = "zbdd" -> zbdd!apply_not(e)

IsComplemented(e) == kind = "bcdd" /\ bcdd!Tag(e)
Untagged(e)       == IF kind = "bcdd" THEN bcdd!WithTag(e, FALSE) ELSE e

Describe(e) ==
  CASE kind = "bdd" -> bdd!describe(e) [] kind = "bcdd" -> bcdd!describe(e) [] kind = "zbdd" -> zbdd!describe(e)

FromStr(s) ==
  CASE kind = "bdd" -> bdd!from_str(s) [] kind = "bcdd" -> bcdd!from_str(s) [] kind = "zbdd" -> zbdd!from_str(s)

dump == INSTANCE Dddmp WITH
  complement <- not_edge_owned, is_complemented <- IsComplemented,
  describe <- Describe, from_str <- FromStr

FileKinds == {"dddmp", "dddmp_to", "dddmp_damaged"}
VecSetKinds == {"empty", "base", "singleton", "set", "subset0", "subset1", "change"}
QuantKinds  == {"substitute", "restrict", "quant", "apply_quant"}

(***************************************************************************)
(* The calls a function type offers.  BDDs and BCDDs do not implement      *)
(* BooleanVecSet, ZBDDs neither BooleanFunctionQuant nor FunctionSubst.    *)
(* Counts of BCDDs beyond the width of the number type subtract from an    *)
(* out-of-bounds number; ZBDDs compute num_levels - vars as a u32, and     *)
(* their cofactors are functions of fewer variables.  Binary files are for *)
(* diagrams with one terminal only.                                        *)
(***************************************************************************)
OffersOperation(c) ==
  CASE kind = "bdd"  -> c.kind \notin VecSetKinds
    [] kind = "bcdd" -> c.kind \notin VecSetKinds /\ (c.kind = "sat_count" => c.n < Width)
    [] kind = "zbdd" -> c.kind \notin QuantKinds \cup {"cofactor"} /\ (c.kind = "sat_count" => c.n <= NumVars)

\* import wants as many variables as the support has.  Renaming the variables of
\* a ZBDD renames members of sets, which is not what it does to a function; and
\* import checks the level of a child of a ZBDD before it complements it.
OffersDump(c) ==
  LET roots == {Edge(c.f), Edge(c.g)} IN
  CASE c.kind = "dddmp"    -> c.ascii \/ kind = "bcdd"
    [] c.kind = "dddmp_to" ->
         /\ kind = "bcdd" \/ (kind = "bdd" /\ c.ascii)
         /\ Cardinality(c.to) = Cardinality(dump!Support(UNION {dump!rec_add_map(e) : e \in roots}))
    [] c.kind = "dddmp_damaged" ->
         /\ c.line <= Cardinality(dump!rec_add_map(reg[c.f]))
         /\ c.field = "text" \/ kind = "zbdd" => c.value >= 0
    [] c.kind = "dddmp_number" -> \A r \in Regs : ~dump!IsInner(reg[r])

Offers(c) == IF c \in DumpCalls THEN OffersDump(c) ELSE OffersOperation(c)

f_edge(k) ==
  CASE k = "bdd" -> bdd!False [] k = "bcdd" -> bcdd!get_terminal(FALSE) [] k = "zbdd" -> zbdd!Empty

t_edge(k) ==
  CASE k = "bdd" -> bdd!True [] k = "bcdd" -> bcdd!get_terminal(TRUE) [] k = "zbdd" -> zbdd!tautology(0)

cofactors_edge(f) ==
  IF ~dump!IsInner(f) THEN <<Rejected, Rejected>>
  ELSE IF kind = "bcdd" THEN <<bcdd!Cofactor(f, 2), bcdd!Cofactor(f, 3)>> ELSE <<f[2], f[3]>>

satisfiable(f) == f # f_edge(kind)
valid(f)       == f = t_edge(kind)

\* Two orders of the variables passed to export: as the levels, and another one.
VarOrder(asLevels) == [i \in 1 .. NumVars |-> IF asLevels THEN i - 1 ELSE i % NumVars]

Damaged(file, c) ==
  [file EXCEPT !.nodes[c.line] =
     CASE c.field = "text" -> [@ EXCEPT !.text = dump!Numeral(c.value)]
       [] c.field = "t"    -> [@ EXCEPT !.t = c.value]
       [] c.field = "e"    -> [@ EXCEPT !.e = c.value]]

Root(roots, i) == IF roots = <<>> THEN Rejected ELSE roots[i]

\* The file that is read: what export wrote, perhaps damaged.
File(c) ==
  CASE c.kind = "dddmp"    -> dump!export(<<Edge(c.f), Edge(c.g)>>, VarOrder(c.order), c.ascii, c.order)
    [] c.kind = "dddmp_to" -> dump!export(<<Edge(c.f), Edge(c.g)>>, VarOrder(TRUE), c.ascii, TRUE)
    [] c.kind = "dddmp_damaged" -> Damaged(dump!export(<<reg[c.f]>>, VarOrder(TRUE), TRUE, TRUE), c)

\* The variables it is imported into
ImportVars(c, file) ==
  CASE c.kind = "dddmp"         -> dump!SupportVars(file, VarOrder(c.order))
    [] c.kind = "dddmp_to"      -> dump!SetToSortSeq(c.to, <)
    [] c.kind = "dddmp_damaged" -> dump!SupportVars(file, VarOrder(TRUE))

Result(c) ==
  CASE c.kind = "cofactor"    -> cofactors_edge(reg[c.f])[IF c.value THEN 1 ELSE 2]
    [] c.kind = "satisfiable" -> satisfiable(reg[c.f])
    [] c.kind = "valid"       -> valid(reg[c.f])
    [] c.kind = "dddmp_number" -> dump!decode_7bit(dump!encode_7bit(c.n)).value
    [] OTHER ->
         CASE kind = "bdd"  -> bdd!Result(c)
           [] kind = "bcdd" -> bcdd!Result(c)
           [] kind = "zbdd" -> zbdd!Result(c)

Init ==
  /\ kind \in Managers
  /\ reg = [r \in Regs |-> f_edge(kind)]
  /\ call = NoCall /\ res = NoResult

\* export and import
ReturnFromFile(c) ==
  /\ call = NoCall
  /\ c.kind \in FileKinds /\ Offers(c)
  /\ call' = c
  /\ \E file \in {File(c)} : \E to \in {ImportVars(c, file)} :
       res' = Root(dump!import(file, to), IF c.kind = "dddmp_damaged" THEN 1 ELSE c.pick)
  /\ UNCHANGED <<kind, reg>>

Return(c) ==
  /\ call = NoCall
  /\ c.kind \notin FileKinds /\ Offers(c)
  /\ call' = c
  /\ res' = Result(c)
  /\ UNCHANGED <<kind, reg>>

Take(r) ==
  /\ call # NoCall
  /\ reg' = IF IsKept(call) THEN [reg EXCEPT ![r] = res] ELSE reg
  /\ call' = NoCall /\ res' = NoResult
  /\ UNCHANGED kind

Next == (\E c \in Calls : Return(c) \/ ReturnFromFile(c)) \/ (\E r \in Regs : Take(r))

Spec == Init /\ [][Next]_vars

-----------------------------------------------------------------------------
(* Properties *)

\* Every edge a call returns is reduced and ordered, also where the code inserts
\* nodes without calling reduce (pick_cube_symbolic, add_literal_to_cube,
\* substitute_prepare, var_boolean_function) and when it imports a damaged file:
\* equal functions are equal edges.
ResultReduced ==
  call # NoCall /\ ~IsQuery(call) /\ res # Rejected =>
    CASE kind = "bdd" -> bdd!IsROBDD(res) [] kind = "bcdd" -> bcdd!IsBCDD(res) [] kind = "zbdd" -> zbdd!IsZBDD(res)

\* The function a diagram denotes
Denotes(f) ==
  {p \in Points :
     CASE kind = "bdd" -> bdd!eval(f, p) [] kind = "bcdd" -> bcdd!eval(f, p) [] kind = "zbdd" -> zbdd!eval(f, p)}

CubeDenotes(cube) ==
  IF cube = NoCube THEN {}
  ELSE {p \in Points : \A x \in Vars :
          cube[x] = "dont_care" \/ (cube[x] = "true") = (x \in p)}

ResultDenotes ==
  IF call = NoCall THEN res
  ELSE IF call.kind = "pick_cube" THEN CubeDenotes(res)
  ELSE IF IsQuery(call) \/ res = Rejected THEN res
  ELSE Denotes(res)

Abstract == INSTANCE BooleanFunctions WITH
  val <- [r \in Regs |-> Denotes(reg[r])], res <- ResultDenotes

\* What pick_cube_symbolic_set of BDDs and BCDDs really does.  Below the first
\* literal it continues with the branch of literal_set that is false, so that
\* positive literals are followed only if they are the first one; negative ones
\* are the default, but where set_pop skips a literal of a BCDD it loses the tag of
\* the edge, and the next literal is taken with either sign.
LiteralsIgnored ==
  /\ kind \in {"bdd", "bcdd"} /\ call = NoCall
  /\ call'.kind = "pick_cube_symbolic_set"
  /\ LET l     == call'.lits
         all   == l.pos \cup l.neg
         first == {x \in all : Rank(x, all) = 0}
         wish  == [pos |-> l.pos \cap first,
                   neg |-> IF kind = "bdd" THEN l.neg ELSE l.neg \cap first]
     IN  Denotes(res') \in Abstract!Picks(Denotes(reg[call'.f]), wish, {})
  /\ UNCHANGED <<kind, reg>>

\* Whatever the kind of manager, every call in Kinds returns the diagram, count,
\* value or cube of the function that the traits of oxidd-core promise, except that
\* pick_cube_symbolic_set ignores literals as said above.  What is exported
\* is what is imported, whatever the format, the numbering of the nodes, the order
\* of the variables, and the variables it is imported into.
Implements == Abstract!Init /\ [][Abstract!Next \/ LiteralsIgnored]_vars

=============================================================================
