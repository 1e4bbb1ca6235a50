----------------------------- MODULE TableCalls -----------------------------
(***************************************************************************)
(* The calls of RawTable (crates/linear-hashtbl/src/raw.rs) as the unique  *)
(* tables make them: the equality passed in is equality of keys, and an    *)
(* insertion is preceded by the search for its slot.                       *)
(***************************************************************************)
EXTENDS Integers

CONSTANTS
  Keys,             \* the elements to store
  MaxReserve,       \* bound on the argument of reserve
  Kinds             \* the kinds of calls that are made

ASSUME ReserveAssumption == MaxReserve \in Nat

AllCalls ==
  [kind : {"get", "insert", "remove"}, key : Keys]
    \cup [kind : {"retain"}, keep : SUBSET Keys]
    \cup [kind : {"reserve"}, additional : 0 .. MaxReserve]
    \cup [kind : {"clear", "iter", "drain", "reset"}]

Calls == {c \in AllCalls : c.kind \in Kinds}

NoCall == [kind |-> "none"]

=============================================================================
