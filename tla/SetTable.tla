------------------------------ MODULE SetTable ------------------------------
(***************************************************************************)
(* What a hash table without values promises: it is a finite set, and a    *)
(* call returns what that set says.                                        *)
(***************************************************************************)
EXTENDS TableCalls

VARIABLES
  items,            \* the elements of the table
  call, res         \* the call that returned last and its result

vars == <<items, call, res>>

Result(c) ==
  CASE c.kind \in {"get", "insert", "remove"} -> c.key \in items
    [] c.kind \in {"iter", "drain"} -> items
    [] c.kind = "retain" -> items \ c.keep
    [] OTHER -> {}

Effect(c) ==
  CASE c.kind = "insert" -> items \cup {c.key}
    [] c.kind = "remove" -> items \ {c.key}
    [] c.kind = "retain" -> items \cap c.keep
    [] c.kind \in {"clear", "drain", "reset"} -> {}
    [] OTHER -> items

Init == items = {} /\ call = NoCall /\ res = {}

Next ==
  /\ call' \in Calls
  /\ res' = Result(call')
  /\ items' = Effect(call')

Spec == Init /\ [][Next]_vars

=============================================================================
