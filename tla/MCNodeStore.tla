----------------------------- MODULE MCNodeStore -----------------------------
(* Instances of NodeStore for TLC. *)
EXTENDS NodeStore

CONSTANTS s1, s2, a, w, g1, g2, Cap1, Cap2

HomeOf     == [t \in Pool |-> IF t = g2 THEN s2 ELSE s1]
GcThreadOf == [s \in Stores |-> IF s = s1 THEN g1 ELSE g2]

CapacityOf == [s \in Stores |-> IF s = s1 THEN Cap1 ELSE Cap2]

=============================================================================
