---------------------------- MODULE MCHashTable -----------------------------
(* Instances of HashTable for TLC. *)
EXTENDS HashTable, TLC

CONSTANTS k1, k2, k3, k4, k5

\* k1 and k2 collide in every table, k3 with them in small ones, and k4 and
\* k5 wrap around in tables of 4 and of 8 slots.
MCHash == k1 :> 9 @@ k2 :> 9 @@ k3 :> 5 @@ k4 :> 3 @@ k5 :> 7

SafeKinds == {"get", "insert", "remove", "reserve", "clear", "iter"}
RetainKinds == {"insert", "get", "retain"}

=============================================================================
