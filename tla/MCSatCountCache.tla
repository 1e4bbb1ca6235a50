-------------------------- MODULE MCSatCountCache ---------------------------
(* Instances of SatCountCache for TLC. *)
EXTENDS SatCountCache, TLC

CONSTANTS i1, i2, i3

IdSymmetry == Permutations(Ids)

=============================================================================
