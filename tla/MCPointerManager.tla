-------------------------- MODULE MCPointerManager --------------------------
(* Two interchangeable client threads.                                       *)
EXTENDS PointerManager, TLC

CONSTANTS a, b

MCThreads == {a, b}
Symmetry == Permutations(MCThreads)
=============================================================================
