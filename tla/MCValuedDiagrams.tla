-------------------------- MODULE MCValuedDiagrams --------------------------
EXTENDS ValuedDiagrams

CONSTANTS r1, r2

MCRegs == {r1, r2}

=============================================================================
