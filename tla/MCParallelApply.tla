-------------------------- MODULE MCParallelApply ---------------------------
(* Instances of ParallelApply for TLC. *)
EXTENDS ParallelApply, TLC

CONSTANTS c1, c2

NewVar(x) == <<x, True, False>>

X0  == NewVar(0)
X1  == NewVar(1)
X2  == NewVar(2)
Mux == <<0, X1, X2>>          \* x0 ? x1 : x2

MCOwned == {Mux, X0, X1, X2}

\* ite(X2, X0, True) is X2 => X0.  Each client needs two new nodes, or none as both
\* parts of the other ite are X1; only two fit into the store.
MCCalls ==
  c1 :> {<<"ite", <<X2, X0, True>>>>} @@ c2 :> {<<"equiv", <<X0, X1>>>>, <<"ite", <<X0, Mux, X1>>>>}

=============================================================================
