-------------------------- MODULE MCProductCatalog --------------------------
(***************************************************************************)
(* Small instances of the product catalog for TLC: two processes that look *)
(* one product up.                                                         *)
(***************************************************************************)
EXTENDS ProductCatalog, TLC

CONSTANTS p1, p2

TwoProcesses == {p1, p2}
Symmetry == Permutations(TwoProcesses)
=============================================================================
