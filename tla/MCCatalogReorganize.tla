------------------------ MODULE MCCatalogReorganize ------------------------
(***************************************************************************)
(* Small instances of the catalog with its reorganizations for TLC: two    *)
(* processes, a reorganization of an administrator and a repair.           *)
(***************************************************************************)
EXTENDS CatalogReorganize, TLC

CONSTANTS p1, p2, order, repair

TwoProcesses == {p1, p2}
OrderAndRepair == {order, repair}
OneRepair == {repair}
Symmetry == Permutations(TwoProcesses)
=============================================================================
