--------------------------- MODULE MCFabricClient ---------------------------
(***************************************************************************)
(* Instances of FabricClient.  Calls are alike, so safety alone may be     *)
(* checked up to their permutation.                                        *)
(***************************************************************************)
EXTENDS FabricClient, TLC

Symmetry == Permutations(Call)
=============================================================================
