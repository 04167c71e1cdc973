----------------------------- MODULE MCTurnLoop -----------------------------
(***************************************************************************)
(* Instances of TurnLoop.  Inputs of a kind are alike.                     *)
(***************************************************************************)
EXTENDS TurnLoop, TLC

Symmetry == Permutations(Input \ Slash) \cup Permutations(Slash)
=============================================================================
