-------------------------- MODULE MCRelayAdmission --------------------------
(***************************************************************************)
(* Instances of RelayAdmission: two commands in order, the first delivered *)
(* also with another identity, its sequence also under another command id, *)
(* its id also under the next sequence, and one envelope at fault.         *)
(***************************************************************************)
EXTENDS RelayAdmission

CONSTANTS c1, c2, c3, i1, i2

Env(c, n, i, f) == [command_id |-> c, sequence |-> n, identity |-> i, faults |-> f]

MCEnvelope == {Env(c1, 1, i1, {}), Env(c1, 1, i2, {}), Env(c3, 1, i1, {}),
               Env(c1, 2, i1, {}), Env(c2, 2, i1, {}), Env(c2, 2, i1, {"expiry"})}

\* Two command ids that compete for the first sequence number, and a successor.
MCInOrder == {Env(c1, 1, i1, {}), Env(c3, 1, i1, {}), Env(c2, 2, i1, {})}
=============================================================================
