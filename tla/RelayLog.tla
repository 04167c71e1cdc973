------------------------------ MODULE RelayLog ------------------------------
(***************************************************************************)
(* What the durable relay state of one lease and epoch promises            *)
(* (src/src/relay-admission.ts): commands are admitted one at a time, in   *)
(* the order of their sequence numbers; the admitted one stays until it is *)
(* acknowledged, and an acknowledged one is never admitted again.          *)
(***************************************************************************)
EXTENDS Integers, Sequences

CONSTANTS Command,  \* records with a command_id, a sequence and an identity
          None

VARIABLES
  acknowledged,  \* the command ids acknowledged, oldest first
  pending        \* the command admitted and not yet acknowledged, or None

Init == acknowledged = <<>> /\ pending = None

Admit(c) ==
  /\ pending = None
  /\ c.sequence = Len(acknowledged) + 1
  /\ \A k \in DOMAIN acknowledged : acknowledged[k] # c.command_id
  /\ pending' = c
  /\ UNCHANGED acknowledged

Acknowledge ==
  /\ pending # None
  /\ acknowledged' = Append(acknowledged, pending.command_id)
  /\ pending' = None

Next == (\E c \in Command : Admit(c)) \/ Acknowledge

Spec == Init /\ [][Next]_<<acknowledged, pending>>
=============================================================================
