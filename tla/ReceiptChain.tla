---------------------------- MODULE ReceiptChain ----------------------------
(***************************************************************************)
(* The receipts of src/src/generated/receipt.ts: a chain of entries that   *)
(* open and close an operation, each bound by its hash to the one before,  *)
(* and a seal at the end.  A hash is the tuple of what it is computed of:  *)
(* different contents never have the same one.                             *)
(***************************************************************************)
EXTENDS Naturals, Sequences, SequencesExt, FiniteSets

CONSTANTS
  Subject,     \* what a receipt is about
  Operation,   \* the actions that are opened and closed
  Standing,    \* STANDINGS
  Neutral,     \* "unknown", the standing of what is not decided
  MaxEntries   \* length of a chain, without the seal

ASSUME ReceiptAssumption ==
  Neutral \in Standing /\ "seal" \notin Operation /\ MaxEntries \in Nat

VARIABLE chain

Phase == {"pending", "outcome"}

Genesis == <<>>  \* the hash in front of the first entry
NoRef   == <<>>  \* the pending_ref of an entry that closes nothing

Digest(e) == <<e.parent, e.phase, e.standing, e.subject, e.action, e.ref>>

Parent(c) == IF c = <<>> THEN Genesis ELSE Last(c).hash

Make(c, phase, standing, subject, action, ref, sealed) ==
  LET e == [parent |-> Parent(c), phase |-> phase, standing |-> standing,
            subject |-> subject, action |-> action, ref |-> ref, seal |-> sealed]
  IN [parent |-> e.parent, phase |-> phase, standing |-> standing, subject |-> subject,
      action |-> action, ref |-> ref, seal |-> sealed, hash |-> Digest(e)]

IsSealed(c) == \E i \in DOMAIN c : c[i].seal

Paired(c) == {c[i].ref : i \in {j \in DOMAIN c : c[j].phase = "outcome"}} \ {NoRef}

Unpaired(c) == {i \in DOMAIN c : c[i].phase = "pending" /\ c[i].hash \notin Paired(c)}

\* The pending entries an outcome of this action could close; the first one is
\* closed, whatever it is about.
OpenFor(c, action) == {i \in Unpaired(c) : c[i].action = action}
FirstOf(S) == CHOOSE i \in S : \A j \in S : i <= j

\* (mutant) the hash of the parent is not compared
Unbound(c, i) == TRUE

Bound(c, i) == c[i].parent = (IF i = 1 THEN Genesis ELSE c[i - 1].hash)

\* verify: what an entry has to be, given the entries in front of it.
EntryHolds(c, i) ==
  LET e == c[i]
      before == {j \in 1 .. i - 1 : c[j].phase = "pending"}
      used(h) == \E j \in 1 .. i - 1 : c[j].phase = "outcome" /\ ~c[j].seal /\ c[j].ref = h
  IN /\ Bound(c, i)
     /\ e.hash = Digest(e)
     /\ e.phase = "pending" => e.standing = Neutral /\ e.ref = NoRef
     /\ e.phase # "pending" /\ e.seal =>
          e.ref = NoRef /\ \A j \in before : used(c[j].hash)
     /\ e.phase # "pending" /\ ~e.seal =>
          /\ \E j \in before : c[j].hash = e.ref /\ c[j].action = e.action
          /\ ~used(e.ref)

Seals(c) == {i \in DOMAIN c : c[i].phase # "pending" /\ c[i].seal}

VerifyChain(c) ==
  /\ \A i \in DOMAIN c : EntryHolds(c, i)
  /\ Cardinality(Seals(c)) <= 1
  /\ Seals(c) # {} => Last(c).seal
-----------------------------------------------------------------------------
ReceiptInit == chain = <<>>

AppendPending(subject, action) ==
  /\ ~IsSealed(chain) /\ Len(chain) < MaxEntries
  /\ chain' = Append(chain, Make(chain, "pending", Neutral, subject, action, NoRef, FALSE))

AppendOutcome(standing, subject, action) ==
  /\ ~IsSealed(chain) /\ Len(chain) < MaxEntries
  /\ OpenFor(chain, action) # {}
  /\ LET open == chain[FirstOf(OpenFor(chain, action))] IN
     chain' = Append(chain, Make(chain, "outcome", standing, subject, action, open.hash, FALSE))

SealChain(standing, subject) ==
  /\ ~IsSealed(chain) /\ Unpaired(chain) = {}
  /\ chain' = Append(chain, Make(chain, "outcome", standing, subject, "seal", NoRef, TRUE))

ReceiptNext ==
  \E subject \in Subject :
    \/ \E action \in Operation : AppendPending(subject, action)
    \/ \E standing \in Standing, action \in Operation : AppendOutcome(standing, subject, action)
    \/ \E standing \in Standing : SealChain(standing, subject)

ReceiptSpec == ReceiptInit /\ [][ReceiptNext]_chain
-----------------------------------------------------------------------------
(* Properties *)

\* The entry with another standing or subject, with its hash as it was or computed
\* anew.
Altered(e)   == {[e EXCEPT !.standing = v[1], !.subject = v[2]] : v \in Standing \X Subject}
Rehashed(e)  == [e EXCEPT !.hash = Digest(e)]
Rewritten(e) == (Altered(e) \cup {Rehashed(f) : f \in Altered(e)}) \ {e}

\* What the chain is after a loss or a corruption: an entry before the last is
\* gone, two neighbours have changed places, or an entry was rewritten (the
\* last one only with its old hash: nothing is bound to the last hash).
Swapped(c, i) == ReplaceAt(ReplaceAt(c, i, c[i + 1]), i + 1, c[i])
DamagedAt(c, i) == {RemoveAt(c, i), Swapped(c, i)} \cup {ReplaceAt(c, i, e) : e \in Rewritten(c[i])}
DamagedEnd(c) ==
  IF c = <<>> THEN {}
  ELSE {ReplaceAt(c, Len(c), e) : e \in {f \in Rewritten(Last(c)) : f.hash = Last(c).hash}}

Damaged(c) == (UNION {DamagedAt(c, i) : i \in 1 .. Len(c) - 1}) \cup DamagedEnd(c)

\* Every chain the functions build verifies, and no damaged copy of it does.
OnlyTheChainVerifies ==
  VerifyChain(chain) /\ \A c \in Damaged(chain) : ~VerifyChain(c)
=============================================================================
