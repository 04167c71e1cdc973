--------------------------- MODULE RelayAdmission ---------------------------
(***************************************************************************)
(* Worker-side admission of relayed commands (src/src/relay-admission.ts). *)
(* Worker processes that hold the same lease and epoch share one durable   *)
(* state file and guard it with a lock file.  Each dispatch runs           *)
(*   admit (under the lock) -> execute -> acknowledge (under the lock).    *)
(* A step is one file-system call; a process may be killed between two.    *)
(***************************************************************************)
EXTENDS Integers, Sequences

CONSTANTS
  Proc,        \* worker processes, named by their pid
  Envelope,    \* the envelopes the relay may deliver, see EnvelopeAssumption
  None,        \* null
  Overlap,     \* may two processes handle commands at the same time?
  Stalls,      \* may a live process take longer than the lock timeout between
               \* creating its lock file and writing its pid into it?
  WritesFail,  \* may the write of the pid fail (a full disk)?
  MaxCrashes   \* bound: how many processes are killed

\* The stages before durable_replay look at the envelope, the lease descriptor
\* and the clock only.
PureStages == {"envelope_shape", "expiry", "execution_manifest", "authority_shape",
               "gall_work_semantic_binding"}

(***************************************************************************)
(* An envelope is a command id, a sequence number, the rest of its         *)
(* semantic identity (intent, subject, verb, channel, authority_ref) and   *)
(* the set of pure stages that find fault with it.                         *)
(***************************************************************************)
ASSUME EnvelopeAssumption ==
  \A e \in Envelope : /\ DOMAIN e = {"command_id", "sequence", "identity", "faults"}
                      /\ e.sequence \in Nat \ {0}
                      /\ e.faults \subseteq PureStages
ASSUME ConstantsAssumption ==
  /\ None \notin Proc /\ None \notin [by: Proc, written: BOOLEAN]
  /\ None \notin {[command_id |-> e.command_id, sequence |-> e.sequence,
                   identity |-> e.identity] : e \in Envelope}
  /\ Overlap \in BOOLEAN /\ Stalls \in BOOLEAN /\ WritesFail \in BOOLEAN
  /\ MaxCrashes \in Nat

VARIABLES
  stateFile,  \* the durable RelayAckState
  lockFile,   \* the lock file: who created it and whether it holds a pid yet
  pc, op,     \* where each process is, and whether it admits or acknowledges
  envelope,   \* the envelope each process is dispatching
  state,      \* `this.state`, loaded under the lock
  outcome,    \* how the transition, and finally the dispatch, came out
  crashes

vars == <<stateFile, lockFile, pc, op, envelope, state, outcome, crashes>>

PendingOf(e) ==
  [command_id |-> e.command_id, sequence |-> e.sequence, identity |-> e.identity]
Commands   == {PendingOf(e) : e \in Envelope}
CommandIds == {e.command_id : e \in Envelope}

RelayAckState ==
  [last_acknowledged_sequence: Nat, acknowledged_ids: Seq(CommandIds),
   pending: Commands \cup {None}]
FreshState ==
  [last_acknowledged_sequence |-> 0, acknowledged_ids |-> <<>>, pending |-> None]

Steps == {"idle", "open", "writePid", "load", "commit", "unlock", "inspect", "unlink",
          "spawn", "running", "dead"}
Outcomes == {"none", "admitted", "known_replay", "refused", "threw",
             "unacknowledged", "executed"}

Alive(p) == pc[p] # "dead"
Dispatching(p) == pc[p] \notin {"idle", "dead"}
InCriticalSection(p) == pc[p] \in {"load", "commit", "unlock"}
Goto(p, s) == pc' = [pc EXCEPT ![p] = s]
Result(p, r) == outcome' = [outcome EXCEPT ![p] = r]
-----------------------------------------------------------------------------
Init ==
  /\ stateFile = FreshState
  /\ lockFile = None
  /\ pc = [p \in Proc |-> "idle"]
  /\ op = [p \in Proc |-> "admit"]
  /\ envelope = [p \in Proc |-> None]
  /\ state = [p \in Proc |-> FreshState]
  /\ outcome = [p \in Proc |-> "none"]
  /\ crashes = 0

\* dispatchRelayCommand on a delivered envelope: the pure stages of admit.
Dispatch(p, e) ==
  /\ pc[p] = "idle"
  /\ Overlap \/ \A q \in Proc : ~Dispatching(q)
  /\ envelope' = [envelope EXCEPT ![p] = e]
  /\ op' = [op EXCEPT ![p] = "admit"]
  /\ IF e.faults = {}
     THEN Goto(p, "open") /\ Result(p, "none")
     ELSE UNCHANGED pc /\ Result(p, "refused")
  /\ UNCHANGED <<stateFile, lockFile, state, crashes>>
-----------------------------------------------------------------------------
(* withStateLock *)

\* openSync(lockPath, "wx"): create the lock file, or find that it exists.
OpenLock(p) ==
  /\ pc[p] = "open"
  /\ IF lockFile = None
     THEN lockFile' = [by |-> p, written |-> FALSE] /\ Goto(p, "writePid")
     ELSE UNCHANGED lockFile /\ Goto(p, "inspect")
  /\ UNCHANGED <<stateFile, op, envelope, state, outcome, crashes>>

\* The pid goes to the file this process created, which may be unlinked by now.
\* An error of the write leaves the lock: the unlink is in a later try.
WritePid(p) ==
  /\ pc[p] = "writePid"
  /\ \/ /\ lockFile' = IF lockFile # None /\ lockFile.by = p
                       THEN [lockFile EXCEPT !.written = TRUE] ELSE lockFile
        /\ Goto(p, "load") /\ UNCHANGED outcome
     \/ WritesFail /\ Goto(p, "idle") /\ Result(p, "threw") /\ UNCHANGED lockFile
  /\ UNCHANGED <<stateFile, op, envelope, state, crashes>>

\* (mutant) the holder's pid is not probed
StaleUnlessOwn(p) == lockFile.by # p

\* (mutant) a lock that holds no pid is never stale
StaleIfWritten(p) == lockFile.written /\ lockFile.by # p /\ ~Alive(lockFile.by)

\* A lock whose pid is dead, or that stays unwritten longer than the timeout.
Stale(p) ==
  IF lockFile.written
  THEN lockFile.by # p /\ ~Alive(lockFile.by)
  ELSE pc[lockFile.by] # "writePid" \/ Stalls

\* Read the lock file: gone, stale, or held; a held lock is tried again or
\* given up at the deadline (RelayLockError).
InspectLock(p) ==
  /\ pc[p] = "inspect"
  /\ \/ lockFile = None /\ Goto(p, "open") /\ UNCHANGED outcome
     \/ lockFile # None /\ Stale(p) /\ Goto(p, "unlink") /\ UNCHANGED outcome
     \/ lockFile # None /\ (~Stale(p) \/ ~lockFile.written) /\ Goto(p, "open") /\ UNCHANGED outcome
     \/ lockFile # None /\ (~Stale(p) \/ ~lockFile.written) /\ Goto(p, "idle") /\ Result(p, "threw")
  /\ UNCHANGED <<stateFile, lockFile, op, envelope, state, crashes>>

\* unlinkSync removes whatever lock file is there by now.
UnlinkStale(p) ==
  /\ pc[p] = "unlink"
  /\ lockFile' = None
  /\ Goto(p, "open")
  /\ UNCHANGED <<stateFile, op, envelope, state, outcome, crashes>>

\* locked(): loadState under the lock.
Load(p) ==
  /\ pc[p] = "load"
  /\ state' = [state EXCEPT ![p] = stateFile]
  /\ Goto(p, "commit")
  /\ UNCHANGED <<stateFile, lockFile, op, envelope, outcome, crashes>>

-----------------------------------------------------------------------------
(* admitDurable and acknowledgeDurable, run under the lock *)

\* KNOWN_REPLAY: an acknowledged command id or sequence.
Replayed(s, e) ==
  \/ \E k \in DOMAIN s.acknowledged_ids : s.acknowledged_ids[k] = e.command_id
  \/ e.sequence <= s.last_acknowledged_sequence

\* Disconnect before ACK: the same command, with the same identity.
Retried(s, e) == s.pending # None /\ s.pending = PendingOf(e)

\* (mutant) the sequence of a fresh command is not checked
AnySequence(s, e) ==
  s.pending # None => s.pending.command_id # e.command_id /\ s.pending.sequence # e.sequence

\* (mutant) a fresh command may take the pending sequence
Replaceable(s, e) ==
  /\ s.pending # None => s.pending.command_id # e.command_id
  /\ e.sequence = s.last_acknowledged_sequence + 1

\* Neither another command under the pending id nor another id under the
\* pending sequence, and no gap.
Fresh(s, e) ==
  /\ s.pending # None => /\ s.pending.command_id # e.command_id
                         /\ s.pending.sequence # e.sequence
  /\ e.sequence = s.last_acknowledged_sequence + 1

\* persistState: write and rename, or throw before the rename.
Persist(p, s, r) ==
  \/ stateFile' = s /\ Result(p, r)
  \/ UNCHANGED stateFile /\ Result(p, "threw")

AdmitDurable(p) ==
  LET s == state[p]
      e == envelope[p] IN
  /\ pc[p] = "commit" /\ op[p] = "admit"
  /\ \/ Replayed(s, e) /\ Result(p, "known_replay") /\ UNCHANGED stateFile
     \/ ~Replayed(s, e) /\ Retried(s, e) /\ Result(p, "admitted") /\ UNCHANGED stateFile
     \/ /\ ~Replayed(s, e) /\ ~Retried(s, e) /\ Fresh(s, e)
        /\ Persist(p, [s EXCEPT !.pending = PendingOf(e)], "admitted")
     \/ /\ ~Replayed(s, e) /\ ~Retried(s, e) /\ ~Fresh(s, e)
        /\ Result(p, "refused") /\ UNCHANGED stateFile
  /\ Goto(p, "unlock")
  /\ UNCHANGED <<lockFile, op, envelope, state, crashes>>

\* The pending command is the one to acknowledge, and it is the next in order.
Acknowledgeable(s, e) ==
  /\ s.pending # None /\ s.pending.command_id = e.command_id
  /\ s.pending.sequence = s.last_acknowledged_sequence + 1

\* (mutant) the list of acknowledged ids is bounded like the list of entries
AfterAckEvicting(s) ==
  [last_acknowledged_sequence |-> s.pending.sequence,
   acknowledged_ids |-> <<s.pending.command_id>>, pending |-> None]

AfterAck(s) ==
  [last_acknowledged_sequence |-> s.pending.sequence,
   acknowledged_ids |-> Append(s.acknowledged_ids, s.pending.command_id),
   pending |-> None]

AcknowledgeDurable(p) ==
  LET s == state[p]
      e == envelope[p] IN
  /\ pc[p] = "commit" /\ op[p] = "acknowledge"
  /\ \/ Acknowledgeable(s, e) /\ Persist(p, AfterAck(s), "executed")
     \/ ~Acknowledgeable(s, e) /\ Result(p, "unacknowledged") /\ UNCHANGED stateFile
  /\ Goto(p, "unlock")
  /\ UNCHANGED <<lockFile, op, envelope, state, crashes>>

\* `execute` runs only on `admitted`.
GoesOn(p) == outcome[p] = "admitted"

\* The finally clause: unlink the lock, whoever it belongs to, and go on with
\* the dispatch.  this.state is not read again before it is loaded again.
Unlock(p) ==
  /\ pc[p] = "unlock"
  /\ lockFile' = None
  /\ Goto(p, IF GoesOn(p) THEN "spawn" ELSE "idle")
  /\ state' = [state EXCEPT ![p] = FreshState]
  /\ UNCHANGED <<stateFile, op, envelope, outcome, crashes>>
-----------------------------------------------------------------------------
\* execute(envelope) starts the command ...
Spawn(p) ==
  /\ pc[p] = "spawn"
  /\ Goto(p, "running")
  /\ UNCHANGED <<stateFile, lockFile, op, envelope, state, outcome, crashes>>

\* ... and returns its receipt, to be acknowledged, or throws.
Executed(p) ==
  /\ pc[p] = "running"
  /\ \/ op' = [op EXCEPT ![p] = "acknowledge"] /\ Goto(p, "open") /\ Result(p, "none")
     \/ Goto(p, "idle") /\ Result(p, "threw") /\ UNCHANGED op
  /\ UNCHANGED <<stateFile, lockFile, envelope, state, crashes>>

\* The process is killed; the files stay as they are.
Crash(p) ==
  /\ Dispatching(p) /\ crashes < MaxCrashes
  /\ crashes' = crashes + 1
  /\ Goto(p, "dead")
  /\ state' = [state EXCEPT ![p] = FreshState]
  /\ outcome' = [outcome EXCEPT ![p] = "none"]
  /\ UNCHANGED <<stateFile, lockFile, op, envelope>>

Proceed(p) ==
  \/ OpenLock(p) \/ WritePid(p) \/ InspectLock(p) \/ UnlinkStale(p) \/ Load(p)
  \/ AdmitDurable(p) \/ AcknowledgeDurable(p) \/ Unlock(p) \/ Spawn(p) \/ Executed(p)

Next ==
  \E p \in Proc : (\E e \in Envelope : Dispatch(p, e)) \/ Proceed(p) \/ Crash(p)

Spec == Init /\ [][Next]_vars

(***************************************************************************)
(* Processes run; the relay delivers every envelope again and again to a   *)
(* live worker; a disk is not full forever, and executions, writes of the  *)
(* state file and waits for an abandoned lock do not fail forever.         *)
(***************************************************************************)
FairSpec ==
  /\ Spec
  /\ \A p \in Proc : WF_vars(Proceed(p))
  /\ <>[][\A p \in Proc : WritePid(p) => pc'[p] = "load"]_vars
  /\ SF_vars(\E p \in Proc : Executed(p) /\ op'[p] = "acknowledge")
  /\ SF_vars(\E p \in Proc : AcknowledgeDurable(p) /\ outcome'[p] = "executed")
  /\ SF_vars(\E p \in Proc : InspectLock(p) /\ pc'[p] = "unlink")
  /\ \A e \in Envelope : SF_vars(\E p \in Proc : Dispatch(p, e))
-----------------------------------------------------------------------------
(* Properties *)

TypeOK ==
  /\ stateFile \in RelayAckState
  /\ lockFile \in [by: Proc, written: BOOLEAN] \cup {None}
  /\ pc \in [Proc -> Steps] /\ op \in [Proc -> {"admit", "acknowledge"}]
  /\ envelope \in [Proc -> Envelope \cup {None}]
  /\ \A p \in Proc : Dispatching(p) => envelope[p] \in Envelope
  /\ state \in [Proc -> RelayAckState] /\ outcome \in [Proc -> Outcomes]
  /\ crashes \in 0..MaxCrashes

\* The lock file excludes: no two workers read and write the durable state at
\* the same time, across crashes and stale locks.
MutualExclusion ==
  \A p, q \in Proc : InCriticalSection(p) /\ InCriticalSection(q) => p = q

\* The durable state is that of the abstract log: commands are acknowledged
\* once, in order, and the pending one keeps its identity until then.
Log == INSTANCE RelayLog WITH
  Command <- Commands,
  acknowledged <- stateFile.acknowledged_ids,
  pending <- stateFile.pending
ImplementsLog == Log!Spec

\* The number of acknowledged ids is the last acknowledged sequence, which is
\* what loadState requires of the file it accepts.
StateFileLoads ==
  /\ Len(stateFile.acknowledged_ids) = stateFile.last_acknowledged_sequence
  /\ stateFile.pending # None =>
       stateFile.pending.sequence = stateFile.last_acknowledged_sequence + 1

\* A dispatch reported as executed is durably acknowledged.
ExecutedIsAcknowledged ==
  \A p \in Proc : outcome[p] = "executed" =>
    \E k \in DOMAIN stateFile.acknowledged_ids :
      stateFile.acknowledged_ids[k] = envelope[p].command_id

\* An acknowledged command never spawns again.
AcknowledgedNeverSpawns ==
  [][\A p \in Proc : pc[p] = "spawn" /\ pc'[p] = "running" =>
       \A k \in DOMAIN stateFile.acknowledged_ids :
         stateFile.acknowledged_ids[k] # envelope[p].command_id]_vars

\* A pending command is acknowledged in the end: neither a crash between its
\* admission and its acknowledgement nor a lock that nobody holds stops it.
PendingIsAcknowledged ==
  \A c \in Commands :
    stateFile.pending = c
      ~> \E k \in DOMAIN stateFile.acknowledged_ids :
           stateFile.acknowledged_ids[k] = c.command_id
=============================================================================
