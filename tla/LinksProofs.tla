----------------------------- MODULE LinksProofs -----------------------------
(***************************************************************************)
(* The two links of a command to the services it depends on.               *)
(*                                                                         *)
(* What the lock file of src/src/relay-admission.ts gives, for any number  *)
(* of commands: where its take-over of a stale lock cannot be shared, it   *)
(* excludes, the durable state file follows the abstract log, and where    *)
(* the workers do not overlap no acknowledged command is spawned again.    *)
(*                                                                         *)
(* The ConcurrencyCap of src/src/provider-backoff.ts, for any number of    *)
(* calls, any limit and any number of attempts: it loses no wakeup, and it *)
(* keeps its bound and its order as long as no call begins between a       *)
(* release and the resumption of the waiter that the release woke.         *)
(***************************************************************************)
EXTENDS RelayAdmission, FabricClient, FiniteSetTheorems, TLAPS

(***************************************************************************)
(* Removing a stale lock is check-then-unlink.  Two workers that both      *)
(* found the same lock stale would undo each other, so the theorems are    *)
(* about the settings in which that cannot happen: workers are dispatched  *)
(* one at a time, or none takes its lock too slowly or fails to write its  *)
(* pid into it and either none is killed or there are two of them at most. *)
(***************************************************************************)
AtMostTwo == \A p, q, r \in Proc : p = q \/ q = r \/ p = r
TakeoverUnshared ==
  ~Overlap \/ (~Stalls /\ ~WritesFail /\ (MaxCrashes = 0 \/ AtMostTwo))

Holding(p) == pc[p] \in {"writePid", "load", "commit", "unlock"}
Acknowledged(c) ==
  \E k \in DOMAIN stateFile.acknowledged_ids : stateFile.acknowledged_ids[k] = c

\* The lock file names the process that works under it.
HolderOwnsLock ==
  \A p \in Proc : Holding(p) => lockFile # None /\ lockFile.by = p

\* A process about to unlink a stale lock is the only one that can act.
TakerIsAlone ==
  \A p, q \in Proc : pc[p] = "unlink" /\ q # p =>
    pc[q] = "dead" \/ (~Overlap /\ pc[q] = "idle")

\* Without overlap one process dispatches; without crashes none is dead.
DispatchedAsAllowed ==
  /\ ~Overlap => \A p, q \in Proc : Dispatching(p) /\ Dispatching(q) => p = q
  /\ MaxCrashes = 0 => \A p \in Proc : pc[p] # "dead"

\* The state loaded under the lock is the durable one until it is persisted.
LoadedIsDurable == \A p \in Proc : pc[p] = "commit" => state[p] = stateFile

\* While no write fails, a lock without a pid is about to get one, or its
\* process is dead.
UnwrittenIsHeld ==
  ~WritesFail /\ lockFile # None /\ ~lockFile.written
    => pc[lockFile.by] \in {"writePid", "dead"}

LockInv ==
  TypeOK /\ HolderOwnsLock /\ TakerIsAlone /\ DispatchedAsAllowed /\ UnwrittenIsHeld
StateInv == LockInv /\ LoadedIsDurable /\ StateFileLoads

\* A command on its way to be spawned is not acknowledged.
GoesOnUnacknowledged ==
  \A p \in Proc : \/ pc[p] = "spawn"
                  \/ pc[p] = "unlock" /\ outcome[p] = "admitted"
                  => ~Acknowledged(envelope[p].command_id)
-----------------------------------------------------------------------------
\* Commands are made of envelopes, and null is not one.
LEMMA CommandFacts ==
  /\ \A e \in Envelope : /\ PendingOf(e) \in Commands
                         /\ e.command_id \in CommandIds
                         /\ e.sequence \in Nat
                         /\ PendingOf(e).command_id = e.command_id
                         /\ PendingOf(e).sequence = e.sequence
  /\ \A c \in Commands : c.command_id \in CommandIds /\ c.sequence \in Nat
  /\ None \notin Commands
BY EnvelopeAssumption, ConstantsAssumption DEF PendingOf, Commands, CommandIds

\* The initial state is typed.
LEMMA InitTypeOK == Init => TypeOK
<1> SUFFICES ASSUME Init PROVE TypeOK
  OBVIOUS
<1>1. FreshState \in RelayAckState
  BY DEF FreshState, RelayAckState
<1> QED
  BY <1>1, ConstantsAssumption DEF Init, TypeOK, Steps, Outcomes, Dispatching

\* What each transition makes of a typed state is typed.
LEMMA TransitionsTyped ==
  ASSUME NEW s \in RelayAckState
  PROVE  /\ \A e \in Envelope : [s EXCEPT !.pending = PendingOf(e)] \in RelayAckState
         /\ s.pending # None => AfterAck(s) \in RelayAckState
         /\ FreshState \in RelayAckState
<1>1. \A e \in Envelope : [s EXCEPT !.pending = PendingOf(e)] \in RelayAckState
  BY CommandFacts DEF RelayAckState
<1>2. ASSUME s.pending # None PROVE AfterAck(s) \in RelayAckState
  <2>1. s.pending.command_id \in CommandIds /\ s.pending.sequence \in Nat
    BY <1>2, CommandFacts DEF RelayAckState
  <2>2. Append(s.acknowledged_ids, s.pending.command_id) \in Seq(CommandIds)
    BY <2>1 DEF RelayAckState
  <2> QED
    BY <2>1, <2>2 DEF RelayAckState, AfterAck
<1>3. FreshState \in RelayAckState
  BY DEF FreshState, RelayAckState
<1> QED
  BY <1>1, <1>2, <1>3
-----------------------------------------------------------------------------
USE DEF Goto, Result

\* Every step of a process keeps the state typed.
LEMMA TypePreserved == TypeOK /\ [Next]_vars => TypeOK'
<1> SUFFICES ASSUME TypeOK, [Next]_vars PROVE TypeOK'
  OBVIOUS
<1> USE DEF TypeOK, Steps, Outcomes, Dispatching
<1>1. ASSUME NEW p \in Proc, NEW e \in Envelope, Dispatch(p, e) PROVE TypeOK'
  BY <1>1 DEF Dispatch
<1>2. ASSUME NEW p \in Proc, OpenLock(p) PROVE TypeOK'
  <2>1. [by |-> p, written |-> FALSE] \in [by: Proc, written: BOOLEAN]
    OBVIOUS
  <2>2. CASE lockFile = None
    BY <1>2, <2>1, <2>2 DEF OpenLock
  <2>3. CASE lockFile # None
    BY <1>2, <2>3 DEF OpenLock
  <2> QED
    BY <2>2, <2>3
<1>3. ASSUME NEW p \in Proc, WritePid(p) PROVE TypeOK'
  <2>1. CASE UNCHANGED lockFile
    BY <1>3, <2>1 DEF WritePid
  <2>2. CASE lockFile # None /\ lockFile' = [lockFile EXCEPT !.written = TRUE]
    <3>1. lockFile \in [by: Proc, written: BOOLEAN]
      BY <2>2
    <3>2. lockFile' \in [by: Proc, written: BOOLEAN]
      BY <2>2, <3>1
    <3> QED
      BY <1>3, <3>2 DEF WritePid
  <2> QED
    BY <1>3, <2>1, <2>2 DEF WritePid
<1>4. ASSUME NEW p \in Proc, InspectLock(p) PROVE TypeOK'
  BY <1>4 DEF InspectLock
<1>5. ASSUME NEW p \in Proc, UnlinkStale(p) PROVE TypeOK'
  BY <1>5 DEF UnlinkStale
<1>6. ASSUME NEW p \in Proc, Load(p) PROVE TypeOK'
  BY <1>6 DEF Load
<1>7. ASSUME NEW p \in Proc, AdmitDurable(p) PROVE TypeOK'
  <2>1. state[p] \in RelayAckState /\ envelope[p] \in Envelope
    BY <1>7 DEF AdmitDurable
  <2>2. stateFile' \in RelayAckState
    BY <1>7, <2>1, TransitionsTyped DEF AdmitDurable, Persist
  <2> QED
    BY <1>7, <2>2 DEF AdmitDurable, Persist
<1>8. ASSUME NEW p \in Proc, AcknowledgeDurable(p) PROVE TypeOK'
  <2>1. stateFile' \in RelayAckState
    BY <1>8, TransitionsTyped DEF AcknowledgeDurable, Acknowledgeable, Persist
  <2> QED
    BY <1>8, <2>1 DEF AcknowledgeDurable, Persist
<1>9. ASSUME NEW p \in Proc, Unlock(p) PROVE TypeOK'
  <2>1. FreshState \in RelayAckState
    BY DEF FreshState, RelayAckState
  <2> QED
    BY <1>9, <2>1 DEF Unlock
<1>10. ASSUME NEW p \in Proc, Spawn(p) PROVE TypeOK'
  BY <1>10 DEF Spawn
<1>11. ASSUME NEW p \in Proc, Executed(p) PROVE TypeOK'
  BY <1>11 DEF Executed
<1>12. ASSUME NEW p \in Proc, Crash(p) PROVE TypeOK'
  <2>1. FreshState \in RelayAckState
    BY DEF FreshState, RelayAckState
  <2> QED
    BY <1>12, <2>1, ConstantsAssumption DEF Crash
<1>13. CASE UNCHANGED vars
  BY <1>13 DEF vars
<1> QED
  BY <1>1, <1>2, <1>3, <1>4, <1>5, <1>6, <1>7, <1>8, <1>9, <1>10, <1>11, <1>12, <1>13
  DEF Next, Proceed

\* The durable state, the lock file and every process are of their types in
\* every reachable state.
THEOREM AdmissionTypeCorrect == Spec => []TypeOK
BY InitTypeOK, TypePreserved, PTL DEF Spec
-----------------------------------------------------------------------------
\* The lock invariant holds initially.
LEMMA InitLockInv == Init => LockInv
<1> SUFFICES ASSUME Init PROVE LockInv
  OBVIOUS
<1>1. \A p \in Proc : pc[p] = "idle"
  BY DEF Init
<1> QED
  BY <1>1, InitTypeOK
  DEF Init, LockInv, HolderOwnsLock, TakerIsAlone, DispatchedAsAllowed, UnwrittenIsHeld,
      Holding, Dispatching

\* Where the take-over of a stale lock is unshared, whoever finds one is alone.
LEMMA StaleTakerIsAlone ==
  ASSUME TakeoverUnshared, LockInv, NEW p \in Proc, InspectLock(p), pc'[p] = "unlink",
         NEW q \in Proc, q # p
  PROVE  pc[q] = "dead" \/ (~Overlap /\ pc[q] = "idle")
<1> USE DEF LockInv, TypeOK
<1>1. lockFile # None /\ Stale(p)
  BY DEF InspectLock
<1>2. lockFile.by \in Proc
  BY <1>1
<1>3. ~Stalls /\ ~WritesFail => pc[lockFile.by] = "dead" /\ lockFile.by # p
  BY <1>1 DEF Stale, Alive, UnwrittenIsHeld, InspectLock
<1>4. CASE ~Stalls /\ ~WritesFail /\ MaxCrashes = 0
  BY <1>2, <1>3, <1>4 DEF DispatchedAsAllowed
<1>5. CASE ~Stalls /\ ~WritesFail /\ AtMostTwo
  BY <1>2, <1>3, <1>5 DEF AtMostTwo
<1>6. CASE ~Overlap
  BY <1>6 DEF DispatchedAsAllowed, Dispatching, InspectLock
<1> QED
  BY <1>4, <1>5, <1>6 DEF TakeoverUnshared

\* No step breaks the lock invariant.
LEMMA LockPreserved == TakeoverUnshared /\ LockInv /\ [Next]_vars => LockInv'
<1> SUFFICES ASSUME TakeoverUnshared, LockInv, [Next]_vars PROVE LockInv'
  OBVIOUS
<1> DEFINE Rest == HolderOwnsLock /\ TakerIsAlone /\ DispatchedAsAllowed /\ UnwrittenIsHeld
<1> USE DEF LockInv, TypeOK, HolderOwnsLock, TakerIsAlone, DispatchedAsAllowed,
            UnwrittenIsHeld, Holding, Dispatching
<1>1. ASSUME NEW p \in Proc, NEW e \in Envelope, Dispatch(p, e) PROVE Rest'
  BY <1>1 DEF Dispatch
<1>2. ASSUME NEW p \in Proc, OpenLock(p) PROVE Rest'
  <2>1. CASE lockFile = None
    <3>1. [by |-> p, written |-> FALSE] \in [by: Proc, written: BOOLEAN]
      OBVIOUS
    <3>2. lockFile' # None /\ lockFile'.by = p
      BY <1>2, <2>1, <3>1, ConstantsAssumption DEF OpenLock
    <3> QED
      BY <1>2, <2>1, <3>2 DEF OpenLock
  <2>2. CASE lockFile # None
    BY <1>2, <2>2 DEF OpenLock
  <2> QED
    BY <2>1, <2>2
<1>3. ASSUME NEW p \in Proc, WritePid(p) PROVE Rest'
  <2>1. lockFile # None /\ lockFile.by = p
    BY <1>3 DEF WritePid
  <2>2. CASE WritesFail /\ UNCHANGED lockFile /\ pc' = [pc EXCEPT ![p] = "idle"]
    BY <1>3, <2>1, <2>2 DEF WritePid
  <2>3. CASE lockFile' = [lockFile EXCEPT !.written = TRUE] /\ pc' = [pc EXCEPT ![p] = "load"]
    <3>1. lockFile \in [by: Proc, written: BOOLEAN]
      BY <2>1
    <3>2. /\ lockFile' \in [by: Proc, written: BOOLEAN]
          /\ lockFile'.by = p /\ lockFile'.written
      BY <2>1, <2>3, <3>1
    <3>3. lockFile' # None
      BY <3>2, ConstantsAssumption
    <3> QED
      BY <1>3, <2>1, <2>3, <3>2, <3>3 DEF WritePid
  <2> QED
    BY <1>3, <2>1, <2>2, <2>3 DEF WritePid
<1>4. ASSUME NEW p \in Proc, InspectLock(p) PROVE Rest'
  <2>1. HolderOwnsLock' /\ DispatchedAsAllowed' /\ UnwrittenIsHeld'
    BY <1>4 DEF InspectLock
  <2>2. TakerIsAlone'
    BY <1>4, StaleTakerIsAlone DEF InspectLock
  <2> QED
    BY <2>1, <2>2
<1>5. ASSUME NEW p \in Proc, UnlinkStale(p) PROVE Rest'
  BY <1>5 DEF UnlinkStale
<1>6. ASSUME NEW p \in Proc, Load(p) PROVE Rest'
  BY <1>6 DEF Load
<1>7. ASSUME NEW p \in Proc, AdmitDurable(p) PROVE Rest'
  BY <1>7 DEF AdmitDurable
<1>8. ASSUME NEW p \in Proc, AcknowledgeDurable(p) PROVE Rest'
  BY <1>8 DEF AcknowledgeDurable
<1>9. ASSUME NEW p \in Proc, Unlock(p) PROVE Rest'
  BY <1>9 DEF Unlock
<1>10. ASSUME NEW p \in Proc, Spawn(p) PROVE Rest'
  BY <1>10 DEF Spawn
<1>11. ASSUME NEW p \in Proc, Executed(p) PROVE Rest'
  BY <1>11 DEF Executed
<1>12. ASSUME NEW p \in Proc, Crash(p) PROVE Rest'
  <2>1. MaxCrashes # 0
    BY <1>12, ConstantsAssumption DEF Crash
  <2> QED
    BY <1>12, <2>1 DEF Crash
<1>13. CASE UNCHANGED vars
  BY <1>13 DEF vars
<1>14. Rest'
  BY <1>1, <1>2, <1>3, <1>4, <1>5, <1>6, <1>7, <1>8, <1>9, <1>10, <1>11, <1>12, <1>13
  DEF Next, Proceed
<1> QED
  BY <1>14, TypePreserved

\* Two workers are never both between loading and persisting the durable state.
THEOREM LockExcludes == ASSUME TakeoverUnshared PROVE Spec => []MutualExclusion
<1>1. LockInv => MutualExclusion
  BY DEF LockInv, HolderOwnsLock, Holding, MutualExclusion, InCriticalSection
<1>2. LockInv /\ [Next]_vars => LockInv'
  BY LockPreserved
<1> QED
  BY <1>1, <1>2, InitLockInv, PTL DEF Spec
-----------------------------------------------------------------------------
\* An admission that writes the durable state puts a new command, the next in
\* order, where none was pending.
LEMMA AdmitWrites ==
  ASSUME StateInv, NEW p \in Proc, AdmitDurable(p), stateFile' # stateFile
  PROVE  /\ stateFile' = [stateFile EXCEPT !.pending = PendingOf(envelope[p])]
         /\ envelope[p] \in Envelope
         /\ stateFile.pending = None
         /\ envelope[p].sequence = stateFile.last_acknowledged_sequence + 1
         /\ ~Acknowledged(envelope[p].command_id)
<1> USE DEF StateInv, LockInv, TypeOK
<1>1. state[p] = stateFile /\ envelope[p] \in Envelope
  BY DEF AdmitDurable, LoadedIsDurable, Dispatching
<1>2. /\ ~Replayed(stateFile, envelope[p]) /\ Fresh(stateFile, envelope[p])
      /\ stateFile' = [stateFile EXCEPT !.pending = PendingOf(envelope[p])]
  BY <1>1 DEF AdmitDurable, Persist
<1>3. stateFile.pending = None
  BY <1>2 DEF Fresh, StateFileLoads
<1> QED
  BY <1>1, <1>2, <1>3 DEF Fresh, Replayed, Acknowledged

\* An acknowledgement that writes the durable state acknowledges what is pending.
LEMMA AcknowledgeWrites ==
  ASSUME StateInv, NEW p \in Proc, AcknowledgeDurable(p), stateFile' # stateFile
  PROVE  /\ stateFile' = AfterAck(stateFile) /\ stateFile.pending # None
         /\ stateFile.pending.command_id = envelope[p].command_id
<1> USE DEF StateInv, LockInv, TypeOK
<1>1. state[p] = stateFile
  BY DEF AcknowledgeDurable, LoadedIsDurable
<1> QED
  BY <1>1 DEF AcknowledgeDurable, Persist, Acknowledgeable

\* Nothing else writes it.
LEMMA OnlyCommitsWrite ==
  ASSUME [Next]_vars, stateFile' # stateFile
  PROVE  \E p \in Proc : AdmitDurable(p) \/ AcknowledgeDurable(p)
BY DEF Next, Proceed, vars, Dispatch, OpenLock, WritePid, InspectLock, UnlinkStale, Load,
       Unlock, Spawn, Executed, Crash

\* Both writes leave a state that loadState accepts.
LEMMA WritesLoad ==
  ASSUME StateInv, [Next]_vars PROVE StateFileLoads'
<1> USE DEF StateInv, LockInv, TypeOK
<1>1. ASSUME NEW p \in Proc, AdmitDurable(p), stateFile' # stateFile
      PROVE  StateFileLoads'
  BY <1>1, AdmitWrites, CommandFacts DEF StateFileLoads, RelayAckState
<1>2. ASSUME NEW p \in Proc, AcknowledgeDurable(p), stateFile' # stateFile
      PROVE  StateFileLoads'
  <2>1. stateFile' = AfterAck(stateFile) /\ stateFile.pending # None
    BY <1>2, AcknowledgeWrites
  <2>2. stateFile.pending.sequence = stateFile.last_acknowledged_sequence + 1
    BY <2>1 DEF StateFileLoads
  <2>3. /\ stateFile.acknowledged_ids \in Seq(CommandIds)
        /\ stateFile.pending.command_id \in CommandIds
    BY <2>1, CommandFacts DEF RelayAckState
  <2>4. Len(Append(stateFile.acknowledged_ids, stateFile.pending.command_id))
          = Len(stateFile.acknowledged_ids) + 1
    BY <2>3
  <2> QED
    BY <2>1, <2>2, <2>4 DEF StateFileLoads, AfterAck
<1>3. CASE stateFile' = stateFile
  BY <1>3 DEF StateFileLoads
<1> QED
  BY <1>1, <1>2, <1>3, OnlyCommitsWrite

\* A process that loaded the durable state is the only one that may write it.
LEMMA LoadedStaysDurable ==
  ASSUME StateInv, [Next]_vars PROVE LoadedIsDurable'
<1> SUFFICES ASSUME NEW q \in Proc, pc'[q] = "commit" PROVE state'[q] = stateFile'
  BY DEF LoadedIsDurable
<1> USE DEF StateInv, LockInv, TypeOK, LoadedIsDurable
<1>1. ASSUME NEW p \in Proc, AdmitDurable(p) \/ AcknowledgeDurable(p)
      PROVE  state'[q] = stateFile'
  <2>1. pc[p] = "commit" /\ pc'[p] = "unlock" /\ UNCHANGED state
    BY <1>1 DEF AdmitDurable, AcknowledgeDurable
  <2>2. pc[q] = "commit" /\ q # p
    BY <1>1, <2>1 DEF AdmitDurable, AcknowledgeDurable
  <2> QED
    BY <2>1, <2>2 DEF HolderOwnsLock, Holding
<1>2. ASSUME NEW p \in Proc, Load(p) PROVE state'[q] = stateFile'
  BY <1>2 DEF Load
<1>3. ASSUME NEW p \in Proc,
             \/ \E e \in Envelope : Dispatch(p, e)
             \/ OpenLock(p) \/ WritePid(p) \/ InspectLock(p) \/ UnlinkStale(p)
             \/ Unlock(p) \/ Spawn(p) \/ Executed(p) \/ Crash(p)
      PROVE  state'[q] = stateFile'
  <2>1. pc[q] = "commit" /\ stateFile' = stateFile
    BY <1>3 DEF Dispatch, OpenLock, WritePid, InspectLock, UnlinkStale, Unlock, Spawn,
                Executed, Crash
  <2>2. state'[q] = state[q]
    BY <1>3, <2>1 DEF Dispatch, OpenLock, WritePid, InspectLock, UnlinkStale, Unlock, Spawn,
                Executed, Crash
  <2> QED
    BY <2>1, <2>2
<1>4. CASE UNCHANGED vars
  BY <1>4 DEF vars
<1> QED
  BY <1>1, <1>2, <1>3, <1>4 DEF Next, Proceed

\* The state invariant holds initially, ...
LEMMA InitStateInv == Init => StateInv
BY InitLockInv DEF StateInv, Init, LoadedIsDurable, StateFileLoads, FreshState

\* ... and no step breaks it.
LEMMA StatePreserved ==
  ASSUME TakeoverUnshared PROVE StateInv /\ [Next]_vars => StateInv'
BY LockPreserved, WritesLoad, LoadedStaysDurable DEF StateInv

\* The durable state file is one that loadState accepts, at every moment.
THEOREM StateFileAlwaysLoads == ASSUME TakeoverUnshared PROVE Spec => []StateFileLoads
<1>1. StateInv => StateFileLoads
  BY DEF StateInv
<1>2. StateInv /\ [Next]_vars => StateInv'
  BY StatePreserved
<1> QED
  BY <1>1, <1>2, InitStateInv, PTL DEF Spec
-----------------------------------------------------------------------------
\* Every step of the workers is a step of the abstract log, or none.
LEMMA StepIsLogStep ==
  ASSUME StateInv, [Next]_vars
  PROVE  [Log!Next]_<<stateFile.acknowledged_ids, stateFile.pending>>
<1> USE DEF StateInv, LockInv, TypeOK
<1>1. ASSUME NEW p \in Proc, AdmitDurable(p), stateFile' # stateFile
      PROVE  Log!Admit(PendingOf(envelope[p])) /\ PendingOf(envelope[p]) \in Commands
  <2>1. /\ stateFile'.pending = PendingOf(envelope[p])
        /\ stateFile'.acknowledged_ids = stateFile.acknowledged_ids
    BY <1>1, AdmitWrites DEF RelayAckState
  <2> QED
    BY <1>1, <2>1, AdmitWrites, CommandFacts DEF Log!Admit, Acknowledged, StateFileLoads
<1>2. ASSUME NEW p \in Proc, AcknowledgeDurable(p), stateFile' # stateFile
      PROVE  Log!Acknowledge
  BY <1>2, AcknowledgeWrites DEF Log!Acknowledge, AfterAck
<1> QED
  BY <1>1, <1>2, OnlyCommitsWrite DEF Log!Next

\* The workers implement the abstract log of RelayLog: commands are admitted
\* and acknowledged in order, once, and a pending one stays what it is.
THEOREM RefinesLog == ASSUME TakeoverUnshared PROVE Spec => ImplementsLog
<1>1. Init => Log!Init
  BY DEF Init, FreshState, Log!Init
<1>2. StateInv /\ [Next]_vars => StateInv'
  BY StatePreserved
<1>3. StateInv /\ [Next]_vars
      => [Log!Next]_<<stateFile.acknowledged_ids, stateFile.pending>>
  BY StepIsLogStep
<1> QED
  BY <1>1, <1>2, <1>3, InitStateInv, PTL DEF Spec, ImplementsLog, Log!Spec
-----------------------------------------------------------------------------
\* What is acknowledged stays acknowledged.
LEMMA AcknowledgedStays ==
  ASSUME StateInv, [Next]_vars, NEW c, Acknowledged(c) PROVE Acknowledged(c)'
<1> USE DEF StateInv, LockInv, TypeOK
<1>1. PICK k \in DOMAIN stateFile.acknowledged_ids : stateFile.acknowledged_ids[k] = c
  BY DEF Acknowledged
<1>2. stateFile.acknowledged_ids \in Seq(CommandIds)
  BY DEF RelayAckState
<1>3. ASSUME NEW p \in Proc, AdmitDurable(p), stateFile' # stateFile
      PROVE  stateFile'.acknowledged_ids = stateFile.acknowledged_ids
  BY <1>3, AdmitWrites DEF RelayAckState
<1>4. ASSUME NEW p \in Proc, AcknowledgeDurable(p), stateFile' # stateFile
      PROVE  Acknowledged(c)'
  <2>1. /\ stateFile'.acknowledged_ids
            = Append(stateFile.acknowledged_ids, stateFile.pending.command_id)
        /\ stateFile.pending.command_id \in CommandIds
    BY <1>4, AcknowledgeWrites, CommandFacts DEF AfterAck, RelayAckState
  <2>2. /\ k \in DOMAIN stateFile'.acknowledged_ids
        /\ stateFile'.acknowledged_ids[k] = stateFile.acknowledged_ids[k]
    BY <1>1, <1>2, <2>1
  <2> QED
    BY <1>1, <2>2 DEF Acknowledged
<1> QED
  BY <1>1, <1>3, <1>4, OnlyCommitsWrite DEF Acknowledged

\* An acknowledgement that succeeds is in the durable state at once.
LEMMA ExecutedPreserved ==
  ASSUME StateInv, ExecutedIsAcknowledged, [Next]_vars PROVE ExecutedIsAcknowledged'
<1> SUFFICES ASSUME NEW q \in Proc, outcome'[q] = "executed"
             PROVE  Acknowledged(envelope[q].command_id)' 
  BY DEF ExecutedIsAcknowledged, Acknowledged
<1> USE DEF StateInv, LockInv, TypeOK
<1>1. CASE outcome[q] = "executed" /\ envelope'[q] = envelope[q]
  BY <1>1, AcknowledgedStays DEF ExecutedIsAcknowledged, Acknowledged
<1>2. CASE outcome[q] # "executed" \/ envelope'[q] # envelope[q]
  <2>1. AcknowledgeDurable(q)
    BY <1>2 DEF Next, Proceed, vars, Dispatch, OpenLock, WritePid, InspectLock, UnlinkStale,
                Load, AdmitDurable, AcknowledgeDurable, Persist, Unlock, Spawn, Executed, Crash
  <2>2. state[q] = stateFile /\ stateFile' = AfterAck(stateFile) /\ UNCHANGED envelope
        /\ stateFile.pending # None /\ stateFile.pending.command_id = envelope[q].command_id
    BY <2>1 DEF AcknowledgeDurable, Persist, LoadedIsDurable, Acknowledgeable
  <2>3. /\ stateFile.acknowledged_ids \in Seq(CommandIds)
        /\ stateFile.pending.command_id \in CommandIds
        /\ stateFile'.acknowledged_ids
             = Append(stateFile.acknowledged_ids, stateFile.pending.command_id)
    BY <2>2, CommandFacts DEF RelayAckState, AfterAck
  <2>4. LET n == Len(stateFile'.acknowledged_ids) IN
          /\ n \in DOMAIN stateFile'.acknowledged_ids
          /\ stateFile'.acknowledged_ids[n] = envelope[q].command_id
    BY <2>2, <2>3
  <2> QED
    BY <2>2, <2>4 DEF Acknowledged
<1> QED
  BY <1>1, <1>2

\* A dispatch that reports "executed" is acknowledged durably.
THEOREM ExecutedImpliesAcknowledged ==
  ASSUME TakeoverUnshared PROVE Spec => []ExecutedIsAcknowledged
<1>1. Init => ExecutedIsAcknowledged
  BY DEF Init, ExecutedIsAcknowledged
<1>2. StateInv /\ [Next]_vars => StateInv'
  BY StatePreserved
<1>3. StateInv /\ ExecutedIsAcknowledged /\ [Next]_vars => ExecutedIsAcknowledged'
  BY ExecutedPreserved
<1> QED
  BY <1>1, <1>2, <1>3, InitStateInv, PTL DEF Spec
-----------------------------------------------------------------------------
\* Without overlap a command on its way to be spawned stays unacknowledged.
LEMMA GoesOnPreserved ==
  ASSUME ~Overlap, StateInv, GoesOnUnacknowledged, [Next]_vars
  PROVE  GoesOnUnacknowledged'
<1> SUFFICES ASSUME NEW q \in Proc,
                    pc'[q] = "spawn" \/ (pc'[q] = "unlock" /\ outcome'[q] = "admitted")
             PROVE  ~Acknowledged(envelope[q].command_id)'
  BY DEF GoesOnUnacknowledged, Acknowledged
<1> USE DEF StateInv, LockInv, TypeOK
<1>1. ASSUME NEW p \in Proc, AdmitDurable(p)
      PROVE  ~Acknowledged(envelope[q].command_id)'
  <2>1. q = p /\ UNCHANGED envelope
    BY <1>1 DEF AdmitDurable, DispatchedAsAllowed, Dispatching
  <2>2. state[p] = stateFile /\ envelope[p] \in Envelope
    BY <1>1 DEF AdmitDurable, LoadedIsDurable, Dispatching
  <2>3. ~Replayed(stateFile, envelope[p])
    BY <1>1, <2>1, <2>2 DEF AdmitDurable, Outcomes
  <2>4. stateFile'.acknowledged_ids = stateFile.acknowledged_ids
    BY <1>1, AdmitWrites DEF RelayAckState
  <2> QED
    BY <2>1, <2>3, <2>4 DEF Replayed, Acknowledged
<1>2. ASSUME NEW p \in Proc, AcknowledgeDurable(p)
      PROVE  ~Acknowledged(envelope[q].command_id)'
  BY <1>2 DEF AcknowledgeDurable, Persist, DispatchedAsAllowed, Dispatching, Outcomes
<1>3. CASE \A p \in Proc : ~AdmitDurable(p) /\ ~AcknowledgeDurable(p)
  <2>1. stateFile' = stateFile
    BY <1>3, OnlyCommitsWrite
  <2>2. /\ envelope'[q] = envelope[q]
        /\ pc[q] = "spawn" \/ (pc[q] = "unlock" /\ outcome[q] = "admitted")
    BY <1>3 DEF Next, Proceed, vars, Dispatch, OpenLock, WritePid, InspectLock, UnlinkStale,
                Load, Unlock, GoesOn, Spawn, Executed, Crash
  <2> QED
    BY <2>1, <2>2 DEF GoesOnUnacknowledged, Acknowledged
<1> QED
  BY <1>1, <1>2, <1>3

\* Workers dispatched one at a time never spawn an acknowledged command again,
\* whatever the relay delivers and whenever they are killed.
THEOREM NeverSpawnsAgain ==
  ASSUME ~Overlap PROVE Spec => AcknowledgedNeverSpawns
<1>1. TakeoverUnshared
  BY DEF TakeoverUnshared
<1>2. Init => GoesOnUnacknowledged
  BY DEF Init, GoesOnUnacknowledged
<1>3. StateInv /\ [Next]_vars => StateInv'
  BY <1>1, StatePreserved
<1>4. StateInv /\ GoesOnUnacknowledged /\ [Next]_vars => GoesOnUnacknowledged'
  BY GoesOnPreserved
<1>5. GoesOnUnacknowledged
      => [\A p \in Proc : pc[p] = "spawn" /\ pc'[p] = "running" =>
            \A k \in DOMAIN stateFile.acknowledged_ids :
              stateFile.acknowledged_ids[k] # envelope[p].command_id]_vars
  BY DEF GoesOnUnacknowledged, Acknowledged
<1> QED
  BY <1>2, <1>3, <1>4, <1>5, InitStateInv, PTL DEF Spec, AcknowledgedNeverSpawns

-----------------------------------------------------------------------------
(* The concurrency cap. *)

\* Without barging the woken calls have their slots kept for them.
WokenFit == ~Barging => inFlight + Cardinality(Woken) <= Limit

CapInv == FabricTypeOK /\ NoIdleSlot /\ WokenFit

\* The sets of calls that the counters count are finite.
LEMMA CountsFinite ==
  /\ IsFiniteSet(Woken) /\ Cardinality(Woken) \in Nat
  /\ IsFiniteSet(Executing) /\ Cardinality(Executing) \in Nat
<1>1. Woken \subseteq Call /\ Executing \subseteq Call
  BY DEF Woken, Executing, At
<1> QED
  BY <1>1, FabricAssumption, FS_Subset, FS_CardinalityType

\* One more and one fewer.
LEMMA CardinalitySteps ==
  ASSUME NEW S, IsFiniteSet(S), NEW x
  PROVE  /\ x \notin S => Cardinality(S \cup {x}) = Cardinality(S) + 1
         /\ x \in S => Cardinality(S \ {x}) = Cardinality(S) - 1
BY FS_AddElement, FS_RemoveElement

\* The initial state satisfies the invariant.
LEMMA InitCapInv == FabricInit => CapInv
<1> SUFFICES ASSUME FabricInit PROVE CapInv
  OBVIOUS
<1>1. Woken = {} /\ Executing = {}
  BY DEF FabricInit, Woken, Executing, At
<1>2. Cardinality({}) = 0
  BY FS_EmptySet
<1> QED
  BY <1>1, <1>2, FabricAssumption DEF FabricInit, CapInv, FabricTypeOK, NoIdleSlot, WokenFit, At

\* A call that starts to execute: from the queue's side nothing changes.
LEMMA EnterStep ==
  ASSUME CapInv, NEW c \in Call, callAt[c] \in {"new", "woken"}, Enter(c), UNCHANGED queue
  PROVE  /\ FabricTypeOK'
         /\ inFlight' = inFlight + 1
         /\ Cardinality(Woken') = Cardinality(Woken) - (IF callAt[c] = "woken" THEN 1 ELSE 0)
<1> USE DEF CapInv, FabricTypeOK, Enter, At
<1>1. Executing' = Executing \cup {c} /\ c \notin Executing
  BY DEF Executing, At
<1>2. inFlight' = Cardinality(Executing')
  BY <1>1, CountsFinite, CardinalitySteps
<1>3. Cardinality(Woken') = Cardinality(Woken) - (IF callAt[c] = "woken" THEN 1 ELSE 0)
  <2>1. CASE callAt[c] = "woken"
    <3>1. Woken' = Woken \ {c} /\ c \in Woken
      BY <2>1 DEF Woken, At
    <3> QED
      BY <2>1, <3>1, CountsFinite, CardinalitySteps
  <2>2. CASE callAt[c] = "new"
    <3>1. Woken' = Woken
      BY <2>2 DEF Woken, At
    <3> QED
      BY <2>2, <3>1, CountsFinite
  <2> QED
    BY <2>1, <2>2
<1>4. attempt' \in [Call -> 0..MaxAttempts]
  BY FabricAssumption
<1> QED
  BY <1>2, <1>3, <1>4

\* A call that gives its slot back: the head of the queue is woken.
LEMMA ReleaseStep ==
  ASSUME CapInv, NEW c \in Call, callAt[c] = "sending", Release(c), UNCHANGED attempt
  PROVE  /\ FabricTypeOK'
         /\ inFlight' = inFlight - 1
         /\ queue = <<>> => queue' = <<>> /\ Woken' = Woken
         /\ queue # <<>> => Cardinality(Woken') = Cardinality(Woken) + 1
<1> USE DEF CapInv, FabricTypeOK, Release, At
<1>0. c \in Executing
  BY DEF Executing, At
<1>1. inFlight \in Nat \ {0}
  <2>1. Cardinality(Executing) # 0
    BY <1>0, CountsFinite, FS_EmptySet
  <2> QED
    BY <2>1
<1>2. CASE queue = <<>>
  <2>1. Executing' = Executing \ {c} /\ Woken' = Woken
    BY <1>2 DEF Executing, Woken, At
  <2>2. inFlight' = Cardinality(Executing')
    BY <1>0, <2>1, CountsFinite, CardinalitySteps
  <2> QED
    BY <1>1, <1>2, <2>1, <2>2
<1>3. CASE queue # <<>>
  <2> DEFINE h == Head(queue)
  <2>1. /\ h \in Call /\ h = queue[1] /\ callAt[h] = "waiting" /\ h # c
        /\ Len(queue) \in Nat \ {0} /\ DOMAIN queue = 1..Len(queue)
    BY <1>3
  <2>2. callAt' = [callAt EXCEPT ![c] = "ended", ![h] = "woken"] /\ queue' = Tail(queue)
    BY <1>3
  <2> HIDE DEF h
  <2>3. Executing' = Executing \ {c}
    BY <2>1, <2>2 DEF Executing, At
  <2>4. inFlight' = Cardinality(Executing')
    BY <1>0, <2>3, CountsFinite, CardinalitySteps
  <2>5. Woken' = Woken \cup {h} /\ h \notin Woken
    BY <2>1, <2>2 DEF Woken, At
  <2>6. Cardinality(Woken') = Cardinality(Woken) + 1
    BY <2>5, CountsFinite, CardinalitySteps
  <2>7. /\ queue' \in Seq(Call) /\ DOMAIN queue' = 1..(Len(queue) - 1)
        /\ \A i \in DOMAIN queue' : i + 1 \in DOMAIN queue /\ queue'[i] = queue[i + 1]
    BY <2>1, <2>2
  <2>8. \A i, j \in DOMAIN queue' : queue'[i] = queue'[j] => i = j
    BY <2>1, <2>7
  <2>9. \A d \in Call : (\E i \in DOMAIN queue' : queue'[i] = d)
                        <=> d # h /\ \E i \in DOMAIN queue : queue[i] = d
    <3>1. TAKE d \in Call
    <3>2. ASSUME NEW i \in DOMAIN queue' PROVE queue'[i] # h /\ \E j \in DOMAIN queue : queue[j] = queue'[i]
      <4>1. i + 1 \in DOMAIN queue /\ queue'[i] = queue[i + 1] /\ 1 \in DOMAIN queue /\ i + 1 # 1
        BY SMTT(20), <2>1, <2>7
      <4> QED
        BY <4>1, <2>1
    <3>3. ASSUME NEW j \in DOMAIN queue, queue[j] # h PROVE \E i \in DOMAIN queue' : queue'[i] = queue[j]
      <4>1. j # 1 /\ j - 1 \in 1..(Len(queue) - 1)
        BY <2>1, <3>3
      <4>2. j - 1 \in DOMAIN queue' /\ (j - 1) + 1 = j
        BY <2>7, <4>1
      <4> QED
        BY <2>7, <4>2
    <3> QED
      BY SMTT(20), <3>2, <3>3
  <2>10. \A d \in Call : callAt'[d] = "waiting" <=> d # h /\ callAt[d] = "waiting"
    BY <2>1, <2>2
  <2>11. callAt' \in [Call -> {"new", "waiting", "woken", "sending", "sleeping", "ended"}]
    BY <2>1, <2>2
  <2>12. \A d \in At("sleeping")' : attempt'[d] < MaxAttempts
    BY <2>1, <2>2
  <2> QED
    BY SMTT(20), <1>1, <1>3, <2>12, <2>4, <2>6, <2>7, <2>8, <2>9, <2>10, <2>11
<1> QED
  BY <1>2, <1>3

\* Every step keeps the invariant.
LEMMA CapInvPreserved == CapInv /\ [FabricNext]_fabricVars => CapInv'
<1> SUFFICES ASSUME CapInv, [FabricNext]_fabricVars PROVE CapInv'
  OBVIOUS
<1> USE FabricAssumption DEF CapInv
<1>1. ASSUME NEW c \in Call, Acquire(c) PROVE CapInv'
  <2>1. CASE inFlight < Limit
    <3>1. callAt[c] = "new" /\ Enter(c) /\ UNCHANGED queue /\ (Barging \/ Woken = {})
      BY <1>1, <2>1 DEF Acquire, FabricTypeOK
    <3>2. /\ FabricTypeOK' /\ inFlight' = inFlight + 1
          /\ Cardinality(Woken') = Cardinality(Woken)
      BY <3>1, EnterStep, CountsFinite
    <3>3. NoIdleSlot'
      BY SMTT(20), <3>1, <3>2, CountsFinite DEF NoIdleSlot, FabricTypeOK
    <3>4. ~Barging => Cardinality(Woken) = 0
      BY <3>1, FS_EmptySet
    <3> QED
      BY <2>1, <3>2, <3>3, <3>4 DEF WokenFit, FabricTypeOK
  <2>2. CASE inFlight >= Limit
    <3>1. /\ callAt[c] = "new" /\ queue' = Append(queue, c)
          /\ callAt' = [callAt EXCEPT ![c] = "waiting"] /\ UNCHANGED <<inFlight, attempt>>
      BY <1>1, <2>2 DEF Acquire, FabricTypeOK
    <3>2. Woken' = Woken /\ Executing' = Executing
      BY <3>1 DEF Woken, Executing, At, FabricTypeOK
    <3>3. /\ queue' \in Seq(Call) /\ Len(queue) \in Nat
          /\ DOMAIN queue = 1..Len(queue) /\ DOMAIN queue' = 1..(Len(queue) + 1)
          /\ \A i \in DOMAIN queue : queue'[i] = queue[i]
          /\ queue'[Len(queue) + 1] = c
      BY <3>1 DEF FabricTypeOK
    <3>4. \A i \in DOMAIN queue : queue[i] # c
      BY <3>1 DEF FabricTypeOK
    <3> DEFINE n == Len(queue) + 1
    <3>41. \A i \in DOMAIN queue' : i = n \/ (i \in DOMAIN queue /\ queue'[i] = queue[i])
      BY <3>3
    <3>42. n \in DOMAIN queue' /\ queue'[n] = c /\ DOMAIN queue \subseteq DOMAIN queue'
      BY <3>3
    <3> HIDE DEF n
    <3>5. \A i, j \in DOMAIN queue' : queue'[i] = queue'[j] => i = j
      BY <3>4, <3>41, <3>42 DEF FabricTypeOK
    <3>6. \A d \in Call : callAt'[d] = "waiting" <=> \E i \in DOMAIN queue' : queue'[i] = d
      <4>1. TAKE d \in Call
      <4>2. callAt'[d] = "waiting" <=> d = c \/ callAt[d] = "waiting"
        BY <3>1 DEF FabricTypeOK
      <4>3. (\E i \in DOMAIN queue' : queue'[i] = d)
            <=> d = c \/ \E i \in DOMAIN queue : queue[i] = d
        BY <3>3, <3>41, <3>42
      <4> QED
        BY <4>2, <4>3 DEF FabricTypeOK
    <3>7. FabricTypeOK'
      BY SMTT(20), <3>1, <3>2, <3>3, <3>5, <3>6 DEF FabricTypeOK, At
    <3>8. NoIdleSlot'
      BY <2>2, <3>1, <3>2, CountsFinite DEF NoIdleSlot, FabricTypeOK
    <3>9. WokenFit'
      BY <3>1, <3>2 DEF WokenFit
    <3> QED
      BY <3>7, <3>8, <3>9
  <2> QED
    BY <2>1, <2>2 DEF FabricTypeOK
<1>2. ASSUME NEW c \in Call, Resume(c) PROVE CapInv'
  <2>1. /\ FabricTypeOK' /\ inFlight' = inFlight + 1 /\ UNCHANGED queue
        /\ Cardinality(Woken') = Cardinality(Woken) - 1
    BY <1>2, EnterStep DEF Resume
  <2> QED
    BY <2>1, CountsFinite DEF NoIdleSlot, WokenFit, FabricTypeOK
<1>3. ASSUME NEW c \in Call, callAt[c] = "sending", Release(c), UNCHANGED attempt PROVE CapInv'
  <2>1. /\ FabricTypeOK' /\ inFlight' = inFlight - 1
        /\ queue = <<>> => queue' = <<>> /\ Woken' = Woken
        /\ queue # <<>> => Cardinality(Woken') = Cardinality(Woken) + 1
    BY <1>3, ReleaseStep
  <2>2. CASE queue = <<>>
    BY <2>1, <2>2, CountsFinite DEF NoIdleSlot, WokenFit, FabricTypeOK
  <2>3. CASE queue # <<>>
    <3>1. inFlight' + Cardinality(Woken') = inFlight + Cardinality(Woken)
      BY <2>1, <2>3, CountsFinite DEF FabricTypeOK
    <3>2. NoIdleSlot'
      BY <2>3, <3>1 DEF NoIdleSlot
    <3>3. WokenFit'
      BY <3>1 DEF WokenFit
    <3> QED
      BY <2>1, <3>2, <3>3
  <2> QED
    BY <2>2, <2>3
<1>4. ASSUME NEW c \in Call, callAt[c] = "sending", callAt' = [callAt EXCEPT ![c] = "sleeping"],
             attempt[c] < MaxAttempts, UNCHANGED <<inFlight, queue, attempt>>
      PROVE  CapInv'
  <2>1. Woken' = Woken /\ Executing' = Executing
    BY <1>4 DEF Woken, Executing, At, FabricTypeOK
  <2> QED
    BY <1>4, <2>1 DEF NoIdleSlot, WokenFit, FabricTypeOK, At
<1>5. ASSUME NEW c \in Call, Answered(c) PROVE CapInv'
  BY <1>3, <1>5 DEF Answered
<1>6. ASSUME NEW c \in Call, Saturated(c) PROVE CapInv'
  BY <1>3, <1>4, <1>6 DEF Saturated
<1>7. ASSUME NEW c \in Call, Retry(c) PROVE CapInv'
  <2>1. Woken' = Woken /\ Executing' = Executing
    BY <1>7 DEF Retry, Woken, Executing, At, FabricTypeOK
  <2>2. attempt' \in [Call -> 0..MaxAttempts]
    BY <1>7 DEF Retry, FabricTypeOK, At
  <2> QED
    BY <1>7, <2>1, <2>2 DEF Retry, NoIdleSlot, WokenFit, FabricTypeOK, At
<1>8. CASE UNCHANGED fabricVars
  BY <1>8 DEF fabricVars, NoIdleSlot, WokenFit, FabricTypeOK, Woken, Executing, At
<1> QED
  BY <1>1, <1>2, <1>5, <1>6, <1>7, <1>8 DEF FabricNext

LEMMA CapInvAlways == FabricSpec => []CapInv
<1> QED
  BY InitCapInv, CapInvPreserved, PTL DEF FabricSpec
-----------------------------------------------------------------------------
\* Every reachable state is typed, and ConcurrencyCap.inFlight counts the calls
\* that hold a slot.
THEOREM CapTypeCorrect == FabricSpec => []FabricTypeOK
<1>1. CapInv => FabricTypeOK
  BY DEF CapInv
<1> QED
  BY <1>1, CapInvAlways, PTL

\* No release loses the wakeup of a call that waits, with or without barging.
THEOREM NoLostWakeup == FabricSpec => []NoIdleSlot
<1>1. CapInv => NoIdleSlot
  BY DEF CapInv
<1> QED
  BY <1>1, CapInvAlways, PTL

\* Without barging no more than `limit` calls execute at once.
THEOREM KeepsLimit == ASSUME ~Barging PROVE FabricSpec => []WithinLimit
<1>1. CapInv => WithinLimit
  BY CountsFinite, FabricAssumption DEF CapInv, WokenFit, WithinLimit, FabricTypeOK
<1> QED
  BY <1>1, CapInvAlways, PTL

\* Without barging a call that begins never goes ahead of one that waits.
THEOREM FirstComeFirstServed == ASSUME ~Barging PROVE FabricSpec => NoOvertaking
<1>1. ASSUME CapInv, [FabricNext]_fabricVars, NEW c \in Call,
             callAt[c] = "new", callAt'[c] = "sending"
      PROVE  queue = <<>> /\ Woken = {}
  <2>1. PICK d \in Call : Acquire(d) \/ Resume(d) \/ Answered(d) \/ Saturated(d) \/ Retry(d)
    BY <1>1 DEF FabricNext, fabricVars
  <2>2. CASE d = c
    <3>0. Acquire(c)
      BY <1>1, <2>1, <2>2 DEF Resume, Answered, Saturated, Retry
    <3>1. inFlight < Limit /\ Woken = {}
      BY <1>1, <3>0 DEF Acquire, CapInv, FabricTypeOK
    <3>2. Cardinality(Woken) = 0
      BY <3>1, FS_EmptySet
    <3>3. ~(inFlight + Cardinality(Woken) >= Limit)
      BY <1>1, <3>1, <3>2, FabricAssumption DEF CapInv, FabricTypeOK
    <3> QED
      BY <1>1, <3>1, <3>3 DEF CapInv, NoIdleSlot
  <2>3. CASE d # c
    <3>1. queue # <<>> => Head(queue) \in Call /\ callAt[Head(queue)] = "waiting"
      BY <1>1 DEF CapInv, FabricTypeOK
    <3>2. callAt'[c] = callAt[c]
      BY <1>1, <2>1, <2>3, <3>1 DEF Acquire, Enter, Resume, Answered, Saturated, Retry, Release, CapInv, FabricTypeOK
    <3> QED
      BY <1>1, <3>2
  <2> QED
    BY <2>2, <2>3
<1>2. CapInv /\ [FabricNext]_fabricVars => 
         [\A c \in Call : callAt[c] = "new" /\ callAt'[c] = "sending" => queue = <<>> /\ Woken = {}]_fabricVars
  BY <1>1
<1> QED
  BY <1>2, CapInvAlways, PTL DEF FabricSpec, NoOvertaking
=============================================================================
