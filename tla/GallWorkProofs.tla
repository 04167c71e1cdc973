--------------------------- MODULE GallWorkProofs ---------------------------
(***************************************************************************)
(* What holds of the lease lifecycle of src/src/gall-work.ts for any       *)
(* number of workers, epochs and directories.                              *)
(***************************************************************************)
EXTENDS GallWork, TLAPS

USE DEF Goto, Conclude

\* A worker's lease paths: one or two, each a directory and the worker's key.
LEMMA PathFacts ==
  ASSUME NEW w \in Worker
  PROVE  /\ LeaseFilePaths(w) \in Seq(Path)
         /\ Len(LeaseFilePaths(w)) \in 1..2
         /\ DOMAIN LeaseFilePaths(w) = 1..Len(LeaseFilePaths(w))
         /\ \A i \in DOMAIN LeaseFilePaths(w) : LeaseFilePaths(w)[i][2] = KeyOf[w]
<1> DEFINE dirs == IF Realpath[CwdOf[w]] = CwdOf[w] THEN <<CwdOf[w]>>
                   ELSE <<CwdOf[w], Realpath[CwdOf[w]]>>
<1>1. dirs \in Seq(Dir) /\ Len(dirs) \in 1..2 /\ DOMAIN dirs = 1..Len(dirs)
  <2>1. CwdOf[w] \in Dir /\ Realpath[CwdOf[w]] \in Dir
    BY ConstantsAssumption
  <2>2. CASE Realpath[CwdOf[w]] = CwdOf[w]
    BY <2>1, <2>2
  <2>3. CASE Realpath[CwdOf[w]] # CwdOf[w]
    BY <2>1, <2>3
  <2> QED
    BY <2>2, <2>3
<1>2. KeyOf[w] \in Key
  BY ConstantsAssumption
<1>3. LeaseFilePaths(w) = [i \in DOMAIN dirs |-> <<dirs[i], KeyOf[w]>>]
  BY DEF LeaseFilePaths
<1> HIDE DEF dirs
<1>4. \A i \in DOMAIN dirs : <<dirs[i], KeyOf[w]>> \in Path
  BY <1>1, <1>2 DEF Path
<1> QED
  BY <1>1, <1>3, <1>4
-----------------------------------------------------------------------------
\* The lease of one epoch, as the fabric keeps it.
LeaseRecord == [state: LeaseState, gen: Nat, expires: Nat]
Steps == Stages \cup {"idle", "dead", "done"}

\* A lease file that is not absent names an epoch of the fabric.
LEMMA FileFacts ==
  /\ Absent \in LeaseFile
  /\ \A f \in LeaseFile : f # Absent => /\ f.epoch \in Epoch
                                        /\ f.gen \in Nat /\ f.expires \in Nat
  /\ \A e \in Epoch, g, x \in Nat : [epoch |-> e, gen |-> g, expires |-> x] \in LeaseFile
BY DEF Absent, LeaseFile

\* Sealing, answered or not, leaves every lease a lease.
LEMMA SealTyped ==
  ASSUME lease \in [Epoch -> LeaseRecord], failures \in 0..MaxFailures,
         NEW t \in LeaseFile, NEW s \in LeaseState,
         SealAnswered(t, s) \/ SealFailed(t, s)
  PROVE  lease' \in [Epoch -> LeaseRecord] /\ failures' \in 0..MaxFailures
<1>1. CASE Open(t)
  <2>1. t.epoch \in Epoch
    BY <1>1, FileFacts DEF Open
  <2>2. Sealed(t, s) \/ UNCHANGED lease
    BY DEF SealAnswered, SealFailed, fabricVars
  <2>3. lease' \in [Epoch -> LeaseRecord]
    BY <2>1, <2>2 DEF Sealed, LeaseRecord
  <2> QED
    BY <2>3, ConstantsAssumption DEF SealAnswered, SealFailed, Fail, fabricVars
<1>2. CASE ~Open(t)
  BY <1>2 DEF SealAnswered, SealFailed, fabricVars
<1> QED
  BY <1>1, <1>2

\* The initial state is typed.
LEMMA InitTypeOK == Init => TypeOK
BY ConstantsAssumption, FileFacts
DEF Init, TypeOK, LeaseState, Stages, Codes
-----------------------------------------------------------------------------
(* TypeOK by parts *)

Counters == clock \in 0..MaxClock /\ failures \in 0..MaxFailures /\ crashes \in 0..MaxCrashes
World == /\ lease \in [Epoch -> LeaseRecord]
         /\ file \in [Path -> LeaseFile] /\ workOrder \in [Dir -> Epoch \cup {"none"}]
Control == /\ pc \in [Worker -> Steps] /\ idx \in [Worker -> 1..3]
           /\ \A w \in Worker : pc[w] \in {"refuseOut", "sweep", "persist", "write", "clear"} =>
                                   idx[w] \in DOMAIN LeaseFilePaths(w)
Memory == /\ seen \in [Worker -> LeaseFile] /\ mine \in [Worker -> LeaseFile]
          /\ code \in [Worker -> Codes]
          /\ receipt \in [Worker -> BOOLEAN] /\ cleanup \in [Worker -> BOOLEAN]
Turn == /\ cancelled \in [Worker -> BOOLEAN]
        /\ exitCode \in [Worker -> {"none", "zero", "nonzero"}]
        /\ goal \in [Worker -> Epoch \cup {"none"}]
        /\ beat \in [Worker -> 0..MaxClock]

\* The positions in the loop over a worker's lease paths.
LEMMA PathIndex ==
  \A w \in Worker : /\ 1 \in DOMAIN LeaseFilePaths(w)
                    /\ \A i \in DOMAIN LeaseFilePaths(w) :
                         i + 1 \in 1..3 /\ (i # Len(LeaseFilePaths(w)) => i + 1 \in DOMAIN LeaseFilePaths(w))
                    /\ \A i \in 1..3 : ~(i > Len(LeaseFilePaths(w))) => i \in DOMAIN LeaseFilePaths(w)
<1> SUFFICES ASSUME NEW w \in Worker
             PROVE  /\ 1 \in DOMAIN LeaseFilePaths(w)
                    /\ \A i \in DOMAIN LeaseFilePaths(w) :
                         i + 1 \in 1..3 /\ (i # Len(LeaseFilePaths(w)) => i + 1 \in DOMAIN LeaseFilePaths(w))
                    /\ \A i \in 1..3 : ~(i > Len(LeaseFilePaths(w))) => i \in DOMAIN LeaseFilePaths(w)
  OBVIOUS
<1>1. /\ Len(LeaseFilePaths(w)) \in 1..2
      /\ DOMAIN LeaseFilePaths(w) = 1..Len(LeaseFilePaths(w))
  BY PathFacts
<1> QED
  BY <1>1

\* claim_next gives an epoch a lease.
LEMMA GrantTyped ==
  ASSUME Counters, World, NEW e \in Epoch, Grant(e)
  PROVE  /\ lease' \in [Epoch -> LeaseRecord]
         /\ [epoch |-> e, gen |-> lease'[e].gen, expires |-> lease'[e].expires] \in LeaseFile
<1>1. [state |-> "open", gen |-> lease[e].gen + 1, expires |-> clock + TTL] \in LeaseRecord
  BY ConstantsAssumption DEF World, Counters, LeaseRecord, LeaseState
<1>2. \/ UNCHANGED lease
      \/ lease' = [lease EXCEPT ![e] = [state |-> "open", gen |-> lease[e].gen + 1,
                                        expires |-> clock + TTL]]
  BY DEF Grant, World
<1>3. lease' \in [Epoch -> LeaseRecord]
  BY <1>1, <1>2 DEF World
<1>4. lease'[e].gen \in Nat /\ lease'[e].expires \in Nat
  BY <1>3 DEF LeaseRecord
<1> QED
  BY <1>3, <1>4, FileFacts

\* Every step of a worker, and time, keeps the state typed.
LEMMA TypePreserved == TypeOK /\ [Next]_vars => TypeOK'
<1> SUFFICES ASSUME Counters, World, Control, Memory, Turn, [Next]_vars
             PROVE  Counters' /\ World' /\ Control' /\ Memory' /\ Turn'
  BY DEF TypeOK, Counters, World, Control, Memory, Turn, LeaseRecord, Steps
<1> DEFINE Typed == Counters /\ World /\ Control /\ Memory /\ Turn
<1> USE DEF fabricVars, diskVars, resultVars, turnVars
<1>1. ASSUME NEW w \in Worker, Dispatch(w) PROVE Typed'
  <2>1. Counters'
    BY <1>1, ConstantsAssumption DEF Dispatch, Counters, World, Memory, Turn
  <2>2. World'
    BY <1>1, ConstantsAssumption DEF Dispatch, World, Memory, Counters
  <2>3. Control'
    BY <1>1, PathIndex DEF Dispatch, Steps, Stages, Rewind, Control
  <2>4. Memory'
    BY <1>1, ConstantsAssumption DEF Dispatch, Codes, Memory, World, Counters
  <2>5. Turn'
    BY <1>1, ConstantsAssumption DEF Dispatch, Turn, World, Counters
  <2> QED
    BY <2>1, <2>2, <2>3, <2>4, <2>5
<1>2. ASSUME NEW w \in Worker, ReconcileRead(w) PROVE Typed'
  <2>1. Counters'
    BY <1>2, PathFacts, FileFacts, ConstantsAssumption DEF ReconcileRead, Counters, World, Memory, Turn
  <2>2. World'
    BY <1>2, PathFacts, FileFacts, ConstantsAssumption DEF ReconcileRead, World, Memory, Counters
  <2>3. Control'
    <3>1. \/ pc' = [pc EXCEPT ![w] = "claim"] /\ UNCHANGED idx
          \/ /\ idx' = [idx EXCEPT ![w] = @ + 1] /\ UNCHANGED pc
             /\ pc[w] = "reconcile" /\ ~(idx[w] > Len(LeaseFilePaths(w)))
          \/ pc' = [pc EXCEPT ![w] = "sweep"] /\ idx' = [idx EXCEPT ![w] = 1]
          \/ pc' = [pc EXCEPT ![w] = "status"] /\ UNCHANGED idx
      BY <1>2 DEF ReconcileRead, IsLiveLease, Rewind
    <3> QED
      BY <3>1, PathIndex DEF Control, Steps, Stages
  <2>4. Memory'
    <3>1. \/ UNCHANGED seen
          \/ /\ idx[w] \in DOMAIN LeaseFilePaths(w)
             /\ seen' = [seen EXCEPT ![w] = file[LeaseFilePaths(w)[idx[w]]]]
      BY <1>2, PathIndex DEF ReconcileRead, IsLiveLease, Control
    <3>2. idx[w] \in DOMAIN LeaseFilePaths(w) => file[LeaseFilePaths(w)[idx[w]]] \in LeaseFile
      BY PathFacts DEF World
    <3> QED
      BY <1>2, <3>1, <3>2 DEF ReconcileRead, Memory
  <2>5. Turn'
    BY <1>2, PathFacts, FileFacts, ConstantsAssumption DEF ReconcileRead, Turn, World, Counters
  <2> QED
    BY <2>1, <2>2, <2>3, <2>4, <2>5
<1>3. ASSUME NEW w \in Worker, ReconcileStatus(w) PROVE Typed'
  <2>1. Counters'
    BY <1>3, PathFacts, ConstantsAssumption DEF ReconcileStatus, Judge, Fail, Counters, World, Memory, Turn
  <2>2. World'
    BY <1>3, PathFacts, ConstantsAssumption DEF ReconcileStatus, Judge, Fail, World, Memory, Counters
  <2>3. Control'
    BY <1>3, PathIndex DEF ReconcileStatus, Judge, Steps, Stages, Rewind, Control
  <2>4. Memory'
    BY <1>3, PathFacts, ConstantsAssumption DEF ReconcileStatus, Judge, Fail, Codes, Memory, World, Counters
  <2>5. Turn'
    BY <1>3, PathFacts, ConstantsAssumption DEF ReconcileStatus, Judge, Fail, Turn, World, Counters
  <2> QED
    BY <2>1, <2>2, <2>3, <2>4, <2>5
<1>4. ASSUME NEW w \in Worker, ReconcileCancel(w) PROVE Typed'
  <2>1. Counters'
    BY <1>4, PathFacts, SealTyped, ConstantsAssumption DEF ReconcileCancel, LeaseState, Counters, World, Memory, Turn
  <2>2. World'
    BY <1>4, PathFacts, SealTyped, ConstantsAssumption DEF ReconcileCancel, LeaseState, World, Memory, Counters
  <2>3. Control'
    BY <1>4, PathIndex DEF ReconcileCancel, Steps, Stages, Rewind, Control
  <2>4. Memory'
    BY <1>4, PathFacts, SealTyped, ConstantsAssumption DEF ReconcileCancel, LeaseState, Codes, Memory, World, Counters
  <2>5. Turn'
    BY <1>4, PathFacts, SealTyped, ConstantsAssumption DEF ReconcileCancel, LeaseState, Turn, World, Counters
  <2> QED
    BY <2>1, <2>2, <2>3, <2>4, <2>5
<1>5. ASSUME NEW w \in Worker, ReconcileRefuse(w) PROVE Typed'
  <2>1. Counters'
    BY <1>5, PathFacts, SealTyped, ConstantsAssumption DEF ReconcileRefuse, LeaseState, Counters, World, Memory, Turn
  <2>2. World'
    BY <1>5, PathFacts, SealTyped, ConstantsAssumption DEF ReconcileRefuse, LeaseState, World, Memory, Counters
  <2>3. Control'
    <3>1. UNCHANGED idx /\ \E s \in {"sweep", "claim"} : pc' = [pc EXCEPT ![w] = s]
      BY <1>5 DEF ReconcileRefuse
    <3> QED
      BY <1>5, <3>1, PathIndex DEF ReconcileRefuse, Steps, Stages, Control
  <2>4. Memory'
    BY <1>5, PathFacts, SealTyped, ConstantsAssumption DEF ReconcileRefuse, LeaseState, Codes, Memory, World, Counters
  <2>5. Turn'
    BY <1>5, PathFacts, SealTyped, ConstantsAssumption DEF ReconcileRefuse, LeaseState, Turn, World, Counters
  <2> QED
    BY <2>1, <2>2, <2>3, <2>4, <2>5
<1>6. ASSUME NEW w \in Worker, Sweep(w) PROVE Typed'
  <2>1. Counters'
    BY <1>6, PathFacts, FileFacts, ConstantsAssumption DEF Sweep, ClearPath, Fail, Counters, World, Memory, Turn
  <2>2. World'
    BY <1>6, PathFacts, FileFacts, ConstantsAssumption DEF Sweep, ClearPath, World, Memory, Counters
  <2>3. Control'
    BY <1>6, PathIndex DEF Sweep, ClearPath, Steps, Stages, Rewind, Control
  <2>4. Memory'
    BY <1>6, PathFacts, FileFacts, ConstantsAssumption DEF Sweep, ClearPath, Codes, Memory, World, Counters
  <2>5. Turn'
    BY <1>6, PathFacts, FileFacts, ConstantsAssumption DEF Sweep, ClearPath, Turn, World, Counters
  <2> QED
    BY <2>1, <2>2, <2>3, <2>4, <2>5
<1>7. ASSUME NEW w \in Worker, Claim(w) PROVE Typed'
  <2>1. Counters'
    BY <1>7, PathFacts, FileFacts, ConstantsAssumption DEF Claim, Grant, Fail, Counters, World, Memory, Turn
  <2>2. World'
    BY <1>7, GrantTyped, ConstantsAssumption DEF Claim, World
  <2>3. Control'
    BY <1>7, PathIndex DEF Claim, Steps, Stages, Rewind, Control
  <2>4. Memory'
    <3>1. EpochOf[w] \in Epoch
      BY ConstantsAssumption
    <3>2. \/ UNCHANGED mine
          \/ /\ Grant(EpochOf[w])
             /\ mine' = [mine EXCEPT ![w] = [epoch |-> EpochOf[w], gen |-> lease'[EpochOf[w]].gen,
                                             expires |-> lease'[EpochOf[w]].expires]]
      BY <1>7 DEF Claim
    <3>3. mine' \in [Worker -> LeaseFile]
      BY <3>1, <3>2, GrantTyped DEF Memory
    <3> QED
      BY <1>7, <3>3, FileFacts DEF Claim, Codes, Memory
  <2>5. Turn'
    BY <1>7, PathFacts, FileFacts, ConstantsAssumption DEF Claim, Grant, Fail, Turn, World, Counters
  <2> QED
    BY <2>1, <2>2, <2>3, <2>4, <2>5
<1>8. ASSUME NEW w \in Worker, PersistRead(w) PROVE Typed'
  <2>1. Counters'
    BY <1>8, PathFacts, ConstantsAssumption DEF PersistRead, Counters, World, Memory, Turn
  <2>2. World'
    BY <1>8, PathFacts, ConstantsAssumption DEF PersistRead, World, Memory, Counters
  <2>3. Control'
    BY <1>8, PathIndex DEF PersistRead, Steps, Stages, Rewind, Control
  <2>4. Memory'
    BY <1>8, PathFacts, ConstantsAssumption DEF PersistRead, Codes, Memory, World, Counters
  <2>5. Turn'
    BY <1>8, PathFacts, ConstantsAssumption DEF PersistRead, Turn, World, Counters
  <2> QED
    BY <2>1, <2>2, <2>3, <2>4, <2>5
<1>9. ASSUME NEW w \in Worker, PersistWrite(w) PROVE Typed'
  <2>1. Counters'
    BY <1>9, PathFacts, ConstantsAssumption DEF PersistWrite, AfterWrite, Fail, Counters, World, Memory, Turn
  <2>2. World'
    BY ZenonT(60), <1>9, PathFacts, ConstantsAssumption DEF PersistWrite, AfterWrite, Fail, World, Memory, Counters
  <2>3. Control'
    <3>1. idx[w] \in DOMAIN LeaseFilePaths(w)
      BY <1>9 DEF PersistWrite, Control
    <3>2. CASE idx' = [idx EXCEPT ![w] = @ + 1] /\ pc' = [pc EXCEPT ![w] = AfterWrite(w)]
      BY <3>1, <3>2, PathIndex DEF AfterWrite, Steps, Stages, Control
    <3>3. CASE UNCHANGED idx /\ pc' = [pc EXCEPT ![w] = "refuse"]
      BY <3>3 DEF Steps, Stages, Control
    <3> QED
      BY <1>9, <3>2, <3>3 DEF PersistWrite
  <2>4. Memory'
    BY <1>9, PathFacts, ConstantsAssumption DEF PersistWrite, AfterWrite, Fail, Codes, Memory, World, Counters
  <2>5. Turn'
    BY <1>9, PathFacts, ConstantsAssumption DEF PersistWrite, AfterWrite, Fail, Turn, World, Counters
  <2> QED
    BY <2>1, <2>2, <2>3, <2>4, <2>5
<1>10. ASSUME NEW w \in Worker, WriteWorkOrder(w) PROVE Typed'
  <2>1. Counters'
    BY <1>10, ConstantsAssumption DEF WriteWorkOrder, WorkOrderPath, Fail, Counters, World, Memory, Turn
  <2>2. World'
    BY <1>10, ConstantsAssumption DEF WriteWorkOrder, WorkOrderPath, Fail, World, Memory, Counters
  <2>3. Control'
    BY <1>10, PathIndex DEF WriteWorkOrder, Steps, Stages, Rewind, Control
  <2>4. Memory'
    BY <1>10, ConstantsAssumption DEF WriteWorkOrder, WorkOrderPath, Fail, Codes, Memory, World, Counters
  <2>5. Turn'
    BY <1>10, ConstantsAssumption DEF WriteWorkOrder, WorkOrderPath, Fail, Turn, World, Counters
  <2> QED
    BY <2>1, <2>2, <2>3, <2>4, <2>5
<1>11. ASSUME NEW w \in Worker, Spawn(w) PROVE Typed'
  <2>1. Counters'
    BY <1>11, ConstantsAssumption DEF Spawn, Fail, Counters, World, Memory, Turn
  <2>2. World'
    BY <1>11, ConstantsAssumption DEF Spawn, Fail, World, Memory, Counters
  <2>3. Control'
    BY <1>11, PathIndex DEF Spawn, Steps, Stages, Rewind, Control
  <2>4. Memory'
    BY <1>11, ConstantsAssumption DEF Spawn, Fail, Codes, Memory, World, Counters
  <2>5. Turn'
    BY <1>11, ConstantsAssumption DEF Spawn, Fail, Turn, World, Counters
  <2> QED
    BY <2>1, <2>2, <2>3, <2>4, <2>5
<1>12. ASSUME NEW w \in Worker, TurnReadsOrder(w) PROVE Typed'
  <2>1. Counters'
    BY <1>12, ConstantsAssumption DEF TurnReadsOrder, WorkOrderPath, Counters, World, Memory, Turn
  <2>2. World'
    BY <1>12, ConstantsAssumption DEF TurnReadsOrder, WorkOrderPath, World, Memory, Counters
  <2>3. Control'
    BY <1>12, PathIndex DEF TurnReadsOrder, Steps, Stages, Rewind, Control
  <2>4. Memory'
    BY <1>12, ConstantsAssumption DEF TurnReadsOrder, WorkOrderPath, Codes, Memory, World, Counters
  <2>5. Turn'
    BY <1>12, ConstantsAssumption DEF TurnReadsOrder, WorkOrderPath, Turn, World, Counters
  <2> QED
    BY <2>1, <2>2, <2>3, <2>4, <2>5
<1>13. ASSUME NEW w \in Worker, Heartbeat(w) PROVE Typed'
  <2>1. Counters'
    BY <1>13, FileFacts, ConstantsAssumption DEF Heartbeat, Open, Fail, Counters, World, Memory, Turn
  <2>2. World'
    <3>1. \/ UNCHANGED lease
          \/ /\ Open(mine[w])
             /\ lease' = [lease EXCEPT ![mine[w].epoch].expires = clock + TTL]
      BY <1>13 DEF Heartbeat
    <3>2. Open(mine[w]) => mine[w].epoch \in Epoch
      BY FileFacts DEF Open, Memory
    <3>3. clock + TTL \in Nat
      BY ConstantsAssumption DEF Counters
    <3>4. lease' \in [Epoch -> LeaseRecord]
      BY <3>1, <3>2, <3>3 DEF World, LeaseRecord
    <3> QED
      BY <1>13, <3>4 DEF Heartbeat, World
  <2>3. Control'
    BY <1>13, PathIndex DEF Heartbeat, Steps, Stages, Rewind, Control
  <2>4. Memory'
    BY <1>13, FileFacts, ConstantsAssumption DEF Heartbeat, Open, Fail, Codes, Memory, World, Counters
  <2>5. Turn'
    BY <1>13, FileFacts, ConstantsAssumption DEF Heartbeat, Open, Fail, Turn, World, Counters
  <2> QED
    BY <2>1, <2>2, <2>3, <2>4, <2>5
<1>14. ASSUME NEW w \in Worker, TurnEnds(w) PROVE Typed'
  <2>1. Counters'
    BY <1>14, ConstantsAssumption DEF TurnEnds, Counters, World, Memory, Turn
  <2>2. World'
    BY <1>14, ConstantsAssumption DEF TurnEnds, World, Memory, Counters
  <2>3. Control'
    BY <1>14, PathIndex DEF TurnEnds, Steps, Stages, Rewind, Control
  <2>4. Memory'
    BY <1>14, ConstantsAssumption DEF TurnEnds, Codes, Memory, World, Counters
  <2>5. Turn'
    BY <1>14, ConstantsAssumption DEF TurnEnds, Turn, World, Counters
  <2> QED
    BY <2>1, <2>2, <2>3, <2>4, <2>5
<1>15. ASSUME NEW w \in Worker, Interrupt(w) PROVE Typed'
  <2>1. Counters'
    BY <1>15, ConstantsAssumption DEF Interrupt, Counters, World, Memory, Turn
  <2>2. World'
    BY <1>15, ConstantsAssumption DEF Interrupt, World, Memory, Counters
  <2>3. Control'
    BY <1>15, PathIndex DEF Interrupt, Steps, Stages, Rewind, Control
  <2>4. Memory'
    BY <1>15, ConstantsAssumption DEF Interrupt, Codes, Memory, World, Counters
  <2>5. Turn'
    BY <1>15, ConstantsAssumption DEF Interrupt, Turn, World, Counters
  <2> QED
    BY <2>1, <2>2, <2>3, <2>4, <2>5
<1>16. ASSUME NEW w \in Worker, CancelWork(w) PROVE Typed'
  <2>1. Counters'
    BY <1>16, PathFacts, SealTyped, ConstantsAssumption DEF CancelWork, TakeReceipt, LeaseState, Counters, World, Memory, Turn
  <2>2. World'
    BY <1>16, PathFacts, SealTyped, ConstantsAssumption DEF CancelWork, TakeReceipt, LeaseState, World, Memory, Counters
  <2>3. Control'
    <3>1. \/ UNCHANGED idx /\ pc' = [pc EXCEPT ![w] = "refuse"]
          \/ idx' = [idx EXCEPT ![w] = 1] /\ pc' = [pc EXCEPT ![w] = "clear"]
      BY <1>16 DEF CancelWork, TakeReceipt, Rewind
    <3> QED
      BY <3>1, PathIndex DEF Steps, Stages, Control
  <2>4. Memory'
    BY <1>16, PathFacts, SealTyped, ConstantsAssumption DEF CancelWork, TakeReceipt, LeaseState, Codes, Memory, World, Counters
  <2>5. Turn'
    BY <1>16, PathFacts, SealTyped, ConstantsAssumption DEF CancelWork, TakeReceipt, LeaseState, Turn, World, Counters
  <2> QED
    BY <2>1, <2>2, <2>3, <2>4, <2>5
<1>17. ASSUME NEW w \in Worker, TypedRefusal(w) PROVE Typed'
  <2>1. Counters'
    BY <1>17, PathFacts, SealTyped, ConstantsAssumption DEF TypedRefusal, TakeReceipt, LeaseState, Counters, World, Memory, Turn
  <2>2. World'
    BY <1>17, PathFacts, SealTyped, ConstantsAssumption DEF TypedRefusal, TakeReceipt, LeaseState, World, Memory, Counters
  <2>3. Control'
    <3>1. \/ UNCHANGED idx /\ pc' = [pc EXCEPT ![w] = "done"]
          \/ idx' = [idx EXCEPT ![w] = 1] /\ pc' = [pc EXCEPT ![w] = "clear"]
      BY <1>17 DEF TypedRefusal, TakeReceipt, Rewind
    <3> QED
      BY <3>1, PathIndex DEF Steps, Stages, Control
  <2>4. Memory'
    BY <1>17, PathFacts, SealTyped, ConstantsAssumption DEF TypedRefusal, TakeReceipt, LeaseState, Codes, Memory, World, Counters
  <2>5. Turn'
    BY <1>17, PathFacts, SealTyped, ConstantsAssumption DEF TypedRefusal, TakeReceipt, LeaseState, Turn, World, Counters
  <2> QED
    BY <2>1, <2>2, <2>3, <2>4, <2>5
<1>18. ASSUME NEW w \in Worker, GitHead(w) PROVE Typed'
  <2>1. Counters'
    BY <1>18, ConstantsAssumption DEF GitHead, Fail, Counters, World, Memory, Turn
  <2>2. World'
    BY <1>18, ConstantsAssumption DEF GitHead, Fail, World, Memory, Counters
  <2>3. Control'
    BY <1>18, PathIndex DEF GitHead, Steps, Stages, Rewind, Control
  <2>4. Memory'
    BY <1>18, ConstantsAssumption DEF GitHead, Fail, Codes, Memory, World, Counters
  <2>5. Turn'
    BY <1>18, ConstantsAssumption DEF GitHead, Fail, Turn, World, Counters
  <2> QED
    BY <2>1, <2>2, <2>3, <2>4, <2>5
<1>19. ASSUME NEW w \in Worker, CloseCandidate(w) PROVE Typed'
  <2>1. Counters'
    BY <1>19, PathFacts, SealTyped, ConstantsAssumption DEF CloseCandidate, TakeReceipt, LeaseState, Counters, World, Memory, Turn
  <2>2. World'
    BY <1>19, PathFacts, SealTyped, ConstantsAssumption DEF CloseCandidate, TakeReceipt, LeaseState, World, Memory, Counters
  <2>3. Control'
    <3>1. \/ UNCHANGED idx /\ pc' = [pc EXCEPT ![w] = "done"]
          \/ idx' = [idx EXCEPT ![w] = 1] /\ pc' = [pc EXCEPT ![w] = "clear"]
      BY <1>19 DEF CloseCandidate, TakeReceipt, Rewind
    <3> QED
      BY <3>1, PathIndex DEF Steps, Stages, Control
  <2>4. Memory'
    BY <1>19, PathFacts, SealTyped, ConstantsAssumption DEF CloseCandidate, TakeReceipt, LeaseState, Codes, Memory, World, Counters
  <2>5. Turn'
    BY <1>19, PathFacts, SealTyped, ConstantsAssumption DEF CloseCandidate, TakeReceipt, LeaseState, Turn, World, Counters
  <2> QED
    BY <2>1, <2>2, <2>3, <2>4, <2>5
<1>20. ASSUME NEW w \in Worker, ClearLeaseState(w) PROVE Typed'
  <2>1. Counters'
    BY <1>20, PathFacts, FileFacts, ConstantsAssumption DEF ClearLeaseState, ClearPath, Fail, Counters, World, Memory, Turn
  <2>2. World'
    BY <1>20, FileFacts DEF ClearLeaseState, ClearPath, World
  <2>3. Control'
    <3>1. idx[w] \in DOMAIN LeaseFilePaths(w) /\ pc[w] = "clear"
      BY <1>20 DEF ClearLeaseState, Control
    <3>2. \/ UNCHANGED idx /\ pc' = [pc EXCEPT ![w] = "done"]
          \/ /\ idx[w] # Len(LeaseFilePaths(w))
             /\ idx' = [idx EXCEPT ![w] = @ + 1] /\ UNCHANGED pc
      BY <1>20 DEF ClearLeaseState, ClearPath
    <3> QED
      BY <3>1, <3>2, PathIndex DEF Steps, Stages, Control
  <2>4. Memory'
    BY <1>20, PathFacts, FileFacts, ConstantsAssumption DEF ClearLeaseState, ClearPath, Fail, Codes, Memory, World, Counters
  <2>5. Turn'
    BY <1>20, PathFacts, FileFacts, ConstantsAssumption DEF ClearLeaseState, ClearPath, Fail, Turn, World, Counters
  <2> QED
    BY <2>1, <2>2, <2>3, <2>4, <2>5
<1>21. ASSUME NEW w \in Worker, Crash(w) PROVE Typed'
  <2>1. Counters'
    BY <1>21, FileFacts, ConstantsAssumption DEF Crash, Forget, Counters, World, Memory, Turn
  <2>2. World'
    BY <1>21, FileFacts, ConstantsAssumption DEF Crash, Forget, World, Memory, Counters
  <2>3. Control'
    BY <1>21, PathIndex DEF Crash, Forget, Steps, Stages, Rewind, Control
  <2>4. Memory'
    BY <1>21, FileFacts, ConstantsAssumption DEF Crash, Forget, Codes, Memory, World, Counters
  <2>5. Turn'
    BY <1>21, FileFacts, ConstantsAssumption DEF Crash, Forget, Turn, World, Counters
  <2> QED
    BY <2>1, <2>2, <2>3, <2>4, <2>5
<1>22. CASE Tick
  BY <1>22, ConstantsAssumption DEF Tick, Counters, World, Control, Memory, Turn
<1>23. CASE UNCHANGED vars
  BY <1>23 DEF vars, Counters, World, Control, Memory, Turn
<1> QED
  BY <1>1, <1>2, <1>3, <1>4, <1>5, <1>6, <1>7, <1>8, <1>9, <1>10, <1>11, <1>12, <1>13,
     <1>14, <1>15, <1>16, <1>17, <1>18, <1>19, <1>20, <1>21, <1>22, <1>23
  DEF Next, Run

\* Leases, files and workers are of their types in every reachable state.
THEOREM TypeCorrect == Spec => []TypeOK
BY InitTypeOK, TypePreserved, PTL DEF Spec
-----------------------------------------------------------------------------
(* A sealed receipt is final *)

TerminalState == LeaseState \ {"unclaimed", "open"}

\* A receipt is in the result of a worker that is about to end, and names a lease.
ReceiptAtEnd ==
  \A w \in Worker : receipt[w] => /\ pc[w] \in {"clear", "done"}
                                  /\ mine[w] # Absent /\ lease[mine[w].epoch].state \in TerminalState

\* The fabric never reopens a terminal lease: claims, renewals and seals all
\* ask for one that is not.
LEMMA TerminalStays ==
  ASSUME TypeOK, [Next]_vars, NEW e \in Epoch,
         lease[e].state \in TerminalState
  PROVE  lease'[e].state \in TerminalState
<1> USE DEF TypeOK, TerminalState, fabricVars, diskVars
<1>1. ASSUME NEW t \in LeaseFile, NEW s \in LeaseState, SealAnswered(t, s) \/ SealFailed(t, s)
      PROVE  lease'[e] = lease[e]
  BY <1>1, FileFacts DEF SealAnswered, SealFailed, Sealed, Open
<1>2. ASSUME NEW d \in Epoch, Grant(d) PROVE lease'[e] = lease[e]
  BY <1>2 DEF Grant
<1>3. ASSUME NEW w \in Worker, Claim(w) PROVE lease'[e] = lease[e]
  <2>1. EpochOf[w] \in Epoch
    BY ConstantsAssumption
  <2> QED
    BY <1>2, <1>3, <2>1 DEF Claim
<1>4. ASSUME NEW w \in Worker, Heartbeat(w) PROVE lease'[e].state = lease[e].state
  <2>1. mine[w] \in LeaseFile
    OBVIOUS
  <2> QED
    BY <1>4, <2>1, FileFacts DEF Heartbeat, Open
<1>5. ASSUME NEW w \in Worker,
             \/ ReconcileCancel(w) \/ ReconcileRefuse(w) \/ CancelWork(w)
             \/ TypedRefusal(w) \/ CloseCandidate(w)
      PROVE  lease'[e] = lease[e]
  <2>1. seen[w] \in LeaseFile /\ mine[w] \in LeaseFile
    OBVIOUS
  <2> QED
    BY <1>1, <1>5, <2>1 DEF ReconcileCancel, ReconcileRefuse, CancelWork, TypedRefusal,
                            CloseCandidate, LeaseState
<1>6. CASE UNCHANGED lease
  BY <1>6
<1> QED
  BY ZenonT(60), <1>3, <1>4, <1>5, <1>6
  DEF Next, Run, vars, Dispatch, ReconcileRead, ReconcileStatus, Sweep, PersistRead,
      PersistWrite, WriteWorkOrder, Spawn, TurnReadsOrder, TurnEnds, Interrupt, GitHead,
      ClearLeaseState, Crash, Tick

\* A receipt is taken when the fabric has answered that the lease is sealed.
LEMMA ReceiptPreserved ==
  ASSUME TypeOK, ReceiptAtEnd, [Next]_vars PROVE ReceiptAtEnd'
<1> SUFFICES ASSUME NEW v \in Worker, receipt'[v]
             PROVE  /\ pc'[v] \in {"clear", "done"}
                    /\ mine'[v] # Absent /\ lease'[mine'[v].epoch].state \in TerminalState
  BY DEF ReceiptAtEnd
<1> DEFINE Kept == receipt[v] /\ mine'[v] = mine[v] /\ pc'[v] \in {"clear", "done"}
           Taken == /\ \E s \in TerminalState : SealAnswered(mine[v], s)
                    /\ UNCHANGED mine /\ pc'[v] \in {"clear", "done"}
<1> USE DEF TypeOK, ReceiptAtEnd, fabricVars, diskVars, resultVars, turnVars
<1>1. ASSUME NEW w \in Worker,
             \/ Dispatch(w) \/ ReconcileRead(w) \/ ReconcileStatus(w) \/ ReconcileCancel(w)
             \/ ReconcileRefuse(w) \/ Sweep(w)
      PROVE  Kept
  BY ZenonT(60), <1>1 DEF Dispatch, ReconcileRead, ReconcileStatus, ReconcileCancel, ReconcileRefuse,
              Sweep, ClearPath
<1>2. ASSUME NEW w \in Worker,
             \/ Claim(w) \/ PersistRead(w) \/ PersistWrite(w) \/ WriteWorkOrder(w) \/ Spawn(w)
             \/ GitHead(w)
      PROVE  Kept
  BY <1>2 DEF Claim, PersistRead, PersistWrite, WriteWorkOrder, Spawn, GitHead
<1>3. ASSUME NEW w \in Worker,
             TurnReadsOrder(w) \/ Heartbeat(w) \/ TurnEnds(w) \/ Interrupt(w)
      PROVE  Kept
  BY <1>3 DEF TurnReadsOrder, Heartbeat, TurnEnds, Interrupt
<1>4. ASSUME NEW w \in Worker, CancelWork(w) PROVE Kept \/ Taken
  BY SMTT(20), <1>4 DEF CancelWork, TakeReceipt, TerminalState, LeaseState
<1>5. ASSUME NEW w \in Worker, TypedRefusal(w) PROVE Kept \/ Taken
  BY <1>5 DEF TypedRefusal, TakeReceipt, TerminalState, LeaseState
<1>6. ASSUME NEW w \in Worker, CloseCandidate(w) PROVE Kept \/ Taken
  <2>1. /\ "alive" \in TerminalState /\ "blocked" \in TerminalState
    BY DEF TerminalState, LeaseState
  <2>2. CASE exitCode[w] = "zero"
    BY ZenonT(60), <1>6, <2>1, <2>2 DEF CloseCandidate, TakeReceipt
  <2>3. CASE exitCode[w] # "zero"
    BY <1>6, <2>1, <2>3 DEF CloseCandidate, TakeReceipt
  <2> QED
    BY <2>2, <2>3
<1>7. ASSUME NEW w \in Worker, ClearLeaseState(w) PROVE Kept
  BY <1>7 DEF ClearLeaseState, ClearPath
<1>8. ASSUME NEW w \in Worker, Crash(w) PROVE Kept
  BY <1>8 DEF Crash, Forget
<1>9. ASSUME Tick \/ UNCHANGED vars PROVE Kept
  BY <1>9 DEF Tick, vars
<1>10. Kept \/ Taken
  BY <1>1, <1>2, <1>3, <1>4, <1>5, <1>6, <1>7, <1>8, <1>9 DEF Next, Run
<1>11. CASE Kept
  <2>1. mine[v].epoch \in Epoch
    BY <1>11, FileFacts
  <2> QED
    BY <1>11, <2>1, TerminalStays
<1>12. CASE Taken
  <2>1. mine[v] # Absent /\ mine[v].epoch \in Epoch
    BY <1>12, FileFacts DEF SealAnswered, Open
  <2> QED
    BY <1>12, <2>1 DEF SealAnswered, Sealed
<1> QED
  BY <1>10, <1>11, <1>12

\* A worker whose result carries a receipt is right that its epoch is terminal,
\* and it stays so.
THEOREM ReceiptIsFinal == Spec => []ReceiptMeansTerminal
<1>1. Init => ReceiptAtEnd
  BY DEF Init, ReceiptAtEnd
<1>2. TypeOK /\ ReceiptAtEnd /\ [Next]_vars => ReceiptAtEnd'
  BY ReceiptPreserved
<1>3. ReceiptAtEnd => ReceiptMeansTerminal
  BY DEF ReceiptAtEnd, ReceiptMeansTerminal, TerminalState, Open
<1> QED
  BY <1>1, <1>2, <1>3, TypeCorrect, PTL DEF Spec
-----------------------------------------------------------------------------
(* What a step of one worker leaves alone *)

\* What the dispatcher, the runtime, the timers and the process of one worker do.
WorkerStep(w) == \/ Dispatch(w) \/ Run(w) \/ TurnReadsOrder(w) \/ Heartbeat(w)
                 \/ Interrupt(w) \/ Crash(w)

\* A step of one worker leaves the memory of every other as it is.
LEMMA OthersUnmoved ==
  ASSUME TypeOK, NEW w \in Worker, WorkerStep(w), NEW v \in Worker, v # w
  PROVE  /\ pc'[v] = pc[v] /\ idx'[v] = idx[v] /\ seen'[v] = seen[v] /\ mine'[v] = mine[v]
         /\ receipt'[v] = receipt[v] /\ cleanup'[v] = cleanup[v] /\ goal'[v] = goal[v]
<1> USE DEF TypeOK, fabricVars, diskVars, resultVars, turnVars, Rewind
<1>1. CASE Dispatch(w) \/ ReconcileRead(w) \/ ReconcileStatus(w)
  BY <1>1 DEF Dispatch, ReconcileRead, ReconcileStatus
<1>2. CASE ReconcileCancel(w) \/ ReconcileRefuse(w) \/ Sweep(w) \/ Claim(w)
  BY <1>2 DEF ReconcileCancel, ReconcileRefuse, Sweep, ClearPath, Claim
<1>3. CASE PersistRead(w) \/ PersistWrite(w) \/ WriteWorkOrder(w) \/ Spawn(w)
  BY <1>3 DEF PersistRead, PersistWrite, WriteWorkOrder, Spawn
<1>4. CASE TurnReadsOrder(w) \/ Heartbeat(w) \/ TurnEnds(w) \/ Interrupt(w)
  BY <1>4 DEF TurnReadsOrder, Heartbeat, TurnEnds, Interrupt
<1>5. CASE CancelWork(w) \/ TypedRefusal(w) \/ GitHead(w) \/ CloseCandidate(w)
  BY <1>5 DEF CancelWork, TypedRefusal, GitHead, CloseCandidate, TakeReceipt
<1>6. CASE ClearLeaseState(w)
  BY <1>6 DEF ClearLeaseState, ClearPath
<1>7. CASE Crash(w)
  BY <1>7 DEF Crash, Forget
<1> QED
  BY <1>1, <1>2, <1>3, <1>4, <1>5, <1>6, <1>7 DEF WorkerStep, Run

\* A step of a worker, or of time, is all there is.
LEMMA StepIsAWorkers ==
  [Next]_vars <=> Tick \/ UNCHANGED vars \/ \E w \in Worker : WorkerStep(w)
BY DEF Next, WorkerStep

\* What a worker step does to the files: nothing, or to one path of that worker,
\* where it puts the worker's own lease or nothing.
LEMMA FileMoves ==
  ASSUME TypeOK, NEW w \in Worker, WorkerStep(w)
  PROVE  \/ UNCHANGED file
         \/ /\ Active(w) /\ idx[w] \in DOMAIN LeaseFilePaths(w)
            /\ \/ /\ pc[w] \in {"sweep", "clear"}
                  /\ file' = [file EXCEPT ![LeaseFilePaths(w)[idx[w]]] = Absent]
               \/ /\ pc[w] = "write"
                  /\ file' = [file EXCEPT ![LeaseFilePaths(w)[idx[w]]] = mine[w]]
<1> USE DEF diskVars
<1>1. CASE Sweep(w) \/ ClearLeaseState(w)
  BY <1>1 DEF TypeOK, Sweep, ClearLeaseState, ClearPath, Active, Stages
<1>2. CASE PersistWrite(w)
  BY <1>2 DEF TypeOK, PersistWrite, Active, Stages
<1>3. CASE \/ Dispatch(w) \/ ReconcileRead(w) \/ ReconcileStatus(w) \/ ReconcileCancel(w)
           \/ ReconcileRefuse(w) \/ Claim(w) \/ PersistRead(w) \/ WriteWorkOrder(w) \/ Spawn(w)
  BY <1>3 DEF Dispatch, ReconcileRead, ReconcileStatus, ReconcileCancel, ReconcileRefuse, Claim,
              PersistRead, WriteWorkOrder, Spawn
<1>4. CASE \/ TurnReadsOrder(w) \/ Heartbeat(w) \/ TurnEnds(w) \/ Interrupt(w) \/ CancelWork(w)
           \/ TypedRefusal(w) \/ GitHead(w) \/ CloseCandidate(w) \/ Crash(w)
  BY <1>4 DEF TurnReadsOrder, Heartbeat, TurnEnds, Interrupt, CancelWork, TypedRefusal, GitHead,
              CloseCandidate, Crash
<1> QED
  BY <1>1, <1>2, <1>3, <1>4 DEF WorkerStep, Run

-----------------------------------------------------------------------------
(* The host gate stays armed while a turn runs *)

(***************************************************************************)
(* Removing a lease file goes by its path.  Workers must not share paths,  *)
(* or not run at the same time, for one to keep its files from the other.  *)
(***************************************************************************)
PathsUnshared == ~Overlap \/ \A v, w \in Worker : KeyOf[v] = KeyOf[w] => v = w

\* The files a worker has written so far hold its lease: all of them once the
\* loop that persists them is over.
ArmedUpTo(w) ==
  /\ pc[w] \in {"persist", "write"} =>
       \A i \in DOMAIN LeaseFilePaths(w) : i < idx[w] => file[LeaseFilePaths(w)[i]] = mine[w]
  /\ pc[w] \in {"order", "spawn", "construct"} =>
       \A i \in DOMAIN LeaseFilePaths(w) : file[LeaseFilePaths(w)[i]] = mine[w]

OneActive == ~Overlap => \A v, w \in Worker : Active(v) /\ Active(w) => v = w
ArmedInv == OneActive /\ \A w \in Worker : ArmedUpTo(w)

\* A path of one worker is not a path of another whose key differs.
LEMMA PathsApart ==
  ASSUME NEW v \in Worker, NEW w \in Worker, KeyOf[v] # KeyOf[w],
         NEW i \in DOMAIN LeaseFilePaths(v), NEW j \in DOMAIN LeaseFilePaths(w)
  PROVE  LeaseFilePaths(v)[i] # LeaseFilePaths(w)[j]
BY PathFacts

\* What an active worker does to a path of its own leaves those of the others.
LEMMA OthersKeepFiles ==
  ASSUME PathsUnshared, TypeOK, OneActive, NEW v \in Worker, NEW w \in Worker, v # w,
         Active(v), Active(w), NEW i \in DOMAIN LeaseFilePaths(w),
         NEW f, file' = [file EXCEPT ![LeaseFilePaths(w)[i]] = f]
  PROVE  \A j \in DOMAIN LeaseFilePaths(v) :
           file'[LeaseFilePaths(v)[j]] = file[LeaseFilePaths(v)[j]]
<1>1. KeyOf[v] # KeyOf[w]
  BY DEF PathsUnshared, OneActive
<1>2. SUFFICES ASSUME NEW j \in DOMAIN LeaseFilePaths(v)
               PROVE  file'[LeaseFilePaths(v)[j]] = file[LeaseFilePaths(v)[j]]
  OBVIOUS
<1>3. LeaseFilePaths(v)[j] # LeaseFilePaths(w)[i]
  BY <1>1, PathsApart
<1>4. LeaseFilePaths(v)[j] \in Path /\ LeaseFilePaths(w)[i] \in Path
  BY PathFacts
<1> QED
  BY <1>3, <1>4 DEF TypeOK

\* No step of another worker disarms a worker.
LEMMA OthersKeepArmed ==
  ASSUME PathsUnshared, TypeOK, ArmedInv, NEW v \in Worker, NEW w \in Worker, v # w,
         WorkerStep(w)
  PROVE  ArmedUpTo(v)'
<1>1. pc'[v] = pc[v] /\ idx'[v] = idx[v] /\ mine'[v] = mine[v]
  BY OthersUnmoved
<1>2. \/ UNCHANGED file
      \/ /\ Active(w) /\ idx[w] \in DOMAIN LeaseFilePaths(w)
         /\ \E f \in LeaseFile : file' = [file EXCEPT ![LeaseFilePaths(w)[idx[w]]] = f]
  BY FileMoves, FileFacts DEF TypeOK
<1>3. CASE UNCHANGED file
  BY <1>1, <1>3 DEF ArmedInv, ArmedUpTo
<1>4. CASE pc[v] \in {"persist", "write", "order", "spawn", "construct"} /\ ~UNCHANGED file
  <2>1. Active(v)
    BY <1>4 DEF Active, Stages
  <2>2. \A j \in DOMAIN LeaseFilePaths(v) :
          file'[LeaseFilePaths(v)[j]] = file[LeaseFilePaths(v)[j]]
    BY <1>2, <1>4, <2>1, OthersKeepFiles DEF ArmedInv
  <2> QED
    BY <1>1, <2>2 DEF ArmedInv, ArmedUpTo
<1>5. CASE pc[v] \notin {"persist", "write", "order", "spawn", "construct"}
  BY <1>1, <1>5 DEF ArmedUpTo
<1> QED
  BY <1>3, <1>4, <1>5

\* No step of a worker leaves its own files behind.
LEMMA WorkerStaysArmed ==
  ASSUME TypeOK, ArmedInv, NEW w \in Worker, WorkerStep(w)
  PROVE  ArmedUpTo(w)'
<1> USE DEF ArmedInv, ArmedUpTo, fabricVars, diskVars, resultVars, turnVars
<1>1. CASE PersistRead(w)
  BY <1>1 DEF TypeOK, PersistRead
<1>2. CASE PersistWrite(w)
  <2> DEFINE paths == LeaseFilePaths(w)
  <2>1. /\ idx[w] \in DOMAIN paths /\ DOMAIN paths = 1..Len(paths) /\ Len(paths) \in Nat
        /\ \A i \in DOMAIN paths : paths[i] \in Path
    BY <1>2, PathFacts DEF TypeOK, PersistWrite
  <2>2. CASE /\ file' = [file EXCEPT ![paths[idx[w]]] = mine[w]]
             /\ idx' = [idx EXCEPT ![w] = @ + 1] /\ pc'[w] = AfterWrite(w)
    <3>1. \A i \in DOMAIN paths : i < idx[w] + 1 => file'[paths[i]] = mine[w]
      <4> SUFFICES ASSUME NEW i \in DOMAIN paths, i < idx[w] + 1
                   PROVE  file'[paths[i]] = mine[w]
        OBVIOUS
      <4>1. i = idx[w] \/ i < idx[w]
        BY <2>1
      <4>2. paths[i] = paths[idx[w]] \/ file[paths[i]] = mine[w]
        BY <1>2, <4>1 DEF PersistWrite
      <4> QED
        BY <2>1, <2>2, <4>2 DEF TypeOK
    <3>2. idx'[w] = idx[w] + 1 /\ mine'[w] = mine[w]
      BY <1>2, <2>2 DEF TypeOK, PersistWrite
    <3>3. CASE idx[w] = Len(paths)
      BY <2>1, <2>2, <3>1, <3>2, <3>3 DEF AfterWrite
    <3>4. CASE idx[w] # Len(paths)
      BY <2>2, <3>1, <3>2, <3>4 DEF AfterWrite
    <3> QED
      BY <3>3, <3>4
  <2>3. CASE pc'[w] = "refuse"
    BY <2>3
  <2> QED
    BY <1>2, <2>2, <2>3 DEF PersistWrite, TypeOK
<1>3. CASE WriteWorkOrder(w) \/ Spawn(w) \/ TurnReadsOrder(w) \/ Heartbeat(w) \/ Interrupt(w)
  BY <1>3 DEF TypeOK, WriteWorkOrder, Spawn, TurnReadsOrder, Heartbeat, Interrupt
<1>4. CASE Claim(w)
  <2>1. idx'[w] = 1 /\ (pc'[w] \in {"persist", "refuse", "done"})
    BY <1>4 DEF TypeOK, Claim, Rewind
  <2>2. \A i \in DOMAIN LeaseFilePaths(w) : ~(i < 1)
    BY PathFacts
  <2> QED
    BY <2>1, <2>2
<1>5. CASE \/ Dispatch(w) \/ ReconcileRead(w) \/ ReconcileStatus(w) \/ ReconcileCancel(w)
           \/ ReconcileRefuse(w) \/ Sweep(w)
  <2>1. CASE Dispatch(w)
    BY <2>1 DEF TypeOK, Dispatch
  <2>2. CASE ReconcileRead(w)
    <3>1. pc[w] = "reconcile" /\ pc'[w] \in {"reconcile", "claim", "sweep", "status"}
      BY <2>2 DEF TypeOK, ReconcileRead
    <3> QED
      BY <3>1
  <2>3. CASE ReconcileStatus(w)
    BY <2>3 DEF TypeOK, ReconcileStatus, Judge
  <2>4. CASE ReconcileCancel(w) \/ ReconcileRefuse(w)
    BY <2>4 DEF TypeOK, ReconcileCancel, ReconcileRefuse
  <2>5. CASE Sweep(w)
    BY <2>5 DEF TypeOK, Sweep, ClearPath
  <2> QED
    BY <1>5, <2>1, <2>2, <2>3, <2>4, <2>5
<1>6. CASE TurnEnds(w) \/ CancelWork(w) \/ TypedRefusal(w) \/ GitHead(w) \/ CloseCandidate(w)
  BY <1>6 DEF TypeOK, TurnEnds, CancelWork, TypedRefusal, GitHead, CloseCandidate, TakeReceipt
<1>7. CASE ClearLeaseState(w) \/ Crash(w)
  BY <1>7 DEF TypeOK, ClearLeaseState, ClearPath, Crash
<1> QED
  BY <1>1, <1>2, <1>3, <1>4, <1>5, <1>6, <1>7 DEF WorkerStep, Run

\* Without overlap a worker is started only when none is active.
LEMMA OneActivePreserved ==
  ASSUME TypeOK, OneActive, [Next]_vars PROVE OneActive'
<1>1. ASSUME NEW w \in Worker, Dispatch(w) PROVE OneActive'
  BY <1>1 DEF TypeOK, OneActive, Active, Dispatch
<1>2. ASSUME NEW w \in Worker,
             Run(w) \/ TurnReadsOrder(w) \/ Heartbeat(w) \/ Interrupt(w) \/ Crash(w)
      PROVE  Active(w) /\ \A v \in Worker : v # w => pc'[v] = pc[v]
  <2>1. CASE ReconcileRead(w) \/ ReconcileStatus(w) \/ ReconcileCancel(w) \/ ReconcileRefuse(w)
             \/ Sweep(w) \/ Claim(w) \/ PersistRead(w) \/ PersistWrite(w)
    BY <2>1 DEF TypeOK, ReconcileRead, ReconcileStatus, ReconcileCancel, ReconcileRefuse,
                Sweep, ClearPath, Claim, PersistRead, PersistWrite, Active, Stages
  <2>2. CASE \/ WriteWorkOrder(w) \/ Spawn(w) \/ TurnReadsOrder(w) \/ Heartbeat(w)
             \/ TurnEnds(w) \/ Interrupt(w) \/ CancelWork(w) \/ TypedRefusal(w) \/ GitHead(w)
             \/ CloseCandidate(w) \/ ClearLeaseState(w) \/ Crash(w)
    BY <2>2 DEF TypeOK, WriteWorkOrder, Spawn, TurnReadsOrder, Heartbeat, TurnEnds, Interrupt,
                CancelWork, TypedRefusal, GitHead, CloseCandidate, TakeReceipt,
                ClearLeaseState, ClearPath, Crash, Active, Stages
  <2> QED
    BY <1>2, <2>1, <2>2 DEF Run
<1>3. CASE Tick \/ UNCHANGED vars
  BY <1>3 DEF Tick, vars, OneActive, Active
<1> QED
  BY <1>1, <1>2, <1>3 DEF Next, OneActive, Active

\* The armed invariant survives every step.
LEMMA ArmedPreserved ==
  ASSUME PathsUnshared, TypeOK, ArmedInv, [Next]_vars PROVE ArmedInv'
<1>1. OneActive'
  BY OneActivePreserved DEF ArmedInv
<1>2. ASSUME NEW v \in Worker PROVE ArmedUpTo(v)'
  <2>1. CASE Tick \/ UNCHANGED vars
    BY <2>1 DEF Tick, vars, diskVars, ArmedInv, ArmedUpTo
  <2>2. ASSUME NEW w \in Worker, WorkerStep(w) PROVE ArmedUpTo(v)'
    BY <2>2, OthersKeepArmed, WorkerStaysArmed
  <2> QED
    BY <2>1, <2>2, StepIsAWorkers
<1> QED
  BY <1>1, <1>2 DEF ArmedInv

\* While a runtime turn runs, every lease file the gate could look up for its
\* worker holds the lease that worker claimed.
THEOREM GateStaysArmed == ASSUME PathsUnshared PROVE Spec => []ArmedWhileConstructing
<1>1. Init => ArmedInv
  BY DEF Init, ArmedInv, ArmedUpTo, OneActive, Active, Stages
<1>2. TypeOK /\ ArmedInv /\ [Next]_vars => ArmedInv'
  BY ArmedPreserved
<1>3. ArmedInv => ArmedWhileConstructing
  BY DEF ArmedInv, ArmedUpTo, ArmedWhileConstructing
<1> QED
  BY <1>1, <1>2, <1>3, TypeCorrect, PTL DEF Spec
-----------------------------------------------------------------------------
(* A token the fabric has given up on *)

\* The fabric changes a lease when a call with its token seals or renews it, or
\* when it is claimed; and none of these lets time pass.
SealStep == \E t \in LeaseFile, s \in TerminalState : Open(t) /\ Sealed(t, s)
RenewStep == \E t \in LeaseFile :
               Open(t) /\ lease' = [lease EXCEPT ![t.epoch].expires = clock + TTL]
GrantStep == \E e \in Epoch : Grant(e)

LEMMA LeaseMoves ==
  ASSUME TypeOK, [Next]_vars
  PROVE  \/ UNCHANGED lease /\ clock' \in {clock, clock + 1}
         \/ UNCHANGED clock /\ (SealStep \/ RenewStep \/ GrantStep)
<1> USE DEF TypeOK, fabricVars, diskVars
<1>1. ASSUME NEW t \in LeaseFile, NEW s \in TerminalState, SealAnswered(t, s) \/ SealFailed(t, s)
      PROVE  UNCHANGED lease \/ SealStep
  BY <1>1 DEF SealAnswered, SealFailed, SealStep
<1>2. /\ "cancelled" \in TerminalState /\ "refused" \in TerminalState
      /\ "alive" \in TerminalState /\ "blocked" \in TerminalState
  BY DEF TerminalState, LeaseState
<1>3. ASSUME NEW w \in Worker, \/ ReconcileCancel(w) \/ ReconcileRefuse(w) \/ CancelWork(w)
                               \/ TypedRefusal(w)
      PROVE  UNCHANGED clock /\ (UNCHANGED lease \/ SealStep)
  <2>1. seen[w] \in LeaseFile /\ mine[w] \in LeaseFile
    OBVIOUS
  <2> QED
    BY <1>1, <1>2, <1>3, <2>1 DEF ReconcileCancel, ReconcileRefuse, CancelWork, TypedRefusal
<1>4. ASSUME NEW w \in Worker, CloseCandidate(w)
      PROVE  UNCHANGED clock /\ (UNCHANGED lease \/ SealStep)
  <2>1. mine[w] \in LeaseFile
    OBVIOUS
  <2>2. \E s \in {"alive", "blocked"} : SealAnswered(mine[w], s) \/ SealFailed(mine[w], s)
    BY <1>4 DEF CloseCandidate
  <2> QED
    BY <1>1, <1>2, <1>4, <2>1, <2>2 DEF CloseCandidate
<1>5. ASSUME NEW w \in Worker, Claim(w)
      PROVE  UNCHANGED clock /\ (UNCHANGED lease \/ GrantStep)
  <2>1. EpochOf[w] \in Epoch
    BY ConstantsAssumption
  <2> QED
    BY <1>5, <2>1 DEF Claim, GrantStep
<1>6. ASSUME NEW w \in Worker, Heartbeat(w)
      PROVE  UNCHANGED clock /\ (UNCHANGED lease \/ RenewStep)
  <2>1. mine[w] \in LeaseFile
    OBVIOUS
  <2> QED
    BY <1>6, <2>1 DEF Heartbeat, RenewStep
<1>7. CASE UNCHANGED lease /\ clock' \in {clock, clock + 1}
  BY <1>7
<1> QED
  BY ZenonT(60), <1>3, <1>4, <1>5, <1>6, <1>7
  DEF Next, Run, vars, Dispatch, ReconcileRead, ReconcileStatus, Sweep, PersistRead,
      PersistWrite, WriteWorkOrder, Spawn, TurnReadsOrder, TurnEnds, Interrupt, GitHead,
      ClearLeaseState, Crash, Tick

\* The generation of an epoch's lease never goes back.
LEMMA GenerationGrows ==
  ASSUME TypeOK, [Next]_vars, NEW e \in Epoch
  PROVE  lease[e].gen <= lease'[e].gen
<1>1. lease[e].gen \in Nat
  BY DEF TypeOK
<1>2. CASE UNCHANGED lease
  BY <1>1, <1>2
<1>3. CASE SealStep
  BY <1>1, <1>3, FileFacts DEF SealStep, Sealed, Open, TypeOK
<1>4. CASE RenewStep
  BY <1>1, <1>4, FileFacts DEF RenewStep, Open, TypeOK
<1>5. CASE GrantStep
  BY <1>1, <1>5 DEF GrantStep, Grant, TypeOK
<1> QED
  BY LeaseMoves, <1>2, <1>3, <1>4, <1>5

\* A token the fabric no longer accepts is never accepted again: what renews or
\* seals a lease needs its token, and a new claim gives it a new generation.
LEMMA DeadTokenStays ==
  ASSUME TypeOK, [Next]_vars, NEW t \in LeaseFile,
         t # Absent => t.gen <= lease[t.epoch].gen, ~Open(t)
  PROVE  ~Open(t)'
<1>1. SUFFICES ASSUME t # Absent PROVE ~Open(t)'
  BY DEF Open
<1> DEFINE e == t.epoch
<1>2. e \in Epoch /\ t.gen \in Nat /\ lease[e].gen \in Nat /\ lease[e].expires \in Nat /\ clock \in Nat
  BY <1>1, FileFacts, ConstantsAssumption DEF TypeOK
<1>3. CASE UNCHANGED lease /\ clock' \in {clock, clock + 1}
  BY <1>1, <1>2, <1>3 DEF Open
<1>4. CASE UNCHANGED clock /\ SealStep
  <2>1. PICK u \in LeaseFile, s \in TerminalState : Open(u) /\ Sealed(u, s)
    BY <1>4 DEF SealStep
  <2>2. u.epoch \in Epoch /\ s # "open"
    BY <2>1, FileFacts DEF Open, TerminalState
  <2>3. CASE u.epoch = e
    BY <2>1, <2>2, <2>3 DEF Sealed, Open, TypeOK
  <2>4. CASE u.epoch # e
    BY <1>1, <1>4, <2>1, <2>2, <2>4 DEF Sealed, Open, TypeOK
  <2> QED
    BY <2>3, <2>4
<1>5. CASE UNCHANGED clock /\ RenewStep
  <2>1. PICK u \in LeaseFile :
          Open(u) /\ lease' = [lease EXCEPT ![u.epoch].expires = clock + TTL]
    BY <1>5 DEF RenewStep
  <2>2. u.epoch \in Epoch
    BY <2>1, FileFacts DEF Open
  <2>3. CASE u.epoch = e
    <3>1. lease[e].gen # t.gen
      BY <1>1, <2>1, <2>3 DEF Open
    <3> QED
      BY <2>1, <2>3, <1>2, <3>1 DEF Open, TypeOK
  <2>4. CASE u.epoch # e
    BY <1>1, <1>5, <2>1, <2>2, <2>4 DEF Open, TypeOK
  <2> QED
    BY <2>3, <2>4
<1>6. CASE UNCHANGED clock /\ GrantStep
  <2>1. PICK d \in Epoch : Grant(d)
    BY <1>6 DEF GrantStep
  <2>2. CASE UNCHANGED lease
    BY <1>1, <1>6, <2>2 DEF Open
  <2>3. CASE lease' = [lease EXCEPT ![d] = [state |-> "open", gen |-> lease[d].gen + 1,
                                            expires |-> clock + TTL]]
    <3>1. CASE d = e
      <4>1. lease'[e].gen = lease[e].gen + 1
        BY <2>3, <3>1, <1>2 DEF TypeOK
      <4> QED
        BY <1>1, <1>2, <4>1 DEF Open
    <3>2. CASE d # e
      BY <1>1, <1>2, <1>6, <2>3, <3>2 DEF Open, TypeOK
    <3> QED
      BY <3>1, <3>2
  <2> QED
    BY <2>1, <2>2, <2>3 DEF Grant, TypeOK
<1> QED
  BY LeaseMoves, <1>3, <1>4, <1>5, <1>6
-----------------------------------------------------------------------------
(* What a worker holds at each stage *)

Unclaimed == {"idle", "dead", "reconcile", "status", "closeOut", "refuseOut", "sweep", "claim"}
Holding == {"persist", "write", "order", "spawn", "construct", "cancel", "refuse", "head",
            "close", "clear"}

\* A worker has a lease from its claim on, of its own epoch and of a generation
\* the fabric has given out; it clears up after a receipt only.
Held(w) ==
  /\ pc[w] \in Unclaimed => mine[w] = Absent
  /\ pc[w] \in Holding => mine[w] # Absent
  /\ mine[w] # Absent => mine[w].epoch = EpochOf[w] /\ mine[w].gen <= lease[EpochOf[w]].gen
  /\ pc[w] = "clear" => receipt[w]
  /\ cleanup[w] => pc[w] = "done" /\ receipt[w]
  /\ pc[w] \in {"closeOut", "refuseOut"} => seen[w].epoch # EpochOf[w]

\* The step a worker takes keeps what it holds in line with its stage.
LEMMA WorkerStaysHeld ==
  ASSUME TypeOK, NEW w \in Worker, Held(w), [Next]_vars, WorkerStep(w) PROVE Held(w)'
<1> USE DEF TypeOK, Held, Unclaimed, Holding, fabricVars, diskVars, resultVars, turnVars, Rewind
<1>1. EpochOf[w] \in Epoch /\ EpochOf[w] # "none"
  BY ConstantsAssumption
<1>2. lease[EpochOf[w]].gen <= lease'[EpochOf[w]].gen /\ lease[EpochOf[w]].gen \in Nat
      /\ lease'[EpochOf[w]].gen \in Nat
  BY <1>1, GenerationGrows, TypePreserved
<1>3. ASSUME UNCHANGED mine
      PROVE  mine'[w] # Absent => mine'[w].epoch = EpochOf[w] /\ mine'[w].gen <= lease'[EpochOf[w]].gen
  BY <1>1, <1>2, <1>3, FileFacts
<1>4. CASE Dispatch(w) \/ ReconcileRead(w)
  BY ZenonT(40), <1>3, <1>4 DEF Dispatch, ReconcileRead
<1>5. CASE ReconcileStatus(w)
  BY <1>3, <1>5 DEF ReconcileStatus, Judge, CountsAsCrashed
<1>6. CASE ReconcileCancel(w) \/ ReconcileRefuse(w)
  BY <1>3, <1>6 DEF ReconcileCancel, ReconcileRefuse
<1>7. CASE Sweep(w)
  BY <1>3, <1>7 DEF Sweep, ClearPath
<1>8. CASE Claim(w)
  BY <1>1, <1>2, <1>8 DEF Claim, Absent
<1>9. CASE PersistRead(w) \/ PersistWrite(w) \/ WriteWorkOrder(w) \/ Spawn(w)
  BY <1>3, <1>9 DEF PersistRead, PersistWrite, AfterWrite, WriteWorkOrder, Spawn
<1>10. CASE TurnReadsOrder(w) \/ Heartbeat(w) \/ TurnEnds(w) \/ Interrupt(w)
  BY <1>3, <1>10 DEF TurnReadsOrder, Heartbeat, TurnEnds, Interrupt
<1>11. CASE CancelWork(w) \/ TypedRefusal(w) \/ GitHead(w) \/ CloseCandidate(w)
  BY <1>3, <1>11 DEF CancelWork, TypedRefusal, GitHead, CloseCandidate, TakeReceipt
<1>12. CASE ClearLeaseState(w)
  BY <1>3, <1>12 DEF ClearLeaseState, ClearPath
<1>13. CASE Crash(w)
  BY <1>13 DEF Crash, Forget
<1> QED
  BY <1>4, <1>5, <1>6, <1>7, <1>8, <1>9, <1>10, <1>11, <1>12, <1>13 DEF WorkerStep, Run

\* So does the step of any other, and time.
LEMMA HeldPreserved ==
  ASSUME TypeOK, \A w \in Worker : Held(w), [Next]_vars
  PROVE  \A w \in Worker : Held(w)'
<1> SUFFICES ASSUME NEW w \in Worker PROVE Held(w)'
  OBVIOUS
<1>1. CASE WorkerStep(w)
  BY <1>1, WorkerStaysHeld
<1>2. CASE Tick \/ UNCHANGED vars
  BY <1>2 DEF Tick, vars, Held, resultVars
<1>3. ASSUME NEW v \in Worker, v # w, WorkerStep(v) PROVE Held(w)'
  <2>1. /\ lease[EpochOf[w]].gen <= lease'[EpochOf[w]].gen
        /\ lease[EpochOf[w]].gen \in Nat /\ lease'[EpochOf[w]].gen \in Nat
    BY GenerationGrows, TypePreserved, ConstantsAssumption DEF TypeOK
  <2>2. mine[w] # Absent => mine[w].gen \in Nat
    BY FileFacts DEF TypeOK
  <2>3. /\ pc'[w] = pc[w] /\ seen'[w] = seen[w] /\ mine'[w] = mine[w]
        /\ receipt'[w] = receipt[w] /\ cleanup'[w] = cleanup[w]
    BY <1>3, OthersUnmoved
  <2>4. mine'[w] # Absent => mine'[w].epoch = EpochOf[w] /\ mine'[w].gen <= lease'[EpochOf[w]].gen
    BY <2>1, <2>2, <2>3 DEF Held
  <2> QED
    BY <2>3, <2>4 DEF Held
<1> QED
  BY <1>1, <1>2, <1>3, StepIsAWorkers

LEMMA HeldCorrect == Spec => [](\A w \in Worker : Held(w))
<1> DEFINE Inv == \A w \in Worker : Held(w)
<1>1. Init => Inv
  BY ZenonT(40) DEF Init, Held, Unclaimed, Holding
<1>2. TypeOK /\ Inv /\ [Next]_vars => Inv'
  BY HeldPreserved
<1> HIDE DEF Inv
<1>3. Spec => []Inv
  BY <1>1, <1>2, TypeCorrect, PTL DEF Spec
<1> QED
  BY <1>3 DEF Inv

\* A re-dispatched worker reconciles what its predecessor left without touching
\* the lease of its own epoch.
THEOREM OwnLeaseIsKept == Spec => ReconcileKeepsOwnLease
<1> DEFINE Step == \A w \in Worker :
       pc[w] \in {"reconcile", "status", "closeOut", "refuseOut", "sweep"} /\ pc'[w] # pc[w]
       => lease'[EpochOf[w]] = lease[EpochOf[w]]
<1>1. ASSUME TypeOK, \A w \in Worker : Held(w), Next PROVE Step
  <2> SUFFICES ASSUME NEW w \in Worker, pc'[w] # pc[w],
                      pc[w] \in {"reconcile", "status", "closeOut", "refuseOut", "sweep"}
               PROVE  lease'[EpochOf[w]] = lease[EpochOf[w]]
    OBVIOUS
  <2> USE DEF fabricVars, diskVars
  <2>1. WorkerStep(w)
    BY <1>1, OthersUnmoved, StepIsAWorkers DEF Tick, vars
  <2>2. CASE ReconcileCancel(w) \/ ReconcileRefuse(w)
    <3>1. seen[w].epoch # EpochOf[w] /\ EpochOf[w] \in Epoch
      BY <1>1, <2>2, ConstantsAssumption DEF Held, ReconcileCancel, ReconcileRefuse
    <3>2. UNCHANGED lease \/ \E s \in LeaseState : Open(seen[w]) /\ Sealed(seen[w], s)
      BY <2>2 DEF ReconcileCancel, ReconcileRefuse, SealAnswered, SealFailed, LeaseState
    <3>3. Open(seen[w]) => seen[w].epoch \in Epoch
      BY <1>1, FileFacts DEF Open, TypeOK
    <3> QED
      BY <1>1, <3>1, <3>2, <3>3 DEF Sealed, TypeOK
  <2>3. CASE Dispatch(w) \/ ReconcileRead(w) \/ ReconcileStatus(w) \/ Sweep(w) \/ Crash(w)
    BY <2>3 DEF Dispatch, ReconcileRead, ReconcileStatus, Sweep, Crash
  <2>4. CASE TurnReadsOrder(w) \/ Heartbeat(w) \/ Interrupt(w)
    BY <2>4 DEF TurnReadsOrder, Heartbeat, Interrupt
  <2>5. CASE \/ Claim(w) \/ PersistRead(w) \/ PersistWrite(w) \/ WriteWorkOrder(w) \/ Spawn(w)
             \/ TurnEnds(w) \/ CancelWork(w) \/ TypedRefusal(w) \/ GitHead(w)
             \/ CloseCandidate(w) \/ ClearLeaseState(w)
    BY <2>5 DEF Claim, PersistRead, PersistWrite, WriteWorkOrder, Spawn, TurnEnds, CancelWork,
                TypedRefusal, GitHead, CloseCandidate, ClearLeaseState
  <2> QED
    BY <2>1, <2>2, <2>3, <2>4, <2>5 DEF WorkerStep, Run
<1>2. TypeOK /\ (\A w \in Worker : Held(w)) /\ [Next]_vars => [Step]_vars
  BY <1>1
<1> QED
  BY <1>2, TypeCorrect, HeldCorrect, PTL DEF Spec, ReconcileKeepsOwnLease
-----------------------------------------------------------------------------
(* No orphan without a failure *)

\* While no call, write or spawn has failed, a worker that has ended holds a
\* token the fabric no longer accepts.
EndsSealed(w) == failures = 0 /\ pc[w] = "done" => ~Open(mine[w])

\* A worker that ends without a failure has no lease, has just sealed its own,
\* or found it sealed.
LEMMA WorkerEndsSealed ==
  ASSUME TypeOK, ReceiptAtEnd, NEW w \in Worker, Held(w), [Next]_vars, WorkerStep(w),
         failures' = 0, pc'[w] = "done"
  PROVE  mine'[w] = mine[w] /\ failures = 0
         /\ (pc[w] = "done" \/ ~Open(mine[w])
             \/ \E s \in TerminalState : Open(mine[w]) /\ Sealed(mine[w], s))
<1> USE DEF TypeOK, fabricVars, diskVars, resultVars, turnVars
<1>1. failures \in Nat /\ failures + 1 # 0
  BY ConstantsAssumption
<1>2. /\ "cancelled" \in TerminalState /\ "refused" \in TerminalState
      /\ "alive" \in TerminalState /\ "blocked" \in TerminalState
  BY DEF TerminalState, LeaseState
<1>3. ASSUME NEW s \in TerminalState, SealAnswered(mine[w], s) \/ SealFailed(mine[w], s)
      PROVE  failures = 0 /\ (~Open(mine[w]) \/ (Open(mine[w]) /\ Sealed(mine[w], s)))
  BY <1>1, <1>3 DEF SealAnswered, SealFailed, Fail
<1>4. CASE Dispatch(w) \/ ReconcileRead(w) \/ ReconcileStatus(w) \/ ReconcileCancel(w)
           \/ ReconcileRefuse(w)
  BY <1>4 DEF Dispatch, ReconcileRead, ReconcileStatus, Judge, ReconcileCancel, ReconcileRefuse
<1>5. CASE Sweep(w)
  BY <1>1, <1>5 DEF Sweep, ClearPath, Fail
<1>6. CASE Claim(w)
  <2>1. mine[w] = Absent
    BY <1>6 DEF Claim, Held, Unclaimed
  <2> QED
    BY <1>1, <1>6, <2>1 DEF Claim, Fail, Open
<1>7. CASE PersistRead(w) \/ PersistWrite(w) \/ WriteWorkOrder(w) \/ Spawn(w) \/ GitHead(w)
  BY <1>1, <1>7 DEF PersistRead, PersistWrite, AfterWrite, WriteWorkOrder, Spawn, GitHead, Fail
<1>8. CASE TurnReadsOrder(w) \/ Heartbeat(w) \/ TurnEnds(w) \/ Interrupt(w)
  BY <1>8 DEF TurnReadsOrder, Heartbeat, TurnEnds, Interrupt, Active, Stages
<1>9. CASE CancelWork(w)
  BY <1>9 DEF CancelWork, TakeReceipt
<1>10. CASE TypedRefusal(w)
  BY <1>2, <1>3, <1>10 DEF TypedRefusal
<1>11. CASE CloseCandidate(w)
  <2>1. \E s \in {"alive", "blocked"} : SealAnswered(mine[w], s) \/ SealFailed(mine[w], s)
    BY <1>11 DEF CloseCandidate
  <2> QED
    BY <1>2, <1>3, <1>11, <2>1 DEF CloseCandidate
<1>12. CASE ClearLeaseState(w)
  <2>1. receipt[w] /\ ~Open(mine[w])
    BY <1>12 DEF ClearLeaseState, Held, ReceiptAtEnd, Open, TerminalState
  <2> QED
    BY <1>1, <1>12, <2>1 DEF ClearLeaseState, Fail
<1>13. CASE Crash(w)
  BY <1>13 DEF Crash
<1> QED
  BY <1>4, <1>5, <1>6, <1>7, <1>8, <1>9, <1>10, <1>11, <1>12, <1>13 DEF WorkerStep, Run

\* A failure is never taken back.
LEMMA FailuresGrow == ASSUME TypeOK, [Next]_vars, failures' = 0 PROVE failures = 0
<1>1. failures \in Nat
  BY ConstantsAssumption DEF TypeOK
<1>2. UNCHANGED failures \/ failures' = failures + 1
  <2> USE DEF fabricVars
  <2>1. ASSUME NEW t, NEW s, SealAnswered(t, s) \/ SealFailed(t, s)
        PROVE  UNCHANGED failures \/ failures' = failures + 1
    BY <2>1 DEF SealAnswered, SealFailed, Fail
  <2>2. ASSUME NEW w \in Worker, \/ ReconcileCancel(w) \/ ReconcileRefuse(w) \/ CancelWork(w)
                                 \/ TypedRefusal(w) \/ CloseCandidate(w)
        PROVE  UNCHANGED failures \/ failures' = failures + 1
    BY <2>1, <2>2 DEF ReconcileCancel, ReconcileRefuse, CancelWork, TypedRefusal, CloseCandidate
  <2>3. ASSUME NEW w \in Worker, \/ Dispatch(w) \/ ReconcileRead(w) \/ ReconcileStatus(w)
                                 \/ Sweep(w) \/ Claim(w) \/ PersistRead(w) \/ PersistWrite(w)
        PROVE  UNCHANGED failures \/ failures' = failures + 1
    BY <2>3 DEF Dispatch, ReconcileRead, ReconcileStatus, Sweep, Claim, PersistRead,
                PersistWrite, Fail
  <2>4. ASSUME NEW w \in Worker, \/ WriteWorkOrder(w) \/ Spawn(w) \/ TurnReadsOrder(w)
                                 \/ Heartbeat(w) \/ TurnEnds(w) \/ Interrupt(w) \/ GitHead(w)
                                 \/ ClearLeaseState(w) \/ Crash(w)
        PROVE  UNCHANGED failures \/ failures' = failures + 1
    BY <2>4 DEF WriteWorkOrder, Spawn, TurnReadsOrder, Heartbeat, TurnEnds, Interrupt, GitHead,
                ClearLeaseState, Crash, Fail
  <2>5. CASE Tick \/ UNCHANGED vars
    BY <2>5 DEF Tick, vars
  <2> QED
    BY <2>2, <2>3, <2>4, <2>5 DEF Next, Run
<1> QED
  BY <1>1, <1>2

\* A worker that ends without any failed call, write or spawn has not left its
\* lease open, however many workers overlap and are killed.
THEOREM NoOrphan == Spec => []NoOrphanWithoutFailure
<1> DEFINE Inv == \A w \in Worker : EndsSealed(w)
           Base == ReceiptAtEnd /\ \A w \in Worker : Held(w)
<1>1. Init => Inv
  BY DEF Init, EndsSealed
<1>2. ASSUME TypeOK, Base, Inv, [Next]_vars, NEW w \in Worker PROVE EndsSealed(w)'
  <2> SUFFICES ASSUME failures' = 0, pc'[w] = "done" PROVE ~Open(mine[w])'
    BY DEF EndsSealed, Open
  <2>1. failures = 0
    BY <1>2, FailuresGrow
  <2>2. mine[w] \in LeaseFile /\ (mine[w] # Absent => mine[w].gen <= lease[mine[w].epoch].gen)
    BY <1>2 DEF TypeOK, Held
  <2>3. ASSUME mine'[w] = mine[w], ~Open(mine[w]) PROVE ~Open(mine[w])'
    BY <1>2, <2>2, <2>3, DeadTokenStays DEF Open
  <2>4. CASE WorkerStep(w)
    <3>1. /\ mine'[w] = mine[w]
          /\ (pc[w] = "done" \/ ~Open(mine[w])
              \/ \E s \in TerminalState : Open(mine[w]) /\ Sealed(mine[w], s))
      BY <1>2, <2>4, WorkerEndsSealed
    <3>2. ASSUME NEW s \in TerminalState, Open(mine[w]), Sealed(mine[w], s)
          PROVE  ~Open(mine[w])'
      BY <1>2, <2>2, <3>1, <3>2, FileFacts DEF Open, Sealed, TypeOK, TerminalState
    <3> QED
      BY <1>2, <2>1, <2>3, <3>1, <3>2 DEF EndsSealed
  <2>5. CASE ~WorkerStep(w)
    <3>1. mine'[w] = mine[w] /\ pc'[w] = pc[w]
      BY <1>2, <2>5, StepIsAWorkers, OthersUnmoved DEF Tick, vars
    <3> QED
      BY <1>2, <2>1, <2>3, <3>1 DEF EndsSealed
  <2> QED
    BY <2>4, <2>5
<1>3. TypeOK /\ Base /\ Inv /\ [Next]_vars => Inv'
  BY <1>2
<1>4. Init => Base
  BY DEF Init, Held, Unclaimed, Holding, ReceiptAtEnd
<1>5. TypeOK /\ Base /\ [Next]_vars => Base'
  BY ReceiptPreserved, HeldPreserved
<1>6. Inv => NoOrphanWithoutFailure
  BY DEF EndsSealed, NoOrphanWithoutFailure
<1> HIDE DEF Inv, Base
<1> QED
  BY <1>1, <1>3, <1>4, <1>5, <1>6, TypeCorrect, PTL DEF Spec
-----------------------------------------------------------------------------
(* Whose lease a file holds *)

(***************************************************************************)
(* claim_next is keyed by the worker id and the epoch: a lease is only     *)
(* ever given to one worker, however often that one is dispatched again.   *)
(***************************************************************************)
OneWorkerPerEpoch == \A v, w \in Worker : EpochOf[v] = EpochOf[w] => v = w

IsPathOf(p, w) == \E i \in DOMAIN LeaseFilePaths(w) : p = LeaseFilePaths(w)[i]

\* A file that holds a lease of a worker's epoch is at a path of that worker.
FilesOwn == \A p \in Path, w \in Worker : file[p].epoch = EpochOf[w] => IsPathOf(p, w)

LEMMA FilesOwnPreserved ==
  ASSUME OneWorkerPerEpoch, TypeOK, \A w \in Worker : Held(w), FilesOwn, [Next]_vars
  PROVE  FilesOwn'
<1>1. CASE UNCHANGED file
  <2> SUFFICES ASSUME NEW p \in Path, NEW w \in Worker, file'[p].epoch = EpochOf[w]
               PROVE  IsPathOf(p, w)
    BY DEF FilesOwn, IsPathOf, LeaseFilePaths
  <2>1. file[p].epoch = EpochOf[w]
    BY <1>1
  <2> QED
    BY <2>1 DEF FilesOwn
<1>2. ASSUME NEW v \in Worker, WorkerStep(v), ~UNCHANGED file PROVE FilesOwn'
  <2> DEFINE q == LeaseFilePaths(v)[idx[v]]
  <2>1. /\ idx[v] \in DOMAIN LeaseFilePaths(v)
        /\ \/ file' = [file EXCEPT ![q] = Absent]
           \/ pc[v] = "write" /\ file' = [file EXCEPT ![q] = mine[v]]
    BY <1>2, FileMoves
  <2>2. q \in Path
    BY <2>1, PathFacts
  <2>3. SUFFICES ASSUME NEW p \in Path, NEW w \in Worker, file'[p].epoch = EpochOf[w]
                 PROVE  IsPathOf(p, w)
    BY DEF FilesOwn, IsPathOf, LeaseFilePaths
  <2>4. CASE p # q
    BY <2>1, <2>2, <2>3, <2>4 DEF TypeOK, FilesOwn
  <2>5. CASE p = q
    <3>1. EpochOf[w] \in Epoch /\ EpochOf[w] # "none"
      BY ConstantsAssumption
    <3>2. pc[v] = "write" /\ file'[p] = mine[v]
      BY <2>1, <2>2, <2>3, <2>5, <3>1 DEF TypeOK, Absent
    <3>3. mine[v].epoch = EpochOf[v]
      BY <3>2 DEF Held, Holding
    <3> QED
      BY <2>1, <2>3, <2>5, <3>2, <3>3 DEF OneWorkerPerEpoch, IsPathOf
  <2> QED
    BY <2>4, <2>5
<1> QED
  BY <1>1, <1>2, StepIsAWorkers DEF Tick, vars, diskVars

-----------------------------------------------------------------------------
(* Clearing up after a receipt *)

\* While a worker clears its lease files, and after, none of those it has passed
\* holds its token; at the end that is every file there is.
ClearedUpTo(w) ==
  /\ pc[w] = "clear" =>
       \A i \in DOMAIN LeaseFilePaths(w) :
         i < idx[w] => ~SameToken(file[LeaseFilePaths(w)[i]], mine[w])
  /\ pc[w] = "done" /\ cleanup[w] => \A p \in Path : ~SameToken(file[p], mine[w])

\* The worker that clears removes what a path holds by then, and goes on to the next.
LEMMA WorkerClears ==
  ASSUME TypeOK, FilesOwn, NEW w \in Worker, Held(w), ClearedUpTo(w), [Next]_vars,
         ClearLeaseState(w)
  PROVE  ClearedUpTo(w)'
<1> DEFINE paths == LeaseFilePaths(w)
<1> USE DEF TypeOK, diskVars
<1>1. /\ idx[w] \in DOMAIN paths /\ DOMAIN paths = 1..Len(paths) /\ Len(paths) \in Nat
      /\ \A i \in DOMAIN paths : paths[i] \in Path
  BY PathFacts DEF ClearLeaseState
<1>2. mine'[w] = mine[w] /\ mine[w].epoch = EpochOf[w] /\ EpochOf[w] # "none"
  BY ConstantsAssumption DEF ClearLeaseState, Held, Holding
<1>3. CASE pc'[w] = "done" /\ ~cleanup'[w]
  BY <1>3 DEF ClearedUpTo
<1>4. CASE /\ file' = [file EXCEPT ![paths[idx[w]]] = Absent] /\ pc'[w] \in {"clear", "done"}
           /\ pc'[w] = "done" => idx[w] = Len(paths)
           /\ pc'[w] = "clear" => idx'[w] = idx[w] + 1
  <2>1. ~SameToken(file'[paths[idx[w]]], mine[w])
    BY <1>1, <1>2, <1>4 DEF SameToken, Absent
  <2>2. ASSUME NEW i \in DOMAIN paths, i < idx[w] + 1 PROVE ~SameToken(file'[paths[i]], mine[w])
    <3>1. CASE paths[i] = paths[idx[w]]
      BY <2>1, <3>1
    <3>2. CASE paths[i] # paths[idx[w]]
      <4>1. i # idx[w]
        BY <3>2
      <4>2. i < idx[w]
        BY <1>1, <2>2, <4>1
      <4>3. ~SameToken(file[paths[i]], mine[w])
        BY <4>2 DEF ClearedUpTo, ClearLeaseState
      <4> QED
        BY <1>1, <1>4, <3>2, <4>3
    <3> QED
      BY <3>1, <3>2
  <2>3. CASE pc'[w] = "clear"
    BY <1>2, <1>4, <2>2, <2>3 DEF ClearedUpTo, LeaseFilePaths
  <2>4. CASE pc'[w] = "done"
    <3> SUFFICES ASSUME NEW p \in Path PROVE ~SameToken(file'[p], mine[w])
      BY <1>2, <2>4 DEF ClearedUpTo, SameToken
    <3>1. CASE IsPathOf(p, w)
      <4>1. PICK i \in DOMAIN paths : p = paths[i]
        BY <3>1 DEF IsPathOf
      <4>2. i < idx[w] + 1
        BY <1>1, <1>4, <2>4
      <4> QED
        BY <2>2, <4>1, <4>2
    <3>2. CASE ~IsPathOf(p, w)
      <4>1. file[p].epoch # EpochOf[w]
        BY <3>2 DEF FilesOwn
      <4>2. p # paths[idx[w]]
        BY <1>1, <3>2 DEF IsPathOf
      <4> QED
        BY <1>1, <1>2, <1>4, <4>1, <4>2 DEF SameToken
    <3> QED
      BY <3>1, <3>2
  <2> QED
    BY <1>4, <2>3, <2>4
<1>5. ~cleanup[w] /\ pc[w] = "clear"
  BY DEF Held, ClearLeaseState
<1>6. CASE ClearPath(w, "done")
  BY <1>1, <1>4, <1>5, <1>6 DEF ClearPath
<1>7. CASE Goto(w, "done") /\ UNCHANGED cleanup
  BY <1>3, <1>5, <1>7
<1> QED
  BY <1>6, <1>7 DEF ClearLeaseState

LEMMA ClearedPreserved ==
  ASSUME OneWorkerPerEpoch, TypeOK, ReceiptAtEnd, FilesOwn, \A w \in Worker : Held(w) /\ ClearedUpTo(w),
         [Next]_vars
  PROVE  \A w \in Worker : ClearedUpTo(w)'
<1> SUFFICES ASSUME NEW w \in Worker PROVE ClearedUpTo(w)'
  OBVIOUS
<1> USE DEF TypeOK, fabricVars, diskVars, resultVars, turnVars
<1>1. CASE ClearLeaseState(w)
  BY <1>1, WorkerClears
<1>2. CASE CancelWork(w) \/ TypedRefusal(w) \/ CloseCandidate(w)
  <2>1. idx'[w] = 1 \/ pc'[w] # "clear"
    BY <1>2 DEF CancelWork, TypedRefusal, CloseCandidate, TakeReceipt, Rewind
  <2>2. ~cleanup[w] /\ cleanup'[w] = cleanup[w]
    BY <1>2 DEF Held, CancelWork, TypedRefusal, CloseCandidate
  <2>3. \A i \in DOMAIN LeaseFilePaths(w) : ~(i < 1)
    BY PathFacts
  <2> QED
    BY <2>1, <2>2, <2>3 DEF ClearedUpTo, LeaseFilePaths
<1>3. CASE \/ Dispatch(w) \/ ReconcileRead(w) \/ ReconcileStatus(w) \/ ReconcileCancel(w)
           \/ ReconcileRefuse(w) \/ Sweep(w) \/ Claim(w) \/ PersistRead(w)
  <2>1. ~cleanup[w]
    BY <1>3 DEF Held, Dispatch, ReconcileRead, ReconcileStatus, ReconcileCancel,
                ReconcileRefuse, Sweep, Claim, PersistRead
  <2>2. CASE \/ Dispatch(w) \/ ReconcileRead(w) \/ ReconcileStatus(w) \/ ReconcileCancel(w)
             \/ ReconcileRefuse(w)
    BY <2>1, <2>2 DEF ClearedUpTo, Dispatch, ReconcileRead, ReconcileStatus, Judge,
                      ReconcileCancel, ReconcileRefuse
  <2>3. CASE Sweep(w) \/ Claim(w) \/ PersistRead(w)
    BY <2>1, <2>3 DEF ClearedUpTo, Sweep, ClearPath, Claim, PersistRead
  <2> QED
    BY <1>3, <2>2, <2>3
<1>4. CASE \/ PersistWrite(w) \/ WriteWorkOrder(w) \/ Spawn(w) \/ TurnReadsOrder(w)
           \/ Heartbeat(w) \/ TurnEnds(w) \/ Interrupt(w) \/ GitHead(w)
  <2>1. pc'[w] # "clear" /\ ~cleanup[w] /\ cleanup'[w] = cleanup[w]
    BY <1>4 DEF Held, PersistWrite, AfterWrite, WriteWorkOrder, Spawn, TurnReadsOrder,
                Heartbeat, TurnEnds, Interrupt, Active, Stages, GitHead
  <2> QED
    BY <2>1 DEF ClearedUpTo
<1>5. CASE Crash(w)
  BY <1>5 DEF ClearedUpTo, Crash, Forget
<1>6. CASE Tick \/ UNCHANGED vars
  <2>1. UNCHANGED <<file, pc, idx, mine, cleanup>>
    BY <1>6 DEF Tick, vars
  <2> QED
    BY ZenonT(60), <2>1 DEF ClearedUpTo, LeaseFilePaths, SameToken
<1>7. ASSUME NEW v \in Worker, v # w, WorkerStep(v) PROVE ClearedUpTo(w)'
  <2>1. pc'[w] = pc[w] /\ idx'[w] = idx[w] /\ mine'[w] = mine[w] /\ cleanup'[w] = cleanup[w]
    BY <1>7, OthersUnmoved
  <2>2. CASE ~(pc[w] = "clear" \/ cleanup[w])
    BY <2>1, <2>2 DEF ClearedUpTo
  <2>3. CASE pc[w] = "clear" \/ (pc[w] = "done" /\ cleanup[w])
    <3>1. mine[w] # Absent
      BY <2>3 DEF Held, Holding, ReceiptAtEnd
    <3>2. mine[w].epoch = EpochOf[w] /\ EpochOf[w] # "none"
      BY <3>1, ConstantsAssumption DEF Held
    <3>3. ASSUME NEW p \in Path, ~SameToken(file[p], mine[w])
          PROVE  ~SameToken(file'[p], mine[w])
      <4>1. \/ UNCHANGED file
            \/ \E q \in Path : file' = [file EXCEPT ![q] = Absent]
            \/ pc[v] = "write" /\ \E q \in Path : file' = [file EXCEPT ![q] = mine[v]]
        BY <1>7, FileMoves, PathFacts
      <4>2. pc[v] = "write" => mine[v].epoch # mine[w].epoch
        BY <1>7, <3>2 DEF Held, Holding, OneWorkerPerEpoch
      <4> QED
        BY <3>2, <3>3, <4>1, <4>2 DEF SameToken, Absent
    <3>4. \A i \in DOMAIN LeaseFilePaths(w) : LeaseFilePaths(w)[i] \in Path
      BY PathFacts
    <3> QED
      BY <2>1, <3>3, <3>4 DEF ClearedUpTo, LeaseFilePaths
  <2> QED
    BY <2>2, <2>3 DEF Held
<1> QED
  BY <1>1, <1>2, <1>3, <1>4, <1>5, <1>6, <1>7, StepIsAWorkers DEF WorkerStep, Run

\* Once a worker has sealed its receipt and cleared up, no lease file anywhere
\* would arm the host gate with its terminal lease.
THEOREM NoGateIsLeft == ASSUME OneWorkerPerEpoch PROVE Spec => []ClosedLeavesNoGate
<1> DEFINE Inv == ReceiptAtEnd /\ FilesOwn /\ \A w \in Worker : Held(w) /\ ClearedUpTo(w)
<1>1. Init => Inv
  <2>1. Init => FilesOwn
    BY ConstantsAssumption DEF Init, FilesOwn, Absent
  <2> QED
    BY <2>1 DEF Init, ReceiptAtEnd, Held, Unclaimed, Holding, ClearedUpTo
<1>2. TypeOK /\ Inv /\ [Next]_vars => Inv'
  BY ReceiptPreserved, FilesOwnPreserved, HeldPreserved, ClearedPreserved
<1>3. Inv => ClosedLeavesNoGate
  BY DEF ClearedUpTo, ClosedLeavesNoGate
<1> HIDE DEF Inv
<1> QED
  BY <1>1, <1>2, <1>3, TypeCorrect, PTL DEF Spec
=============================================================================
