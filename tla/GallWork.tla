------------------------------ MODULE GallWork ------------------------------
(***************************************************************************)
(* The lease lifecycle of `zcode gall-work` (src/src/gall-work.ts):        *)
(*                                                                         *)
(*   reconcile -> claim -> persist -> work order -> construct -> close     *)
(*                                                                         *)
(* run by several worker processes that share a lease directory and an     *)
(* execution fabric, any of which may be killed between two awaits and     *)
(* dispatched again.  A step of a worker is what it does between two       *)
(* awaits; the fabric is external and modelled from the calls made to it.  *)
(***************************************************************************)
EXTENDS Integers, Sequences

CONSTANTS
  Worker,            \* dispatches: a worker id and an epoch, possibly re-dispatched
  Epoch,             \* epochs (work orders) of the fabric
  EpochOf,           \* [Worker -> Epoch]
  Dir, CwdOf,        \* directories, and the --cwd each worker is given
  Realpath,          \* [Dir -> Dir]: what realpathSafe returns
  Key, KeyOf,        \* XAAS_LEASE_ID suffixes; KeyOf[w] is the one in w's environment
  TTL,               \* lifetime the fabric gives a lease
  HeartbeatSeconds,  \* period of the heartbeat interval
  Overlap,           \* may the dispatcher run two workers at the same time?
  MaxClock, MaxFailures, MaxCrashes  \* bounds of a run

ASSUME ConstantsAssumption ==
  /\ EpochOf \in [Worker -> Epoch] /\ "none" \notin Epoch
  /\ CwdOf \in [Worker -> Dir] /\ Realpath \in [Dir -> Dir]
  /\ KeyOf \in [Worker -> Key]
  /\ TTL \in Nat \ {0} /\ HeartbeatSeconds \in Nat \ {0}
  /\ Overlap \in BOOLEAN
  /\ MaxClock \in Nat /\ MaxFailures \in Nat /\ MaxCrashes \in Nat

VARIABLES
  clock, failures, crashes,
  lease,         \* fabric: the lease of each epoch
  file,          \* lease files by path
  workOrder,     \* work-order files by directory: the epoch whose goal they carry
  pc,            \* the await each worker is suspended at
  idx,           \* position in the loop over the worker's lease paths
  seen,          \* the live lease file a worker is reconciling
  mine,          \* claimResult: the lease a worker claimed
  code,          \* `code` of the result document ("none" until one is decided)
  receipt,       \* does the result document carry a sealed receipt?
  cleanup,       \* `stages.cleanup.ok`
  cancelled,     \* cancelReason is set: by a signal or by the construct deadline
  exitCode,      \* how the runtime turn ended
  goal,          \* the epoch whose work order the runtime turn read
  beat           \* when the heartbeat timer last fired

fabricVars == <<lease, failures>>
diskVars   == <<file, workOrder>>
resultVars == <<code, receipt, cleanup>>
turnVars   == <<exitCode, goal, beat>>
vars == <<clock, failures, crashes, lease, file, workOrder, pc, idx, seen, mine,
          code, receipt, cleanup, cancelled, exitCode, goal, beat>>

Absent == [epoch |-> "none", gen |-> 0, expires |-> 0]
LeaseFile == [epoch: Epoch, gen: Nat, expires: Nat] \cup {Absent}
LeaseState == {"unclaimed", "open", "alive", "blocked", "refused", "cancelled"}
Path == Dir \X Key

Stages == {"reconcile", "status", "closeOut", "refuseOut", "sweep", "claim", "persist",
           "write", "order", "spawn", "construct", "cancel", "refuse", "head", "close", "clear"}
Codes == {"none", "claim_failed", "subject_mismatch", "lease_conflict", "persist_failed",
          "untyped", "spawn_failed", "cancelled", "head_unavailable", "close_failed", "closed"}

\* leaseFilePathsKeyed: the given directory, then its real path when it differs.
LeaseFilePaths(w) ==
  LET cwd == CwdOf[w]
      dirs == IF Realpath[cwd] = cwd THEN <<cwd>> ELSE <<cwd, Realpath[cwd]>>
  IN  [i \in DOMAIN dirs |-> <<dirs[i], KeyOf[w]>>]

WorkOrderPath(w) == Realpath[CwdOf[w]]

GraceMs == 2 * HeartbeatSeconds

\* isLiveLease: a token, and an expiry that has not passed.
IsLiveLease(f) == f # Absent /\ f.expires > clock
SameToken(f, g) == f.epoch = g.epoch /\ f.gen = g.gen

\* The fabric still accepts calls made with the token of f.
Open(f) ==
  /\ f # Absent
  /\ lease[f.epoch].state = "open"
  /\ lease[f.epoch].gen = f.gen
  /\ lease[f.epoch].expires > clock

Active(w) == pc[w] \in Stages
Goto(w, s) == pc' = [pc EXCEPT ![w] = s]
Fail == failures < MaxFailures /\ failures' = failures + 1

\* Decide the `code` of the result and go to stage s.
Conclude(w, c, s) == code' = [code EXCEPT ![w] = c] /\ Goto(w, s)

\* Each loop over leaseFilePaths starts at the first one.
Rewind(w) == idx' = [idx EXCEPT ![w] = 1]
-----------------------------------------------------------------------------
Init ==
  /\ clock = 0 /\ failures = 0 /\ crashes = 0
  /\ lease = [e \in Epoch |-> [state |-> "unclaimed", gen |-> 0, expires |-> 0]]
  /\ file = [p \in Path |-> Absent]
  /\ workOrder = [d \in Dir |-> "none"]
  /\ pc = [w \in Worker |-> "idle"]
  /\ idx = [w \in Worker |-> 1]
  /\ seen = [w \in Worker |-> Absent]
  /\ mine = [w \in Worker |-> Absent]
  /\ code = [w \in Worker |-> "none"]
  /\ receipt = [w \in Worker |-> FALSE]
  /\ cleanup = [w \in Worker |-> FALSE]
  /\ cancelled = [w \in Worker |-> FALSE]
  /\ exitCode = [w \in Worker |-> "none"]
  /\ goal = [w \in Worker |-> "none"]
  /\ beat = [w \in Worker |-> 0]

\* The memory of a process that starts, or of one that is gone.
Forget(w) ==
  /\ idx' = [idx EXCEPT ![w] = 1]
  /\ seen' = [seen EXCEPT ![w] = Absent]
  /\ mine' = [mine EXCEPT ![w] = Absent]
  /\ code' = [code EXCEPT ![w] = "none"]
  /\ receipt' = [receipt EXCEPT ![w] = FALSE]
  /\ cleanup' = [cleanup EXCEPT ![w] = FALSE]
  /\ cancelled' = [cancelled EXCEPT ![w] = FALSE]
  /\ exitCode' = [exitCode EXCEPT ![w] = "none"]
  /\ goal' = [goal EXCEPT ![w] = "none"]
  /\ beat' = [beat EXCEPT ![w] = 0]

\* The dispatcher starts a worker, or starts again one that was killed.
Dispatch(w) ==
  /\ pc[w] \in {"idle", "dead"}
  /\ Overlap \/ \A v \in Worker : ~Active(v)
  /\ Goto(w, "reconcile")
  /\ UNCHANGED <<clock, crashes, fabricVars, diskVars, idx, seen, mine, resultVars,
                 cancelled, turnVars>>

(***************************************************************************)
(* Calls to the fabric that seal the lease of token t in state s.  A call  *)
(* that fails was lost before or after the fabric acted on it, or was      *)
(* refused; the caller cannot tell which.                                  *)
(***************************************************************************)
Sealed(t, s) == lease' = [lease EXCEPT ![t.epoch].state = s]

\* (mutant) the `ok` of the answer is not looked at
SealUnchecked(t, s) == (Sealed(t, s) \/ UNCHANGED lease) /\ UNCHANGED failures

SealAnswered(t, s) == Open(t) /\ Sealed(t, s) /\ UNCHANGED failures
SealFailed(t, s) ==
  \/ Open(t) /\ Fail /\ (Sealed(t, s) \/ UNCHANGED lease)
  \/ ~Open(t) /\ UNCHANGED fabricVars
-----------------------------------------------------------------------------
(* reconcileLeaseWindow *)

\* Read the next lease file: nothing there, an expired one, or a live one.
ReconcileRead(w) ==
  /\ pc[w] = "reconcile"
  /\ IF idx[w] > Len(LeaseFilePaths(w))
     THEN Goto(w, "claim") /\ UNCHANGED <<idx, seen>>
     ELSE LET f == file[LeaseFilePaths(w)[idx[w]]] IN
          CASE f = Absent -> idx' = [idx EXCEPT ![w] = @ + 1] /\ UNCHANGED <<pc, seen>>
            [] f # Absent /\ ~IsLiveLease(f) ->
                 Rewind(w) /\ Goto(w, "sweep") /\ UNCHANGED seen
            [] IsLiveLease(f) ->
                 seen' = [seen EXCEPT ![w] = f] /\ Goto(w, "status") /\ UNCHANGED idx
  /\ UNCHANGED <<clock, crashes, fabricVars, diskVars, mine, resultVars, cancelled, turnVars>>

\* (mutant) the epoch of the file is not compared
PastGraceIsCrashed(w) == seen[w].expires - clock <= GraceMs

\* A live file the fabric did not call terminal is left alone when it is of our
\* own epoch or was refreshed recently; otherwise its worker counts as crashed.
CountsAsCrashed(w) ==
  /\ seen[w].epoch # EpochOf[w]
  /\ seen[w].expires - clock <= GraceMs

\* (mutant) a live lease is asked about again until it goes away
JudgeAgain(w) == IF CountsAsCrashed(w) THEN "closeOut" ELSE "reconcile"

Judge(w) == IF CountsAsCrashed(w) THEN "closeOut" ELSE "claim"

ReconcileStatus(w) ==
  /\ pc[w] = "status"
  /\ \/ ~Open(seen[w]) /\ Rewind(w) /\ Goto(w, "sweep") /\ UNCHANGED failures
     \/ Open(seen[w]) /\ Goto(w, Judge(w)) /\ UNCHANGED <<idx, failures>>
     \/ Fail /\ Goto(w, Judge(w)) /\ UNCHANGED idx
  /\ UNCHANGED <<clock, crashes, lease, diskVars, seen, mine, resultVars, cancelled, turnVars>>

ReconcileCancel(w) ==
  /\ pc[w] = "closeOut"
  /\ Rewind(w)
  /\ \/ SealAnswered(seen[w], "cancelled") /\ Goto(w, "sweep")
     \/ SealFailed(seen[w], "cancelled") /\ Goto(w, "refuseOut")
  /\ UNCHANGED <<clock, crashes, diskVars, seen, mine, resultVars, cancelled, turnVars>>

ReconcileRefuse(w) ==
  /\ pc[w] = "refuseOut"
  /\ \/ SealAnswered(seen[w], "refused") /\ Goto(w, "sweep")
     \/ SealFailed(seen[w], "refused") /\ Goto(w, "claim")
  /\ UNCHANGED <<clock, crashes, diskVars, idx, seen, mine, resultVars, cancelled, turnVars>>

\* (mutant) only the first path is removed
ClearFirstPath(w, next) ==
  file' = [file EXCEPT ![LeaseFilePaths(w)[idx[w]]] = Absent] /\ Goto(w, next) /\ UNCHANGED idx

\* One iteration of clearLeaseFiles: remove a path, whatever it holds by now.
ClearPath(w, next) ==
  LET paths == LeaseFilePaths(w) IN
  /\ file' = [file EXCEPT ![paths[idx[w]]] = Absent]
  /\ IF idx[w] = Len(paths)
     THEN Goto(w, next) /\ UNCHANGED idx
     ELSE idx' = [idx EXCEPT ![w] = @ + 1] /\ UNCHANGED pc

\* The sweep is outside every try: an error of rm rejects run().
Sweep(w) ==
  /\ pc[w] = "sweep"
  /\ \/ ClearPath(w, "claim") /\ UNCHANGED <<failures, code>>
     \/ Fail /\ Conclude(w, "untyped", "done") /\ UNCHANGED <<file, idx>>
  /\ UNCHANGED <<clock, crashes, lease, workOrder, seen, mine, receipt, cleanup,
                 cancelled, turnVars>>
-----------------------------------------------------------------------------
(* run() from the claim to the end of the turn *)

\* claim_next: a new lease, or the one still open for the same idempotency key.
Grant(e) ==
  /\ \/ lease[e].state = "unclaimed"
     \/ lease[e].state = "open"
  /\ lease' = IF lease[e].state = "open" /\ lease[e].expires > clock
              THEN lease
              ELSE [lease EXCEPT ![e] = [state |-> "open", gen |-> @.gen + 1,
                                         expires |-> clock + TTL]]

Claim(w) ==
  LET e == EpochOf[w]
      granted == [epoch |-> e, gen |-> lease'[e].gen, expires |-> lease'[e].expires] IN
  /\ pc[w] = "claim"
  /\ Rewind(w)
  /\ \/ /\ Grant(e) /\ mine' = [mine EXCEPT ![w] = granted]
        /\ \/ Goto(w, "persist") /\ UNCHANGED <<code, failures>>
           \/ Conclude(w, "subject_mismatch", "refuse") /\ Fail
     \/ Grant(e) /\ Conclude(w, "claim_failed", "done") /\ Fail /\ UNCHANGED mine
     \/ /\ IF lease[e].state \in {"unclaimed", "open"} THEN Fail ELSE UNCHANGED failures
        /\ Conclude(w, "claim_failed", "done") /\ UNCHANGED <<lease, mine>>
  /\ seen' = [seen EXCEPT ![w] = Absent]
  /\ UNCHANGED <<clock, crashes, diskVars, receipt, cleanup, cancelled, turnVars>>

\* saveLeaseFiles, first half of an iteration: read the path and apply the guard.
PersistRead(w) ==
  LET f == file[LeaseFilePaths(w)[idx[w]]] IN
  /\ pc[w] = "persist"
  /\ IF IsLiveLease(f) /\ ~SameToken(f, mine[w])
     THEN Conclude(w, "lease_conflict", "refuse")
     ELSE Goto(w, "write") /\ UNCHANGED code
  /\ UNCHANGED <<clock, crashes, fabricVars, diskVars, idx, seen, mine, receipt, cleanup,
                 cancelled, turnVars>>

\* (mutant) the loop over the paths returns after its first write
AfterFirstWrite(w) == "order"

AfterWrite(w) == IF idx[w] = Len(LeaseFilePaths(w)) THEN "order" ELSE "persist"

\* Second half: write the path, or fail to.
PersistWrite(w) ==
  /\ pc[w] = "write"
  /\ \/ /\ file' = [file EXCEPT ![LeaseFilePaths(w)[idx[w]]] = mine[w]]
        /\ idx' = [idx EXCEPT ![w] = @ + 1]
        /\ Goto(w, AfterWrite(w))
        /\ UNCHANGED <<failures, code>>
     \/ Fail /\ Conclude(w, "persist_failed", "refuse") /\ UNCHANGED <<file, idx>>
  /\ UNCHANGED <<clock, crashes, lease, workOrder, seen, mine, receipt, cleanup,
                 cancelled, turnVars>>

\* writeWorkOrder is outside every try: its error rejects run().
WriteWorkOrder(w) ==
  /\ pc[w] = "order"
  /\ \/ /\ workOrder' = [workOrder EXCEPT ![WorkOrderPath(w)] = EpochOf[w]]
        /\ Goto(w, "spawn") /\ UNCHANGED <<failures, code>>
     \/ Fail /\ Conclude(w, "untyped", "done") /\ UNCHANGED workOrder
  /\ UNCHANGED <<clock, crashes, lease, file, idx, seen, mine, receipt, cleanup,
                 cancelled, turnVars>>

\* runConstruct: spawn the runtime and arm the heartbeat interval.
Spawn(w) ==
  /\ pc[w] = "spawn"
  /\ \/ Goto(w, "construct") /\ UNCHANGED <<failures, code>>
     \/ Fail /\ Conclude(w, "spawn_failed", "refuse")
  /\ beat' = [beat EXCEPT ![w] = clock]
  /\ UNCHANGED <<clock, crashes, lease, diskVars, idx, seen, mine, receipt, cleanup,
                 cancelled, exitCode, goal>>

\* The turn reads the work order its prompt names.
TurnReadsOrder(w) ==
  /\ pc[w] = "construct" /\ goal[w] = "none"
  /\ goal' = [goal EXCEPT ![w] = workOrder[WorkOrderPath(w)]]
  /\ UNCHANGED <<clock, crashes, fabricVars, diskVars, pc, idx, seen, mine, resultVars,
                 cancelled, exitCode, beat>>

\* The interval fires: the fabric renews the lease; nothing else records it.
Heartbeat(w) ==
  /\ pc[w] = "construct" /\ beat[w] < clock
  /\ beat' = [beat EXCEPT ![w] = clock]
  /\ LET renew == lease' = [lease EXCEPT ![mine[w].epoch].expires = clock + TTL] IN
     \/ Open(mine[w]) /\ renew /\ UNCHANGED failures
     \/ Open(mine[w]) /\ Fail /\ (renew \/ UNCHANGED lease)
     \/ ~Open(mine[w]) /\ UNCHANGED fabricVars
  /\ UNCHANGED <<clock, crashes, diskVars, pc, idx, seen, mine, resultVars, cancelled,
                 exitCode, goal>>

\* The runtime exits; a cancelled turn takes precedence over how it exited.
TurnEnds(w) ==
  /\ pc[w] = "construct"
  /\ \E c \in {"zero", "nonzero"} : exitCode' = [exitCode EXCEPT ![w] = c]
  /\ IF cancelled[w]
     THEN Conclude(w, "cancelled", "cancel")
     ELSE Goto(w, "head") /\ UNCHANGED code
  /\ cancelled' = [cancelled EXCEPT ![w] = FALSE]
  /\ goal' = [goal EXCEPT ![w] = "none"]
  /\ beat' = [beat EXCEPT ![w] = 0]
  /\ UNCHANGED <<clock, crashes, fabricVars, diskVars, idx, seen, mine, receipt, cleanup>>

\* onSignal (SIGINT, SIGTERM) and the construct deadline timer.  Nothing reads
\* cancelReason once the turn has ended, so later ones have no effect.
Interrupt(w) ==
  /\ Active(w) /\ pc[w] \notin {"cancel", "refuse", "head", "close", "clear"}
  /\ ~cancelled[w] /\ cancelled' = [cancelled EXCEPT ![w] = TRUE]
  /\ UNCHANGED <<clock, crashes, fabricVars, diskVars, pc, idx, seen, mine, resultVars, turnVars>>
-----------------------------------------------------------------------------
(* run() from the end of the turn to the result document *)

\* The receipt is sealed: put it in the result and clear the lease files.
TakeReceipt(w, c) ==
  /\ receipt' = [receipt EXCEPT ![w] = TRUE]
  /\ Rewind(w)
  /\ Conclude(w, c, "clear")

CancelWork(w) ==
  /\ pc[w] = "cancel"
  /\ \/ SealAnswered(mine[w], "cancelled") /\ TakeReceipt(w, code[w])
     \/ SealFailed(mine[w], "cancelled") /\ Goto(w, "refuse") /\ UNCHANGED <<receipt, idx, code>>
  /\ UNCHANGED <<clock, crashes, diskVars, seen, mine, cleanup, cancelled, turnVars>>

\* typedRefusal: the claim and persist stages clear no lease file afterwards,
\* and a subject mismatch does not report its receipt.
TypedRefusal(w) ==
  /\ pc[w] = "refuse"
  /\ \/ /\ SealAnswered(mine[w], "refused")
        /\ CASE code[w] = "subject_mismatch" -> Goto(w, "done") /\ UNCHANGED <<receipt, idx, code>>
             [] code[w] \in {"lease_conflict", "persist_failed"} ->
                  /\ receipt' = [receipt EXCEPT ![w] = TRUE]
                  /\ Goto(w, "done") /\ UNCHANGED <<idx, code>>
             [] OTHER -> TakeReceipt(w, code[w])
     \/ SealFailed(mine[w], "refused") /\ Goto(w, "done") /\ UNCHANGED <<receipt, idx, code>>
  /\ UNCHANGED <<clock, crashes, diskVars, seen, mine, cleanup, cancelled, turnVars>>

GitHead(w) ==
  /\ pc[w] = "head"
  /\ \/ Goto(w, "close") /\ UNCHANGED <<failures, code>>
     \/ Fail /\ Conclude(w, "head_unavailable", "refuse")
  /\ UNCHANGED <<clock, crashes, lease, diskVars, idx, seen, mine, receipt, cleanup,
                 cancelled, turnVars>>

CloseCandidate(w) ==
  LET outcome == IF exitCode[w] = "zero" THEN "alive" ELSE "blocked" IN
  /\ pc[w] = "close"
  /\ \/ SealAnswered(mine[w], outcome) /\ TakeReceipt(w, "closed")
     \/ SealFailed(mine[w], outcome) /\ Conclude(w, "close_failed", "done") /\ UNCHANGED <<receipt, idx>>
  /\ UNCHANGED <<clock, crashes, diskVars, seen, mine, cleanup, cancelled, turnVars>>

\* clearLeaseState: an error of rm ends the loop and is only reported.
ClearLeaseState(w) ==
  /\ pc[w] = "clear"
  /\ \/ /\ ClearPath(w, "done") /\ UNCHANGED failures
        /\ cleanup' = [cleanup EXCEPT ![w] = pc'[w] = "done"]
     \/ Fail /\ Goto(w, "done") /\ UNCHANGED <<file, idx, cleanup>>
  /\ UNCHANGED <<clock, crashes, lease, workOrder, seen, mine, code, receipt, cancelled, turnVars>>

\* The process is killed: its files and its lease stay as they are.
Crash(w) ==
  /\ Active(w) /\ crashes < MaxCrashes
  /\ crashes' = crashes + 1
  /\ Goto(w, "dead")
  /\ Forget(w)
  /\ UNCHANGED <<clock, fabricVars, diskVars>>

\* Time passes, but not beyond the next heartbeat of a turn that is running.
Tick ==
  /\ clock < MaxClock
  /\ \A w \in Worker : pc[w] = "construct" => clock < beat[w] + HeartbeatSeconds
  /\ clock' = clock + 1
  /\ UNCHANGED <<failures, crashes, lease, diskVars, pc, idx, seen, mine, resultVars,
                 cancelled, turnVars>>
-----------------------------------------------------------------------------
\* What worker w does when it runs.
Run(w) ==
  \/ ReconcileRead(w) \/ ReconcileStatus(w) \/ ReconcileCancel(w) \/ ReconcileRefuse(w)
  \/ Sweep(w) \/ Claim(w) \/ PersistRead(w) \/ PersistWrite(w) \/ WriteWorkOrder(w)
  \/ Spawn(w) \/ TurnEnds(w) \/ CancelWork(w) \/ TypedRefusal(w) \/ GitHead(w)
  \/ CloseCandidate(w) \/ ClearLeaseState(w)

Next ==
  \/ \E w \in Worker : \/ Dispatch(w) \/ Run(w) \/ TurnReadsOrder(w) \/ Heartbeat(w)
                       \/ Interrupt(w) \/ Crash(w)
  \/ Tick

Spec == Init /\ [][Next]_vars
-----------------------------------------------------------------------------
(* Properties *)

TypeOK ==
  /\ clock \in 0..MaxClock /\ failures \in 0..MaxFailures /\ crashes \in 0..MaxCrashes
  /\ lease \in [Epoch -> [state: LeaseState, gen: Nat, expires: Nat]]
  /\ file \in [Path -> LeaseFile] /\ workOrder \in [Dir -> Epoch \cup {"none"}]
  /\ pc \in [Worker -> Stages \cup {"idle", "dead", "done"}]
  /\ idx \in [Worker -> 1..3]
  /\ \A w \in Worker : pc[w] \in {"refuseOut", "sweep", "persist", "write", "clear"} =>
                          idx[w] \in DOMAIN LeaseFilePaths(w)
  /\ seen \in [Worker -> LeaseFile] /\ mine \in [Worker -> LeaseFile]
  /\ code \in [Worker -> Codes]
  /\ receipt \in [Worker -> BOOLEAN] /\ cleanup \in [Worker -> BOOLEAN]
  /\ cancelled \in [Worker -> BOOLEAN]
  /\ exitCode \in [Worker -> {"none", "zero", "nonzero"}]
  /\ goal \in [Worker -> Epoch \cup {"none"}]
  /\ beat \in [Worker -> 0..MaxClock]

\* A result that carries a receipt is about a lease the fabric holds terminal
\* ("any sealed receipt is exit 0 -- the epoch is terminal").
ReceiptMeansTerminal ==
  \A w \in Worker : receipt[w] =>
    lease[mine[w].epoch].state \notin {"unclaimed", "open"} /\ ~Open(mine[w])

\* Once a worker has sealed its receipt and cleared up, no lease file is left
\* that would arm the host gate with its terminal lease.
ClosedLeavesNoGate ==
  \A w \in Worker : pc[w] = "done" /\ cleanup[w] =>
    \A p \in Path : ~SameToken(file[p], mine[w])

\* While the runtime turn runs, every lease file the gate could look up for
\* this worker's directory holds the lease the worker claimed.
ArmedWhileConstructing ==
  \A w \in Worker : pc[w] = "construct" =>
    \A i \in DOMAIN LeaseFilePaths(w) : file[LeaseFilePaths(w)[i]] = mine[w]

\* A worker that ends without any failed call, write or spawn has not left its
\* lease open: cancelled, refused in conflict or closed, it is never an orphan.
NoOrphanWithoutFailure ==
  failures = 0 => \A w \in Worker : pc[w] = "done" => ~Open(mine[w])

\* Reconciliation never closes out the lease of a turn that is running.
CloseOutSparesTheLiving ==
  [][\A w, v \in Worker :
       /\ pc[w] \in {"closeOut", "refuseOut"} /\ pc'[w] # pc[w] /\ lease' # lease
       /\ pc[v] = "construct"
       => ~SameToken(mine[v], seen[w])]_vars

\* A re-dispatched worker reconciles what its predecessor left without touching
\* the lease of its own epoch, so it can claim it again.
ReconcileKeepsOwnLease ==
  [][\A w \in Worker :
       pc[w] \in {"reconcile", "status", "closeOut", "refuseOut", "sweep"} /\ pc'[w] # pc[w]
       => lease'[EpochOf[w]] = lease[EpochOf[w]]]_vars

\* Every dispatch ends, across crashes and lost calls, and in a typed result
\* document unless a call or a write of it failed: an error of the sweep or of
\* the work order is in no try block and rejects run() without a document.
EveryDispatchConcludes ==
  \A w \in Worker :
    <>(pc[w] = "done" /\ (code[w] \in {"none", "untyped"} => failures > 0))

\* The turn of a worker reads the goal that worker claimed: its prompt calls
\* the file at workOrderPath "your work order".
TurnReadsItsOwnOrder == \A w \in Worker : goal[w] \in {"none", EpochOf[w]}
=============================================================================
