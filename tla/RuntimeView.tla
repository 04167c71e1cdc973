----------------------------- MODULE RuntimeView -----------------------------
(* What the TUI shows of the runtime while it keeps working: the execution   *)
(* mode and the clock of the turn (index.ts refreshRuntimeState and its      *)
(* timers, applyModeShortcut, switchPlan, applySettingCommand, session       *)
(* resets, turn-work-tracker.ts, runtime-poll.ts).  The TUI reads snapshots  *)
(* with calls that take time, so that a snapshot may be older than a switch  *)
(* the user has made or an event that has arrived since; settings are        *)
(* switched by calls of their own; the clock goes on after the turn's answer *)
(* as long as work the turn started is still running.                        *)
EXTENDS Naturals, FiniteSets

CONSTANTS
    Job,            \* background jobs
    MaxTurns,       \* bound on the turns
    MaxChanges      \* bound on the changes of the mode

ASSUME RuntimeViewAssumption == MaxTurns \in Nat \ {0} /\ MaxChanges \in Nat

VARIABLES
    runtime,     \* the runtime itself (what a snapshot is a copy of)
    label,       \* the mode shown, named by the change that made it
    stored,      \* runtimeProjection, the last snapshot applied
    touched,     \* executionStateRevision moved since the round in flight began
    switching,   \* settingSwitchInFlight, and how far the switch is
    reset,       \* a session reset reading the execution state
    refresh,     \* the run of refreshRuntimeState in flight
    timers,      \* which of the two timers are set
    work         \* TurnWorkTracker, with the clock it keeps running

viewVars == <<runtime, label, stored, touched, switching, reset, refresh, timers, work>>

NoTurn == 0                         \* turns are 1 .. MaxTurns
NoSnapshot == [mode |-> 0]

RefreshIdle == [stage |-> "idle", copy |-> NoSnapshot, again |-> FALSE, poll |-> FALSE]
NoSwitch == [stage |-> "none", result |-> 0]
NoWork == [running |-> FALSE, turn |-> NoTurn, foreground |-> FALSE, awaiting |-> FALSE,
           tool |-> FALSE, current |-> FALSE, jobs |-> {}]

ViewInit ==
    /\ runtime = [mode |-> 0, turn |-> NoTurn, turns |-> 0,
                  jobs |-> [j \in Job |-> "none"], owner |-> [j \in Job |-> NoTurn]]
    /\ label = 0 /\ stored = NoSnapshot /\ touched = FALSE
    /\ switching = NoSwitch /\ reset = NoSwitch
    /\ refresh = RefreshIdle
    /\ timers = {"poll"}
    /\ work = NoWork

----------------------------------------------------------------------------
(* TurnWorkTracker.  Work that is not active stops the clock for good.       *)

WorkActive(w) ==
    \/ w.foreground \/ w.awaiting \/ w.tool \/ w.current
    \/ w.jobs # {}

StopClock(w) == IF w.running /\ ~WorkActive(w) THEN NoWork ELSE w

(* (mutant) the answer goes on being awaited *)
StillAwaiting(w) == w.awaiting

AwaitingAfter(w) == w.awaiting /\ w.foreground

(* reconcile: a snapshot adds and removes jobs of this turn, and says        *)
(* whether the turn or a tool is active.                                     *)
Reconcile(w, snap) ==
    LET listed == {j \in Job : /\ snap.jobs[j] # "none"
                               /\ j \in w.jobs \/ snap.owner[j] = w.turn}
        active == {j \in listed : snap.jobs[j] = "running"}
    IN  IF ~w.running \/ snap = NoSnapshot THEN w
        ELSE StopClock([w EXCEPT
                !.jobs = (@ \ listed) \cup active,
                !.current = snap.turn # NoTurn /\ snap.turn = w.turn,
                !.tool = snap.turn # NoTurn,
                !.awaiting = AwaitingAfter(w)])

Accepts(w, turn) ==
    IF w.turn # NoTurn THEN turn = w.turn ELSE w.foreground \/ w.awaiting

----------------------------------------------------------------------------
(* Turns and jobs.  Events of the runtime reach the TUI in the step they     *)
(* happen; each schedules a refresh.                                         *)

Schedule == timers' = timers \cup {"refresh"}

(* beginTurn, and turn.started binding the runtime's turn.  A prompt waits   *)
(* for a submission in flight, a session reset among them.                   *)
BeginTurn ==
    /\ runtime.turn = NoTurn /\ ~work.foreground /\ runtime.turns < MaxTurns
    /\ reset = NoSwitch
    /\ runtime' = [runtime EXCEPT !.turn = runtime.turns + 1, !.turns = @ + 1]
    /\ work' = [NoWork EXCEPT !.running = TRUE, !.foreground = TRUE,
                              !.turn = runtime.turns + 1]
    /\ timers' = {"poll", "refresh"}
    /\ UNCHANGED <<label, stored, touched, switching, reset, refresh>>

JobStarts(j) ==
    /\ runtime.turn # NoTurn /\ runtime.jobs[j] = "none"
    /\ runtime' = [runtime EXCEPT !.jobs[j] = "running", !.owner[j] = runtime.turn]
    /\ work' = IF work.running /\ Accepts(work, runtime.turn)
               THEN [work EXCEPT !.jobs = @ \cup {j}] ELSE work
    /\ Schedule
    /\ UNCHANGED <<label, stored, touched, switching, reset, refresh>>

JobEnds(j) ==
    /\ runtime.jobs[j] = "running"
    /\ runtime' = [runtime EXCEPT !.jobs[j] = "ended"]
    /\ work' = IF work.running THEN StopClock([work EXCEPT !.jobs = @ \ {j}]) ELSE work
    /\ Schedule
    /\ UNCHANGED <<label, stored, touched, switching, reset, refresh>>

(* Leaving plan mode, for instance: the runtime changes the mode in a turn.  *)
RuntimeChangesMode ==
    /\ runtime.turn # NoTurn /\ runtime.mode < MaxChanges
    /\ runtime' = [runtime EXCEPT !.mode = @ + 1]
    /\ Schedule
    /\ UNCHANGED <<label, stored, touched, switching, reset, refresh, work>>

(* finishTurn, after an answer or a cancellation.                            *)
FinishTurn(cancelled) ==
    /\ work.foreground
    /\ runtime' = [runtime EXCEPT !.turn = NoTurn]
    /\ work' = IF cancelled THEN NoWork
               ELSE StopClock([work EXCEPT !.foreground = FALSE, !.awaiting = TRUE])
    /\ timers' = {"poll", "refresh"}
    /\ UNCHANGED <<label, stored, touched, switching, reset, refresh>>

----------------------------------------------------------------------------
(* refreshRuntimeState: one run at a time, which goes round again when it is *)
(* asked to meanwhile or when the execution state was touched while it read. *)
(* A poll that finds a run in flight sets its timer again at once.           *)

StartRun(byPoll) ==
    IF refresh.stage # "idle"
    THEN refresh' = [refresh EXCEPT !.again = TRUE] /\ UNCHANGED touched
    ELSE /\ refresh' = [RefreshIdle EXCEPT !.stage = "asked", !.poll = byPoll]
         /\ touched' = FALSE

TimerFires(t) ==
    /\ t \in timers
    /\ StartRun(t = "poll")
    /\ timers' = IF t = "poll" /\ refresh.stage # "idle" THEN timers ELSE timers \ {t}
    /\ UNCHANGED <<runtime, label, stored, switching, reset, work>>

RuntimeReads ==
    /\ refresh.stage = "asked"
    /\ refresh' = [refresh EXCEPT !.stage = "answered", !.copy = runtime]
    /\ UNCHANGED <<runtime, label, stored, touched, switching, reset, timers, work>>

(* The end of a round: another one, or the end of the run, after which a     *)
(* poll sets its timer again.                                                *)
EndRound(again) ==
    /\ touched' = FALSE
    /\ IF again
       THEN /\ refresh' = [refresh EXCEPT !.stage = "asked", !.copy = NoSnapshot, !.again = FALSE]
            /\ UNCHANGED timers
       ELSE /\ refresh' = RefreshIdle
            /\ timers' = IF refresh.poll THEN timers \cup {"poll"} ELSE timers

Outdated == touched

(* The round applies a snapshot when it differs from the stored one or when  *)
(* the todos, which are read along with it, are others (runtimePollState-    *)
(* Changed), and shows its mode only while no setting is being switched.     *)
ApplyProjection(snap, todosChanged) ==
    /\ stored' = snap
    /\ label' = IF /\ snap # NoSnapshot /\ switching = NoSwitch
                   /\ snap # stored \/ todosChanged
                THEN snap.mode ELSE label

(* The end of a round that leaves snap, with other todos or the same.        *)
RoundEnds(snap) ==
    /\ refresh.stage = "answered"
    /\ \/ /\ Outdated
          /\ EndRound(TRUE) /\ UNCHANGED <<label, stored, work>>
       \/ /\ ~Outdated
          /\ \E todosChanged \in BOOLEAN : ApplyProjection(snap, todosChanged)
          /\ work' = Reconcile(work, snap)
          /\ EndRound(refresh.again)
    /\ UNCHANGED <<runtime, switching, reset>>

SnapshotArrives == RoundEnds(refresh.copy)

(* A read that fails leaves the stored snapshot: that one is reconciled with *)
(* and, when the todos have changed, applied once more with the mode it has. *)
ReadFails == RoundEnds(stored)

----------------------------------------------------------------------------
(* Settings.  A switch of the mode or of plan marks the execution state      *)
(* before and after it; a switch of the model or the effort does not.        *)

(* A shortcut waits for the turn and for the reset in flight, /mode does not.*)
Touch == touched' = (refresh.stage # "idle")

ShortcutAvailable == reset = NoSwitch /\ ~work.foreground

StartSwitch(kind) ==
    /\ switching = NoSwitch
    /\ ShortcutAvailable \/ kind = "mode"
    /\ switching' = [stage |-> kind, result |-> 0]
    /\ IF kind = "other" THEN UNCHANGED touched ELSE Touch
    /\ UNCHANGED <<runtime, label, stored, reset, refresh, timers, work>>

(* switchPlan reads the execution state before it sets plan.                 *)
PlanRead ==
    /\ switching.stage = "plan"
    /\ switching' = [switching EXCEPT !.stage = "mode"]
    /\ label' = runtime.mode
    /\ UNCHANGED <<runtime, stored, touched, reset, refresh, timers, work>>

RuntimeSwitches ==
    /\ switching.stage = "mode" /\ runtime.mode < MaxChanges
    /\ runtime' = [runtime EXCEPT !.mode = @ + 1]
    /\ switching' = [stage |-> "switched", result |-> runtime.mode + 1]
    /\ UNCHANGED <<label, stored, touched, reset, refresh, timers, work>>

EndSwitch ==
    /\ switching' = NoSwitch
    /\ IF switching.stage = "other" THEN UNCHANGED <<touched, timers>>
       ELSE Touch /\ Schedule
    /\ UNCHANGED <<runtime, stored, reset, refresh, work>>

SwitchReturns ==
    /\ switching.stage = "switched"
    /\ label' = switching.result
    /\ EndSwitch

(* The call fails, or it was about another setting.                          *)
SwitchLeavesMode ==
    /\ switching.stage \in {"mode", "plan", "other"}
    /\ UNCHANGED label
    /\ EndSwitch

----------------------------------------------------------------------------
(* handleResult of a command that replaced the session: the execution state  *)
(* is touched, and then read.                                                *)
ResetSession ==
    /\ reset = NoSwitch /\ ~work.foreground /\ runtime.mode < MaxChanges
    /\ Touch
    /\ runtime' = [runtime EXCEPT !.mode = @ + 1]
    /\ reset' = [stage |-> "asked", result |-> 0]
    /\ UNCHANGED <<label, stored, switching, refresh, timers, work>>

ExecutionStateRead ==
    /\ reset.stage = "asked"
    /\ reset' = [stage |-> "answered", result |-> runtime.mode]
    /\ UNCHANGED <<runtime, label, stored, touched, switching, refresh, timers, work>>

RefreshExecutionState ==
    /\ reset.stage = "answered"
    /\ label' = reset.result
    /\ reset' = NoSwitch
    /\ UNCHANGED <<runtime, stored, touched, switching, refresh, timers, work>>

----------------------------------------------------------------------------
ViewNext ==
    \/ BeginTurn
    \/ \E j \in Job : JobStarts(j) \/ JobEnds(j)
    \/ RuntimeChangesMode
    \/ \E cancelled \in BOOLEAN : FinishTurn(cancelled)
    \/ \E t \in {"poll", "refresh"} : TimerFires(t)
    \/ RuntimeReads \/ SnapshotArrives \/ ReadFails
    \/ \E kind \in {"mode", "plan", "other"} : StartSwitch(kind)
    \/ PlanRead \/ RuntimeSwitches \/ SwitchReturns \/ SwitchLeavesMode
    \/ ResetSession \/ ExecutionStateRead \/ RefreshExecutionState

(* Timers fire, calls to the runtime in the same process return, and a read  *)
(* that is tried again and again does not fail for ever.                     *)
ViewFairness ==
    /\ \A t \in {"poll", "refresh"} : WF_viewVars(TimerFires(t))
    /\ WF_viewVars(RuntimeReads)
    /\ WF_viewVars(SnapshotArrives \/ ReadFails)
    /\ SF_viewVars(SnapshotArrives /\ ~touched)
    /\ WF_viewVars(SwitchReturns \/ SwitchLeavesMode)
    /\ WF_viewVars(ExecutionStateRead) /\ WF_viewVars(RefreshExecutionState)

ViewSpec == ViewInit /\ [][ViewNext]_viewVars /\ ViewFairness

----------------------------------------------------------------------------
(* No snapshot that arrives takes the mode on the screen back: one read      *)
(* before a switch the user made, before a reset or before a newer snapshot  *)
(* does not replace what those have shown (executionStateRevision,           *)
(* settingSwitchInFlight, one run at a time).  What may take it back is a    *)
(* read that fails while the todos change, which applies the stored snapshot *)
(* once more, or the late answer to a switch or to the reset of a session.   *)
SnapshotsNeverGoBack ==
    [][ /\ SnapshotArrives => label' >= label
        /\ label' < label => ReadFails \/ SwitchReturns \/ RefreshExecutionState ]_viewVars

(* The stored snapshot comes to hold the runtime's mode, and the clock of a  *)
(* turn stops once nothing the turn started is running any more, even when   *)
(* an old snapshot brought a finished job back: the poll goes on and         *)
(* corrects it, unless the user switches settings over and over again.  On   *)
(* the way no snapshot goes back.                                            *)
RuntimeQuiet == runtime.turn = NoTurn /\ \A j \in Job : runtime.jobs[j] # "running"

SwitchingForEver == []<><<\E kind \in {"mode", "plan", "other"} : StartSwitch(kind)>>_viewVars

ViewCatchesUp ==
    /\ SnapshotsNeverGoBack
    /\ \/ SwitchingForEver
       \/ /\ stored.mode # runtime.mode ~> stored.mode = runtime.mode
          /\ RuntimeQuiet ~> ~work.running \/ ~RuntimeQuiet
=============================================================================
