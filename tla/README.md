# A TLA+ model of zcode-cli

This directory holds TLA+ modules that model the stateful parts of zcode-cli,
TLC configurations that model-check them on small instances, and TLAPS proofs of
the main results for every value of the constants. Paths below are relative to
the repository root.

## 1. The system

zcode-cli launches a vendored agent runtime behind a terminal user interface,
and runs as a worker of a work fabric (XaaS) that hands out leases on work.

| Component | State | Operations | Talks to | What is hard | What makes it correct |
|---|---|---|---|---|---|
| gall-work (`src/gall-work.ts`) | lease files (by directory, real path and `XAAS_LEASE_ID`), a work-order file, the result document | reconcile, claim, persist, construct, heartbeat, cancel, refuse, close, clear | fabric (HTTP), runtime (child process), host gate (through the lease files) | workers in the same directory, killed workers, lost answers, a lease that expires | a receipt only for a terminal lease; no orphaned lease; the gate armed during the turn and disarmed afterwards; a live worker's lease is not taken |
| relay admission (`src/relay-admission.ts`) | durable state file, lock file | admit, execute, acknowledge | other workers of the lease (through the two files) | stale locks, crash between admit and acknowledge, redelivery | commands acknowledged once and in order; identity of the pending one kept |
| concurrency cap and backoff (`src/provider-backoff.ts`) | slots in flight, queue of waiters | acquire, release, retry | every fabric call | a waiter woken in a later microtask | bound kept, no lost wakeup, first come first served |
| TUI turn loop (`packages/zcode-tui/src/index.ts`, `input-queue.ts`, `prompt-preflight.ts`) | draft, follow-up queue, pending steers, primary turn, handoffs | submit, steer, queue, edit, interrupt, drain | runtime (calls, events, answers) | everything is decided after an await; events, answers, aborts and typing interleave | no input lost, doubled or stranded; one primary turn |
| TUI turn bookkeeping (work tracker, permission queue, presentation registry, runtime poll, diff store, task center) | requests in line, what is shown of the runtime, changes of a turn, background tasks | request, answer, abort, poll, switch, report, hand off | turn loop, runtime, user | stale snapshots, aborts during a dialog, events heard on two channels | an approval is the user's; the screen catches up; what a task does in the background stays out of the transcript |
| TUI transcript and tool views (`transcript.ts`, `index.ts`, `assistant-stream.ts`, `thinking-view.ts`) | blocks, cursor, search, window; tool trees and groups; streamed texts | append, remove, navigate, place, regroup | stream events | tools named before their parents, parts taken back, blocks released under the reader | every tool on the screen once; positions move with their blocks; what was said is shown once |
| TUI rendering (`rich-markdown.ts`, `code-highlighter.ts`) | segments and pieces drawn so far; a cache and one growing source | append, rewrite, draw at a width | transcript | incremental drawing against whole drawing | the pieces give what the whole would give |
| OAuth callback (`src/darwin-oauth-callback.ts`, `src/zai-oauth.ts`) | the system's URL handler, a callback file, a recovery file | install, wait, restore | macOS, browser | crash between install and restore, two logins | the previous handler is restored |
| app-server client and plugin command (`src/app-server-client.ts`, `src/plugin-cli.ts`) | one request to a child process; the steps of a command | request, answer, overflow, abort, exit; preview, confirm, change | child process, user | a child that ignores the end of its input; an interrupt between steps | every request settles; nothing changed unasked; success means done |
| launcher, settings and migration (`src/launcher.ts`, `src/model-access.ts`, `src/runtime-config-bridge.ts`) | configuration and settings files, migration markers | migrate once, first-run wizard, save | other starts, user | two starts, a kill in the middle, an edit meanwhile | old files are imported once |
| OCEL tap and receipts (`src/ocel-tap.ts`, `src/generated/*`) | event buffer, event log, receipt chain | record, flush, append, seal, verify | the runtime's output, files | chunk boundaries, the end of the output, a kill between the files | the log holds every event once; only the chain the code wrote verifies |
| vendoring scripts (`scripts/sync-runtime.ts`, `build-release.ts`, `pack-release.ts`, checks) | `vendor/`, lock, version, release directory | sync, patch, check, pack | upstream bundle | a bundle that drifted, a kill between two writes | one finished runtime is packed; the patch report is true |
| execution provider registry (`src/execution-providers.ts`) | registry (data) | select, fail closed | gall-work | defaults and disabled entries | a disabled provider is never selected |
| update check (`src/update-check.ts`) | a cache file | check, expire | registry | concurrent writers | a stale entry is not used |
| sa2a runtime (`src/research-runtime/sa2a`) | attempt log | admit, select, fail over | providers | budget at its limit | attempts stay within the budget |

### How the parts interact

`gall-work` makes every fabric call through the concurrency cap and the backoff:
`FabricClient` models that path by itself, and `GallWork` sees a call as one step
that is answered, lost or refused. The lease files `gall-work` writes are read by
the host gate that runs inside the constructed turn; the model states what the
gate would find. Relay admission binds a command to a lease that gall-work holds
and shares nothing else with it. A plugin command makes a sequence of requests,
each to an app server of its own: `PluginCommand` extends `AppServerRequest`. The
launcher's recorder (`OcelRecorder`) and the receipts it writes (`ReceiptChain`)
meet in one file; the recorder's module takes the chain's verification as given.
The sync script applies the patches (`RuntimePatches`) in one step of
`SyncRuntime`, whose outcome is done or failed. The TUI calls the runtime and hears
its events; the runtime is not part of this repository and is the environment of
all TUI modules. Within the TUI the parts meet on one thread and hand each other
finished values: what the turn loop calls a turn is a turn of the task center, the
diff store and the permission queue, but none of them reads another's state.

## 2. Modules

Definitions marked `(mutant)` are wrong on purpose: each is a plausible bug in the
definition that follows it, and the property it is paired with in `PROJECT.json`
is violated when it takes that definition's place.

### The worker

**GallWork.** `pc[w]` names the await worker `w` is suspended at; a step is what the
code does up to the next one. `lease` is the fabric's record of each epoch, `file`
the lease files by path, `workOrder` the work-order file of each directory. The loops
over `leaseFilePathsKeyed` are unrolled into one step per path (`idx`), because
another worker can act in between. A call to the fabric has three outcomes: answered,
failed after the fabric acted, failed before (`SealAnswered`, `SealFailed`); the
caller cannot tell the last two apart. `Crash` kills a process between two awaits;
its files and lease stay and `Dispatch` may start the worker again.
`ReconcileRead`, `ReconcileStatus`, `ReconcileCancel`, `ReconcileRefuse`, `Sweep` are
`reconcileLeaseWindow` (663-744), where the first path with something in it decides;
`Claim` is the claim stage with its subject check and `Grant` the fabric, which
answers a repeated idempotency key with the open lease; `PersistRead`,
`PersistWrite` are `saveLeaseFiles`; `WriteWorkOrder`, `Spawn`, `TurnReadsOrder`,
`Heartbeat`, `TurnEnds`, `Interrupt` the construct stage (`Tick` never passes the next
heartbeat); `CancelWork`, `TypedRefusal`, `GitHead`, `CloseCandidate`,
`ClearLeaseState` the ways out. Left out: argument and descriptor parsing,
discovery, OCEL events, provider selection, evidence text.

**RelayLog, RelayAdmission.** An envelope is a command id, a sequence number, the rest
of its identity and the set of pure stages that find fault with it. `OpenLock`,
`WritePid`, `InspectLock`, `UnlinkStale`, `Unlock` are `withStateLock`:
`openSync("wx")`, the write of the pid, the read and the liveness probe of a lock that
exists, `unlinkSync` by name. The lock file remembers who created it, so that the pid
is written to the file that was opened and not to a later one of the same name.
`Load` and `AdmitDurable` or `AcknowledgeDurable` run under the lock; `Persist` is the
write and rename. `Stalls` says whether a live process may stay between the creation
of its lock and the write of its pid longer than the lock timeout; then its lock
counts as stale. `ImplementsLog` maps `acknowledged` to the acknowledged ids of the
state file and `pending` to its pending command.

**FabricClient.** `Acquire` is `acquire` up to its await; `Resume` its continuation in
a later microtask, which increments `inFlight` without looking at the limit again;
`Release` is the `finally` of `run`. `Saturated` and `Retry` are the bounded backoff,
during which the slot is kept. `Barging` says whether a call may begin between a
release and the resumption it causes. The delays are left out.

### The program around the runtime

**Startup.** Starts run side by side over one home directory and any of them may be
killed; a step touches one file. `Stat`, `Look`, `Link`, `LinkExists`, `Again`, `Finish`
are `ensureCliSettings` (a hard link is the commit), `Read`, `Mark` the pending mark,
`Providers` to `WriteProviderMarker` the migration of legacy providers, `SignIn` to
`WriteSettings` what wizard and login write. The user resets, breaks, repairs and
edits the files between any two steps.

**OcelRecorder, ReceiptChain.** A line of the runtime's output is written in two
pieces so that a chunk may end anywhere; `Fed` is the tap's buffer, `FinishLog` and
`FinishReceipt` the two files. In the chain a hash is the tuple of what it is computed
of; `Damaged` lists copies that lack an entry, have one rewritten or two exchanged.

**OAuthHandler.** Two logins and a recovery file over one URL handler, at the grain of
file and system calls. `Overlap` lets two logins run at a time, `QuietFailure` lets a
restoring call fail without a sign; both are FALSE in the run.

**AppServerRequest, PluginCommand.** A request ends with its answer, an overflow, an
abort or the exit of the child; `Stubborn` children ignore the signal to end and
are killed by force, `Lingers` lets a descendant keep the pipes open. A command is a fixed
sequence of requests (`Script`) with previews and a question before a change.

**RuntimePatches, SyncRuntime.** A bundle gives every place a patch looks at the form
it has there (shipped, doubled, gone, native, patched, half). Each patch is one
operator; `Apply`, `Verify`, `Kept` are the plan's apply twice, verify, keep.
`SyncRuntime` has a step per write of sync, build and pack, a kill between any two,
and a developer who edits and pulls while no script runs.

### The terminal

**TurnLoop.** The TUI runs on one thread: `call[c]` is the c-th call of `submit` and
`at` the await it is suspended at: `preflight` (validation), `prepare` (skills), `turn`
and `steering` (the runtime's answer), `login`. `command` is not an await: a slash command
runs from its call of `submit` to its first await, and what it does later (dialogs,
switches) touches no variable here, with one exception. A bare `/model`, `/effort` or
`/mcp` awaits its picker and, when there is nothing to pick, goes on in `submit`: that is
an outcome of `Command` that leads to `prepare`, from where a turn that has begun
meanwhile makes it a steer (`TuiOvertaken`). A submission's text is the sequence of inputs it
was joined from. Keyboard: `Type`, `Enter`, `QueueDraft` (Tab), `EditLatest` (Alt+Up),
`CtrlC`, `Esc`, `InterruptAnswered`. `submit`: `SubmitIn` (to its first await),
`Preflight`, `Prepared` with its outcomes `Steer`, `Postpone`, `Start`, and `Command`.
Runtime: `RuntimeStarts`, `RuntimeQueues`, `RuntimeRefuses`, `RuntimeDrains`,
`RuntimeDiscards`, `RuntimeEnds`, `HandoffBegins`, `HandoffEnds`, each with what
`onEvent` does when it hears of them. Answers: `SettleSteer`; `SettleTurn`, which is
the catch clause, `finishPrimaryTurnSubmission`, `requeuePendingSteers` and the
submission of the next follow-up up to its first await, since no await separates them.
`HandoffInterrupted`, `Drain`: the interruption of a background handoff and the
microtask that looks at the queue. Assumed of the runtime: its events reach `onEvent`
before the answer to the call they belong to; pending-input ids are unique and the
TUI always supplies them; a steer it accepted is given to the model only in the turn
it was meant for and is otherwise kept until it is promoted; a steer is answered
queued, rejected or with an error, never with `started_turn`; it has `sendInput` and
`interruptTurn`. Left out: the command queued by a selection dialog, attachments,
notifications, rewind, goal refresh, and the exit of the program.

**ToolTree.** The tool views of one turn. A view is `alone` (a block), in a `group` of
consecutive information tools, or in the tree of its parent; relations to tools not
yet seen wait. The operators are the handlers, each a function of the record of
all views: `UpdateToolView`, `EnsureToolView`, `SetToolParent`, `DetachToolFromLocation`,
`RemovePart`, `RemoveMessage`. Every handler runs to completion, so an event is a step.
`ToolSuppressed` is `suppressBackgroundToolTranscript`: an event that turns out to be a
background task's removes the block its tool is drawn in, that of the topmost ancestor or
of a whole group, and leaves the views in the registry. `dropped` holds the blocks taken
that way or by a removed message, which is where a tool may be off the screen.

**Transcript.** The list of blocks, the render window, the reading cursor, the search
and its matches (positions), the page within a block, the character budget. A block's
text is whether it matches the query and how many characters it has. `TextChanges` lets a
component change its text in place, in any way and without the search being told, as
`setText`, a revised part and a tool that leaves its group do.

**AssistantText, StreamTails.** What the model says and thinks: plain deltas or parts
of messages, sent again, changed and taken back, and a result that repeats some of
it. `StreamTails` is what is kept of an unbounded text: last lines of a thought, head
and rolling tail of an output, without parting a surrogate pair.

**TurnDiffs.** The changes of the latest turns within a budget of files, lines and
characters; a tool reports any number of times and its last report counts.

**PermissionDialogs.** A request is a whole interaction: a permission may go on to ask
for a reason, a plan's approval for instructions, a list of questions moves back and
forth. Requests queue; the abort of the turn settles the open dialog and every later
one of its requests.

**RuntimeView.** Snapshots are read by calls that take time, so that one may be older
than a switch or an event; settings are switched by calls of their own; the clock
goes on after the answer as long as work the turn started runs. `RoundEnds` is the end of
a round of `refreshRuntimeState`: with the snapshot that was read (`SnapshotArrives`) or,
when the read failed, with the stored one (`ReadFails`), which is applied once more when
the todos read beside it have changed.

**BackgroundTasks.** Every event comes on the session's subscription and during a turn
of the user also on that turn's stream, and may come again. The task center keeps
what autonomous tasks do, the transcript shows the rest.

**MarkdownView, CodeHighlight.** How an answer is drawn while it streams in, and how
code is highlighted while it grows. A line is its kind and its size; the row it is
drawn as carries the place and the width it was drawn for, so that a row kept from an
earlier rendering is seen to be stale. `Misdrawn` names the classes of segment which,
drawn in pieces at a width, differ from the whole: the code has to notice. Every
component of `rich-markdown.ts` that draws in pieces is a class of `ClassOf`: fences
highlighted line by line, as JSON in the container a line is in, or as a whole; fences,
lists and emphasis that crosses lines in quotations; flat, nested and loose lists;
tables and quotations. The grammars behind them (which line of Bash, Python or JSON can
be highlighted alone) are the kind of the line, and a segment has fewer than the 80
lines after which `renderWindow` draws it in chunks.

### Instances

`MCGallWork`, `MCRelayAdmission`, `MCFabricClient` and `MCTurnLoop` instantiate one
component. `MCGallWorkers` runs the two workers of `MCGallWork` both at the same time and
one after the other (`alone`), `MCLinks` relays commands by two workers at once or by one
at a time. `MCLinks` (`link`: workers, commands, calls, tails, diffs), `MCRecords` (`part`: start,
receipt, events, tools, transcript, patches, sync), `MCExchanges` (login, plugins,
dialogs, view, answer) and `MCTurnScreen` (turns, answer, code, tasks) put components
that share no state beside each other: each is explored with the others at rest in
one initial state, and only the moving one is fair. Since no action of one reads a
variable of another, this loses no behaviour of any of them.

## 3. Runs

Every property of a passing run has a mutant of the code that breaks it.

| Run | Instance | Shows |
|---|---|---|
| `GallWorkers` | two workers at the same time or one after the other, one directory, one given a symbolic link, shared files; 1 failed call, 1 crash when alone | receipts are terminal, closed leases leave no gate, the gate stays armed for a worker that is alone, no orphan without a failure, a re-dispatch keeps its own lease, every dispatch concludes, and in a typed document unless something failed |
| `GallReclaim` (violated) | the two at once, shared files | a healthy turn is taken for a crashed one |
| `GallOrders` (violated) | the two at once, a lease id each, no failure, no crash | a turn reads the other worker's work order |
| `RelayTakeover` (violated) | three processes, 1 crash | two under the lock |
| `RelaySpawn` (violated) | two processes at once, no crash | an acknowledged command spawns |
| `Links` | two relaying processes, six envelopes (retry, forged identity, competing id, reused id, faulty), 1 crash, at once or one at a time; four calls over two slots; long texts; two reporting tools | mutual exclusion, the state file always loads, executed implies acknowledged, refinement of `RelayLog`; one at a time a pending command is acknowledged in the end; the cap's bound and order, every call ends; what is kept of a text is its end; a turn's kept changes say what they lack |
| `FabricOvershoot` (violated) | five calls, two slots, with barging | the bound is exceeded |
| `TuiTurns` | three inputs, one a slash command, three calls, two turns, one handoff; answers, scripts and tasks | no input lost, doubled or sent twice, but for a command overtaken by a turn; one primary turn; only a slash command can strand a queue; the pieces draw what the whole would; background work stays in the task center |
| `TuiStranded` (violated) | the turn loop without handoffs | a queued command strands the inputs behind it |
| `TuiOvertaken` (violated) | the turn loop without handoffs | a slash command becomes a steer of a turn that began while its picker loaded |
| `Records` | two starts and 1 kill; chains of four entries; two recorders; three tools; four blocks; drifted bundles; sync and pack with kills | old files imported once; only the chain the code wrote verifies; log and receipt true; tools stay one tree; the reader keeps his place; the patch report is true; one runtime ships |
| `Exchanges` | two logins and 1 kill; plugin commands; three permission requests; a switch, a job and a turn; two messages | the handler comes back; nothing changed unasked; requests settle; approvals are genuine; an abort drains the line; the view catches up; what was said is shown once |

Deadlock is not checked: workers finish, inputs run out, and the bounds stop a run.

### Bounds

* `MaxClock`, `TTL`, `HeartbeatSeconds`: `GallReclaim` and `GallOrders` use `TTL = 3`, a
  heartbeat of 1 and a clock to 3: a lease can be fresh, inside the grace (2 heartbeats)
  and expired, and two heartbeats can renew it. `GallWorkers`, which also carries
  the liveness, uses 2, 1 and 2.
* `MaxFailures`, `MaxCrashes`: each property about failures has at most one to be about;
  the proofs have no such bound. In `GallWorkers` a worker is killed only when it is
  alone, and of two at the same time a call fails only before the clock's second tick,
  which keeps the run within minutes.
* Two workers: every hazard of the lifecycle is between two. Three processes are needed
  for `RelayTakeover`; the theorem shows that two without stalls are safe.
* A write of the pid may fail where commands are relayed one at a time; of two processes
  at once the lock then excludes no longer (section 5).
* Envelopes: two sequence numbers suffice for a gap, a replay and a competitor.
* Four calls over a limit of two (five with barging): a call in each slot, one woken,
  one behind it.
* `MaxCalls = 3`, `MaxTurns = 2`, `MaxHandoffs = 1`: a turn, a steer or follow-up that is
  requeued and submitted again, and an input that arrives meanwhile. A larger
  instance without slash commands (5.8 million states) gave the same result.
* Tails: `MaxText = 9` units in deltas of up to three with three retained lines of five characters and five
  retained characters of output: several times over every limit, with a pair on it.
* Diffs: two tools, two files, three lines, eight characters, one kept turn out of
  two; reports that fit, that exceed each limit, and that follow an exceeding one.
* Tools: three, two of them groupable, one message, two groups, one pending relation:
  a chain, a fork, a cycle to refuse, and a group that breaks. Blocks: four ids, a window
  of two, three retained.
* Chains of four entries with two subjects and two operations; `DamagedAt` tries every
  place. Recorders: two, of one session, two lines each, every cut.
* Bundles: the supported one, every one that differs in one place, and every pair over
  the sixteen places patches decide between. Releases: three, two platforms.
* Logins: two, two previous handlers, one failure, one crash, one choice of another
  handler by the user. Requests: a list of two questions (one multi-select), a plan, a
  tool outside the turn. View: one job, one turn, one change of mode.
* Answers: fifteen samples of line kinds, three to five lines, at most one rewrite, two
  widths, more pieces than a new component may have: every class of component is made
  and goes on. Scripts of three or four lines, cache of two entries. Said: two texts and two
  thoughts in two messages, four tokens. Tasks: two, one an agent, two tools,
  `MCStories` limits which events an instance may contain.

### Fairness

Only weak fairness of the program's own steps unless stated; steps of the
environment that nothing guarantees (crashes, failures, edits, aborts, new work) are
never fair.

* Worker: its own steps and its dispatch. Every fabric call carries
  `AbortSignal.timeout`, the construct deadline ends a turn, and the dispatcher queues
  what it has not dispatched. Heartbeats, interrupts and ticks are not fair.
* Relay: processes run; the relay redelivers an envelope until it is acknowledged; an
  execution, a write of the state file or of a pid, the inspection of a lock left by a dead
  process and a dispatch do not fail for ever (strong, since each try may fail).
* Fabric calls (`CallGoesOn`): a resolved promise resumes, a timer fires, a request
  ends. That new calls begin is not assumed.
* Login: the steps of one that runs, and that another is begun in the end: the
  recovery of a killed one is the next one's.
* App-server request: the pipes are read, the timers of an abort fire, the child ends when
  its input does and its outputs close with it (`~Lingers`). Not that it answers.
* Permission dialogs: only that a queued request is begun. The user owes no answer.
* View: timers fire and reads return; strong fairness of a snapshot that arrives with
  no switch under way, because a user may switch again and again
  (`SwitchingForEver` is excluded in the property itself).

## 4. Proofs

TLAPS checks these for every value of the constants; `PROJECT.json` lists them with the
properties they state. Each proof module extends the component's module.

### Results

| Module | Theorems | Hypotheses |
|---|---|---|
| `GallWorkProofs` | `TypeCorrect`, `ReceiptIsFinal`, `OwnLeaseIsKept`, `NoOrphan` | none |
| | `GateStaysArmed` | `PathsUnshared` |
| | `NoGateIsLeft` | `OneWorkerPerEpoch` |
| `LinksProofs` | `AdmissionTypeCorrect`, `CapTypeCorrect`, `NoLostWakeup` | none |
| | `LockExcludes`, `StateFileAlwaysLoads`, `RefinesLog`, `ExecutedImpliesAcknowledged` | `TakeoverUnshared` |
| | `NeverSpawnsAgain` | `~Overlap` |
| | `KeepsLimit`, `FirstComeFirstServed` | `~Barging` |
| `TurnLoopProofs` | `TypeCorrect`, `OneTurnAtATime`, `SteersBelongToATurn`, `NothingLostOrTwice`, `OnlyCommandsStrand` | none |
| `RecordsProofs` | `OldFilesAreImportedOnce`, `DamageIsDetected`, `EveryEventIsRecorded`, `OneRuntimeIsShipped` | none |
| | `PatchReportsAreTrue` | `DriftsAssumption` |
| | `RecordsAreTrue` | `~ConcurrentRuns` |
| `ExchangesProofs` | `NothingIsChangedUnasked`, `DialogsNeverOverlap`, `OnlyGenuineApprovals` | none |
| | `WhatIsSaidIsShown` | `TextAssumption` |
| `ScreenProofs` | `ReaderKeepsHisPlace` | none |
| | `ToolsStayATree` | `ToolTreeAssumption` |
| `MarkdownProofs` | `ScreenIsTheText` | `MarkdownAssumption` |
| `RetentionProofs` | `DiffsAreHonest` | `DiffsAssumption` |
| | `WhatIsKeptIsTheText` | `TailsAssumption` |

The hypotheses are those the code itself relies on, and where the code does not
guarantee one a run shows what happens without it:

* `PathsUnshared`: workers do not overlap, or no two of them share a path (an
  `XAAS_LEASE_ID` each). Without it: `GallReclaim`. What overlapping workers share even
  then, the work order, is in no theorem: `GallOrders`.
* `OneWorkerPerEpoch`: the idempotency key of a claim names worker and epoch, and the
  fabric answers a repeated key with the open lease. Two workers of one epoch are two
  processes with one identity, which the dispatcher does not start.
* `TakeoverUnshared`: commands are handled one at a time, or no live process stalls, no
  write of a pid fails, and there are no crashes or at most two processes. Without it:
  `RelayTakeover`.
* `~Overlap` in `NeverSpawnsAgain`: without it `RelaySpawn`. `~Barging`: without it
  `FabricOvershoot`. `~ConcurrentRuns`: one session, one launcher at a time.
* `DriftsAssumption`: a bundle to be patched is not patched, and upstream says by itself
  what a patch would put there only where that is not a name this repository made up.
* `ToolTreeAssumption`: finitely many tools, those that may be grouped among them; a
  group's name is not a tool's.
* `MarkdownAssumption`: lines are of the kinds the grammar knows, a width is positive, and a
  component that goes on may have at least the pieces a new one may have
  (`maxInitialStreamingStableChunks <= maxStreamingStructuredLines`).
* `TextAssumption`: parts of texts and of thoughts have names of their own.
  `DiffsAssumption`: reports are lists of files, and a budget leaves room for one of each.
  `TailsAssumption`: a thought may keep a line and a character, an output a character
  (`Math.max(1, ...)` in the constructor).

### Arguments

**GallWork.** `TypeCorrect` needs that `idx` stays within the paths wherever one is read,
which is why `Rewind` matters. `ReceiptIsFinal` adds that terminal states are final.
`GateStaysArmed` follows the persist loop (`ArmedInv`): all paths before `idx` hold the
worker's lease. `NoOrphan` rests on `DeadTokenStays`: a token the fabric has given up on
is never accepted again, by the lease's generation and the clock; with it every way out
of a worker (`EndsSealed`) goes through a token that is closed or dead, unless a call,
a write or the spawn failed. `NoGateIsLeft` says which worker a token in a file belongs
to (`FilesOwn`), that one with a receipt has swept all paths before `idx` (`ClearedUpTo`)
and that nobody else still holds its token in order to write it (`Held`).

**Links.** Relay admission: `LockInv` says that whoever holds the lock is named by the lock file
and that a process about to unlink a stale lock is alone (a lock whose pid could not be
written is held by nobody: `UnwrittenIsHeld`); `StateInv` that a state loaded
under the lock is still the durable one when it is committed. `RefinesLog` maps each
step to one of `RelayLog` or a stutter.

Fabric client: `NoLostWakeup` holds with or without barging; `KeepsLimit` needs that
slots in use and slots promised together keep the limit (`CapInv`), which a queue of
distinct calls makes countable.

**TurnLoop.** `TurnInv`: the number of a call is used once and at most one call is a
turn or a login. `TrackInv` adds what steers, the calls that wait for their answers and
the items the runtime holds have to do with each other; with it the types of joined
texts. `NothingLostOrTwice`: every input that is not gone has weight one over all places
it may be in, and only a slash command keeps a weight when it is gone (`Whole`); and a
call that has not started yet holds nothing (`Unstarted`). `OnlyCommandsStrand`
(`StrandInv`): an open queue is followed by somebody who looks at it: an active call, a
handoff, a drain or an answer still to come.

**Records.** `StartupInv` follows a start from what it read to what it writes, with a
ghost for what a marker stands for. `ChainOK` is the chain's shape; a damage breaks the
equation of one entry or of its successor. `OcelInv`: what the recorder holds are the
events of what was fed, and a receipt names the log beside it. `SyncInv` has for each
step of the script what `vendor/`, the staging directory and the lock hold there.

`PatchInv`: a place belongs to one patch (`OneOwner`) and a patch changes only its own
(`ApplyKeeps`), so that the places of a patch still to come are as shipped; on such a
text what the plan verifies, although it often looks at one mark only, implies all
the patch is for (`ApplyDone`). The run can try pairs of differing places, the theorem
covers every combination.

**Screen.** Transcript: the list has no doubles, the window is recomputed wherever the
list changes, and so are the matches (`RefreshIsRight`); between two changes of the list
they stay positions in it, in order (`AscendingCovers`), whatever the texts become.
ToolTree: `Sound` says that a tool is at one place (`Nesting`, `Grouping`), that what is
drawn is what the relations say (`Drawing`), that parents form no cycle and that nobody
waits for a parent that is there. The block an event of a background task takes away is
that of the top of a lineage, so that what is missing is what is drawn in it
(`TopFacts`). The lineage of a tool, a least closed set in the model, is followed by
showing what any closed set contains; the handlers' loops are folds over finite sets,
followed by induction over the subset that is done, in which the invariant names the
tools that are still to be moved (`Tree(v, homeless)`).

**Markdown.** `MarkdownInv`: every segment has a component of the class its text has
(`ComponentOK`), what a component keeps is drawn so (`KeepsPieces`, `KeepsWrapped`), and
it trusts only widths at which its class adds up to the whole. Three facts carry it. The
class a component was made for stays the class of its text as a whole (`ClassStays`),
which rests on the first line telling the classes apart (`FirstLineTells`) and on the
limits only growing. A piece is a function of its source, its place and the key of all
(`PiecesDrawn`), and of its place only if it is the last (`PlaceStays`), which is why
the last part of a quotation is drawn again. And a wrapped line that grows keeps all rows
but its last (`WrapGoesOn`). Widths that draw wrongly are in the model by `Misdrawn`, an
arbitrary set: the theorem shows that the first comparison finds them all.

**Retention.** Diffs: what the loops of the budget have kept after each round is
stated for lines (`LinesOK`), hunks (`HunksOK`), files (`FilesOK`) and tools (`ToolsOK`) and
followed by induction over the rounds; sizes are sums of what is counted, so that what
was spent is the size of what was kept. `DiffsInv`: of the current turn the tools are
apart, within the budget, and are what was reported or one file of them has a mark.

Long texts: an end may begin where no pair is split and both limits hold
(`GoodEnd`); the longest one is that from the first such place on. `LongestEndJoin` carries the
proof: the longest end of the longest end with more is the longest end of all of it, so
that what was dropped earlier never counts. Whole parts that go and a safe cut of
the next one are a safe cut of the whole (`DropParts`), for the lines of a thought as for
the chunks of an output, because no part ends within a pair (`AllEndWell`). Lines have
one break each (`AreLines`), which makes the last lines the longest end with so many
breaks. `TailsInv` says that of each text and adds that a head is not changed by what
comes after it.

**Exchanges.** `PluginInv`: the answers so far are those of a prefix of the script
(`ScriptInOrder`), each true of the runtime or of what is known about it. `DialogsInv`:
the line has no doubles, its head alone has a dialog, and a dialog's answers are those
given (`LineTrue`, `DialogTrue`).

`SaidInv`: in a turn of parts, entries and blocks are paired, each block's text is what
its part was told to be, and the joined text of the stream is all that was said
(`PartsInv`), as long as nothing was sent again with a change; in a plain turn the segments
are the pieces between thoughts and tools (`PlainInv`). What a result adds follows from
the cases of `reconcile`: it is the text, begins with it, is the end of it or none of these.

Statements over data that would need an induction (a joined text, the events among
the lines of an output) are proved by a least counterexample: the set of lengths at which
the statement fails is a set of naturals, and its least member contradicts the recursive
equation.

### Only model-checked

* All liveness: `EveryDispatchConcludes`, `PendingIsAcknowledgedAlone`, `EveryCallEnds`,
  `HandlerComesBack`, `AnsweredOrAbortedSettles`, `AbortDrainsTheLine`, `ViewCatchesUp`. The
  provers handle neither fairness nor ENABLED.
* `TaskCenterKeepsItsOwn`: the activity of a task is compared with the set of what was
  due to it, by counting sets of sets of events.
* `HighlightsAreWhole`: recursive operators, as in the code.

## 5. What the code does that its documentation does not say

With a run each: a healthy turn reclaimed (`GallReclaim`), another worker's order read
(`GallOrders`), a second spawn (`RelaySpawn`), a lock taken over twice
(`RelayTakeover`), one call over the limit (`FabricOvershoot`), a stranded queue
(`TuiStranded`), a slash command that steers (`TuiOvertaken`). Further, seen while
modelling:

Worker
* The conflict guard of the persist stage reads, awaits and writes; two overlapping
  workers on shared files both pass it and one turn runs without a gate of its own
  (`ArmedWhileConstructing` fails in `GallReclaim`'s instance), although
  `src/gall-work.ts:645` calls it the hard backstop.
* `src/gall-work.ts:50-52` promises a typed result document for every stage failure, and
  `:645` that a reconciliation failure never fails the dispatch. An error of
  `clearLeaseFiles` in reconciliation (`:674-682`) or of `writeWorkOrder` (`:753-787`) is
  outside every try and rejects `run()` without one: `EveryDispatchConcludes` allows the
  end `untyped` after a failure for this reason, and after nothing else.
* Where the write of the pid fails (`src/relay-admission.ts:491`), the descriptor is closed,
  the error thrown and the empty lock file left, which the next process takes over.
* A conflict met at the second path leaves the first one written with a lease that
  is then refused. A sweep removes files by path and may remove one another worker has
  just written. With barging, the overshoot of the cap can repeat with each release.

Program
* With overlapping logins, or a restoring call that fails silently, the zcode scheme can
  be left with a handler that no longer exists. A login that ends asks for the handler and
  gives the old one back in two calls (`darwin-oauth-callback.ts:278-280`): a choice the user
  makes between them is overwritten, which `HandlerComesBack` does not exclude.
* The plugin catalogue may change between a dry-run plan and the install; an
  interrupted change may have been made although the exit code says cancelled; a
  descendant that keeps the pipes open hangs a request; an answer without a newline
  counts as none.
* `updateCliSettings` reads, changes and renames: it can lose another writer's change and
  bring reset settings back.
* A receipt's seal mark is not hashed; an outcome closes the first open entry of its
  action whatever its subject; a cut end of an unsealed chain is not detected. Two
  launchers of one session leave a receipt that is not about the log beside it
  (`ConcurrentRuns`); `chunk.toString()` can split a character (`src/launcher.ts:409`).
* A patch that replaces the first match only reports "applied" when its anchor is
  doubled; a patch without that guard then fails the idempotence test and with it the
  sync. A kill between the writes of `package.json` and the lock leaves them differing
  (`check-package` refuses); a kill after the old `vendor/` is removed leaves none.
  Packing removes the release directory and a compatibility report in it.

Terminal
* A follow-up whose preflight is overtaken by a handoff returns to the tail of the
  queue; one overtaken by a typed input steers into its turn. After Ctrl+C a turn that
  still ends without an error keeps auto-send on. A submission taken back with Alt+Up
  loses the ids of the runtime's queue items it stood for.
* A slash command that was overtaken while its picker loaded may run and yet stay among the
  steers of the turn, whose end queues it again: `EachInputOnce` excepts slash commands
  there, for other inputs it has no exception.
* An event of a background task removes the block its tool is drawn in. In a group that is
  the block of every tool of the group, those of the foreground as well, which are then
  on no screen.
* An open search is not told when a text changes in place (`thinking-view.ts:120-133`,
  `assistant-stream.ts:80`, `tool-group-view.ts:22-27`): it may show a text that has lost the
  query, or miss one that has it, until a block comes or goes.
* `currentToolGroup` survives the removal of its block, so that later tools join a group
  that is not on the screen (`dropped` marks them in `ReachesTheScreen`); an anonymous
  tool id can repeat.
* `removeMessage` does not move the reading cursor (the property leaves it out);
  clearing the transcript keeps the page.
* A request without the turn's signal at the head of the line blocks an aborted turn's
  requests behind it; multi-select answers are joined and split on ", "; two
  questions with one text share an answer.
* A snapshot that arrives while a setting is switched is stored but its mode not shown,
  and identical later polls are skipped (`index.ts:5450`): `ViewCatchesUp` speaks of what
  is stored. A stale snapshot can bring a finished job back until the next poll. A read
  that fails while the todos change applies the stored snapshot again, whose mode may be
  older than the user's last switch (`index.ts:5532-5559`): `SnapshotsNeverGoBack` names this
  and the late answer to a switch or a reset as the only ways in which the mode on the
  screen goes back to an older one.
* A part rewritten or taken back makes the comparison with the result fail, and the
  text is shown a second time (`revised`); a response equal to the tail of streamed
  commentary is not shown; with part-protocol thoughts a superseded thinking card is
  never completed.
* A new report of the tool that carried the truncation mark drops the mark although
  another tool's changes are still missing (`unmarked`).
* A handoff's text is attributed also to every other task whose result is pending; a
  background call suppressed before its parent's view exists becomes visible inside
  the parent when that view arrives (`quiet`); a background agent's nested event removes
  the whole block of the agent that launched it; an end with the same status within
  five seconds of the first is not noticed.
* The highlighter compares pieces with the whole once, at the start of a stream, and
  trusts later lines.

## 6. Coverage and plan

Not modelled: the execution provider registry, the update check, the sa2a runtime,
the empty modules beside it, drawing of dialogs, diffs and themes, argument parsing
and printing, benchmarks and smoke tests, generated vocabulary tables. Within the
modelled parts: the recovery of a session's model, rewind and goals, menus of the task
center, the suspended login of the TUI, the chunks of a segment over 80 lines,
the result-carried projection in `handleResult`, and the cap of 512 tool ids. About 32 %
of the implementation's lines are mapped.

Next, in this order: the lifecycle of the TUI (switch of mode, suspended login, stop
and signals), the choice dialog, the update cache; provider selection and the sa2a
failover as operators checked against a reference definition; an abstract
specification of the turn loop (inputs typed, pending, delivered or gone) that
`TurnLoop` implements.
