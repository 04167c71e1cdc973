------------------------------ MODULE TurnLoop ------------------------------
(***************************************************************************)
(* How the TUI carries a user's inputs to the runtime: submit and its      *)
(* helpers in packages/zcode-tui/src/index.ts over the InputQueue of       *)
(* input-queue.ts.  A call of submit runs from one await to the next; the  *)
(* runtime, which the source only calls, is the environment.  It hands its *)
(* events to onEvent as it emits them, and answers a call afterwards.      *)
(***************************************************************************)
EXTENDS Integers, Sequences, FiniteSets

CONSTANTS
  Input,        \* what the user types, each once
  Slash,        \* those that begin with "/"
  None,         \* null
  MaxCalls,     \* bound: how often submit is called
  MaxTurns,     \* bound: how many turns start
  MaxHandoffs   \* bound: how many turns the runtime starts on its own to
                \* process the result of a background task

ASSUME TurnAssumption ==
  /\ Slash \subseteq Input
  /\ MaxCalls \in Nat /\ MaxTurns \in Nat /\ MaxHandoffs \in Nat
  /\ None \notin Seq(Input) /\ None \notin Nat
  /\ None \notin [call: 1..MaxCalls, aborted: BOOLEAN, forSteers: BOOLEAN, foreground: BOOLEAN]

VARIABLES
  fresh,      \* inputs not typed yet
  editor,     \* the draft, or None
  followUps,  \* InputQueue.queuedFollowUps
  steers,     \* InputQueue.pendingSteers
  autoSend,   \* InputQueue.autoSendEnabled
  call,       \* the calls of submit under way
  calls,      \* how often submit was called
  turn,       \* the primary turn: its call, whether it is aborted, and
              \* interrupted for its steers or on the user's own account, or None
  turnEpoch,  \* counts the turns the TUI starts
  gone,       \* inputs that ran as a command, were cleared or were refused
  handoff,    \* BackgroundTaskEvents.hasActiveHandoffs, backgroundHandoffInterruptInFlight
  drain,      \* backgroundDrainScheduled
  handoffs,   \* how many handoffs began
  running,    \* the runtime: the call whose turn is running, or None
  held,       \* the runtime's queue items: steers accepted and not delivered
  delivered   \* how often the runtime gave each input to the model

inputVars   == <<fresh, editor, gone>>
queueVars   == <<followUps, steers, autoSend>>
callVars    == <<call, calls>>
turnVars    == <<turn, turnEpoch>>
handoffVars == <<handoff, drain, handoffs>>
runtimeVars == <<running, held, delivered>>
vars == <<inputVars, queueVars, callVars, turnVars, handoffVars, runtimeVars>>

Id     == 1..MaxCalls
Lead(text)  == text[1]
InText(text) == {text[k] : k \in DOMAIN text}
Texts(entries) == {entries[k].text : k \in DOMAIN entries}

\* A QueuedSubmission: its text and the queue items that hold the same text.
Submission(text, ids) == [text |-> text, ids |-> ids]

NoCall == [at |-> "none", text |-> <<>>, ids |-> {}, queued |-> FALSE, epoch |-> 0,
           answer |-> "none"]
Under(step)   == {c \in Id : call[c].at = step}
ActiveSubmissions == Under("turn") \cup Under("login")

\* A slash command runs from the call of submit to its first await, if it has one.
CommandDue == Under("command") # {}
End(c) == call' = [call EXCEPT ![c] = NoCall]
-----------------------------------------------------------------------------
Init ==
  /\ fresh = Input /\ editor = None /\ gone = {}
  /\ followUps = <<>> /\ steers = <<>> /\ autoSend = TRUE
  /\ call = [c \in Id |-> NoCall] /\ calls = 0
  /\ turn = None /\ turnEpoch = 0
  /\ handoff = [active |-> FALSE, interrupting |-> FALSE] /\ drain = FALSE /\ handoffs = 0
  /\ running = None /\ held = {} /\ delivered = [i \in Input |-> 0]

\* submit up to its first await, in the calls `cs`: a slash command is next, an
\* input for the running turn goes on, any other one is validated first.
SubmitIn(cs, sub, queued, primary) ==
  /\ calls < MaxCalls
  /\ calls' = calls + 1
  /\ call' = [cs EXCEPT ![calls + 1] =
       [at |-> IF Lead(sub.text) \in Slash THEN "command"
               ELSE IF primary THEN "prepare" ELSE "preflight",
        text |-> sub.text, ids |-> sub.ids, queued |-> queued, epoch |-> 0, answer |-> "none"]]
-----------------------------------------------------------------------------
(* The keyboard *)

Type(i) ==
  /\ editor = None /\ i \in fresh
  /\ editor' = <<i>> /\ fresh' = fresh \ {i}
  /\ UNCHANGED <<gone, queueVars, callVars, turnVars, handoffVars, runtimeVars>>

\* Enter: editor.onSubmit.
Enter ==
  /\ editor # None
  /\ SubmitIn(call, Submission(editor, {}), FALSE, turn # None)
  /\ editor' = None
  /\ UNCHANGED <<fresh, gone, queueVars, turnVars, handoffVars, runtimeVars>>

\* Tab during a turn: queueCurrentEditorInput.
QueueDraft ==
  /\ editor # None /\ turn # None
  /\ followUps' = Append(followUps, Submission(editor, {}))
  /\ editor' = None
  /\ UNCHANGED <<fresh, gone, steers, autoSend, callVars, turnVars, handoffVars, runtimeVars>>

\* Alt+Up: editLatestQueuedFollowUp puts the text alone into the editor.
EditLatest ==
  /\ editor = None /\ followUps # <<>>
  /\ editor' = followUps[Len(followUps)].text
  /\ followUps' = SubSeq(followUps, 1, Len(followUps) - 1)
  /\ UNCHANGED <<fresh, gone, steers, autoSend, callVars, turnVars, handoffVars, runtimeVars>>

\* Ctrl+C clears a draft, else it aborts the turn.
CtrlC ==
  \/ /\ editor # None
     /\ editor' = None /\ gone' = gone \cup InText(editor)
     /\ UNCHANGED <<fresh, queueVars, callVars, turnVars, handoffVars, runtimeVars>>
  \/ /\ editor = None /\ turn # None
     /\ turn' = [turn EXCEPT !.aborted = TRUE, !.forSteers = FALSE]
     /\ UNCHANGED <<inputVars, queueVars, callVars, turnEpoch, handoffVars, runtimeVars>>

\* Esc: interrupt the model step for the pending steers, or the whole turn.
Esc ==
  /\ turn # None /\ ~handoff.active
  /\ \/ /\ steers # <<>> /\ turn' = [turn EXCEPT !.forSteers = TRUE]
     \/ /\ steers = <<>> /\ ~turn.aborted /\ ~turn.foreground
        /\ turn' = [turn EXCEPT !.forSteers = FALSE, !.foreground = TRUE]
  /\ UNCHANGED <<inputVars, queueVars, callVars, turnEpoch, handoffVars, runtimeVars>>

\* interruptTurn came back, one way or the other: abort what it was asked for.
InterruptAnswered ==
  /\ turn # None /\ (turn.forSteers \/ turn.foreground) /\ ~turn.aborted
  /\ turn' = [turn EXCEPT !.aborted = TRUE]
  /\ UNCHANGED <<inputVars, queueVars, callVars, turnEpoch, handoffVars, runtimeVars>>
-----------------------------------------------------------------------------
(* The steps of submit *)

\* preflightSubmission: go on, or give the input back to the editor or, when it
\* came from the queue or there is a newer draft, to the head of the queue.
Preflight(c) ==
  /\ call[c].at = "preflight"
  /\ \/ /\ call' = [call EXCEPT ![c].at = "prepare"]
        /\ UNCHANGED <<editor, queueVars>>
     \/ /\ call[c].queued \/ editor # None
        /\ followUps' = <<Submission(call[c].text, call[c].ids)>> \o followUps
        /\ autoSend' = FALSE
        /\ End(c) /\ UNCHANGED <<editor, steers>>
     \/ /\ ~call[c].queued /\ editor = None
        /\ editor' = call[c].text
        /\ autoSend' = FALSE
        /\ End(c) /\ UNCHANGED <<followUps, steers>>
  /\ UNCHANGED <<fresh, gone, calls, turnVars, handoffVars, runtimeVars>>

\* While the turn runs: track the steer and hand it to the runtime.
Steer(c) ==
  /\ turn # None
  /\ steers' = Append(steers, [id |-> c, text |-> call[c].text, admitted |-> FALSE])
  /\ call' = [call EXCEPT ![c].at = "steering", ![c].epoch = turnEpoch]
  /\ UNCHANGED <<followUps, autoSend, turnVars, handoff>>

\* Something else is going on: queue the input for later, and interrupt a
\* handoff on its behalf.
Postpone(c) ==
  /\ turn = None /\ (ActiveSubmissions # {} \/ handoff.active)
  /\ followUps' = Append(followUps, Submission(call[c].text, call[c].ids))
  /\ handoff' = IF ActiveSubmissions = {} THEN [handoff EXCEPT !.interrupting = TRUE]
                ELSE handoff
  /\ End(c) /\ UNCHANGED <<steers, autoSend, turnVars>>

\* (mutant) a turn starts beside a login
StartUnchecked(c) ==
  /\ turn = None /\ ~handoff.active
  /\ turnEpoch < MaxTurns
  /\ turnEpoch' = turnEpoch + 1
  /\ turn' = [call |-> c, aborted |-> FALSE, forSteers |-> FALSE, foreground |-> FALSE]
  /\ call' = [call EXCEPT ![c].at = "turn", ![c].epoch = turnEpoch + 1]
  /\ autoSend' = TRUE
  /\ UNCHANGED <<followUps, steers, handoff>>

\* Start a primary turn; beginTurn opens the queue again.
Start(c) ==
  /\ turn = None /\ ActiveSubmissions = {} /\ ~handoff.active
  /\ turnEpoch < MaxTurns
  /\ turnEpoch' = turnEpoch + 1
  /\ turn' = [call |-> c, aborted |-> FALSE, forSteers |-> FALSE, foreground |-> FALSE]
  /\ call' = [call EXCEPT ![c].at = "turn", ![c].epoch = turnEpoch + 1]
  /\ autoSend' = TRUE
  /\ UNCHANGED <<followUps, steers, handoff>>

\* The skills are prepared, or a picker has come to nothing: whether the input
\* steers is only decided now.
Prepared(c) ==
  /\ call[c].at = "prepare"
  /\ Steer(c) \/ Postpone(c) \/ Start(c)
  /\ UNCHANGED <<inputVars, calls, drain, handoffs, runtimeVars>>

\* A slash command: done here, refused while a submission is active, a login
\* that suspends the TUI, or a prompt of its own to the runtime, at once or, for
\* a bare /model, /effort or /mcp, when its picker turns out to have no entries.
Command(c) ==
  /\ call[c].at = "command"
  /\ \/ /\ End(c) /\ gone' = gone \cup InText(call[c].text)
        /\ UNCHANGED <<queueVars, turnVars, handoff>>
     \/ /\ ActiveSubmissions = {}
        /\ call' = [call EXCEPT ![c].at = "login"]
        /\ autoSend' = TRUE
        /\ UNCHANGED <<gone, followUps, steers, turnVars, handoff>>
     \/ /\ ActiveSubmissions = {} /\ Len(call[c].text) = 1
        /\ call' = [call EXCEPT ![c].at = "prepare"]
        /\ UNCHANGED <<gone, queueVars, turnVars, handoff>>
     \/ /\ ActiveSubmissions = {}
        /\ Postpone(c) \/ Start(c)
        /\ UNCHANGED gone
  /\ UNCHANGED <<fresh, editor, calls, drain, handoffs, runtimeVars>>

\* runSuspendedLogin comes back.
LoginEnds(c) ==
  /\ call[c].at = "login"
  /\ End(c) /\ gone' = gone \cup InText(call[c].text)
  /\ UNCHANGED <<fresh, editor, calls, queueVars, turnVars, handoffVars, runtimeVars>>
-----------------------------------------------------------------------------
(* The runtime, as submit calls it and as its events reach onEvent *)

Tracked(c)   == \E k \in DOMAIN steers : steers[k].id = c
SteerIndex(c) == CHOOSE k \in DOMAIN steers :
                   steers[k].id = c /\ \A j \in DOMAIN steers : steers[j].id = c => k <= j
Untrack(c)   == LET k == SteerIndex(c) IN
                IF Tracked(c)
                THEN SubSeq(steers, 1, k - 1) \o SubSeq(steers, k + 1, Len(steers))
                ELSE steers
Admit(c)     == [k \in DOMAIN steers |-> [steers[k] EXCEPT !.admitted = @ \/ steers[k].id = c]]
Requeue(text) == Append(followUps, Submission(text, {}))
HeldIds      == {h.id : h \in held}
Give(text)   == delivered' = [i \in Input |-> delivered[i] + IF i \in InText(text) THEN 1 ELSE 0]

\* onEvent hears the events of a turn while that turn is the primary one.
Heard(epoch) == turn # None /\ turnEpoch = epoch

\* The runtime starts the turn, and takes what it held of the same text.
RuntimeStarts(c) ==
  /\ call[c].at = "turn" /\ call[c].answer = "none"
  /\ running = None /\ ~handoff.active /\ call[c].ids \subseteq HeldIds
  /\ running' = c
  /\ held' = {h \in held : h.id \notin call[c].ids}
  /\ Give(call[c].text)
  /\ UNCHANGED <<inputVars, queueVars, callVars, turnVars, handoffVars>>

\* The runtime keeps a steer for the next model step; it may announce it with
\* turn_steer_queued before it answers, and a call it announced may yet throw.
\* A slash command reaches it through submitPrompt, which takes no steers.
RuntimeQueues(c) ==
  /\ call[c].at = "steering" /\ call[c].answer = "none" /\ Lead(call[c].text) \notin Slash
  /\ running # None /\ call[running].epoch = call[c].epoch /\ call[c].ids \subseteq HeldIds
  /\ held' = {h \in held : h.id \notin call[c].ids}
             \cup {[id |-> c, text |-> call[c].text, epoch |-> call[c].epoch]}
  /\ \/ /\ call' = [call EXCEPT ![c].answer = "queued"] /\ UNCHANGED steers
     \/ /\ \E a \in {"queued", "threw"} : call' = [call EXCEPT ![c].answer = a]
        /\ steers' = IF Heard(call[c].epoch) THEN Admit(c) ELSE steers
  /\ UNCHANGED <<inputVars, followUps, autoSend, calls, turnVars, handoffVars, running, delivered>>

\* It takes neither a turn nor a steer, with an answer or an error; a slash
\* command of its own it runs without a turn.
RuntimeRefuses(c) ==
  /\ call[c].at \in {"turn", "steering"} /\ call[c].answer = "none" /\ running # c
  /\ \E a \in {"threw", IF Lead(call[c].text) \in Slash THEN "ok" ELSE "rejected"} :
       call' = [call EXCEPT ![c].answer = a]
  /\ UNCHANGED <<inputVars, queueVars, calls, turnVars, handoffVars, runtimeVars>>

\* turn_steer_drained: a steer of the running turn reaches the model.
RuntimeDrains(h) ==
  /\ running # None /\ call[running].epoch = h.epoch
  /\ held' = held \ {h}
  /\ Give(h.text)
  /\ steers' = IF Heard(h.epoch) THEN Untrack(h.id) ELSE steers
  /\ UNCHANGED <<inputVars, followUps, autoSend, callVars, turnVars, handoffVars, running>>

\* turn_steer_discarded: it never will.
RuntimeDiscards(h) ==
  /\ running # None /\ call[running].epoch = h.epoch
  /\ held' = held \ {h}
  /\ IF Heard(h.epoch) /\ Tracked(h.id)
     THEN steers' = Untrack(h.id) /\ followUps' = Requeue(h.text)
     ELSE UNCHANGED <<steers, followUps>>
  /\ UNCHANGED <<inputVars, autoSend, callVars, turnVars, handoffVars, running, delivered>>

\* The turn is over, aborted or not; steers it did not take stay with the runtime.
RuntimeEnds ==
  /\ running # None
  /\ running' = None
  /\ \E a \in {"ok", "threw"} : call' = [call EXCEPT ![running].answer = a]
  /\ UNCHANGED <<inputVars, queueVars, calls, turnVars, handoffVars, held, delivered>>
-----------------------------------------------------------------------------
(* The answers *)

\* (mutant) the answer to a steer is used whatever turn is primary by then, and
\* a refused steer goes back to the queue whether or not it is still tracked
SettleSteerLate(c) ==
  /\ call[c].at = "steering" /\ call[c].answer # "none"
  /\ End(c)
  /\ IF call[c].answer = "queued"
     THEN steers' = Admit(c) /\ UNCHANGED followUps
     ELSE steers' = Untrack(c) /\ followUps' = Requeue(call[c].text)
  /\ UNCHANGED <<inputVars, autoSend, calls, turnVars, handoffVars, runtimeVars>>

\* A steer is answered; once its turn is over the answer means nothing any more.
\* A slash command that ran stays among the steers it was tracked as.
SettleSteer(c) ==
  /\ call[c].at = "steering" /\ call[c].answer # "none"
  /\ End(c)
  /\ LET current  == turn # None /\ turnEpoch = call[c].epoch
         admitted == \E k \in DOMAIN steers : steers[k].id = c /\ steers[k].admitted
         refused  == call[c].answer = "rejected" \/ (call[c].answer = "threw" /\ ~admitted)
     IN  \/ /\ current /\ call[c].answer = "queued"
            /\ steers' = Admit(c) /\ UNCHANGED followUps
         \/ /\ current /\ refused /\ Tracked(c)
            /\ steers' = Untrack(c) /\ followUps' = Requeue(call[c].text)
         \/ /\ ~current \/ (call[c].answer # "queued" /\ ~(refused /\ Tracked(c)))
            /\ UNCHANGED <<steers, followUps>>
  /\ gone' = IF call[c].answer = "ok" THEN gone \cup InText(call[c].text) ELSE gone
  /\ UNCHANGED <<fresh, editor, autoSend, calls, turnVars, handoffVars, runtimeVars>>

Cancelled(answer) == turn.aborted \/ (answer = "threw" /\ (turn.forSteers \/ turn.foreground))

\* Texts joined in order.
Joined(entries) ==
  LET join[k \in 0..Len(entries)] == IF k = 0 THEN <<>> ELSE join[k - 1] \o entries[k].text
  IN  join[Len(entries)]

\* requeuePendingSteers: the steers left go behind the follow-ups one by one, or
\* ahead of them as one submission when the turn was interrupted for them.
Recovered(forSteers) ==
  LET ids(s) == IF s.admitted THEN {s.id} ELSE {} IN
  IF steers = <<>> THEN followUps
  ELSE IF forSteers
  THEN <<Submission(Joined(steers), UNION {ids(steers[k]) : k \in DOMAIN steers})>> \o followUps
  ELSE followUps \o [k \in DOMAIN steers |-> Submission(steers[k].text, ids(steers[k]))]

\* The turn's own call is answered: finishPrimaryTurnSubmission recovers what is
\* left of its steers and submits the next follow-up, unless the queue is held.
SettleTurn(c) ==
  /\ call[c].at = "turn" /\ call[c].answer # "none"
  /\ LET forSteers == Cancelled(call[c].answer) /\ turn.forSteers
         queue     == Recovered(forSteers)
         open      == \/ forSteers /\ steers # <<>>
                      \/ call[c].answer = "ok" /\ autoSend
         ended     == [call EXCEPT ![c] = NoCall]
     IN  /\ autoSend' = open
         /\ \/ /\ open /\ queue # <<>>
               /\ SubmitIn(ended, Head(queue), TRUE, FALSE)
               /\ followUps' = Tail(queue)
            \/ /\ ~open \/ queue = <<>>
               /\ followUps' = queue
               /\ call' = ended /\ UNCHANGED calls
  /\ turn' = None /\ steers' = <<>>
  /\ gone' = gone \cup {i \in InText(call[c].text) : delivered[i] = 0}
  /\ UNCHANGED <<fresh, editor, turnEpoch, handoffVars, runtimeVars>>
-----------------------------------------------------------------------------
(* Turns the runtime starts on its own *)

HandoffBegins ==
  /\ handoffs < MaxHandoffs /\ running = None /\ ~handoff.active
  /\ handoffs' = handoffs + 1 /\ handoff' = [handoff EXCEPT !.active = TRUE]
  /\ UNCHANGED <<inputVars, queueVars, callVars, turnVars, drain, runtimeVars>>

\* (mutant) nobody looks at the queue when the handoff is over
HandoffEndsUnnoticed ==
  /\ handoff.active
  /\ handoff' = [handoff EXCEPT !.active = FALSE]
  /\ UNCHANGED <<inputVars, queueVars, callVars, turnVars, drain, handoffs, runtimeVars>>

HandoffEnds ==
  /\ handoff.active
  /\ handoff' = [handoff EXCEPT !.active = FALSE] /\ drain' = TRUE
  /\ UNCHANGED <<inputVars, queueVars, callVars, turnVars, handoffs, runtimeVars>>

\* The interrupt asked for by Postpone succeeds or fails.
HandoffInterrupted ==
  /\ handoff.interrupting
  /\ \/ handoff' = [active |-> FALSE, interrupting |-> FALSE] /\ autoSend' = TRUE
     \/ handoff' = [handoff EXCEPT !.interrupting = FALSE] /\ UNCHANGED autoSend
  /\ drain' = TRUE
  /\ UNCHANGED <<inputVars, followUps, steers, callVars, turnVars, handoffs, runtimeVars>>

\* drainInputAfterBackgroundHandoff, in its microtask.
Drain ==
  /\ drain
  /\ drain' = FALSE
  /\ LET free == ActiveSubmissions = {} /\ ~handoff.active /\ ~handoff.interrupting /\ autoSend
     IN  \/ /\ free /\ followUps # <<>>
            /\ SubmitIn(call, Head(followUps), TRUE, FALSE)
            /\ followUps' = Tail(followUps)
         \/ /\ ~free \/ followUps = <<>>
            /\ UNCHANGED <<callVars, followUps>>
  /\ UNCHANGED <<inputVars, steers, autoSend, turnVars, handoff, handoffs, runtimeVars>>
-----------------------------------------------------------------------------
Keyboard ==
  \/ \E i \in Input : Type(i)
  \/ Enter \/ QueueDraft \/ EditLatest \/ CtrlC \/ Esc

Runtime ==
  \/ \E c \in Id : RuntimeStarts(c) \/ RuntimeQueues(c) \/ RuntimeRefuses(c)
  \/ \E h \in held : RuntimeDrains(h) \/ RuntimeDiscards(h)
  \/ RuntimeEnds \/ HandoffBegins \/ HandoffEnds

\* What was awaited comes back.
Resumed ==
  \/ \E c \in Id : Preflight(c) \/ Prepared(c) \/ LoginEnds(c) \/ SettleSteer(c) \/ SettleTurn(c)
  \/ InterruptAnswered \/ HandoffInterrupted \/ Drain

Next ==
  \/ \E c \in Id : Command(c)
  \/ ~CommandDue /\ (Keyboard \/ Runtime \/ Resumed)

Spec == Init /\ [][Next]_vars
-----------------------------------------------------------------------------
(* Properties *)

TypeOK ==
  /\ fresh \subseteq Input /\ gone \subseteq Input
  /\ editor = None \/ editor \in Seq(Input) \ {<<>>}
  /\ followUps \in Seq([text: Seq(Input) \ {<<>>}, ids: SUBSET Id])
  /\ steers \in Seq([id: Id, text: Seq(Input) \ {<<>>}, admitted: BOOLEAN])
  /\ autoSend \in BOOLEAN
  /\ call \in [Id -> [at: {"none", "command", "preflight", "prepare", "steering", "turn", "login"},
                      text: Seq(Input), ids: SUBSET Id, queued: BOOLEAN, epoch: 0..MaxTurns,
                      answer: {"none", "queued", "rejected", "threw", "ok"}]]
  /\ calls \in 0..MaxCalls
  /\ turn = None \/ turn \in [call: Id, aborted: BOOLEAN, forSteers: BOOLEAN, foreground: BOOLEAN]
  /\ turnEpoch \in 0..MaxTurns
  /\ handoff \in [active: BOOLEAN, interrupting: BOOLEAN] /\ drain \in BOOLEAN
  /\ handoffs \in 0..MaxHandoffs
  /\ running \in Id \cup {None} /\ HeldIds \subseteq Id
  /\ delivered \in [Input -> Nat]

\* Where the TUI keeps an input: the draft, the follow-ups, the pending steers
\* and the calls of submit that have not handed it over.
Holders(i) ==
  LET keeping(entries) == {k \in DOMAIN entries : i \in InText(entries[k].text)}
      carrying(c) == \/ call[c].at \in {"command", "preflight", "prepare", "login"}
                     \/ call[c].at = "turn" /\ delivered[i] = 0
  IN  (IF editor # None /\ i \in InText(editor) THEN 1 ELSE 0)
      + Cardinality(keeping(followUps)) + Cardinality(keeping(steers))
      + Cardinality({c \in Id : carrying(c) /\ i \in InText(call[c].text)})

\* In how many places an input is: not typed yet, given to the model, or kept.
Places(i) == (IF i \in fresh THEN 1 ELSE 0) + delivered[i] + Holders(i)

\* Nothing the user typed is lost, kept twice or given to the model twice: an
\* input is in one place until it is gone, and is gone for good - but for a slash
\* command that a turn overtook while its picker loaded, which may run and yet be
\* kept as a steer.
EachInputOnce ==
  /\ \A i \in Input : Places(i) <= 1 /\ (Places(i) = 0 => i \in gone)
  /\ \A i \in Input \ Slash : i \in gone => Places(i) = 0

\* What the notice says, "Wait for the active turn or press Ctrl+C before running
\* a slash command" (index.ts:1654): no slash command goes to the runtime as a
\* steer of the active turn.
CommandsNeverSteer == \A c \in Id : call[c].at = "steering" => Lead(call[c].text) \notin Slash

\* One call of submit at most is the primary turn, and it is the one the abort
\* controller and the epoch belong to.
OnePrimaryTurn ==
  /\ \A c, d \in ActiveSubmissions : c = d
  /\ turn # None <=> Under("turn") # {}
  /\ turn # None => call[turn.call].at = "turn" /\ call[turn.call].epoch = turnEpoch

\* Steers belong to a turn: none is pending without one.
SteersNeedTurn == steers # <<>> => turn # None

\* Nothing goes on that would still look at the queue.
Quiet ==
  /\ turn = None /\ ~handoff.active /\ ~handoff.interrupting /\ ~drain
  /\ \A c \in Id : call[c].at \in {"none", "steering"}

\* What the documentation says of queued inputs, "start in FIFO order after the
\* active turn completes normally" (README.md:267): once a turn has run and
\* nothing goes on any more, none is left in a queue that is still open.
NothingStranded ==
  Quiet /\ followUps # <<>> /\ (\E i \in Input : delivered[i] > 0) => ~autoSend

\* What holds of it, as far as finishPrimaryTurnSubmission, the handoff's drain and the
\* answers to steers see to it: only a slash command can leave inputs behind.
StrandedOnlyByCommand == Quiet /\ followUps # <<>> /\ autoSend => gone \cap Slash # {}
=============================================================================
