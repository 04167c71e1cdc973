-------------------------- MODULE BackgroundTasks --------------------------
(***************************************************************************)
(* The task center of the terminal UI (background-task-events.ts) and how  *)
(* session events reach it and the transcript (index.ts).  Every event of  *)
(* the runtime comes on the session's subscription, while a turn of the    *)
(* user runs also on that turn's stream, and may come again; the task      *)
(* center keeps what autonomous tasks do, and the transcript shows the     *)
(* rest.  A text is the sequence of the events that brought it.            *)
(***************************************************************************)
EXTENDS Integers, Sequences, SequencesExt, FiniteSets, FiniteSetsExt, TLC

CONSTANTS
  Task, Call,          \* background tasks and tool calls
  AgentTask,           \* the tasks that are agents
  NoTask, NoTool,
  Stories,             \* which kinds of event may come and how many
  MaxEntries,          \* maximumEntriesPerTask
  MaxEntryCharacters,  \* maximumEntryCharacters
  MaxTaskCharacters,   \* maximumCharactersPerTask
  MaxScopedTurns,      \* maximumScopedTurnIds
  MaxSeen              \* the event ids remembered

VARIABLES
  center,   \* the BackgroundTaskEventStore
  foreground,   \* the transcript: text, tool views, notices
  runtime,  \* what the runtime has done and said
  asked,    \* what the user asks of each task, and the tasks last shown to run
  due       \* history: what the activity of each task should hold

taskVars == <<center, foreground, runtime, asked, due>>

Failed == "failed"
CutMark == 0  \* "[truncated]" at the end of a text

Event ==
  [id |-> 0, type |-> "other", task |-> NoTask, status |-> "", end |-> 0,
   turn |-> 0, source |-> "none", about |-> {},
   call |-> NoTool, parent |-> NoTool, background |-> FALSE, message |-> NoTool]

Handoffs == {"background_task", "subagent_message"}
Autonomous == Handoffs \cup {"subagent"}

(***************************************************************************)
(* The activity of a task: the oldest entries go, a long one is cut.       *)
(***************************************************************************)
Bounded(text) ==
  IF Len(text) <= MaxEntryCharacters THEN text
  ELSE Append(SubSeq(text, 1, MaxEntryCharacters), CutMark)

Within(entries) ==
  /\ Len(entries) <= MaxEntries
  /\ FoldLeft(LAMBDA n, e : n + Len(e.text), 0, entries) <= MaxTaskCharacters

Retain(entries) ==
  LET from == CHOOSE i \in 1 .. Len(entries) + 1 :
                /\ Within(SubSeq(entries, i, Len(entries)))
                /\ i = 1 \/ ~Within(SubSeq(entries, i - 1, Len(entries)))
  IN  SubSeq(entries, from, Len(entries))

Record(s, t, kind, token) ==
  [s EXCEPT !.activities[t] =
     Retain(Append(@, [kind |-> kind, turn |-> 0, text |-> Bounded(<<token>>)]))]

AppendHandoffDelta(s, t, turn, token) ==
  LET at == {i \in DOMAIN s.activities[t] : s.activities[t][i].turn = turn}
      entry == [kind |-> "assistant", turn |-> turn, text |-> Bounded(<<token>>)]
  IN  [s EXCEPT !.activities[t] =
         Retain(IF at = {} THEN Append(@, entry)
                ELSE [@ EXCEPT ![Min(at)].text = Bounded(Append(@, token))])]

(***************************************************************************)
(* Which turns and tool calls are those of background agents.              *)
(***************************************************************************)
Remember(ids, x, most) ==
  IF x \in ToSet(ids) THEN ids
  ELSE IF Len(ids) = most THEN Append(Tail(ids), x) ELSE Append(ids, x)

Lineage(parents, c) ==
  LET up[n \in 0 .. Cardinality(Call)] ==
        IF n = 0 THEN {c}
        ELSE up[n - 1] \cup ({parents[x] : x \in up[n - 1]} \ {NoTool})
  IN  up[Cardinality(Call)]

\* (mutant) Only the call itself counts, not the calls it was made under.
ScopedItself(s, c) == c \in s.calls

ScopedTool(s, c) == c # NoTool /\ Lineage(s.parents, c) \cap s.calls # {}

ToolLifecycle(e) == e.type \in {"background_task_started", "background_task_updated"}

RememberScopedTool(s, e) ==
  LET linked == IF e.call # NoTool /\ e.parent # NoTool
                THEN [s EXCEPT !.parents[e.call] = e.parent] ELSE s
      told == IF ToolLifecycle(e) /\ e.background /\ e.parent # NoTool
              THEN [linked EXCEPT !.calls = @ \cup {e.parent}] ELSE linked
  IN  IF e.call # NoTool /\ (e.background \/ ScopedTool(told, e.parent))
      THEN [told EXCEPT !.calls = @ \cup {e.call}] ELSE told

RememberScopedTurn(s, e) ==
  IF e.turn # 0 /\ e.source \in Autonomous
  THEN [s EXCEPT !.turns = Remember(@, e.turn, MaxScopedTurns)] ELSE s

IsBackgroundToolScoped(s, e) ==
  \/ e.call # NoTool /\ e.background
  \/ ScopedTool(s, e.call)
  \/ ScopedTool(s, e.parent)

IsTaskScoped(s, e) ==
  \/ e.source \in Autonomous
  \/ e.turn \in ToSet(s.turns)
  \/ IsBackgroundToolScoped(s, e)

(***************************************************************************)
(* handle: the store after an event and the notices it calls for.          *)
(***************************************************************************)
Outcome(s, notices) == [store |-> s, notices |-> notices]

\* claimTerminalNotice: not the same status again within five seconds.
Claimed(s, e) == s.recent[e.task] # e.status
Claiming(s, e) == [s EXCEPT !.recent[e.task] = e.status]

Completed(s, e) ==
  LET told == Record([Claiming(s, e) EXCEPT !.pending.background_task = @ \cup {e.task}],
                     e.task, "system", e.id)
  IN  Outcome(IF e.status = Failed THEN Record(told, e.task, "error", e.id) ELSE told,
              IF Claimed(s, e) THEN <<<<"end", e.end>>>> ELSE <<>>)

Replied(s, e) ==
  Outcome(Record([s EXCEPT !.pending.subagent_message = @ \cup {e.task}],
                 e.task, "assistant", e.id),
          <<<<"reply", e.id>>>>)

Stopped(s, e) ==
  IF e.status = Failed
  THEN Outcome(Record(Claiming(s, e), e.task, "error", e.id),
               IF Claimed(s, e) THEN <<<<"end", e.end>>>> ELSE <<>>)
  ELSE Outcome(Record(s, e.task, "system", e.id), <<>>)

HandoffStarted(s, e) ==
  Outcome([s EXCEPT !.handoffs = (e.turn :> e.about \cup s.pending[e.source]) @@ @,
                    !.pending[e.source] = {}], <<>>)

ToEach(s, ts, Op(_, _)) == FoldSet(LAMBDA t, acc : Op(acc, t), s, ts)

HandoffText(s, e) ==
  Outcome(ToEach(s, s.handoffs[e.turn], LAMBDA a, t : AppendHandoffDelta(a, t, e.turn, e.id)),
          <<>>)

Closing(f, x) == [y \in DOMAIN f \ {x} |-> f[y]]

HandoffEnded(s, e) ==
  LET closed == [s EXCEPT !.handoffs = Closing(@, e.turn)]
  IN  IF e.type = "turn_complete" THEN Outcome(closed, <<>>)
      ELSE Outcome(ToEach(closed, s.handoffs[e.turn],
                          LAMBDA a, t : Record(a, t, "error", e.id)),
                   <<<<"handoff", e.id>>>>)

Handled(s, e) ==
  CASE e.type = "background_task_completed" -> Completed(s, e)
    [] e.type = "subagent_message" -> Replied(s, e)
    [] e.type = "subagent_stopped" -> Stopped(s, e)
    [] e.type = "turn_started" /\ e.source \in Handoffs -> HandoffStarted(s, e)
    [] e.type = "text" /\ e.turn \in DOMAIN s.handoffs -> HandoffText(s, e)
    [] e.type \in {"turn_complete", "turn_error"} /\ e.turn \in DOMAIN s.handoffs ->
         HandoffEnded(s, e)
    [] OTHER -> Outcome(s, <<>>)

HandleKnown(s, e) ==
  IF e.id \in ToSet(s.seen) THEN Outcome(s, <<>>)
  ELSE Handled([s EXCEPT !.seen = Remember(@, e.id, MaxSeen)], e)

Handle(s, e) == HandleKnown(RememberScopedTurn(RememberScopedTool(s, e), e), e)

(***************************************************************************)
(* index.ts: onSessionEvent, and onEvent for the stream of the user's turn *)
(* with suppressBackgroundToolTranscript and                               *)
(* suppressBackgroundCoordinatorMessage.  A view is drawn inside that of   *)
(* its parent once there is one; p holds the center and the foreground.    *)
(***************************************************************************)
OnSessionEvent(p, e) ==
  LET update == Handle(p.center, e)
  IN  [center |-> update.store,
       foreground |-> [p.foreground EXCEPT !.notices = @ \o update.notices]]

RootView(f, c) ==
  LET up[n \in 0 .. Cardinality(Call)] ==
        IF n = 0 THEN c
        ELSE IF f.under[up[n - 1]] \in f.views THEN f.under[up[n - 1]] ELSE up[n - 1]
  IN  up[Cardinality(Call)]

SuppressTool(f, e) ==
  IF e.call \in f.views THEN [f EXCEPT !.gone = @ \cup {RootView(f, e.call)}] ELSE f

SuppressMessage(f, e) ==
  IF e.message = NoTool THEN f
  ELSE [f EXCEPT !.coordinators = @ \cup {e.message}, !.thoughts = @ \ {e.message}]

Appears(f, e) ==
  CASE e.type = "text" -> [f EXCEPT !.text = Append(@, e.id)]
    [] e.type = "tool" ->
         [f EXCEPT !.views = @ \cup {e.call},
                   !.under[e.call] = IF e.parent = NoTool THEN @ ELSE e.parent]
    [] e.type = "reasoning" /\ e.message \notin f.coordinators ->
         [f EXCEPT !.thoughts = @ \cup {e.message}]
    [] OTHER -> f

OnEventAfter(p, q, e) ==
  LET quieted == IF IsBackgroundToolScoped(q.center, e)
                 THEN SuppressMessage(SuppressTool(q.foreground, e), e) ELSE q.foreground
  IN  [q EXCEPT !.foreground = IF IsTaskScoped(p.center, e) \/ IsTaskScoped(q.center, e)
                           THEN quieted ELSE Appears(quieted, e)]

OnEvent(p, e) == OnEventAfter(p, OnSessionEvent(p, e), e)

Visible(c) == c \in foreground.views /\ RootView(foreground, c) \notin foreground.gone

(***************************************************************************)
(* The runtime: tasks that end and reply, turns of its own in which it     *)
(* works with their results, turns of the user, tool calls.                *)
(***************************************************************************)
\* Nothing is under way to the UI.
Settled == runtime.ways = {}

May(kind) == Settled /\ kind \in runtime.story.kinds /\ runtime.n < runtime.story.events

\* An event is numbered and kept for a repetition; heard is what else changes.
Emit(change, heard) ==
  LET e == [change @@ Event EXCEPT !.id = runtime.n + 1]
  IN  /\ runtime' = [heard EXCEPT !.n = @ + 1, !.log = Remember(@, e, MaxSeen), !.event = e,
                       !.ways = {"subscription"} \cup
                                (IF runtime.user = 0 THEN {} ELSE {"stream"})]
      /\ UNCHANGED <<center, foreground>>

Becomes(p) == center' = p.center /\ foreground' = p.foreground

Both == [center |-> center, foreground |-> foreground]

SubscriptionDelivers ==
  /\ "subscription" \in runtime.ways
  /\ Becomes(OnSessionEvent(Both, runtime.event))
  /\ runtime' = [runtime EXCEPT !.ways = @ \ {"subscription"}]
  /\ UNCHANGED <<asked, due>>

Token == runtime.n + 1

Due(kind, t) == [kind |-> kind, token |-> Token, turn |-> 0, task |-> t]

\* A task ends; an agent's end comes as two events, in either order.
EndEvent(t, status, type) ==
  [type |-> type, task |-> t, status |-> status, end |-> runtime.ends + 1]

OwesResult(r, t, source) ==
  [r EXCEPT !.owed[source] = @ \cup {t}, !.unreported[source] = @ \cup {t}]

EndsWith(r, e) ==
  [IF e.type = "background_task_completed" THEN OwesResult(r, e.task, "background_task") ELSE r
   EXCEPT !.window[e.task] = IF e.type = "background_task_completed" \/ e.status = Failed
                             THEN e.status ELSE @,
          !.claims = IF (e.type = "background_task_completed" \/ e.status = Failed)
                        /\ r.window[e.task] # e.status
                     THEN @ \cup {<<"end", e.end>>} ELSE @]

DueOf(e) ==
  CASE e.status # Failed -> {Due("system", e.task)}
    [] e.type = "subagent_stopped" -> {Due("error", e.task)}
    [] OTHER -> {Due("system", e.task), Due("error", e.task)}

EndTypes(t) == {"background_task_completed"} \cup
               (IF t \in AgentTask THEN {"subagent_stopped"} ELSE {})

TaskEnds(t, status, first) ==
  LET e == EndEvent(t, status, first)
  IN  /\ May("ends") /\ runtime.halves = {} /\ first \in EndTypes(t)
      /\ Emit(e, [EndsWith(runtime, e) EXCEPT
                    !.ends = @ + 1,
                    !.halves = {EndEvent(t, status, other) : other \in EndTypes(t) \ {first}}])
      /\ due' = due \cup DueOf(e)
      /\ UNCHANGED asked

OtherHalf ==
  /\ Settled
  /\ \E e \in runtime.halves :
       /\ Emit(e, [EndsWith(runtime, e) EXCEPT !.halves = {}])
       /\ due' = due \cup DueOf(e)
  /\ UNCHANGED asked

TaskReplies(t) ==
  /\ May("replies") /\ t \in AgentTask
  /\ Emit([type |-> "subagent_message", task |-> t],
          [OwesResult(runtime, t, "subagent_message") EXCEPT
             !.claims = @ \cup {<<"reply", Token>>}])
  /\ due' = due \cup {Due("assistant", t)}
  /\ UNCHANGED asked

\* Five seconds pass without an end.
WindowPasses(t) ==
  /\ Settled /\ runtime.halves = {} /\ runtime.window[t] # "none"
  /\ runtime' = [runtime EXCEPT !.window[t] = "none"]
  /\ center' = [center EXCEPT !.recent[t] = "none"]
  /\ UNCHANGED <<foreground, asked, due>>

\* A turn of the runtime's own.  A handoff is about results it has not reported,
\* all of them if it names none.
Opening(r, e) ==
  [r EXCEPT !.turns = e.turn, !.autonomous = Append(@, e.turn)]

AgentTurn ==
  LET e == [type |-> "turn_started", turn |-> runtime.turns + 1, source |-> "subagent"]
  IN  /\ May("turns") /\ Emit(e, Opening(runtime, e))
      /\ UNCHANGED <<asked, due>>

HandoffOpens(source, about) ==
  LET e == [type |-> "turn_started", turn |-> runtime.turns + 1, source |-> source, about |-> about]
  IN  /\ May("turns") /\ runtime.handoff = 0
      /\ runtime.unreported[source] # {}
      /\ Emit(e, [Opening(runtime, e) EXCEPT
                    !.handoff = e.turn, !.results = about \cup runtime.owed[source],
                    !.owed[source] = {},
                    !.unreported[source] = IF about = {} THEN {} ELSE @ \ about])
      /\ UNCHANGED <<asked, due>>

Latest(seq, n) == SubSeq(seq, IF Len(seq) > n THEN Len(seq) - n + 1 ELSE 1, Len(seq))

AutonomousText ==
  /\ May("text")
  /\ \E turn \in ToSet(Latest(runtime.autonomous, MaxScopedTurns)) :
       /\ Emit([type |-> "text", turn |-> turn], runtime)
       /\ due' = IF turn # runtime.handoff THEN due
                 ELSE due \cup {[Due("assistant", t) EXCEPT !.turn = turn] : t \in runtime.results}
  /\ UNCHANGED asked

HandoffCloses(failed) ==
  /\ runtime.handoff # 0 /\ May("turns")
  /\ Emit([type |-> IF failed THEN "turn_error" ELSE "turn_complete", turn |-> runtime.handoff],
          [runtime EXCEPT !.handoff = 0,
                          !.claims = IF failed THEN @ \cup {<<"handoff", Token>>} ELSE @])
  /\ due' = IF failed THEN due \cup {Due("error", t) : t \in runtime.results} ELSE due
  /\ UNCHANGED asked

\* interruptBackgroundHandoffForInput, once the runtime has stopped the turn.
HandoffPreempted ==
  /\ Settled /\ runtime.handoff # 0
  /\ center' = [center EXCEPT !.handoffs = <<>>]
  /\ runtime' = [runtime EXCEPT !.handoff = 0]
  /\ UNCHANGED <<foreground, asked, due>>

\* beginTurn: the views of the turn before it are not looked at again.
UserTurnOpens ==
  /\ May("user") /\ runtime.user = 0
  /\ foreground' = [foreground EXCEPT !.views = {}, !.under = [c \in Call |-> NoTool],
                                      !.gone = {}, !.thoughts = {}, !.coordinators = {}]
  /\ runtime' = [runtime EXCEPT !.n = @ + 1, !.turns = @ + 1, !.user = runtime.turns + 1,
                                !.quiet = {}]
  /\ UNCHANGED <<center, asked, due>>

UserTurnCloses ==
  /\ Settled /\ runtime.user # 0
  /\ runtime' = [runtime EXCEPT !.user = 0]
  /\ UNCHANGED <<center, foreground, asked, due>>

UserText ==
  /\ May("text") /\ runtime.user # 0
  /\ Emit([type |-> "text", turn |-> runtime.user], [runtime EXCEPT !.said = Append(@, Token)])
  /\ UNCHANGED <<asked, due>>

\* An event of a tool may say whose child the tool is, and one of a background
\* agent's call that it is one; so does the task's own first event.
Links(r, e) == IF e.call # NoTool /\ e.parent # NoTool
               THEN [r.links EXCEPT ![e.call] = e.parent] ELSE r.links

Agents(r, e) == r.agents \cup
  (IF ~e.background THEN {} ELSE IF e.call # NoTool THEN {e.call} ELSE {e.parent})

\* A call that is to be quiet from its event on, and the view it was drawn in.
Quieting(r, e, f) ==
  IF e.call # NoTool /\ Lineage(r.links, e.call) \cap r.agents # {}
  THEN r.quiet \cup {<<e.call, RootView(f, e.call)>>} ELSE r.quiet

EmitTool(change) ==
  /\ May("tools")
  /\ Emit(change, [runtime EXCEPT !.links = Links(runtime, change @@ Event),
                                  !.agents = Agents(runtime, change @@ Event)])
  /\ UNCHANGED <<asked, due>>

StreamDelivers ==
  /\ "stream" \in runtime.ways
  /\ Becomes(OnEvent(Both, runtime.event))
  /\ runtime' = [runtime EXCEPT !.ways = @ \ {"stream"},
                                !.quiet = Quieting(runtime, runtime.event, foreground')]
  /\ UNCHANGED <<asked, due>>

ToolEvent(c, linked, background) ==
  /\ background => c \in runtime.story.agents
  /\ EmitTool([type |-> "tool", call |-> c, message |-> c, turn |-> runtime.user,
               parent |-> IF linked THEN runtime.story.under[c] ELSE NoTool,
               background |-> background])

AgentStarted(c) ==
  /\ c \in runtime.story.agents
  /\ EmitTool([type |-> "background_task_started", parent |-> c, background |-> TRUE])

Reasoning(c) ==
  /\ runtime.user # 0
  /\ EmitTool([type |-> "reasoning", message |-> c, turn |-> runtime.user])

\* An event comes again; of a turn of the runtime's own only while it is recent.
Repeated ==
  /\ Settled
  /\ \E e \in ToSet(runtime.log) :
       /\ e.source \in Autonomous => e.turn \in ToSet(Latest(runtime.autonomous, MaxScopedTurns))
       /\ Becomes(OnSessionEvent(Both, e))
  /\ UNCHANGED <<runtime, asked, due>>

(***************************************************************************)
(* The user's part: messageBackgroundTask with notifyTaskCoordinator, the  *)
(* tasks that Esc cancels, and noticeRestoredBackgroundTasks.              *)
(***************************************************************************)
Enters(kind, t) ==
  /\ center' = Record(center, t, kind, Token)
  /\ runtime' = [runtime EXCEPT !.n = @ + 1]
  /\ due' = due \cup {Due(kind, t)}
  /\ UNCHANGED foreground

EntersNothing == UNCHANGED <<center, foreground, runtime, due>>

MessageTask(t) ==
  /\ May("messages") /\ asked[t] = "nothing"
  /\ Enters("user", t) /\ asked' = [asked EXCEPT ![t] = "delivery"]

MessageAnswered(t, delivered) ==
  /\ Settled /\ asked[t] = "delivery"
  /\ Enters(IF delivered THEN "system" ELSE "error", t)
  /\ asked' = [asked EXCEPT ![t] = IF delivered THEN "coordinator" ELSE "nothing"]

CoordinatorNotified(t, accepted) ==
  /\ Settled /\ asked[t] = "coordinator"
  /\ IF accepted THEN EntersNothing ELSE Enters("error", t)
  /\ asked' = [asked EXCEPT ![t] = "nothing"]

EscCancels(t, stopped) ==
  /\ May("messages")
  /\ Enters(IF stopped THEN "system" ELSE "error", t)
  /\ UNCHANGED asked

RestoredNotice(f, t) ==
  IF t \in f.restored THEN f
  ELSE [f EXCEPT !.restored = @ \cup {t}, !.notices = Append(@, <<"restored", t>>)]

\* A poll of the runtime names a task that was restored from the session.
Restored(t) ==
  /\ Settled /\ "restored" \in runtime.story.kinds
  /\ foreground' = RestoredNotice(foreground, t)
  /\ runtime' = [runtime EXCEPT !.claims = @ \cup {<<"restored", t>>}]
  /\ UNCHANGED <<center, asked, due>>

BackgroundInit ==
  /\ center = [activities |-> [t \in Task |-> <<>>], handoffs |-> <<>>,
               pending |-> [s \in Handoffs |-> {}], turns |-> <<>>, calls |-> {},
               parents |-> [c \in Call |-> NoTool], seen |-> <<>>,
               recent |-> [t \in Task |-> "none"]]
  /\ foreground = [text |-> <<>>, views |-> {}, under |-> [c \in Call |-> NoTool],
               gone |-> {}, thoughts |-> {}, coordinators |-> {}, notices |-> <<>>,
               restored |-> {}]
  /\ \E story \in Stories :
       runtime = [story |-> story, n |-> 0, turns |-> 0, user |-> 0, said |-> <<>>,
                  autonomous |-> <<>>, handoff |-> 0, results |-> {},
                  owed |-> [s \in Handoffs |-> {}],
                  unreported |-> [s \in Handoffs |-> {}], ends |-> 0, halves |-> {},
                  window |-> [t \in Task |-> "none"], claims |-> {}, log |-> <<>>,
                  links |-> [c \in Call |-> NoTool], agents |-> {}, quiet |-> {},
                  event |-> Event, ways |-> {}]
  /\ asked = [t \in Task |-> "nothing"]
  /\ due = {}

RuntimeNext ==
  \/ \E t \in Task : \E status \in {"completed", Failed} :
       \E first \in EndTypes(t) : TaskEnds(t, status, first)
  \/ OtherHalf
  \/ \E t \in Task : TaskReplies(t) \/ WindowPasses(t)
  \/ AgentTurn
  \/ \E source \in Handoffs : \E about \in SUBSET runtime.unreported[source] :
       HandoffOpens(source, about)
  \/ AutonomousText
  \/ \E failed \in BOOLEAN : HandoffCloses(failed)
  \/ HandoffPreempted
  \/ UserTurnOpens \/ UserTurnCloses \/ UserText
  \/ \E c \in Call : \E linked, background \in BOOLEAN : ToolEvent(c, linked, background)
  \/ \E c \in Call : AgentStarted(c) \/ Reasoning(c)
  \/ SubscriptionDelivers \/ StreamDelivers \/ Repeated

UserNext ==
  \E t \in Task :
    \/ MessageTask(t) \/ Restored(t)
    \/ \E well \in BOOLEAN :
         MessageAnswered(t, well) \/ CoordinatorNotified(t, well) \/ EscCancels(t, well)

BackgroundNext == RuntimeNext \/ UserNext

BackgroundSpec == BackgroundInit /\ [][BackgroundNext]_taskVars

(***************************************************************************)
(* The activity of a task holds what it is due, each once; what is missing *)
(* was cut off a text that was too long, or went because with all that     *)
(* came since it was too much.                                             *)
(***************************************************************************)
Alike(d, x) == d.turn = x.turn /\ (d.turn = 0 => d.kind = x.kind)
SameEntry(d, x) == Alike(d, x) /\ (d.turn = 0 => d.token = x.token)

Began(d, D) == Min({x.token : x \in {y \in D : SameEntry(d, y)}})

ActivitySize(entry) ==
  IF Cardinality(entry) > MaxEntryCharacters THEN MaxEntryCharacters + 1 ELSE Cardinality(entry)

FitSince(first, D) ==
  LET entries == {{x \in D : SameEntry(d, x)} : d \in {y \in D : y.token >= first}}
  IN  /\ Cardinality(entries) <= MaxEntries
      /\ FoldSet(LAMBDA e, n : n + ActivitySize(e), 0, entries) <= MaxTaskCharacters

ActivityIsDue(t) ==
  LET kept == center.activities[t]
      D == {d \in due : d.task = t}
      places == {<<i, j>> \in (DOMAIN kept) \X (1 .. MaxEntryCharacters) : j \in DOMAIN kept[i].text}
      At(p) == [kind |-> kept[p[1]].kind, turn |-> kept[p[1]].turn,
                token |-> kept[p[1]].text[p[2]], task |-> t]
      shown == {At(p) : p \in places}
  IN  /\ Within(kept)
      /\ shown \subseteq D /\ Cardinality(shown) = Cardinality(places)
      /\ \A d \in D \ shown :
           \/ \E i \in DOMAIN kept : Alike(d, kept[i]) /\ Last(kept[i].text) = CutMark
           \/ ~FitSince(Began(d, D), D)

(***************************************************************************)
(* The task center keeps autonomous task output out of the foreground      *)
(* (src/README.md:333): whatever way and however often an event arrives,   *)
(* the transcript has the text of the user's turns and no other, no tool   *)
(* that is known to belong to a background agent when its event comes (as  *)
(* long as no parent takes it in), no thought that launched one, and one   *)
(* notice of each end, reply and failure; the activity of each task has    *)
(* what is due to it.                                                      *)
(***************************************************************************)
TaskCenterKeepsItsOwn ==
  Settled =>
  /\ foreground.text = runtime.said
  /\ \A q \in runtime.quiet :
       /\ Visible(q[1]) => RootView(foreground, q[1]) # q[2]
       /\ q[1] \notin foreground.thoughts
  /\ ToSet(foreground.notices) = runtime.claims
  /\ Len(foreground.notices) = Cardinality(runtime.claims)
  /\ \A t \in Task : ActivityIsDue(t)
=============================================================================
