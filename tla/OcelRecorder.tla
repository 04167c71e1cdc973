---------------------------- MODULE OcelRecorder ----------------------------
(***************************************************************************)
(* ZCODE_OCEL=1: the launcher (runRuntime of src/src/launcher.ts) copies   *)
(* what the runtime writes to its recorder (src/src/ocel-tap.ts), which    *)
(* cuts it into lines, takes the protocol records of them into the event   *)
(* chain and, when the runtime is done, writes the event log of the        *)
(* session and a receipt that holds the hash of the log.  A line is        *)
(* written in two pieces, so that a chunk may end anywhere.                *)
(***************************************************************************)
EXTENDS Naturals, Sequences, SequencesExt, FiniteSets

CONSTANTS
  Recorder,        \* the launchers
  Session,         \* the sessions they run
  ConcurrentRuns,  \* may two launchers run one session at a time?
  MaxLines         \* lines a runtime writes

ASSUME OcelAssumption ==
  Session \cap Recorder = {} /\ ConcurrentRuns \in BOOLEAN /\ MaxLines \in Nat

\* What is on a line: a record that a rule maps to an event, another record, or
\* no record at all.
Kind == {"event", "other", "noise"}

VARIABLES
  stage,    \* "off", "running", "exited", "logged", "done" or "crashed"
  subject,  \* the session each runtime runs
  sent,     \* the lines the runtime began
  cut,      \* whether the last of them lacks its newline
  pipe,     \* the pieces nobody has read yet: <<line, does it end the line>>
  carry,    \* the piece without a newline; 0 for none
  session,  \* sessionId of the recorder
  events,   \* the lines that are events of the chain
  log,      \* <session>.jsonocel: the launcher and its events
  receipt,  \* <session>.receipt.json: the log it is about, and the standing
  torn      \* auxiliary: sessions whose last log never got its receipt

recorders == <<stage, subject, sent, cut, pipe, carry, session, events>>
ocelVars  == <<recorders, log, receipt, torn>>

\* A session that never says its name gets a name of its own.
Name(r) == IF session[r] = "none" THEN r ELSE session[r]
NoLog == [by |-> "none", events |-> <<>>]
NoReceipt == [log |-> NoLog, standing |-> "none"]
-----------------------------------------------------------------------------
OcelInit ==
  /\ stage = [r \in Recorder |-> "off"]
  /\ subject \in [Recorder -> Session]
  /\ sent = [r \in Recorder |-> <<>>] /\ cut = [r \in Recorder |-> FALSE]
  /\ pipe = [r \in Recorder |-> <<>>] /\ carry = [r \in Recorder |-> 0]
  /\ session = [r \in Recorder |-> "none"] /\ events = [r \in Recorder |-> <<>>]
  /\ log = [s \in Session \cup Recorder |-> NoLog]
  /\ receipt = [s \in Session \cup Recorder |-> NoReceipt]
  /\ torn = {}

LaunchRun(r) ==
  /\ stage[r] = "off"
  /\ ConcurrentRuns \/ \A q \in Recorder : subject[q] = subject[r] => stage[q] \in {"off", "done", "crashed"}
  /\ stage' = [stage EXCEPT ![r] = "running"]
  /\ UNCHANGED <<subject, sent, cut, pipe, carry, session, events, log, receipt, torn>>

\* The runtime writes the first piece of a line, and the piece with its newline.
BeginLine(r, kind) ==
  /\ stage[r] = "running" /\ ~cut[r] /\ Len(sent[r]) < MaxLines
  /\ sent' = [sent EXCEPT ![r] = Append(@, kind)]
  /\ cut' = [cut EXCEPT ![r] = TRUE]
  /\ pipe' = [pipe EXCEPT ![r] = Append(@, <<Len(sent[r]) + 1, FALSE>>)]
  /\ UNCHANGED <<stage, subject, carry, session, events, log, receipt, torn>>

EndLine(r) ==
  /\ stage[r] = "running" /\ cut[r]
  /\ cut' = [cut EXCEPT ![r] = FALSE]
  /\ pipe' = [pipe EXCEPT ![r] = Append(@, <<Len(sent[r]), TRUE>>)]
  /\ UNCHANGED <<stage, subject, sent, carry, session, events, log, receipt, torn>>

\* The runtime ends, and may do so in the middle of a line.
RunExits(r, truncated) ==
  /\ stage[r] = "running"
  /\ stage' = [stage EXCEPT ![r] = "exited"]
  /\ truncated => cut[r]
  /\ sent' = IF truncated THEN [sent EXCEPT ![r][Len(sent[r])] = "noise"] ELSE sent
  /\ UNCHANGED <<subject, cut, pipe, carry, session, events, log, receipt, torn>>

\* feedLine: what the recorder's fields are after line i.
Fed(r, i) ==
  [session |-> IF sent[r][i] # "noise" /\ session[r] = "none" THEN subject[r] ELSE session[r],
   events  |-> IF sent[r][i] = "event" THEN Append(events[r], i) ELSE events[r]]

\* A chunk arrives; a piece without a newline is carried to the next one.
Write(r) ==
  /\ stage[r] \in {"running", "exited"} /\ pipe[r] # <<>>
  /\ LET piece == Head(pipe[r]) IN
     /\ pipe' = [pipe EXCEPT ![r] = Tail(@)]
     /\ IF piece[2]
        THEN /\ session' = [session EXCEPT ![r] = Fed(r, piece[1]).session]
             /\ events' = [events EXCEPT ![r] = Fed(r, piece[1]).events]
             /\ carry' = [carry EXCEPT ![r] = 0]
        ELSE /\ carry' = [carry EXCEPT ![r] = piece[1]]
             /\ UNCHANGED <<session, events>>
  /\ UNCHANGED <<stage, subject, sent, cut, log, receipt, torn>>

\* What is left without a newline is fed as a line.
TailFed(r) ==
  IF carry[r] = 0 THEN [session |-> session[r], events |-> events[r]] ELSE Fed(r, carry[r])

WriteLog(r, logged) ==
  LET name == IF TailFed(r).session = "none" THEN r ELSE TailFed(r).session
  IN /\ session' = [session EXCEPT ![r] = TailFed(r).session]
     /\ events' = [events EXCEPT ![r] = TailFed(r).events]
     /\ carry' = [carry EXCEPT ![r] = 0]
     /\ log' = [log EXCEPT ![name] = [by |-> r, events |-> logged]]
     /\ torn' = torn \cup {name}
     /\ stage' = [stage EXCEPT ![r] = "logged"]
     /\ UNCHANGED <<subject, sent, cut, pipe, receipt>>

\* (mutant) the log is written before the rest of the output is fed
FinishBeforeTail(r) == stage[r] = "exited" /\ pipe[r] = <<>> /\ WriteLog(r, events[r])

\* The output is drained: finish feeds the rest, seals the tap and writes the
\* log ...
FinishLog(r) == stage[r] = "exited" /\ pipe[r] = <<>> /\ WriteLog(r, TailFed(r).events)

\* ... and the receipt; a log without events is blocked.
FinishReceipt(r) ==
  /\ stage[r] = "logged"
  /\ receipt' = [receipt EXCEPT ![Name(r)] =
       [log |-> [by |-> r, events |-> events[r]],
        standing |-> IF events[r] # <<>> THEN "alive" ELSE "blocked"]]
  /\ torn' = torn \ {Name(r)}
  /\ stage' = [stage EXCEPT ![r] = "done"]
  /\ UNCHANGED <<subject, sent, cut, pipe, carry, session, events, log>>

\* The launcher is killed.
RunKilled(r) ==
  /\ stage[r] \in {"running", "exited", "logged"}
  /\ stage' = [stage EXCEPT ![r] = "crashed"]
  /\ UNCHANGED <<subject, sent, cut, pipe, carry, session, events, log, receipt, torn>>

OcelNext ==
  \E r \in Recorder :
    \/ LaunchRun(r) \/ EndLine(r) \/ Write(r) \/ FinishLog(r) \/ FinishReceipt(r) \/ RunKilled(r)
    \/ \E kind \in Kind : BeginLine(r, kind)
    \/ \E truncated \in BOOLEAN : RunExits(r, truncated)

OcelSpec == OcelInit /\ [][OcelNext]_ocelVars
-----------------------------------------------------------------------------
(* Properties *)

\* A receipt is about the log that lies beside it, unless the launcher that
\* wrote that log was killed or has not written its receipt yet, and says that
\* the log is alive exactly when there is an event in it.
ReceiptIsAboutTheLog ==
  \A s \in Session \cup Recorder :
    receipt[s] # NoReceipt /\ s \notin torn =>
      /\ receipt[s].log = log[s]
      /\ receipt[s].standing = (IF log[s].events = <<>> THEN "blocked" ELSE "alive")

\* A recorder that finished has every event the runtime wrote, in order and
\* once, the last one even without its newline, and nothing cut off.
Ordered(s) == \A j, k \in DOMAIN s : j < k => s[j] < s[k]
RecordsEveryEvent ==
  \A r \in Recorder : stage[r] = "done" =>
    /\ Range(events[r]) = {i \in DOMAIN sent[r] : sent[r][i] = "event"}
    /\ Ordered(events[r])

\* What is kept of a recorded run is what happened in it: every event, and a
\* receipt about that log (OcelTap, launchRecorded).
RecordIsTrue == ReceiptIsAboutTheLog /\ RecordsEveryEvent
=============================================================================
