-------------------------- MODULE PermissionDialogs --------------------------
(* Permission requests of the runtime and the dialogs that answer them       *)
(* (index.ts requestPermission and what it calls, interactions.ts,           *)
(* choice-dialog.ts, permission-request-queue.ts).  A request is a whole     *)
(* interaction: a tool's permission may go on to ask for a reason, a plan's  *)
(* approval for instructions, and a list of questions moves back and forth   *)
(* with answers already given.  Requests queue; the abort of the turn        *)
(* settles the open dialog and every later one of its requests.              *)
EXTENDS Naturals, Sequences, FiniteSets

CONSTANTS
    Request,
    KindOf,          \* [Request -> {"tool", "plan", "questions"}]
    Signalled,       \* the requests that carry the turn's abort signal
    QuestionCount,   \* questions of an AskUserQuestion request
    MultiSelect,     \* the questions with several choices
    Option,          \* the labels a question offers
    Custom           \* a typed answer

ASSUME DialogsAssumption ==
    /\ KindOf \in [Request -> {"tool", "plan", "questions"}]
    /\ Signalled \subseteq Request
    /\ QuestionCount \in Nat \ {0}
    /\ MultiSelect \subseteq 1 .. QuestionCount
    /\ Custom \notin Option

Question == 1 .. QuestionCount
AnswerSet == SUBSET (Option \cup {Custom})
NoAnswers == [q \in Question |-> {}]

VARIABLES
    line,       \* requests that have arrived and are not answered, in order
    asked,      \* [Request -> "new", "waiting", "open", "done"]
    dialog,     \* the dialog on the screen
    given,      \* the answers collected so far by the open request
    outcome,    \* [Request -> the decision]
    toolState,  \* the state the request's tool view shows
    turnAborted

dialogVars == <<line, asked, dialog, given, outcome, toolState, turnAborted>>

(* A dialog is a choice or a text prompt; for questions it says which one is *)
(* asked and what is ticked, as requestMultipleChoice keeps it.              *)
NoDialog == [screen |-> "none", question |-> 0, ticked |-> {}]
DialogRecord == [screen : {"none", "choice", "text"},
                 question : 0 .. QuestionCount, ticked : AnswerSet]

DialogsTypeOK ==
    /\ line \in Seq(Request)
    /\ asked \in [Request -> {"new", "waiting", "open", "done"}]
    /\ dialog \in DialogRecord
    /\ given \in [Question -> AnswerSet]
    /\ outcome \in [Request -> {"none", "allow", "modify", "deny", "failed"}]
    /\ toolState \in [Request -> {"running", "waiting_permission", "rejected"}]
    /\ turnAborted \in BOOLEAN

HeadRequest == Head(line)
(* (mutant) the signal is only looked at while a dialog is open *)
AbortUnseen(r) == FALSE

Aborted(r) == turnAborted /\ r \in Signalled

DialogsInit ==
    /\ line = <<>> /\ dialog = NoDialog /\ given = NoAnswers
    /\ asked = [r \in Request |-> "new"]
    /\ outcome = [r \in Request |-> "none"]
    /\ toolState = [r \in Request |-> "running"]
    /\ turnAborted = FALSE

----------------------------------------------------------------------------
(* requestPermission and PermissionRequestQueue.run: a request begins when   *)
(* the one before it has settled, however it settled.                        *)
RequestPermission(r) ==
    /\ asked[r] = "new"
    /\ asked' = [asked EXCEPT ![r] = "waiting"]
    /\ line' = Append(line, r)
    /\ UNCHANGED <<dialog, given, outcome, toolState, turnAborted>>

(* requestPermissionUnqueued's end, with the tool view's next state.         *)
SettleHead(decision) ==
    /\ line' = Tail(line)
    /\ asked' = [asked EXCEPT ![HeadRequest] = "done"]
    /\ dialog' = NoDialog
    /\ outcome' = [outcome EXCEPT ![HeadRequest] = decision]
    /\ toolState' = [toolState EXCEPT
                        ![HeadRequest] = CASE decision \in {"allow", "modify"} -> "running"
                                       [] decision = "deny" -> "rejected"
                                       [] decision = "failed" -> @]

(* choose and promptText mount a dialog that settles once.                   *)
Show(d) ==
    /\ dialog' = d
    /\ UNCHANGED <<line, asked, outcome, toolState>>

ChoiceOf(q, a) == [screen |-> "choice", question |-> q, ticked |-> a]
TextFor(d) == [d EXCEPT !.screen = "text"]

FirstDialog(r) ==
    IF KindOf[r] = "questions" THEN ChoiceOf(1, {}) ELSE ChoiceOf(0, {})

(* (mutant) the queue stops at an interaction that failed *)
NextAfterSuccess ==
    /\ line # <<>> /\ asked[HeadRequest] = "waiting"
    /\ \A r \in Request : outcome[r] # "failed"

NextInLine == line # <<>> /\ asked[HeadRequest] = "waiting"

(* A request whose signal is aborted already gets a dialog that settles with *)
(* null at once, which denies.                                               *)
BeginRequest ==
    /\ NextInLine
    /\ IF Aborted(HeadRequest) THEN SettleHead("deny")
       ELSE /\ dialog' = FirstDialog(HeadRequest)
            /\ asked' = [asked EXCEPT ![HeadRequest] = "open"]
            /\ toolState' = [toolState EXCEPT ![HeadRequest] = "waiting_permission"]
            /\ UNCHANGED <<line, outcome>>
    /\ given' = NoAnswers
    /\ UNCHANGED turnAborted

(* The interaction throws: run's result rejects and the queue goes on.       *)
RequestFails ==
    /\ dialog # NoDialog
    /\ SettleHead("failed")
    /\ UNCHANGED <<given, turnAborted>>

----------------------------------------------------------------------------
(* requestToolPermission and requestPlanApproval.                            *)

OnTop(kind, screen) ==
    /\ dialog.screen = screen
    /\ KindOf[HeadRequest] = kind

AnswerToolPermission ==
    /\ OnTop("tool", "choice")
    /\ \/ \E decision \in {"allow", "deny"} : SettleHead(decision)
       \/ Show(TextFor(dialog))
    /\ UNCHANGED <<given, turnAborted>>

(* The reason for a denial: given, empty or cancelled, it stays a denial.    *)
GiveReason ==
    /\ OnTop("tool", "text")
    /\ SettleHead("deny")
    /\ UNCHANGED <<given, turnAborted>>

AnswerPlanApproval ==
    /\ OnTop("plan", "choice")
    /\ \/ \E decision \in {"allow", "deny"} : SettleHead(decision)
       \/ Show(TextFor(dialog))
    /\ UNCHANGED <<given, turnAborted>>

(* Instructions and refinements travel back as a denial with a reason.       *)
GiveInstructions ==
    /\ OnTop("plan", "text")
    /\ SettleHead("deny")
    /\ UNCHANGED <<given, turnAborted>>

----------------------------------------------------------------------------
(* requestUserQuestions: collectUserQuestionAnswers steps through the        *)
(* questions; a question asked again starts from the answer it had.          *)

AskedNow == dialog.question

AskAgain(q, answers) ==
    /\ given' = answers
    /\ Show(ChoiceOf(q, IF q \in MultiSelect THEN answers[q] ELSE {}))

GiveAnswer(a) ==
    LET answers == [given EXCEPT ![AskedNow] = a]
    IN  IF AskedNow = QuestionCount
        THEN SettleHead("modify") /\ given' = answers
        ELSE AskAgain(AskedNow + 1, answers)

GoBack == AskAgain(AskedNow - 1, given)

(* requestSingleChoice; Escape goes back from a later question and cancels   *)
(* on the first.                                                             *)
AnswerSingleChoice ==
    /\ OnTop("questions", "choice") /\ AskedNow \notin MultiSelect
    /\ \/ \E o \in Option : GiveAnswer({o})
       \/ Show(TextFor(dialog)) /\ UNCHANGED given
       \/ AskedNow > 1 /\ GoBack
       \/ AskedNow = 1 /\ SettleHead("deny") /\ UNCHANGED given
    /\ UNCHANGED turnAborted

(* requestMultipleChoice toggles, and is done with at least one choice.      *)
Toggle(o) ==
    IF o \in dialog.ticked THEN dialog.ticked \ {o} ELSE dialog.ticked \cup {o}

AnswerMultipleChoice ==
    /\ OnTop("questions", "choice") /\ AskedNow \in MultiSelect
    /\ \/ \E o \in Option : Show(ChoiceOf(AskedNow, Toggle(o))) /\ UNCHANGED given
       \/ Show(TextFor(dialog)) /\ UNCHANGED given
       \/ dialog.ticked # {} /\ GiveAnswer(dialog.ticked)
       \/ AskedNow > 1 /\ GoBack
       \/ AskedNow = 1 /\ SettleHead("deny") /\ UNCHANGED given
    /\ UNCHANGED turnAborted

(* The text prompt of either: an empty answer shows the choice again.        *)
TypeAnswer(typed) ==
    /\ OnTop("questions", "text")
    /\ IF ~typed THEN Show(ChoiceOf(AskedNow, dialog.ticked)) /\ UNCHANGED given
       ELSE IF AskedNow \in MultiSelect
       THEN Show(ChoiceOf(AskedNow, dialog.ticked \cup {Custom})) /\ UNCHANGED given
       ELSE GiveAnswer({Custom})
    /\ UNCHANGED turnAborted

----------------------------------------------------------------------------
(* The abort of the turn settles the open dialog with null; the loops of the *)
(* questions see the signal and cancel instead of going back.                *)
AbortTurn ==
    /\ ~turnAborted
    /\ turnAborted' = TRUE
    /\ IF dialog # NoDialog /\ HeadRequest \in Signalled THEN SettleHead("deny")
       ELSE UNCHANGED <<line, asked, dialog, outcome, toolState>>
    /\ UNCHANGED given

DialogsNext ==
    \/ \E r \in Request : RequestPermission(r)
    \/ BeginRequest
    \/ RequestFails
    \/ AnswerToolPermission \/ GiveReason
    \/ AnswerPlanApproval \/ GiveInstructions
    \/ AnswerSingleChoice \/ AnswerMultipleChoice
    \/ \E typed \in BOOLEAN : TypeAnswer(typed)
    \/ AbortTurn

DialogsSpec == DialogsInit /\ [][DialogsNext]_dialogVars

(* Only the queue's own step is fair: the user need not answer anything.     *)
DialogsFairness == WF_dialogVars(BeginRequest)

DialogsFairSpec == DialogsSpec /\ DialogsFairness

----------------------------------------------------------------------------
(* A dialog on the screen belongs to the request at the head of the line,    *)
(* and every request behind it waits, so that an answer can only go to the   *)
(* request it was given for (permission-request-queue.ts: dialogs never      *)
(* overlap).                                                                 *)
OneInteraction ==
    /\ \A i, j \in DOMAIN line : line[i] = line[j] => i = j
    /\ \A r \in Request : asked[r] = "open" <=> dialog # NoDialog /\ r = HeadRequest

(* An approval is what the user gave while the turn was alive: once the turn *)
(* is aborted none of its requests is approved, not even one queued behind   *)
(* another dialog when the abort came, and a list of questions is handed     *)
(* back only when each has an answer, whatever was revised on the way.       *)
ApprovalsAreGenuine ==
    [][\A r \in Request : asked[r] # "done" /\ asked'[r] = "done" =>
          /\ turnAborted /\ r \in Signalled => outcome'[r] = "deny"
          /\ outcome'[r] = "modify" => \A q \in Question : given'[q] # {}
      ]_dialogVars

(* An abort answers every request of the turn without the user: the line     *)
(* drains, unless a request of another origin is in front of it.             *)
AbortDrainsTheLine ==
    \A r \in Signalled :
      turnAborted /\ asked[r] = "waiting" ~>
         asked[r] = "done" \/ (line # <<>> /\ HeadRequest \notin Signalled)
=============================================================================
