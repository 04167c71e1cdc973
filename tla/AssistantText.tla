--------------------------- MODULE AssistantText ---------------------------
(***************************************************************************)
(* What the model says and thinks in a turn, on its way to the screen      *)
(* (assistant-stream.ts, thinking-view.ts and their callers in index.ts).  *)
(* A runtime streams plain deltas, or the parts of its messages, which it  *)
(* may send again, change and take back; its result then carries the text  *)
(* of the turn or of its last message.  Texts are sequences of tokens, no  *)
(* two the same; a block that was removed keeps its place and is `gone'.   *)
(***************************************************************************)
EXTENDS Integers, Sequences, SequencesExt, FiniteSets

CONSTANTS
  TextPart,      \* parts with text
  ThoughtPart,   \* parts with thoughts
  MessageOf,     \* the message a part belongs to
  None,          \* no part, no block
  MaxTokens,     \* bound: tokens said in all
  MaxTextTurns   \* bound: turns

ASSUME TextAssumption ==
  /\ TextPart # {} /\ ThoughtPart # {} /\ TextPart \cap ThoughtPart = {}
  /\ None \notin TextPart \cup ThoughtPart /\ None \notin Nat
  /\ MaxTokens \in Nat /\ MaxTextTurns \in Nat

VARIABLES
  protocol,      \* "plain" or "parts": how this runtime streams
  talk,          \* "idle", "on" (a turn runs) or "answered" (its result came)
  turnsBegun,    \* number of turns
  passages,      \* the transcript: text and thinking passages
  stream,        \* the AssistantStream: current, currentPartId, streamedText,
                 \* partSegments
  thinking,      \* currentThinking, currentThinkingPartId, thinkingParts
  coordinators,  \* backgroundCoordinatorMessageIds
  told,          \* what the runtime said this turn, part by part
  revised,       \* it changed an earlier part, or took one back
  tokens         \* number of tokens used

textVars == <<protocol, talk, turnsBegun, passages, stream, thinking, coordinators,
              told, revised, tokens>>

AnyPart == TextPart \cup ThoughtPart
FreshText == tokens + 1

NoSegments == [p \in TextPart |-> [block |-> None, text |-> <<>>]]

EmptyStream ==
  [current |-> None, part |-> None, text |-> <<>>, segments |-> NoSegments]

NoThinking == [current |-> None, part |-> None, views |-> [p \in ThoughtPart |-> None]]

\* Texts, one after the other.
JoinedTo(texts) ==
  LET to[n \in 0 .. Len(texts)] == IF n = 0 THEN <<>> ELSE to[n - 1] \o texts[n] IN to

Joined(texts) == JoinedTo(texts)[Len(texts)]

(***************************************************************************)
(* Blocks.  A state of the screen is its passages, the stream and the      *)
(* thinking views; the operations below go from one to the next.           *)
(***************************************************************************)
Screen(b, s, th) == [passages |-> b, stream |-> s, thinking |-> th]
Here == Screen(passages, stream, thinking)

TextBlock(kind) ==
  [kind |-> kind, text |-> <<>>, done |-> FALSE, gone |-> FALSE, turn |-> turnsBegun]

AddTextBlock(at, kind) == [at EXCEPT !.passages = Append(@, TextBlock(kind))]

\* A thinking view that gets more text is active again.
AddText(at, b, text) ==
  LET x == at.passages[b]
  IN  [at EXCEPT !.passages[b] = [x EXCEPT !.text = x.text \o text, !.done = FALSE]]

(***************************************************************************)
(* AssistantStream.                                                        *)
(***************************************************************************)
BreakSegment(at) == [at EXCEPT !.stream.current = None, !.stream.part = None]

EnsureSegment(at, p) ==
  IF at.stream.segments[p].block # None THEN at
  ELSE LET new == AddTextBlock(at, "assistant")
       IN  [new EXCEPT !.stream.segments[p] =
              [block |-> Len(new.passages), text |-> <<>>]]

AppendPlain(at, text) ==
  LET fresh == at.stream.current = None \/ at.stream.part # None
      new == IF fresh THEN AddTextBlock(at, "assistant") ELSE at
      b == IF fresh THEN Len(new.passages) ELSE at.stream.current
  IN  [AddText(new, b, text) EXCEPT
         !.stream.current = b, !.stream.part = None, !.stream.text = @ \o text]

\* append(delta): without a delta nothing happens.
AppendDelta(at, text) == IF text = <<>> THEN at ELSE AppendPlain(at, text)

AppendPart(at, p, text) ==
  LET new == EnsureSegment(at, p)
      b == new.stream.segments[p].block
  IN  [AddText(new, b, text) EXCEPT
         !.stream.segments[p].text = @ \o text, !.stream.current = b,
         !.stream.part = p, !.stream.text = @ \o text]

EndsWith(s, t) == Len(t) <= Len(s) /\ SubSeq(s, Len(s) - Len(t) + 1, Len(s)) = t

\* (mutant) The text of the part is taken as new whatever was streamed of it.
StreamedAgain(streamed, previous, text) == streamed \o text

\* What was streamed, once a part's text is replaced.
StreamedAfter(streamed, previous, text) ==
  IF IsPrefix(previous, text) THEN streamed \o SubSeq(text, Len(previous) + 1, Len(text))
  ELSE IF previous # <<>> /\ EndsWith(streamed, previous)
  THEN SubSeq(streamed, 1, Len(streamed) - Len(previous)) \o text
  ELSE streamed

Upsert(at, p, text) ==
  LET new == EnsureSegment(at, p)
      seg == new.stream.segments[p]
  IN  [new EXCEPT !.passages[seg.block].text = text,
                  !.stream.segments[p].text = text,
                  !.stream.current = seg.block, !.stream.part = p,
                  !.stream.text = StreamedAfter(@, seg.text, text)]

ReconcileText(at, response) ==
  IF IsPrefix(at.stream.text, response)
  THEN AppendDelta(at, SubSeq(response, Len(at.stream.text) + 1, Len(response)))
  ELSE IF EndsWith(at.stream.text, response) THEN at
  ELSE AppendDelta(BreakSegment(at), response)

(***************************************************************************)
(* Thinking views.                                                         *)
(***************************************************************************)
SettleThinking(at, b) == IF b = None THEN at ELSE [at EXCEPT !.passages[b].done = TRUE]

CompleteThinking(at) ==
  [SettleThinking(at, at.thinking.current) EXCEPT
     !.thinking.current = None, !.thinking.part = None]

EnsureThinking(at, p) ==
  LET known == IF p # None THEN at.thinking.views[p]
               ELSE IF at.thinking.part = None THEN at.thinking.current ELSE None
      new == IF known = None THEN AddTextBlock(at, "thinking") ELSE at
      b == IF known = None THEN Len(new.passages) ELSE known
  IN  [new EXCEPT !.thinking.current = b, !.thinking.part = p,
                  !.thinking.views = [q \in ThoughtPart |-> IF q = p THEN b ELSE @[q]]]

AppendThinking(at, p, text) ==
  LET new == EnsureThinking(at, p) IN AddText(new, new.thinking.current, text)

\* ThinkingView.setText does not make a finished view active again.
UpsertThought(at, p, text) ==
  LET new == EnsureThinking(at, p)
  IN  [new EXCEPT !.passages[new.thinking.current].text = text]

FinishText(at) == BreakSegment(CompleteThinking(at))

(***************************************************************************)
(* Parts taken back: their blocks go, and with them the segments and the   *)
(* views that lead to them.                                                *)
(***************************************************************************)
BlockOf(at, p) ==
  IF p \in TextPart THEN at.stream.segments[p].block ELSE at.thinking.views[p]

TakeBack(at, ps) ==
  LET shown == {p \in ps : BlockOf(at, p) # None}
      blocks == {BlockOf(at, p) : p \in shown}
      s == at.stream
      th == at.thinking
      broken == s.part \in shown
      left == th.current \in blocks
  IN  Screen([i \in DOMAIN at.passages |->
                IF i \in blocks THEN [at.passages[i] EXCEPT !.gone = TRUE] ELSE at.passages[i]],
             [s EXCEPT !.segments = [p \in TextPart |-> IF p \in shown THEN NoSegments[p] ELSE @[p]],
                       !.current = IF broken THEN None ELSE @,
                       !.part = IF broken THEN None ELSE @],
             [th EXCEPT !.views = [p \in ThoughtPart |-> IF p \in shown THEN None ELSE @[p]],
                        !.current = IF left THEN None ELSE @,
                        !.part = IF left THEN None ELSE @])

(***************************************************************************)
(* What the runtime said.                                                  *)
(***************************************************************************)
Said(kind, p, text) == [kind |-> kind, part |-> p, text |-> text]

Telling(p) == {i \in DOMAIN told : told[i].part = p}
PassageKind(p) == IF p \in TextPart THEN "assistant" ELSE "thinking"
TextTold(p) == IF Telling(p) = {} THEN <<>> ELSE told[CHOOSE i \in Telling(p) : TRUE].text

\* Whether p is the last text part, or begins now.
AtTheEnd(p) ==
  \A i \in Telling(p), j \in DOMAIN told : told[j].kind = "assistant" => j <= i

Tell(p, text) ==
  told' = IF Telling(p) = {} THEN Append(told, Said(PassageKind(p), p, text))
          ELSE [i \in DOMAIN told |-> IF i \in Telling(p) THEN Said(PassageKind(p), p, text)
                                      ELSE told[i]]

\* What was said of one kind.
TextsOf(said, kind) ==
  [i \in DOMAIN said |-> IF said[i].kind = kind THEN said[i].text ELSE <<>>]

TextOf(kind) == Joined(TextsOf(told, kind))

Move(at) ==
  /\ passages' = at.passages /\ stream' = at.stream /\ thinking' = at.thinking

(***************************************************************************)
(* Events of a turn.                                                       *)
(***************************************************************************)
PlainText ==
  /\ talk = "on" /\ protocol = "plain" /\ tokens < MaxTokens
  /\ Move(AppendDelta(Here, <<FreshText>>))
  /\ told' = Append(told, Said("assistant", None, <<FreshText>>)) /\ tokens' = FreshText
  /\ UNCHANGED <<protocol, talk, turnsBegun, coordinators, revised>>

PlainThought ==
  /\ talk = "on" /\ protocol = "plain" /\ tokens < MaxTokens
  /\ Move(AppendThinking(Here, None, <<FreshText>>))
  /\ told' = Append(told, Said("thinking", None, <<FreshText>>)) /\ tokens' = FreshText
  /\ UNCHANGED <<protocol, talk, turnsBegun, coordinators, revised>>

ThoughtEnds ==
  /\ talk = "on" /\ protocol = "plain"
  /\ Move(SettleThinking(Here, thinking.current))
  /\ UNCHANGED <<protocol, talk, turnsBegun, coordinators, told, revised, tokens>>

\* A tool is called: what is said after it is another segment.
ToolCalled ==
  /\ talk = "on"
  /\ Move(BreakSegment(CompleteThinking(Here)))
  /\ told' = IF protocol = "parts" \/ told = <<>> \/ Last(told).kind = "tool" THEN told
             ELSE Append(told, Said("tool", None, <<>>))
  /\ UNCHANGED <<protocol, talk, turnsBegun, coordinators, revised, tokens>>

\* part.delta and part.upserted for a text part: more text, the same text
\* again, or another text.
PartText(p) ==
  /\ talk = "on" /\ protocol = "parts" /\ p \in TextPart
  /\ \/ /\ tokens < MaxTokens /\ tokens' = FreshText
        /\ \/ /\ \/ Move(AppendPart(Here, p, <<FreshText>>))
                 \/ Move(Upsert(Here, p, Append(TextTold(p), FreshText)))
              /\ Tell(p, Append(TextTold(p), FreshText))
              /\ revised' = (revised \/ ~AtTheEnd(p))
           \/ /\ Telling(p) # {}
              /\ Move(Upsert(Here, p, <<FreshText>>)) /\ Tell(p, <<FreshText>>)
              /\ revised' = (revised \/ ~AtTheEnd(p))
     \/ /\ Telling(p) # {}
        /\ Move(Upsert(Here, p, TextTold(p)))
        /\ UNCHANGED <<told, revised, tokens>>
  /\ UNCHANGED <<protocol, talk, turnsBegun, coordinators>>

\* The same for a thought, which is not shown for a message that only
\* coordinates agents in the background.
PartThought(p) ==
  /\ talk = "on" /\ protocol = "parts" /\ p \in ThoughtPart
  /\ tokens < MaxTokens /\ tokens' = FreshText
  /\ IF MessageOf[p] \in coordinators
     THEN UNCHANGED <<passages, stream, thinking, told>>
     ELSE /\ \/ Move(AppendThinking(Here, p, <<FreshText>>))
             \/ Move(UpsertThought(Here, p, Append(TextTold(p), FreshText)))
          /\ Tell(p, Append(TextTold(p), FreshText))
  /\ UNCHANGED <<protocol, talk, turnsBegun, coordinators, revised>>

Forget(ps) ==
  told' = [i \in DOMAIN told |-> IF told[i].part \in ps THEN Said("gone", None, <<>>) ELSE told[i]]

PartTakenBack(p) ==
  /\ talk = "on" /\ Telling(p) # {}
  /\ Move(TakeBack(Here, {p})) /\ Forget({p})
  /\ revised' = (revised \/ p \in TextPart)
  /\ UNCHANGED <<protocol, talk, turnsBegun, coordinators, tokens>>

\* message.removed: each of its parts.
MessageTakenBack(m) ==
  LET ps == {p \in AnyPart : MessageOf[p] = m /\ Telling(p) # {}}
  IN  /\ talk = "on" /\ ps # {}
      /\ Move(TakeBack(Here, ps)) /\ Forget(ps)
      /\ revised' = (revised \/ ps \cap TextPart # {})
      /\ UNCHANGED <<protocol, talk, turnsBegun, coordinators, tokens>>

\* suppressBackgroundCoordinatorMessage: what the message thought goes.
CoordinatorFound(m) ==
  LET ps == {p \in ThoughtPart : MessageOf[p] = m}
  IN  /\ talk = "on" /\ protocol = "parts" /\ m \notin coordinators
      /\ coordinators' = coordinators \cup {m}
      /\ Move(TakeBack(Here, ps)) /\ Forget(ps)
      /\ UNCHANGED <<protocol, talk, turnsBegun, revised, tokens>>

(***************************************************************************)
(* Turns.                                                                  *)
(***************************************************************************)

\* The text after the last tool, or of the last part.
Superseded(i) ==
  \E j \in DOMAIN told :
    j > i /\ (told[j].kind = "tool" \/ (protocol = "parts" /\ told[j].kind = "assistant"))

LastMessage ==
  Joined([i \in DOMAIN told |->
            IF told[i].kind = "assistant" /\ ~Superseded(i) THEN told[i].text ELSE <<>>])

ResultIs(response, more) ==
  /\ Move(FinishText(IF response = <<>> THEN Here
                     ELSE ReconcileText(CompleteThinking(Here), response)))
  /\ told' = IF more = <<>> THEN told ELSE Append(told, Said("assistant", None, more))

\* handleResult, then finishTurn: no text, the text of the turn with or without
\* an end that was not streamed, the last message, or one not streamed at all.
TurnEnds ==
  /\ talk = "on" /\ talk' = "answered"
  /\ \/ /\ \/ ResultIs(<<>>, <<>>)
           \/ ResultIs(TextOf("assistant"), <<>>)
           \/ ResultIs(LastMessage, <<>>)
        /\ tokens' = tokens
     \/ /\ tokens < MaxTokens /\ tokens' = FreshText
        /\ \/ ResultIs(Append(TextOf("assistant"), FreshText), <<FreshText>>)
           \/ ResultIs(<<FreshText>>, <<FreshText>>)
  /\ UNCHANGED <<protocol, turnsBegun, coordinators, revised>>

\* beginTurn: what is shown stays, what is known of it goes.
TurnOpens ==
  /\ talk # "on" /\ turnsBegun < MaxTextTurns
  /\ talk' = "on" /\ turnsBegun' = turnsBegun + 1
  /\ passages' = CompleteThinking(Here).passages
  /\ stream' = EmptyStream /\ thinking' = NoThinking
  /\ told' = <<>> /\ revised' = FALSE
  /\ UNCHANGED <<protocol, coordinators, tokens>>

\* handleResult of a command that opens another session: its messages are
\* restored, a thought and a text, and what the command says comes after them.
Restored ==
  LET p == CHOOSE q \in TextPart : TRUE
      t == CHOOSE q \in ThoughtPart : TRUE
      empty == Screen(<<>>, EmptyStream, [thinking EXCEPT !.current = None, !.part = None,
                                                          !.views = NoThinking.views])
      thought == CompleteThinking(UpsertThought(empty, t, <<FreshText>>))
      text == BreakSegment(Upsert(BreakSegment(thought), p, <<FreshText + 1>>))
  IN  ReconcileText(CompleteThinking(BreakSegment(text)), <<FreshText + 2>>)

SessionOpened ==
  /\ talk # "on" /\ tokens + 3 <= MaxTokens
  /\ Move(Restored) /\ tokens' = tokens + 3
  /\ coordinators' = {} /\ talk' = "answered" /\ revised' = FALSE
  /\ told' = <<Said("thinking", None, <<FreshText>>), Said("assistant", None, <<FreshText + 1>>),
               Said("assistant", None, <<FreshText + 2>>)>>
  /\ UNCHANGED <<protocol, turnsBegun>>

TextInit ==
  /\ protocol \in {"plain", "parts"} /\ talk = "idle" /\ turnsBegun = 0
  /\ passages = <<>> /\ stream = EmptyStream /\ thinking = NoThinking
  /\ coordinators = {} /\ told = <<>> /\ revised = FALSE /\ tokens = 0

TextNext ==
  \/ PlainText \/ PlainThought \/ ThoughtEnds \/ ToolCalled
  \/ \E p \in AnyPart : PartText(p) \/ PartThought(p) \/ PartTakenBack(p)
  \/ \E m \in {MessageOf[p] : p \in AnyPart} : MessageTakenBack(m) \/ CoordinatorFound(m)
  \/ TurnEnds \/ TurnOpens \/ SessionOpened

TextSpec == TextInit /\ [][TextNext]_textVars

(***************************************************************************)
(* What the runtime said in the turn is on the screen, in its order and    *)
(* once, after its result as before, although the result says it again; so *)
(* is what it thought.  Of the result that is only so while no earlier part*)
(* was changed or taken back: the stream does not follow those, and shows  *)
(* the text of the result in full after them.  And with plain deltas no    *)
(* thought is shown as active once the turn is over.                       *)
(***************************************************************************)
ShownTexts(blocks, kind, turn) ==
  [i \in DOMAIN blocks |->
     IF blocks[i].kind = kind /\ blocks[i].turn = turn /\ ~blocks[i].gone
     THEN blocks[i].text ELSE <<>>]

OnView(kind) == Joined(ShownTexts(passages, kind, turnsBegun))

SaidIsShownOnce ==
  /\ ~(revised /\ talk = "answered") => OnView("assistant") = TextOf("assistant")
  /\ OnView("thinking") = TextOf("thinking")
  /\ talk # "on" /\ protocol = "plain" =>
       \A i \in DOMAIN passages : passages[i].kind = "thinking" => passages[i].done
=============================================================================
