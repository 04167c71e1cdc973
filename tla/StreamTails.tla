---------------------------- MODULE StreamTails ----------------------------
(***************************************************************************)
(* What is kept of a text that streams in without bound: the last lines of *)
(* a thought (ThinkingTailBuffer in thinking-view.ts) and the head and the *)
(* rolling tail of a tool's output (bounded-tool-text.ts).  A text is a    *)
(* sequence of code units, each with its position; the two units of a      *)
(* surrogate pair are not to be parted.                                    *)
(***************************************************************************)
EXTENDS Integers, Sequences, SequencesExt, FiniteSets

CONSTANTS
  MaxLiveLines,       \* maxLiveThinkingLines
  MaxLiveCharacters,  \* maxLiveThinkingCharacters
  MaxToolCharacters,  \* maximumCharacters
  MarkerReserve,      \* markerReserveCharacters
  CompactAt,          \* compactConsumedChunksAt
  MaxText,            \* bound: units of a text
  MaxDelta            \* bound: units of a delta

ASSUME TailsAssumption ==
  /\ MaxLiveLines \in Nat \ {0} /\ MaxLiveCharacters \in Nat \ {0}
  /\ MaxToolCharacters \in Nat \ {0} /\ MarkerReserve \in Nat /\ CompactAt \in Nat
  /\ MaxText \in Nat /\ MaxDelta \in Nat

VARIABLES
  streamed,           \* the text so far
  tail,               \* the lines kept of a thought, and their length
  tool                \* what is kept of a tool's output

tailVars == <<streamed, tail, tool>>

Cut(a, b) == IF a < b THEN a ELSE b

\* Parts, one after the other, and their units.
FlatTo(parts) ==
  LET to[n \in 0 .. Len(parts)] == IF n = 0 THEN <<>> ELSE to[n - 1] \o parts[n] IN to

Flat(parts) == FlatTo(parts)[Len(parts)]
Total(parts) == Len(Flat(parts))

\* safeCutStart, safeSuffix and safePrefix: a pair is dropped, not split.
SafeStart(t, from) == IF from \in 1..(Len(t) - 1) /\ t[from].kind = "high" THEN from + 1
                      ELSE from
SafeSuffix(t, n) == SubSeq(t, SafeStart(t, IF n < Len(t) THEN Len(t) - n ELSE 0) + 1, Len(t))
SafePrefix(t, n) ==
  SubSeq(t, 1, IF n \in 1..(Len(t) - 1) /\ t[n].kind = "high" THEN n - 1 ELSE Cut(n, Len(t)))

(***************************************************************************)
(* ThinkingTailBuffer.                                                     *)
(***************************************************************************)
IsBreak(u) == u.kind = "newline"

\* split("\n"), whose first part goes on with the last line.  A line but the
\* last one keeps its newline here, which join puts between the lines.
AddUnit(lines, u) ==
  LET more == [lines EXCEPT ![Len(lines)] = Append(@, u)]
  IN  IF IsBreak(u) THEN Append(more, <<>>) ELSE more

LinesTo(lines, t) ==
  LET to[n \in 0 .. Len(t)] == IF n = 0 THEN lines ELSE AddUnit(to[n - 1], t[n]) IN to

AddLines(lines, t) == LinesTo(lines, t)[Len(t)]

LastLines(t) ==
  LET k == Len(t.lines) - MaxLiveLines
  IN  IF k <= 0 THEN t
      ELSE [lines |-> SubSeq(t.lines, k + 1, Len(t.lines)),
            length |-> t.length - Total(SubSeq(t.lines, 1, k))]

\* The most parts within an excess.
MostWithin(parts, excess) ==
  LET gone == {n \in 0 .. Len(parts) : Total(SubSeq(parts, 1, n)) <= excess}
  IN  CHOOSE n \in gone : \A k \in gone : k <= n

\* The second part of trim: whole lines go while they fit in the excess, and
\* then the start of the first one.
TrimCharacters(t) ==
  LET excess == t.length - MaxLiveCharacters
      n == MostWithin(t.lines, excess)
      gone == Total(SubSeq(t.lines, 1, n))
      first == t.lines[n + 1]
      start == SafeStart(first, excess - gone)
  IN  IF excess <= 0 THEN t
      ELSE IF n = Len(t.lines) THEN [lines |-> <<<<>>>>, length |-> t.length - gone]
      ELSE [lines |-> <<SubSeq(first, start + 1, Len(first))>>
                        \o SubSeq(t.lines, n + 2, Len(t.lines)),
            length |-> t.length - gone - start]

\* (mutant) Long lines are only cut when there are too many lines.
TrimLines(t) == LastLines(t)

Trim(t) == TrimCharacters(LastLines(t))

AppendTail(t, delta) ==
  LET new == [lines |-> AddLines(t.lines, delta), length |-> t.length + Len(delta)]
  IN  IF Len(new.lines) > MaxLiveLines \/ new.length > MaxLiveCharacters THEN Trim(new)
      ELSE new

ReplaceTail(text) ==
  LET suffix == SafeSuffix(text, MaxLiveCharacters)
  IN  LastLines([lines |-> AddLines(<<<<>>>>, suffix), length |-> Len(suffix)])

(***************************************************************************)
(* BoundedToolText.                                                        *)
(***************************************************************************)
MarkerLimit == Cut(MarkerReserve, MaxToolCharacters \div 2)
ContentLimit == MaxToolCharacters - MarkerLimit
HeadLimit == (ContentLimit + 1) \div 2
TailLimit == ContentLimit \div 2

NoText == [full |-> <<>>, head |-> <<>>, chunks |-> <<>>, start |-> 0,
           characters |-> 0, total |-> 0, truncated |-> FALSE]

\* A chunk that is there.
Chunk(text) == IF text = <<>> THEN <<>> ELSE <<text>>

BeginTruncation(t, delta) ==
  LET last == IF Len(delta) >= TailLimit THEN SafeSuffix(delta, TailLimit)
              ELSE SafeSuffix(t.full \o delta, TailLimit)
  IN  [t EXCEPT !.head = IF Len(t.full) >= HeadLimit THEN SafePrefix(t.full, HeadLimit)
                         ELSE t.full \o SafePrefix(delta, HeadLimit - Len(t.full)),
                !.full = <<>>, !.truncated = TRUE,
                !.chunks = IF last = <<>> THEN @ ELSE <<last>>,
                !.characters = IF last = <<>> THEN @ ELSE Len(last)]

\* The chunks before the start are consumed; they go when there are many.
Compacted(t) ==
  IF t.start >= CompactAt /\ t.start * 2 >= Len(t.chunks)
  THEN [t EXCEPT !.chunks = SubSeq(t.chunks, t.start + 1, Len(t.chunks)), !.start = 0]
  ELSE t

Unconsumed(t) == SubSeq(t.chunks, t.start + 1, Len(t.chunks))

\* The most chunks within the excess are consumed, and then the start of one.
Consume(t, excess) ==
  LET n == MostWithin(Unconsumed(t), excess)
      gone == Total(SubSeq(Unconsumed(t), 1, n))
      first == t.chunks[t.start + n + 1]
      kept == SafeSuffix(first, Len(first) - (excess - gone))
  IN  [t EXCEPT !.chunks = [i \in DOMAIN t.chunks |->
                              IF i <= t.start + n THEN <<>>
                              ELSE IF i = t.start + n + 1 THEN kept ELSE t.chunks[i]],
                !.start = t.start + n,
                !.characters = @ - gone - (Len(first) - Len(kept))]

AppendRolling(t, delta) ==
  LET last == SafeSuffix(delta, TailLimit)
      new == [t EXCEPT !.chunks = Append(@, delta), !.characters = @ + Len(delta)]
  IN  IF TailLimit = 0 THEN t
      ELSE IF Len(delta) >= TailLimit
      THEN [t EXCEPT !.chunks = Chunk(last), !.start = 0, !.characters = Len(last)]
      ELSE Compacted(IF new.characters <= TailLimit THEN new
                     ELSE Consume(new, new.characters - TailLimit))

AppendTool(t, delta) ==
  LET next == t.total + Len(delta)
      with == IF ~t.truncated /\ next <= MaxToolCharacters
              THEN [t EXCEPT !.full = @ \o delta]
              ELSE IF ~t.truncated THEN BeginTruncation(t, delta)
              ELSE AppendRolling(t, delta)
  IN  IF delta = <<>> THEN t ELSE [with EXCEPT !.total = next]

ToolTail(t) == Flat(Unconsumed(t))
OmittedCharacters(t) == t.total - Len(t.head) - t.characters

(***************************************************************************)
(* The stream.                                                             *)
(***************************************************************************)

\* Deltas are whole characters: plain ones, newlines and surrogate pairs.
Deltas(n) ==
  {kinds \in [1 .. n -> {"plain", "newline", "high", "low"}] :
     \A i \in 1 .. n : /\ kinds[i] = "high" => i < n
                       /\ kinds[i] = "low" <=> i > 1 /\ kinds[i - 1] = "high"}

StreamGrows ==
  \E n \in 1 .. MaxDelta : \E kinds \in Deltas(n) :
    LET delta == [i \in 1 .. n |-> [at |-> Len(streamed) + i, kind |-> kinds[i]]]
    IN  /\ Len(streamed) + n <= MaxText
        /\ streamed' = streamed \o delta
        /\ tail' = AppendTail(tail, delta)
        /\ tool' = AppendTool(tool, delta)

\* The text is sent again in one piece: ThinkingView.setText with another text,
\* BoundedToolText.replace.
StreamReplaced ==
  /\ streamed' = streamed
  /\ tail' = ReplaceTail(streamed)
  /\ tool' = AppendTool(NoText, streamed)

TailsInit ==
  /\ streamed = <<>> /\ tail = [lines |-> <<<<>>>>, length |-> 0] /\ tool = NoText

TailsNext == StreamGrows \/ StreamReplaced

TailsSpec == TailsInit /\ [][TailsNext]_tailVars

(***************************************************************************)
(* Whatever pieces the text came in, what is kept of a thought is the      *)
(* longest end of it within both limits, and what is kept of a tool's      *)
(* output is all of it, or its longest head and tail within theirs; no     *)
(* pair is split, and the counters are those of what is kept (append,      *)
(* trim, beginTruncation, appendTail).                                     *)
(***************************************************************************)
BreaksTo(t) ==
  LET to[n \in 0 .. Len(t)] ==
        IF n = 0 THEN 0 ELSE to[n - 1] + (IF IsBreak(t[n]) THEN 1 ELSE 0)
  IN  to

Breaks(t) == BreaksTo(t)[Len(t)]

Within(t, characters, breaks) == Len(t) <= characters /\ Breaks(t) <= breaks

LongestEnd(t, characters, breaks) ==
  LET from == {i \in 1 .. Len(t) + 1 : /\ i <= Len(t) => t[i].kind # "low"
                                       /\ Within(SubSeq(t, i, Len(t)), characters, breaks)}
  IN  SubSeq(t, CHOOSE i \in from : \A j \in from : i <= j, Len(t))

LongestStart(t, n) ==
  LET to == {i \in 0 .. Cut(n, Len(t)) : i = 0 \/ t[i].kind # "high"}
  IN  SubSeq(t, 1, CHOOSE i \in to : \A j \in to : j <= i)

\* A text has no more breaks than units: for a tool they have no limit of
\* their own.
KeptIsTheText ==
  /\ Flat(tail.lines) = LongestEnd(streamed, MaxLiveCharacters, MaxLiveLines - 1)
  /\ tail.length = Total(tail.lines)
  /\ ~tool.truncated => tool.full = streamed
  /\ tool.truncated =>
       /\ tool.head = LongestStart(streamed, HeadLimit)
       /\ ToolTail(tool) = LongestEnd(streamed, TailLimit, TailLimit)
       /\ OmittedCharacters(tool) = Len(streamed) - Len(tool.head) - Len(ToolTail(tool))
=============================================================================
