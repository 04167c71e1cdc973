---------------------------- MODULE MarkdownView ----------------------------
(***************************************************************************)
(* How an answer is drawn while it streams in (rich-markdown.ts).  The     *)
(* text is cut into segments, and a segment that the detectors recognise   *)
(* gets a component that renders it piece by piece and keeps what it       *)
(* rendered; any other segment is rendered whole each time.  A line is its *)
(* kind, its size and where it has inline markup, if any; the row it is    *)
(* drawn as is the line with the place and the column width it was drawn   *)
(* for, so that a row kept from an earlier rendering is seen to be stale.  *)
(*                                                                         *)
(* Kinds of line: "text", "blank"; "fence", "json" and "script" open a     *)
(* fence of a language highlighted line by line, of JSON and of TypeScript,*)
(* "tick" closes one, and "open" is code that goes on in the next line;    *)
(* "head" and "row" of a table; "item" of a list with "child" lines under  *)
(* it; "quote", "deep" (nested) and "half" (with one end of an emphasis)   *)
(* of a quotation, "opener" of a fence in one, and "entry", "under" and    *)
(* "bar" of a list in one: an item, a line under it, a separator.          *)
(***************************************************************************)
EXTENDS Integers, Sequences, SequencesExt, FiniteSets

CONSTANTS
  Sample,          \* what a text is made of: kinds of line, and bounds for
                   \* its lines and for how often it is replaced
  LineSize,        \* bound: size of a line
  Width,           \* the widths of the terminal
  InitialChunks,   \* maxInitialStreamingStableChunks
  StructuredLines, \* maxStreamingStructuredLines
  MaxRows,         \* maxStreamingPresentationCharacters, in rows
  Misdrawn         \* <<class, width>>: drawn in pieces it differs from the whole

LineKind ==
  {"text", "blank", "mermaid", "fence", "json", "script", "tick", "open", "head", "row",
   "item", "child", "quote", "deep", "half", "opener", "entry", "under", "bar"}

\* A component that goes on may have at least the pieces of a new one.
ASSUME MarkdownAssumption ==
  /\ \A s \in Sample : s.kinds \subseteq LineKind
  /\ Width \subseteq Nat \ {0} /\ LineSize \in Nat
  /\ InitialChunks \in Nat /\ StructuredLines \in Nat /\ InitialChunks <= StructuredLines

VARIABLES
  sample,          \* the sample of this text
  text,            \* the text of the view, a sequence of lines
  rendered,        \* renderedSegments: segments with their components
  whole,           \* cachedLines with cachedText and cachedWidth
  screen,          \* what was drawn, until the text changes, and for what width
  rewrites         \* how often the text was replaced

viewVars == <<sample, text, rendered, whole, screen, rewrites>>

Nothing == [none |-> TRUE]

Fresh(k) == [kind |-> k, size |-> 1, mark |-> 0]

Kinds(t) == {t[i].kind : i \in DOMAIN t}
Marked(t) == \E i \in DOMAIN t : t[i].mark > 0

(***************************************************************************)
(* The segments of a text.                                                 *)
(***************************************************************************)

Fences == {"fence", "json", "script"}
Quoted == {"quote", "half", "opener", "entry", "under"}

\* The fence a text is in after a line; "tick" opens one too.
FenceStep(fence, l) ==
  IF fence = "none" /\ l.kind = "mermaid" THEN "mermaid"
  ELSE IF fence = "none" /\ l.kind \in Fences \cup {"tick"} THEN "code"
  ELSE IF fence # "none" /\ l.kind = "tick" THEN "none"
  ELSE fence

FenceAfter(t) ==
  LET f[i \in 0..Len(t)] == IF i = 0 THEN "none" ELSE FenceStep(f[i - 1], t[i])
  IN  f

Solid(t) == {i \in DOMAIN t : t[i].kind # "blank"}

TrimBlankLines(t) ==
  IF Solid(t) = {} THEN <<>>
  ELSE SubSeq(t, CHOOSE i \in Solid(t) : \A j \in Solid(t) : i <= j,
                 CHOOSE i \in Solid(t) : \A j \in Solid(t) : j <= i)

Contextual(l) == l.kind \in Quoted \cup {"deep", "bar", "item", "child"}

\* splitMarkdownBlocks: a blank line outside a fence separates two blocks
\* unless one of them begins with a line whose meaning depends on its context.
CutAt(t, acc, i) ==
  LET block == TrimBlankLines(SubSeq(t, acc.start, i - 1))
      next == {j \in Solid(t) : j > i}
  IN  IF /\ t[i].kind = "blank" /\ FenceAfter(t)[i] = "none"
         /\ block # <<>> /\ next # {}
         /\ ~Contextual(block[1])
         /\ ~Contextual(t[CHOOSE j \in next : \A k \in next : j <= k])
      THEN [start |-> i + 1, done |-> Append(acc.done, block)]
      ELSE acc

CutUpTo(t) ==
  LET f[i \in 0..Len(t)] == IF i = 0 THEN [start |-> 1, done |-> <<>>] ELSE CutAt(t, f[i - 1], i)
  IN  f

CutWith(t, cut) == Append(cut.done, TrimBlankLines(SubSeq(t, cut.start, Len(t))))

Blocks(t) ==
  IF t = <<>> THEN <<>>
  ELSE IF Contextual(t[1]) THEN <<t>>
  ELSE CutWith(t, CutUpTo(t)[Len(t)])

ProseOf(blocks) == [i \in DOMAIN blocks |-> [diagram |-> FALSE, lines |-> blocks[i]]]
Prose(t) == ProseOf(Blocks(TrimBlankLines(t)))
Diagram(t) == <<[diagram |-> TRUE, lines |-> t]>>

\* splitMarkdownSegments and splitStreamingMarkdownSegments: only a closed
\* mermaid fence is a segment of its own.
CloseAt(t, acc, i) ==
  LET before == FenceAfter(t)[i - 1]
      after == FenceAfter(t)[i]
  IN  IF before = "none" /\ after = "mermaid" THEN [acc EXCEPT !.opened = i]
      ELSE IF before = "mermaid" /\ after = "none"
      THEN [start |-> i + 1, opened |-> i,
            done |-> acc.done \o Prose(SubSeq(t, acc.start, acc.opened - 1))
                              \o Diagram(SubSeq(t, acc.opened + 1, i - 1))]
      ELSE acc

ClosedUpTo(t) ==
  LET f[i \in 0..Len(t)] == IF i = 0 THEN [start |-> 1, opened |-> 0, done |-> <<>>]
                            ELSE CloseAt(t, f[i - 1], i)
  IN  f

ClosedWith(t, closed) == closed.done \o Prose(SubSeq(t, closed.start, Len(t)))
Segments(t) == ClosedWith(t, ClosedUpTo(t)[Len(t)])

(***************************************************************************)
(* Rendering as a whole: what the Markdown component draws, which the      *)
(* pieces must add up to.                                                  *)
(***************************************************************************)
Rows(n, w) == (n + w - 1) \div w

\* A plain line is wrapped: row k shows the part of it from (k-1)w+1 on.
WrapFrom(l, from, w) ==
  [k \in 1..Rows(l.size - from, w) |->
     [from |-> from + (k - 1) * w,
      to |-> IF from + k * w < l.size THEN from + k * w ELSE l.size,
      mark |-> l.mark]]

\* Where a line of a quotation is: the style opens at its first line and ends
\* at its last.
Place(i, n) == IF n = 1 THEN "only" ELSE IF i = 1 THEN "first"
               ELSE IF i = n THEN "last" ELSE "middle"

Draw(l, place, column, w) ==
  [k \in 1..Rows(l.size, w) |->
     [line |-> l, cut |-> k, place |-> place, column |-> column]]

Frame(edge, column, w) == <<[edge |-> edge, column |-> column, width |-> w]>>

Widest(t) == CHOOSE n \in {t[i].size : i \in DOMAIN t} :
               \A i \in DOMAIN t : t[i].size <= n

FlattenRows(rows) == FoldLeft(LAMBDA a, b : a \o b, <<>>, rows)

\* The class of component for a text, in the order of syncRenderedSegments;
\* limit is what each may have of pieces.
FlatQuote(t) == Kinds(t) = {"quote"} /\ ~Marked(t)

LineLocalQuote(t, limit) ==
  \/ Kinds(t) = {"quote"} /\ Marked(t)
  \/ Kinds(t) = {"deep"} /\ Len(t) <= limit

\* An emphasis that one line of a quotation opens and a later one closes: the
\* lines from the one to the other are one chunk.
Halves(t, i) == Cardinality({j \in 1..i : t[j].kind = "half"})
Inside(t, i) == Halves(t, i) % 2 = 1

ChunkEnds(t) == {i \in DOMAIN t : ~Inside(t, i) \/ i = Len(t)}

\* The members of a set of numbers in their order.
Ascending(S) ==
  [n \in 1..Cardinality(S) |-> CHOOSE i \in S : Cardinality({j \in S : j <= i}) = n]

QuoteChunks(t) ==
  LET ends == Ascending(ChunkEnds(t))
  IN  [n \in DOMAIN ends |-> SubSeq(t, IF n = 1 THEN 1 ELSE ends[n - 1] + 1, ends[n])]

CrossLineQuote(t, limit) ==
  /\ Kinds(t) \subseteq {"quote", "half"} /\ Halves(t, Len(t)) >= 2
  /\ Len(t) <= 2 * limit /\ Cardinality(ChunkEnds(t)) <= limit
  /\ \A i \in DOMAIN t : Inside(t, i) => t[i].mark = 0

\* The lines of code in a fence, and the containers each of them is in.
Code(t) == SubSeq(t, 2, IF t[Len(t)].kind = "tick" THEN Len(t) - 1 ELSE Len(t))
Context(code, i) == Cardinality({j \in 1..(i - 1) : code[j].kind = "open"})

\* strictJsonLineContexts: a container may hold one level of others.
JsonContexts(code) ==
  /\ Kinds(code) \subseteq {"text", "open"}
  /\ "open" \in Kinds(code) => code[1].kind = "open"
  /\ Context(code, Len(code) + 1) <= 2

\* isLineLocalBashLine, isLineLocalJavaScript, isLineLocalPythonLine.
LineLocal(code) == "open" \notin Kinds(code)

Highlightable(opener, code) ==
  CASE opener.kind = "fence" -> LineLocal(code)
    [] opener.kind = "json" -> JsonContexts(code)
    [] opener.kind = "script" -> TRUE
    [] OTHER -> FALSE

\* TypeScript is highlighted as a whole, so its lines are not counted as pieces.
StrictFence(t, limit) ==
  /\ Len(Code(t)) \in 1..(IF t[1].kind = "script" THEN StructuredLines ELSE limit)
  /\ "tick" \notin Kinds(Code(t))
  /\ Highlightable(t[1], Code(t))

\* A fence in a quotation goes to the end of it.
QuotedFence(t, limit) ==
  /\ t[1].kind = "opener" /\ Len(t) \in 2..(limit + 1)
  /\ \A i \in 2..Len(t) : t[i].kind \in Quoted \ {"opener"}

StrictTable(t, limit) ==
  /\ t[1].kind = "head" /\ Len(t) \in 2..(limit + 1)
  /\ \A i \in 2..Len(t) : t[i].kind = "row"

\* The items of a list, each with the lines under it but for separators.
Items(t) ==
  LET starts == Ascending({i \in DOMAIN t : t[i].kind \in {"item", "entry"}})
      End(n) == IF n = Len(starts) THEN Len(t) ELSE starts[n + 1] - 1
  IN  [n \in DOMAIN starts |->
         TrimBlankLines(SelectSeq(SubSeq(t, starts[n], End(n)), LAMBDA l : l.kind # "bar"))]

Separated(t, kind) == \A i \in DOMAIN t : t[i].kind = kind <=> i % 2 = 0

\* No item, or each one, has lines under it.
Uniform(t) == t[1].kind = "item" /\ ("child" \in Kinds(t) => \A item \in ToSet(Items(t)) : Len(item) > 1)

LooseItems(t) ==
  Separated(t, "blank") /\ Len(t) >= 3 /\ Kinds(t) \subseteq {"item", "child", "blank"} /\ Uniform(t)

RootList(t, limit) ==
  \/ Kinds(t) = {"item"}
  \/ /\ LooseItems(t) \/ (Kinds(t) = {"item", "child"} /\ Uniform(t))
     /\ Len(Items(t)) <= limit

LooseEntries(t) ==
  Separated(t, "bar") /\ Kinds(t) = {"entry", "bar"} /\ Len(Items(t)) > 1

QuotedList(t, limit) ==
  /\ (t[1].kind = "entry" /\ Kinds(t) \subseteq {"entry", "under"}) \/ LooseEntries(t)
  /\ Len(Items(t)) <= limit

SeparatorKind(t) == IF LooseItems(t) THEN "blank" ELSE IF LooseEntries(t) THEN "bar" ELSE "none"

Plain(t) == Len(t) = 1 /\ t[1].kind = "text" /\ t[1].mark = 0
StableInline(t) == Len(t) = 1 /\ t[1].kind = "text" /\ t[1].mark \in 1..(t[1].size - 1)

ClassOf(t, limit) ==
  IF Plain(t) THEN "plain"
  ELSE IF StrictFence(t, limit["fence"]) THEN "fence"
  ELSE IF QuotedFence(t, limit["quotedFence"]) THEN "quotedFence"
  ELSE IF StrictTable(t, limit["table"]) THEN "table"
  ELSE IF FlatQuote(t) THEN "flatQuote"
  ELSE IF LineLocalQuote(t, limit["lineLocal"]) THEN "lineLocal"
  ELSE IF CrossLineQuote(t, limit["crossLine"]) THEN "crossLine"
  ELSE IF QuotedList(t, limit["quotedList"]) THEN "quotedList"
  ELSE IF StableInline(t) THEN "inline"
  ELSE IF RootList(t, limit["list"]) THEN "list"
  ELSE "markdown"

Limited == {"fence", "quotedFence", "table", "lineLocal", "crossLine", "quotedList", "list"}
Structured == [c \in Limited |-> StructuredLines]

\* The pieces of a text a component of the class draws one by one: their
\* sources, the rows of each, whether a piece is found again by its position
\* alone, and how many pieces at the end are drawn again in any case.
FencedPieces(t, w) ==
  LET code == Code(t)
      lit == [i \in DOMAIN code |-> <<Context(code, i), code[i]>>]
  IN  [sources |-> lit, rows |-> [i \in DOMAIN code |-> Draw(code[i], "code", lit[i][1], w)],
       head |-> Frame("opening", 0, w), foot |-> Frame("closing", 0, w),
       between |-> <<>>, redrawn |-> 0, key |-> 0]

QuotedFencePieces(t, w) ==
  [sources |-> Tail(t), rows |-> [i \in DOMAIN Tail(t) |-> Draw(t[i + 1], "quoted code", 0, w)],
   head |-> Frame("quoted opening", 0, w), foot |-> Frame("quoted closing", 0, w),
   between |-> <<>>, redrawn |-> 1, key |-> 0]

\* The line is kept with the style around it, which depends on its place.
FlatQuotePieces(t, w) ==
  [sources |-> [i \in DOMAIN t |-> <<Place(i, Len(t)), t[i]>>],
   rows |-> [i \in DOMAIN t |-> Draw(t[i], Place(i, Len(t)), 0, w)],
   head |-> <<>>, foot |-> <<>>, between |-> <<>>, redrawn |-> 0, key |-> 0]

\* stitchStandaloneQuotePart: the rows of a part drawn alone become those of
\* part n of a quotation.
Stitched(lines, n, parts, w) ==
  FlattenRows([j \in DOMAIN lines |-> Draw(lines[j], Place(n, parts), j, w)])

\* (mutant) The last part is kept like the others.
StitchedKeepingLast(parts, w) ==
  [sources |-> parts,
   rows |-> [i \in DOMAIN parts |-> Stitched(parts[i], i, Len(parts), w)],
   head |-> <<>>, foot |-> <<>>, between |-> <<>>, redrawn |-> 0, key |-> 0]

\* A part is kept without its place, and the last part is drawn again.
StitchedPieces(parts, w) ==
  [sources |-> parts,
   rows |-> [i \in DOMAIN parts |-> Stitched(parts[i], i, Len(parts), w)],
   head |-> <<>>, foot |-> <<>>, between |-> <<>>, redrawn |-> 1, key |-> 0]

LineLocalPieces(t, w) == StitchedPieces([i \in DOMAIN t |-> <<t[i]>>], w)
CrossLinePieces(t, w) == StitchedPieces(QuoteChunks(t), w)

ListPieces(t, w) ==
  LET items == Items(t)
      Of(item) == FlattenRows([j \in DOMAIN item |-> Draw(item[j], "item", 0, w)])
  IN  [sources |-> items, rows |-> [i \in DOMAIN items |-> Of(items[i])],
       head |-> <<>>, foot |-> <<>>,
       between |-> IF SeparatorKind(t) = "none" THEN <<>> ELSE Frame(SeparatorKind(t), 0, w),
       redrawn |-> 0, key |-> 0]

\* Rows are kept while the widest cells of the table stay the same.
TablePieces(t, w) ==
  LET rows == Tail(t)
      column == Widest(rows)
  IN  [sources |-> rows,
       rows |-> [i \in DOMAIN rows |-> Draw(rows[i], "row", column, w)],
       head |-> Frame("top", column, w), foot |-> Frame("bottom", column, w),
       between |-> Frame("separator", column, w), redrawn |-> 0, key |-> column]

Pieces(class, t, w) ==
  CASE class = "fence" -> FencedPieces(t, w)
    [] class = "quotedFence" -> QuotedFencePieces(t, w)
    [] class = "flatQuote" -> FlatQuotePieces(t, w)
    [] class = "lineLocal" -> LineLocalPieces(t, w)
    [] class = "crossLine" -> CrossLinePieces(t, w)
    [] class \in {"list", "quotedList"} -> ListPieces(t, w)
    [] class = "table" -> TablePieces(t, w)

Assemble(p, rows) ==
  p.head \o FlattenRows([i \in DOMAIN rows |->
                           IF i = 1 THEN rows[i] ELSE p.between \o rows[i]])
         \o p.foot

AllPieces(p) == Assemble(p, p.rows)

WholeOf(class, t, w) ==
  IF class \in {"plain", "inline"} THEN WrapFrom(t[1], 0, w)
  ELSE IF class = "markdown" THEN <<[prose |-> t, width |-> w]>>
  ELSE AllPieces(Pieces(class, t, w))

Whole(t, w) == WholeOf(ClassOf(t, Structured), t, w)

WholeSegment(s, w) == IF s.diagram THEN <<[diagram |-> s.lines, width |-> w]>>
                      ELSE Whole(s.lines, w)

BlankRow == <<[blank |-> TRUE]>>

Join(parts) ==
  FlattenRows([i \in DOMAIN parts |->
                 IF i = 1 THEN parts[i] ELSE BlankRow \o parts[i]])

WholeSegments(s, w) == Join([i \in DOMAIN s |-> WholeSegment(s[i], w)])
WholeText(t, w) == WholeSegments(Segments(t), w)

(***************************************************************************)
(* The components.                                                         *)
(***************************************************************************)
Component(class, t) ==
  [class |-> class, raw |-> t, kept |-> Nothing, cached |-> Nothing,
   validated |-> {}, rejected |-> {}]

InvalidateComponent(c) == Component(c.class, c.raw)

\* A line of a quotation gets one end of an emphasis, or the other.
EmphasisGrows(a, b) == \/ a.kind = "quote" /\ b.kind = "half"
                       \/ a.kind = "half" /\ b.kind = "quote" /\ b.mark > 0

\* Whether text t goes on from text s: text.startsWith(this.rawText).
GoesOn(s, t) ==
  /\ s # <<>> /\ Len(s) <= Len(t)
  /\ \A i \in 1..(Len(s) - 1) : s[i] = t[i]
  /\ LET a == s[Len(s)]
         b == t[Len(s)]
     IN  /\ a.kind = b.kind \/ EmphasisGrows(a, b)
         /\ a.size <= b.size
         /\ a.mark = b.mark \/ (a.mark = 0 /\ b.mark >= a.size)

\* tryAppend: the component takes the longer text if it is still of its class.
\* The list resets what it knows when its separators change.
TryAppend(c, t) ==
  /\ GoesOn(c.raw, t)
  /\ IF c.class = "inline" THEN Len(t) = 1 /\ t[1].mark = c.raw[1].mark
     ELSE ClassOf(t, Structured) = c.class

Appended(c, t) ==
  IF c.class \in {"list", "quotedList"} /\ SeparatorKind(t) # SeparatorKind(c.raw)
  THEN Component(c.class, t)
  ELSE [c EXCEPT !.raw = t, !.cached = Nothing]

\* StreamingPlainText.setText: what was wrapped is kept while the text grows.
SetPlain(c, t) ==
  [c EXCEPT !.raw = t, !.cached = Nothing,
            !.kept = IF GoesOn(c.raw, t) THEN c.kept ELSE Nothing]

\* StreamingPlainText.render, also of an inline component: the rows before the
\* last one stay, the last one is wrapped again with what was added.
RenderWrapped(c, w) ==
  LET grows == c.kept # Nothing /\ c.kept.width = w /\ GoesOn(c.kept.source, c.raw)
      last == IF grows THEN c.kept.rows[Len(c.kept.rows)].from ELSE 0
      rows == (IF grows THEN Front(c.kept.rows) ELSE <<>>)
                \o WrapFrom(c.raw[1], last, w)
  IN  [comp |-> [c EXCEPT !.kept = [width |-> w, source |-> c.raw, rows |-> rows]],
       rows |-> rows]

\* renderStableMarkdownLines: the pieces p, drawn before at this width, are used
\* again up to the first one that differs, but for those at the end.
Drawn(c, w, p) ==
  LET usable == c.kept # Nothing /\ c.kept.width = w /\ c.kept.key = p.key
      limit == IF ~usable THEN 0
               ELSE (IF Len(c.kept.sources) < Len(p.sources)
                     THEN Len(c.kept.sources) ELSE Len(p.sources)) - p.redrawn
      Kept(i) == i <= limit /\ \A j \in 1..i : c.kept.sources[j] = p.sources[j]
  IN  [width |-> w, key |-> p.key, sources |-> p.sources,
       rows |-> [i \in DOMAIN p.rows |->
                   IF Kept(i) THEN c.kept.rows[i] ELSE p.rows[i]]]

Shown(c, w, rows) ==
  IF <<c.class, w>> \in Misdrawn THEN CHOOSE other \in {<<>>, BlankRow} : other # rows
  ELSE rows

Assembled(c, w, p, d) == [state |-> d, rows |-> Shown(c, w, Assemble(p, d.rows))]
OfPieces(c, w, p) == Assembled(c, w, p, Drawn(c, w, p))
Optimized(c, w) == OfPieces(c, w, Pieces(c.class, c.raw, w))

Reject(c, w) == [comp |-> [c EXCEPT !.rejected = @ \cup {w}], rows |-> Whole(c.raw, w)]

\* render of the components that draw in pieces: the first rendering at a width
\* is compared with the whole, later ones are trusted.
TrustPieces(c, w, o) ==
  IF Len(o.rows) > MaxRows \/ (w \notin c.validated /\ o.rows # Whole(c.raw, w))
  THEN Reject(c, w)
  ELSE [comp |-> [c EXCEPT !.validated = @ \cup {w}, !.kept = o.state,
                           !.cached = [width |-> w, rows |-> o.rows]],
        rows |-> o.rows]

RenderPieces(c, w) ==
  IF c.cached # Nothing /\ c.cached.width = w THEN [comp |-> c, rows |-> c.cached.rows]
  ELSE IF w \in c.rejected THEN [comp |-> c, rows |-> Whole(c.raw, w)]
  ELSE TrustPieces(c, w, Optimized(c, w))

TrustInline(c, w, rows) ==
  IF w \notin c.validated /\ rows # Whole(c.raw, w) THEN Reject(c, w)
  ELSE [comp |-> [c EXCEPT !.validated = @ \cup {w}], rows |-> rows]

InlineRows(o, w) == TrustInline(o.comp, w, Shown(o.comp, w, o.rows))

RenderInline(c, w) ==
  IF w \in c.rejected THEN [comp |-> c, rows |-> Whole(c.raw, w)]
  ELSE InlineRows(RenderWrapped(c, w), w)

RenderComponent(c, w) ==
  CASE c.class = "diagram" -> [comp |-> c, rows |-> <<[diagram |-> c.raw, width |-> w]>>]
    [] c.class = "markdown" -> [comp |-> c, rows |-> Whole(c.raw, w)]
    [] c.class = "plain" -> RenderWrapped(c, w)
    [] c.class = "inline" -> RenderInline(c, w)
    [] OTHER -> RenderPieces(c, w)

(***************************************************************************)
(* The view.                                                               *)
(***************************************************************************)

\* syncRenderedSegments for the segment at index i: keep the component, let it
\* take the longer text, or make one.
SyncSegment(old, new, i) ==
  LET seg == new[i]
      had == i \in DOMAIN old
      prev == old[i]
      prose == had /\ ~prev.seg.diagram /\ ~seg.diagram
      grows == prose /\ GoesOn(prev.seg.lines, seg.lines)
      last == i = Len(new)
      limit == [c \in Limited |-> IF grows /\ prev.comp.class = c
                                  THEN StructuredLines ELSE InitialChunks]
      class == IF seg.diagram THEN "diagram" ELSE ClassOf(seg.lines, limit)
      With(c) == [seg |-> seg, comp |-> c]
  IN  IF had /\ prev.seg = seg THEN prev
      ELSE IF /\ prose /\ last
              /\ prev.comp.class \in {"list", "quotedList", "crossLine"} => grows
              /\ prev.comp.class \notin {"plain", "markdown"}
              /\ TryAppend(prev.comp, seg.lines)
           THEN With(Appended(prev.comp, seg.lines))
      ELSE IF prose /\ last /\ prev.comp.class = "plain" /\ class = "plain"
           THEN With(SetPlain(prev.comp, seg.lines))
      ELSE IF prose /\ last /\ prev.comp.class = "markdown" /\ class = "markdown"
           THEN With([prev.comp EXCEPT !.raw = seg.lines])
      ELSE With(Component(class, seg.lines))

SyncAll(old, new) == [i \in DOMAIN new |-> SyncSegment(old, new, i)]
SyncSegments(old, t) == SyncAll(old, Segments(t))

\* render: each segment in turn, a blank row between two.
Gather(segs, r) ==
  [segs |-> [i \in DOMAIN segs |-> [segs[i] EXCEPT !.comp = r[i].comp]],
   rows |-> Join([i \in DOMAIN segs |-> r[i].rows])]

RenderAll(segs, w) ==
  Gather(segs, [i \in DOMAIN segs |-> RenderComponent(segs[i].comp, w)])

Released(segs) == [i \in DOMAIN segs |->
                     [segs[i] EXCEPT !.comp = InvalidateComponent(@)]]

MarkdownInit ==
  /\ sample \in Sample
  /\ text = <<>> /\ rendered = <<>> /\ whole = Nothing
  /\ screen = Nothing /\ rewrites = 0

\* appendText: the delta starts a line, or goes on with the last one.
AppendText ==
  /\ \/ /\ Len(text) < sample.lines
        /\ \E k \in sample.kinds : text' = Append(text, Fresh(k))
     \/ /\ text # <<>> /\ Last(text).kind \in {"text", "quote", "deep", "item", "child", "row"}
        /\ \/ /\ Last(text).size < LineSize
              /\ text' = [text EXCEPT ![Len(text)].size = @ + 1]
           \/ /\ Last(text).kind \in {"text", "quote"} /\ Last(text).mark = 0
              /\ text' = [text EXCEPT ![Len(text)].mark = Last(text).size]
     \/ /\ text # <<>> /\ Last(text).kind = "half"
        /\ text' = [text EXCEPT ![Len(text)].kind = "quote",
                                ![Len(text)].mark = Last(text).size]
  /\ whole' = Nothing /\ screen' = Nothing
  /\ UNCHANGED <<sample, rendered, rewrites>>

\* setText with a text that is not the one shown with something added: its
\* end is cut off, or its first line is another.
SetText ==
  /\ text # <<>> /\ rewrites < sample.rewrites
  /\ \/ text' = Front(text)
     \/ \E k \in sample.kinds : text' = [text EXCEPT ![1] = Fresh(k)]
  /\ text' # text
  /\ whole' = Nothing /\ screen' = Nothing /\ rewrites' = rewrites + 1
  /\ UNCHANGED <<sample, rendered>>

Show(w, r) ==
  /\ rendered' = r.segs
  /\ whole' = [width |-> w, rows |-> r.rows]
  /\ screen' = [width |-> w, rows |-> r.rows]

RenderView(w) ==
  /\ IF whole # Nothing /\ whole.width = w
     THEN /\ screen' = [width |-> w, rows |-> whole.rows]
          /\ UNCHANGED <<rendered, whole>>
     ELSE Show(w, RenderAll(SyncSegments(rendered, text), w))
  /\ UNCHANGED <<sample, text, rewrites>>

\* renderWindow: the segments are measured and release what they keep, and
\* those in the window are rendered once more; here the window is the text.
ShowWindow(w, r) ==
  /\ rendered' = Released(r.segs)
  /\ screen' = [width |-> w, rows |-> r.rows]

Measured(w) == Released(RenderAll(SyncSegments(rendered, text), w).segs)

RenderViewWindow(w) ==
  /\ ShowWindow(w, RenderAll(Measured(w), w))
  /\ whole' = Nothing
  /\ UNCHANGED <<sample, text, rewrites>>

\* invalidate, when the transcript releases a block.
InvalidateView ==
  /\ rendered' = Released(rendered)
  /\ whole' = Nothing
  /\ UNCHANGED <<sample, text, screen, rewrites>>

MarkdownNext ==
  \/ AppendText \/ SetText \/ InvalidateView
  \/ \E w \in Width : RenderView(w) \/ RenderViewWindow(w)

MarkdownSpec == MarkdownInit /\ [][MarkdownNext]_viewVars

(***************************************************************************)
(* What is on the screen is the text it was drawn for, drawn at the width  *)
(* it was drawn for, as the Markdown renderer would draw it as a whole: no *)
(* row kept from an earlier text or width is shown after the text, the     *)
(* place of a line in it or the columns have changed (the caches of the    *)
(* streaming components and of RichMarkdown).                              *)
(***************************************************************************)
ScreenShowsTheText ==
  screen # Nothing => screen.rows = WholeText(text, screen.width)
=============================================================================
