--------------------------- MODULE CodeHighlight ---------------------------
(***************************************************************************)
(* The highlighter every view of the terminal shares (code-highlighter.ts):*)
(* a cache of what was highlighted, least recently used first, and one     *)
(* TypeScript source that is still growing, of which only what was added   *)
(* is highlighted when that gives the same as highlighting it all.  A      *)
(* source is a sequence of lines, the last one perhaps unfinished; a line  *)
(* is what it does to the delimiters and how it ends, and the row it is    *)
(* highlighted as is the line with what was open before it.                *)
(***************************************************************************)
EXTENDS Integers, Sequences, SequencesExt, FiniteSets

CONSTANTS
  CodeSample,         \* kinds of line, bound for the lines of the growing
                      \* source, and the delimiters inside which highlight.js
                      \* draws a line differently
  OtherCode,          \* what other views show: sources with their languages
  Scheme,             \* colour schemes
  MaxHighlightLines,  \* maxHighlightCharacters
  MaxActive,          \* ACTIVE_TYPESCRIPT_HIGHLIGHT_MAX_CHARACTERS
  MaxCached,          \* CODE_HIGHLIGHT_CACHE_MAX_ENTRIES
  MaxCacheCharacters  \* CODE_HIGHLIGHT_CACHE_MAX_CHARACTERS

VARIABLES
  codeSample,         \* the sample of this run
  source,             \* the source that grows
  cache,              \* the cache, a sequence of keys with their rows
  cacheCharacters,
  active,             \* activeTypescript
  scheme,             \* colorScheme
  handed              \* the rows handed to a view last, until the source grows

codeVars == <<codeSample, source, cache, cacheCharacters, active, scheme, handed>>

NoStream == [mode |-> "none"]

(***************************************************************************)
(* Lines: "stmt" ends with a semicolon, "bare" does not, "blank" is empty, *)
(* "head" opens a function and "call" a list of arguments, "brace" and     *)
(* "done" close them, and "tick" has the backtick of a template.           *)
(***************************************************************************)
Opens == [head |-> "{", call |-> "("]
Closes == [brace |-> "{", done |-> "("]
Ends == {"blank", "stmt", "done", "brace"}

\* scriptDelimiterStack: what a text leaves open; <<"wrong">> if it closes
\* what is not open.
Wrong == <<"wrong">>

DelimiterStack(t) ==
  LET Read(stack, k) ==
        IF stack = Wrong THEN Wrong
        ELSE IF k \in DOMAIN Opens THEN Append(stack, Opens[k])
        ELSE IF k \notin DOMAIN Closes THEN stack
        ELSE IF stack # <<>> /\ Last(stack) = Closes[k] THEN Front(stack)
        ELSE Wrong
  IN  FoldLeft(Read, <<>>, t)

Balanced(t) == DelimiterStack(t) = <<>>

\* highlightSource: a line within a template, or within a delimiter that
\* matters, is drawn differently from the same line alone.
HighlightSource(t, colours) ==
  LET Read(state, k) ==
        IF k = "tick" THEN [state EXCEPT !.template = ~@]
        ELSE IF state.template THEN state
        ELSE IF k \in DOMAIN Opens THEN [state EXCEPT !.open = Append(@, Opens[k])]
        ELSE IF k \in DOMAIN Closes /\ state.open # <<>>
             THEN [state EXCEPT !.open = Front(@)]
        ELSE state
      Before(i) == FoldLeft(Read, [template |-> FALSE, open |-> <<>>],
                            SubSeq(t, 1, i - 1))
  IN  [i \in DOMAIN t |->
         [line |-> t[i], scheme |-> colours, template |-> Before(i).template,
          inside |-> \E d \in codeSample.contextual : Contains(Before(i).open, d)]]

PlainRows(t) == [i \in DOMAIN t |-> [line |-> t[i]]]

(***************************************************************************)
(* What can be cut: lines, blocks between blank lines, and statements.     *)
(***************************************************************************)
Unsafe(t) == Contains(t, "tick")

LineLocalSuffix(t) ==
  ~Unsafe(t) /\ \A i \in 1..(Len(t) - 1) : Balanced(<<t[i]>>)

\* source.split("\n\n"): the blocks before the last one, and the last one.
SplitBlocks(t) ==
  LET Cut(acc, i) ==
        IF t[i] = "blank" /\ i > acc.start /\ i < Len(t)
        THEN [start |-> i + 1, done |-> Append(acc.done, SubSeq(t, acc.start, i - 1))]
        ELSE acc
      cut == FoldLeftDomain(Cut, [start |-> 1, done |-> <<>>], t)
  IN  [completed |-> cut.done, partial |-> SubSeq(t, cut.start, Len(t))]

BlankSeparatedSuffix(t) ==
  ~Unsafe(t) /\ \A b \in ToSet(SplitBlocks(t).completed) : b # <<"blank">> /\ Balanced(b)

\* topLevelTypeScriptChunks: cut after a line that ends a statement with
\* nothing open.
TopLevelChunks(t) ==
  LET Cut(acc, i) ==
        IF i < Len(t) /\ Balanced(SubSeq(t, 1, i)) /\ t[i] \in Ends
        THEN [start |-> i + 1, done |-> Append(acc.done, SubSeq(t, acc.start, i))]
        ELSE acc
      cut == FoldLeftDomain(Cut, [start |-> 1, done |-> <<>>], t)
  IN  [completed |-> cut.done, partial |-> SubSeq(t, cut.start, Len(t))]

Chunkable(t) == ~Unsafe(t) /\ DelimiterStack(t) # Wrong

IsTopLevel(t) ==
  Chunkable(t) /\ \E c \in ToSet(TopLevelChunks(t).completed) : Len(c) > 1

\* singleFunctionScriptBodyState: a header, lines that stand alone, and
\* perhaps the closing brace.
SingleFunction(t) ==
  LET ended == t[Len(t)] = "blank"
      closed == Balanced(t)
      upTo == IF closed /\ ended THEN Len(t) - 2 ELSE Len(t) - 1
  IN  /\ Len(t) > 1 /\ ~Unsafe(t) /\ t[1] = "head"
      /\ closed \/ DelimiterStack(t) = <<"{">>
      /\ closed => t[IF ended THEN Len(t) - 1 ELSE Len(t)] = "brace"
      /\ upTo >= 2
      /\ \A i \in 2..upTo : t[i] # "blank" /\ Balanced(<<t[i]>>)

PrefersLines(t) ==
  LET solid == {i \in DOMAIN t : t[i] # "blank"}
  IN  t[1] = "head" /\ t[CHOOSE i \in solid : \A j \in solid : j <= i] # "brace"

StrategyOf(t) ==
  IF LineLocalSuffix(t) THEN "lines"
  ELSE IF BlankSeparatedSuffix(t) /\ SplitBlocks(t).completed # <<>> THEN "blocks"
  ELSE IF PrefersLines(t) /\ SingleFunction(t) THEN "lines"
  ELSE IF IsTopLevel(t) THEN "top-level"
  ELSE IF ~PrefersLines(t) /\ SingleFunction(t) THEN "lines"
  ELSE "none"

\* Whether what was added can be cut the way the source was.
Continues(strategy, t) ==
  CASE strategy = "lines" -> LineLocalSuffix(t)
    [] strategy = "blocks" -> BlankSeparatedSuffix(t)
    [] strategy = "top-level" -> Chunkable(t)

Cuts(strategy, t) ==
  CASE strategy = "lines" -> [completed |-> [i \in 1..(Len(t) - 1) |-> <<t[i]>>],
                              partial |-> <<t[Len(t)]>>]
    [] strategy = "blocks" -> SplitBlocks(t)
    [] strategy = "top-level" -> TopLevelChunks(t)

\* The rows of the completed pieces: a block keeps its blank line.
PieceRows(strategy, p) ==
  HighlightSource(p, scheme) \o
    (IF strategy = "blocks" THEN HighlightSource(<<"blank">>, scheme) ELSE <<>>)

CompletedRows(strategy, pieces) ==
  FoldLeft(LAMBDA rows, p : rows \o PieceRows(strategy, p), <<>>, pieces)

(***************************************************************************)
(* The cache.                                                              *)
(***************************************************************************)
Size(t, rows) == Len(t) + Len(rows)
EntrySize(e) == Size(e.key[2], e.rows)

\* source.startsWith(previous): the last line of it may be continued.
StartsWith(t, prefix) ==
  /\ Len(prefix) <= Len(t)
  /\ \A i \in DOMAIN prefix :
       prefix[i] = t[i] \/ (i = Len(prefix) /\ prefix[i] = "blank")

Without(entries, key) == SelectSeq(entries, LAMBDA e : e.key # key)

\* The oldest entries go while there are too many, or too long.
RECURSIVE Evicted(_, _)
Evicted(entries, characters) ==
  IF entries # <<>> /\ (Len(entries) > MaxCached \/ characters > MaxCacheCharacters)
  THEN Evicted(Tail(entries), characters - EntrySize(Head(entries)))
  ELSE [entries |-> entries, characters |-> characters]

\* cacheResult.
CacheResult(key, rows) ==
  LET entry == [key |-> key, rows |-> rows]
      had == \E e \in ToSet(cache) : e.key = key
      less == IF had THEN EntrySize(CHOOSE e \in ToSet(cache) : e.key = key) ELSE 0
  IN  IF EntrySize(entry) <= MaxCacheCharacters
      THEN Evicted(Append(Without(cache, key), entry),
                   cacheCharacters - less + EntrySize(entry))
      ELSE Evicted(cache, cacheCharacters)

Keep(result) == cache' = result.entries /\ cacheCharacters' = result.characters
Cached(key, rows) == Keep(CacheResult(key, rows))

(***************************************************************************)
(* The growing source.                                                     *)
(***************************************************************************)
ActiveFallback(t, rows, retry) ==
  [mode |-> "fallback", source |-> t, retry |-> retry,
   rows |-> IF Size(t, rows) <= MaxActive THEN rows ELSE <<>>]

Incremental(t, strategy, partial, stable, rows) ==
  IF Size(t, rows) <= MaxActive
  THEN [mode |-> "incremental", source |-> t, rows |-> rows, strategy |-> strategy,
        partial |-> partial, stable |-> stable]
  ELSE ActiveFallback(t, rows, FALSE)

\* startTypescriptStream: cut it if that gives the same as the whole.
Proved(t, expected, strategy, cuts, stable) ==
  IF stable \o HighlightSource(cuts.partial, scheme) # expected
  THEN ActiveFallback(t, expected, FALSE)
  ELSE Incremental(t, strategy, cuts.partial, stable, expected)

CutStream(t, expected, strategy, cuts) ==
  Proved(t, expected, strategy, cuts, CompletedRows(strategy, cuts.completed))

Started(t, expected, strategy) ==
  [rows |-> expected,
   active |-> IF strategy = "none" THEN ActiveFallback(t, expected, TRUE)
              ELSE CutStream(t, expected, strategy, Cuts(strategy, t))]

StartStream(t) == Started(t, HighlightSource(t, scheme), StrategyOf(t))

\* (mutant) What was not finished is forgotten.
SuffixAlone(t) == SubSeq(t, Len(active.source), Len(t))

\* The unfinished piece of the source with what was added to it.
Suffix(t) ==
  IF active.mode = "incremental"
  THEN SubSeq(t, Len(active.source) - Len(active.partial) + 1, Len(t))
  ELSE SubSeq(t, Len(active.source), Len(t))

Grown(t, partial, stable, rows) ==
  [rows |-> rows, active |-> Incremental(t, active.strategy, partial, stable, rows)]

GrowBy(t, partial, stable) ==
  Grown(t, partial, stable, stable \o HighlightSource(partial, scheme))

AppendCuts(t, cuts) ==
  GrowBy(t, cuts.partial, active.stable \o CompletedRows(active.strategy, cuts.completed))

AppendStream(t) == AppendCuts(t, Cuts(active.strategy, Suffix(t)))

\* highlightTypescriptStream for a source that goes on with the active one.  A
\* source that can be cut after all starts again; the others that
\* isIncrementalTypescriptSource lets through have no way to be cut and come
\* to the same as those it does not.
ContinueStream(t) ==
  IF active.mode = "incremental" /\ Continues(active.strategy, Suffix(t))
  THEN AppendStream(t)
  ELSE IF active.mode = "incremental" \/ active.retry THEN StartStream(t)
  ELSE [rows |-> HighlightSource(t, scheme),
        active |-> ActiveFallback(t, HighlightSource(t, scheme), FALSE)]

\* What is handed over and kept of the source: r has its rows and the stream.
Stream(t, r) ==
  /\ handed' = [source |-> t, rows |-> r.rows, plain |-> FALSE]
  /\ active' = r.active

StreamRows ==
  IF active.mode = "none" THEN <<>> ELSE active.rows

HighlightStream(t) ==
  IF active.mode # "none" /\ active.source = t /\ StreamRows # <<>>
  THEN /\ handed' = [source |-> t, rows |-> StreamRows, plain |-> FALSE]
       /\ UNCHANGED <<cache, cacheCharacters, active>>
  ELSE IF active.mode # "none" /\ StartsWith(t, active.source)
  THEN /\ Stream(t, ContinueStream(t))
       /\ UNCHANGED <<cache, cacheCharacters>>
  ELSE /\ Stream(t, StartStream(t))
       /\ IF StreamRows # <<>> THEN Cached(<<"typescript", active.source>>, StreamRows)
          ELSE UNCHANGED <<cache, cacheCharacters>>

\* highlight: plain when the language is unknown or the code too long, from
\* the cache, as the growing source, or whole and into the cache.
HighlightCode(t, language) ==
  LET key == <<IF language = "tsx" THEN "typescript" ELSE language, t>>
      streams == language = "typescript"
  IN  IF Len(t) > MaxHighlightLines \/ language = "unknown"
      THEN /\ handed' = [source |-> t, rows |-> PlainRows(t), plain |-> TRUE]
           /\ active' = IF streams THEN NoStream ELSE active
           /\ UNCHANGED <<cache, cacheCharacters>>
      ELSE IF \E e \in ToSet(cache) : e.key = key
      THEN LET e == CHOOSE e \in ToSet(cache) : e.key = key
           IN  /\ handed' = [source |-> t, rows |-> e.rows, plain |-> FALSE]
               /\ cache' = Append(Without(cache, key), e)
               /\ UNCHANGED <<cacheCharacters, active>>
      ELSE IF streams /\ Len(t) > 1 THEN HighlightStream(t)
      ELSE /\ handed' = [source |-> t, rows |-> HighlightSource(t, scheme), plain |-> FALSE]
           /\ Cached(key, HighlightSource(t, scheme))
           /\ UNCHANGED active

Render(t, language) ==
  /\ HighlightCode(t, language)
  /\ UNCHANGED <<codeSample, source, scheme>>

SetColorScheme ==
  /\ \E s \in Scheme \ {scheme} : scheme' = s
  /\ cache' = <<>> /\ cacheCharacters' = 0 /\ active' = NoStream
  /\ handed' = NoStream
  /\ UNCHANGED <<codeSample, source>>

\* The model goes on with its code: the unfinished line or a new one.
SourceGrows ==
  /\ \/ /\ source[Len(source)] = "blank"
        /\ \E k \in codeSample.kinds : source' = [source EXCEPT ![Len(source)] = k]
     \/ Len(source) < codeSample.lines /\ source' = Append(source, "blank")
  /\ handed' = NoStream
  /\ UNCHANGED <<codeSample, cache, cacheCharacters, active, scheme>>

CodeInit ==
  /\ codeSample \in CodeSample /\ scheme = CHOOSE s \in Scheme : TRUE
  /\ source = <<"blank">>
  /\ cache = <<>> /\ cacheCharacters = 0
  /\ active = NoStream /\ handed = NoStream

CodeNext ==
  \/ SourceGrows \/ SetColorScheme
  \/ Render(source, "typescript")
  \/ \E c \in OtherCode : Render(c[1], c[2])

CodeSpec == CodeInit /\ [][CodeNext]_codeVars

(***************************************************************************)
(* Rows that were added up, kept or cached are those the source has when   *)
(* it is highlighted as a whole in the colours of now, whatever other      *)
(* sources were highlighted between and however the source went on; and    *)
(* the cache knows its size and stays within it (highlight,                *)
(* highlightTypescriptStream, cacheResult).                                *)
(***************************************************************************)
HighlightsAreWhole ==
  /\ handed # NoStream => handed.plain \/ handed.rows = HighlightSource(handed.source, scheme)
  /\ StreamRows # <<>> => StreamRows = HighlightSource(active.source, scheme)
  /\ \A e \in ToSet(cache) : e.rows = HighlightSource(e.key[2], scheme)
  /\ cacheCharacters = FoldLeft(LAMBDA n, e : n + EntrySize(e), 0, cache)
  /\ Len(cache) <= MaxCached /\ cacheCharacters <= MaxCacheCharacters
=============================================================================
