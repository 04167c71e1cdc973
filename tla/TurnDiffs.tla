----------------------------- MODULE TurnDiffs -----------------------------
(***************************************************************************)
(* The file changes of the latest turns (turn-diff-store.ts), each turn's  *)
(* within a budget of files, lines and characters (file-diff-budget.ts).   *)
(* A tool reports its changes any number of times, the last report counts; *)
(* a path, a header and a line are as long as their number says.           *)
(***************************************************************************)
EXTENDS Integers, Sequences, SequencesExt, FiniteSets

CONSTANTS
  ToolCall,      \* tool calls
  Reports,       \* what a tool may report: sequences of files
  Budget,        \* FILE_DIFF_RETENTION_LIMITS
  MaxMetadata,   \* maxMetadataCharacters
  MaxKeptTurns,  \* MAX_RETAINED_TURN_DIFFS
  MaxDiffTurns   \* bound: turns begun

Hunk == [header: Nat, lines: Seq(Nat)]
File == [path: Nat, old: Nat, hunks: Seq(Hunk), truncated: BOOLEAN]
Positive == Nat \ {0}

ASSUME DiffsAssumption ==
  /\ Reports \subseteq Seq(File)
  /\ Budget \in [files: Positive, lines: Positive, characters: Positive]
  /\ MaxMetadata \in Positive /\ MaxKeptTurns \in Nat

VARIABLES
  turns,         \* the turns kept: their index and the tools' files, in order
  inTurn,        \* whether the last of them is the current one
  nextIndex,
  reported,      \* the last report of each tool of the current turn
  unmarked,      \* a tool whose files said that something is missing reported
                 \* again
  finished       \* the indices of the turns that changed files

diffVars == <<turns, inTurn, nextIndex, reported, unmarked, finished>>

Least(S) == CHOOSE n \in S : \A m \in S : n <= m

SumTo(f) == LET s[i \in 0..Len(f)] == IF i = 0 THEN 0 ELSE s[i - 1] + f[i] IN s
Sum(f) == SumTo(f)[Len(f)]

(***************************************************************************)
(* fileDiffRetentionSize and boundedFileDiffs.  A file has a path, an old  *)
(* path (0: none), hunks and whether it is marked as truncated.            *)
(***************************************************************************)
HunkCharacters(h) == h.header + Sum(h.lines)
HunksCharacters(hs) == Sum([i \in DOMAIN hs |-> HunkCharacters(hs[i])])
HunksLines(hs) == Sum([i \in DOMAIN hs |-> Len(hs[i].lines)])
FileCharacters(f) == f.path + f.old + HunksCharacters(f.hunks)

SizeOf(files) ==
  [files |-> Len(files), lines |-> Sum([i \in DOMAIN files |-> HunksLines(files[i].hunks)]),
   characters |-> Sum([i \in DOMAIN files |-> FileCharacters(files[i])])]

Fits(size, limits) == \A k \in DOMAIN limits : size[k] <= limits[k]

Spent(left) == left.characters <= 0 \/ left.lines <= 0

\* One line: left is what remains, cut that something was left out.
KeepLine(acc, size) ==
  LET kept == Least({size, acc.characters})
  IN  IF acc.cut THEN acc
      ELSE IF Spent(acc) THEN [acc EXCEPT !.cut = TRUE]
      ELSE [acc EXCEPT !.kept = Append(@, kept), !.characters = @ - kept,
                       !.lines = @ - 1, !.cut = kept < size]

AfterLine(first, lines) ==
  LET a[i \in 0..Len(lines)] == IF i = 0 THEN first ELSE KeepLine(a[i - 1], lines[i]) IN a

KeepLines(acc, lines, header) ==
  AfterLine([kept |-> <<>>, characters |-> acc.characters - header,
             lines |-> acc.lines, cut |-> FALSE], lines)[Len(lines)]

HunkOf(acc, h, header, lines) ==
  [kept |-> IF h.header > 0 \/ lines.kept # <<>> \/ h.lines = <<>>
            THEN Append(acc.kept, [header |-> header, lines |-> lines.kept])
            ELSE acc.kept,
   characters |-> lines.characters, lines |-> lines.lines, cut |-> lines.cut,
   short |-> acc.short \/ header < h.header]

HunkWith(acc, h, header) == HunkOf(acc, h, header, KeepLines(acc, h.lines, header))

KeepHunk(acc, h) ==
  IF acc.cut THEN acc
  ELSE IF Spent(acc) THEN [acc EXCEPT !.cut = TRUE]
  ELSE HunkWith(acc, h, Least({h.header, acc.characters, MaxMetadata}))

AfterHunk(first, hunks) ==
  LET a[i \in 0..Len(hunks)] == IF i = 0 THEN first ELSE KeepHunk(a[i - 1], hunks[i]) IN a

KeepHunks(acc, f, path, old) ==
  AfterHunk([kept |-> <<>>, characters |-> acc.characters - path - old, lines |-> acc.lines,
             cut |-> FALSE, short |-> f.truncated \/ path < f.path \/ old < f.old],
            f.hunks)[Len(f.hunks)]

FileOf(acc, path, old, hunks) ==
  [kept |-> Append(acc.kept, [path |-> path, old |-> old, hunks |-> hunks.kept,
                              truncated |-> hunks.short \/ hunks.cut]),
   files |-> acc.files - 1, characters |-> hunks.characters,
   lines |-> hunks.lines, cut |-> hunks.cut]

FileWith(acc, f, path, old) == FileOf(acc, path, old, KeepHunks(acc, f, path, old))
FileAt(acc, f, path) ==
  FileWith(acc, f, path, Least({f.old, acc.characters - path, MaxMetadata}))

KeepFile(acc, f) ==
  IF acc.cut THEN acc
  ELSE IF acc.files = 0 \/ Spent(acc) THEN [acc EXCEPT !.cut = TRUE]
  ELSE FileAt(acc, f, Least({f.path, acc.characters, MaxMetadata}))

BudgetMarked(files) == \E i \in DOMAIN files : files[i].truncated
MarkFirst(files) == [files EXCEPT ![1].truncated = TRUE]
MarkLast(files) == IF files = <<>> THEN files ELSE [files EXCEPT ![Len(files)].truncated = TRUE]

Cutting(acc) == IF acc.cut THEN MarkLast(acc.kept) ELSE acc.kept

NoFiles(limits) == [kept |-> <<>>, files |-> limits.files, lines |-> limits.lines,
                    characters |-> limits.characters, cut |-> FALSE]

AfterFile(limits, files) ==
  LET a[i \in 0..Len(files)] == IF i = 0 THEN NoFiles(limits) ELSE KeepFile(a[i - 1], files[i])
  IN  a

BoundedFileDiffs(files, limits) ==
  IF Fits(SizeOf(files), limits) THEN files ELSE Cutting(AfterFile(limits, files)[Len(files)])

(***************************************************************************)
(* enforceCurrentBudget: the latest tools first; if anything was left out, *)
(* the earliest file that is kept says so.                                 *)
(***************************************************************************)
Less(a, b) == \E k \in DOMAIN a : a[k] < b[k]

ToolOf(e, acc, files, size) ==
  IF files = <<>> THEN [acc EXCEPT !.omitted = TRUE]
  ELSE [kept |-> <<[tool |-> e.tool, files |-> files]>> \o acc.kept,
        left |-> [k \in DOMAIN acc.left |-> acc.left[k] - size[k]],
        omitted |-> acc.omitted \/ Less(size, SizeOf(e.files))]

ToolWith(e, acc, files) == ToolOf(e, acc, files, SizeOf(files))
KeepTool(e, acc) == ToolWith(e, acc, BoundedFileDiffs(e.files, acc.left))

\* (mutant) Only a tool whose files were shortened counts, not one left out.
MarkShortened(acc) ==
  IF acc.omitted /\ acc.kept # <<>> /\ BudgetMarked(acc.kept[1].files)
  THEN [acc.kept EXCEPT ![1].files = MarkFirst(@)] ELSE acc.kept

MarkOmitted(acc) ==
  IF acc.omitted /\ acc.kept # <<>>
  THEN [acc.kept EXCEPT ![1].files = MarkFirst(@)] ELSE acc.kept

NoTools == [kept |-> <<>>, left |-> Budget, omitted |-> FALSE]

\* After the last i tools.
AfterTool(tools) ==
  LET a[i \in 0..Len(tools)] ==
        IF i = 0 THEN NoTools ELSE KeepTool(tools[Len(tools) + 1 - i], a[i - 1])
  IN  a

EnforceBudget(tools) == MarkOmitted(AfterTool(tools)[Len(tools)])

\* The tools but c.
WithoutTo(tools, c) ==
  LET w[i \in 0..Len(tools)] ==
        IF i = 0 THEN <<>>
        ELSE IF tools[i].tool = c THEN w[i - 1] ELSE Append(w[i - 1], tools[i])
  IN  w

Without(tools, c) == WithoutTo(tools, c)[Len(tools)]

(***************************************************************************)
(* TurnDiffStore.                                                          *)
(***************************************************************************)
CurrentTurn == turns[Len(turns)]
NoReport == [c \in ToolCall |-> <<>>]

\* finishTurn: a turn without changes goes, and so do the oldest.
Finished ==
  IF ~inTurn THEN turns
  ELSE IF CurrentTurn.tools = <<>> THEN Front(turns)
  ELSE IF Len(turns) > MaxKeptTurns
  THEN SubSeq(turns, Len(turns) - MaxKeptTurns + 1, Len(turns)) ELSE turns

FinishedIndices == IF inTurn /\ CurrentTurn.tools # <<>> THEN Append(finished, CurrentTurn.index)
                   ELSE finished

BeginTurnDiffs ==
  /\ nextIndex <= MaxDiffTurns
  /\ turns' = Append(Finished, [index |-> nextIndex, tools |-> <<>>])
  /\ inTurn' = TRUE /\ nextIndex' = nextIndex + 1
  /\ reported' = NoReport /\ unmarked' = FALSE /\ finished' = FinishedIndices

FinishTurnDiffs ==
  /\ inTurn
  /\ turns' = Finished /\ inTurn' = FALSE /\ finished' = FinishedIndices
  /\ UNCHANGED <<nextIndex, reported, unmarked>>

UpsertTool(c, files) ==
  LET others == Without(CurrentTurn.tools, c)
      entry == [tool |-> c, files |-> BoundedFileDiffs(files, Budget)]
  IN  /\ files # <<>>
      /\ IF inTurn
         THEN /\ turns' = [turns EXCEPT ![Len(turns)].tools =
                             EnforceBudget(Append(others, entry))]
              /\ reported' = [reported EXCEPT ![c] = files]
              /\ unmarked' = (unmarked \/ \E e \in ToSet(CurrentTurn.tools) :
                                            e.tool = c /\ BudgetMarked(e.files))
         ELSE UNCHANGED <<turns, reported, unmarked>>
      /\ UNCHANGED <<inTurn, nextIndex, finished>>

ClearDiffs ==
  /\ turns' = <<>> /\ inTurn' = FALSE /\ nextIndex' = 1
  /\ reported' = NoReport /\ unmarked' = FALSE /\ finished' = <<>>

DiffsInit ==
  /\ turns = <<>> /\ inTurn = FALSE /\ nextIndex = 1
  /\ reported = NoReport /\ unmarked = FALSE /\ finished = <<>>

DiffsNext ==
  \/ BeginTurnDiffs \/ FinishTurnDiffs \/ ClearDiffs
  \/ \E c \in ToolCall : \E files \in Reports : UpsertTool(c, files)

DiffsSpec == DiffsInit /\ [][DiffsNext]_diffVars

(***************************************************************************)
(* The changes kept of the current turn are within the budget, and if they *)
(* are not all the tools reported last, one of the files says that it is   *)
(* truncated; only a new report of the tool that said so can lose that.    *)
(* Of the turns before it, exactly the latest that changed files are kept  *)
(* (upsertTool, enforceCurrentBudget, boundedFileDiffs, finishTurn).       *)
(***************************************************************************)
FilesOf(c) ==
  LET at == {i \in DOMAIN CurrentTurn.tools : CurrentTurn.tools[i].tool = c}
  IN  IF at = {} THEN <<>> ELSE CurrentTurn.tools[Least(at)].files

FilesTo(tools) ==
  LET a[i \in 0..Len(tools)] == IF i = 0 THEN <<>> ELSE a[i - 1] \o tools[i].files IN a

AllFiles == FilesTo(CurrentTurn.tools)[Len(CurrentTurn.tools)]

RetainedDiffsAreHonest ==
  /\ inTurn =>
       /\ Fits(SizeOf(AllFiles), Budget)
       /\ (\E c \in ToolCall : Less(SizeOf(FilesOf(c)), SizeOf(reported[c]))) =>
            unmarked \/ BudgetMarked(AllFiles)
  /\ LET past == IF inTurn THEN Front(turns) ELSE turns
         n == Least({Len(finished), MaxKeptTurns})
     IN  [i \in DOMAIN past |-> past[i].index]
           = SubSeq(finished, Len(finished) - n + 1, Len(finished))
=============================================================================
