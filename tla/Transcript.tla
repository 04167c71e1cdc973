----------------------------- MODULE Transcript -----------------------------
(* The transcript of the TUI (transcript.ts): a list of blocks of which the  *)
(* last ones are in the render window and the oldest are released, with a    *)
(* reading cursor, a search whose matches are positions in the list, and a   *)
(* page within the focused block.  Blocks come, are replaced, grow and are   *)
(* removed while the reader navigates, so every position has to be moved     *)
(* with the blocks.  A block's text is abstracted to whether it matches the  *)
(* query and how many characters it has.                                     *)
EXTENDS Integers, Sequences, FiniteSets, SequencesExt

CONSTANTS
    BlockId,
    MessageTag,      \* message ids
    Untagged,        \* a block without a message
    RenderWindow,    \* renderWindowSize
    WindowStep,      \* renderWindowStep
    MaxRetained,     \* MAX_RETAINED_TRANSCRIPT_BLOCKS
    MaxCharacters,   \* MAX_RETAINED_TRANSCRIPT_HISTORY_CHARACTERS
    Length,          \* the lengths a text may have
    Pages            \* the most pages a focused block takes

ASSUME TranscriptAssumption ==
    /\ Untagged \notin MessageTag
    /\ RenderWindow \in Nat \ {0} /\ WindowStep \in Nat
    /\ MaxRetained \in Nat /\ RenderWindow + WindowStep =< MaxRetained
    /\ MaxCharacters \in Nat /\ Length \subseteq Nat
    /\ Pages \in Nat \ {0}

VARIABLES
    blocks,       \* the retained blocks, oldest first
    windowStart,  \* the first block of the render window
    reading,      \* the cursor: a position, or Off
    search,       \* the matching positions and which is shown, or Off
    page

transcriptVars == <<blocks, windowStart, reading, search, page>>

Off == [at |-> 0]
Position == Nat \ {0}
BlockRecord == [id : BlockId, tag : MessageTag \cup {Untagged},
                hit : BOOLEAN, length : Length]

TranscriptTypeOK ==
    /\ blocks \in Seq(BlockRecord)
    /\ windowStart \in Nat
    /\ reading \in Nat
    /\ search \in {Off} \cup [at : Position, matches : Seq(Position)]
    /\ page \in 0 .. Pages - 1

IndexOf(bs, id) == SelectInSeq(bs, LAMBDA b : b.id = id)
Ids(bs) == {bs[i].id : i \in DOMAIN bs}
Names(bs) == [i \in DOMAIN bs |-> bs[i].id]

----------------------------------------------------------------------------
(* matchingBlocks and refreshSearch.  A search that finds nothing stays open *)
(* with no match; its place is then the first.                               *)

\* Positions, in the order of the list.
Ascending(S) ==
    CHOOSE f \in [1 .. Cardinality(S) -> S] :
        \A k, n \in DOMAIN f : k < n => f[k] < f[n]

MatchingBlocks(bs) == Ascending({i \in DOMAIN bs : bs[i].hit})

RefreshSearch(s, bs) ==
    IF s = Off THEN Off
    ELSE LET matches == MatchingBlocks(bs)
             kept == IF s.at \in DOMAIN s.matches
                     THEN SelectInSeq(matches, LAMBDA i : i = s.matches[s.at])
                     ELSE 0
         IN  [at |-> IF kept # 0 THEN kept
                     ELSE IF Len(matches) = 0 \/ s.at =< Len(matches)
                     THEN IF Len(matches) = 0 THEN 1 ELSE s.at
                     ELSE Len(matches),
              matches |-> matches]

----------------------------------------------------------------------------
(* advanceWindow and enforceRetentionBudget: what is released, given the     *)
(* list bs and the start ws of its window (0 is the first block).            *)

ShouldAdvance(bs, ws) == Len(bs) - ws > RenderWindow + WindowStep

NextWindowStart(bs, ws) ==
    IF ShouldAdvance(bs, ws) THEN Len(bs) - RenderWindow ELSE ws

(* The characters of the blocks before the window, from position i on.       *)
Characters(bs, i, ws) ==
    LET sum[j \in (i - 1) .. ws] ==
            IF j = i - 1 THEN 0 ELSE sum[j - 1] + bs[j].length
    IN  sum[ws]

CharacterDiscard(bs, ws) ==
    CHOOSE n \in 0 .. ws :
        /\ Characters(bs, n + 1, ws) =< MaxCharacters
        /\ \A k \in 0 .. n - 1 : ~(Characters(bs, k + 1, ws) =< MaxCharacters)

Larger(a, b) == IF a > b THEN a ELSE b
Smaller(a, b) == IF a < b THEN a ELSE b

DiscardCount(bs, ws) ==
    IF ws = 0 THEN 0
    ELSE Smaller(ws, Larger(Len(bs) - MaxRetained, CharacterDiscard(bs, ws)))

BudgetApplies(bs, ws) == ShouldAdvance(bs, ws) \/ Len(bs) > MaxRetained

----------------------------------------------------------------------------
(* Adding and removing blocks.                                               *)

TranscriptInit ==
    /\ blocks = <<>> /\ windowStart = 0 /\ reading = 0
    /\ search = Off /\ page = 0

(* addBlock with an id that is in the list replaces the block in place.      *)
ReplaceBlock(b) ==
    LET i == IndexOf(blocks, b.id)
    IN  /\ i # 0
        /\ blocks' = [blocks EXCEPT
                         ![i] = [b EXCEPT !.tag = IF b.tag = Untagged
                                                  THEN blocks[i].tag ELSE b.tag]]
        /\ search' = RefreshSearch(search, blocks')
        /\ UNCHANGED <<windowStart, reading, page>>

AppendBlock(b) ==
    LET grown == Append(blocks, b)
        ws == NextWindowStart(grown, windowStart)
        cut == IF BudgetApplies(grown, windowStart) THEN DiscardCount(grown, ws) ELSE 0
    IN  /\ b.id \notin Ids(blocks)
        /\ blocks' = SubSeq(grown, cut + 1, Len(grown))
        /\ windowStart' = ws - cut
        /\ reading' = IF reading = 0 THEN 0 ELSE Larger(1, reading - cut)
        /\ search' = RefreshSearch(search, blocks')
        /\ UNCHANGED page

WindowAfter(n, ws) == Smaller(ws, Larger(0, n - 1))

(* (mutant) the cursor is only kept within the list *)
ReadingWithin(i, n) == IF reading = 0 \/ n = 0 THEN 0 ELSE Smaller(reading, n)

(* The cursor after block i was removed and n are left.                      *)
ReadingAfter(i, n) ==
    IF reading = 0 \/ n = 0 THEN 0
    ELSE IF i < reading THEN reading - 1 ELSE Smaller(reading, n)

RemoveBlock(id) ==
    LET i == IndexOf(blocks, id)
        left == RemoveAt(blocks, i)
    IN  /\ i # 0
        /\ blocks' = left
        /\ reading' = ReadingAfter(i, Len(left))
        /\ windowStart' = WindowAfter(Len(left),
                              IF i =< windowStart THEN windowStart - 1 ELSE windowStart)
        /\ search' = RefreshSearch(search, left)
        /\ UNCHANGED page

(* removeMessage moves the window and the search, and leaves the cursor.     *)
RemoveMessageBlocks(m) ==
    LET kept == Ascending({i \in DOMAIN blocks : blocks[i].tag # m})
        left == [k \in DOMAIN kept |-> blocks[kept[k]]]
        before == Cardinality({i \in 1 .. windowStart : blocks[i].tag = m})
    IN  /\ left # blocks
        /\ blocks' = left
        /\ windowStart' = WindowAfter(Len(left), windowStart - before)
        /\ search' = RefreshSearch(search, left)
        /\ UNCHANGED <<reading, page>>

AssociateBlockWithMessage(id, m) ==
    LET i == IndexOf(blocks, id)
    IN  /\ i # 0
        /\ blocks' = [blocks EXCEPT ![i].tag = m]
        /\ UNCHANGED <<windowStart, reading, search, page>>

(* The component of a block changes its text in place: it streams, a part is *)
(* revised (setText), a tool leaves a group.  The text may come to contain   *)
(* the query or lose it, and nothing here is told: no refreshSearch.         *)
TextChanges(id, hit, n) ==
    LET i == IndexOf(blocks, id)
    IN  /\ i # 0
        /\ blocks' = [blocks EXCEPT ![i].hit = hit, ![i].length = n]
        /\ UNCHANGED <<windowStart, reading, search, page>>

ClearTranscript ==
    /\ blocks' = <<>> /\ windowStart' = 0 /\ reading' = 0 /\ search' = Off
    /\ UNCHANGED page

----------------------------------------------------------------------------
(* Navigation.                                                               *)

MoveCursor(d) ==
    /\ blocks # <<>>
    /\ search' = Off /\ page' = 0
    /\ reading' = IF reading = 0 THEN Len(blocks)
                  ELSE Larger(1, Smaller(Len(blocks), reading + d))
    /\ UNCHANGED <<blocks, windowStart>>

SelectLatest ==
    /\ blocks # <<>>
    /\ search' = Off /\ page' = 0 /\ reading' = Len(blocks)
    /\ UNCHANGED <<blocks, windowStart>>

SearchFor ==
    /\ search' = [at |-> 1, matches |-> MatchingBlocks(blocks)]
    /\ reading' = 0 /\ page' = 0
    /\ UNCHANGED <<blocks, windowStart>>

NextSearchMatch(d) ==
    /\ search # Off /\ search.matches # <<>>
    /\ search' = [search EXCEPT !.at = ((@ - 1 + d) % Len(search.matches)) + 1]
    /\ page' = 0
    /\ UNCHANGED <<blocks, windowStart, reading>>

LeaveNavigation ==
    /\ search' = Off /\ reading' = 0 /\ page' = 0
    /\ UNCHANGED <<blocks, windowStart>>

FocusedBlockIndex ==
    IF search # Off /\ search.matches # <<>> THEN search.matches[search.at]
    ELSE reading

(* movePage, for a block that takes n pages at this width.                   *)
MovePage(d, n) ==
    /\ FocusedBlockIndex \in DOMAIN blocks
    /\ page' = Larger(0, Smaller(n - 1, page + d))
    /\ UNCHANGED <<blocks, windowStart, reading, search>>

TranscriptNext ==
    \/ \E b \in BlockRecord : ReplaceBlock(b) \/ AppendBlock(b)
    \/ \E id \in BlockId : RemoveBlock(id)
    \/ \E m \in MessageTag : RemoveMessageBlocks(m)
    \/ \E id \in BlockId, m \in MessageTag : AssociateBlockWithMessage(id, m)
    \/ \E id \in BlockId, hit \in BOOLEAN, n \in Length : TextChanges(id, hit, n)
    \/ ClearTranscript
    \/ \E d \in {-1, 1} : MoveCursor(d) \/ NextSearchMatch(d)
    \/ SelectLatest
    \/ SearchFor
    \/ LeaveNavigation
    \/ \E d \in {-1, 1}, n \in 1 .. Pages : MovePage(d, n)

TranscriptSpec == TranscriptInit /\ [][TranscriptNext]_transcriptVars

----------------------------------------------------------------------------
(* What the reader sees is bounded and current: the newest block is in the   *)
(* window, the window stays within its size and one step, and no more blocks *)
(* are kept than the budget (advanceWindow, enforceRetentionBudget after     *)
(* any mixture of additions and removals).                                   *)
WindowIsCurrent ==
    /\ Len(blocks) =< MaxRetained
    /\ Len(blocks) - windowStart =< RenderWindow + WindowStep
    /\ blocks # <<>> => windowStart < Len(blocks)

(* The matches of a search are positions in the list, in order, and the one  *)
(* that is shown is one of them, however blocks come, change and go.         *)
SearchIsInTheList ==
    search # Off =>
        /\ \A k \in DOMAIN search.matches :
              /\ search.matches[k] \in DOMAIN blocks
              /\ k > 1 => search.matches[k - 1] < search.matches[k]
        /\ search.at \in 1 .. Larger(1, Len(search.matches))

(* The matches are all the blocks whose text contains the query.  A text     *)
(* that changes in place can make this false, until the search looks again.  *)
SearchIsRight ==
    search # Off =>
        {search.matches[k] : k \in DOMAIN search.matches}
            = {i \in DOMAIN blocks : blocks[i].hit}

(* The search looks again whenever a block came or went, and whenever it     *)
(* changes its matches they are right (searchFor, refreshSearch in addBlock, *)
(* removeBlock and removeMessage).                                           *)
SearchLooksAgain ==
    \/ Names(blocks') # Names(blocks)
    \/ search = Off
    \/ search' # Off /\ search'.matches # search.matches
    => SearchIsRight'

(* What is shown, found and read in the transcript is what it was, while     *)
(* blocks come and go: the window is current, the search is in the list and  *)
(* looks again when it has to, and while the reader does not navigate the    *)
(* cursor stays on its block, as long as the block itself is kept.  (A       *)
(* message removed as a whole does not move the cursor: removeMessage.)      *)
TranscriptKeepsItsPlace ==
    [][ /\ (WindowIsCurrent /\ SearchIsInTheList)' /\ SearchLooksAgain
        /\ blocks' # blocks
           /\ reading \in DOMAIN blocks /\ reading' # 0
           /\ blocks[reading].id \in Ids(blocks')
           /\ ~(\E m \in MessageTag : RemoveMessageBlocks(m))
           => /\ reading' \in DOMAIN blocks'
              /\ blocks'[reading'].id = blocks[reading].id ]_transcriptVars
=============================================================================
