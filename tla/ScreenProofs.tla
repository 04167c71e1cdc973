---------------------------- MODULE ScreenProofs ----------------------------
(***************************************************************************)
(* Proofs about what the terminal UI shows of a turn: the reader keeps his *)
(* place in the transcript (Transcript), and the tools of the turn stay    *)
(* one tree on the screen (ToolTree).                                      *)
(***************************************************************************)
EXTENDS Transcript, ToolTree, TLAPS, FiniteSetTheorems, SequenceTheorems,
        WellFoundedInduction

\* Every set of numbers that is not empty has a least one: the induction that
\* is at hand, by a least counterexample.
LEMMA Least ==
  ASSUME NEW T, T \subseteq Nat, T # {}
  PROVE  \E m \in T : \A n \in T : m <= n
<1>1. IsWellFoundedOn(OpToRel(<, Nat), Nat)
  BY NatLessThanWellFounded
<1>2. PICK m \in T : \A n \in T : ~(<<n, m>> \in OpToRel(<, Nat))
  BY <1>1, WFMin
<1>3. ASSUME NEW n \in T PROVE m <= n
  <2>1. n \in Nat /\ m \in Nat
    OBVIOUS
  <2>2. n < m => <<n, m>> \in OpToRel(<, Nat)
    BY <2>1 DEF OpToRel
  <2>3. ~(n < m)
    BY <1>2, <2>2, Zenon
  <2> QED
    BY <2>1, <2>3
<1> QED
  BY <1>3

-----------------------------------------------------------------------------
(* Positions in order. *)

\* f lists positions in order, from the first on.
InOrder(f) == \A k, n \in DOMAIN f : k < n => f[k] < f[n]

\* A finite set of positions can be put in order: its least member first, then
\* the others.
LEMMA AscendingExists ==
  ASSUME NEW S \in SUBSET Nat, IsFiniteSet(S)
  PROVE  \E f \in [1 .. Cardinality(S) -> S] : InOrder(f)
<1> DEFINE Bad(U) == U \in SUBSET Nat /\ IsFiniteSet(U)
                     /\ ~\E f \in [1 .. Cardinality(U) -> U] : InOrder(f)
           T == {n \in Nat : \E U \in SUBSET Nat : Bad(U) /\ Cardinality(U) = n}
<1>1. SUFFICES ASSUME Bad(S) PROVE FALSE
  OBVIOUS
<1>2. Cardinality(S) \in T
  BY <1>1, FS_CardinalityType
<1>3. PICK m \in T : \A n \in T : m <= n
  <2>1. T \subseteq Nat
    OBVIOUS
  <2> HIDE DEF T
  <2> QED
    BY <1>2, <2>1, Least
<1>4. PICK U \in SUBSET Nat : Bad(U) /\ Cardinality(U) = m
  OBVIOUS
<1>5. U # {}
  <2>1. SUFFICES ASSUME U = {} PROVE FALSE
    OBVIOUS
  <2>2. m = 0
    BY <1>4, <2>1, FS_EmptySet
  <2>3. [k \in 1 .. 0 |-> 0] \in [1 .. 0 -> U] /\ InOrder([k \in 1 .. 0 |-> 0])
    BY DEF InOrder
  <2> QED
    BY <1>4, <2>2, <2>3
<1>6. PICK x \in U : \A y \in U : x <= y
  BY <1>4, <1>5, Least
<1> DEFINE V == U \ {x}
<1>7. IsFiniteSet(V) /\ V \in SUBSET Nat /\ Cardinality(V) = m - 1 /\ m \in Nat
  BY <1>4, FS_RemoveElement
<1>8. m - 1 \in Nat /\ ~(m <= m - 1)
  BY <1>7, FS_CardinalityType
<1>9. ~Bad(V)
  BY <1>3, <1>7, <1>8
<1>10. PICK f \in [1 .. m - 1 -> V] : InOrder(f)
  BY <1>7, <1>9
<1> DEFINE g == [k \in 1 .. m |-> IF k = 1 THEN x ELSE f[k - 1]]
<1>11. \A k \in 1 .. m : k = 1 \/ k - 1 \in 1 .. m - 1
  BY <1>8
<1>12. g \in [1 .. m -> U]
  BY <1>10, <1>11
<1>13. ASSUME NEW k \in 1 .. m, NEW n \in 1 .. m, k < n PROVE g[k] < g[n]
  <2>1. n - 1 \in 1 .. m - 1 /\ g[n] = f[n - 1] /\ f[n - 1] \in V
    BY <1>10, <1>11, <1>13
  <2>2. CASE k = 1
    <3>1. g[k] = x /\ x <= f[n - 1] /\ x # f[n - 1] /\ x \in Nat /\ f[n - 1] \in Nat
      BY <1>4, <1>6, <2>1, <2>2
    <3> HIDE DEF g
    <3> QED
      BY <2>1, <3>1
  <2>3. CASE k # 1
    <3>1. k - 1 \in 1 .. m - 1 /\ g[k] = f[k - 1] /\ k - 1 < n - 1
      BY <1>11, <1>13, <2>3
    <3> HIDE DEF g
    <3> QED
      BY <1>10, <2>1, <3>1 DEF InOrder
  <2> QED
    BY <2>2, <2>3
<1>14. InOrder(g)
  BY <1>13 DEF InOrder
<1> QED
  BY <1>4, <1>12, <1>14

\* What Ascending gives: the members, each once, in order.
LEMMA AscendingFacts ==
  ASSUME NEW S \in SUBSET Nat, IsFiniteSet(S)
  PROVE  /\ Ascending(S) \in [1 .. Cardinality(S) -> S] /\ InOrder(Ascending(S))
         /\ Cardinality(S) \in Nat
<1>1. \E f \in [1 .. Cardinality(S) -> S] : InOrder(f)
  BY AscendingExists
<1>2. Ascending(S) = CHOOSE f \in [1 .. Cardinality(S) -> S] : InOrder(f)
  BY DEF Ascending, InOrder
<1> QED
  BY <1>1, <1>2, FS_CardinalityType

\* Every member is listed.
LEMMA AscendingCovers ==
  ASSUME NEW S \in SUBSET Nat, IsFiniteSet(S)
  PROVE  {Ascending(S)[k] : k \in DOMAIN Ascending(S)} = S
<1> DEFINE a == Ascending(S)
           n == Cardinality(S)
<1>1. a \in [1 .. n -> S] /\ InOrder(a) /\ n \in Nat
  BY AscendingFacts
<1> HIDE DEF a, n
<1>2. ASSUME NEW k \in 1 .. n, NEW j \in 1 .. n, a[k] = a[j] PROVE k = j
  <2>1. k \in Nat /\ j \in Nat
    BY <1>1
  <2>2. a[k] \in S
    BY <1>1
  <2>3. a[k] \in Nat
    BY <2>2
  <2>4. DOMAIN a = 1 .. n
    BY <1>1
  <2>5. ~(k < j) /\ ~(j < k)
    BY <1>1, <1>2, <2>3, <2>4 DEF InOrder
  <2> QED
    BY <2>1, <2>5
<1>3. a \in Injection(1 .. n, S)
  BY <1>1, <1>2 DEF Injection, IsInjective
<1>4. Cardinality(1 .. n) = n
  BY <1>1, FS_Interval
<1>5. a \in Surjection(1 .. n, S)
  BY <1>3, <1>4, FS_Injection DEF n
<1> QED
  BY <1>1, <1>5 DEF Surjection, a

-----------------------------------------------------------------------------
(* Lists of blocks. *)

\* The ids of a list of blocks are those of different blocks.
Distinct(bs) == \A i, j \in 1 .. Len(bs) : bs[i].id = bs[j].id => i = j

\* The matches of a search are positions, in order.
Matching(ms, bs) ==
  /\ ms \in Seq(Position)
  /\ \A k \in 1 .. Len(ms) : ms[k] \in 1 .. Len(bs)
  /\ \A k, n \in 1 .. Len(ms) : k < n => ms[k] < ms[n]

\* What an open search shows.
SearchTrue(s, bs) ==
  s # Off => /\ s \in [at : Position, matches : Seq(Position)]
             /\ Matching(s.matches, bs)
             /\ s.at \in 1 .. Larger(1, Len(s.matches))

\* A search that has just looked shows all the blocks that match.
SearchRight(s, bs) ==
  s # Off => {s.matches[k] : k \in DOMAIN s.matches} = {i \in DOMAIN bs : bs[i].hit}

\* The first place of a member of a set of places is 0 or one of them.
LEMMA IndexFacts ==
  ASSUME NEW bs \in Seq(BlockRecord), NEW id
  PROVE  /\ IndexOf(bs, id) \in 0 .. Len(bs)
         /\ IndexOf(bs, id) # 0 => bs[IndexOf(bs, id)].id = id
<1> DEFINE I == {i \in 1 .. Len(bs) : bs[i].id = id}
<1>1. IndexOf(bs, id) = IF I # {} THEN Min(I) ELSE 0
  BY DEF IndexOf, SelectInSeq
<1>2. I # {} => Min(I) \in I
  <2>1. I \subseteq Nat
    OBVIOUS
  <2>2. I # {} => \E x \in I : \A y \in I : x =< y
    BY <2>1, Least
  <2> HIDE DEF I
  <2> QED
    BY <2>2 DEF Min
<1> QED
  BY <1>1, <1>2

\* The matches of a list are the positions of the blocks that match.
LEMMA MatchingFacts ==
  ASSUME NEW bs \in Seq(BlockRecord)
  PROVE  /\ Matching(MatchingBlocks(bs), bs)
         /\ {MatchingBlocks(bs)[k] : k \in DOMAIN MatchingBlocks(bs)} = {i \in DOMAIN bs : bs[i].hit}
<1> DEFINE S == {i \in DOMAIN bs : bs[i].hit}
<1>1. Len(bs) \in Nat /\ DOMAIN bs = 1 .. Len(bs) /\ S \subseteq 1 .. Len(bs)
  OBVIOUS
<1>2. IsFiniteSet(S)
  <2>1. IsFiniteSet(1 .. Len(bs))
    BY <1>1, FS_Interval
  <2> HIDE DEF S
  <2> QED
    BY <1>1, <2>1, FS_Subset
<1>3. S \in SUBSET Nat
  BY <1>1
<1>4. MatchingBlocks(bs) = Ascending(S)
  BY DEF MatchingBlocks
<1>5. \A i \in S : i \in 1 .. Len(bs) /\ i \in Position
  BY <1>1 DEF Position
<1> DEFINE a == Ascending(S)
<1>10. {MatchingBlocks(bs)[k] : k \in DOMAIN MatchingBlocks(bs)} = S
  <2> HIDE DEF S
  <2> QED
    BY <1>2, <1>3, <1>4, AscendingCovers
<1> HIDE DEF S
<1>6. a \in [1 .. Cardinality(S) -> S] /\ InOrder(a) /\ Cardinality(S) \in Nat
  BY <1>2, <1>3, AscendingFacts
<1> HIDE DEF a
<1>7. a \in Seq(S) /\ Len(a) = Cardinality(S) /\ DOMAIN a = 1 .. Len(a)
  BY <1>6
<1>8. a \in Seq(Position)
  BY <1>5, <1>6, <1>7
<1>9. \A k \in 1 .. Len(a) : a[k] \in S
  BY <1>6, <1>7
<1>11. Matching(MatchingBlocks(bs), bs)
  BY <1>4, <1>5, <1>6, <1>7, <1>8, <1>9 DEF Matching, InOrder, a
<1> QED
  BY <1>10, <1>11 DEF S

\* refreshSearch leaves an open search right about the list it looks at.
LEMMA RefreshIsRight ==
  ASSUME NEW bs \in Seq(BlockRecord), NEW s
  PROVE  SearchRight(RefreshSearch(s, bs), bs)
<1>1. CASE s = Off
  BY <1>1 DEF RefreshSearch, SearchRight
<1>2. CASE s # Off
  <2>1. RefreshSearch(s, bs).matches = MatchingBlocks(bs)
    BY <1>2 DEF RefreshSearch
  <2> QED
    BY <2>1, MatchingFacts DEF SearchRight
<1> QED
  BY <1>1, <1>2

\* refreshSearch leaves an open search true of the list it looks at.
LEMMA RefreshFacts ==
  ASSUME NEW bs \in Seq(BlockRecord), NEW s,
         s = Off \/ s \in [at : Position, matches : Seq(Position)]
  PROVE  SearchTrue(RefreshSearch(s, bs), bs)
<1>1. SUFFICES ASSUME s # Off, s \in [at : Position, matches : Seq(Position)]
               PROVE  SearchTrue(RefreshSearch(s, bs), bs)
  BY DEF RefreshSearch, SearchTrue
<1> DEFINE ms == MatchingBlocks(bs)
           I == {i \in 1 .. Len(ms) : ms[i] = s.matches[s.at]}
           found == IF I # {} THEN Min(I) ELSE 0
           kept == IF s.at \in DOMAIN s.matches THEN found ELSE 0
           at == IF kept # 0 THEN kept
                 ELSE IF Len(ms) = 0 \/ s.at =< Len(ms)
                      THEN IF Len(ms) = 0 THEN 1 ELSE s.at
                      ELSE Len(ms)
<1>2. RefreshSearch(s, bs) = [at |-> at, matches |-> ms]
  BY <1>1 DEF RefreshSearch, SelectInSeq
<1>3. Matching(ms, bs)
  BY MatchingFacts
<1>4. Len(ms) \in Nat
  BY <1>3 DEF Matching
<1>5. I # {} => Min(I) \in I
  <2>1. I \subseteq Nat
    OBVIOUS
  <2>2. I # {} => \E x \in I : \A y \in I : x =< y
    BY <2>1, Least
  <2> HIDE DEF I
  <2> QED
    BY <2>2 DEF Min
<1>6. kept \in 0 .. Len(ms)
  <2>1. I \subseteq 1 .. Len(ms)
    OBVIOUS
  <2>2. I # {} => Min(I) \in 1 .. Len(ms)
    BY <1>5, <2>1
  <2> HIDE DEF I, ms
  <2>3. found \in 0 .. Len(ms)
    BY <1>4, <2>2
  <2> HIDE DEF found
  <2> QED
    BY <1>4, <2>3
<1>7. s.at \in Nat \ {0}
  BY <1>1 DEF Position
<1>8. at \in 1 .. Larger(1, Len(ms)) /\ at \in Position
  <2> HIDE DEF kept, ms
  <2> QED
    BY <1>4, <1>6, <1>7 DEF Larger, Position
<1>9. ms \in Seq(Position)
  BY <1>3 DEF Matching
<1> HIDE DEF at, ms
<1> QED
  BY <1>2, <1>3, <1>8, <1>9 DEF SearchTrue

-----------------------------------------------------------------------------
(* What the window releases. *)

\* A budget of characters is kept by releasing all that is before the window,
\* and so by some least number of blocks.
LEMMA CharacterDiscardFacts ==
  ASSUME NEW bs, NEW ws \in Nat
  PROVE  CharacterDiscard(bs, ws) \in 0 .. ws
<1> DEFINE Fits(n) == Characters(bs, n + 1, ws) =< MaxCharacters
           T == {n \in 0 .. ws : Fits(n)}
<1>1. Characters(bs, ws + 1, ws) = 0
  <2> DEFINE sum == CHOOSE f : f = [j \in (ws + 1 - 1) .. ws |->
                       IF j = ws + 1 - 1 THEN 0 ELSE f[j - 1] + bs[j].length]
             zero == [j \in ws .. ws |-> 0]
  <2>1. (ws + 1) - 1 = ws /\ \A j \in ws .. ws : j = ws
    OBVIOUS
  <2>2. zero = [j \in (ws + 1 - 1) .. ws |->
                   IF j = ws + 1 - 1 THEN 0 ELSE zero[j - 1] + bs[j].length]
    BY <2>1
  <2>3. sum = [j \in (ws + 1 - 1) .. ws |->
                   IF j = ws + 1 - 1 THEN 0 ELSE sum[j - 1] + bs[j].length]
    BY <2>2
  <2>4. sum[ws] = 0
    <3> HIDE DEF sum
    <3> QED
      BY <2>1, <2>3
  <2> QED
    BY <2>4 DEF Characters
<1>2. ws \in T
  BY <1>1, TranscriptAssumption
<1>3. PICK m \in T : \A n \in T : m <= n
  <2>1. T \subseteq Nat
    OBVIOUS
  <2> HIDE DEF T
  <2> QED
    BY <1>2, <2>1, Least
<1>4. m \in 0 .. ws /\ Fits(m)
  OBVIOUS
<1>5. ASSUME NEW k \in 0 .. m - 1 PROVE ~Fits(k)
  <2>1. k \in 0 .. ws /\ ~(m <= k)
    BY <1>4
  <2> QED
    BY <1>3, <2>1
<1> HIDE DEF T
<1>6. \E n \in 0 .. ws : Fits(n) /\ \A k \in 0 .. n - 1 : ~Fits(k)
  BY <1>4, <1>5
<1>7. CharacterDiscard(bs, ws)
        = CHOOSE n \in 0 .. ws : Fits(n) /\ \A k \in 0 .. n - 1 : ~Fits(k)
  BY DEF CharacterDiscard
<1> HIDE DEF Fits
<1> QED
  BY <1>6, <1>7

\* What is released is before the window, and enough for the budget of blocks.
LEMMA DiscardFacts ==
  ASSUME NEW bs \in Seq(BlockRecord), NEW ws \in Nat
  PROVE  /\ DiscardCount(bs, ws) \in 0 .. ws
         /\ DiscardCount(bs, ws) >= Smaller(ws, Len(bs) - MaxRetained)
<1>1. CharacterDiscard(bs, ws) \in 0 .. ws
  BY CharacterDiscardFacts
<1>2. Len(bs) \in Nat /\ MaxRetained \in Nat
  BY TranscriptAssumption
<1> QED
  BY <1>1, <1>2 DEF DiscardCount, Smaller, Larger

\* A list without its first n members, none of which has the id of a later one.
LEMMA ReleasedFacts ==
  ASSUME NEW bs \in Seq(BlockRecord), NEW n \in 0 .. Len(bs)
  PROVE  LET left == SubSeq(bs, n + 1, Len(bs))
         IN  /\ left \in Seq(BlockRecord) /\ Len(left) = Len(bs) - n
             /\ \A k \in 1 .. Len(left) : left[k] = bs[n + k] /\ n + k \in 1 .. Len(bs)
<1>1. Len(bs) \in Nat /\ n \in Nat /\ n + 1 \in Nat /\ n <= Len(bs)
  OBVIOUS
<1>2. \A i \in 1 .. Len(bs) : bs[i] \in BlockRecord
  OBVIOUS
<1>3. SubSeq(bs, n + 1, Len(bs)) = [k \in 1 .. Len(bs) - n |-> bs[n + k]]
  BY <1>1
<1>4. \A k \in 1 .. Len(bs) - n : n + k \in 1 .. Len(bs)
  BY <1>1
<1> DEFINE left == [k \in 1 .. Len(bs) - n |-> bs[n + k]]
<1>5. left \in [1 .. Len(bs) - n -> BlockRecord] /\ Len(bs) - n \in Nat
  BY <1>1, <1>2, <1>4
<1>6. left \in Seq(BlockRecord) /\ Len(left) = Len(bs) - n
  BY <1>5
<1> QED
  BY <1>3, <1>4, <1>6

\* A list without its member i.
LEMMA RemovedFacts ==
  ASSUME NEW bs \in Seq(BlockRecord), NEW i \in 1 .. Len(bs)
  PROVE  LET left == RemoveAt(bs, i)
         IN  /\ left \in Seq(BlockRecord) /\ Len(left) = Len(bs) - 1
             /\ \A k \in 1 .. Len(left) : left[k] = bs[IF k < i THEN k ELSE k + 1]
<1>1. Len(bs) \in Nat /\ i \in Nat /\ 1 <= i /\ i <= Len(bs) /\ i \in 0 .. Len(bs)
  OBVIOUS
<1> DEFINE before == SubSeq(bs, 1, i - 1)
           after == SubSeq(bs, i + 1, Len(bs))
<1>2. after \in Seq(BlockRecord) /\ Len(after) = Len(bs) - i
      /\ \A k \in 1 .. Len(after) : after[k] = bs[i + k]
  BY <1>1, ReleasedFacts
<1>3. before = [k \in 1 .. i - 1 |-> bs[k]]
  BY <1>1
<1>4. before \in Seq(BlockRecord) /\ Len(before) = i - 1
      /\ \A k \in 1 .. i - 1 : before[k] = bs[k]
  <2>1. i - 1 \in Nat /\ \A k \in 1 .. i - 1 : bs[k] \in BlockRecord
    BY <1>1
  <2>2. [k \in 1 .. i - 1 |-> bs[k]] \in [1 .. i - 1 -> BlockRecord]
    BY <2>1
  <2> HIDE DEF before
  <2> QED
    BY <1>3, <2>1, <2>2
<1>5. RemoveAt(bs, i) = before \o after
  BY DEF RemoveAt
<1> HIDE DEF before, after
<1> DEFINE left == before \o after
<1>6. left \in Seq(BlockRecord) /\ Len(left) = Len(before) + Len(after)
      /\ \A k \in 1 .. Len(before) + Len(after) :
            left[k] = IF k <= Len(before) THEN before[k] ELSE after[k - Len(before)]
  BY <1>2, <1>4, ConcatProperties
<1>7. Len(left) = Len(bs) - 1
  BY <1>1, <1>2, <1>4, <1>6
<1> HIDE DEF left
<1>8. ASSUME NEW k \in 1 .. Len(bs) - 1 PROVE left[k] = bs[IF k < i THEN k ELSE k + 1]
  <2>1. left[k] = IF k <= i - 1 THEN before[k] ELSE after[k - (i - 1)]
    BY <1>1, <1>2, <1>4, <1>6, <1>8
  <2>2. CASE k < i
    <3>1. k \in 1 .. i - 1 /\ k <= i - 1
      BY <1>1, <1>8, <2>2
    <3> QED
      BY <1>4, <2>1, <2>2, <3>1
  <2>3. CASE ~(k < i)
    <3>1. ~(k <= i - 1) /\ k - (i - 1) \in 1 .. Len(bs) - i /\ i + (k - (i - 1)) = k + 1
      BY <1>1, <1>8, <2>3
    <3>2. after[k - (i - 1)] = bs[i + (k - (i - 1))]
      BY <1>2, <3>1
    <3> QED
      BY <2>1, <2>3, <3>1, <3>2
  <2> QED
    BY <2>2, <2>3
<1> QED
  BY <1>5, <1>6, <1>7, <1>8 DEF left

\* A list of the members at some places.
LEMMA KeptFacts ==
  ASSUME NEW bs \in Seq(BlockRecord), NEW K \in SUBSET (1 .. Len(bs))
  PROVE  LET kept == Ascending(K)
             left == [k \in DOMAIN kept |-> bs[kept[k]]]
         IN  /\ left \in Seq(BlockRecord) /\ Len(left) = Cardinality(K)
             /\ \A k \in 1 .. Len(left) : left[k] = bs[kept[k]] /\ kept[k] \in 1 .. Len(bs)
             /\ \A k, n \in 1 .. Len(left) : k < n => kept[k] < kept[n]
<1>1. Len(bs) \in Nat
  OBVIOUS
<1>2. IsFiniteSet(K)
  <2>1. IsFiniteSet(1 .. Len(bs))
    BY <1>1, FS_Interval
  <2> QED
    BY <2>1, FS_Subset
<1>3. K \in SUBSET Nat
  BY <1>1
<1> DEFINE kept == Ascending(K)
           left == [k \in DOMAIN kept |-> bs[kept[k]]]
<1>4. kept \in [1 .. Cardinality(K) -> K] /\ InOrder(kept) /\ Cardinality(K) \in Nat
  BY <1>2, <1>3, AscendingFacts
<1> HIDE DEF kept
<1>5. \A k \in 1 .. Cardinality(K) : kept[k] \in 1 .. Len(bs) /\ bs[kept[k]] \in BlockRecord
  <2>1. \A k \in 1 .. Len(bs) : bs[k] \in BlockRecord
    OBVIOUS
  <2> QED
    BY <1>4, <2>1
<1>6. left \in [1 .. Cardinality(K) -> BlockRecord]
  BY <1>4, <1>5
<1>7. left \in Seq(BlockRecord) /\ Len(left) = Cardinality(K)
  <2> HIDE DEF left
  <2> QED
    BY <1>4, <1>6
<1>8. \A k \in 1 .. Len(left) : left[k] = bs[kept[k]]
  BY <1>4, <1>7
<1> HIDE DEF left
<1> QED
  BY <1>4, <1>5, <1>7, <1>8 DEF InOrder, kept, left
-----------------------------------------------------------------------------
(* The invariant. *)

\* The window is current, with respect to a list.
WindowTrue(bs, ws) ==
  /\ ws \in Nat /\ Len(bs) <= MaxRetained
  /\ Len(bs) - ws <= RenderWindow + WindowStep
  /\ bs # <<>> => ws < Len(bs)
  /\ bs = <<>> => ws = 0

\* The transcript's inductive invariant.
TranscriptInv ==
  /\ TranscriptTypeOK
  /\ Distinct(blocks)
  /\ WindowTrue(blocks, windowStart)
  /\ SearchTrue(search, blocks)

\* The cursor stays on its block.
StaysOnBlock ==
  /\ blocks' # blocks
  /\ reading \in DOMAIN blocks /\ reading' # 0
  /\ blocks[reading].id \in Ids(blocks')
  => /\ reading' \in DOMAIN blocks'
     /\ blocks'[reading'].id = blocks[reading].id

\* A block that takes the place of another with its id.
LEMMA ReplacePreserves ==
  ASSUME TranscriptInv, NEW b \in BlockRecord, ReplaceBlock(b)
  PROVE  TranscriptInv' /\ StaysOnBlock
<1> DEFINE i == IndexOf(blocks, b.id)
           c == [b EXCEPT !.tag = IF b.tag = Untagged THEN blocks[i].tag ELSE b.tag]
<1>1. blocks \in Seq(BlockRecord)
  BY DEF TranscriptInv, TranscriptTypeOK
<1>2. i \in 1 .. Len(blocks) /\ blocks[i].id = b.id
  BY <1>1, IndexFacts DEF ReplaceBlock
<1>3. blocks' = [blocks EXCEPT ![i] = c] /\ search' = RefreshSearch(search, blocks')
      /\ windowStart' = windowStart /\ reading' = reading /\ page' = page
  BY DEF ReplaceBlock
<1>4. blocks[i] \in BlockRecord
  BY <1>1, <1>2
<1>5. c \in BlockRecord /\ c.id = b.id
  <2> HIDE DEF i
  <2> QED
    BY <1>4 DEF BlockRecord
<1> HIDE DEF c, i
<1>6. blocks' \in Seq(BlockRecord) /\ Len(blocks') = Len(blocks)
      /\ DOMAIN blocks' = 1 .. Len(blocks) /\ DOMAIN blocks = 1 .. Len(blocks)
  BY <1>1, <1>2, <1>3, <1>5
<1>7. \A k \in 1 .. Len(blocks) : blocks'[k].id = blocks[k].id
  BY <1>1, <1>2, <1>3, <1>5
<1>8. Distinct(blocks)'
  BY <1>6, <1>7 DEF TranscriptInv, Distinct
<1>9. SearchTrue(search', blocks')
  BY <1>3, <1>6, RefreshFacts DEF TranscriptInv, TranscriptTypeOK
<1>10. WindowTrue(blocks, windowStart)'
  <2>1. blocks' # <<>> <=> blocks # <<>>
    BY <1>1, <1>6
  <2> QED
    BY <1>3, <1>6, <2>1 DEF TranscriptInv, WindowTrue
<1>11. TranscriptTypeOK'
  BY <1>3, <1>6, <1>9 DEF TranscriptInv, TranscriptTypeOK, SearchTrue
<1>12. StaysOnBlock
  BY <1>3, <1>6, <1>7 DEF StaysOnBlock
<1> QED
  BY <1>8, <1>9, <1>10, <1>11, <1>12 DEF TranscriptInv

\* A new block at the end, after which the window may advance and the oldest
\* blocks be released.
LEMMA AppendPreserves ==
  ASSUME TranscriptInv, NEW b \in BlockRecord, AppendBlock(b)
  PROVE  TranscriptInv' /\ StaysOnBlock
<1> DEFINE grown == Append(blocks, b)
           L == Len(blocks)
           ws == NextWindowStart(grown, windowStart)
           cut == IF BudgetApplies(grown, windowStart) THEN DiscardCount(grown, ws) ELSE 0
<1>1. /\ b.id \notin Ids(blocks)
      /\ blocks' = SubSeq(grown, cut + 1, Len(grown))
      /\ windowStart' = ws - cut
      /\ reading' = IF reading = 0 THEN 0 ELSE Larger(1, reading - cut)
      /\ search' = RefreshSearch(search, blocks') /\ page' = page
  BY DEF AppendBlock
<1>2. blocks \in Seq(BlockRecord) /\ L \in Nat /\ DOMAIN blocks = 1 .. L
  BY DEF TranscriptInv, TranscriptTypeOK
<1>3. grown \in Seq(BlockRecord) /\ Len(grown) = L + 1 /\ grown[L + 1] = b
      /\ \A k \in 1 .. L : grown[k] = blocks[k]
  BY <1>2, AppendProperties
<1>4. windowStart \in Nat /\ L <= MaxRetained /\ L - windowStart <= RenderWindow + WindowStep
      /\ (L > 0 => windowStart < L) /\ (L = 0 => windowStart = 0) /\ reading \in Nat
  BY <1>2, EmptySeq DEF TranscriptInv, TranscriptTypeOK, WindowTrue
<1>5. MaxRetained \in Nat /\ RenderWindow \in Nat /\ RenderWindow > 0 /\ WindowStep \in Nat
      /\ RenderWindow + WindowStep <= MaxRetained
  BY TranscriptAssumption
<1> HIDE DEF grown
<1>6. ws = IF (L + 1) - windowStart > RenderWindow + WindowStep
           THEN (L + 1) - RenderWindow ELSE windowStart
  BY <1>3 DEF NextWindowStart, ShouldAdvance
<1>7. ws \in Nat
  BY <1>2, <1>4, <1>5, <1>6
<1> HIDE DEF ws
<1>8. DiscardCount(grown, ws) \in 0 .. ws
      /\ DiscardCount(grown, ws) >= Smaller(ws, (L + 1) - MaxRetained)
  BY <1>3, <1>7, DiscardFacts
<1>9. ~BudgetApplies(grown, windowStart) => L + 1 <= MaxRetained
  BY <1>2, <1>3, <1>5 DEF BudgetApplies
<1>10. cut \in 0 .. ws /\ (cut >= Smaller(ws, (L + 1) - MaxRetained) \/ L + 1 <= MaxRetained)
  BY <1>7, <1>8, <1>9
<1> HIDE DEF cut
<1>11. cut \in 0 .. L + 1 /\ ws < L + 1 /\ (L + 1) - ws <= RenderWindow + WindowStep
  <2>1. ws < L + 1 /\ (L + 1) - ws <= RenderWindow + WindowStep
    <3>1. CASE (L + 1) - windowStart > RenderWindow + WindowStep
      <4>1. ws = (L + 1) - RenderWindow
        BY <1>6, <3>1
      <4> QED
        BY <1>2, <1>5, <4>1
    <3>2. CASE ~((L + 1) - windowStart > RenderWindow + WindowStep)
      <4>1. ws = windowStart
        BY <1>6, <3>2
      <4> QED
        BY <1>2, <1>4, <1>5, <3>2, <4>1
    <3> QED
      BY <3>1, <3>2
  <2> QED
    BY <1>2, <1>7, <1>10, <2>1
<1>12. /\ blocks' \in Seq(BlockRecord) /\ Len(blocks') = (L + 1) - cut
       /\ \A k \in 1 .. Len(blocks') : blocks'[k] = grown[cut + k] /\ cut + k \in 1 .. L + 1
  BY <1>1, <1>3, <1>11, ReleasedFacts
<1>13. windowStart' \in Nat /\ Len(blocks') <= MaxRetained /\ windowStart' < Len(blocks')
       /\ Len(blocks') - windowStart' <= RenderWindow + WindowStep
  BY <1>1, <1>2, <1>5, <1>7, <1>10, <1>11, <1>12 DEF Smaller
<1>14. WindowTrue(blocks, windowStart)'
  BY <1>12, <1>13, EmptySeq DEF WindowTrue
<1>15. SearchTrue(search', blocks')
  BY <1>1, <1>12, RefreshFacts DEF TranscriptInv, TranscriptTypeOK
<1>16. reading' \in Nat
  BY <1>1, <1>4, <1>7, <1>10 DEF Larger
<1>17. TranscriptTypeOK'
  BY <1>1, <1>12, <1>13, <1>15, <1>16 DEF TranscriptInv, TranscriptTypeOK, SearchTrue
<1>18. ASSUME NEW k \in 1 .. L + 1, NEW n \in 1 .. L + 1, grown[k].id = grown[n].id
       PROVE  k = n
  <2>1. \A j \in 1 .. L : blocks[j].id # b.id
    BY <1>1, <1>2 DEF Ids
  <2>2. \A j \in 1 .. L : grown[j].id # b.id
    BY <1>3, <2>1
  <2>3. k = L + 1 \/ k \in 1 .. L
    BY <1>2
  <2>4. n = L + 1 \/ n \in 1 .. L
    BY <1>2
  <2>5. k \in 1 .. L /\ n \in 1 .. L => blocks[k].id = blocks[n].id
    BY <1>3, <1>18
  <2> QED
    BY <1>3, <1>18, <2>2, <2>3, <2>4, <2>5 DEF TranscriptInv, Distinct
<1>19. ASSUME NEW k \in 1 .. Len(blocks'), NEW n \in 1 .. Len(blocks'),
              blocks'[k].id = blocks'[n].id
       PROVE  k = n
  <2>1. cut + k = cut + n
    BY <1>12, <1>18, <1>19
  <2> QED
    BY <1>7, <1>10, <1>12, <2>1
<1>20. Distinct(blocks)'
  BY <1>19 DEF Distinct
<1>21. StaysOnBlock
  <2>1. SUFFICES ASSUME reading \in DOMAIN blocks, reading' # 0, blocks[reading].id \in Ids(blocks')
                 PROVE  reading' \in DOMAIN blocks' /\ blocks'[reading'].id = blocks[reading].id
    BY DEF StaysOnBlock
  <2>2. reading \in 1 .. L /\ reading \in 1 .. L + 1 /\ grown[reading] = blocks[reading]
    BY <1>2, <1>3, <2>1
  <2>3. DOMAIN blocks' = 1 .. Len(blocks')
    BY <1>12
  <2>4. PICK k \in 1 .. Len(blocks') : blocks'[k].id = blocks[reading].id
    BY <2>1, <2>3 DEF Ids
  <2>5. cut + k = reading
    BY <1>12, <1>18, <2>2, <2>4
  <2>6. reading' = k
    BY <1>1, <1>7, <1>10, <1>12, <2>2, <2>5 DEF Larger
  <2> QED
    BY <2>3, <2>4, <2>6
<1> QED
  BY <1>14, <1>15, <1>17, <1>20, <1>21 DEF TranscriptInv

\* The window after some blocks were removed.
LEMMA WindowAfterFacts ==
  ASSUME NEW bs \in Seq(BlockRecord), NEW ws \in Nat,
         Len(bs) <= MaxRetained, Len(bs) - ws <= RenderWindow + WindowStep
  PROVE  WindowTrue(bs, WindowAfter(Len(bs), ws))
<1>1. Len(bs) \in Nat /\ (bs = <<>> <=> Len(bs) = 0)
  BY EmptySeq
<1>2. RenderWindow \in Nat /\ RenderWindow > 0 /\ WindowStep \in Nat
  BY TranscriptAssumption
<1>3. CASE Len(bs) = 0
  <2>1. WindowAfter(Len(bs), ws) = 0
    BY <1>3 DEF WindowAfter, Smaller, Larger
  <2> QED
    BY <1>1, <1>2, <1>3, <2>1 DEF WindowTrue
<1>4. CASE Len(bs) # 0
  <2>1. WindowAfter(Len(bs), ws) = IF ws < Len(bs) - 1 THEN ws ELSE Len(bs) - 1
    BY <1>1, <1>4 DEF WindowAfter, Smaller, Larger
  <2>2. WindowAfter(Len(bs), ws) \in Nat /\ WindowAfter(Len(bs), ws) < Len(bs)
        /\ Len(bs) - WindowAfter(Len(bs), ws) <= RenderWindow + WindowStep
    <3>1. CASE ws < Len(bs) - 1
      <4>1. WindowAfter(Len(bs), ws) = ws
        BY <2>1, <3>1
      <4> QED
        BY <1>1, <3>1, <4>1
    <3>2. CASE ~(ws < Len(bs) - 1)
      <4>1. WindowAfter(Len(bs), ws) = Len(bs) - 1
        BY <2>1, <3>2
      <4> QED
        BY <1>1, <1>2, <1>4, <4>1
    <3> QED
      BY <3>1, <3>2
  <2> QED
    BY <1>1, <1>4, <2>2 DEF WindowTrue
<1> QED
  BY <1>3, <1>4

\* One block is removed.
LEMMA RemovePreserves ==
  ASSUME TranscriptInv, NEW id \in BlockId, RemoveBlock(id)
  PROVE  TranscriptInv' /\ StaysOnBlock
<1> DEFINE i == IndexOf(blocks, id)
           left == RemoveAt(blocks, i)
           L == Len(blocks)
           w == IF i =< windowStart THEN windowStart - 1 ELSE windowStart
<1>1. /\ i # 0 /\ blocks' = left
      /\ reading' = ReadingAfter(i, Len(left))
      /\ windowStart' = WindowAfter(Len(left), w)
      /\ search' = RefreshSearch(search, left) /\ page' = page
  BY DEF RemoveBlock
<1>2. blocks \in Seq(BlockRecord) /\ L \in Nat /\ DOMAIN blocks = 1 .. L
  BY DEF TranscriptInv, TranscriptTypeOK
<1>3. i \in 1 .. L
  BY <1>1, <1>2, IndexFacts
<1> HIDE DEF i
<1>4. /\ left \in Seq(BlockRecord) /\ Len(left) = L - 1
      /\ \A k \in 1 .. Len(left) : left[k] = blocks[IF k < i THEN k ELSE k + 1]
  BY <1>2, <1>3, RemovedFacts
<1> HIDE DEF left
<1>5. windowStart \in Nat /\ L <= MaxRetained /\ L - windowStart <= RenderWindow + WindowStep
      /\ reading \in Nat
  BY <1>2 DEF TranscriptInv, TranscriptTypeOK, WindowTrue
<1>6. MaxRetained \in Nat /\ RenderWindow \in Nat /\ RenderWindow > 0 /\ WindowStep \in Nat
  BY TranscriptAssumption
<1>7. w \in Nat /\ Len(left) <= MaxRetained /\ Len(left) - w <= RenderWindow + WindowStep
  BY <1>2, <1>3, <1>4, <1>5, <1>6
<1> HIDE DEF w
<1>8. WindowTrue(left, WindowAfter(Len(left), w))
  BY <1>4, <1>7, WindowAfterFacts
<1>9. SearchTrue(search', left)
  BY <1>1, <1>4, RefreshFacts DEF TranscriptInv, TranscriptTypeOK
<1>10. reading' \in Nat
  BY <1>1, <1>2, <1>4, <1>5, <1>3 DEF ReadingAfter, Smaller
<1>11. TranscriptTypeOK'
  BY <1>1, <1>4, <1>8, <1>9, <1>10 DEF TranscriptInv, TranscriptTypeOK, SearchTrue, WindowTrue
<1> DEFINE from(k) == IF k < i THEN k ELSE k + 1
<1>12. \A k \in 1 .. L - 1 : from(k) \in 1 .. L /\ left[k] = blocks[from(k)] /\ from(k) # i
  BY <1>2, <1>3, <1>4
<1>13. \A k, n \in 1 .. L - 1 : from(k) = from(n) => k = n
  BY <1>2, <1>3
<1>14. Distinct(left)
  <2> HIDE DEF from
  <2>1. ASSUME NEW k \in 1 .. Len(left), NEW n \in 1 .. Len(left), left[k].id = left[n].id
        PROVE  k = n
    <3>1. k \in 1 .. L - 1 /\ n \in 1 .. L - 1
      BY <1>4
    <3>2. blocks[from(k)].id = blocks[from(n)].id
      BY <1>12, <2>1, <3>1
    <3>3. from(k) = from(n)
      BY <1>12, <3>1, <3>2 DEF TranscriptInv, Distinct
    <3> QED
      BY <1>13, <3>1, <3>3
  <2> QED
    BY <2>1 DEF Distinct
<1>15. StaysOnBlock
  <2>1. SUFFICES ASSUME reading \in DOMAIN blocks, reading' # 0, blocks[reading].id \in Ids(left)
                 PROVE  reading' \in DOMAIN left /\ left[reading'].id = blocks[reading].id
    BY <1>1 DEF StaysOnBlock
  <2>2. DOMAIN left = 1 .. L - 1 /\ reading \in 1 .. L
    BY <1>2, <1>4, <2>1
  <2>3. PICK k \in 1 .. L - 1 : left[k].id = blocks[reading].id
    BY <2>1, <2>2 DEF Ids
  <2>4. from(k) = reading
    <3>1. from(k) \in 1 .. L /\ blocks[from(k)].id = blocks[reading].id
      BY <1>12, <2>3
    <3> HIDE DEF from
    <3> QED
      BY <2>2, <3>1 DEF TranscriptInv, Distinct
  <2>5. reading' = IF i < reading THEN reading - 1 ELSE Smaller(reading, L - 1)
    BY <1>1, <1>2, <1>4, <2>2, <2>3 DEF ReadingAfter
  <2>6. reading' = k
    <3>1. CASE k < i
      <4>1. reading = k /\ ~(i < reading)
        BY <1>2, <1>3, <2>3, <2>4, <3>1
      <4>2. reading' = Smaller(k, L - 1) /\ k <= L - 1
        BY <2>3, <2>5, <4>1
      <4>3. k \in Int /\ L - 1 \in Int
        BY <1>2, <2>3
      <4>4. Smaller(k, L - 1) = k
        <5> HIDE DEF L, from
        <5> QED
          BY <4>2, <4>3 DEF Smaller
      <4> QED
        BY <4>2, <4>4
    <3>2. CASE ~(k < i)
      <4>1. reading = k + 1 /\ i < reading
        BY <1>2, <1>3, <2>3, <2>4, <3>2
      <4> QED
        BY <2>3, <2>5, <4>1
    <3> QED
      BY <3>1, <3>2
  <2> QED
    BY <2>2, <2>3, <2>6
<1>16. WindowTrue(blocks, windowStart)'
  BY <1>1, <1>8
<1>17. Distinct(blocks)' /\ SearchTrue(search, blocks)'
  BY <1>1, <1>9, <1>14
<1> QED
  BY <1>11, <1>15, <1>16, <1>17 DEF TranscriptInv

\* The members of a set of places are as many as those up to a place and those
\* after it, and there are no more of these than places.
LEMMA SplitFacts ==
  ASSUME NEW L \in Nat, NEW ws \in Nat, ws <= L, NEW K \in SUBSET (1 .. L)
  PROVE  /\ IsFiniteSet(K) /\ Cardinality(K) \in Nat
         /\ Cardinality(K) <= L
         /\ Cardinality(K) - (ws - Cardinality((1 .. ws) \ K)) <= L - ws
         /\ ws - Cardinality((1 .. ws) \ K) \in Nat
<1> DEFINE A == 1 .. ws
           B == (ws + 1) .. L
<1>1. IsFiniteSet(A) /\ Cardinality(A) = ws /\ IsFiniteSet(B) /\ Cardinality(B) = L - ws
  <2>1. 1 \in Int /\ ws \in Int /\ ws + 1 \in Int /\ L \in Int
    OBVIOUS
  <2>2. IsFiniteSet(A) /\ Cardinality(A) = IF 1 > ws THEN 0 ELSE ws - 1 + 1
    BY <2>1, FS_Interval
  <2>3. IsFiniteSet(B) /\ Cardinality(B) = IF ws + 1 > L THEN 0 ELSE L - (ws + 1) + 1
    BY <2>1, FS_Interval
  <2> HIDE DEF A, B
  <2> QED
    BY <2>2, <2>3
<1>2. IsFiniteSet(1 .. L) /\ Cardinality(1 .. L) = L
  BY FS_Interval
<1>3. IsFiniteSet(K) /\ Cardinality(K) <= L
  BY <1>2, FS_Subset
<1>4. 1 .. L = A \cup B /\ A \cap B = {}
  OBVIOUS
<1> HIDE DEF A, B
<1>5. IsFiniteSet(A \ K) /\ Cardinality(A \ K) = ws - Cardinality(A \cap K)
  BY <1>1, FS_Difference
<1>6. IsFiniteSet(A \cap K) /\ IsFiniteSet(B \cap K) /\ Cardinality(B \cap K) <= L - ws
      /\ Cardinality(A \cap K) <= ws
  BY <1>1, FS_Intersection
<1>7. (A \cap K) \cup (B \cap K) = K /\ (A \cap K) \cap (B \cap K) = {}
  BY <1>4
<1>8. Cardinality(K) = Cardinality(A \cap K) + Cardinality(B \cap K) - Cardinality({})
  BY <1>6, <1>7, FS_Union
<1>9. Cardinality({}) = 0
  BY FS_EmptySet
<1>10. Cardinality(K) \in Nat /\ Cardinality(A \cap K) \in Nat /\ Cardinality(B \cap K) \in Nat
       /\ Cardinality(A \ K) \in Nat
  BY <1>3, <1>5, <1>6, FS_CardinalityType
<1> QED
  BY <1>3, <1>5, <1>6, <1>8, <1>9, <1>10 DEF A

\* A message is removed with all its blocks.
LEMMA RemoveMessagePreserves ==
  ASSUME TranscriptInv, NEW m \in MessageTag, RemoveMessageBlocks(m)
  PROVE  TranscriptInv'
<1> DEFINE L == Len(blocks)
           K == {i \in DOMAIN blocks : blocks[i].tag # m}
           kept == Ascending(K)
           left == [k \in DOMAIN kept |-> blocks[kept[k]]]
           before == Cardinality({i \in 1 .. windowStart : blocks[i].tag = m})
<1>1. /\ blocks' = left /\ windowStart' = WindowAfter(Len(left), windowStart - before)
      /\ search' = RefreshSearch(search, left) /\ reading' = reading /\ page' = page
  BY DEF RemoveMessageBlocks
<1>2. blocks \in Seq(BlockRecord) /\ L \in Nat /\ DOMAIN blocks = 1 .. L
  BY DEF TranscriptInv, TranscriptTypeOK
<1>3. windowStart \in Nat /\ L <= MaxRetained /\ L - windowStart <= RenderWindow + WindowStep
      /\ windowStart <= L /\ reading \in Nat
  BY <1>2, EmptySeq DEF TranscriptInv, TranscriptTypeOK, WindowTrue
<1>4. K \in SUBSET (1 .. L)
  BY <1>2
<1>5. {i \in 1 .. windowStart : blocks[i].tag = m} = (1 .. windowStart) \ K
  BY <1>2, <1>3
<1>6. before = Cardinality((1 .. windowStart) \ K)
  BY <1>5
<1> HIDE DEF K, before
<1>7. /\ left \in Seq(BlockRecord) /\ Len(left) = Cardinality(K)
      /\ \A k \in 1 .. Len(left) : left[k] = blocks[kept[k]] /\ kept[k] \in 1 .. L
      /\ \A k, n \in 1 .. Len(left) : k < n => kept[k] < kept[n]
  BY <1>2, <1>4, KeptFacts
<1> HIDE DEF left, kept
<1>8. /\ Cardinality(K) \in Nat /\ Cardinality(K) <= L
      /\ Cardinality(K) - (windowStart - before) <= L - windowStart
      /\ windowStart - before \in Nat
  BY <1>2, <1>3, <1>4, <1>6, SplitFacts
<1>9. Len(left) <= MaxRetained /\ Len(left) - (windowStart - before) <= RenderWindow + WindowStep
  BY <1>2, <1>3, <1>7, <1>8, TranscriptAssumption
<1>10. WindowTrue(left, WindowAfter(Len(left), windowStart - before))
  BY <1>7, <1>8, <1>9, WindowAfterFacts
<1>11. SearchTrue(search', left)
  BY <1>1, <1>7, RefreshFacts DEF TranscriptInv, TranscriptTypeOK
<1>12. ASSUME NEW k \in 1 .. Len(left), NEW n \in 1 .. Len(left), left[k].id = left[n].id
       PROVE  k = n
  <2>1. kept[k] = kept[n]
    BY <1>7, <1>12 DEF TranscriptInv, Distinct
  <2>2. kept[k] \in Nat /\ k \in Nat /\ n \in Nat
    BY <1>2, <1>7
  <2>3. ~(k < n) /\ ~(n < k)
    BY <1>7, <2>1, <2>2
  <2> QED
    BY <2>2, <2>3
<1>13. Distinct(left)
  BY <1>12 DEF Distinct
<1>14. WindowTrue(blocks, windowStart)'
  BY <1>1, <1>10
<1>15. Distinct(blocks)' /\ SearchTrue(search, blocks)'
  BY <1>1, <1>11, <1>13
<1>16. TranscriptTypeOK'
  BY <1>1, <1>3, <1>7, <1>10, <1>11 DEF TranscriptInv, TranscriptTypeOK, SearchTrue, WindowTrue
<1> QED
  BY <1>14, <1>15, <1>16 DEF TranscriptInv

\* The search looks again when it has to: SearchLooksAgain of the step.
LooksAgain ==
  \/ Names(blocks') # Names(blocks)
  \/ search = Off
  \/ search' # Off /\ search'.matches # search.matches
  => SearchRight(search', blocks')

\* A block changes in place and keeps its id.
LEMMA InPlacePreserves ==
  ASSUME TranscriptInv, NEW i \in 1 .. Len(blocks), NEW c \in BlockRecord,
         c.id = blocks[i].id,
         blocks' = [blocks EXCEPT ![i] = c], UNCHANGED <<windowStart, reading, search, page>>
  PROVE  TranscriptInv' /\ StaysOnBlock /\ LooksAgain
<1>1. blocks \in Seq(BlockRecord)
  BY DEF TranscriptInv, TranscriptTypeOK
<1>2. blocks' \in Seq(BlockRecord) /\ Len(blocks') = Len(blocks)
      /\ DOMAIN blocks' = 1 .. Len(blocks) /\ DOMAIN blocks = 1 .. Len(blocks)
  BY <1>1
<1>3. \A k \in 1 .. Len(blocks) : blocks'[k].id = blocks[k].id
  BY <1>1
<1>4. Distinct(blocks)'
  BY <1>2, <1>3 DEF TranscriptInv, Distinct
<1>5. SearchTrue(search, blocks)'
  BY <1>2, <1>3 DEF TranscriptInv, SearchTrue, Matching
<1>6. WindowTrue(blocks, windowStart)'
  <2>1. blocks' # <<>> <=> blocks # <<>>
    BY <1>1, <1>2
  <2> QED
    BY <1>2, <2>1 DEF TranscriptInv, WindowTrue
<1>7. TranscriptTypeOK'
  BY <1>2 DEF TranscriptInv, TranscriptTypeOK
<1>8. StaysOnBlock
  BY <1>2, <1>3 DEF StaysOnBlock
<1>9. LooksAgain
  <2>1. Names(blocks') = Names(blocks)
    BY <1>2, <1>3 DEF Names
  <2> QED
    BY <2>1 DEF LooksAgain, SearchRight
<1> QED
  BY <1>4, <1>5, <1>6, <1>7, <1>8, <1>9 DEF TranscriptInv

\* A block's message is found out.
LEMMA AssociatePreserves ==
  ASSUME TranscriptInv, NEW id \in BlockId, NEW m \in MessageTag,
         AssociateBlockWithMessage(id, m)
  PROVE  TranscriptInv' /\ StaysOnBlock /\ LooksAgain
<1> DEFINE i == IndexOf(blocks, id)
           c == [blocks[i] EXCEPT !.tag = m]
<1>1. blocks \in Seq(BlockRecord)
  BY DEF TranscriptInv, TranscriptTypeOK
<1>2. i \in 1 .. Len(blocks) /\ blocks[i] \in BlockRecord
  BY <1>1, IndexFacts DEF AssociateBlockWithMessage
<1>3. blocks' = [blocks EXCEPT ![i] = c] /\ UNCHANGED <<windowStart, reading, search, page>>
  BY DEF AssociateBlockWithMessage
<1> HIDE DEF i
<1>4. c \in BlockRecord /\ c.id = blocks[i].id
  BY <1>2 DEF BlockRecord
<1> HIDE DEF c
<1> QED
  BY <1>2, <1>3, <1>4, InPlacePreserves

\* The text of a block changes in place.
LEMMA TextChangesPreserves ==
  ASSUME TranscriptInv, NEW id \in BlockId, NEW hit \in BOOLEAN, NEW n \in Length,
         TextChanges(id, hit, n)
  PROVE  TranscriptInv' /\ StaysOnBlock /\ LooksAgain
<1> DEFINE i == IndexOf(blocks, id)
           c == [blocks[i] EXCEPT !.hit = hit, !.length = n]
<1>1. blocks \in Seq(BlockRecord)
  BY DEF TranscriptInv, TranscriptTypeOK
<1>2. i \in 1 .. Len(blocks) /\ blocks[i] \in BlockRecord
  BY <1>1, IndexFacts DEF TextChanges
<1>3. blocks' = [blocks EXCEPT ![i] = c] /\ UNCHANGED <<windowStart, reading, search, page>>
  BY DEF TextChanges
<1> HIDE DEF i
<1>4. c \in BlockRecord /\ c.id = blocks[i].id
  BY <1>2 DEF BlockRecord
<1> HIDE DEF c
<1> QED
  BY <1>2, <1>3, <1>4, InPlacePreserves

\* The transcript is cleared.
LEMMA ClearPreserves == ASSUME TranscriptInv, ClearTranscript PROVE TranscriptInv' /\ StaysOnBlock
<1>1. blocks' = <<>> /\ windowStart' = 0 /\ reading' = 0 /\ search' = Off /\ page' = page
  BY DEF ClearTranscript
<1>2. <<>> \in Seq(BlockRecord) /\ Len(<<>>) = 0
  OBVIOUS
<1>3. Distinct(<<>>) /\ WindowTrue(<<>>, 0) /\ SearchTrue(Off, <<>>)
  BY TranscriptAssumption DEF Distinct, WindowTrue, SearchTrue
<1> QED
  BY <1>1, <1>2, <1>3 DEF TranscriptInv, TranscriptTypeOK, StaysOnBlock

\* The steps of the reader leave the list and its window alone.
Navigates ==
  \/ \E d \in {-1, 1} : MoveCursor(d) \/ NextSearchMatch(d)
  \/ SelectLatest \/ SearchFor \/ LeaveNavigation
  \/ \E d \in {-1, 1}, n \in 1 .. Pages : MovePage(d, n)

\* The next match of a search that has some is one of them.
LEMMA NextMatchFacts ==
  ASSUME NEW n \in Nat, n # 0, NEW at \in 1 .. n, NEW d \in {-1, 1}
  PROVE  ((at - 1 + d) % n) + 1 \in 1 .. n
<1>1. at - 1 + d \in Int
  OBVIOUS
<1>2. (at - 1 + d) % n \in 0 .. n - 1
  BY <1>1
<1> QED
  BY <1>2

\* The reader navigates.
LEMMA NavigationPreserves == ASSUME TranscriptInv, Navigates PROVE TranscriptInv' /\ StaysOnBlock
<1> DEFINE Searches == {Off} \cup [at : Position, matches : Seq(Position)]
           Kept == /\ reading' \in Nat /\ page' \in 0 .. Pages - 1
                   /\ search' \in Searches /\ SearchTrue(search', blocks)
<1>1. blocks' = blocks /\ windowStart' = windowStart
  BY DEF Navigates, MoveCursor, NextSearchMatch, SelectLatest, SearchFor, LeaveNavigation, MovePage
<1>2. blocks \in Seq(BlockRecord) /\ Len(blocks) \in Nat /\ reading \in Nat /\ page \in 0 .. Pages - 1
      /\ Pages \in Nat /\ Pages # 0 /\ search \in Searches /\ SearchTrue(search, blocks)
  BY TranscriptAssumption DEF TranscriptInv, TranscriptTypeOK
<1>3. SearchTrue(Off, blocks)
  BY DEF SearchTrue
<1>4. Kept
  <2>1. ASSUME NEW d \in {-1, 1}, MoveCursor(d) PROVE Kept
    <3>1. reading' \in Nat
      BY <1>2, <2>1 DEF MoveCursor, Larger, Smaller
    <3> QED
      BY <1>2, <1>3, <2>1, <3>1 DEF MoveCursor
  <2>2. ASSUME NEW d \in {-1, 1}, NextSearchMatch(d) PROVE Kept
    <3> DEFINE n == Len(search.matches)
               at == ((search.at - 1 + d) % n) + 1
    <3>1. search # Off /\ search.matches # <<>> /\ page' = 0 /\ reading' = reading
          /\ search' = [search EXCEPT !.at = at]
      BY <2>2 DEF NextSearchMatch
    <3>2. search \in [at : Position, matches : Seq(Position)]
          /\ Matching(search.matches, blocks) /\ search.at \in 1 .. Larger(1, n)
      BY <1>2, <3>1 DEF SearchTrue
    <3>3. search.matches \in Seq(Position)
      BY <3>2
    <3>4. n \in Nat /\ n # 0
      BY <3>1, <3>3, EmptySeq
    <3> HIDE DEF n
    <3>5. search.at \in 1 .. n
      BY <3>2, <3>4 DEF Larger
    <3>6. at \in 1 .. n
      BY <3>4, <3>5, NextMatchFacts
    <3> HIDE DEF at
    <3>7. at \in Position /\ at \in 1 .. Larger(1, n)
      BY <3>4, <3>6 DEF Position, Larger
    <3>8. search' = [at |-> at, matches |-> search.matches]
      BY <3>1, <3>2
    <3>9. search' \in [at : Position, matches : Seq(Position)]
          /\ search'.at = at /\ search'.matches = search.matches
      BY <3>3, <3>7, <3>8
    <3>10. SearchTrue(search', blocks)
      BY <3>2, <3>7, <3>9 DEF SearchTrue, n
    <3> QED
      BY <1>2, <3>1, <3>9, <3>10
  <2>3. ASSUME SelectLatest PROVE Kept
    BY <1>2, <1>3, <2>3 DEF SelectLatest
  <2>4. ASSUME SearchFor PROVE Kept
    <3> DEFINE ms == MatchingBlocks(blocks)
    <3>1. search' = [at |-> 1, matches |-> ms] /\ reading' = 0 /\ page' = 0
      BY <2>4 DEF SearchFor
    <3>2. Matching(ms, blocks)
      BY <1>2, MatchingFacts
    <3> HIDE DEF ms
    <3>3. ms \in Seq(Position)
      BY <3>2 DEF Matching
    <3>4. Len(ms) \in Nat
      BY <3>3
    <3>5. 1 \in Position /\ 1 \in 1 .. Larger(1, Len(ms))
      BY <3>4 DEF Position, Larger
    <3>6. search' \in [at : Position, matches : Seq(Position)]
          /\ search'.at = 1 /\ search'.matches = ms
      BY <3>1, <3>3, <3>5
    <3>7. SearchTrue(search', blocks)
      BY <3>2, <3>5, <3>6 DEF SearchTrue
    <3> QED
      BY <1>2, <3>1, <3>6, <3>7
  <2>5. ASSUME LeaveNavigation PROVE Kept
    BY <1>2, <1>3, <2>5 DEF LeaveNavigation
  <2>6. ASSUME NEW d \in {-1, 1}, NEW n \in 1 .. Pages, MovePage(d, n) PROVE Kept
    <3>1. page' = Larger(0, Smaller(n - 1, page + d)) /\ reading' = reading /\ search' = search
      BY <2>6 DEF MovePage
    <3>2. page' \in 0 .. Pages - 1
      BY <1>2, <3>1 DEF Larger, Smaller
    <3> QED
      BY <1>2, <3>1, <3>2
  <2> QED
    BY <2>1, <2>2, <2>3, <2>4, <2>5, <2>6 DEF Navigates
<1> QED
  BY <1>1, <1>2, <1>4 DEF TranscriptInv, TranscriptTypeOK, StaysOnBlock

\* The search looks again as the reader navigates and a search is opened.
LEMMA NavigationLooks == ASSUME TranscriptInv, Navigates PROVE LooksAgain
<1>1. blocks \in Seq(BlockRecord)
  BY DEF TranscriptInv, TranscriptTypeOK
<1>2. blocks' = blocks
  BY DEF Navigates, MoveCursor, NextSearchMatch, SelectLatest, SearchFor, LeaveNavigation, MovePage
<1>3. CASE search' = Off
  BY <1>3 DEF LooksAgain, SearchRight
<1>4. CASE search' = search
  BY <1>2, <1>4 DEF LooksAgain, SearchRight
<1>5. CASE SearchFor
  <2>1. search'.matches = MatchingBlocks(blocks)
    BY <1>5 DEF SearchFor
  <2> QED
    BY <1>1, <1>2, <2>1, MatchingFacts DEF LooksAgain, SearchRight
<1>6. ASSUME NEW d \in {-1, 1}, NextSearchMatch(d) PROVE LooksAgain
  <2>1. search # Off /\ search' = [search EXCEPT !.at = ((@ - 1 + d) % Len(search.matches)) + 1]
    BY <1>6 DEF NextSearchMatch
  <2>2. search \in [at : Position, matches : Seq(Position)]
    BY <2>1 DEF TranscriptInv, TranscriptTypeOK
  <2>3. search'.matches = search.matches
    BY <2>1, <2>2
  <2> QED
    BY <1>2, <2>1, <2>3 DEF LooksAgain
<1> QED
  BY <1>3, <1>4, <1>5, <1>6 DEF Navigates, MoveCursor, SelectLatest, LeaveNavigation, MovePage

\* A step that refreshes the search looks again.
LEMMA RefreshLooks ==
  ASSUME blocks' \in Seq(BlockRecord), search' = RefreshSearch(search, blocks')
  PROVE  LooksAgain
BY RefreshIsRight DEF LooksAgain

\* What a step of the transcript may do to its reader.
LEMMA TranscriptStep ==
  ASSUME TranscriptInv, [TranscriptNext]_transcriptVars
  PROVE  /\ TranscriptInv' /\ LooksAgain
         /\ ~(\E m \in MessageTag : RemoveMessageBlocks(m)) => StaysOnBlock
<1>0. TranscriptInv' => blocks' \in Seq(BlockRecord)
  BY DEF TranscriptInv, TranscriptTypeOK
<1>1. CASE UNCHANGED transcriptVars
  <2>1. LooksAgain
    BY <1>1 DEF transcriptVars, LooksAgain, SearchRight
  <2> QED
    BY <1>1, <2>1 DEF transcriptVars, TranscriptInv, TranscriptTypeOK, StaysOnBlock
<1>2. ASSUME NEW b \in BlockRecord, ReplaceBlock(b) \/ AppendBlock(b)
      PROVE  TranscriptInv' /\ StaysOnBlock /\ LooksAgain
  <2>1. TranscriptInv' /\ StaysOnBlock
    BY <1>2, ReplacePreserves, AppendPreserves
  <2>2. search' = RefreshSearch(search, blocks')
    BY <1>2 DEF ReplaceBlock, AppendBlock
  <2> QED
    BY <1>0, <2>1, <2>2, RefreshLooks
<1>3. ASSUME NEW id \in BlockId, RemoveBlock(id) PROVE TranscriptInv' /\ StaysOnBlock /\ LooksAgain
  <2>1. TranscriptInv' /\ StaysOnBlock
    BY <1>3, RemovePreserves
  <2>2. search' = RefreshSearch(search, blocks')
    BY <1>3 DEF RemoveBlock
  <2> QED
    BY <1>0, <2>1, <2>2, RefreshLooks
<1>4. ASSUME NEW m \in MessageTag, RemoveMessageBlocks(m) PROVE TranscriptInv' /\ LooksAgain
  <2>1. TranscriptInv'
    BY <1>4, RemoveMessagePreserves
  <2>2. search' = RefreshSearch(search, blocks')
    BY <1>4 DEF RemoveMessageBlocks
  <2> QED
    BY <1>0, <2>1, <2>2, RefreshLooks
<1>5. ASSUME NEW id \in BlockId, NEW m \in MessageTag, AssociateBlockWithMessage(id, m)
      PROVE  TranscriptInv' /\ StaysOnBlock /\ LooksAgain
  BY <1>5, AssociatePreserves
<1>6. ASSUME NEW id \in BlockId, NEW hit \in BOOLEAN, NEW n \in Length, TextChanges(id, hit, n)
      PROVE  TranscriptInv' /\ StaysOnBlock /\ LooksAgain
  BY <1>6, TextChangesPreserves
<1>7. ASSUME ClearTranscript PROVE TranscriptInv' /\ StaysOnBlock /\ LooksAgain
  <2>1. search' = Off
    BY <1>7 DEF ClearTranscript
  <2>2. LooksAgain
    BY <2>1 DEF LooksAgain, SearchRight
  <2> QED
    BY <1>7, <2>2, ClearPreserves
<1>8. ASSUME Navigates PROVE TranscriptInv' /\ StaysOnBlock /\ LooksAgain
  BY <1>8, NavigationPreserves, NavigationLooks
<1> QED
  BY <1>1, <1>2, <1>3, <1>4, <1>5, <1>6, <1>7, <1>8 DEF TranscriptNext, Navigates

\* Wherever blocks come, change, grow and go, the window is current, the search
\* is in the list and looks again when blocks came or went, and the cursor stays
\* on its block unless that goes (transcript.ts).
THEOREM ReaderKeepsHisPlace == TranscriptSpec => TranscriptKeepsItsPlace
<1> DEFINE Step == /\ (WindowIsCurrent /\ SearchIsInTheList)' /\ SearchLooksAgain
                   /\ blocks' # blocks
                      /\ reading \in DOMAIN blocks /\ reading' # 0
                      /\ blocks[reading].id \in Ids(blocks')
                      /\ ~(\E m \in MessageTag : RemoveMessageBlocks(m))
                      => /\ reading' \in DOMAIN blocks'
                         /\ blocks'[reading'].id = blocks[reading].id
<1>1. TranscriptInit => TranscriptInv
  <2> SUFFICES ASSUME TranscriptInit PROVE TranscriptInv
    OBVIOUS
  <2>1. blocks = <<>> /\ windowStart = 0 /\ reading = 0 /\ search = Off /\ page = 0
    BY DEF TranscriptInit
  <2>2. <<>> \in Seq(BlockRecord) /\ Len(<<>>) = 0 /\ 0 \in 0 .. Pages - 1
    BY TranscriptAssumption
  <2>3. Distinct(<<>>) /\ WindowTrue(<<>>, 0) /\ SearchTrue(Off, <<>>)
    BY TranscriptAssumption DEF Distinct, WindowTrue, SearchTrue
  <2> QED
    BY <2>1, <2>2, <2>3 DEF TranscriptInv, TranscriptTypeOK
<1>2. TranscriptInv /\ [TranscriptNext]_transcriptVars => TranscriptInv'
  BY TranscriptStep
<1>3. TranscriptInv => WindowIsCurrent /\ SearchIsInTheList
  <2> SUFFICES ASSUME TranscriptInv PROVE WindowIsCurrent /\ SearchIsInTheList
    OBVIOUS
  <2>1. WindowIsCurrent
    BY DEF TranscriptInv, WindowTrue, WindowIsCurrent
  <2>2. ASSUME search # Off
        PROVE  /\ \A k \in DOMAIN search.matches :
                    /\ search.matches[k] \in DOMAIN blocks
                    /\ k > 1 => search.matches[k - 1] < search.matches[k]
               /\ search.at \in 1 .. Larger(1, Len(search.matches))
    <3>1. blocks \in Seq(BlockRecord) /\ DOMAIN blocks = 1 .. Len(blocks)
      BY DEF TranscriptInv, TranscriptTypeOK
    <3>2. Matching(search.matches, blocks) /\ search.at \in 1 .. Larger(1, Len(search.matches))
      BY <2>2 DEF TranscriptInv, SearchTrue
    <3>3. search.matches \in Seq(Position)
      BY <3>2 DEF Matching
    <3>4. DOMAIN search.matches = 1 .. Len(search.matches) /\ Len(search.matches) \in Nat
      BY <3>3
    <3>5. \A k \in 1 .. Len(search.matches) :
             k > 1 => k - 1 \in 1 .. Len(search.matches) /\ k - 1 < k
      BY <3>4
    <3> QED
      BY <3>1, <3>2, <3>4, <3>5 DEF Matching
  <2>3. SearchIsInTheList
    BY <2>2 DEF SearchIsInTheList
  <2> QED
    BY <2>1, <2>3
<1>4. ASSUME TranscriptInv, [TranscriptNext]_transcriptVars PROVE Step
  <2>1. TranscriptInv' /\ LooksAgain /\ (~(\E m \in MessageTag : RemoveMessageBlocks(m)) => StaysOnBlock)
    BY <1>4, TranscriptStep
  <2>2. (WindowIsCurrent /\ SearchIsInTheList)'
    BY <1>3, <2>1, PTL
  <2>3. SearchLooksAgain
    BY <2>1 DEF LooksAgain, SearchRight, SearchLooksAgain, SearchIsRight
  <2> QED
    BY <2>1, <2>2, <2>3 DEF StaysOnBlock
<1>5. TranscriptInv /\ [TranscriptNext]_transcriptVars => [Step]_transcriptVars
  BY <1>4
<1> QED
  BY <1>1, <1>2, <1>5, PTL DEF TranscriptSpec, TranscriptKeepsItsPlace

-----------------------------------------------------------------------------
(* The tools of a turn.                                                      *)

USE ToolTreeAssumption DEF ToolGroup, MaybeTool, MaybeMessage, Block

\* A group, or none.
MaybeGroup == ToolGroup \cup {NoGroup}

\* The tags of a set of blocks.
Tags == UNION {[B -> MaybeMessage] : B \in SUBSET Block}

\* The registry's types.
Views ==
  [known : SUBSET Tool, parent : [Tool -> MaybeTool], nested : [Tool -> BOOLEAN],
   children : [Tool -> SUBSET Tool], group : [Tool -> MaybeGroup],
   members : [ToolGroup -> SUBSET Tool], blockOf : [Tool -> Block], blocks : Tags,
   current : MaybeGroup, currentMessage : MaybeMessage,
   waiting : [Tool -> MaybeTool], progress : [Tool -> MaybeTool],
   partMessage : [Tool -> MaybeMessage], dropped : SUBSET Block]

\* Adding a block, or updating one, changes the blocks and nothing else.
LEMMA AddBlockFacts ==
  ASSUME NEW v \in Views, NEW b \in Block, NEW m \in MaybeMessage
  PROVE  LET w == AddBlock(v, b, m)
         IN  /\ w \in Views
             /\ w.known = v.known /\ w.parent = v.parent /\ w.nested = v.nested
             /\ w.children = v.children /\ w.group = v.group /\ w.members = v.members
             /\ w.blockOf = v.blockOf /\ w.current = v.current
             /\ w.currentMessage = v.currentMessage /\ w.waiting = v.waiting
             /\ w.progress = v.progress /\ w.partMessage = v.partMessage
             /\ Shown(w) = Shown(v) \cup {b} /\ w.dropped = v.dropped \ {b}
<1> DEFINE tags == [c \in Shown(v) \cup {b} |->
                             IF c # b THEN v.blocks[c]
                             ELSE IF m = NoMessage /\ b \in Shown(v)
                                  THEN v.blocks[b] ELSE m]
<1>1. tags \in Tags /\ DOMAIN tags = Shown(v) \cup {b}
  <2>1. v.blocks \in Tags
    BY DEF Views
  <2>2. PICK B \in SUBSET Block : v.blocks \in [B -> MaybeMessage]
    BY <2>1 DEF Tags
  <2>3. tags \in [B \cup {b} -> MaybeMessage] /\ B \cup {b} \in SUBSET Block
    BY <2>2 DEF Shown
  <2> QED
    BY ZenonT(40), <2>2, <2>3 DEF Tags
<1> DEFINE w == [v EXCEPT !.blocks = tags, !.dropped = @ \ {b}]
<1> HIDE DEF tags
<1>2. w \in Views
  BY <1>1 DEF Views
<1>3. /\ w.known = v.known /\ w.parent = v.parent /\ w.nested = v.nested
      /\ w.children = v.children /\ w.group = v.group /\ w.members = v.members
      /\ w.blockOf = v.blockOf /\ w.current = v.current
      /\ w.currentMessage = v.currentMessage /\ w.waiting = v.waiting
      /\ w.progress = v.progress /\ w.partMessage = v.partMessage
      /\ w.blocks = tags /\ w.dropped = v.dropped \ {b}
  BY DEF Views
<1>4. w = AddBlock(v, b, m)
  BY DEF AddBlock, tags
<1> QED
  BY <1>1, <1>2, <1>3, <1>4 DEF Shown

\* What stays when only the blocks change.
SamePlaces(v, w) ==
  /\ w.known = v.known /\ w.parent = v.parent /\ w.nested = v.nested
  /\ w.children = v.children /\ w.group = v.group /\ w.members = v.members
  /\ w.blockOf = v.blockOf

\* What stays when tools move.
SameWaits(v, w) ==
  w.waiting = v.waiting /\ w.progress = v.progress /\ w.partMessage = v.partMessage

\* Removing blocks changes the blocks and nothing else.
LEMMA RemoveBlocksFacts ==
  ASSUME NEW v \in Views, NEW B
  PROVE  LET w == RemoveBlocks(v, B)
         IN  /\ w \in Views /\ SamePlaces(v, w) /\ SameWaits(v, w)
             /\ w.current = v.current /\ w.currentMessage = v.currentMessage
             /\ Shown(w) = Shown(v) \ B /\ w.dropped = v.dropped \ B
<1> DEFINE tags == [c \in Shown(v) \ B |-> v.blocks[c]]
<1>1. tags \in Tags /\ DOMAIN tags = Shown(v) \ B
  <2>1. v.blocks \in Tags
    BY DEF Views
  <2>2. PICK C \in SUBSET Block : v.blocks \in [C -> MaybeMessage]
    BY <2>1 DEF Tags
  <2>3. tags \in [C \ B -> MaybeMessage] /\ C \ B \in SUBSET Block
    BY <2>2 DEF Shown
  <2> QED
    BY <2>2, <2>3 DEF Tags
<1> DEFINE w == [v EXCEPT !.blocks = tags, !.dropped = @ \ B]
<1> HIDE DEF tags
<1>2. w \in Views
  BY <1>1 DEF Views
<1>3. SamePlaces(v, w) /\ SameWaits(v, w)
  BY DEF Views, SamePlaces, SameWaits
<1>4. /\ w.current = v.current /\ w.currentMessage = v.currentMessage
      /\ w.blocks = tags /\ w.dropped = v.dropped \ B
  BY DEF Views
<1>5. w = RemoveBlocks(v, B)
  BY DEF RemoveBlocks, tags
<1> QED
  BY <1>1, <1>2, <1>3, <1>4, <1>5 DEF Shown

\* Giving a block its message changes no place.
LEMMA AssociateBlockFacts ==
  ASSUME NEW v \in Views, NEW b, NEW m \in MaybeMessage
  PROVE  LET w == AssociateBlock(v, b, m)
         IN  /\ w \in Views /\ SamePlaces(v, w) /\ SameWaits(v, w)
             /\ w.current = v.current
             /\ Shown(w) = Shown(v) /\ w.dropped = v.dropped
<1>1. CASE ~(m # NoMessage /\ b \in Shown(v))
  BY <1>1 DEF AssociateBlock, SamePlaces, SameWaits
<1>2. CASE m # NoMessage /\ b \in Shown(v)
  <2> DEFINE tags == [v.blocks EXCEPT ![b] = m]
  <2>1. tags \in Tags /\ DOMAIN tags = Shown(v)
    <3>1. v.blocks \in Tags
      BY DEF Views
    <3>2. PICK C \in SUBSET Block : v.blocks \in [C -> MaybeMessage]
      BY <3>1 DEF Tags
    <3>3. tags \in [C -> MaybeMessage]
      BY <3>2
    <3> QED
      BY <3>2, <3>3 DEF Tags, Shown
  <2> DEFINE w == [v EXCEPT !.blocks = tags]
  <2> HIDE DEF tags
  <2>2. w \in Views
    BY <2>1 DEF Views
  <2>3. SamePlaces(v, w) /\ SameWaits(v, w)
    BY DEF Views, SamePlaces, SameWaits
  <2>4. w.current = v.current /\ w.blocks = tags /\ w.dropped = v.dropped
    BY DEF Views
  <2>5. w = AssociateBlock(v, b, m)
    BY <1>2 DEF AssociateBlock, tags
  <2> QED
    BY <2>1, <2>2, <2>3, <2>4, <2>5 DEF Shown
<1> QED
  BY <1>1, <1>2

-----------------------------------------------------------------------------
(* The invariant. *)

\* A tool is in the tree of its parent, and in no other; parents are known.
Nesting(v) ==
  \A t \in Tool :
    /\ v.nested[t] <=> v.parent[t] # NoTool
    /\ v.nested[t] => t \in v.known /\ v.parent[t] \in v.known
    /\ \A p \in Tool : t \in v.children[p] <=> v.nested[t] /\ v.parent[t] = p

\* A tool is in the group it says, and in no other, and its block is the group's.
Grouping(v) ==
  \A t \in Tool :
    /\ v.group[t] # NoGroup => t \in v.known /\ ~v.nested[t] /\ v.blockOf[t] = v.group[t]
    /\ \A g \in ToolGroup : t \in v.members[g] <=> v.group[t] = g

\* Except for the tools of X, a known tool that is not nested says which block
\* it is in, and that block is on the screen unless it was taken off it; a
\* block of a tool's own is that of a known tool that is at no other place.
Drawing(v, X) ==
  /\ \A t \in Tool \ X :
      /\ t \in v.known /\ ~v.nested[t] =>
            /\ v.group[t] = NoGroup => v.blockOf[t] = t
            /\ v.blockOf[t] \in Shown(v) \cup v.dropped
      /\ t \in Shown(v) => t \in v.known /\ ~v.nested[t] /\ v.group[t] = NoGroup
  /\ v.current # NoGroup => v.current \in Shown(v) \cup v.dropped

\* From any set of tools some parent leads out.
Acyclic(f) == \A S \in SUBSET Tool : S # {} => \E q \in S : f[q] \notin S

\* The tools are a tree on the screen, but that those of X need no block.
Tree(v, X) == Nesting(v) /\ Grouping(v) /\ Drawing(v, X) /\ Acyclic(v.parent)

\* Nobody waits for itself, or for a parent that is there.
Waits(v) == \A t \in Tool : v.waiting[t] # t /\ (t \in v.known => v.waiting[t] \notin v.known)

\* A tool that is at none of its places.
Loose(v, t) == v.parent[t] = NoTool /\ ~v.nested[t] /\ v.group[t] = NoGroup /\ t \notin Shown(v)

-----------------------------------------------------------------------------
(* Leaving a place. *)

\* The block that a tool takes off the screen as it leaves.
Vacated(v, t) ==
  IF v.nested[t] THEN {}
  ELSE IF v.group[t] = NoGroup THEN {t}
  ELSE IF v.members[v.group[t]] \ {t} = {} THEN {v.group[t]} ELSE {}

\* What leaving changes: the tool's entries in the indexes and at most a block.
Leaves(v, w, t) ==
  /\ w.known = v.known /\ w.blockOf = v.blockOf /\ SameWaits(v, w)
  /\ w.parent = [v.parent EXCEPT ![t] = NoTool]
  /\ w.nested = [v.nested EXCEPT ![t] = FALSE]
  /\ w.group = [v.group EXCEPT ![t] = NoGroup]
  /\ \A q \in Tool : w.children[q] = v.children[q] \ {t}
  /\ \A g \in ToolGroup : w.members[g] = v.members[g] \ {t}
  /\ Shown(w) = Shown(v) \ Vacated(v, t) /\ w.dropped = v.dropped \ Vacated(v, t)
  /\ w.current = IF v.current \in Vacated(v, t) THEN NoGroup ELSE v.current

\* A tool that is detached leaves the one place it was at.
LEMMA DetachFacts ==
  ASSUME NEW v \in Views, NEW t \in v.known, Tree(v, {})
  PROVE  LET w == DetachToolFromLocation(v, t)
         IN  w \in Views /\ Leaves(v, w, t)
<1> DEFINE w == DetachToolFromLocation(v, t)
<1>0. t \in Tool /\ Nesting(v) /\ Grouping(v)
  BY DEF Views, Tree
<1>1. CASE v.nested[t]
  <2> DEFINE kids == [q \in Tool |->
                       IF q = v.parent[t] /\ q \in v.known
                       THEN v.children[q] \ {t} ELSE v.children[q]]
  <2>1. v.parent[t] # NoTool /\ v.parent[t] \in v.known /\ v.group[t] = NoGroup
        /\ Vacated(v, t) = {}
    BY <1>0, <1>1 DEF Nesting, Grouping, Vacated
  <2>2. w = [v EXCEPT !.children = kids, !.nested[t] = FALSE, !.parent[t] = NoTool]
    BY <1>1, <2>1 DEF DetachToolFromLocation
  <2>3. \A q \in Tool : kids[q] = v.children[q] \ {t}
    BY <1>0 DEF Nesting
  <2>4. kids \in [Tool -> SUBSET Tool]
    BY DEF Views
  <2> HIDE DEF kids, w
  <2>5. w \in Views
    BY <1>0, <2>2, <2>4 DEF Views
  <2>6. /\ w.known = v.known /\ w.blockOf = v.blockOf /\ w.dropped = v.dropped /\ SameWaits(v, w)
        /\ w.parent = [v.parent EXCEPT ![t] = NoTool]
        /\ w.nested = [v.nested EXCEPT ![t] = FALSE]
        /\ w.group = v.group /\ w.members = v.members /\ w.children = kids
        /\ w.blocks = v.blocks /\ w.current = v.current
    BY <2>2 DEF Views, SameWaits
  <2>7. v.group = [v.group EXCEPT ![t] = NoGroup]
    BY <2>1 DEF Views
  <2>8. \A g \in ToolGroup : v.members[g] = v.members[g] \ {t}
    BY <1>0, <2>1 DEF Grouping
  <2> QED
    BY <2>1, <2>3, <2>5, <2>6, <2>7, <2>8 DEF Leaves, Shown, w
<1>2. ASSUME ~v.nested[t]
      PROVE  /\ v.parent[t] = NoTool
             /\ v.parent = [v.parent EXCEPT ![t] = NoTool]
             /\ v.nested = [v.nested EXCEPT ![t] = FALSE]
             /\ \A q \in Tool : v.children[q] = v.children[q] \ {t}
  <2>1. v.parent[t] = NoTool
    BY <1>0, <1>2 DEF Nesting
  <2>2. \A q \in Tool : v.children[q] = v.children[q] \ {t}
    BY <1>0, <1>2 DEF Nesting
  <2>3. v.parent = [v.parent EXCEPT ![t] = NoTool]
    BY <2>1 DEF Views
  <2>4. v.nested = [v.nested EXCEPT ![t] = FALSE]
    <3>1. v.nested[t] = FALSE
      BY <1>0, <1>2 DEF Views
    <3> QED
      BY <3>1 DEF Views
  <2> QED
    BY <2>1, <2>2, <2>3, <2>4
<1>3. CASE ~v.nested[t] /\ v.group[t] = NoGroup
  <2>1. w = RemoveBlocks(v, {v.blockOf[t]}) /\ v.blockOf[t] = t
    BY <1>0, <1>3 DEF DetachToolFromLocation, Tree, Drawing, Views
  <2>2. Vacated(v, t) = {t}
    BY <1>3 DEF Vacated
  <2>3. w \in Views /\ SamePlaces(v, w) /\ SameWaits(v, w) /\ w.current = v.current
        /\ Shown(w) = Shown(v) \ {t} /\ w.dropped = v.dropped \ {t}
    BY <2>1, RemoveBlocksFacts
  <2> HIDE DEF w
  <2>4. v.group = [v.group EXCEPT ![t] = NoGroup]
    BY <1>3 DEF Views
  <2>5. \A g \in ToolGroup : v.members[g] = v.members[g] \ {t}
    BY <1>0, <1>3 DEF Grouping
  <2>6. v.current = IF v.current \in {t} THEN NoGroup ELSE v.current
    BY <1>0 DEF Views, MaybeGroup
  <2> QED
    BY <1>2, <1>3, <2>2, <2>3, <2>4, <2>5, <2>6 DEF Leaves, SamePlaces, w
<1>4. CASE ~v.nested[t] /\ v.group[t] # NoGroup
  <2> DEFINE g == v.group[t]
             left == [v EXCEPT !.members[g] = @ \ {t}, !.group[t] = NoGroup]
  <2>1. g \in ToolGroup /\ v.blockOf[t] = g
    BY <1>0, <1>4 DEF Views, MaybeGroup, Grouping
  <2>2. left \in Views
    BY <1>0, <2>1 DEF Views, MaybeGroup
  <2>3. /\ left.known = v.known /\ left.blockOf = v.blockOf /\ left.dropped = v.dropped
        /\ SameWaits(v, left) /\ left.parent = v.parent /\ left.nested = v.nested
        /\ left.children = v.children /\ left.group = [v.group EXCEPT ![t] = NoGroup]
        /\ left.members = [v.members EXCEPT ![g] = @ \ {t}]
        /\ left.blocks = v.blocks /\ left.current = v.current
    BY DEF Views, SameWaits
  <2>4. left.members[g] = v.members[g] \ {t}
        /\ \A h \in ToolGroup : left.members[h] = v.members[h] \ {t}
    <3>1. \A h \in ToolGroup : h # g => t \notin v.members[h]
      BY <1>0 DEF Grouping
    <3>2. \A h \in ToolGroup : left.members[h] = IF h = g THEN v.members[g] \ {t} ELSE v.members[h]
      BY <2>1, <2>3 DEF Views
    <3> QED
      BY <2>1, <3>1, <3>2
  <2>5. CASE left.members[g] # {}
    <3>1. w = left
      BY <1>4, <2>5 DEF DetachToolFromLocation
    <3>2. Vacated(v, t) = {}
      BY <1>4, <2>4, <2>5 DEF Vacated
    <3> HIDE DEF w, left
    <3> QED
      BY <1>2, <1>4, <2>2, <2>3, <2>4, <3>1, <3>2 DEF Leaves, Shown, w
  <2>6. CASE left.members[g] = {}
    <3> DEFINE bare == RemoveBlocks(left, {g})
               last == [bare EXCEPT
                          !.current = IF v.current = g THEN NoGroup ELSE @,
                          !.currentMessage = IF v.current = g THEN NoMessage ELSE @]
    <3>1. w = last
      BY <1>4, <2>1, <2>6 DEF DetachToolFromLocation
    <3>2. Vacated(v, t) = {g}
      BY <1>4, <2>4, <2>6 DEF Vacated
    <3> HIDE DEF w, left, g
    <3>3. bare \in Views /\ SamePlaces(left, bare) /\ SameWaits(left, bare)
          /\ bare.current = left.current /\ Shown(bare) = Shown(left) \ {g}
          /\ bare.dropped = left.dropped \ {g}
      BY <2>2, RemoveBlocksFacts
    <3> HIDE DEF bare
    <3>4. last \in Views
      BY ZenonT(40), <3>3 DEF Views, MaybeGroup
    <3>5. /\ SamePlaces(bare, last) /\ SameWaits(bare, last)
          /\ last.current = (IF v.current = g THEN NoGroup ELSE bare.current)
          /\ last.blocks = bare.blocks /\ last.dropped = bare.dropped
      BY <3>3 DEF Views, SamePlaces, SameWaits
    <3> HIDE DEF last
    <3> QED
      BY <1>2, <1>4, <2>3, <2>4, <3>1, <3>2, <3>3, <3>4, <3>5 DEF Leaves, Shown, SamePlaces, SameWaits, w
  <2> QED
    BY <2>5, <2>6
<1> QED
  BY <1>1, <1>3, <1>4

-----------------------------------------------------------------------------
(* The lineage of a tool. *)

\* The parents, among the known tools, of a set of tools.
Parents(v, S) == {v.parent[q] : q \in S} \cap v.known

\* A set of tools that has the parents of its members.
Closed(v, S) == Parents(v, S) \subseteq S

\* The function that Lineage is computed by, as far as n steps.
UpOf(f, v, t, n) == f = [k \in 0 .. n |-> IF k = 0 THEN {t} ELSE f[k - 1] \cup Parents(v, f[k - 1])]

\* There is such a function, for any number of steps.
LEMMA UpExists ==
  ASSUME NEW v, NEW t, NEW l \in Nat
  PROVE  \E f : UpOf(f, v, t, l)
<1> DEFINE T == {n \in Nat : ~\E f : UpOf(f, v, t, n)}
<1>1. SUFFICES ASSUME T # {} PROVE FALSE
  OBVIOUS
<1>2. PICK m \in T : \A n \in T : m <= n
  <2>1. T \subseteq Nat
    OBVIOUS
  <2> HIDE DEF T
  <2> QED
    BY <1>1, <2>1, Least
<1>3. m # 0
  <2>1. UpOf([k \in 0..0 |-> {t}], v, t, 0)
    <3> DEFINE f == [k \in 0..0 |-> {t}]
    <3>1. \A k \in 0..0 : k = 0
      OBVIOUS
    <3>2. f = [k \in 0..0 |-> IF k = 0 THEN {t} ELSE f[k - 1] \cup Parents(v, f[k - 1])]
      BY <3>1
    <3> QED
      BY <3>2 DEF UpOf
  <2> QED
    BY <2>1
<1>4. m - 1 \in Nat /\ ~(m <= m - 1)
  BY <1>3
<1>5. PICK f : UpOf(f, v, t, m - 1)
  BY <1>2, <1>4
<1> DEFINE g == [k \in 0..m |-> IF k = m THEN f[m - 1] \cup Parents(v, f[m - 1]) ELSE f[k]]
<1>6. \A k \in 0..m : g[k] = IF k = 0 THEN {t} ELSE g[k - 1] \cup Parents(v, g[k - 1])
  <2> SUFFICES ASSUME NEW k \in 0..m
               PROVE  g[k] = IF k = 0 THEN {t} ELSE g[k - 1] \cup Parents(v, g[k - 1])
    OBVIOUS
  <2>1. CASE k = m
    <3>1. m - 1 \in 0..m /\ m - 1 # m /\ m \in 0..m
      BY <1>4
    <3>2. g[m - 1] = f[m - 1] /\ g[m] = f[m - 1] \cup Parents(v, f[m - 1])
      BY <3>1
    <3> QED
      BY <1>3, <2>1, <3>2
  <2>2. CASE k # m
    <3>1. k \in 0..(m - 1)
      BY <1>4, <2>2
    <3>2. f[k] = IF k = 0 THEN {t} ELSE f[k - 1] \cup Parents(v, f[k - 1])
      BY <1>5, <3>1 DEF UpOf
    <3>3. g[k] = f[k] /\ (k # 0 => g[k - 1] = f[k - 1])
      BY <2>2, <3>1, <1>4
    <3> QED
      BY <3>2, <3>3
  <2> QED
    BY <2>1, <2>2
<1>7. UpOf(g, v, t, m)
  BY <1>6 DEF UpOf
<1> QED
  BY <1>2, <1>7

\* The lineage holds the tool, is closed, and is in every closed set that holds
\* the tool: after as many steps as there are tools nothing more is reached.
LEMMA LineageFacts ==
  ASSUME NEW v \in Views, NEW t \in Tool
  PROVE  /\ Lineage(v, t) \in SUBSET Tool /\ t \in Lineage(v, t) /\ Closed(v, Lineage(v, t))
         /\ \A S : t \in S /\ Closed(v, S) => Lineage(v, t) \subseteq S
<1> DEFINE N == Cardinality(Tool)
<1>1. N \in Nat
  BY FS_CardinalityType
<1> DEFINE up == CHOOSE f : f = [n \in 0 .. N |-> IF n = 0 THEN {t}
                                   ELSE f[n - 1] \cup ({v.parent[q] : q \in f[n - 1]} \cap v.known)]
<1>2. up = [n \in 0 .. N |-> IF n = 0 THEN {t} ELSE up[n - 1] \cup Parents(v, up[n - 1])]
  <2>1. \E f : UpOf(f, v, t, N)
    BY <1>1, UpExists
  <2>2. up = CHOOSE f : UpOf(f, v, t, N)
    BY DEF UpOf, Parents
  <2> HIDE DEF up
  <2>3. UpOf(up, v, t, N)
    BY <2>1, <2>2
  <2> QED
    BY <2>3 DEF UpOf
<1>3. Lineage(v, t) = up[N]
  BY DEF Lineage
<1> HIDE DEF up, N
<1>4. 0 \in 0 .. N /\ up[0] = {t}
  BY <1>1, <1>2
<1>5. ASSUME NEW n \in 0 .. N, n # 0
      PROVE  n - 1 \in 0 .. N /\ up[n] = up[n - 1] \cup Parents(v, up[n - 1])
  <2>1. n - 1 \in 0 .. N
    BY <1>1, <1>5
  <2>2. up[n] = IF n = 0 THEN {t} ELSE up[n - 1] \cup Parents(v, up[n - 1])
    BY <1>2
  <2> QED
    BY <1>5, <2>1, <2>2
<1>6. v.known \subseteq Tool
  BY DEF Views
<1> DEFINE Good(n) == /\ up[n] \in SUBSET Tool /\ t \in up[n]
                      /\ \A S : t \in S /\ Closed(v, S) => up[n] \subseteq S
                      /\ Closed(v, up[n]) \/ Cardinality(up[n]) >= n + 1
<1>7. \A n \in 0 .. N : Good(n)
  <2> DEFINE T == {n \in 0 .. N : ~Good(n)}
  <2>1. SUFFICES ASSUME T # {} PROVE FALSE
    OBVIOUS
  <2>2. PICK m \in T : \A n \in T : m <= n
    <3>1. T \subseteq Nat
      OBVIOUS
    <3> HIDE DEF T
    <3> QED
      BY <2>1, <3>1, Least
  <2>3. Good(0)
    <3>1. Cardinality({t}) = 1
      BY FS_Singleton
    <3> QED
      BY <1>4, <3>1
  <2>4. m \in 0 .. N /\ m # 0 /\ ~Good(m)
    BY <2>2, <2>3
  <2>5. m - 1 \in 0 .. N /\ ~(m <= m - 1) /\ up[m] = up[m - 1] \cup Parents(v, up[m - 1])
    BY <1>5, <2>4
  <2>6. Good(m - 1)
    BY <2>2, <2>5
  <2> DEFINE U == up[m - 1]
  <2>7. U \in SUBSET Tool /\ t \in U /\ Parents(v, U) \subseteq v.known
    BY <2>6 DEF Parents
  <2>8. up[m] \in SUBSET Tool /\ t \in up[m]
    BY <1>6, <2>5, <2>7
  <2>9. ASSUME NEW S, t \in S, Closed(v, S) PROVE up[m] \subseteq S
    <3>1. U \subseteq S
      BY <2>6, <2>9
    <3>2. Parents(v, U) \subseteq Parents(v, S)
      BY <3>1 DEF Parents
    <3> QED
      BY <2>5, <2>9, <3>1, <3>2 DEF Closed
  <2>10. Closed(v, up[m]) \/ Cardinality(up[m]) >= m + 1
    <3>1. CASE Closed(v, U)
      <4>1. up[m] = U
        BY <2>5, <3>1 DEF Closed
      <4> QED
        BY <3>1, <4>1
    <3>2. CASE ~Closed(v, U)
      <4>1. Cardinality(U) >= m
        BY <2>4, <2>6, <3>2
      <4>2. IsFiniteSet(up[m]) /\ U \subseteq up[m] /\ U # up[m]
        <5>1. IsFiniteSet(up[m])
          BY <2>8, FS_Subset
        <5> QED
          BY <2>5, <3>2, <5>1 DEF Closed
      <4>3. Cardinality(U) < Cardinality(up[m]) /\ Cardinality(U) \in Nat /\ Cardinality(up[m]) \in Nat
        <5> HIDE DEF U
        <5>1. IsFiniteSet(U) /\ Cardinality(U) <= Cardinality(up[m])
              /\ (Cardinality(U) = Cardinality(up[m]) => U = up[m])
          BY <4>2, FS_Subset
        <5>2. Cardinality(U) \in Nat /\ Cardinality(up[m]) \in Nat
          BY <4>2, <5>1, FS_CardinalityType
        <5> QED
          BY <4>2, <5>1, <5>2
      <4> HIDE DEF U
      <4> QED
        BY <2>4, <4>1, <4>3
    <3> QED
      BY <3>1, <3>2
  <2> QED
    BY <2>4, <2>8, <2>9, <2>10
<1>8. Good(N) /\ N \in 0 .. N
  BY <1>1, <1>7
<1>9. Closed(v, up[N])
  <2>1. SUFFICES ASSUME Cardinality(up[N]) >= N + 1 PROVE FALSE
    BY <1>8
  <2>2. Cardinality(up[N]) <= N /\ IsFiniteSet(up[N])
    BY <1>8, FS_Subset DEF N
  <2>3. Cardinality(up[N]) \in Nat
    BY <2>2, FS_CardinalityType
  <2> QED
    BY <1>1, <2>1, <2>2, <2>3
<1> QED
  BY <1>3, <1>8, <1>9

-----------------------------------------------------------------------------
(* No cycles. *)

\* Taking a parent away makes no cycle.
LEMMA AcyclicWithout ==
  ASSUME NEW f \in [Tool -> MaybeTool], Acyclic(f), NEW t \in Tool
  PROVE  Acyclic([f EXCEPT ![t] = NoTool])
<1> SUFFICES ASSUME NEW S \in SUBSET Tool, S # {}
             PROVE  \E q \in S : [f EXCEPT ![t] = NoTool][q] \notin S
  BY DEF Acyclic
<1>1. CASE t \in S
  BY <1>1
<1>2. CASE t \notin S
  BY <1>2 DEF Acyclic
<1> QED
  BY <1>1, <1>2

\* A parent whose lineage does not hold the tool makes no cycle either.
LEMMA AcyclicWith ==
  ASSUME NEW v \in Views, Nesting(v), Acyclic(v.parent), NEW t \in Tool,
         NEW p \in Tool, t \notin Lineage(v, p)
  PROVE  Acyclic([v.parent EXCEPT ![t] = p])
<1> DEFINE f == [v.parent EXCEPT ![t] = p]
<1> SUFFICES ASSUME NEW S \in SUBSET Tool, S # {}, \A q \in S : f[q] \in S
             PROVE  FALSE
  BY DEF Acyclic
<1>1. f[t] = p /\ \A q \in Tool : q # t => f[q] = v.parent[q]
  BY DEF Views
<1>2. t \in S
  <2>1. PICK q \in S : v.parent[q] \notin S
    BY DEF Acyclic
  <2> QED
    BY <1>1, <2>1
<1> DEFINE R == S \cap Lineage(v, p)
<1>3. p \in R /\ R \in SUBSET Tool /\ t \notin R
  BY <1>1, <1>2, LineageFacts
<1>4. PICK q \in R : v.parent[q] \notin R
  BY <1>3 DEF Acyclic
<1>5. v.parent[q] \in S /\ v.parent[q] \in v.known
  BY <1>1, <1>3, <1>4 DEF Nesting
<1>6. v.parent[q] \in Lineage(v, p)
  BY <1>4, <1>5, LineageFacts DEF Closed, Parents
<1> QED
  BY <1>4, <1>5, <1>6

-----------------------------------------------------------------------------
(* Moving a tool. *)

\* Where the tools are and which blocks are on the screen is the same.
SameTree(v, w) ==
  SamePlaces(v, w) /\ w.current = v.current /\ Shown(w) = Shown(v) /\ w.dropped = v.dropped

\* A tree stays one when no place and no block changes.
LEMMA SameTreeKeeps ==
  ASSUME NEW v, NEW w, SameTree(v, w), NEW X
  PROVE  Tree(v, X) => Tree(w, X)
BY DEF SameTree, SamePlaces, Tree, Nesting, Grouping, Drawing

\* What left its place leaves the other tools a tree.
LEMMA LeavesTree ==
  ASSUME NEW v \in Views, NEW w \in Views, NEW t \in v.known, Tree(v, {}), Leaves(v, w, t)
  PROVE  Tree(w, {t}) /\ Loose(w, t)
<1>0. /\ t \in Tool /\ Nesting(v) /\ Grouping(v) /\ Drawing(v, {}) /\ Acyclic(v.parent)
      /\ v.known \subseteq Tool
  BY DEF Views, Tree
<1>1. \A u \in Tool : /\ w.parent[u] = IF u = t THEN NoTool ELSE v.parent[u]
                      /\ w.nested[u] <=> u # t /\ v.nested[u]
                      /\ w.group[u] = IF u = t THEN NoGroup ELSE v.group[u]
  <2>1. /\ v.parent \in [Tool -> MaybeTool] /\ v.nested \in [Tool -> BOOLEAN]
        /\ v.group \in [Tool -> MaybeGroup]
    BY DEF Views
  <2>2. /\ w.parent = [v.parent EXCEPT ![t] = NoTool] /\ w.nested = [v.nested EXCEPT ![t] = FALSE]
        /\ w.group = [v.group EXCEPT ![t] = NoGroup]
    BY DEF Leaves
  <2> QED
    BY <2>1, <2>2
<1>2. Nesting(w)
  <2> SUFFICES ASSUME NEW u \in Tool
               PROVE  /\ w.nested[u] <=> w.parent[u] # NoTool
                      /\ w.nested[u] => u \in w.known /\ w.parent[u] \in w.known
                      /\ \A p \in Tool : u \in w.children[p] <=> w.nested[u] /\ w.parent[u] = p
    BY DEF Nesting
  <2>1. w.known = v.known /\ \A q \in Tool : w.children[q] = v.children[q] \ {t}
    BY DEF Leaves
  <2> QED
    <3>1. CASE u = t
      BY <1>0, <1>1, <2>1, <3>1
    <3>2. CASE u # t
      BY <1>0, <1>1, <2>1, <3>2 DEF Nesting
    <3> QED
      BY <3>1, <3>2
<1>3. Grouping(w)
  <2> SUFFICES ASSUME NEW u \in Tool
               PROVE  /\ w.group[u] # NoGroup => u \in w.known /\ ~w.nested[u] /\ w.blockOf[u] = w.group[u]
                      /\ \A g \in ToolGroup : u \in w.members[g] <=> w.group[u] = g
    BY DEF Grouping
  <2>1. /\ w.known = v.known /\ w.blockOf = v.blockOf
        /\ \A g \in ToolGroup : w.members[g] = v.members[g] \ {t}
    BY DEF Leaves
  <2> QED
    <3>1. CASE u = t
      BY <1>0, <1>1, <2>1, <3>1
    <3>2. CASE u # t
      BY <1>0, <1>1, <2>1, <3>2 DEF Grouping
    <3> QED
      BY <3>1, <3>2
<1>4. ASSUME NEW u \in Tool \ {t}, u \in v.known, ~v.nested[u]
      PROVE  v.blockOf[u] \notin Vacated(v, t)
  <2>1. CASE v.group[u] = NoGroup
    BY <1>0, <1>4, <2>1 DEF Vacated, Drawing, Views, MaybeGroup
  <2>2. CASE v.group[u] # NoGroup
    <3>1. v.blockOf[u] = v.group[u] /\ v.group[u] \in ToolGroup /\ u \in v.members[v.group[u]]
      BY <1>0, <1>4, <2>2 DEF Grouping, Views, MaybeGroup
    <3> QED
      BY <1>0, <1>4, <3>1 DEF Vacated
  <2> QED
    BY <2>1, <2>2
<1>5. Drawing(w, {t})
  <2>1. ASSUME NEW u \in Tool \ {t}, u \in w.known, ~w.nested[u]
        PROVE  /\ w.group[u] = NoGroup => w.blockOf[u] = u
               /\ w.blockOf[u] \in Shown(w) \cup w.dropped
    <3>1. u \in v.known /\ ~v.nested[u]
      BY <1>1, <2>1 DEF Leaves
    <3> QED
      BY <1>0, <1>1, <1>4, <3>1 DEF Drawing, Leaves
  <2>2. ASSUME NEW u \in Tool \ {t}, u \in Shown(w)
        PROVE  u \in w.known /\ ~w.nested[u] /\ w.group[u] = NoGroup
    BY <1>0, <1>1, <2>2 DEF Drawing, Leaves
  <2>3. w.current # NoGroup => w.current \in Shown(w) \cup w.dropped
    BY <1>0 DEF Drawing, Leaves
  <2> QED
    BY <2>1, <2>2, <2>3 DEF Drawing
<1>6. Acyclic(w.parent)
  <2>1. v.parent \in [Tool -> MaybeTool] /\ w.parent = [v.parent EXCEPT ![t] = NoTool]
    BY DEF Views, Leaves
  <2> QED
    BY <1>0, <2>1, AcyclicWithout
<1>7. t \notin Shown(w)
  <2>1. t \in Vacated(v, t) \/ t \notin Shown(v)
    BY <1>0 DEF Vacated, Drawing
  <2> QED
    BY <2>1 DEF Leaves
<1> QED
  BY <1>0, <1>1, <1>2, <1>3, <1>5, <1>6, <1>7 DEF Tree, Loose

\* A loose tool goes under a parent that does not close a cycle.
LEMMA NestFacts ==
  ASSUME NEW v \in Views, NEW t \in v.known, NEW p \in v.known, Tree(v, {t}), Loose(v, t),
         Acyclic([v.parent EXCEPT ![t] = p])
  PROVE  LET w == [v EXCEPT !.children[p] = @ \cup {t}, !.parent[t] = p, !.nested[t] = TRUE,
                            !.group[t] = NoGroup, !.waiting[t] = NoTool]
         IN  /\ w \in Views /\ Tree(w, {}) /\ w.known = v.known /\ w.progress = v.progress
             /\ w.partMessage = v.partMessage /\ w.waiting = [v.waiting EXCEPT ![t] = NoTool]
<1> DEFINE w == [v EXCEPT !.children[p] = @ \cup {t}, !.parent[t] = p, !.nested[t] = TRUE,
                            !.group[t] = NoGroup, !.waiting[t] = NoTool]
<1>0. t \in Tool /\ p \in Tool
  BY DEF Views
<1>1. w \in Views
  <2>1. /\ [v.children EXCEPT ![p] = @ \cup {t}] \in [Tool -> SUBSET Tool]
        /\ [v.parent EXCEPT ![t] = p] \in [Tool -> MaybeTool]
    BY <1>0 DEF Views
  <2>2. /\ [v.nested EXCEPT ![t] = TRUE] \in [Tool -> BOOLEAN]
        /\ [v.group EXCEPT ![t] = NoGroup] \in [Tool -> MaybeGroup]
        /\ [v.waiting EXCEPT ![t] = NoTool] \in [Tool -> MaybeTool]
    BY <1>0 DEF Views, MaybeGroup
  <2>3. w = [v EXCEPT !.children = [v.children EXCEPT ![p] = @ \cup {t}],
                      !.parent = [v.parent EXCEPT ![t] = p],
                      !.nested = [v.nested EXCEPT ![t] = TRUE],
                      !.group = [v.group EXCEPT ![t] = NoGroup],
                      !.waiting = [v.waiting EXCEPT ![t] = NoTool]]
    BY DEF Views
  <2> HIDE DEF w
  <2> QED
    BY <2>1, <2>2, <2>3 DEF Views
<1>2. /\ w.known = v.known /\ w.progress = v.progress
      /\ w.partMessage = v.partMessage /\ w.waiting = [v.waiting EXCEPT ![t] = NoTool]
      /\ w.members = v.members /\ w.blockOf = v.blockOf /\ w.blocks = v.blocks
      /\ w.current = v.current /\ w.dropped = v.dropped
      /\ w.children = [v.children EXCEPT ![p] = @ \cup {t}]
      /\ w.parent = [v.parent EXCEPT ![t] = p] /\ w.nested = [v.nested EXCEPT ![t] = TRUE]
      /\ w.group = [v.group EXCEPT ![t] = NoGroup]
  BY DEF Views
<1> HIDE DEF w
<1>3. \A u \in Tool : /\ w.parent[u] = IF u = t THEN p ELSE v.parent[u]
                      /\ w.nested[u] <=> u = t \/ v.nested[u]
                      /\ w.group[u] = v.group[u]
                      /\ w.children[u] = IF u = p THEN v.children[u] \cup {t} ELSE v.children[u]
  <2>1. /\ v.parent \in [Tool -> MaybeTool] /\ v.nested \in [Tool -> BOOLEAN]
        /\ v.group \in [Tool -> MaybeGroup] /\ v.children \in [Tool -> SUBSET Tool]
        /\ v.group[t] = NoGroup
    BY DEF Views, Loose
  <2>2. \A u \in Tool : w.parent[u] = IF u = t THEN p ELSE v.parent[u]
    BY <1>0, <1>2, <2>1
  <2>3. \A u \in Tool : w.nested[u] <=> u = t \/ v.nested[u]
    BY <1>0, <1>2, <2>1
  <2>4. \A u \in Tool : w.group[u] = v.group[u]
    BY <1>0, <1>2, <2>1
  <2>5. \A u \in Tool : w.children[u] = IF u = p THEN v.children[u] \cup {t} ELSE v.children[u]
    BY ZenonT(40), <1>0, <1>2, <2>1
  <2> QED
    BY <2>2, <2>3, <2>4, <2>5
<1>4. Nesting(w)
  <2> SUFFICES ASSUME NEW u \in Tool
               PROVE  /\ w.nested[u] <=> w.parent[u] # NoTool
                      /\ w.nested[u] => u \in w.known /\ w.parent[u] \in w.known
                      /\ \A q \in Tool : u \in w.children[q] <=> w.nested[u] /\ w.parent[u] = q
    BY DEF Nesting
  <2>1. Nesting(v) /\ v.parent[t] = NoTool /\ ~v.nested[t]
    BY DEF Tree, Loose
  <2> QED
    <3>1. CASE u = t
      <4>1. w.nested[u] /\ w.parent[u] = p /\ p # NoTool /\ u \in w.known /\ p \in w.known
        BY <1>0, <1>2, <1>3, <3>1
      <4>2. ASSUME NEW q \in Tool PROVE u \in w.children[q] <=> p = q
        <5>1. u \notin v.children[q]
          BY <1>0, <2>1, <3>1 DEF Nesting
        <5>2. w.children[q] = IF q = p THEN v.children[q] \cup {t} ELSE v.children[q]
          BY <1>3
        <5> QED
          BY <3>1, <5>1, <5>2
      <4> QED
        BY <4>1, <4>2
    <3>2. CASE u # t
      BY <1>0, <1>2, <1>3, <2>1, <3>2 DEF Nesting
    <3> QED
      BY <3>1, <3>2
<1>5. Grouping(w)
  BY <1>0, <1>2, <1>3 DEF Tree, Grouping, Loose
<1>6. Drawing(w, {})
  <2>1. Shown(w) = Shown(v)
    BY <1>2 DEF Shown
  <2>2. Drawing(v, {t}) /\ t \notin Shown(v)
    BY DEF Tree, Loose
  <2>3. ASSUME NEW u \in Tool, u # t
        PROVE  /\ u \in w.known /\ ~w.nested[u] =>
                     /\ w.group[u] = NoGroup => w.blockOf[u] = u
                     /\ w.blockOf[u] \in Shown(w) \cup w.dropped
               /\ u \in Shown(w) => u \in w.known /\ ~w.nested[u] /\ w.group[u] = NoGroup
    BY <1>2, <1>3, <2>1, <2>2, <2>3 DEF Drawing
  <2>4. w.nested[t] /\ t \notin Shown(w)
    BY <1>0, <1>3, <2>1, <2>2
  <2>5. w.current # NoGroup => w.current \in Shown(w) \cup w.dropped
    BY <1>2, <2>1, <2>2 DEF Drawing
  <2> QED
    BY <2>3, <2>4, <2>5 DEF Drawing
<1>7. Acyclic(w.parent)
  BY <1>2
<1> QED
  BY <1>1, <1>2, <1>4, <1>5, <1>6, <1>7 DEF Tree, w

\* What SetToolParent leaves of a tool's waiting.
WaitingFor(v, t, p) ==
  IF p = NoTool \/ p = t THEN v.waiting
  ELSE [v.waiting EXCEPT ![t] = IF p \in v.known THEN NoTool ELSE p]

\* Only the waiting of one tool changes.
LEMMA WaitFacts ==
  ASSUME NEW v \in Views, NEW t \in Tool, NEW p \in MaybeTool
  PROVE  LET w == [v EXCEPT !.waiting[t] = p]
         IN  /\ w \in Views /\ SameTree(v, w) /\ w.progress = v.progress
             /\ w.partMessage = v.partMessage /\ w.waiting = [v.waiting EXCEPT ![t] = p]
<1> DEFINE w == [v EXCEPT !.waiting[t] = p]
<1>1. w \in Views
  BY DEF Views
<1>2. /\ SamePlaces(v, w) /\ w.current = v.current /\ w.blocks = v.blocks
      /\ w.dropped = v.dropped /\ w.progress = v.progress
      /\ w.partMessage = v.partMessage /\ w.waiting = [v.waiting EXCEPT ![t] = p]
  BY DEF Views, SamePlaces
<1> QED
  BY <1>1, <1>2 DEF SameTree, Shown

\* Whatever parent a tool is given, the tree stays one.
LEMMA SetToolParentFacts ==
  ASSUME NEW v \in Views, NEW t \in v.known, NEW p \in MaybeTool, Tree(v, {})
  PROVE  LET w == SetToolParent(v, t, p)
         IN  /\ w \in Views /\ Tree(w, {}) /\ w.known = v.known /\ w.progress = v.progress
             /\ w.partMessage = v.partMessage /\ w.waiting = WaitingFor(v, t, p)
<1>0. t \in Tool
  BY DEF Views
<1>1. CASE p = NoTool \/ p = t
  BY <1>1 DEF SetToolParent, WaitingFor
<1>2. CASE ~(p = NoTool \/ p = t) /\ p \notin v.known
  <2>1. SetToolParent(v, t, p) = [v EXCEPT !.waiting[t] = p]
        /\ WaitingFor(v, t, p) = [v.waiting EXCEPT ![t] = p]
    BY <1>2 DEF SetToolParent, WaitingFor
  <2> DEFINE w == [v EXCEPT !.waiting[t] = p]
  <2>2. /\ w \in Views /\ SameTree(v, w) /\ w.progress = v.progress
        /\ w.partMessage = v.partMessage /\ w.waiting = [v.waiting EXCEPT ![t] = p]
    BY <1>0, WaitFacts
  <2> HIDE DEF w
  <2>3. Tree(w, {}) /\ w.known = v.known
    BY <2>2, SameTreeKeeps DEF SameTree, SamePlaces
  <2> QED
    BY <2>1, <2>2, <2>3 DEF w
<1>3. CASE ~(p = NoTool \/ p = t) /\ p \in v.known
  <2>0. WaitingFor(v, t, p) = [v.waiting EXCEPT ![t] = NoTool]
    BY <1>3 DEF WaitingFor
  <2>1. CASE \/ ToolRelationshipWouldCycle(v, t, p)
             \/ v.nested[t] /\ v.parent[t] = p /\ t \in v.children[p]
    <3>1. SetToolParent(v, t, p) = [v EXCEPT !.waiting[t] = NoTool]
      BY <1>3, <2>1 DEF SetToolParent
    <3> DEFINE w == [v EXCEPT !.waiting[t] = NoTool]
    <3>2. /\ w \in Views /\ SameTree(v, w) /\ w.progress = v.progress
          /\ w.partMessage = v.partMessage /\ w.waiting = [v.waiting EXCEPT ![t] = NoTool]
      BY <1>0, WaitFacts
    <3> HIDE DEF w
    <3>3. Tree(w, {}) /\ w.known = v.known
      BY <3>2, SameTreeKeeps DEF SameTree, SamePlaces
    <3> QED
      BY <2>0, <3>1, <3>2, <3>3 DEF w
  <2>2. CASE ~(\/ ToolRelationshipWouldCycle(v, t, p)
               \/ v.nested[t] /\ v.parent[t] = p /\ t \in v.children[p])
    <3> DEFINE d == DetachToolFromLocation(v, t)
               w == [d EXCEPT !.children[p] = @ \cup {t}, !.parent[t] = p, !.nested[t] = TRUE,
                            !.group[t] = NoGroup, !.waiting[t] = NoTool]
    <3>1. SetToolParent(v, t, p) = w
      BY <1>3, <2>2 DEF SetToolParent
    <3>2. d \in Views /\ Leaves(v, d, t)
      BY DetachFacts
    <3> HIDE DEF d
    <3>3. Tree(d, {t}) /\ Loose(d, t)
      BY <3>2, LeavesTree
    <3>4. Acyclic([v.parent EXCEPT ![t] = p])
      BY <1>0, <1>3, <2>2, AcyclicWith DEF ToolRelationshipWouldCycle, Tree
    <3>5. [d.parent EXCEPT ![t] = p] = [v.parent EXCEPT ![t] = p] /\ d.known = v.known
      <4>1. v.parent \in [Tool -> MaybeTool]
        BY DEF Views
      <4>2. d.parent = [v.parent EXCEPT ![t] = NoTool] /\ d.known = v.known
        BY <3>2 DEF Leaves
      <4>3. [[v.parent EXCEPT ![t] = NoTool] EXCEPT ![t] = p] = [v.parent EXCEPT ![t] = p]
        BY <1>0, <4>1
      <4> QED
        BY <4>2, <4>3
    <3>6. /\ w \in Views /\ Tree(w, {}) /\ w.known = d.known /\ w.progress = d.progress
          /\ w.partMessage = d.partMessage /\ w.waiting = [d.waiting EXCEPT ![t] = NoTool]
      <4>1. t \in d.known /\ p \in d.known /\ Acyclic([d.parent EXCEPT ![t] = p])
        BY <1>3, <3>4, <3>5
      <4> QED
        BY <3>2, <3>3, <4>1, NestFacts
    <3> HIDE DEF w
    <3> QED
      BY <2>0, <3>1, <3>2, <3>6 DEF Leaves, SameWaits
  <2> QED
    BY <2>1, <2>2
<1> QED
  BY <1>1, <1>2, <1>3

-----------------------------------------------------------------------------
(* The loops over tools.  Each is a fold, and a fold is defined by recursion   *)
(* over the subsets of a finite set.                                           *)

\* One round of a loop, for tool c: of those that attach what waited for tool t,
\* promote the children of t, or remove the parts of a message.
Round(kind, t, w, c) ==
  IF kind = "attach" THEN SetToolParent(w, c, t)
  ELSE IF kind = "promote" THEN AttachToolAtRoot([w EXCEPT !.children[t] = @ \ {c}], c)
  ELSE RemovePart(w, c)

\* The tool whose round is the last of those for a set.
LastOf(s) == CHOOSE c \in s : TRUE

\* The states that the loop leaves, after the rounds for the sets of D.
LoopOf(f, kind, t, base, D) ==
  f = [s \in D |-> IF s = {} THEN base ELSE Round(kind, t, f[s \ {LastOf(s)}], LastOf(s))]

\* The subsets with n members or fewer.
Small(S, n) == {s \in SUBSET S : Cardinality(s) <= n}

\* There is such a function, for every finite set of tools.
LEMMA LoopExists ==
  ASSUME NEW kind, NEW t, NEW base, NEW S, IsFiniteSet(S)
  PROVE  \E f : LoopOf(f, kind, t, base, SUBSET S)
<1> DEFINE T == {n \in Nat : ~\E f : LoopOf(f, kind, t, base, Small(S, n))}
<1>0. \A s \in SUBSET S : IsFiniteSet(s) /\ Cardinality(s) \in Nat
  BY FS_Subset, FS_CardinalityType
<1>1. ASSUME T # {} PROVE FALSE
  <2>1. PICK m \in T : \A n \in T : m <= n
    <3>1. T \subseteq Nat
      OBVIOUS
    <3> HIDE DEF T
    <3> QED
      BY <1>1, <3>1, Least
  <2>2. m # 0
    <3>1. \A s \in Small(S, 0) : s = {}
      BY <1>0, FS_EmptySet DEF Small
    <3> DEFINE f == [s \in Small(S, 0) |-> base]
    <3>2. f = [s \in Small(S, 0) |->
                 IF s = {} THEN base ELSE Round(kind, t, f[s \ {LastOf(s)}], LastOf(s))]
      BY <3>1
    <3>3. LoopOf(f, kind, t, base, Small(S, 0))
      BY <3>2 DEF LoopOf
    <3> HIDE DEF f
    <3> QED
      BY <3>3
  <2>3. m - 1 \in Nat /\ ~(m <= m - 1) /\ m \in Nat
    BY <2>2
  <2>4. PICK f : LoopOf(f, kind, t, base, Small(S, m - 1))
    BY <2>1, <2>3
  <2> DEFINE g == [s \in Small(S, m) |->
                     IF Cardinality(s) = m THEN Round(kind, t, f[s \ {LastOf(s)}], LastOf(s)) ELSE f[s]]
  <2>5. ASSUME NEW s \in Small(S, m), s # {}
        PROVE  s \ {LastOf(s)} \in Small(S, m - 1) /\ s \ {LastOf(s)} \in Small(S, m)
               /\ Cardinality(s \ {LastOf(s)}) # m
    <3>1. LastOf(s) \in s
      BY <2>5 DEF LastOf
    <3>2. IsFiniteSet(s) /\ Cardinality(s) \in Nat /\ Cardinality(s) <= m /\ s \in SUBSET S
      BY <1>0 DEF Small
    <3>3. Cardinality(s \ {LastOf(s)}) = Cardinality(s) - 1
      BY <3>1, <3>2, FS_RemoveElement
    <3> QED
      BY <2>3, <3>2, <3>3 DEF Small
  <2>6. ASSUME NEW s \in Small(S, m)
        PROVE  g[s] = IF s = {} THEN base ELSE Round(kind, t, g[s \ {LastOf(s)}], LastOf(s))
    <3>1. CASE Cardinality(s) = m
      <4>1. s # {}
        BY <2>2, <3>1, FS_EmptySet
      <4>2. g[s \ {LastOf(s)}] = f[s \ {LastOf(s)}]
        BY <2>5, <4>1
      <4> QED
        BY <3>1, <4>1, <4>2
    <3>2. CASE Cardinality(s) # m
      <4>1. s \in Small(S, m - 1)
        BY <1>0, <2>3, <3>2 DEF Small
      <4>2. f[s] = IF s = {} THEN base ELSE Round(kind, t, f[s \ {LastOf(s)}], LastOf(s))
        BY <2>4, <4>1 DEF LoopOf
      <4>3. g[s] = f[s]
        BY <3>2
      <4>4. s # {} => g[s \ {LastOf(s)}] = f[s \ {LastOf(s)}]
        BY <2>5
      <4> HIDE DEF g
      <4> QED
        BY <4>2, <4>3, <4>4
    <3> QED
      BY <3>1, <3>2
  <2>7. LoopOf(g, kind, t, base, Small(S, m))
    BY <2>6 DEF LoopOf
  <2> HIDE DEF g
  <2> QED
    BY <2>1, <2>7
<1>2. Cardinality(S) \in Nat /\ Cardinality(S) \notin T
  BY <1>1, FS_CardinalityType
<1>3. Small(S, Cardinality(S)) = SUBSET S
  BY FS_Subset DEF Small
<1> QED
  BY <1>2, <1>3

\* How the loop's states follow on one another.
Rounds(f, kind, t, base, S) ==
  /\ f[{}] = base
  /\ \A s \in SUBSET S : s # {} => \E c \in s : f[s] = Round(kind, t, f[s \ {c}], c)

\* The loop's states do follow on one another so.
LEMMA RoundsFollow ==
  ASSUME NEW kind, NEW t, NEW base, NEW S, NEW f, LoopOf(f, kind, t, base, SUBSET S)
  PROVE  Rounds(f, kind, t, base, S)
<1>1. \A s \in SUBSET S : f[s] = IF s = {} THEN base ELSE Round(kind, t, f[s \ {LastOf(s)}], LastOf(s))
  BY DEF LoopOf
<1>2. f[{}] = base
  BY <1>1
<1>3. ASSUME NEW s \in SUBSET S, s # {} PROVE \E c \in s : f[s] = Round(kind, t, f[s \ {c}], c)
  <2>1. LastOf(s) \in s
    BY <1>3 DEF LastOf
  <2> QED
    BY <1>1, <1>3, <2>1
<1> QED
  BY <1>2, <1>3 DEF Rounds

\* The loop that attaches what waited for tool t, and its states.
AttachChildren(t, base, S) == FoldSet(LAMBDA c, w : SetToolParent(w, c, t), base, S)

\* The states of that loop follow on one another, and it leaves the last.
LEMMA AttachLoop ==
  ASSUME NEW t, NEW base, NEW S, IsFiniteSet(S)
  PROVE  \E f : Rounds(f, "attach", t, base, S) /\ AttachChildren(t, base, S) = f[S]
<1> DEFINE Is(g) ==
        g = [s \in SUBSET S |-> IF s = {} THEN base
               ELSE SetToolParent(g[s \ {CHOOSE c \in s : TRUE}], CHOOSE c \in s : TRUE, t)]
           f == CHOOSE g : Is(g)
<1>1. AttachChildren(t, base, S) = f[S]
  BY DEF AttachChildren, FoldSet, MapThenFoldSet
<1>2. \A g : LoopOf(g, "attach", t, base, SUBSET S) <=> Is(g)
  BY DEF LoopOf, Round, LastOf
<1>3. \E g : LoopOf(g, "attach", t, base, SUBSET S)
  BY LoopExists
<1> HIDE DEF Is
<1>4. LoopOf(f, "attach", t, base, SUBSET S)
  BY <1>2, <1>3
<1> HIDE DEF f
<1> QED
  BY <1>1, <1>4, RoundsFollow

\* The loop that promotes the children of tool t, and its states.
PromoteChildren(t, base, S) == FoldSet(LAMBDA c, w : AttachToolAtRoot([w EXCEPT !.children[t] = @ \ {c}], c), base, S)

\* So do those of this loop.
LEMMA PromoteLoop ==
  ASSUME NEW t, NEW base, NEW S, IsFiniteSet(S)
  PROVE  \E f : Rounds(f, "promote", t, base, S) /\ PromoteChildren(t, base, S) = f[S]
<1> DEFINE Is(g) ==
        g = [s \in SUBSET S |-> IF s = {} THEN base
               ELSE AttachToolAtRoot([g[s \ {CHOOSE c \in s : TRUE}] EXCEPT
                                          !.children[t] = @ \ {CHOOSE c \in s : TRUE}], CHOOSE c \in s : TRUE)]
           f == CHOOSE g : Is(g)
<1>1. PromoteChildren(t, base, S) = f[S]
  BY DEF PromoteChildren, FoldSet, MapThenFoldSet
<1>2. \A g : LoopOf(g, "promote", t, base, SUBSET S) <=> Is(g)
  BY DEF LoopOf, Round, LastOf
<1>3. \E g : LoopOf(g, "promote", t, base, SUBSET S)
  BY LoopExists
<1> HIDE DEF Is
<1>4. LoopOf(f, "promote", t, base, SUBSET S)
  BY <1>2, <1>3
<1> HIDE DEF f
<1> QED
  BY <1>1, <1>4, RoundsFollow

\* The loop that removes the parts of a message, and its states.
RemoveParts(base, S) == FoldSet(LAMBDA c, w : RemovePart(w, c), base, S)

\* And those of this one.
LEMMA RemoveLoop ==
  ASSUME NEW t, NEW base, NEW S, IsFiniteSet(S)
  PROVE  \E f : Rounds(f, "remove", t, base, S) /\ RemoveParts(base, S) = f[S]
<1> DEFINE Is(g) ==
        g = [s \in SUBSET S |-> IF s = {} THEN base
               ELSE RemovePart(g[s \ {CHOOSE c \in s : TRUE}], CHOOSE c \in s : TRUE)]
           f == CHOOSE g : Is(g)
<1>1. RemoveParts(base, S) = f[S]
  BY DEF RemoveParts, FoldSet, MapThenFoldSet
<1>2. \A g : LoopOf(g, "remove", t, base, SUBSET S) <=> Is(g)
  BY DEF LoopOf, Round, LastOf
<1>3. \E g : LoopOf(g, "remove", t, base, SUBSET S)
  BY LoopExists
<1> HIDE DEF Is
<1>4. LoopOf(f, "remove", t, base, SUBSET S)
  BY <1>2, <1>3
<1> HIDE DEF f
<1> QED
  BY <1>1, <1>4, RoundsFollow

\* What holds of no tools, and of a set as soon as it holds of the set without
\* one member, holds of every finite set: S is in any such family G.
LEMMA SetInduction ==
  ASSUME NEW S, IsFiniteSet(S), NEW G, {} \in G,
         \A s \in SUBSET S : s # {} => \E c \in s : s \ {c} \in G => s \in G
  PROVE  S \in G
<1> DEFINE T == {n \in Nat : \E s \in SUBSET S : s \notin G /\ Cardinality(s) = n}
<1>0. \A s \in SUBSET S : IsFiniteSet(s) /\ Cardinality(s) \in Nat
  BY FS_Subset, FS_CardinalityType
<1>1. SUFFICES ASSUME S \notin G PROVE FALSE
  OBVIOUS
<1>2. T # {}
  BY <1>0, <1>1
<1>3. PICK m \in T : \A n \in T : m <= n
  <2>1. T \subseteq Nat
    OBVIOUS
  <2> HIDE DEF T
  <2> QED
    BY <1>2, <2>1, Least
<1>4. PICK s \in SUBSET S : s \notin G /\ Cardinality(s) = m
  OBVIOUS
<1>5. PICK c \in s : s \ {c} \in G => s \in G
  BY <1>4
<1>6. Cardinality(s \ {c}) = m - 1 /\ m - 1 \in Nat /\ m \in Nat
  <2>1. IsFiniteSet(s) /\ c \in s /\ m \in Nat
    BY <1>0, <1>4
  <2>2. Cardinality(s \ {c}) = m - 1
    BY <1>4, <2>1, FS_RemoveElement
  <2>3. s \ {c} \in SUBSET S
    OBVIOUS
  <2>4. Cardinality(s \ {c}) \in Nat
    BY <1>0, <2>3
  <2> QED
    BY <2>1, <2>2, <2>4
<1>7. m - 1 \in T
  BY <1>4, <1>5, <1>6
<1> QED
  BY <1>3, <1>6, <1>7

-----------------------------------------------------------------------------
(* Waiting tools. *)

\* Giving a tool a parent leaves nobody waiting in vain.
LEMMA SetToolParentWaits ==
  ASSUME NEW v \in Views, NEW t \in v.known, NEW p \in MaybeTool, Tree(v, {}), Waits(v)
  PROVE  Waits(SetToolParent(v, t, p))
<1> DEFINE w == SetToolParent(v, t, p)
<1>1. w.known = v.known /\ w.waiting = WaitingFor(v, t, p) /\ w \in Views
  BY SetToolParentFacts
<1> HIDE DEF w
<1>2. ASSUME NEW u \in Tool
      PROVE  w.waiting[u] # u /\ (u \in w.known => w.waiting[u] \notin w.known)
  <2>1. CASE p = NoTool \/ p = t
    BY <1>1, <2>1 DEF WaitingFor, Waits
  <2>2. CASE ~(p = NoTool \/ p = t)
    <3>1. w.waiting[u] = IF u = t THEN (IF p \in v.known THEN NoTool ELSE p) ELSE v.waiting[u]
      BY <1>1, <2>2 DEF WaitingFor, Views
    <3>2. NoTool \notin v.known /\ u # NoTool
      BY DEF Views
    <3> QED
      BY <1>1, <2>2, <3>1, <3>2 DEF Waits
  <2> QED
    BY <2>1, <2>2
<1> QED
  BY <1>2 DEF Waits, w

\* A tool that has just come finds its parent and its children.
LEMMA AttachPendingFacts ==
  ASSUME NEW v \in Views, NEW t \in v.known, Tree(v, {}),
         \A u \in Tool : /\ v.waiting[u] # u
                         /\ u \in v.known /\ u # t => v.waiting[u] \notin v.known \ {t}
  PROVE  LET w == AttachPendingToolRelationships(v, t)
         IN  /\ w \in Views /\ Tree(w, {}) /\ Waits(w) /\ w.known = v.known
             /\ w.progress = v.progress /\ w.partMessage = v.partMessage
<1> DEFINE own == IF v.waiting[t] # NoTool THEN v.waiting[t] ELSE v.parent[t]
           placed == SetToolParent(v, t, own)
           expecting == {c \in placed.known : placed.waiting[c] = t}
<1>0. t \in Tool /\ own \in MaybeTool /\ NoTool \notin v.known /\ v.known \subseteq Tool
  BY DEF Views
<1>1. /\ placed \in Views /\ Tree(placed, {}) /\ placed.known = v.known
      /\ placed.progress = v.progress /\ placed.partMessage = v.partMessage
      /\ placed.waiting = WaitingFor(v, t, own)
  BY <1>0, SetToolParentFacts
<1>2. PICK f : /\ Rounds(f, "attach", t, placed, expecting)
               /\ AttachPendingToolRelationships(v, t) = f[expecting]
  <2>1. IsFiniteSet(expecting)
    <3>1. expecting \subseteq Tool
      BY <1>0, <1>1
    <3> HIDE DEF expecting
    <3> QED
      BY <3>1, FS_Subset
  <2>2. AttachPendingToolRelationships(v, t)
          = AttachChildren(t, placed, expecting)
    BY DEF AttachPendingToolRelationships, AttachChildren
  <2> HIDE DEF placed, expecting, own
  <2> QED
    BY <2>1, <2>2, AttachLoop
<1>3. \A u \in Tool : /\ placed.waiting[u] # u
                      /\ u # t => placed.waiting[u] = v.waiting[u]
                      /\ placed.waiting[t] \notin v.known
  <2>1. CASE own = NoTool \/ own = t
    <3>1. placed.waiting = v.waiting
      BY <1>1, <2>1 DEF WaitingFor
    <3>2. v.waiting[t] = NoTool
      BY <1>0, <2>1
    <3> HIDE DEF placed, own
    <3> QED
      BY <1>0, <3>1, <3>2
  <2>2. CASE ~(own = NoTool \/ own = t)
    <3>1. placed.waiting = [v.waiting EXCEPT ![t] = IF own \in v.known THEN NoTool ELSE own]
      BY <1>1, <2>2 DEF WaitingFor
    <3> HIDE DEF placed, own
    <3>2. v.waiting \in [Tool -> MaybeTool]
      BY DEF Views
    <3> QED
      BY <1>0, <2>2, <3>1, <3>2
  <2> QED
    BY <2>1, <2>2
<1> HIDE DEF placed, own
<1> DEFINE Good(s) == /\ f[s] \in Views /\ Tree(f[s], {}) /\ f[s].known = v.known
                      /\ f[s].progress = v.progress /\ f[s].partMessage = v.partMessage
                      /\ \A u \in Tool : f[s].waiting[u] = IF u \in s THEN NoTool ELSE placed.waiting[u]
           G == {s \in SUBSET expecting : Good(s)}
<1>4. {} \in G
  <2>1. f[{}] = placed
    BY <1>2 DEF Rounds
  <2> QED
    BY <1>1, <2>1
<1>5. ASSUME NEW s \in SUBSET expecting, s # {}
      PROVE  \E c \in s : s \ {c} \in G => s \in G
  <2>1. PICK c \in s : f[s] = Round("attach", t, f[s \ {c}], c)
    BY <1>2, <1>5 DEF Rounds
  <2>2. SUFFICES ASSUME Good(s \ {c}) PROVE Good(s)
    BY <2>1
  <2> DEFINE x == f[s \ {c}]
  <2>3. f[s] = SetToolParent(x, c, t)
    BY <2>1 DEF Round
  <2>4. c \in v.known /\ c # t
    BY <1>1, <1>3, <1>0
  <2>5. /\ x \in Views /\ Tree(x, {}) /\ x.known = v.known /\ x.progress = v.progress
        /\ x.partMessage = v.partMessage
        /\ \A u \in Tool : x.waiting[u] = IF u \in s \ {c} THEN NoTool ELSE placed.waiting[u]
    BY <2>2
  <2> HIDE DEF x, expecting
  <2>6. /\ f[s] \in Views /\ Tree(f[s], {}) /\ f[s].known = x.known /\ f[s].progress = x.progress
        /\ f[s].partMessage = x.partMessage /\ f[s].waiting = WaitingFor(x, c, t)
    BY <1>0, <2>3, <2>4, <2>5, SetToolParentFacts
  <2>7. f[s].waiting = [x.waiting EXCEPT ![c] = NoTool]
    BY <1>0, <2>4, <2>5, <2>6 DEF WaitingFor
  <2>8. x.waiting \in [Tool -> MaybeTool] /\ c \in Tool
    BY <1>0, <2>4, <2>5 DEF Views
  <2>9. \A u \in Tool : f[s].waiting[u] = IF u \in s THEN NoTool ELSE placed.waiting[u]
    BY <2>1, <2>5, <2>7, <2>8
  <2> QED
    BY <2>5, <2>6, <2>9
<1>6. Good(expecting)
  <2>1. IsFiniteSet(expecting)
    <3>1. expecting \subseteq Tool
      BY <1>0, <1>1
    <3> HIDE DEF expecting
    <3> QED
      BY <3>1, FS_Subset
  <2>2. expecting \in G
    <3> HIDE DEF G, expecting
    <3> QED
      BY <1>4, <1>5, <2>1, SetInduction
  <2> QED
    BY <2>2
<1> DEFINE w == f[expecting]
<1>7. Waits(w)
  <2> SUFFICES ASSUME NEW u \in Tool
               PROVE  w.waiting[u] # u /\ (u \in w.known => w.waiting[u] \notin w.known)
    BY DEF Waits
  <2>1. w.known = v.known /\ w.waiting[u] = IF u \in expecting THEN NoTool ELSE placed.waiting[u]
    BY <1>6
  <2>2. u \in expecting <=> u \in v.known /\ placed.waiting[u] = t
    BY <1>1
  <2> HIDE DEF w, expecting
  <2>3. CASE u \in expecting
    BY <1>0, <2>1, <2>3
  <2>4. CASE u \notin expecting
    BY <1>0, <1>3, <2>1, <2>2, <2>4
  <2> QED
    BY <2>3, <2>4
<1> QED
  BY <1>2, <1>6, <1>7

-----------------------------------------------------------------------------
(* Removal. *)

\* A child that is promoted gets a block of its own.
LEMMA PromoteFacts ==
  ASSUME NEW v \in Views, NEW t \in Tool, NEW c \in v.known, c \in v.children[t], Tree(v, {})
  PROVE  LET w == AttachToolAtRoot([v EXCEPT !.children[t] = @ \ {c}], c)
         IN  /\ w \in Views /\ Tree(w, {}) /\ w.known = v.known /\ SameWaits(v, w)
             /\ w.children[t] = v.children[t] \ {c}
<1> DEFINE mid == [[v EXCEPT !.children[t] = @ \ {c}] EXCEPT
                       !.parent[c] = NoTool, !.nested[c] = FALSE,
                       !.group[c] = NoGroup, !.blockOf[c] = c]
           w == AddBlock(mid, c, v.partMessage[c])
<1>0. c \in Tool /\ Nesting(v) /\ Grouping(v) /\ Drawing(v, {}) /\ Acyclic(v.parent)
      /\ v.nested[c] /\ v.parent[c] = t /\ v.group[c] = NoGroup
  <2>1. c \in Tool /\ Nesting(v) /\ Grouping(v) /\ Drawing(v, {}) /\ Acyclic(v.parent)
    BY DEF Views, Tree
  <2> QED
    BY <2>1 DEF Nesting, Grouping
<1>1. mid = [v EXCEPT !.children = [v.children EXCEPT ![t] = @ \ {c}],
                      !.parent = [v.parent EXCEPT ![c] = NoTool],
                      !.nested = [v.nested EXCEPT ![c] = FALSE],
                      !.group = [v.group EXCEPT ![c] = NoGroup],
                      !.blockOf = [v.blockOf EXCEPT ![c] = c]]
  BY DEF Views
<1>2. /\ [v.children EXCEPT ![t] = @ \ {c}] \in [Tool -> SUBSET Tool]
      /\ [v.parent EXCEPT ![c] = NoTool] \in [Tool -> MaybeTool]
  BY <1>0 DEF Views
<1>3. /\ [v.nested EXCEPT ![c] = FALSE] \in [Tool -> BOOLEAN]
      /\ [v.group EXCEPT ![c] = NoGroup] \in [Tool -> MaybeGroup]
      /\ [v.blockOf EXCEPT ![c] = c] \in [Tool -> Block]
  BY <1>0 DEF Views, MaybeGroup
<1>4. AttachToolAtRoot([v EXCEPT !.children[t] = @ \ {c}], c) = w
  BY DEF AttachToolAtRoot, Views
<1> HIDE DEF mid
<1>5. mid \in Views
  BY <1>1, <1>2, <1>3 DEF Views
<1>6. /\ mid.known = v.known /\ SameWaits(v, mid) /\ mid.members = v.members
      /\ mid.children = [v.children EXCEPT ![t] = @ \ {c}]
      /\ mid.parent = [v.parent EXCEPT ![c] = NoTool]
      /\ mid.nested = [v.nested EXCEPT ![c] = FALSE]
      /\ mid.group = [v.group EXCEPT ![c] = NoGroup]
      /\ mid.blockOf = [v.blockOf EXCEPT ![c] = c]
      /\ mid.blocks = v.blocks /\ mid.current = v.current /\ mid.dropped = v.dropped
  BY <1>1 DEF Views, SameWaits
<1>7. v.partMessage[c] \in MaybeMessage
  BY <1>0 DEF Views
<1>8. /\ w \in Views
      /\ w.known = mid.known /\ w.parent = mid.parent /\ w.nested = mid.nested
      /\ w.children = mid.children /\ w.group = mid.group /\ w.members = mid.members
      /\ w.blockOf = mid.blockOf /\ w.current = mid.current
      /\ w.waiting = mid.waiting
      /\ w.progress = mid.progress /\ w.partMessage = mid.partMessage
      /\ Shown(w) = Shown(mid) \cup {c} /\ w.dropped = mid.dropped \ {c}
  BY SMTT(20), <1>0, <1>5, <1>7, AddBlockFacts
<1> HIDE DEF w
<1>9. \A u \in Tool : w.parent[u] = IF u = c THEN NoTool ELSE v.parent[u]
  BY <1>0, <1>6, <1>8 DEF Views
<1>10. \A u \in Tool : w.nested[u] <=> u # c /\ v.nested[u]
  BY <1>0, <1>6, <1>8 DEF Views
<1>11. \A u \in Tool : w.group[u] = v.group[u] /\ w.blockOf[u] = IF u = c THEN c ELSE v.blockOf[u]
  BY <1>0, <1>6, <1>8 DEF Views
<1>12. \A u \in Tool : w.children[u] = IF u = t THEN v.children[u] \ {c} ELSE v.children[u]
  <2>1. v.children \in [Tool -> SUBSET Tool]
    BY DEF Views
  <2>2. w.children = [v.children EXCEPT ![t] = v.children[t] \ {c}]
    BY <1>6, <1>8
  <2> QED
    BY <2>1, <2>2
<1>13. w.known = v.known /\ w.members = v.members /\ Shown(w) = Shown(v) \cup {c}
       /\ w.dropped = v.dropped \ {c} /\ w.current = v.current
  BY <1>6, <1>8 DEF Shown
<1>14. Nesting(w)
  <2> SUFFICES ASSUME NEW u \in Tool
               PROVE  /\ w.nested[u] <=> w.parent[u] # NoTool
                      /\ w.nested[u] => u \in w.known /\ w.parent[u] \in w.known
                      /\ \A q \in Tool : u \in w.children[q] <=> w.nested[u] /\ w.parent[u] = q
    BY DEF Nesting
  <2>1. CASE u = c
    <3>1. \A q \in Tool : c \in v.children[q] => q = t
      BY <1>0 DEF Nesting
    <3>2. \A q \in Tool : c \notin w.children[q]
      BY <1>12, <3>1
    <3>3. w.parent[c] = NoTool /\ ~w.nested[c]
      BY <1>0, <1>9, <1>10
    <3> QED
      BY <2>1, <3>2, <3>3
  <2>2. CASE u # c
    <3>1. \A q \in Tool : u \in w.children[q] <=> u \in v.children[q]
      BY <1>12, <2>2
    <3>2. w.parent[u] = v.parent[u] /\ (w.nested[u] <=> v.nested[u]) /\ w.known = v.known
      BY <1>9, <1>10, <1>13, <2>2
    <3> QED
      BY <1>0, <3>1, <3>2 DEF Nesting
  <2> QED
    BY <2>1, <2>2
<1>15. Grouping(w)
  BY <1>0, <1>10, <1>11, <1>13 DEF Grouping
<1>16. Drawing(w, {})
  <2>1. ASSUME NEW u \in Tool, u # c
        PROVE  /\ u \in w.known /\ ~w.nested[u] =>
                     /\ w.group[u] = NoGroup => w.blockOf[u] = u
                     /\ w.blockOf[u] \in Shown(w) \cup w.dropped
               /\ u \in Shown(w) => u \in w.known /\ ~w.nested[u] /\ w.group[u] = NoGroup
    BY <1>0, <1>10, <1>11, <1>13, <2>1 DEF Drawing
  <2>2. /\ w.blockOf[c] = c /\ c \in Shown(w) /\ c \in w.known /\ ~w.nested[c] /\ w.group[c] = NoGroup
    BY <1>0, <1>10, <1>11, <1>13
  <2>3. w.current # NoGroup => w.current \in Shown(w) \cup w.dropped
    BY <1>0, <1>13 DEF Drawing
  <2> QED
    BY <2>1, <2>2, <2>3 DEF Drawing
<1>17. Acyclic(w.parent)
  <2>1. v.parent \in [Tool -> MaybeTool]
    BY DEF Views
  <2> QED
    BY <1>0, <1>6, <1>8, <2>1, AcyclicWithout
<1>18. SameWaits(v, w) /\ w.children[t] = v.children[t] \ {c}
  BY <1>6, <1>8, <1>12 DEF SameWaits
<1> QED
  BY <1>4, <1>8, <1>13, <1>14, <1>15, <1>16, <1>17, <1>18 DEF Tree

\* Nobody stays under a tool whose children are promoted.
LEMMA PromoteToolChildrenFacts ==
  ASSUME NEW v \in Views, NEW t \in v.known, Tree(v, {})
  PROVE  LET w == PromoteToolChildren(v, t)
         IN  /\ w \in Views /\ Tree(w, {}) /\ w.known = v.known /\ SameWaits(v, w)
             /\ w.children[t] = {}
<1> DEFINE S == v.children[t] \cap v.known
<1>0. t \in Tool /\ S \subseteq Tool /\ S = v.children[t]
  BY DEF Views, Tree, Nesting
<1> HIDE DEF S
<1>1. IsFiniteSet(S)
  BY <1>0, FS_Subset
<1>2. PICK f : Rounds(f, "promote", t, v, S) /\ PromoteToolChildren(v, t) = f[S]
  <2>1. PromoteToolChildren(v, t) = PromoteChildren(t, v, S)
    BY DEF PromoteToolChildren, PromoteChildren, S
  <2> QED
    BY <1>1, <2>1, PromoteLoop
<1> DEFINE Good(s) == /\ f[s] \in Views /\ Tree(f[s], {}) /\ f[s].known = v.known
                      /\ SameWaits(v, f[s]) /\ f[s].children[t] = v.children[t] \ s
           G == {s \in SUBSET S : Good(s)}
<1>3. {} \in G
  <2>1. f[{}] = v
    BY <1>2 DEF Rounds
  <2> QED
    BY <2>1 DEF SameWaits
<1>4. ASSUME NEW s \in SUBSET S, s # {}
      PROVE  \E c \in s : s \ {c} \in G => s \in G
  <2>1. PICK c \in s : f[s] = Round("promote", t, f[s \ {c}], c)
    BY <1>2, <1>4 DEF Rounds
  <2>2. SUFFICES ASSUME Good(s \ {c}) PROVE Good(s)
    BY <2>1
  <2> DEFINE x == f[s \ {c}]
  <2>3. f[s] = AttachToolAtRoot([x EXCEPT !.children[t] = @ \ {c}], c)
    BY <2>1 DEF Round
  <2>4. /\ x \in Views /\ Tree(x, {}) /\ x.known = v.known /\ SameWaits(v, x)
        /\ x.children[t] = v.children[t] \ (s \ {c})
    BY <2>2
  <2> HIDE DEF x
  <2>5. c \in x.known /\ c \in x.children[t]
    <3>1. c \in S
      OBVIOUS
    <3> QED
      BY <1>0, <2>4, <3>1 DEF S
  <2>6. /\ f[s] \in Views /\ Tree(f[s], {}) /\ f[s].known = x.known /\ SameWaits(x, f[s])
        /\ f[s].children[t] = x.children[t] \ {c}
    BY <1>0, <2>3, <2>4, <2>5, PromoteFacts
  <2> QED
    BY <2>4, <2>6 DEF SameWaits
<1>5. S \in G
  <2> HIDE DEF G
  <2> QED
    BY <1>1, <1>3, <1>4, SetInduction
<1> QED
  BY <1>0, <1>2, <1>5

\* A removed tool is gone from every index, and its children are on the screen.
LEMMA RemovePartFacts ==
  ASSUME NEW v \in Views, NEW t \in v.known, Tree(v, {}), Waits(v)
  PROVE  LET w == RemovePart(v, t)
         IN  w \in Views /\ Tree(w, {}) /\ Waits(w) /\ w.known = v.known \ {t}
<1> DEFINE p == PromoteToolChildren(v, t)
           d == DetachToolFromLocation(p, t)
           waits == [c \in Tool |-> IF c = t \/ d.waiting[c] = t THEN NoTool ELSE d.waiting[c]]
           w == [d EXCEPT !.known = @ \ {t}, !.blockOf[t] = t, !.waiting = waits,
                          !.partMessage[t] = NoMessage]
<1>0. t \in Tool /\ w = RemovePart(v, t)
  BY DEF Views, RemovePart
<1>1. /\ p \in Views /\ Tree(p, {}) /\ p.known = v.known /\ SameWaits(v, p)
      /\ p.children[t] = {}
  BY PromoteToolChildrenFacts
<1> HIDE DEF p
<1>2. d \in Views /\ Leaves(p, d, t)
  BY <1>1, DetachFacts
<1> HIDE DEF d
<1>3. Tree(d, {t}) /\ Loose(d, t) /\ d.children[t] = {} /\ d.known = v.known /\ d.waiting = v.waiting
  BY <1>0, <1>1, <1>2, LeavesTree DEF Leaves, SameWaits
<1>4. waits \in [Tool -> MaybeTool]
  BY <1>2 DEF Views
<1>5. w \in Views
  <2>1. [d.blockOf EXCEPT ![t] = t] \in [Tool -> Block]
        /\ [d.partMessage EXCEPT ![t] = NoMessage] \in [Tool -> MaybeMessage]
        /\ d.known \ {t} \in SUBSET Tool
    BY <1>0, <1>2 DEF Views
  <2>2. w = [d EXCEPT !.known = d.known \ {t}, !.blockOf = [d.blockOf EXCEPT ![t] = t],
                      !.waiting = waits, !.partMessage = [d.partMessage EXCEPT ![t] = NoMessage]]
    BY <1>2 DEF Views
  <2> HIDE DEF w, waits
  <2> QED
    BY <1>2, <1>4, <2>1, <2>2 DEF Views
<1>6. /\ w.known = d.known \ {t} /\ w.parent = d.parent /\ w.nested = d.nested
      /\ w.children = d.children /\ w.group = d.group /\ w.members = d.members
      /\ w.blockOf = [d.blockOf EXCEPT ![t] = t] /\ w.blocks = d.blocks
      /\ w.current = d.current /\ w.waiting = waits /\ w.dropped = d.dropped
  BY <1>2 DEF Views
<1>7. \A c \in Tool : w.waiting[c] = IF c = t \/ d.waiting[c] = t THEN NoTool ELSE d.waiting[c]
  BY <1>6
<1> HIDE DEF w, waits
<1>8. Nesting(w)
  <2>1. Nesting(d) /\ d.parent[t] = NoTool /\ ~d.nested[t]
    BY <1>3 DEF Tree, Loose
  <2>2. ASSUME NEW u \in Tool, d.nested[u] PROVE u # t /\ d.parent[u] # t
    BY <1>0, <1>3, <2>1, <2>2 DEF Nesting
  <2> QED
    BY <1>6, <2>1, <2>2 DEF Nesting
<1>9. Grouping(w)
  <2>1. Grouping(d) /\ d.group[t] = NoGroup
    BY <1>3 DEF Tree, Loose
  <2>2. \A u \in Tool : u # t => w.blockOf[u] = d.blockOf[u]
    BY <1>2, <1>6 DEF Views
  <2> QED
    BY <1>6, <2>1, <2>2 DEF Grouping
<1>10. Drawing(w, {})
  <2>1. Drawing(d, {t}) /\ t \notin Shown(d)
    BY <1>3 DEF Tree, Loose
  <2>2. \A u \in Tool : u # t => w.blockOf[u] = d.blockOf[u]
    BY <1>2, <1>6 DEF Views
  <2>3. Shown(w) = Shown(d)
    BY <1>6 DEF Shown
  <2> QED
    BY <1>6, <2>1, <2>2, <2>3 DEF Drawing
<1>11. Acyclic(w.parent)
  BY <1>3, <1>6 DEF Tree
<1>12. Waits(w)
  <2> SUFFICES ASSUME NEW u \in Tool
               PROVE  w.waiting[u] # u /\ (u \in w.known => w.waiting[u] \notin w.known)
    BY DEF Waits
  <2>1. NoTool \notin v.known /\ u # NoTool
    BY DEF Views
  <2> QED
    BY <1>3, <1>6, <1>7, <2>1 DEF Waits
<1> QED
  BY <1>0, <1>3, <1>5, <1>6, <1>8, <1>9, <1>10, <1>11, <1>12 DEF Tree

\* A removed message takes its tools and its blocks.
LEMMA RemoveMessageFacts ==
  ASSUME NEW v \in Views, Tree(v, {}), Waits(v), NEW m
  PROVE  LET w == RemoveMessage(v, m)
         IN  w \in Views /\ Tree(w, {}) /\ Waits(w)
<1> DEFINE S == {t \in v.known : v.partMessage[t] = m}
<1>0. S \subseteq v.known /\ v.known \subseteq Tool
  BY DEF Views
<1> HIDE DEF S
<1>1. IsFiniteSet(S)
  BY <1>0, FS_Subset
<1>2. PICK f : Rounds(f, "remove", m, v, S) /\ RemoveParts(v, S) = f[S]
  BY <1>1, RemoveLoop
<1> DEFINE Good(s) == f[s] \in Views /\ Tree(f[s], {}) /\ Waits(f[s]) /\ f[s].known = v.known \ s
           G == {s \in SUBSET S : Good(s)}
<1>3. {} \in G
  <2>1. f[{}] = v
    BY <1>2 DEF Rounds
  <2> QED
    BY <2>1
<1>4. ASSUME NEW s \in SUBSET S, s # {}
      PROVE  \E c \in s : s \ {c} \in G => s \in G
  <2>1. PICK c \in s : f[s] = Round("remove", m, f[s \ {c}], c)
    BY <1>2, <1>4 DEF Rounds
  <2>2. SUFFICES ASSUME Good(s \ {c}) PROVE Good(s)
    BY <2>1
  <2> DEFINE x == f[s \ {c}]
  <2>3. f[s] = RemovePart(x, c)
    BY <2>1 DEF Round
  <2>4. x \in Views /\ Tree(x, {}) /\ Waits(x) /\ x.known = v.known \ (s \ {c})
    BY <2>2
  <2> HIDE DEF x
  <2>5. c \in x.known
    BY <1>0, <2>4
  <2>6. f[s] \in Views /\ Tree(f[s], {}) /\ Waits(f[s]) /\ f[s].known = x.known \ {c}
    BY <2>3, <2>4, <2>5, RemovePartFacts
  <2> QED
    BY <2>4, <2>6
<1>5. S \in G
  <2> HIDE DEF G
  <2> QED
    BY <1>1, <1>3, <1>4, SetInduction
<1> DEFINE left == f[S]
           tagged == {b \in Shown(left) : left.blocks[b] = m}
           bare == RemoveBlocks(left, tagged)
           w == [bare EXCEPT !.dropped = @ \cup tagged]
<1>6. RemoveMessage(v, m) = w
  <2>1. RemoveParts(v, S) = FoldSet(LAMBDA t, x : RemovePart(x, t), v, {t \in v.known : v.partMessage[t] = m})
    BY DEF RemoveParts, S
  <2>2. left = FoldSet(LAMBDA t, x : RemovePart(x, t), v, {t \in v.known : v.partMessage[t] = m})
    BY <1>2, <2>1
  <2> QED
    BY <2>2 DEF RemoveMessage
<1>7. left \in Views /\ Tree(left, {}) /\ Waits(left)
  BY <1>5
<1> HIDE DEF left
<1>8. /\ bare \in Views /\ SamePlaces(left, bare) /\ SameWaits(left, bare)
      /\ bare.current = left.current /\ Shown(bare) = Shown(left) \ tagged
      /\ bare.dropped = left.dropped \ tagged
  BY <1>7, RemoveBlocksFacts
<1>9. tagged \subseteq Block
  <2>1. left.blocks \in Tags
    BY <1>7 DEF Views
  <2> QED
    BY <2>1 DEF Tags, Shown
<1> HIDE DEF bare, tagged
<1>10. w \in Views
  BY <1>8, <1>9 DEF Views
<1>11. /\ SamePlaces(bare, w) /\ SameWaits(bare, w) /\ w.current = bare.current
       /\ w.blocks = bare.blocks /\ w.dropped = bare.dropped \cup tagged
  BY <1>8 DEF Views, SamePlaces, SameWaits
<1> HIDE DEF w
<1>12. Tree(w, {})
  <2>1. Shown(w) = Shown(left) \ tagged /\ w.dropped = left.dropped \cup tagged
        /\ SamePlaces(left, w) /\ w.current = left.current
    BY <1>8, <1>11 DEF Shown, SamePlaces
  <2> QED
    BY <1>7, <2>1 DEF Tree, Nesting, Grouping, Drawing, SamePlaces
<1>13. Waits(w)
  BY <1>7, <1>8, <1>11 DEF Waits, SamePlaces, SameWaits
<1> QED
  BY <1>6, <1>10, <1>12, <1>13

-----------------------------------------------------------------------------
(* Arrival. *)

\* Joining a group changes this.
Joins(v, w, t, g) ==
  /\ w.known = v.known \cup {t} /\ w.parent = v.parent /\ w.nested = v.nested
  /\ w.children = v.children /\ w.group = [v.group EXCEPT ![t] = g]
  /\ w.members = [v.members EXCEPT ![g] = v.members[g] \cup {t}]
  /\ w.blockOf = [v.blockOf EXCEPT ![t] = g]
  /\ Shown(w) = Shown(v) /\ w.dropped = v.dropped /\ w.current = g

\* A tool that was not known is placed in a group and becomes known.
LEMMA PlaceFacts ==
  ASSUME NEW v \in Views, NEW t \in Tool, t \notin v.known, Tree(v, {}), t \notin Shown(v),
         NEW g \in ToolGroup, g \in Shown(v) \cup v.dropped, NEW w, Joins(v, w, t, g)
  PROVE  Tree(w, {})
<1>0. /\ Nesting(v) /\ Grouping(v) /\ Drawing(v, {}) /\ Acyclic(v.parent)
  BY DEF Tree
<1>1. ~v.nested[t] /\ v.group[t] = NoGroup /\ \A h \in ToolGroup : t \notin v.members[h]
  BY <1>0 DEF Nesting, Grouping
<1>2. \A u \in Tool : /\ w.group[u] = IF u = t THEN g ELSE v.group[u]
                      /\ w.blockOf[u] = IF u = t THEN g ELSE v.blockOf[u]
  <2>1. v.group \in [Tool -> MaybeGroup] /\ v.blockOf \in [Tool -> Block]
    BY DEF Views
  <2> QED
    BY <2>1 DEF Joins
<1>3. \A h \in ToolGroup : w.members[h] = IF h = g THEN v.members[h] \cup {t} ELSE v.members[h]
  <2>1. v.members \in [ToolGroup -> SUBSET Tool]
    BY DEF Views
  <2> QED
    BY <2>1 DEF Joins
<1>4. Nesting(w)
  BY <1>0 DEF Nesting, Joins
<1>5. Grouping(w)
  <2> SUFFICES ASSUME NEW u \in Tool
               PROVE  /\ w.group[u] # NoGroup => u \in w.known /\ ~w.nested[u] /\ w.blockOf[u] = w.group[u]
                      /\ \A h \in ToolGroup : u \in w.members[h] <=> w.group[u] = h
    BY DEF Grouping
  <2>1. w.known = v.known \cup {t} /\ w.nested = v.nested
    BY DEF Joins
  <2>2. CASE u = t
    BY <1>1, <1>2, <1>3, <2>1, <2>2
  <2>3. CASE u # t
    <3>1. w.group[u] = v.group[u] /\ w.blockOf[u] = v.blockOf[u]
      BY <1>2, <2>3
    <3>2. \A h \in ToolGroup : u \in w.members[h] <=> u \in v.members[h]
      BY <1>3, <2>3
    <3> QED
      BY <1>0, <2>1, <3>1, <3>2 DEF Grouping
  <2> QED
    BY <2>2, <2>3
<1>6. Drawing(w, {})
  <2>1. /\ w.known = v.known \cup {t} /\ w.nested = v.nested /\ Shown(w) = Shown(v)
        /\ w.dropped = v.dropped /\ w.current = g
    BY DEF Joins
  <2>2. ASSUME NEW u \in Tool, u # t
        PROVE  /\ u \in w.known /\ ~w.nested[u] =>
                     /\ w.group[u] = NoGroup => w.blockOf[u] = u
                     /\ w.blockOf[u] \in Shown(w) \cup w.dropped
               /\ u \in Shown(w) => u \in w.known /\ ~w.nested[u] /\ w.group[u] = NoGroup
    BY <1>0, <1>2, <2>1, <2>2 DEF Drawing
  <2>3. w.blockOf[t] = g /\ w.group[t] = g /\ g # NoGroup /\ t \notin Shown(w)
    BY <1>2, <2>1
  <2> QED
    BY <2>1, <2>2, <2>3 DEF Drawing
<1> QED
  BY <1>0, <1>4, <1>5, <1>6 DEF Tree, Joins

\* A new tool is placed, and relates to nobody yet.
LEMMA NewToolViewFacts ==
  ASSUME NEW v \in Views, NEW t \in Tool, t \notin v.known, Tree(v, {}),
         NEW m \in MaybeMessage, t \notin Grouped \/ UnusedGroups(v) # {}
  PROVE  LET w == NewToolView(v, t, m)
         IN  w \in Views /\ Tree(w, {}) /\ w.known = v.known \cup {t} /\ SameWaits(v, w)
<1> DEFINE bare == [v EXCEPT !.parent[t] = NoTool, !.nested[t] = FALSE, !.children[t] = {}]
           w == NewToolView(v, t, m)
<1>0. /\ Nesting(v) /\ Grouping(v) /\ Drawing(v, {}) /\ Acyclic(v.parent)
  BY DEF Tree
<1>1. bare = v
  <2>1. v.parent[t] = NoTool /\ v.nested[t] = FALSE /\ v.children[t] = {}
    <3>1. ~v.nested[t] /\ v.parent[t] = NoTool
      BY <1>0 DEF Nesting
    <3>2. v.nested[t] \in BOOLEAN
      BY DEF Views
    <3>3. \A u \in Tool : u \notin v.children[t]
      BY <1>0 DEF Nesting
    <3>4. v.children[t] \subseteq Tool
      BY DEF Views
    <3> QED
      BY <3>1, <3>2, <3>3, <3>4
  <2>2. /\ [v.parent EXCEPT ![t] = NoTool] = v.parent /\ [v.nested EXCEPT ![t] = FALSE] = v.nested
        /\ [v.children EXCEPT ![t] = {}] = v.children
    BY <2>1 DEF Views
  <2>3. bare = [v EXCEPT !.parent = [v.parent EXCEPT ![t] = NoTool],
                         !.nested = [v.nested EXCEPT ![t] = FALSE],
                         !.children = [v.children EXCEPT ![t] = {}]]
    BY DEF Views
  <2> HIDE DEF bare
  <2>4. bare = [v EXCEPT !.parent = v.parent, !.nested = v.nested, !.children = v.children]
    BY <2>2, <2>3
  <2> QED
    BY <2>4 DEF Views
<1>2. t \notin Shown(v)
  BY <1>0 DEF Drawing
<1>3. CASE t \notin Grouped
  <2> DEFINE a == AddBlock(v, t, m)
             alone == [a EXCEPT !.current = NoGroup, !.currentMessage = NoMessage,
                                !.group[t] = NoGroup, !.blockOf[t] = t]
  <2>1. w = [alone EXCEPT !.known = @ \cup {t}]
    BY <1>1, <1>3 DEF NewToolView, PlaceAlone
  <2>2. /\ a \in Views /\ SamePlaces(v, a) /\ SameWaits(v, a) /\ a.current = v.current
        /\ Shown(a) = Shown(v) \cup {t} /\ a.dropped = v.dropped \ {t}
    BY AddBlockFacts DEF SamePlaces, SameWaits
  <2> HIDE DEF a, w
  <2>3. w = [a EXCEPT !.current = NoGroup, !.currentMessage = NoMessage,
                      !.group = [a.group EXCEPT ![t] = NoGroup],
                      !.blockOf = [a.blockOf EXCEPT ![t] = t],
                      !.known = a.known \cup {t}]
    BY <2>1, <2>2 DEF Views
  <2>4. /\ [a.group EXCEPT ![t] = NoGroup] \in [Tool -> MaybeGroup]
        /\ [a.blockOf EXCEPT ![t] = t] \in [Tool -> Block] /\ a.known \cup {t} \in SUBSET Tool
    BY <2>2 DEF Views, MaybeGroup
  <2>5. w \in Views
    BY <2>2, <2>3, <2>4 DEF Views, MaybeGroup
  <2>6. /\ SameWaits(a, w) /\ w.known = a.known \cup {t} /\ w.parent = a.parent
        /\ w.nested = a.nested /\ w.children = a.children /\ w.members = a.members
        /\ w.group = [a.group EXCEPT ![t] = NoGroup] /\ w.blockOf = [a.blockOf EXCEPT ![t] = t]
        /\ w.blocks = a.blocks /\ w.dropped = a.dropped /\ w.current = NoGroup
    BY <2>2, <2>3 DEF Views, SameWaits
  <2>7. Nesting(w) /\ Grouping(w) /\ Acyclic(w.parent)
    <3>1. v.group[t] = NoGroup
      BY <1>0 DEF Grouping
    <3>2. v.group = [v.group EXCEPT ![t] = NoGroup]
      BY <3>1 DEF Views
    <3>3. w.group = v.group /\ \A u \in Tool : u # t => w.blockOf[u] = v.blockOf[u]
      BY <2>2, <2>6, <3>2 DEF SamePlaces, Views
    <3>4. Nesting(w)
      BY <1>0, <2>2, <2>6 DEF SamePlaces, Nesting
    <3>5. Grouping(w)
      BY <1>0, <2>2, <2>6, <3>1, <3>3 DEF SamePlaces, Grouping
    <3> QED
      BY <1>0, <2>2, <2>6, <3>4, <3>5 DEF SamePlaces
  <2>8. Drawing(w, {})
    <3>1. \A u \in Tool : /\ w.group[u] = v.group[u]
                          /\ w.blockOf[u] = IF u = t THEN t ELSE v.blockOf[u]
      <4>1. v.group[t] = NoGroup
        BY <1>0 DEF Grouping
      <4>2. /\ w.group = [v.group EXCEPT ![t] = NoGroup]
            /\ w.blockOf = [v.blockOf EXCEPT ![t] = t]
        BY <2>2, <2>6 DEF SamePlaces
      <4>3. v.group \in [Tool -> MaybeGroup] /\ v.blockOf \in [Tool -> Block]
        BY DEF Views
      <4> QED
        BY <4>1, <4>2, <4>3
    <3>2. Shown(w) = Shown(v) \cup {t} /\ w.dropped = v.dropped \ {t}
          /\ w.known = v.known \cup {t} /\ w.nested = v.nested
      BY <2>2, <2>6 DEF Shown, SamePlaces
    <3>3. ~v.nested[t] /\ v.group[t] = NoGroup
      BY <1>0 DEF Nesting, Grouping
    <3> QED
      BY <1>0, <2>6, <3>1, <3>2, <3>3 DEF Drawing
  <2> QED
    BY <2>2, <2>5, <2>6, <2>7, <2>8 DEF Tree, SamePlaces, SameWaits, w
<1>4. CASE t \in Grouped
  <2> DEFINE fresh == Min(UnusedGroups(v))
             a == AddBlock(v, fresh, m)
             open == IF OpensGroup(v, m) THEN [a EXCEPT !.current = fresh, !.currentMessage = m] ELSE v
             g == open.current
             grouped == [open EXCEPT !.members[g] = @ \cup {t}, !.group[t] = g, !.blockOf[t] = g]
  <2>1. w = [grouped EXCEPT !.known = @ \cup {t}]
    <3>1. w = [PlaceInGroup(bare, t, m) EXCEPT !.known = @ \cup {t}]
      BY <1>4 DEF NewToolView
    <3>2. PlaceInGroup(v, t, m) = grouped
      BY DEF PlaceInGroup
    <3> HIDE DEF w, grouped, bare
    <3> QED
      BY <1>1, <3>1, <3>2
  <2>2. fresh \in ToolGroup
    <3>1. UnusedGroups(v) \subseteq Nat /\ UnusedGroups(v) # {} /\ UnusedGroups(v) \subseteq ToolGroup
      BY <1>4 DEF UnusedGroups
    <3>2. \E x \in UnusedGroups(v) : \A y \in UnusedGroups(v) : x <= y
      BY <3>1, Least
    <3>3. Min(UnusedGroups(v)) \in UnusedGroups(v)
      BY <3>2 DEF Min
    <3> QED
      BY <3>1, <3>3
  <2>3. /\ a \in Views /\ SamePlaces(v, a) /\ SameWaits(v, a) /\ a.current = v.current
        /\ Shown(a) = Shown(v) \cup {fresh} /\ a.dropped = v.dropped \ {fresh}
    BY <2>2, AddBlockFacts DEF SamePlaces, SameWaits
  <2> HIDE DEF a, fresh, w
  <2>4. /\ open \in Views /\ SamePlaces(v, open) /\ SameWaits(v, open) /\ g \in ToolGroup
        /\ t \notin Shown(open) /\ Tree(open, {}) /\ g \in Shown(open) \cup open.dropped
    <3>1. CASE ~OpensGroup(v, m)
      <4>1. open = v /\ g # NoGroup
        BY <3>1 DEF OpensGroup
      <4>2. g \in Shown(v) \cup v.dropped /\ g \in ToolGroup
        BY <1>0, <4>1 DEF Drawing, Views, MaybeGroup
      <4> QED
        BY <1>2, <4>1, <4>2 DEF SamePlaces, SameWaits
    <3>2. CASE OpensGroup(v, m)
      <4>1. open = [a EXCEPT !.current = fresh, !.currentMessage = m]
        BY <3>2
      <4> HIDE DEF open
      <4>2. open \in Views
        BY <2>2, <2>3, <4>1 DEF Views, MaybeGroup
      <4>3. /\ SamePlaces(a, open) /\ SameWaits(a, open) /\ open.current = fresh
            /\ open.blocks = a.blocks /\ open.dropped = a.dropped
        BY <2>3, <4>1 DEF Views, SamePlaces, SameWaits
      <4>4. SamePlaces(v, open) /\ SameWaits(v, open)
        BY <2>3, <4>3 DEF SamePlaces, SameWaits
      <4>5. Shown(open) = Shown(v) \cup {fresh} /\ open.dropped = v.dropped \ {fresh}
        BY <2>3, <4>3 DEF Shown
      <4>6. t \notin Shown(open) /\ fresh \notin Tool
        BY <1>2, <2>2, <4>5
      <4>7. Tree(open, {})
        <5>1. Nesting(open) /\ Grouping(open) /\ Acyclic(open.parent)
          BY <1>0, <4>4 DEF SamePlaces, Nesting, Grouping
        <5>2. Drawing(open, {})
          BY <1>0, <4>3, <4>4, <4>5, <4>6 DEF SamePlaces, Drawing
        <5> QED
          BY <5>1, <5>2 DEF Tree
      <4> QED
        BY <2>2, <4>2, <4>3, <4>4, <4>5, <4>6, <4>7
    <3> QED
      BY <3>1, <3>2
  <2> HIDE DEF open, g
  <2>5. w = [open EXCEPT !.members = [open.members EXCEPT ![g] = @ \cup {t}],
                         !.group = [open.group EXCEPT ![t] = g],
                         !.blockOf = [open.blockOf EXCEPT ![t] = g],
                         !.known = open.known \cup {t}]
    BY <2>1, <2>4 DEF Views
  <2>6. /\ [open.group EXCEPT ![t] = g] \in [Tool -> MaybeGroup]
        /\ [open.blockOf EXCEPT ![t] = g] \in [Tool -> Block]
    BY <2>4 DEF Views, MaybeGroup
  <2>7. /\ [open.members EXCEPT ![g] = @ \cup {t}] \in [ToolGroup -> SUBSET Tool]
        /\ open.known \cup {t} \in SUBSET Tool
    BY <2>4 DEF Views
  <2>8. w \in Views
    BY <2>4, <2>5, <2>6, <2>7 DEF Views
  <2>9. /\ SameWaits(open, w) /\ w.known = open.known \cup {t} /\ w.parent = open.parent
        /\ w.nested = open.nested /\ w.children = open.children
        /\ w.members = [open.members EXCEPT ![g] = @ \cup {t}]
        /\ w.group = [open.group EXCEPT ![t] = g] /\ w.blockOf = [open.blockOf EXCEPT ![t] = g]
        /\ w.blocks = open.blocks /\ w.dropped = open.dropped /\ w.current = open.current
    BY <2>4, <2>5 DEF Views, SameWaits
  <2>10. Tree(w, {})
    <3>1. t \notin open.known
      BY <2>4 DEF SamePlaces
    <3>2. w.current = g /\ Shown(w) = Shown(open) /\ w.members = [open.members EXCEPT ![g] = open.members[g] \cup {t}]
      BY <2>9 DEF Shown, g
    <3>3. Joins(open, w, t, g)
      BY <2>9, <3>2 DEF Joins
    <3> QED
      BY <2>4, <3>1, <3>3, PlaceFacts
  <2> QED
    BY <2>4, <2>8, <2>9, <2>10 DEF SamePlaces, SameWaits, w
<1> QED
  BY <1>3, <1>4

\* What an event finds and leaves.
Sound(v) == v \in Views /\ Tree(v, {}) /\ Waits(v)

\* A record that differs in what no tool's place depends on.
LEMMA SameTreeSound ==
  ASSUME NEW v, Sound(v), NEW w \in Views, SameTree(v, w), w.waiting = v.waiting
  PROVE  Sound(w)
BY SameTreeKeeps DEF Sound, SameTree, SamePlaces, Waits

\* An event about a tool relates it to a parent and a child.
LEMMA UpdateToolViewFacts ==
  ASSUME NEW v, Sound(v), NEW t \in v.known, NEW p \in MaybeTool, NEW c \in MaybeTool
  PROVE  LET w == UpdateToolView(v, t, p, c) IN Sound(w) /\ w.known = v.known
<1> DEFINE under == SetToolParent(v, t, p)
<1>1. Sound(under) /\ under.known = v.known
  BY SetToolParentFacts, SetToolParentWaits DEF Sound
<1>2. UpdateToolView(v, t, p, c) =
        IF c = NoTool THEN under
        ELSE IF c \in under.known THEN SetToolParent(under, c, t)
        ELSE [under EXCEPT !.waiting[c] = t]
  BY DEF UpdateToolView
<1> HIDE DEF under
<1>3. t \in Tool /\ t \in under.known
  BY <1>1 DEF Sound, Views
<1>4. CASE c = NoTool
  BY <1>1, <1>2, <1>4
<1>5. CASE c # NoTool /\ c \in under.known
  BY <1>1, <1>2, <1>3, <1>5, SetToolParentFacts, SetToolParentWaits DEF Sound
<1>6. CASE c # NoTool /\ c \notin under.known
  <2> DEFINE w == [under EXCEPT !.waiting[c] = t]
  <2>1. UpdateToolView(v, t, p, c) = w
    BY <1>2, <1>6
  <2>2. /\ w \in Views /\ SameTree(under, w) /\ w.waiting = [under.waiting EXCEPT ![c] = t]
    BY <1>1, <1>3, <1>6, WaitFacts DEF Sound
  <2> HIDE DEF w
  <2>3. w.known = under.known
    BY <2>2 DEF SameTree, SamePlaces
  <2>4. Tree(w, {})
    BY <1>1, <2>2, SameTreeKeeps DEF Sound
  <2>5. \A u \in Tool : w.waiting[u] = IF u = c THEN t ELSE under.waiting[u]
    BY <1>1, <1>6, <2>2 DEF Sound, Views
  <2>6. Waits(w)
    BY <1>1, <1>3, <1>6, <2>3, <2>5 DEF Sound, Waits
  <2> QED
    BY <1>1, <2>1, <2>2, <2>3, <2>4, <2>6 DEF Sound
<1> QED
  BY <1>4, <1>5, <1>6

\* The message of a part is kept beside it.
LEMMA KeepPartFacts ==
  ASSUME NEW v \in Views, NEW t \in Tool, NEW m \in MaybeMessage
  PROVE  LET w == KeepPart(v, t, m)
         IN  /\ w \in Views /\ SameTree(v, w)
             /\ w.waiting = v.waiting /\ w.progress = v.progress
<1> DEFINE w == KeepPart(v, t, m)
<1>1. w = [v EXCEPT !.partMessage = [v.partMessage EXCEPT ![t] = IF m = NoMessage THEN @ ELSE m]]
  BY DEF KeepPart, Views
<1>2. [v.partMessage EXCEPT ![t] = IF m = NoMessage THEN @ ELSE m] \in [Tool -> MaybeMessage]
  BY DEF Views
<1> HIDE DEF w
<1>3. w \in Views
  BY <1>1, <1>2 DEF Views
<1>4. /\ SamePlaces(v, w) /\ w.current = v.current /\ w.blocks = v.blocks
      /\ w.dropped = v.dropped /\ w.waiting = v.waiting /\ w.progress = v.progress
  BY <1>1 DEF Views, SamePlaces
<1> QED
  BY <1>3, <1>4 DEF SameTree, Shown, w

\* Any event that finds or makes a view leaves a tree with the tool in it.
LEMMA EnsureToolViewFacts ==
  ASSUME NEW v, Sound(v), NEW t \in Tool, NEW m \in MaybeMessage,
         t \in v.known \/ t \notin Grouped \/ UnusedGroups(v) # {}
  PROVE  LET w == EnsureToolView(v, t, m) IN Sound(w) /\ t \in w.known
<1>0. v \in Views /\ Tree(v, {}) /\ Waits(v)
  BY DEF Sound
<1>1. CASE t \in v.known
  <2> DEFINE k == KeepPart(v, t, m)
             a == AssociateBlock(k, v.blockOf[t], m)
             w == AttachPendingToolRelationships(a, t)
  <2>1. EnsureToolView(v, t, m) = w
    BY <1>1 DEF EnsureToolView
  <2>2. k \in Views /\ SameTree(v, k) /\ k.waiting = v.waiting
    BY <1>0, KeepPartFacts
  <2> HIDE DEF k
  <2>3. /\ a \in Views /\ SamePlaces(k, a) /\ SameWaits(k, a)
        /\ a.current = k.current /\ Shown(a) = Shown(k) /\ a.dropped = k.dropped
    BY <2>2, AssociateBlockFacts
  <2> HIDE DEF a
  <2>4. SameTree(k, a) /\ a.waiting = k.waiting
    BY <2>3 DEF SameTree, SameWaits
  <2>5. Sound(k)
    BY <2>2, SameTreeSound
  <2>6. Sound(a) /\ t \in a.known
    <3>1. Sound(a)
      BY <2>3, <2>4, <2>5, SameTreeSound
    <3> QED
      BY <1>1, <2>2, <2>3, <3>1 DEF SameTree, SamePlaces
  <2>7. \A u \in Tool : /\ a.waiting[u] # u
                        /\ u \in a.known /\ u # t => a.waiting[u] \notin a.known \ {t}
    BY <2>6 DEF Sound, Waits
  <2>8. w \in Views /\ Tree(w, {}) /\ Waits(w) /\ w.known = a.known
    BY <2>6, <2>7, AttachPendingFacts DEF Sound
  <2> QED
    BY <2>1, <2>6, <2>8 DEF Sound
<1>2. CASE t \notin v.known
  <2> DEFINE n == NewToolView(v, t, m)
             k == KeepPart(n, t, m)
             made == AttachPendingToolRelationships(k, t)
             again == [made EXCEPT !.progress[t] = NoTool]
  <2>1. EnsureToolView(v, t, m) = IF made.progress[t] = NoTool THEN made
                                  ELSE UpdateToolView(again, t, NoTool, made.progress[t])
    BY <1>2 DEF EnsureToolView
  <2>2. n \in Views /\ Tree(n, {}) /\ n.known = v.known \cup {t} /\ SameWaits(v, n)
    BY <1>0, <1>2, NewToolViewFacts
  <2> HIDE DEF n
  <2>3. k \in Views /\ SameTree(n, k) /\ k.waiting = n.waiting
    BY <2>2, KeepPartFacts
  <2> HIDE DEF k
  <2>4. Tree(k, {}) /\ k.known = v.known \cup {t} /\ k.waiting = v.waiting
    BY <2>2, <2>3, SameTreeKeeps DEF SameTree, SamePlaces, SameWaits
  <2>5. \A u \in Tool : /\ k.waiting[u] # u
                        /\ u \in k.known /\ u # t => k.waiting[u] \notin k.known \ {t}
    BY <1>0, <2>4 DEF Waits
  <2>6. made \in Views /\ Tree(made, {}) /\ Waits(made) /\ made.known = k.known
    BY <2>3, <2>4, <2>5, AttachPendingFacts
  <2> HIDE DEF made
  <2>7. again \in Views /\ SameTree(made, again) /\ again.waiting = made.waiting
    <3>1. again \in Views
      BY <2>6 DEF Views
    <3>2. /\ SamePlaces(made, again) /\ again.current = made.current /\ again.blocks = made.blocks
          /\ again.dropped = made.dropped /\ again.waiting = made.waiting
      BY <2>6 DEF Views, SamePlaces
    <3> QED
      BY <3>1, <3>2 DEF SameTree, Shown
  <2> HIDE DEF again
  <2>8. Sound(made) /\ Sound(again) /\ again.known = k.known /\ t \in k.known
    <3>1. Sound(made)
      BY <2>6 DEF Sound
    <3>2. Sound(again)
      BY <2>7, <3>1, SameTreeSound
    <3> QED
      BY <2>4, <2>6, <2>7, <3>1, <3>2 DEF SameTree, SamePlaces
  <2>9. made.progress[t] \in MaybeTool /\ NoTool \in MaybeTool
    BY <2>6 DEF Views
  <2>10. LET w == UpdateToolView(again, t, NoTool, made.progress[t])
         IN  Sound(w) /\ w.known = again.known
    BY <2>8, <2>9, UpdateToolViewFacts
  <2> QED
    BY <2>1, <2>6, <2>8, <2>10
<1> QED
  BY <1>1, <1>2

-----------------------------------------------------------------------------
(* Where lineages end. *)

\* The lineage of a tool is the tool and the lineage of its parent.
LEMMA LineageSteps ==
  ASSUME NEW v \in Views, Nesting(v), NEW t \in Tool
  PROVE  /\ v.parent[t] \in v.known => Lineage(v, t) \subseteq {t} \cup Lineage(v, v.parent[t])
         /\ v.parent[t] \notin v.known => Lineage(v, t) = {t}
<1>1. ASSUME v.parent[t] \in v.known
      PROVE  Lineage(v, t) \subseteq {t} \cup Lineage(v, v.parent[t])
  <2> DEFINE p == v.parent[t]
             S == {t} \cup Lineage(v, p)
  <2>1. p \in Tool /\ p \in v.known
    BY <1>1 DEF Views
  <2>2. p \in Lineage(v, p) /\ Closed(v, Lineage(v, p))
    BY <2>1, LineageFacts
  <2>3. Closed(v, S)
    BY <2>1, <2>2 DEF Closed, Parents
  <2>4. t \in S
    OBVIOUS
  <2> HIDE DEF S
  <2>5. Lineage(v, t) \subseteq S
    BY <2>3, <2>4, LineageFacts
  <2> QED
    BY <2>5 DEF S
<1>2. ASSUME v.parent[t] \notin v.known PROVE Lineage(v, t) = {t}
  <2>1. Closed(v, {t})
    BY <1>2 DEF Closed, Parents
  <2>2. t \in {t}
    OBVIOUS
  <2>3. Lineage(v, t) \subseteq {t} /\ t \in Lineage(v, t)
    BY <2>1, <2>2, LineageFacts
  <2> QED
    BY <2>3
<1> QED
  BY <1>1, <1>2

\* What is in the lineage of a tool of a lineage is in that lineage.
LEMMA LineageGrows ==
  ASSUME NEW v \in Views, NEW t \in Tool, NEW q \in Lineage(v, t)
  PROVE  q \in Tool /\ Lineage(v, q) \subseteq Lineage(v, t)
<1>1. Lineage(v, t) \in SUBSET Tool /\ Closed(v, Lineage(v, t))
  BY LineageFacts
<1>2. q \in Tool
  BY <1>1
<1> QED
  BY <1>1, <1>2, LineageFacts

\* In a tree every lineage ends, at a tool without a parent, and goes through
\* no tool twice.
LEMMA LineagesEnd ==
  ASSUME NEW v \in Views, Tree(v, {}), NEW t \in v.known
  PROVE  /\ Lineage(v, t) \subseteq v.known
         /\ \E q \in Lineage(v, t) : v.parent[q] = NoTool
         /\ \A q \in Lineage(v, t) : q # t => t \notin Lineage(v, q)
<1>0. t \in Tool /\ Nesting(v) /\ Acyclic(v.parent) /\ v.known \subseteq Tool
  BY DEF Views, Tree
<1>1. Lineage(v, t) \in SUBSET Tool /\ t \in Lineage(v, t) /\ Closed(v, Lineage(v, t))
  BY <1>0, LineageFacts
<1>2. Lineage(v, t) \subseteq v.known
  <2>1. Closed(v, v.known)
    BY DEF Closed, Parents
  <2> QED
    BY <1>0, <2>1, LineageFacts
<1>3. \E q \in Lineage(v, t) : v.parent[q] = NoTool
  <2>1. PICK q \in Lineage(v, t) : v.parent[q] \notin Lineage(v, t)
    BY <1>0, <1>1 DEF Acyclic
  <2>2. v.parent[q] \notin v.known
    BY <1>1, <2>1 DEF Closed, Parents
  <2> QED
    BY <1>0, <1>1, <2>1, <2>2 DEF Nesting
<1>4. ASSUME NEW q \in Lineage(v, t), q # t, t \in Lineage(v, q) PROVE FALSE
  <2> DEFINE S == {x \in Lineage(v, t) : t \in Lineage(v, x)}
  <2>1. S \in SUBSET Tool /\ t \in S /\ q \in S
    BY <1>1, <1>4
  <2>2. PICK x \in S : v.parent[x] \notin S
    BY <1>0, <2>1 DEF Acyclic
  <2>3. x \in Tool /\ x \in Lineage(v, t) /\ t \in Lineage(v, x)
    BY <1>1, <2>2
  <2> DEFINE y == v.parent[x]
  <2>4. y \in v.known /\ t \in Lineage(v, y)
    <3>1. CASE x # t
      <4>1. y \in v.known
        BY <1>0, <2>3, <3>1, LineageSteps
      <4> QED
        BY <1>0, <2>3, <3>1, <4>1, LineageSteps
    <3>2. CASE x = t
      <4>1. y \in v.known
        BY <1>0, <1>4, <2>3, <3>2, LineageSteps
      <4>2. q \in Lineage(v, y)
        BY <1>0, <1>4, <2>3, <3>2, <4>1, LineageSteps
      <4>3. y \in Tool
        BY <1>0, <4>1
      <4> HIDE DEF y
      <4> QED
        BY <1>4, <4>1, <4>2, <4>3, LineageGrows
    <3> QED
      BY <3>1, <3>2
  <2>5. y \in Lineage(v, t)
    BY <1>1, <2>3, <2>4 DEF Closed, Parents
  <2> QED
    BY <2>2, <2>4, <2>5
<1> QED
  BY <1>2, <1>3, <1>4

-----------------------------------------------------------------------------
(* The events. *)

\* A turn starts without tools.
LEMMA EmptySound == Sound(EmptyViews)
<1> DEFINE v == EmptyViews
<1>1. v.blocks \in Tags /\ Shown(v) = {}
  <2>1. [b \in {} |-> NoMessage] \in [{} -> MaybeMessage] /\ {} \in SUBSET Block
    OBVIOUS
  <2> QED
    BY <2>1 DEF Tags, EmptyViews, Shown
<1>2. v \in Views
  BY <1>1 DEF EmptyViews, Views, MaybeGroup
<1>3. Nesting(v) /\ Grouping(v)
  BY DEF EmptyViews, Nesting, Grouping
<1>4. Drawing(v, {})
  BY <1>1 DEF EmptyViews, Drawing
<1>5. Acyclic(v.parent)
  BY DEF EmptyViews, Acyclic
<1>6. Waits(v)
  BY DEF EmptyViews, Waits
<1> QED
  BY <1>2, <1>3, <1>4, <1>5, <1>6 DEF Sound, Tree

\* The topmost ancestor of a known tool is a known tool without a parent.
LEMMA TopFacts ==
  ASSUME NEW v \in Views, Tree(v, {}), NEW t \in v.known
  PROVE  TopOf(v, t) \in v.known /\ TopOf(v, t) \in Tool /\ v.parent[TopOf(v, t)] = NoTool
<1>1. /\ Lineage(v, t) \subseteq v.known
      /\ \E q \in Lineage(v, t) : v.parent[q] = NoTool
  BY LineagesEnd
<1>2. TopOf(v, t) \in Lineage(v, t) /\ v.parent[TopOf(v, t)] = NoTool
  BY <1>1 DEF TopOf
<1> QED
  BY <1>1, <1>2 DEF Views

\* Hiding the block of a tool that works in the background moves no tool.
LEMMA SuppressedFacts ==
  ASSUME Sound(views), NEW t \in Tool, ToolSuppressed(t)
  PROVE  Sound(views')
<1>0. views \in Views /\ Tree(views, {}) /\ Waits(views) /\ t \in views.known
  BY DEF Sound, ToolSuppressed
<1> DEFINE block == views.blockOf[TopOf(views, t)]
           bare == RemoveBlocks(views, {block})
           w == [bare EXCEPT !.dropped = @ \cup {block}]
<1>1. views' = w
  BY DEF ToolSuppressed
<1>2. block \in Block
  BY <1>0, TopFacts DEF Views
<1>3. /\ bare \in Views /\ SamePlaces(views, bare) /\ SameWaits(views, bare)
      /\ bare.current = views.current /\ Shown(bare) = Shown(views) \ {block}
      /\ bare.dropped = views.dropped \ {block}
  BY <1>0, RemoveBlocksFacts
<1> HIDE DEF bare, block
<1>4. w \in Views
  BY <1>2, <1>3 DEF Views
<1>5. /\ SamePlaces(bare, w) /\ SameWaits(bare, w) /\ w.current = bare.current
      /\ w.blocks = bare.blocks /\ w.dropped = bare.dropped \cup {block}
  BY <1>3 DEF Views, SamePlaces, SameWaits
<1> HIDE DEF w
<1>6. Tree(w, {})
  <2>1. Shown(w) = Shown(views) \ {block} /\ w.dropped = views.dropped \cup {block}
        /\ SamePlaces(views, w) /\ w.current = views.current
    BY <1>3, <1>5 DEF Shown, SamePlaces
  <2> QED
    BY <1>0, <2>1 DEF Tree, Nesting, Grouping, Drawing, SamePlaces
<1>7. Waits(w)
  BY <1>0, <1>3, <1>5 DEF Waits, SamePlaces, SameWaits
<1> QED
  BY <1>1, <1>4, <1>6, <1>7 DEF Sound

\* Every event leaves the tools a tree.
LEMMA ToolTreeStep ==
  ASSUME Sound(views), [ToolTreeNext]_views
  PROVE  Sound(views')
<1>0. views \in Views /\ Tree(views, {}) /\ Waits(views)
  BY DEF Sound
<1>1. ASSUME NEW t \in Tool, NEW m \in MaybeMessage, NEW p \in MaybeTool \ {t},
             NEW c \in MaybeTool \ {t}, ToolReported(t, m, p, c)
      PROVE  Sound(views')
  <2> DEFINE v == EnsureToolView(views, t, m)
  <2>1. t \in views.known \/ t \notin Grouped \/ UnusedGroups(views) # {}
    BY <1>1 DEF ToolReported
  <2>2. Sound(v) /\ t \in v.known
    BY <2>1, EnsureToolViewFacts
  <2>3. views' = UpdateToolView(v, t, p, c)
    BY <1>1 DEF ToolReported
  <2> HIDE DEF v
  <2> QED
    BY <2>2, <2>3, UpdateToolViewFacts
<1>2. ASSUME NEW p \in Tool, NEW c \in Tool, SubagentReported(p, c)
      PROVE  Sound(views')
  <2>1. CASE p \in views.known
    <3>1. views' = UpdateToolView(views, p, NoTool, c)
      BY <1>2, <2>1 DEF SubagentReported
    <3>2. NoTool \in MaybeTool /\ c \in MaybeTool
      OBVIOUS
    <3> QED
      BY <2>1, <3>1, <3>2, UpdateToolViewFacts
  <2>2. CASE p \notin views.known
    <3> DEFINE w == [views EXCEPT !.progress[p] = c]
    <3>1. views' = w
      BY <1>2, <2>2 DEF SubagentReported
    <3>2. w \in Views
      BY <1>0 DEF Views
    <3>3. /\ SamePlaces(views, w) /\ w.current = views.current /\ w.blocks = views.blocks
          /\ w.dropped = views.dropped /\ w.waiting = views.waiting
      BY <1>0 DEF Views, SamePlaces
    <3> HIDE DEF w
    <3>4. SameTree(views, w)
      BY <3>3 DEF SameTree, Shown
    <3> QED
      BY <3>1, <3>2, <3>3, <3>4, SameTreeSound
  <2> QED
    BY <2>1, <2>2
<1>3. ASSUME GroupBroken PROVE Sound(views')
  <2> DEFINE w == [views EXCEPT !.current = NoGroup, !.currentMessage = NoMessage]
  <2>1. views' = w
    BY <1>3 DEF GroupBroken
  <2>2. w \in Views
    BY <1>0 DEF Views, MaybeGroup
  <2>3. /\ SamePlaces(views, w) /\ w.current = NoGroup /\ w.blocks = views.blocks
        /\ w.dropped = views.dropped /\ w.waiting = views.waiting
    BY <1>0 DEF Views, SamePlaces
  <2> HIDE DEF w
  <2>4. Tree(w, {}) /\ Waits(w)
    BY <1>0, <2>3 DEF Tree, Nesting, Grouping, Drawing, SamePlaces, Shown, Waits
  <2> QED
    BY <2>1, <2>2, <2>4 DEF Sound
<1>4. ASSUME NEW t \in Tool, PartRemoved(t) PROVE Sound(views')
  BY <1>0, <1>4, RemovePartFacts DEF PartRemoved, Sound
<1>5. ASSUME NEW m \in Message, MessageRemoved(m) PROVE Sound(views')
  BY <1>0, <1>5, RemoveMessageFacts DEF MessageRemoved, Sound
<1>6. ASSUME TurnBegins PROVE Sound(views')
  BY <1>6, EmptySound DEF TurnBegins
<1>7. ASSUME NEW t \in Tool, ToolSuppressed(t) PROVE Sound(views')
  BY <1>7, SuppressedFacts
<1>8. ASSUME UNCHANGED views PROVE Sound(views')
  BY <1>8
<1> QED
  BY <1>1, <1>2, <1>3, <1>4, <1>5, <1>6, <1>7, <1>8 DEF ToolTreeNext

-----------------------------------------------------------------------------
(* What the reader sees. *)

\* The tools of a turn stay one tree on the screen.
THEOREM ToolsStayATree == ToolTreeSpec => []ToolsFormATree
<1>1. ToolTreeInit => Sound(views)
  BY EmptySound DEF ToolTreeInit
<1>2. Sound(views) /\ [ToolTreeNext]_views => Sound(views)'
  BY ToolTreeStep
<1>3. Sound(views) => ToolsFormATree
  <2> SUFFICES ASSUME Sound(views) PROVE ToolsFormATree
    OBVIOUS
  <2>1. /\ views \in Views /\ Tree(views, {}) /\ Waits(views) /\ views.known \subseteq Tool
        /\ Nesting(views) /\ Grouping(views) /\ Drawing(views, {})
    BY DEF Sound, Views, Tree
  <2>2. OnePlace
    <3> SUFFICES ASSUME NEW t \in views.known
                 PROVE  /\ Trees(t) = (IF views.nested[t] THEN {views.parent[t]} ELSE {})
                        /\ Groups(t) = (IF views.group[t] # NoGroup THEN {views.group[t]} ELSE {})
                        /\ views.nested[t] => views.group[t] = NoGroup
                        /\ t \in Shown(views) => ~views.nested[t] /\ views.group[t] = NoGroup
      BY DEF OnePlace
    <3>1. t \in Tool
      BY <2>1
    <3>2. Trees(t) = (IF views.nested[t] THEN {views.parent[t]} ELSE {})
      BY <2>1, <3>1 DEF Trees, Nesting
    <3>3. Groups(t) = (IF views.group[t] # NoGroup THEN {views.group[t]} ELSE {})
      <4>1. views.group[t] \in MaybeGroup
        BY <2>1, <3>1 DEF Views
      <4> QED
        BY <2>1, <3>1, <4>1 DEF Groups, Grouping, MaybeGroup
    <3>4. views.nested[t] => views.group[t] = NoGroup
      BY <2>1, <3>1 DEF Grouping
    <3>5. t \in Shown(views) => ~views.nested[t] /\ views.group[t] = NoGroup
      BY <2>1, <3>1 DEF Drawing
    <3> QED
      BY <3>2, <3>3, <3>4, <3>5
  <2>3. NoCycles
    BY <2>1, LineagesEnd DEF NoCycles
  <2>4. ReachesTheScreen
    <3> SUFFICES ASSUME NEW t \in views.known
                 PROVE  /\ views.parent[t] # NoTool => views.parent[t] \in views.known
                        /\ views.blockOf[Top(t)] \in Shown(views) \cup views.dropped
      BY DEF ReachesTheScreen
    <3>1. Top(t) \in views.known /\ Top(t) \in Tool /\ views.parent[Top(t)] = NoTool
      BY <2>1, TopFacts DEF Top
    <3> QED
      BY <2>1, <3>1 DEF Nesting, Drawing
  <2>5. NobodyWaitsInVain
    BY <2>1 DEF NobodyWaitsInVain, Waits
  <2> QED
    BY <2>2, <2>3, <2>4, <2>5 DEF ToolsFormATree
<1> QED
  BY <1>1, <1>2, <1>3, PTL DEF ToolTreeSpec
=============================================================================
