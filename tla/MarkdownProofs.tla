--------------------------- MODULE MarkdownProofs ---------------------------
(***************************************************************************)
(* That an answer drawn piece by piece is on the screen as it would be     *)
(* drawn as a whole: for every text, every history of appended and         *)
(* replaced text, every sequence of widths and every set of classes whose  *)
(* pieces do not add up to the whole.                                      *)
(***************************************************************************)
EXTENDS MarkdownView, TLAPS, FiniteSetTheorems, SequenceTheorems, WellFoundedInduction

-----------------------------------------------------------------------------
(* Induction, and recursive functions on texts. *)

\* Every set of numbers that is not empty has a least one.
LEMMA LeastOne ==
  ASSUME NEW T, T \subseteq Nat, T # {}
  PROVE  \E m \in T : \A n \in T : m <= n
<1>1. IsWellFoundedOn(OpToRel(<, Nat), Nat)
  BY NatLessThanWellFounded
<1>2. PICK m \in T : \A n \in T : ~(<<n, m>> \in OpToRel(<, Nat))
  BY <1>1, WFMin
<1>3. ASSUME NEW n \in T PROVE m <= n
  <2>1. n \in Nat /\ m \in Nat
    OBVIOUS
  <2>2. n < m => <<n, m>> \in OpToRel(<, Nat)
    BY <2>1 DEF OpToRel
  <2>3. ~(n < m)
    BY <1>2, <2>2, Zenon
  <2> QED
    BY <2>1, <2>3
<1> QED
  BY <1>3

\* And so has a set of numbers up to some n a greatest one.
LEMMA GreatestOne ==
  ASSUME NEW n \in Nat, NEW T, T \subseteq 1..n, T # {}
  PROVE  \E m \in T : \A k \in T : k <= m
<1> DEFINE D == {n - k : k \in T}
<1>1. D \subseteq Nat /\ D # {}
  <2>1. \A k \in T : n - k \in Nat
    OBVIOUS
  <2>2. PICK k \in T : TRUE
    OBVIOUS
  <2>3. n - k \in D
    OBVIOUS
  <2> QED
    BY <2>1, <2>3
<1>2. PICK d \in D : \A e \in D : d <= e
  <2> HIDE DEF D
  <2> QED
    BY <1>1, LeastOne
<1>3. PICK m \in T : d = n - m
  BY <1>2
<1>4. ASSUME NEW k \in T PROVE k <= m
  <2>1. n - k \in D
    OBVIOUS
  <2>2. d <= n - k
    BY <1>2, <2>1
  <2> QED
    BY <1>3, <2>2
<1> QED
  BY <1>4

\* The three functions that follow a text line by line: the fence it is in, its
\* blocks and its segments.
StartOf(kind) ==
  IF kind = "fence" THEN "none"
  ELSE IF kind = "cut" THEN [start |-> 1, done |-> <<>>]
  ELSE [start |-> 1, opened |-> 0, done |-> <<>>]

\* What such a function is after line i.
LineOf(kind, t, before, i) ==
  IF kind = "fence" THEN FenceStep(before, t[i])
  ELSE IF kind = "cut" THEN CutAt(t, before, i)
  ELSE CloseAt(t, before, i)

\* f is the one of that kind, for the first n lines.
Follows(f, kind, t, n) ==
  f = [i \in 0..n |-> IF i = 0 THEN StartOf(kind) ELSE LineOf(kind, t, f[i - 1], i)]

\* There is such a function.
LEMMA FollowsExists ==
  ASSUME NEW kind, NEW t, NEW n \in Nat
  PROVE  \E f : Follows(f, kind, t, n)
<1> DEFINE T == {k \in Nat : ~\E f : Follows(f, kind, t, k)}
<1>1. ASSUME T # {} PROVE FALSE
  <2>1. PICK m \in T : \A k \in T : m <= k
    <3>1. T \subseteq Nat
      OBVIOUS
    <3> HIDE DEF T
    <3> QED
      BY <1>1, <3>1, LeastOne
  <2>2. m # 0
    <3> DEFINE f == [i \in 0..0 |-> StartOf(kind)]
    <3>1. f = [i \in 0..0 |-> IF i = 0 THEN StartOf(kind) ELSE LineOf(kind, t, f[i - 1], i)]
      OBVIOUS
    <3>2. Follows(f, kind, t, 0)
      BY <3>1 DEF Follows
    <3> HIDE DEF f
    <3> QED
      BY <3>2
  <2>3. m - 1 \in Nat /\ ~(m <= m - 1) /\ m \in Nat
    BY <2>2
  <2>4. PICK f : Follows(f, kind, t, m - 1)
    BY <2>1, <2>3
  <2> DEFINE g == [i \in 0..m |-> IF i = m THEN LineOf(kind, t, f[m - 1], m) ELSE f[i]]
  <2>5. ASSUME NEW i \in 0..m
        PROVE  g[i] = IF i = 0 THEN StartOf(kind) ELSE LineOf(kind, t, g[i - 1], i)
    <3>1. CASE i = m
      <4>1. g[i - 1] = f[m - 1]
        BY <2>3, <3>1
      <4> QED
        BY <2>2, <3>1, <4>1
    <3>2. CASE i # m
      <4>1. i \in 0..(m - 1)
        BY <2>3, <3>2
      <4>2. f[i] = IF i = 0 THEN StartOf(kind) ELSE LineOf(kind, t, f[i - 1], i)
        BY <2>4, <4>1 DEF Follows
      <4>3. g[i] = f[i] /\ (i # 0 => g[i - 1] = f[i - 1])
        BY <2>3, <3>2, <4>1
      <4> HIDE DEF g
      <4> QED
        BY <4>2, <4>3
    <3> QED
      BY <3>1, <3>2
  <2>6. Follows(g, kind, t, m)
    BY <2>5 DEF Follows
  <2> HIDE DEF g
  <2> QED
    BY <2>1, <2>6
<1> QED
  BY <1>1

\* What each of the three is after no line, and after a line.
LEMMA FenceFollows ==
  ASSUME NEW t, Len(t) \in Nat
  PROVE  /\ FenceAfter(t)[0] = "none"
         /\ \A i \in 1..Len(t) : FenceAfter(t)[i] = FenceStep(FenceAfter(t)[i - 1], t[i])
<1> DEFINE Is(g) == g = [i \in 0..Len(t) |-> IF i = 0 THEN "none" ELSE FenceStep(g[i - 1], t[i])]
           f == CHOOSE g : Is(g)
<1>1. FenceAfter(t) = f
  BY DEF FenceAfter
<1>2. \A g : Follows(g, "fence", t, Len(t)) <=> Is(g)
  BY DEF Follows, StartOf, LineOf
<1>3. \E g : Follows(g, "fence", t, Len(t))
  BY FollowsExists
<1> HIDE DEF Is
<1>4. Is(f)
  BY <1>2, <1>3
<1> HIDE DEF f
<1>5. f = [i \in 0..Len(t) |-> IF i = 0 THEN "none" ELSE FenceStep(f[i - 1], t[i])]
  BY <1>4 DEF Is
<1>6. \A i \in 0..Len(t) : f[i] = IF i = 0 THEN "none" ELSE FenceStep(f[i - 1], t[i])
  BY <1>5
<1> QED
  BY <1>1, <1>6

\* The same of the blocks.
LEMMA CutFollows ==
  ASSUME NEW t, Len(t) \in Nat
  PROVE  /\ CutUpTo(t)[0] = [start |-> 1, done |-> <<>>]
         /\ \A i \in 1..Len(t) : CutUpTo(t)[i] = CutAt(t, CutUpTo(t)[i - 1], i)
<1> DEFINE Is(g) == g = [i \in 0..Len(t) |-> IF i = 0 THEN [start |-> 1, done |-> <<>>]
                                             ELSE CutAt(t, g[i - 1], i)]
           f == CHOOSE g : Is(g)
<1>1. CutUpTo(t) = f
  BY DEF CutUpTo
<1>2. \A g : Follows(g, "cut", t, Len(t)) <=> Is(g)
  BY DEF Follows, StartOf, LineOf
<1>3. \E g : Follows(g, "cut", t, Len(t))
  BY FollowsExists
<1> HIDE DEF Is
<1>4. Is(f)
  BY <1>2, <1>3
<1> HIDE DEF f
<1>5. f = [i \in 0..Len(t) |-> IF i = 0 THEN [start |-> 1, done |-> <<>>] ELSE CutAt(t, f[i - 1], i)]
  BY <1>4 DEF Is
<1>6. \A i \in 0..Len(t) : f[i] = IF i = 0 THEN [start |-> 1, done |-> <<>>] ELSE CutAt(t, f[i - 1], i)
  BY <1>5
<1> QED
  BY <1>1, <1>6

\* And of the segments.
LEMMA ClosedFollows ==
  ASSUME NEW t, Len(t) \in Nat
  PROVE  /\ ClosedUpTo(t)[0] = [start |-> 1, opened |-> 0, done |-> <<>>]
         /\ \A i \in 1..Len(t) : ClosedUpTo(t)[i] = CloseAt(t, ClosedUpTo(t)[i - 1], i)
<1> DEFINE Is(g) == g = [i \in 0..Len(t) |-> IF i = 0 THEN [start |-> 1, opened |-> 0, done |-> <<>>]
                                             ELSE CloseAt(t, g[i - 1], i)]
           f == CHOOSE g : Is(g)
<1>1. ClosedUpTo(t) = f
  BY DEF ClosedUpTo
<1>2. \A g : Follows(g, "closed", t, Len(t)) <=> Is(g)
  BY DEF Follows, StartOf, LineOf
<1>3. \E g : Follows(g, "closed", t, Len(t))
  BY FollowsExists
<1> HIDE DEF Is
<1>4. Is(f)
  BY <1>2, <1>3
<1> HIDE DEF f
<1>5. f = [i \in 0..Len(t) |-> IF i = 0 THEN [start |-> 1, opened |-> 0, done |-> <<>>]
                               ELSE CloseAt(t, f[i - 1], i)]
  BY <1>4 DEF Is
<1>6. \A i \in 0..Len(t) : f[i] = IF i = 0 THEN [start |-> 1, opened |-> 0, done |-> <<>>]
                                  ELSE CloseAt(t, f[i - 1], i)
  BY <1>5
<1> QED
  BY <1>1, <1>6

-----------------------------------------------------------------------------
(* The segments of a text are made of its lines. *)

\* What a text and its segments are made of.
Line == [kind : LineKind, size : Nat \ {0}, mark : Nat]
Segment == [diagram : BOOLEAN, lines : Seq(Line)]

\* A part of a text is a text.
LEMMA PartOfText ==
  ASSUME NEW t \in Seq(Line), NEW m \in Nat \ {0}, NEW n \in Int, n <= Len(t)
  PROVE  SubSeq(t, m, n) \in Seq(Line)
<1> HIDE DEF Line
<1>1. CASE m <= n
  BY <1>1, SubSeqProperties
<1>2. CASE ~(m <= n)
  <2>1. SubSeq(t, m, n) = <<>>
    BY <1>2, SubSeqProperties
  <2> QED
    BY <2>1
<1> QED
  BY <1>1, <1>2

\* So is a text without the blank lines around it.
LEMMA TrimmedText ==
  ASSUME NEW t \in Seq(Line)
  PROVE  TrimBlankLines(t) \in Seq(Line)
<1>1. CASE Solid(t) = {}
  BY <1>1 DEF TrimBlankLines
<1>2. CASE Solid(t) # {}
  <2> DEFINE first == CHOOSE i \in Solid(t) : \A j \in Solid(t) : i <= j
             last == CHOOSE i \in Solid(t) : \A j \in Solid(t) : j <= i
  <2>1. Solid(t) \subseteq 1..Len(t) /\ Len(t) \in Nat
    BY DEF Solid
  <2>2. first \in Solid(t)
    <3>1. \E i \in Solid(t) : \A j \in Solid(t) : i <= j
      BY <1>2, <2>1, LeastOne
    <3> QED
      BY <3>1
  <2>3. last \in Solid(t)
    <3>1. \E i \in Solid(t) : \A j \in Solid(t) : j <= i
      BY <1>2, <2>1, GreatestOne
    <3> QED
      BY <3>1
  <2>4. TrimBlankLines(t) = SubSeq(t, first, last)
    BY <1>2 DEF TrimBlankLines
  <2> HIDE DEF first, last
  <2> QED
    BY <2>1, <2>2, <2>3, <2>4, PartOfText
<1> QED
  BY <1>1, <1>2

\* The blocks up to a line, and where the next one starts.
CutState == [start : Nat \ {0}, done : Seq(Seq(Line))]

\* A line adds a block at most.
LEMMA CutTyped ==
  ASSUME NEW t \in Seq(Line), NEW acc \in CutState, NEW i \in 1..Len(t)
  PROVE  CutAt(t, acc, i) \in CutState
<1> DEFINE block == TrimBlankLines(SubSeq(t, acc.start, i - 1))
<1>1. block \in Seq(Line)
  <2>1. acc.start \in Nat \ {0} /\ i - 1 \in Int /\ i - 1 <= Len(t)
    BY DEF CutState
  <2>2. SubSeq(t, acc.start, i - 1) \in Seq(Line)
    BY <2>1, PartOfText
  <2> QED
    BY <2>2, TrimmedText
<1> HIDE DEF block
<1>2. acc.done \in Seq(Seq(Line)) /\ i + 1 \in Nat \ {0}
  BY DEF CutState
<1>3. Append(acc.done, block) \in Seq(Seq(Line))
  BY <1>1, <1>2
<1>4. [start |-> i + 1, done |-> Append(acc.done, block)] \in CutState
  BY <1>2, <1>3 DEF CutState
<1>5. CutAt(t, acc, i) \in {[start |-> i + 1, done |-> Append(acc.done, block)], acc}
  BY DEF CutAt, block
<1> QED
  BY <1>4, <1>5

\* So after every line they are blocks, of its lines.
LEMMA CutsTyped ==
  ASSUME NEW t \in Seq(Line)
  PROVE  \A i \in 0..Len(t) : CutUpTo(t)[i] \in CutState
<1>0. Len(t) \in Nat
  OBVIOUS
<1> DEFINE T == {i \in 0..Len(t) : CutUpTo(t)[i] \notin CutState}
<1>1. ASSUME T # {} PROVE FALSE
  <2>1. PICK m \in T : \A k \in T : m <= k
    <3>1. T \subseteq Nat
      OBVIOUS
    <3> HIDE DEF T
    <3> QED
      BY <1>1, <3>1, LeastOne
  <2>2. m # 0
    <3>1. [start |-> 1, done |-> <<>>] \in CutState
      BY DEF CutState
    <3>2. CutUpTo(t)[0] \in CutState
      BY <1>0, <3>1, CutFollows
    <3> QED
      BY <3>2
  <2>3. m \in 1..Len(t) /\ m - 1 \in 0..Len(t) /\ ~(m <= m - 1)
    BY <1>0, <2>2
  <2>4. CutUpTo(t)[m - 1] \in CutState
    BY <2>1, <2>3
  <2>5. CutUpTo(t)[m] = CutAt(t, CutUpTo(t)[m - 1], m)
    BY <1>0, <2>3, CutFollows
  <2>6. CutAt(t, CutUpTo(t)[m - 1], m) \in CutState
    BY <2>3, <2>4, CutTyped
  <2> QED
    BY <2>5, <2>6
<1> QED
  BY <1>1

\* The blocks of a text are texts.
LEMMA BlocksTyped ==
  ASSUME NEW t \in Seq(Line)
  PROVE  Blocks(t) \in Seq(Seq(Line))
<1> DEFINE cut == CutUpTo(t)[Len(t)]
<1>1. cut \in CutState
  BY CutsTyped
<1> HIDE DEF cut
<1>2. cut.start \in Nat \ {0} /\ cut.done \in Seq(Seq(Line)) /\ Len(t) \in Int /\ Len(t) <= Len(t)
  BY <1>1 DEF CutState
<1>3. SubSeq(t, cut.start, Len(t)) \in Seq(Line)
  BY <1>2, PartOfText
<1>4. TrimBlankLines(SubSeq(t, cut.start, Len(t))) \in Seq(Line)
  BY <1>3, TrimmedText
<1>5. CutWith(t, cut) \in Seq(Seq(Line))
  BY <1>2, <1>4 DEF CutWith
<1>6. Blocks(t) \in {<<>>, <<t>>, CutWith(t, cut)}
  BY DEF Blocks, cut
<1>7. <<>> \in Seq(Seq(Line)) /\ <<t>> \in Seq(Seq(Line))
  OBVIOUS
<1> QED
  BY <1>5, <1>6, <1>7

\* So prose and a diagram are segments.
LEMMA ProseTyped ==
  ASSUME NEW t \in Seq(Line)
  PROVE  Prose(t) \in Seq(Segment) /\ Diagram(t) \in Seq(Segment)
<1> DEFINE blocks == Blocks(TrimBlankLines(t))
<1>1. blocks \in Seq(Seq(Line))
  <2>1. TrimBlankLines(t) \in Seq(Line)
    BY TrimmedText
  <2> QED
    BY <2>1, BlocksTyped
<1>2. Prose(t) = [i \in DOMAIN blocks |-> [diagram |-> FALSE, lines |-> blocks[i]]]
  BY DEF Prose, ProseOf
<1> HIDE DEF blocks
<1>3. DOMAIN blocks = 1..Len(blocks) /\ Len(blocks) \in Nat
  BY <1>1
<1>4. \A i \in DOMAIN blocks : [diagram |-> FALSE, lines |-> blocks[i]] \in Segment
  BY <1>1 DEF Segment
<1>5. Prose(t) \in [1..Len(blocks) -> Segment]
  BY <1>2, <1>3, <1>4
<1>6. Prose(t) \in Seq(Segment)
  BY <1>3, <1>5, SeqDef
<1>7. [diagram |-> TRUE, lines |-> t] \in Segment
  BY DEF Segment
<1>8. Diagram(t) \in Seq(Segment)
  BY <1>7 DEF Diagram
<1> QED
  BY <1>6, <1>8

\* The segments up to a line; a mermaid fence that is open has its first line.
CloseState == [start : Nat \ {0}, opened : Nat, done : Seq(Segment)]
Closed(t, acc, i) ==
  acc \in CloseState /\ (FenceAfter(t)[i] = "mermaid" => acc.opened \in 1..i)

\* A line closes a diagram at most.
LEMMA CloseTyped ==
  ASSUME NEW t \in Seq(Line), NEW i \in 1..Len(t), NEW acc, Closed(t, acc, i - 1)
  PROVE  Closed(t, CloseAt(t, acc, i), i)
<1>0. Len(t) \in Nat /\ i \in Nat
  OBVIOUS
<1>1. acc \in CloseState
  BY DEF Closed
<1> DEFINE before == FenceAfter(t)[i - 1]
           after == FenceAfter(t)[i]
<1>2. after = FenceStep(before, t[i])
  BY <1>0, FenceFollows
<1>3. CASE before = "none" /\ after = "mermaid"
  <2>1. CloseAt(t, acc, i) = [acc EXCEPT !.opened = i]
    BY <1>3 DEF CloseAt
  <2>2. [acc EXCEPT !.opened = i] \in CloseState /\ [acc EXCEPT !.opened = i].opened = i
    BY <1>0, <1>1 DEF CloseState
  <2> QED
    BY <1>0, <2>1, <2>2 DEF Closed
<1>4. CASE before = "mermaid" /\ after = "none"
  <2> DEFINE done == acc.done \o Prose(SubSeq(t, acc.start, acc.opened - 1))
                              \o Diagram(SubSeq(t, acc.opened + 1, i - 1))
  <2>1. acc.opened \in 1..(i - 1) /\ acc.start \in Nat \ {0} /\ acc.done \in Seq(Segment)
    BY <1>1, <1>4 DEF Closed, CloseState
  <2>2. SubSeq(t, acc.start, acc.opened - 1) \in Seq(Line)
    <3>1. acc.opened - 1 \in Int /\ acc.opened - 1 <= Len(t)
      BY <1>0, <2>1
    <3> QED
      BY <2>1, <3>1, PartOfText
  <2>3. SubSeq(t, acc.opened + 1, i - 1) \in Seq(Line)
    <3>1. acc.opened + 1 \in Nat \ {0} /\ i - 1 \in Int /\ i - 1 <= Len(t)
      BY <1>0, <2>1
    <3> QED
      BY <3>1, PartOfText
  <2>4. Prose(SubSeq(t, acc.start, acc.opened - 1)) \in Seq(Segment)
    BY <2>2, ProseTyped
  <2>5. Diagram(SubSeq(t, acc.opened + 1, i - 1)) \in Seq(Segment)
    BY <2>3, ProseTyped
  <2>6. done \in Seq(Segment)
    BY <2>1, <2>4, <2>5, ConcatProperties
  <2>7. CloseAt(t, acc, i) = [start |-> i + 1, opened |-> i, done |-> done]
    BY <1>4 DEF CloseAt
  <2> HIDE DEF done
  <2>8. CloseAt(t, acc, i) \in CloseState
    BY <1>0, <2>6, <2>7 DEF CloseState
  <2> QED
    BY <1>4, <2>8 DEF Closed
<1>5. CASE ~(before = "none" /\ after = "mermaid") /\ ~(before = "mermaid" /\ after = "none")
  <2>1. CloseAt(t, acc, i) = acc
    BY <1>5 DEF CloseAt
  <2>2. after = "mermaid" => before = "mermaid"
    BY <1>2, <1>5 DEF FenceStep
  <2>3. before = "mermaid" => acc.opened \in 1..i
    <3>1. before = "mermaid" => acc.opened \in 1..(i - 1)
      BY DEF Closed
    <3> QED
      BY <1>0, <3>1
  <2> QED
    BY <1>1, <2>1, <2>2, <2>3 DEF Closed
<1> QED
  BY <1>3, <1>4, <1>5

\* So after every line.
LEMMA ClosesTyped ==
  ASSUME NEW t \in Seq(Line)
  PROVE  \A i \in 0..Len(t) : Closed(t, ClosedUpTo(t)[i], i)
<1>0. Len(t) \in Nat
  OBVIOUS
<1> DEFINE T == {i \in 0..Len(t) : ~Closed(t, ClosedUpTo(t)[i], i)}
<1>1. ASSUME T # {} PROVE FALSE
  <2>1. PICK m \in T : \A k \in T : m <= k
    <3>1. T \subseteq Nat
      OBVIOUS
    <3> HIDE DEF T
    <3> QED
      BY <1>1, <3>1, LeastOne
  <2>2. m # 0
    <3>1. [start |-> 1, opened |-> 0, done |-> <<>>] \in CloseState
      BY DEF CloseState
    <3>2. ClosedUpTo(t)[0] = [start |-> 1, opened |-> 0, done |-> <<>>]
      BY <1>0, ClosedFollows
    <3>3. FenceAfter(t)[0] = "none"
      BY <1>0, FenceFollows
    <3>4. Closed(t, ClosedUpTo(t)[0], 0)
      BY <3>1, <3>2, <3>3 DEF Closed
    <3> QED
      BY <3>4
  <2>3. m \in 1..Len(t) /\ m - 1 \in 0..Len(t) /\ ~(m <= m - 1)
    BY <1>0, <2>2
  <2>4. Closed(t, ClosedUpTo(t)[m - 1], m - 1)
    BY <2>1, <2>3
  <2>5. ClosedUpTo(t)[m] = CloseAt(t, ClosedUpTo(t)[m - 1], m)
    BY <1>0, <2>3, ClosedFollows
  <2>6. Closed(t, CloseAt(t, ClosedUpTo(t)[m - 1], m), m)
    BY <2>3, <2>4, CloseTyped
  <2> QED
    BY <2>5, <2>6
<1> QED
  BY <1>1

\* The segments of a text are segments of its lines.
LEMMA SegmentsTyped ==
  ASSUME NEW t \in Seq(Line)
  PROVE  Segments(t) \in Seq(Segment)
<1> DEFINE closed == ClosedUpTo(t)[Len(t)]
<1>1. Closed(t, closed, Len(t))
  BY ClosesTyped
<1> HIDE DEF closed
<1>2. closed.start \in Nat \ {0} /\ closed.done \in Seq(Segment) /\ Len(t) \in Int /\ Len(t) <= Len(t)
  BY <1>1 DEF Closed, CloseState
<1>3. SubSeq(t, closed.start, Len(t)) \in Seq(Line)
  BY <1>2, PartOfText
<1>4. Prose(SubSeq(t, closed.start, Len(t))) \in Seq(Segment)
  BY <1>3, ProseTyped
<1>5. ClosedWith(t, closed) \in Seq(Segment)
  BY <1>2, <1>4, ConcatProperties DEF ClosedWith
<1> QED
  BY <1>5 DEF Segments, closed

-----------------------------------------------------------------------------
(* The class of a text. *)

\* The classes of component that draw in pieces.
PieceClass ==
  {"fence", "quotedFence", "table", "flatQuote", "lineLocal", "crossLine", "quotedList", "list"}

\* What a component may have of pieces, first and later.
Limits == [Limited -> {InitialChunks, StructuredLines}]

\* Positions in a text can be counted.
LEMMA PositionsCounted ==
  ASSUME NEW n \in Nat, NEW S, S \subseteq 1..n
  PROVE  Cardinality(S) \in Nat
<1>1. IsFiniteSet(1..n)
  BY FS_Interval
<1>2. IsFiniteSet(S)
  BY <1>1, FS_Subset
<1> QED
  BY <1>2, FS_CardinalityType

\* The first line tells between the classes, but for some quotations.
LEMMA FirstLineTells ==
  ASSUME NEW t \in Seq(Line), NEW limit
  PROVE  /\ Plain(t) \/ StableInline(t) => t[1].kind = "text"
         /\ StrictFence(t, limit) => t[1].kind \in {"fence", "json", "script"}
         /\ QuotedFence(t, limit) => t[1].kind = "opener"
         /\ StrictTable(t, limit) => t[1].kind = "head"
         /\ FlatQuote(t) => t[1].kind = "quote"
         /\ LineLocalQuote(t, limit) => t[1].kind \in {"quote", "deep"}
         /\ CrossLineQuote(t, limit) => t[1].kind \in {"quote", "half"}
         /\ QuotedList(t, limit) => t[1].kind = "entry"
         /\ RootList(t, limit) => t[1].kind = "item"
<1>0. DOMAIN t = 1..Len(t) /\ Len(t) \in Nat
  OBVIOUS
<1>1. ASSUME NEW k \in Kinds(t) PROVE 1 \in DOMAIN t /\ t[1].kind \in Kinds(t)
  <2>1. 1 \in DOMAIN t
    BY <1>0, <1>1 DEF Kinds
  <2> QED
    BY <2>1 DEF Kinds
<1>2. ASSUME NEW k, Kinds(t) = {k} PROVE t[1].kind = k
  BY <1>1, <1>2
<1>3. Plain(t) \/ StableInline(t) => t[1].kind = "text"
  BY DEF Plain, StableInline
<1>4. StrictFence(t, limit) => t[1].kind \in {"fence", "json", "script"}
  BY DEF StrictFence, Highlightable
<1>5. QuotedFence(t, limit) => t[1].kind = "opener"
  BY DEF QuotedFence
<1>6. StrictTable(t, limit) => t[1].kind = "head"
  BY DEF StrictTable
<1>7. FlatQuote(t) => t[1].kind = "quote"
  BY <1>2 DEF FlatQuote
<1>8. LineLocalQuote(t, limit) => t[1].kind \in {"quote", "deep"}
  BY <1>2 DEF LineLocalQuote
<1>9. CrossLineQuote(t, limit) => t[1].kind \in {"quote", "half"}
  <2>1. ASSUME CrossLineQuote(t, limit) PROVE t[1].kind \in {"quote", "half"}
    <3>1. Len(t) # 0
      <4>1. ASSUME Len(t) = 0 PROVE FALSE
        <5>1. {j \in 1..Len(t) : t[j].kind = "half"} = {}
          BY <4>1
        <5>2. Halves(t, Len(t)) = 0
          BY <5>1, FS_EmptySet DEF Halves
        <5> QED
          BY <2>1, <5>2 DEF CrossLineQuote
      <4> QED
        BY <4>1
    <3>2. t[1].kind \in Kinds(t)
      BY <1>0, <3>1 DEF Kinds
    <3> QED
      BY <2>1, <3>2 DEF CrossLineQuote
  <2> QED
    BY <2>1
<1>10. QuotedList(t, limit) => t[1].kind = "entry"
  <2>1. ASSUME LooseEntries(t) PROVE t[1].kind = "entry"
    <3>1. Kinds(t) = {"entry", "bar"}
      BY <2>1 DEF LooseEntries
    <3>2. 1 \in DOMAIN t /\ t[1].kind \in {"entry", "bar"}
      BY <1>1, <3>1
    <3>3. t[1].kind # "bar"
      BY <2>1, <3>2 DEF LooseEntries, Separated
    <3> QED
      BY <3>2, <3>3
  <2> QED
    BY <2>1 DEF QuotedList
<1>11. RootList(t, limit) => t[1].kind = "item"
  BY <1>2 DEF RootList, LooseItems, Uniform
<1> QED
  BY <1>3, <1>4, <1>5, <1>6, <1>7, <1>8, <1>9, <1>10, <1>11

\* A text with few enough pieces for a new component has few enough for one that
\* goes on; of TypeScript and of quotations without nesting there may be more.
LEMMA LimitsGrow ==
  ASSUME NEW t \in Seq(Line), NEW limit \in {InitialChunks, StructuredLines}
  PROVE  /\ StrictFence(t, limit) => StrictFence(t, StructuredLines)
         /\ t[1].kind = "script" => (StrictFence(t, limit) <=> StrictFence(t, StructuredLines))
         /\ QuotedFence(t, limit) => QuotedFence(t, StructuredLines)
         /\ StrictTable(t, limit) => StrictTable(t, StructuredLines)
         /\ LineLocalQuote(t, limit) => LineLocalQuote(t, StructuredLines)
         /\ t[1].kind = "quote" => (LineLocalQuote(t, limit) <=> LineLocalQuote(t, StructuredLines))
         /\ CrossLineQuote(t, limit) => CrossLineQuote(t, StructuredLines)
         /\ QuotedList(t, limit) => QuotedList(t, StructuredLines)
         /\ RootList(t, limit) => RootList(t, StructuredLines)
<1>0. /\ limit \in Nat /\ StructuredLines \in Nat /\ limit <= StructuredLines
      /\ DOMAIN t = 1..Len(t) /\ Len(t) \in Nat
  BY MarkdownAssumption
<1>1. \A n : n \in 1..limit => n \in 1..StructuredLines
  BY <1>0
<1>2. \A n : n \in 2..(limit + 1) => n \in 2..(StructuredLines + 1)
  BY <1>0
<1>3. /\ StrictFence(t, limit) => StrictFence(t, StructuredLines)
      /\ t[1].kind = "script" => (StrictFence(t, limit) <=> StrictFence(t, StructuredLines))
  BY <1>1 DEF StrictFence
<1>4. QuotedFence(t, limit) => QuotedFence(t, StructuredLines)
  BY <1>2 DEF QuotedFence
<1>5. StrictTable(t, limit) => StrictTable(t, StructuredLines)
  BY <1>2 DEF StrictTable
<1>6. LineLocalQuote(t, limit) => LineLocalQuote(t, StructuredLines)
  BY <1>0 DEF LineLocalQuote
<1>7. t[1].kind = "quote" => (LineLocalQuote(t, limit) <=> LineLocalQuote(t, StructuredLines))
  <2>1. t[1].kind = "quote" => Kinds(t) # {"deep"}
    <3>1. ASSUME Kinds(t) = {"deep"} PROVE t[1].kind = "deep"
      <4>1. 1 \in DOMAIN t
        BY <1>0, <3>1 DEF Kinds
      <4>2. t[1].kind \in Kinds(t)
        BY <4>1 DEF Kinds
      <4> QED
        BY <3>1, <4>2
    <3> QED
      BY <3>1
  <2> QED
    BY <2>1 DEF LineLocalQuote
<1>8. CrossLineQuote(t, limit) => CrossLineQuote(t, StructuredLines)
  <2>1. Cardinality(ChunkEnds(t)) \in Nat
    <3>1. ChunkEnds(t) \subseteq 1..Len(t)
      BY <1>0 DEF ChunkEnds
    <3> QED
      BY <1>0, <3>1, PositionsCounted
  <2>2. \A n \in Nat : n <= limit => n <= StructuredLines
    BY <1>0
  <2>3. \A n \in Nat : n <= 2 * limit => n <= 2 * StructuredLines
    BY <1>0
  <2> QED
    BY <1>0, <2>1, <2>2, <2>3 DEF CrossLineQuote
<1>9. Len(Items(t)) \in Nat
  <2> DEFINE starts == {j \in DOMAIN t : t[j].kind \in {"item", "entry"}}
  <2>1. Cardinality(starts) \in Nat
    <3>1. starts \subseteq 1..Len(t)
      BY <1>0
    <3> QED
      BY <1>0, <3>1, PositionsCounted
  <2>2. DOMAIN Items(t) = 1..Cardinality(starts)
    BY DEF Items, Ascending
  <2> HIDE DEF starts
  <2> QED
    BY <2>1, <2>2
<1>10. QuotedList(t, limit) => QuotedList(t, StructuredLines)
  BY <1>0, <1>9 DEF QuotedList
<1>11. RootList(t, limit) => RootList(t, StructuredLines)
  BY <1>0, <1>9 DEF RootList
<1> QED
  BY <1>3, <1>4, <1>5, <1>6, <1>7, <1>8, <1>10, <1>11

\* So the class that a component was made for is the one its text has whenever
\* it is drawn as a whole.
LEMMA ClassStays ==
  ASSUME NEW t \in Seq(Line), NEW limit \in Limits, ClassOf(t, limit) # "markdown"
  PROVE  ClassOf(t, Structured) = ClassOf(t, limit)
<1>1. \A c \in Limited : limit[c] \in {InitialChunks, StructuredLines} /\ Structured[c] = StructuredLines
  BY DEF Limits, Structured
<1>2. /\ limit["fence"] \in {InitialChunks, StructuredLines} /\ Structured["fence"] = StructuredLines
      /\ limit["quotedFence"] \in {InitialChunks, StructuredLines} /\ Structured["quotedFence"] = StructuredLines
      /\ limit["table"] \in {InitialChunks, StructuredLines} /\ Structured["table"] = StructuredLines
      /\ limit["lineLocal"] \in {InitialChunks, StructuredLines} /\ Structured["lineLocal"] = StructuredLines
      /\ limit["crossLine"] \in {InitialChunks, StructuredLines} /\ Structured["crossLine"] = StructuredLines
      /\ limit["quotedList"] \in {InitialChunks, StructuredLines} /\ Structured["quotedList"] = StructuredLines
      /\ limit["list"] \in {InitialChunks, StructuredLines} /\ Structured["list"] = StructuredLines
  BY <1>1 DEF Limited
<1>3. /\ StrictFence(t, limit["fence"]) => StrictFence(t, StructuredLines)
      /\ t[1].kind = "script" => (StrictFence(t, limit["fence"]) <=> StrictFence(t, StructuredLines))
      /\ QuotedFence(t, limit["quotedFence"]) => QuotedFence(t, StructuredLines)
      /\ StrictTable(t, limit["table"]) => StrictTable(t, StructuredLines)
      /\ LineLocalQuote(t, limit["lineLocal"]) => LineLocalQuote(t, StructuredLines)
      /\ t[1].kind = "quote" => (LineLocalQuote(t, limit["lineLocal"]) <=> LineLocalQuote(t, StructuredLines))
      /\ CrossLineQuote(t, limit["crossLine"]) => CrossLineQuote(t, StructuredLines)
      /\ QuotedList(t, limit["quotedList"]) => QuotedList(t, StructuredLines)
      /\ RootList(t, limit["list"]) => RootList(t, StructuredLines)
  BY <1>2, LimitsGrow
<1>4. \A l :
         /\ Plain(t) \/ StableInline(t) => t[1].kind = "text"
         /\ StrictFence(t, l) => t[1].kind \in {"fence", "json", "script"}
         /\ QuotedFence(t, l) => t[1].kind = "opener"
         /\ StrictTable(t, l) => t[1].kind = "head"
         /\ FlatQuote(t) => t[1].kind = "quote"
         /\ LineLocalQuote(t, l) => t[1].kind \in {"quote", "deep"}
         /\ CrossLineQuote(t, l) => t[1].kind \in {"quote", "half"}
         /\ QuotedList(t, l) => t[1].kind = "entry"
         /\ RootList(t, l) => t[1].kind = "item"
  BY FirstLineTells
<1> QED
  BY <1>2, <1>3, <1>4 DEF ClassOf

-----------------------------------------------------------------------------
(* A wrapped line that grows. *)

\* What the quotient of a division is.
LEMMA DivFacts ==
  ASSUME NEW x \in Int, NEW w \in Nat \ {0}
  PROVE  x \div w \in Int /\ (x \div w) * w <= x /\ x < (x \div w) * w + w
OBVIOUS

\* Multiples of a number are that number apart.
LEMMA Multiples ==
  ASSUME NEW a \in Int, NEW b \in Int, NEW w \in Nat \ {0}, a < b
  PROVE  a * w \in Int /\ b * w \in Int /\ a * w + w <= b * w
<1>1. b - a - 1 \in Nat
  OBVIOUS
<1>2. (b - a - 1) * w >= 0
  BY <1>1
<1>3. (b - a - 1) * w = b * w - a * w - w
  OBVIOUS
<1> QED
  BY <1>2, <1>3

\* So there is one quotient.
LEMMA DivUnique ==
  ASSUME NEW x \in Int, NEW w \in Nat \ {0}, NEW d \in Int, d * w <= x, x < d * w + w
  PROVE  x \div w = d
<1> DEFINE e == x \div w
           ew == e * w
           dw == d * w
<1>1. e \in Int /\ ew <= x /\ x < ew + w
  BY DivFacts
<1> HIDE DEF e
<1>2. e < d => ew + w <= dw
  BY <1>1, Multiples
<1>3. d < e => dw + w <= ew
  BY <1>1, Multiples
<1>4. ew \in Int /\ dw \in Int
  BY <1>1
<1> HIDE DEF ew, dw
<1>5. dw <= x /\ x < dw + w
  BY DEF dw
<1>6. e = d
  BY <1>1, <1>2, <1>3, <1>4, <1>5
<1> QED
  BY <1>6 DEF e

\* The rows of a line: the first of them starts before its end, one more would
\* start behind it.
LEMMA RowsFacts ==
  ASSUME NEW n \in Nat, NEW w \in Nat \ {0}
  PROVE  /\ Rows(n, w) \in Nat
         /\ n <= Rows(n, w) * w
         /\ n > 0 => Rows(n, w) > 0 /\ (Rows(n, w) - 1) * w < n
<1> DEFINE d == (n + w - 1) \div w
           dw == d * w
<1>1. d \in Int /\ dw <= n + w - 1 /\ n + w - 1 < dw + w
  BY DivFacts
<1>2. Rows(n, w) = d
  BY DEF Rows
<1> HIDE DEF d
<1>3. d < 0 => dw + w <= 0
  BY <1>1, Multiples
<1>4. dw \in Int /\ (d - 1) * w = dw - w
  BY <1>1
<1>5. d = 0 => dw = 0
  OBVIOUS
<1> HIDE DEF dw
<1>6. d >= 0 /\ n <= dw
  BY <1>1, <1>3, <1>4
<1>7. n > 0 => d > 0 /\ dw - w < n
  BY <1>1, <1>4, <1>5, <1>6
<1> QED
  BY <1>1, <1>2, <1>4, <1>6, <1>7 DEF dw

\* A line without its first k rows has k rows fewer.
LEMMA RowsWithout ==
  ASSUME NEW n \in Nat, NEW w \in Nat \ {0}, NEW k \in Nat, k * w <= n
  PROVE  Rows(n - k * w, w) = Rows(n, w) - k
<1> DEFINE d == (n + w - 1) \div w
           dw == d * w
           kw == k * w
<1>1. d \in Int /\ dw <= n + w - 1 /\ n + w - 1 < dw + w
  BY DivFacts
<1>2. Rows(n, w) = d
  BY DEF Rows
<1> HIDE DEF d
<1>3. dw \in Int /\ kw \in Int /\ (d - k) * w = dw - kw /\ d - k \in Int
  BY <1>1
<1>4. Rows(n - k * w, w) = (n - kw + w - 1) \div w
  BY DEF Rows
<1> HIDE DEF dw, kw
<1>5. n - kw + w - 1 \in Int /\ (d - k) * w <= n - kw + w - 1 /\ n - kw + w - 1 < (d - k) * w + w
  BY <1>1, <1>3
<1>6. (n - kw + w - 1) \div w = d - k
  BY <1>3, <1>5, DivUnique
<1> QED
  BY <1>2, <1>4, <1>6

\* A row of a line that is wrapped.
WrappedRow == [from : Int, to : Int, mark : Nat]

\* A line is wrapped to a sequence of rows.
LEMMA WrapTyped ==
  ASSUME NEW l \in Line, NEW from \in Nat, from <= l.size, NEW w \in Nat \ {0}
  PROVE  /\ WrapFrom(l, from, w) \in Seq(WrappedRow)
         /\ Len(WrapFrom(l, from, w)) = Rows(l.size - from, w)
         /\ Rows(l.size - from, w) \in Nat
         /\ from < l.size => Rows(l.size - from, w) > 0
<1> DEFINE n == Rows(l.size - from, w)
           Row(k) == [from |-> from + (k - 1) * w,
                      to |-> IF from + k * w < l.size THEN from + k * w ELSE l.size,
                      mark |-> l.mark]
<1>1. l.size \in Nat \ {0} /\ l.mark \in Nat /\ l.size - from \in Nat
  BY DEF Line
<1>2. n \in Nat /\ (from < l.size => n > 0)
  BY <1>1, RowsFacts
<1>3. WrapFrom(l, from, w) = [k \in 1..n |-> Row(k)]
  BY DEF WrapFrom
<1> HIDE DEF n
<1>4. ASSUME NEW k \in 1..n PROVE Row(k) \in WrappedRow
  <2>1. k \in Int /\ (k - 1) * w \in Int /\ k * w \in Int
    BY <1>2
  <2> QED
    BY <1>1, <2>1 DEF WrappedRow
<1> HIDE DEF Row
<1>5. WrapFrom(l, from, w) \in [1..n -> WrappedRow]
  BY <1>3, <1>4
<1>6. WrapFrom(l, from, w) \in Seq(WrappedRow) /\ Len(WrapFrom(l, from, w)) = n
  BY <1>2, <1>5, SeqDef
<1> QED
  BY <1>2, <1>6 DEF n

\* A sequence without its last element, and another one after it.
LEMMA FrontThen ==
  ASSUME NEW S, NEW r \in Seq(S), NEW m \in Seq(S), Len(r) > 0
  PROVE  /\ Front(r) \in Seq(S)
         /\ Front(r) \o m \in Seq(S) /\ Len(Front(r) \o m) = Len(r) - 1 + Len(m)
         /\ \A k \in 1..(Len(r) - 1) : (Front(r) \o m)[k] = r[k]
         /\ \A k \in 1..Len(m) : (Front(r) \o m)[Len(r) - 1 + k] = m[k]
<1> DEFINE f == Front(r)
<1>0. Len(r) \in Nat /\ Len(m) \in Nat /\ Len(r) > 0
  OBVIOUS
<1>1. f = SubSeq(r, 1, Len(r) - 1)
  BY DEF Front
<1>2. f \in Seq(S) /\ Len(f) = Len(r) - 1 /\ \A k \in 1..(Len(r) - 1) : f[k] = r[k]
  <2>1. CASE Len(r) = 1
    <3>1. f = <<>>
      BY <1>1, <2>1, SubSeqProperties
    <3> QED
      BY <2>1, <3>1
  <2>2. CASE Len(r) # 1
    <3>1. \A l \in Nat : l > 0 /\ l # 1 => 1 <= l - 1 /\ l - 1 <= l
      OBVIOUS
    <3>1a. 1 <= Len(r) - 1 /\ Len(r) - 1 <= Len(r)
      BY <1>0, <2>2, <3>1, Zenon
    <3>2. /\ SubSeq(r, 1, Len(r) - 1) \in Seq(S)
          /\ Len(SubSeq(r, 1, Len(r) - 1)) = Len(r) - 1
          /\ \A k \in 1..(Len(r) - 1) : SubSeq(r, 1, Len(r) - 1)[k] = r[k]
      BY <1>0, <3>1a
    <3> HIDE DEF f
    <3> QED
      BY <1>1, <3>2
  <2> QED
    BY <2>1, <2>2
<1> HIDE DEF f
<1>3. f \o m \in Seq(S) /\ Len(f \o m) = Len(f) + Len(m)
  BY <1>2, ConcatProperties
<1>4. \A k \in 1..(Len(f) + Len(m)) : (f \o m)[k] = IF k <= Len(f) THEN f[k] ELSE m[k - Len(f)]
  BY <1>2, ConcatProperties
<1>5. \A k \in 1..(Len(r) - 1) : (f \o m)[k] = r[k]
  BY <1>0, <1>2, <1>4
<1>6. ASSUME NEW k \in 1..Len(m) PROVE (f \o m)[Len(r) - 1 + k] = m[k]
  <2>1. Len(r) - 1 + k \in 1..(Len(f) + Len(m)) /\ ~(Len(r) - 1 + k <= Len(f)) /\ Len(r) - 1 + k - Len(f) = k
    BY <1>0, <1>2
  <2>2. (f \o m)[Len(r) - 1 + k] = m[Len(r) - 1 + k - Len(f)]
    BY <1>4, <2>1
  <2> QED
    BY <2>1, <2>2
<1> QED
  BY <1>2, <1>3, <1>5, <1>6 DEF f

\* The rows of a line but the last, and after them what the longer line has from
\* there on, are the rows of the longer line.
LEMMA WrapGoesOn ==
  ASSUME NEW a \in Line, NEW b \in Line, a.size <= b.size, a.mark = b.mark, NEW w \in Nat \ {0},
         NEW rows, rows = WrapFrom(a, 0, w)
  PROVE  /\ rows[Len(rows)].from \in Nat /\ rows[Len(rows)].from <= b.size
         /\ Front(rows) \o WrapFrom(b, rows[Len(rows)].from, w) = WrapFrom(b, 0, w)
<1> DEFINE n == Rows(a.size, w)
           all == Rows(b.size, w)
           last == (n - 1) * w
           more == WrapFrom(b, last, w)
           target == WrapFrom(b, 0, w)
<1>1. a.size \in Nat \ {0} /\ b.size \in Nat \ {0} /\ a.size - 0 = a.size /\ b.size - 0 = b.size
  BY DEF Line
<1>2. n \in Nat /\ n > 0 /\ last < a.size
  <2> DEFINE s == a.size
  <2> HIDE DEF s
  <2>1. s \in Nat /\ s > 0
    BY <1>1 DEF s
  <2>2. Rows(s, w) \in Nat /\ Rows(s, w) > 0 /\ (Rows(s, w) - 1) * w < s
    BY <2>1, RowsFacts
  <2> QED
    BY <2>2 DEF s
<1>2a. all \in Nat
  BY <1>1, RowsFacts
<1>3. last \in Nat
  <2> HIDE DEF n
  <2> QED
    BY <1>2
<1>4. rows \in Seq(WrappedRow) /\ Len(rows) = n
  BY <1>1, WrapTyped
<1>5. rows[n].from = last
  <2>1. 0 + (n - 1) * w = last
    BY <1>3
  <2> QED
    BY <1>1, <1>2, <2>1 DEF WrapFrom
<1>6. Rows(b.size - last, w) = all - (n - 1)
  <2>1. n - 1 \in Nat /\ (n - 1) * w <= b.size /\ b.size \in Nat
    BY <1>1, <1>2, <1>3
  <2> HIDE DEF n
  <2> QED
    BY <2>1, RowsWithout DEF last
<1>6a. last <= b.size /\ b.size \in Nat
  <2> HIDE DEF last
  <2> QED
    BY <1>1, <1>2, <1>3
<1>7. more \in Seq(WrappedRow) /\ Len(more) = all - (n - 1) /\ Len(more) \in Nat
  <2> HIDE DEF last
  <2>1. /\ WrapFrom(b, last, w) \in Seq(WrappedRow)
        /\ Len(WrapFrom(b, last, w)) = Rows(b.size - last, w)
        /\ Rows(b.size - last, w) \in Nat
    BY <1>3, <1>6a, WrapTyped
  <2> QED
    BY <1>6, <2>1
<1>8. target \in Seq(WrappedRow) /\ Len(target) = all
  BY <1>1, WrapTyped
<1> DEFINE on == Front(rows) \o more
<1>9. /\ on \in Seq(WrappedRow) /\ Len(on) = Len(rows) - 1 + Len(more)
      /\ \A k \in 1..(Len(rows) - 1) : on[k] = rows[k]
      /\ \A k \in 1..Len(more) : on[Len(rows) - 1 + k] = more[k]
  <2>1. Len(rows) > 0
    BY <1>2, <1>4
  <2>2. rows \in Seq(WrappedRow) /\ more \in Seq(WrappedRow)
    BY <1>4, <1>7
  <2>3. ASSUME NEW r \in Seq(WrappedRow), NEW m \in Seq(WrappedRow), Len(r) > 0
        PROVE  /\ Front(r) \o m \in Seq(WrappedRow) /\ Len(Front(r) \o m) = Len(r) - 1 + Len(m)
               /\ \A k \in 1..(Len(r) - 1) : (Front(r) \o m)[k] = r[k]
               /\ \A k \in 1..Len(m) : (Front(r) \o m)[Len(r) - 1 + k] = m[k]
    BY SMTT(20), <2>3, FrontThen
  <2> HIDE DEF more
  <2> QED
    BY <2>1, <2>2, <2>3, Zenon DEF on
<1>10. ASSUME NEW k \in 1..all PROVE on[k] = target[k]
  <2> DEFINE kw == k * w
             before == (k - 1) * w
  <2>1. k \in Nat /\ kw \in Int /\ before \in Int
    <3>1. k \in Nat
      BY <1>2a
    <3> QED
      BY <3>1
  <2>2. target[k] = [from |-> before, to |-> IF kw < b.size THEN kw ELSE b.size, mark |-> b.mark]
    <3>1. 0 + (k - 1) * w = before /\ 0 + k * w = kw
      BY <2>1
    <3> QED
      BY <1>1, <3>1 DEF WrapFrom
  <2>3. CASE k <= n - 1
    <3>1. kw <= last
      <4> HIDE DEF n
      <4>1. k = n - 1 => kw = last
        OBVIOUS
      <4>2. k < n - 1 => kw + w <= last
        <5>1. n - 1 \in Int /\ k \in Int
          BY <1>2, <2>1
        <5> QED
          BY <5>1, Multiples
      <4> HIDE DEF kw, last
      <4> QED
        BY <1>2, <1>3, <2>1, <2>3, <4>1, <4>2
    <3>2. kw < a.size /\ kw < b.size
      <4> HIDE DEF kw, last, n
      <4> QED
        BY <1>1, <1>2, <1>3, <2>1, <3>1
    <3>3. k \in 1..n /\ k \in 1..(n - 1)
      <4> HIDE DEF n
      <4> QED
        BY <1>2, <2>1, <2>3
    <3>4. rows[k] = [from |-> before, to |-> kw, mark |-> a.mark]
      <4>1. 0 + (k - 1) * w = before /\ 0 + k * w = kw
        BY <2>1
      <4>2. rows[k] = [from |-> before, to |-> IF kw < a.size THEN kw ELSE a.size, mark |-> a.mark]
        BY <1>1, <3>3, <4>1 DEF WrapFrom
      <4> QED
        BY <3>2, <4>2
    <3>5. on[k] = rows[k]
      <4> HIDE DEF on, n
      <4> QED
        BY <1>4, <1>9, <3>3
    <3> HIDE DEF kw, before, on, target
    <3> QED
      BY <2>2, <3>2, <3>4, <3>5
  <2>4. CASE ~(k <= n - 1)
    <3> DEFINE j == k - (n - 1)
    <3>1. j \in 1..(all - (n - 1)) /\ j \in Int /\ n - 1 + j = k
      <4> HIDE DEF n, all
      <4> QED
        BY <1>2, <1>2a, <2>1, <2>4
    <3>2. last + (j - 1) * w = before /\ last + j * w = kw
      <4> HIDE DEF n
      <4>1. (n - 1) * w + (k - (n - 1) - 1) * w = (k - 1) * w /\ (n - 1) * w + (k - (n - 1)) * w = k * w
        BY <1>2, <2>1
      <4> QED
        BY <4>1
    <3>3. more[j] = [from |-> before, to |-> IF kw < b.size THEN kw ELSE b.size, mark |-> b.mark]
      <4> HIDE DEF last, j, kw, before
      <4> QED
        BY <1>6, <3>1, <3>2 DEF WrapFrom
    <3>4. on[k] = more[j]
      <4> HIDE DEF on, n, more, j, all
      <4> QED
        BY <1>4, <1>7, <1>9, <3>1
    <3> HIDE DEF kw, before, on, target, more, j
    <3> QED
      BY <2>2, <3>3, <3>4
  <2> QED
    BY <2>3, <2>4
<1>11. Len(on) = all
  <2> HIDE DEF on, n, more, all
  <2> QED
    BY <1>2, <1>2a, <1>4, <1>7, <1>9
<1>12. on = target
  <2> HIDE DEF on, target, all
  <2> QED
    BY <1>8, <1>9, <1>10, <1>11, SeqEqual
<1>13. rows[Len(rows)].from = last
  BY <1>4, <1>5
<1> HIDE DEF last
<1> QED
  BY <1>3, <1>6a, <1>12, <1>13 DEF on, more, target

-----------------------------------------------------------------------------
(* The pieces of a text. *)

\* What piece i of n is drawn as, from its source, the key of them all and the
\* width.
PieceRow(class, source, key, i, n, w) ==
  IF class = "fence" THEN Draw(source[2], "code", source[1], w)
  ELSE IF class = "quotedFence" THEN Draw(source, "quoted code", 0, w)
  ELSE IF class = "flatQuote" THEN Draw(source[2], source[1], 0, w)
  ELSE IF class \in {"lineLocal", "crossLine"} THEN Stitched(source, i, n, w)
  ELSE IF class = "table" THEN Draw(source, "row", key, w)
  ELSE FlattenRows([j \in DOMAIN source |-> Draw(source[j], "item", 0, w)])

\* The pieces p are drawn so.
Drawable(class, p, w) ==
  /\ Len(p.sources) \in Nat
  /\ p.redrawn \in {0, 1} /\ (p.redrawn = 0 => class \notin {"lineLocal", "crossLine"})
  /\ p.rows = [i \in 1..Len(p.sources) |->
                 PieceRow(class, p.sources[i], p.key, i, Len(p.sources), w)]

\* A function on the numbers up to n is n long.
LEMMA LengthOf ==
  ASSUME NEW n \in Nat, NEW f, DOMAIN f = 1..n
  PROVE  Len(f) = n
OBVIOUS

\* So are those of a fence.
LEMMA FencePieces ==
  ASSUME NEW t \in Seq(Line), NEW w
  PROVE  Drawable("fence", FencedPieces(t, w), w)
<1> DEFINE code == Code(t)
           lit == [i \in DOMAIN code |-> <<Context(code, i), code[i]>>]
           p == FencedPieces(t, w)
<1>1. DOMAIN code = 1..Len(code) /\ Len(code) \in Nat
  <2>1. Len(t) \in Nat
    OBVIOUS
  <2> DEFINE end == IF t[Len(t)].kind = "tick" THEN Len(t) - 1 ELSE Len(t)
  <2>2. end \in Int /\ end <= Len(t) /\ 2 \in Nat \ {0}
    BY <2>1
  <2>3. code = SubSeq(t, 2, end)
    BY DEF Code
  <2> HIDE DEF end, code
  <2>4. SubSeq(t, 2, end) \in Seq(Line)
    BY <2>2, PartOfText
  <2> QED
    BY <2>3, <2>4
<1>2. /\ p.sources = lit /\ p.redrawn = 0
      /\ p.rows = [i \in DOMAIN code |-> Draw(code[i], "code", lit[i][1], w)]
  BY DEF FencedPieces
<1> HIDE DEF code, p
<1>3. Len(lit) = Len(code)
  <2>1. DOMAIN lit = 1..Len(code)
    BY <1>1
  <2> HIDE DEF lit
  <2> QED
    BY <1>1, <2>1, LengthOf
<1>4. ASSUME NEW i \in DOMAIN code
      PROVE  Draw(code[i], "code", lit[i][1], w) = PieceRow("fence", lit[i], p.key, i, Len(lit), w)
  <2>1. lit[i][2] = code[i]
    OBVIOUS
  <2> HIDE DEF lit
  <2> QED
    BY <2>1 DEF PieceRow
<1> HIDE DEF lit
<1>5. [i \in DOMAIN code |-> Draw(code[i], "code", lit[i][1], w)]
      = [i \in 1..Len(lit) |-> PieceRow("fence", lit[i], p.key, i, Len(lit), w)]
  BY <1>1, <1>3, <1>4
<1>6. Drawable("fence", p, w)
  BY <1>1, <1>2, <1>3, <1>5 DEF Drawable
<1> QED
  BY <1>6 DEF p

\* The tail of a text, a fence in a quotation or a table.
LEMMA TailPieces ==
  ASSUME NEW t \in Seq(Line), t # <<>>, NEW w
  PROVE  Drawable("quotedFence", QuotedFencePieces(t, w), w) /\ Drawable("table", TablePieces(t, w), w)
<1> DEFINE rest == Tail(t)
           q == QuotedFencePieces(t, w)
           p == TablePieces(t, w)
<1>1. rest \in Seq(Line) /\ DOMAIN rest = 1..Len(rest) /\ Len(rest) \in Nat
      /\ \A i \in DOMAIN rest : rest[i] = t[i + 1]
  OBVIOUS
<1>2. /\ q.sources = rest /\ q.redrawn = 1
      /\ q.rows = [i \in DOMAIN rest |-> Draw(t[i + 1], "quoted code", 0, w)]
  BY DEF QuotedFencePieces
<1>3. /\ p.sources = rest /\ p.redrawn = 0 /\ p.key = Widest(rest)
      /\ p.rows = [i \in DOMAIN rest |-> Draw(rest[i], "row", Widest(rest), w)]
  BY DEF TablePieces
<1> HIDE DEF rest, p, q
<1>4. Drawable("quotedFence", q, w)
  BY <1>1, <1>2 DEF Drawable, PieceRow
<1>5. Drawable("table", p, w)
  BY <1>1, <1>3 DEF Drawable, PieceRow
<1> QED
  BY <1>4, <1>5 DEF p, q

\* The lines of a quotation.
LEMMA FlatPieces ==
  ASSUME NEW t \in Seq(Line), NEW w
  PROVE  Drawable("flatQuote", FlatQuotePieces(t, w), w)
<1> DEFINE sources == [i \in DOMAIN t |-> <<Place(i, Len(t)), t[i]>>]
           p == FlatQuotePieces(t, w)
<1>1. DOMAIN t = 1..Len(t) /\ Len(t) \in Nat
  OBVIOUS
<1>2. /\ p.sources = sources /\ p.redrawn = 0
      /\ p.rows = [i \in DOMAIN t |-> Draw(t[i], Place(i, Len(t)), 0, w)]
  BY DEF FlatQuotePieces
<1> HIDE DEF p
<1>3. Len(sources) = Len(t)
  <2>1. DOMAIN sources = 1..Len(t)
    BY <1>1
  <2> HIDE DEF sources
  <2> QED
    BY <1>1, <2>1, LengthOf
<1>4. ASSUME NEW i \in DOMAIN t
      PROVE  Draw(t[i], Place(i, Len(t)), 0, w) = PieceRow("flatQuote", sources[i], p.key, i, Len(sources), w)
  <2>1. sources[i][1] = Place(i, Len(t)) /\ sources[i][2] = t[i]
    OBVIOUS
  <2> HIDE DEF sources
  <2> QED
    BY <2>1 DEF PieceRow
<1> HIDE DEF sources
<1>5. [i \in DOMAIN t |-> Draw(t[i], Place(i, Len(t)), 0, w)]
      = [i \in 1..Len(sources) |-> PieceRow("flatQuote", sources[i], p.key, i, Len(sources), w)]
  BY <1>1, <1>3, <1>4
<1>6. Drawable("flatQuote", p, w)
  BY <1>1, <1>2, <1>3, <1>5 DEF Drawable
<1> QED
  BY <1>6 DEF p

\* The parts of a quotation.
LEMMA PartPieces ==
  ASSUME NEW parts, NEW n \in Nat, DOMAIN parts = 1..n, NEW class \in {"lineLocal", "crossLine"}, NEW w
  PROVE  Drawable(class, StitchedPieces(parts, w), w)
<1>1. Len(parts) = n
  BY LengthOf
<1> DEFINE p == StitchedPieces(parts, w)
<1>2. /\ p.sources = parts /\ p.redrawn = 1
      /\ p.rows = [i \in DOMAIN parts |-> Stitched(parts[i], i, Len(parts), w)]
  BY DEF StitchedPieces
<1> HIDE DEF p
<1>3. \A i : PieceRow(class, parts[i], p.key, i, Len(parts), w) = Stitched(parts[i], i, Len(parts), w)
  BY DEF PieceRow
<1>4. p.rows = [i \in 1..Len(parts) |-> PieceRow(class, parts[i], p.key, i, Len(parts), w)]
  BY <1>1, <1>2, <1>3
<1>5. Drawable(class, p, w)
  BY <1>1, <1>2, <1>4 DEF Drawable
<1> QED
  BY <1>5 DEF p

\* The items of a list.
LEMMA ItemPieces ==
  ASSUME NEW t \in Seq(Line), NEW class \in {"list", "quotedList"}, NEW w
  PROVE  Drawable(class, ListPieces(t, w), w)
<1> DEFINE items == Items(t)
           Of(item) == FlattenRows([j \in DOMAIN item |-> Draw(item[j], "item", 0, w)])
           p == ListPieces(t, w)
           starts == {i \in DOMAIN t : t[i].kind \in {"item", "entry"}}
           n == Cardinality(starts)
<1>1. n \in Nat
  <2>1. starts \subseteq 1..Len(t) /\ Len(t) \in Nat
    OBVIOUS
  <2> HIDE DEF starts
  <2> QED
    BY <2>1, PositionsCounted
<1>2. DOMAIN items = 1..n
  BY DEF Items, Ascending
<1>3. /\ p.sources = items /\ p.redrawn = 0
      /\ p.rows = [i \in DOMAIN items |-> Of(items[i])]
  BY DEF ListPieces
<1> HIDE DEF n, items, p
<1>4. Len(items) = n
  BY <1>1, <1>2, LengthOf
<1>5. Drawable(class, p, w)
  BY <1>1, <1>2, <1>3, <1>4 DEF Drawable, PieceRow
<1> QED
  BY <1>5 DEF p

\* So the pieces of every text are drawn each from its source, its place and the
\* key of them all.
LEMMA PiecesDrawn ==
  ASSUME NEW t \in Seq(Line), NEW class \in PieceClass, ClassOf(t, Structured) = class, NEW w
  PROVE  Drawable(class, Pieces(class, t, w), w)
<1>0. DOMAIN t = 1..Len(t) /\ Len(t) \in Nat
  OBVIOUS
<1>1. CASE class = "fence"
  BY <1>1, FencePieces DEF Pieces
<1>2. CASE class \in {"quotedFence", "table"}
  <2>1. QuotedFence(t, StructuredLines) \/ StrictTable(t, StructuredLines)
    BY <1>2 DEF ClassOf, Structured, Limited
  <2>2. t # <<>>
    BY <2>1 DEF QuotedFence, StrictTable
  <2>3. Drawable("quotedFence", QuotedFencePieces(t, w), w) /\ Drawable("table", TablePieces(t, w), w)
    BY <2>2, TailPieces
  <2> QED
    BY <1>2, <2>3 DEF Pieces
<1>3. CASE class = "flatQuote"
  BY <1>3, FlatPieces DEF Pieces
<1>4. CASE class = "lineLocal"
  <2> DEFINE parts == [i \in DOMAIN t |-> <<t[i]>>]
  <2>1. DOMAIN parts = 1..Len(t)
    BY <1>0
  <2>2. Pieces(class, t, w) = StitchedPieces(parts, w)
    BY <1>4 DEF Pieces, LineLocalPieces
  <2> HIDE DEF parts
  <2> QED
    BY <1>0, <1>4, <2>1, <2>2, PartPieces
<1>5. CASE class = "crossLine"
  <2> DEFINE parts == QuoteChunks(t)
             n == Cardinality(ChunkEnds(t))
  <2>1. n \in Nat
    <3>1. ChunkEnds(t) \subseteq 1..Len(t)
      BY <1>0 DEF ChunkEnds
    <3> QED
      BY <1>0, <3>1, PositionsCounted
  <2>2. DOMAIN parts = 1..n
    BY DEF QuoteChunks, Ascending
  <2>3. Pieces(class, t, w) = StitchedPieces(parts, w)
    BY <1>5 DEF Pieces, CrossLinePieces
  <2> HIDE DEF parts, n
  <2> QED
    BY <1>5, <2>1, <2>2, <2>3, PartPieces
<1>6. CASE class \in {"list", "quotedList"}
  <2>1. Pieces(class, t, w) = ListPieces(t, w)
    BY <1>6 DEF Pieces
  <2> QED
    BY <1>6, <2>1, ItemPieces
<1> QED
  BY <1>1, <1>2, <1>3, <1>4, <1>5, <1>6 DEF PieceClass

\* A part of a quotation that is not its last is drawn the same, whatever comes
\* after it.
LEMMA PlaceStays ==
  ASSUME NEW class, NEW source, NEW key, NEW w, NEW i \in Nat \ {0}, NEW m \in Nat, NEW n \in Nat,
         class \in {"lineLocal", "crossLine"} => i < m /\ i < n
  PROVE  PieceRow(class, source, key, i, m, w) = PieceRow(class, source, key, i, n, w)
<1>1. CASE class \in {"lineLocal", "crossLine"}
  <2>1. Place(i, m) = Place(i, n)
    BY <1>1 DEF Place
  <2>2. Stitched(source, i, m, w) = Stitched(source, i, n, w)
    BY <2>1 DEF Stitched
  <2> QED
    BY <1>1, <2>2 DEF PieceRow
<1>2. CASE class \notin {"lineLocal", "crossLine"}
  BY <1>2 DEF PieceRow
<1> QED
  BY <1>1, <1>2

-----------------------------------------------------------------------------
(* The components. *)

\* What a component consists of.
Fields == {"class", "raw", "kept", "cached", "validated", "rejected"}

\* What a component that draws in pieces keeps is drawn so.
KeepsPieces(c) ==
  c.class \in PieceClass /\ c.kept # Nothing =>
    /\ Len(c.kept.sources) \in Nat
    /\ \A i \in 1..Len(c.kept.sources) :
         c.kept.rows[i] = PieceRow(c.class, c.kept.sources[i], c.kept.key, i,
                                   Len(c.kept.sources), c.kept.width)

\* What a component of one line keeps is a line wrapped, with the markup of the
\* one it has.
KeepsWrapped(c) ==
  c.class \in {"plain", "inline"} /\ c.kept # Nothing =>
    /\ c.kept.source \in Seq(Line) /\ Len(c.kept.source) = 1
    /\ c.kept.source[1].mark = c.raw[1].mark
    /\ c.kept.rows = WrapFrom(c.kept.source[1], 0, c.kept.width)

\* A component is of the class of its text, keeps what it says, and trusts only
\* pieces that add up to the whole.
ComponentOK(c) ==
  /\ DOMAIN c = Fields
  /\ c.class \in PieceClass \cup {"plain", "inline", "markdown"}
  /\ c.raw \in Seq(Line)
  /\ c.class # "markdown" => ClassOf(c.raw, Structured) = c.class
  /\ KeepsPieces(c) /\ KeepsWrapped(c)
  /\ c.class \in PieceClass /\ c.cached # Nothing => c.cached.rows = Whole(c.raw, c.cached.width)
  /\ \A w \in c.validated : <<c.class, w>> \notin Misdrawn

\* A segment has the component for its text.
SegmentOK(s) ==
  /\ DOMAIN s = {"seg", "comp"} /\ s.seg \in Segment
  /\ s.comp.raw = s.seg.lines
  /\ IF s.seg.diagram THEN DOMAIN s.comp = Fields /\ s.comp.class = "diagram"
     ELSE ComponentOK(s.comp)

\* The text is one, every segment has a component that is right for it, and what
\* was drawn last is the text.
MarkdownInv ==
  /\ sample \in Sample /\ text \in Seq(Line)
  /\ \A i \in DOMAIN rendered : SegmentOK(rendered[i])
  /\ whole # Nothing => whole.rows = WholeText(text, whole.width)
  /\ ScreenShowsTheText

-----------------------------------------------------------------------------

\* A text that a component of one line is made for is one line.
LEMMA OneLine ==
  ASSUME NEW t \in Seq(Line), ClassOf(t, Structured) \in {"plain", "inline"}
  PROVE  /\ Len(t) = 1 /\ t[1] \in Line
         /\ ClassOf(t, Structured) = "plain" => Plain(t)
         /\ ClassOf(t, Structured) = "inline" => StableInline(t)
<1>1. /\ ClassOf(t, Structured) = "plain" => Plain(t)
      /\ ClassOf(t, Structured) = "inline" => StableInline(t)
  BY DEF ClassOf
<1>2. Len(t) = 1
  BY <1>1 DEF Plain, StableInline
<1>3. t[1] \in Line
  BY <1>2
<1> QED
  BY <1>1, <1>2, <1>3

\* A component just made.
LEMMA NewComponent ==
  ASSUME NEW t \in Seq(Line), NEW class \in PieceClass \cup {"plain", "inline", "markdown"},
         class # "markdown" => ClassOf(t, Structured) = class
  PROVE  ComponentOK(Component(class, t)) /\ Component(class, t).raw = t
<1> DEFINE c == Component(class, t)
<1>1. /\ DOMAIN c = Fields /\ c.class = class /\ c.raw = t /\ c.kept = Nothing
      /\ c.cached = Nothing /\ c.validated = {}
  BY DEF Component, Fields
<1> HIDE DEF c
<1>2. KeepsPieces(c) /\ KeepsWrapped(c)
  BY <1>1 DEF KeepsPieces, KeepsWrapped
<1>3. ComponentOK(c)
  BY <1>1, <1>2 DEF ComponentOK
<1> QED
  BY <1>1, <1>3 DEF c

\* Wrapping with what is kept gives what wrapping all of the line gives.
LEMMA Wrapped ==
  ASSUME NEW c, ComponentOK(c), c.class \in {"plain", "inline"}, NEW w \in Width
  PROVE  LET r == RenderWrapped(c, w)
         IN  /\ r.rows = WrapFrom(c.raw[1], 0, w)
             /\ ComponentOK(r.comp) /\ r.comp.raw = c.raw /\ r.comp.class = c.class
             /\ r.comp.validated = c.validated /\ r.comp.rejected = c.rejected
<1> DEFINE kept == c.kept
           grows == kept # Nothing /\ kept.width = w /\ GoesOn(kept.source, c.raw)
           last == IF grows THEN kept.rows[Len(kept.rows)].from ELSE 0
           rows == (IF grows THEN Front(kept.rows) ELSE <<>>) \o WrapFrom(c.raw[1], last, w)
           new == [width |-> w, source |-> c.raw, rows |-> rows]
           d == [c EXCEPT !.kept = new]
<1>1. RenderWrapped(c, w) = [comp |-> d, rows |-> rows]
  BY DEF RenderWrapped
<1>2. c.raw \in Seq(Line) /\ ClassOf(c.raw, Structured) \in {"plain", "inline"}
  BY DEF ComponentOK
<1>3. Len(c.raw) = 1 /\ c.raw[1] \in Line
  BY <1>2, OneLine
<1>4. w \in Nat \ {0}
  BY MarkdownAssumption
<1>5. rows = WrapFrom(c.raw[1], 0, w)
  <2>1. CASE grows
    <3>1. /\ kept.source \in Seq(Line) /\ Len(kept.source) = 1
          /\ kept.source[1].mark = c.raw[1].mark
          /\ kept.rows = WrapFrom(kept.source[1], 0, w)
      BY <2>1 DEF ComponentOK, KeepsWrapped
    <3>2. kept.source[1] \in Line
      BY <3>1
    <3>3. kept.source[1].size <= c.raw[1].size
      BY <2>1, <3>1 DEF GoesOn
    <3> DEFINE a == kept.source[1]
               b == c.raw[1]
               ra == kept.rows
    <3>4. rows = Front(ra) \o WrapFrom(b, ra[Len(ra)].from, w)
      BY <2>1
    <3>5. /\ a \in Line /\ b \in Line /\ a.size <= b.size /\ a.mark = b.mark
          /\ ra = WrapFrom(a, 0, w)
      BY <1>3, <3>1, <3>2, <3>3
    <3> HIDE DEF a, b, ra, rows
    <3>6. Front(ra) \o WrapFrom(b, ra[Len(ra)].from, w) = WrapFrom(b, 0, w)
      BY <1>4, <3>5, WrapGoesOn
    <3> QED
      BY <3>4, <3>6 DEF b
  <2>2. CASE ~grows
    <3>1. rows = <<>> \o WrapFrom(c.raw[1], 0, w)
      BY <2>2
    <3>2. WrapFrom(c.raw[1], 0, w) \in Seq(WrappedRow)
      <4>1. 0 \in Nat /\ 0 <= c.raw[1].size
        BY <1>3 DEF Line
      <4> QED
        BY <1>3, <1>4, <4>1, WrapTyped
    <3> HIDE DEF rows
    <3> QED
      BY <3>1, <3>2, ConcatEmptySeq
  <2> QED
    BY <2>1, <2>2
<1> HIDE DEF rows
<1>6. /\ DOMAIN d = Fields /\ d.class = c.class /\ d.raw = c.raw /\ d.kept = new
      /\ d.cached = c.cached /\ d.validated = c.validated /\ d.rejected = c.rejected
  BY DEF ComponentOK, Fields
<1>7. new.width = w /\ new.source = c.raw /\ new.rows = rows
  OBVIOUS
<1> HIDE DEF d, new
<1>8. KeepsWrapped(d)
  BY <1>2, <1>3, <1>5, <1>6, <1>7 DEF KeepsWrapped
<1>9. KeepsPieces(d)
  BY <1>6 DEF KeepsPieces, PieceClass
<1>10. ComponentOK(d)
  BY <1>6, <1>8, <1>9 DEF ComponentOK
<1> QED
  BY <1>1, <1>5, <1>6, <1>10

\* Drawing with what is kept gives the rows of all pieces.
LEMMA PiecesKept ==
  ASSUME NEW c, ComponentOK(c), c.class \in PieceClass, NEW w
  PROVE  LET p == Pieces(c.class, c.raw, w)
             d == Drawn(c, w, p)
         IN  /\ d.rows = p.rows /\ d.width = w
             /\ Len(d.sources) \in Nat
             /\ \A i \in 1..Len(d.sources) :
                  d.rows[i] = PieceRow(c.class, d.sources[i], d.key, i, Len(d.sources), w)
<1> DEFINE p == Pieces(c.class, c.raw, w)
           d == Drawn(c, w, p)
           n == Len(p.sources)
           kept == c.kept
           m == Len(kept.sources)
           usable == kept # Nothing /\ kept.width = w /\ kept.key = p.key
           limit == IF ~usable THEN 0 ELSE (IF m < n THEN m ELSE n) - p.redrawn
           Kept(i) == i <= limit /\ \A j \in 1..i : kept.sources[j] = p.sources[j]
<1>1. Drawable(c.class, p, w)
  <2>1. c.raw \in Seq(Line) /\ ClassOf(c.raw, Structured) = c.class
    BY DEF ComponentOK, PieceClass
  <2> QED
    BY <2>1, PiecesDrawn
<1> HIDE DEF p
<1>2. n \in Nat /\ p.redrawn \in {0, 1} /\ (p.redrawn = 0 => c.class \notin {"lineLocal", "crossLine"})
  BY <1>1 DEF Drawable
<1>3. p.rows = [i \in 1..n |-> PieceRow(c.class, p.sources[i], p.key, i, n, w)]
  BY <1>1 DEF Drawable
<1>4. /\ d.rows = [i \in DOMAIN p.rows |-> IF Kept(i) THEN kept.rows[i] ELSE p.rows[i]]
      /\ d.width = w /\ d.key = p.key /\ d.sources = p.sources
  BY DEF Drawn
<1>5. ASSUME NEW i \in 1..n, Kept(i) PROVE kept.rows[i] = p.rows[i]
  <2>1. usable /\ i \in Nat \ {0}
    BY <1>2, <1>5
  <2>2. /\ m \in Nat
        /\ \A j \in 1..m : kept.rows[j] = PieceRow(c.class, kept.sources[j], kept.key, j, m, kept.width)
    BY <2>1 DEF ComponentOK, KeepsPieces
  <2>3. i <= (IF m < n THEN m ELSE n) - p.redrawn /\ kept.sources[i] = p.sources[i]
    BY <1>5, <2>1
  <2>4. i \in 1..m /\ (c.class \in {"lineLocal", "crossLine"} => i < m /\ i < n)
    BY <1>2, <2>1, <2>2, <2>3
  <2>5. kept.rows[i] = PieceRow(c.class, p.sources[i], p.key, i, m, w)
    BY <2>1, <2>2, <2>3, <2>4
  <2>6. PieceRow(c.class, p.sources[i], p.key, i, m, w) = PieceRow(c.class, p.sources[i], p.key, i, n, w)
    BY <1>2, <2>1, <2>2, <2>4, PlaceStays
  <2> QED
    BY <1>3, <2>5, <2>6
<1> HIDE DEF Kept, d, n
<1>6. d.rows = p.rows
  BY <1>3, <1>4, <1>5
<1>7. Len(d.sources) = n
  BY <1>4 DEF n
<1>8. \A i \in 1..n : d.rows[i] = PieceRow(c.class, d.sources[i], d.key, i, n, w)
  BY <1>3, <1>4, <1>6
<1> QED
  BY <1>2, <1>4, <1>6, <1>7, <1>8 DEF d, p

\* Rows that differ from the whole are not shown as the whole.
LEMMA MisdrawnDiffers ==
  ASSUME NEW c, NEW w, NEW rows
  PROVE  /\ <<c.class, w>> \notin Misdrawn => Shown(c, w, rows) = rows
         /\ Shown(c, w, rows) = rows => <<c.class, w>> \notin Misdrawn
<1>1. <<>> # BlankRow
  BY DEF BlankRow
<1>2. \E other \in {<<>>, BlankRow} : other # rows
  BY <1>1
<1>3. (CHOOSE other \in {<<>>, BlankRow} : other # rows) # rows
  BY <1>2
<1> QED
  BY <1>3 DEF Shown

\* A component that gives up on its pieces shows the whole.
LEMMA Rejected ==
  ASSUME NEW c, ComponentOK(c), NEW w
  PROVE  LET r == Reject(c, w)
         IN  r.rows = Whole(c.raw, w) /\ ComponentOK(r.comp) /\ r.comp.raw = c.raw
<1> DEFINE d == [c EXCEPT !.rejected = @ \cup {w}]
<1>1. Reject(c, w) = [comp |-> d, rows |-> Whole(c.raw, w)]
  BY DEF Reject
<1>2. /\ DOMAIN d = Fields /\ d.class = c.class /\ d.raw = c.raw /\ d.kept = c.kept
      /\ d.cached = c.cached /\ d.validated = c.validated
  BY DEF ComponentOK, Fields
<1> HIDE DEF d
<1>3. KeepsPieces(d) /\ KeepsWrapped(d)
  BY <1>2 DEF ComponentOK, KeepsPieces, KeepsWrapped
<1>4. ComponentOK(d)
  BY <1>2, <1>3 DEF ComponentOK
<1> QED
  BY <1>1, <1>2, <1>4

\* A component that draws in pieces shows the whole.
LEMMA PiecesRendered ==
  ASSUME NEW c, ComponentOK(c), c.class \in PieceClass, NEW w
  PROVE  LET r == RenderPieces(c, w)
         IN  r.rows = Whole(c.raw, w) /\ ComponentOK(r.comp) /\ r.comp.raw = c.raw
<1>1. CASE c.cached # Nothing /\ c.cached.width = w
  <2>1. RenderPieces(c, w) = [comp |-> c, rows |-> c.cached.rows]
    BY <1>1 DEF RenderPieces
  <2> QED
    BY <1>1, <2>1 DEF ComponentOK
<1>2. CASE ~(c.cached # Nothing /\ c.cached.width = w) /\ w \in c.rejected
  <2>1. RenderPieces(c, w) = [comp |-> c, rows |-> Whole(c.raw, w)]
    BY <1>2 DEF RenderPieces
  <2> QED
    BY <2>1
<1>3. CASE ~(c.cached # Nothing /\ c.cached.width = w) /\ w \notin c.rejected
  <2> DEFINE p == Pieces(c.class, c.raw, w)
             d == Drawn(c, w, p)
             o == Optimized(c, w)
             e == [c EXCEPT !.validated = @ \cup {w}, !.kept = o.state,
                            !.cached = [width |-> w, rows |-> o.rows]]
  <2>1. RenderPieces(c, w) = TrustPieces(c, w, o)
    BY <1>3 DEF RenderPieces
  <2>2. /\ d.rows = p.rows /\ d.width = w
        /\ Len(d.sources) \in Nat
        /\ \A i \in 1..Len(d.sources) :
             d.rows[i] = PieceRow(c.class, d.sources[i], d.key, i, Len(d.sources), w)
    BY PiecesKept
  <2>3. o.state = d /\ o.rows = Shown(c, w, Assemble(p, d.rows))
    BY DEF Optimized, OfPieces, Assembled
  <2>4. Whole(c.raw, w) = AllPieces(p)
    <3>1. ClassOf(c.raw, Structured) = c.class
      BY DEF ComponentOK, PieceClass
    <3>2. c.class \notin {"plain", "inline", "markdown"}
      BY DEF PieceClass
    <3> QED
      BY <3>1, <3>2 DEF Whole, WholeOf
  <2>5. o.rows = Shown(c, w, Whole(c.raw, w))
    BY <2>2, <2>3, <2>4 DEF AllPieces
  <2> HIDE DEF o, d, p
  <2>6. CASE Len(o.rows) > MaxRows \/ (w \notin c.validated /\ o.rows # Whole(c.raw, w))
    <3>1. TrustPieces(c, w, o) = Reject(c, w)
      BY <2>6 DEF TrustPieces
    <3> QED
      BY <2>1, <3>1, Rejected
  <2>7. CASE ~(Len(o.rows) > MaxRows \/ (w \notin c.validated /\ o.rows # Whole(c.raw, w)))
    <3>1. TrustPieces(c, w, o) = [comp |-> e, rows |-> o.rows]
      BY <2>7 DEF TrustPieces
    <3>2. w \in c.validated => <<c.class, w>> \notin Misdrawn
      BY DEF ComponentOK
    <3>3. /\ <<c.class, w>> \notin Misdrawn => Shown(c, w, Whole(c.raw, w)) = Whole(c.raw, w)
          /\ Shown(c, w, Whole(c.raw, w)) = Whole(c.raw, w) => <<c.class, w>> \notin Misdrawn
      BY MisdrawnDiffers
    <3>4. o.rows = Whole(c.raw, w) /\ <<c.class, w>> \notin Misdrawn
      BY <2>5, <2>7, <3>2, <3>3
    <3>5. /\ DOMAIN e = Fields /\ e.class = c.class /\ e.raw = c.raw /\ e.kept = d
          /\ e.cached.width = w /\ e.cached.rows = o.rows /\ e.validated = c.validated \cup {w}
      BY <2>3 DEF ComponentOK, Fields
    <3> HIDE DEF e
    <3>6. KeepsPieces(e)
      BY <2>2, <3>5 DEF KeepsPieces
    <3>7. KeepsWrapped(e)
      BY <3>5 DEF KeepsWrapped, PieceClass
    <3>8. \A v \in e.validated : <<e.class, v>> \notin Misdrawn
      BY <3>4, <3>5 DEF ComponentOK
    <3>9. ComponentOK(e)
      BY <3>4, <3>5, <3>6, <3>7, <3>8 DEF ComponentOK
    <3> QED
      BY <2>1, <3>1, <3>4, <3>5, <3>9
  <2> QED
    BY <2>6, <2>7
<1> QED
  BY <1>1, <1>2, <1>3

\* So does one of a line with inline markup.
LEMMA InlineRendered ==
  ASSUME NEW c, ComponentOK(c), c.class = "inline", NEW w \in Width
  PROVE  LET r == RenderInline(c, w)
         IN  r.rows = Whole(c.raw, w) /\ ComponentOK(r.comp) /\ r.comp.raw = c.raw
<1>1. CASE w \in c.rejected
  BY <1>1 DEF RenderInline
<1>2. CASE w \notin c.rejected
  <2> DEFINE o == RenderWrapped(c, w)
             d == o.comp
             rows == Shown(d, w, o.rows)
             e == [d EXCEPT !.validated = @ \cup {w}]
  <2>1. RenderInline(c, w) = TrustInline(d, w, rows)
    BY <1>2 DEF RenderInline, InlineRows
  <2>2. /\ o.rows = WrapFrom(c.raw[1], 0, w)
        /\ ComponentOK(d) /\ d.raw = c.raw /\ d.class = c.class
    BY Wrapped
  <2> HIDE DEF o
  <2>3. o.rows = Whole(d.raw, w)
    <3>1. ClassOf(d.raw, Structured) = "inline"
      BY <2>2 DEF ComponentOK
    <3> QED
      BY <2>2, <3>1 DEF Whole, WholeOf
  <2> HIDE DEF d
  <2>4. rows = Shown(d, w, Whole(d.raw, w))
    BY <2>3
  <2> HIDE DEF rows
  <2>5. CASE w \notin d.validated /\ rows # Whole(d.raw, w)
    <3>1. TrustInline(d, w, rows) = Reject(d, w)
      BY <2>5 DEF TrustInline
    <3>2. /\ Reject(d, w).rows = Whole(d.raw, w) /\ ComponentOK(Reject(d, w).comp)
          /\ Reject(d, w).comp.raw = d.raw
      BY <2>2, Rejected
    <3> QED
      BY <2>1, <2>2, <3>1, <3>2
  <2>6. CASE ~(w \notin d.validated /\ rows # Whole(d.raw, w))
    <3>1. TrustInline(d, w, rows) = [comp |-> e, rows |-> rows]
      BY <2>6 DEF TrustInline
    <3>2. w \in d.validated => <<d.class, w>> \notin Misdrawn
      BY <2>2 DEF ComponentOK
    <3>3. /\ <<d.class, w>> \notin Misdrawn => Shown(d, w, Whole(d.raw, w)) = Whole(d.raw, w)
          /\ Shown(d, w, Whole(d.raw, w)) = Whole(d.raw, w) => <<d.class, w>> \notin Misdrawn
      BY MisdrawnDiffers
    <3>4. rows = Whole(d.raw, w) /\ <<d.class, w>> \notin Misdrawn
      BY <2>4, <2>6, <3>2, <3>3
    <3>5. /\ DOMAIN e = Fields /\ e.class = d.class /\ e.raw = d.raw /\ e.kept = d.kept
          /\ e.cached = d.cached /\ e.validated = d.validated \cup {w}
      BY <2>2 DEF ComponentOK, Fields
    <3> HIDE DEF e
    <3>6. KeepsPieces(e) /\ KeepsWrapped(e)
      BY <2>2, <3>5 DEF ComponentOK, KeepsPieces, KeepsWrapped
    <3>7. \A v \in e.validated : <<e.class, v>> \notin Misdrawn
      BY <2>2, <3>4, <3>5 DEF ComponentOK
    <3>8. ComponentOK(e)
      BY <2>2, <3>5, <3>6, <3>7 DEF ComponentOK
    <3> QED
      BY <2>1, <2>2, <3>1, <3>4, <3>5, <3>8
  <2> QED
    BY <2>5, <2>6
<1> QED
  BY <1>1, <1>2

\* Whatever component a segment has, it is rendered as the whole of it, and the
\* component is right afterwards too.
LEMMA SegmentRendered ==
  ASSUME NEW s, SegmentOK(s), NEW w \in Width
  PROVE  LET r == RenderComponent(s.comp, w)
         IN  r.rows = WholeSegment(s.seg, w) /\ SegmentOK([s EXCEPT !.comp = r.comp])
<1> DEFINE c == s.comp
           r == RenderComponent(c, w)
           e == [s EXCEPT !.comp = r.comp]
<1>0. DOMAIN s = {"seg", "comp"} /\ s.seg \in Segment /\ c.raw = s.seg.lines
  BY DEF SegmentOK
<1>1. DOMAIN e = {"seg", "comp"} /\ e.seg = s.seg /\ e.comp = r.comp
  BY <1>0
<1>2. CASE s.seg.diagram
  <2>1. DOMAIN c = Fields /\ c.class = "diagram"
    BY <1>2 DEF SegmentOK
  <2>2. r = [comp |-> c, rows |-> <<[diagram |-> c.raw, width |-> w]>>]
    BY <2>1 DEF RenderComponent
  <2>3. r.rows = WholeSegment(s.seg, w)
    BY <1>0, <1>2, <2>2 DEF WholeSegment
  <2>4. e.comp = c
    BY <1>1, <2>2
  <2> HIDE DEF e, c, r
  <2>5. SegmentOK(e)
    BY <1>0, <1>1, <1>2, <2>1, <2>4 DEF SegmentOK
  <2> QED
    BY <2>3, <2>5 DEF e, c, r
<1>3. CASE ~s.seg.diagram
  <2>1. ComponentOK(c)
    BY <1>3 DEF SegmentOK
  <2>2. c.class \in PieceClass \cup {"plain", "inline", "markdown"}
    BY <2>1 DEF ComponentOK
  <2> HIDE DEF c
  <2>3. r.rows = Whole(c.raw, w) /\ ComponentOK(r.comp) /\ r.comp.raw = c.raw
    <3>1. CASE c.class \in PieceClass
      <4>1. r = RenderPieces(c, w)
        BY <3>1 DEF RenderComponent, PieceClass
      <4> HIDE DEF r
      <4> QED
        BY <2>1, <3>1, <4>1, PiecesRendered
    <3>2. CASE c.class = "plain"
      <4>1. r = RenderWrapped(c, w)
        BY <3>2 DEF RenderComponent
      <4>2. Whole(c.raw, w) = WrapFrom(c.raw[1], 0, w)
        BY <2>1, <3>2 DEF ComponentOK, Whole, WholeOf
      <4>3. /\ RenderWrapped(c, w).rows = WrapFrom(c.raw[1], 0, w)
            /\ ComponentOK(RenderWrapped(c, w).comp) /\ RenderWrapped(c, w).comp.raw = c.raw
        BY <2>1, <3>2, Wrapped
      <4> HIDE DEF r
      <4> QED
        BY <4>1, <4>2, <4>3
    <3>3. CASE c.class = "inline"
      <4>1. r = RenderInline(c, w)
        BY <3>3 DEF RenderComponent
      <4> HIDE DEF r
      <4> QED
        BY <2>1, <3>3, <4>1, InlineRendered
    <3>4. CASE c.class = "markdown"
      <4>1. r = [comp |-> c, rows |-> Whole(c.raw, w)]
        BY <3>4 DEF RenderComponent
      <4> HIDE DEF r
      <4> QED
        BY <2>1, <4>1
    <3> HIDE DEF r
    <3> QED
      BY <2>2, <3>1, <3>2, <3>3, <3>4
  <2> HIDE DEF e, r
  <2>4. r.rows = WholeSegment(s.seg, w)
    BY <1>0, <1>3, <2>3 DEF WholeSegment
  <2>5. SegmentOK(e)
    BY <1>0, <1>1, <1>3, <2>3 DEF SegmentOK
  <2> QED
    BY <2>4, <2>5 DEF e, r, c
<1> QED
  BY <1>2, <1>3

\* A component that takes the longer text.
LEMMA AppendedOK ==
  ASSUME NEW c, ComponentOK(c), c.class \notin {"plain", "markdown"}, NEW t \in Seq(Line), TryAppend(c, t)
  PROVE  ComponentOK(Appended(c, t)) /\ Appended(c, t).raw = t
<1>0. /\ DOMAIN c = Fields /\ c.raw \in Seq(Line) /\ ClassOf(c.raw, Structured) = c.class
      /\ c.class \in PieceClass \cup {"inline"}
  BY DEF ComponentOK
<1>1. ClassOf(t, Structured) = c.class /\ (c.class = "inline" => t[1].mark = c.raw[1].mark)
  <2>1. CASE c.class = "inline"
    <3>1. Len(c.raw) = 1 /\ c.raw[1] \in Line /\ StableInline(c.raw)
      BY <1>0, <2>1, OneLine
    <3>2. Len(t) = 1 /\ t[1].mark = c.raw[1].mark /\ GoesOn(c.raw, t)
      BY <2>1 DEF TryAppend
    <3>3. c.raw[1].kind = "text" /\ c.raw[1].mark \in 1..(c.raw[1].size - 1)
      BY <3>1 DEF StableInline
    <3>4. t[1].kind = "text" /\ c.raw[1].size <= t[1].size
      BY <3>1, <3>2, <3>3 DEF GoesOn, EmphasisGrows
    <3>5. t[1] \in Line
      <4>1. Len(t) = 1
        BY <3>2
      <4>2. 1 \in 1..Len(t)
        BY <4>1
      <4> QED
        BY <4>2, ElementOfSeq
    <3>6. t[1].mark \in 1..(t[1].size - 1)
      BY <3>1, <3>2, <3>3, <3>4, <3>5 DEF Line
    <3>7. StableInline(t) /\ ~Plain(t)
      BY <3>2, <3>4, <3>6 DEF StableInline, Plain
    <3>8. \A l :
         /\ StrictFence(t, l) => t[1].kind \in {"fence", "json", "script"}
         /\ QuotedFence(t, l) => t[1].kind = "opener"
         /\ StrictTable(t, l) => t[1].kind = "head"
         /\ FlatQuote(t) => t[1].kind = "quote"
         /\ LineLocalQuote(t, l) => t[1].kind \in {"quote", "deep"}
         /\ CrossLineQuote(t, l) => t[1].kind \in {"quote", "half"}
         /\ QuotedList(t, l) => t[1].kind = "entry"
      BY FirstLineTells
    <3>9. ClassOf(t, Structured) = "inline"
      BY <3>4, <3>7, <3>8 DEF ClassOf
    <3> QED
      BY <2>1, <3>2, <3>9
  <2>2. CASE c.class # "inline"
    BY <2>2 DEF TryAppend
  <2> QED
    BY <2>1, <2>2
<1>2. CASE Appended(c, t) = Component(c.class, t)
  BY <1>0, <1>1, <1>2, NewComponent
<1>3. CASE Appended(c, t) = [c EXCEPT !.raw = t, !.cached = Nothing]
  <2> DEFINE d == [c EXCEPT !.raw = t, !.cached = Nothing]
  <2>1. /\ DOMAIN d = Fields /\ d.class = c.class /\ d.raw = t /\ d.kept = c.kept
        /\ d.cached = Nothing /\ d.validated = c.validated
    BY <1>0 DEF Fields
  <2> HIDE DEF d
  <2>2. KeepsPieces(d)
    BY <2>1 DEF ComponentOK, KeepsPieces
  <2>3. KeepsWrapped(d)
    BY <1>1, <2>1 DEF ComponentOK, KeepsWrapped
  <2>4. ComponentOK(d)
    BY <1>1, <2>1, <2>2, <2>3 DEF ComponentOK
  <2> QED
    BY <1>3, <2>1, <2>4 DEF d
<1> QED
  BY <1>2, <1>3 DEF Appended

\* A plain component that gets another plain line.
LEMMA PlainOK ==
  ASSUME NEW c, ComponentOK(c), c.class = "plain", NEW t \in Seq(Line), Plain(t)
  PROVE  ComponentOK(SetPlain(c, t)) /\ SetPlain(c, t).raw = t
<1> DEFINE kept == IF GoesOn(c.raw, t) THEN c.kept ELSE Nothing
           d == SetPlain(c, t)
<1>1. DOMAIN c = Fields /\ c.raw \in Seq(Line) /\ ClassOf(c.raw, Structured) = "plain"
  BY DEF ComponentOK
<1>2. d = [c EXCEPT !.raw = t, !.cached = Nothing, !.kept = kept]
  BY DEF SetPlain
<1>3. /\ DOMAIN d = Fields /\ d.class = c.class /\ d.raw = t /\ d.kept = kept
      /\ d.cached = Nothing /\ d.validated = c.validated
  BY <1>1, <1>2 DEF Fields
<1> HIDE DEF d
<1>4. c.raw[1].mark = 0 /\ t[1].mark = 0
  <2>1. Plain(c.raw)
    BY <1>1, OneLine
  <2> QED
    BY <2>1 DEF Plain
<1>5. KeepsWrapped(d)
  BY <1>3, <1>4 DEF ComponentOK, KeepsWrapped
<1>6. KeepsPieces(d)
  BY <1>3 DEF KeepsPieces, PieceClass
<1>7. ClassOf(t, Structured) = "plain"
  BY DEF ClassOf
<1>8. ComponentOK(d)
  BY <1>3, <1>5, <1>6, <1>7 DEF ComponentOK
<1> QED
  BY <1>3, <1>8 DEF d

\* Every segment gets a component that is right for it.
LEMMA SyncedOK ==
  ASSUME NEW old, \A i \in DOMAIN old : SegmentOK(old[i]),
         NEW new \in Seq(Segment), NEW i \in DOMAIN new
  PROVE  SegmentOK(SyncSegment(old, new, i)) /\ SyncSegment(old, new, i).seg = new[i]
<1> DEFINE seg == new[i]
           had == i \in DOMAIN old
           prev == old[i]
           prose == had /\ ~prev.seg.diagram /\ ~seg.diagram
           grows == prose /\ GoesOn(prev.seg.lines, seg.lines)
           last == i = Len(new)
           limit == [c \in Limited |-> IF grows /\ prev.comp.class = c
                                       THEN StructuredLines ELSE InitialChunks]
           class == IF seg.diagram THEN "diagram" ELSE ClassOf(seg.lines, limit)
           With(c) == [seg |-> seg, comp |-> c]
           appends == /\ prose /\ last
                      /\ prev.comp.class \in {"list", "quotedList", "crossLine"} => grows
                      /\ prev.comp.class \notin {"plain", "markdown"}
                      /\ TryAppend(prev.comp, seg.lines)
           plain == prose /\ last /\ prev.comp.class = "plain" /\ class = "plain"
           markdown == prose /\ last /\ prev.comp.class = "markdown" /\ class = "markdown"
           synced == SyncSegment(old, new, i)
<1>1. seg \in Segment /\ seg.diagram \in BOOLEAN /\ seg.lines \in Seq(Line)
  <2>1. seg \in Segment
    OBVIOUS
  <2> HIDE DEF seg
  <2> QED
    BY <2>1 DEF Segment
<1>2. synced = IF had /\ prev.seg = seg THEN prev
               ELSE IF appends THEN With(Appended(prev.comp, seg.lines))
               ELSE IF plain THEN With(SetPlain(prev.comp, seg.lines))
               ELSE IF markdown THEN With([prev.comp EXCEPT !.raw = seg.lines])
               ELSE With(Component(class, seg.lines))
  BY DEF SyncSegment
<1>3. had => SegmentOK(prev)
  OBVIOUS
<1>4. ASSUME NEW c, ComponentOK(c), c.raw = seg.lines, ~seg.diagram
      PROVE  SegmentOK(With(c)) /\ With(c).seg = seg
  <2>1. DOMAIN With(c) = {"seg", "comp"} /\ With(c).seg = seg /\ With(c).comp = c
    OBVIOUS
  <2> HIDE DEF With, seg
  <2> QED
    BY <1>1, <1>4, <2>1 DEF SegmentOK
<1>5. prose => ComponentOK(prev.comp) /\ ~seg.diagram
  BY <1>3 DEF SegmentOK
<1>6. limit \in Limits
  <2>1. StructuredLines \in {InitialChunks, StructuredLines} /\ InitialChunks \in {InitialChunks, StructuredLines}
    OBVIOUS
  <2> HIDE DEF grows
  <2> QED
    BY <2>1 DEF Limits
<1> HIDE DEF limit
<1>7. ~seg.diagram => /\ class \in PieceClass \cup {"plain", "inline", "markdown"}
                      /\ class # "markdown" => ClassOf(seg.lines, Structured) = class
                      /\ class = "plain" => Plain(seg.lines)
  <2>1. ClassOf(seg.lines, limit) # "markdown" => ClassOf(seg.lines, Structured) = ClassOf(seg.lines, limit)
    BY <1>1, <1>6, ClassStays
  <2>2. ClassOf(seg.lines, limit) \in PieceClass \cup {"plain", "inline", "markdown"}
    BY DEF ClassOf, PieceClass
  <2>3. ClassOf(seg.lines, limit) = "plain" => Plain(seg.lines)
    BY DEF ClassOf
  <2> HIDE DEF seg
  <2> QED
    BY <2>1, <2>2, <2>3
<1> HIDE DEF class, synced
<1>8. CASE had /\ prev.seg = seg
  <2>1. synced = prev
    BY <1>2, <1>8, Zenon
  <2> HIDE DEF seg, prev
  <2> QED
    BY <1>3, <1>8, <2>1 DEF seg, synced
<1>9. CASE ~(had /\ prev.seg = seg) /\ appends
  <2>1. synced = With(Appended(prev.comp, seg.lines))
    BY <1>2, <1>9
  <2>2. ComponentOK(prev.comp) /\ ~seg.diagram /\ prev.comp.class \notin {"plain", "markdown"}
        /\ TryAppend(prev.comp, seg.lines)
    BY <1>5, <1>9
  <2> HIDE DEF seg, prev
  <2>3. ComponentOK(Appended(prev.comp, seg.lines)) /\ Appended(prev.comp, seg.lines).raw = seg.lines
    BY <1>1, <2>2, AppendedOK
  <2> HIDE DEF With
  <2> QED
    BY <1>4, <2>1, <2>2, <2>3 DEF seg, synced
<1>10. CASE ~(had /\ prev.seg = seg) /\ ~appends /\ plain
  <2>1. synced = With(SetPlain(prev.comp, seg.lines))
    BY <1>2, <1>10
  <2>2. ComponentOK(prev.comp) /\ ~seg.diagram /\ prev.comp.class = "plain" /\ Plain(seg.lines)
    BY <1>5, <1>7, <1>10
  <2> HIDE DEF seg, prev
  <2>3. ComponentOK(SetPlain(prev.comp, seg.lines)) /\ SetPlain(prev.comp, seg.lines).raw = seg.lines
    BY <1>1, <2>2, PlainOK
  <2> HIDE DEF With
  <2> QED
    BY <1>4, <2>1, <2>2, <2>3 DEF seg, synced
<1>11. CASE ~(had /\ prev.seg = seg) /\ ~appends /\ ~plain /\ markdown
  <2> DEFINE d == [prev.comp EXCEPT !.raw = seg.lines]
  <2>1. synced = With(d)
    BY <1>2, <1>11
  <2>2. ComponentOK(prev.comp) /\ ~seg.diagram /\ prev.comp.class = "markdown"
    BY <1>5, <1>11
  <2> HIDE DEF seg, prev
  <2>3. /\ DOMAIN d = Fields /\ d.class = "markdown" /\ d.raw = seg.lines
        /\ d.validated = prev.comp.validated
    BY <2>2 DEF ComponentOK, Fields
  <2> HIDE DEF d
  <2>4. KeepsPieces(d) /\ KeepsWrapped(d)
    BY <2>3 DEF KeepsPieces, KeepsWrapped, PieceClass
  <2>5. ComponentOK(d)
    BY <1>1, <2>2, <2>3, <2>4 DEF ComponentOK, PieceClass
  <2> HIDE DEF With
  <2> QED
    BY <1>4, <2>1, <2>2, <2>3, <2>5 DEF seg, synced
<1>12. CASE ~(had /\ prev.seg = seg) /\ ~appends /\ ~plain /\ ~markdown
  <2> DEFINE c == Component(class, seg.lines)
  <2>1. synced = With(c)
    BY <1>2, <1>12
  <2>2. CASE seg.diagram
    <3>1. class = "diagram"
      BY <2>2 DEF class
    <3>2. DOMAIN c = Fields /\ c.class = "diagram" /\ c.raw = seg.lines
      BY <3>1 DEF Component, Fields
    <3>3. DOMAIN With(c) = {"seg", "comp"} /\ With(c).seg = seg /\ With(c).comp = c
      OBVIOUS
    <3> HIDE DEF With, seg, c
    <3>4. SegmentOK(With(c))
      BY <1>1, <2>2, <3>2, <3>3 DEF SegmentOK
    <3> QED
      BY <2>1, <3>3, <3>4 DEF seg, synced
  <2>3. CASE ~seg.diagram
    <3> HIDE DEF seg
    <3>1. ComponentOK(c) /\ c.raw = seg.lines
      BY <1>1, <1>7, <2>3, NewComponent
    <3> HIDE DEF With, c
    <3> QED
      BY <1>4, <2>1, <2>3, <3>1 DEF seg, synced
  <2> QED
    BY <2>2, <2>3
<1> HIDE DEF synced
<1> QED
  BY <1>8, <1>9, <1>10, <1>11, <1>12 DEF synced

-----------------------------------------------------------------------------
(* The view. *)

\* The segments with their components are those of the text.
Shows(segs, t) ==
  /\ DOMAIN segs = DOMAIN Segments(t)
  /\ \A i \in DOMAIN segs : SegmentOK(segs[i]) /\ segs[i].seg = Segments(t)[i]

\* They are after they were synchronised with it.
LEMMA SyncedShows ==
  ASSUME NEW t \in Seq(Line), NEW old, \A i \in DOMAIN old : SegmentOK(old[i])
  PROVE  Shows(SyncSegments(old, t), t)
<1> DEFINE new == Segments(t)
           segs == SyncSegments(old, t)
<1>1. new \in Seq(Segment)
  BY SegmentsTyped
<1>2. segs = [i \in DOMAIN new |-> SyncSegment(old, new, i)]
  BY DEF SyncSegments, SyncAll
<1> HIDE DEF new, segs
<1>3. \A i \in DOMAIN new : SegmentOK(SyncSegment(old, new, i)) /\ SyncSegment(old, new, i).seg = new[i]
  BY <1>1, SyncedOK
<1>4. DOMAIN segs = DOMAIN new /\ \A i \in DOMAIN segs : SegmentOK(segs[i]) /\ segs[i].seg = new[i]
  BY <1>2, <1>3
<1> QED
  BY <1>4 DEF Shows, new, segs

\* Rendered one by one they are the text as a whole.
LEMMA RenderedShows ==
  ASSUME NEW t \in Seq(Line), NEW segs, Shows(segs, t), NEW w \in Width
  PROVE  Shows(RenderAll(segs, w).segs, t) /\ RenderAll(segs, w).rows = WholeText(t, w)
<1> DEFINE all == [i \in DOMAIN segs |-> RenderComponent(segs[i].comp, w)]
           next == [i \in DOMAIN segs |-> [segs[i] EXCEPT !.comp = all[i].comp]]
           rows == [i \in DOMAIN segs |-> all[i].rows]
           new == Segments(t)
<1>1. RenderAll(segs, w).segs = next /\ RenderAll(segs, w).rows = Join(rows)
  BY DEF RenderAll, Gather
<1>2. DOMAIN segs = DOMAIN new /\ \A i \in DOMAIN segs : SegmentOK(segs[i]) /\ segs[i].seg = new[i]
  BY DEF Shows
<1> HIDE DEF new
<1>3. ASSUME NEW i \in DOMAIN segs
      PROVE  /\ all[i].rows = WholeSegment(new[i], w)
             /\ SegmentOK(next[i]) /\ next[i].seg = new[i]
  <2> DEFINE s == segs[i]
             r == RenderComponent(s.comp, w)
             e == [s EXCEPT !.comp = r.comp]
  <2>1. SegmentOK(s) /\ s.seg = new[i]
    BY <1>2
  <2>2. all[i] = r /\ next[i] = e
    OBVIOUS
  <2> HIDE DEF s, all, next
  <2>3. r.rows = WholeSegment(s.seg, w) /\ SegmentOK(e)
    BY <2>1, SegmentRendered
  <2>4. e.seg = s.seg
    BY <2>1 DEF SegmentOK
  <2> HIDE DEF r, e
  <2> QED
    BY <2>1, <2>2, <2>3, <2>4
<1>4. rows = [i \in DOMAIN new |-> WholeSegment(new[i], w)]
  <2> HIDE DEF all
  <2> QED
    BY <1>2, <1>3
<1>5. DOMAIN next = DOMAIN new
  BY <1>2
<1> HIDE DEF rows, next
<1>6. Shows(next, t)
  BY <1>2, <1>3, <1>5 DEF Shows, new
<1>7. WholeText(t, w) = Join([i \in DOMAIN new |-> WholeSegment(new[i], w)])
  BY DEF WholeText, WholeSegments, new
<1> QED
  BY <1>1, <1>4, <1>6, <1>7

\* A segment that releases what it keeps is right still.
LEMMA ReleasedOK ==
  ASSUME NEW segs, NEW i \in DOMAIN segs, SegmentOK(segs[i])
  PROVE  SegmentOK(Released(segs)[i]) /\ Released(segs)[i].seg = segs[i].seg
<1> DEFINE s == segs[i]
           c == s.comp
           d == Component(c.class, c.raw)
           e == [s EXCEPT !.comp = d]
<1>1. Released(segs)[i] = e
  BY DEF Released, InvalidateComponent
<1>2. DOMAIN s = {"seg", "comp"} /\ s.seg \in Segment /\ c.raw = s.seg.lines
  BY DEF SegmentOK
<1>3. DOMAIN e = {"seg", "comp"} /\ e.seg = s.seg /\ e.comp = d
  BY <1>2
<1>4. CASE s.seg.diagram
  <2>1. c.class = "diagram"
    BY <1>4 DEF SegmentOK
  <2>2. DOMAIN d = Fields /\ d.class = "diagram" /\ d.raw = c.raw
    BY <2>1 DEF Component, Fields
  <2> HIDE DEF e, d, c, s
  <2>3. SegmentOK(e)
    BY <1>2, <1>3, <1>4, <2>2 DEF SegmentOK
  <2> QED
    BY <1>1, <1>3, <2>3 DEF s
<1>5. CASE ~s.seg.diagram
  <2>1. ComponentOK(c)
    BY <1>5 DEF SegmentOK
  <2> HIDE DEF c
  <2>2. /\ c.raw \in Seq(Line) /\ c.class \in PieceClass \cup {"plain", "inline", "markdown"}
        /\ c.class # "markdown" => ClassOf(c.raw, Structured) = c.class
    BY <2>1 DEF ComponentOK
  <2>3. ComponentOK(d) /\ d.raw = c.raw
    BY <2>2, NewComponent
  <2> HIDE DEF e, d, s
  <2>4. SegmentOK(e)
    BY <1>2, <1>3, <1>5, <2>3 DEF SegmentOK
  <2> QED
    BY <1>1, <1>3, <2>4 DEF s
<1> QED
  BY <1>4, <1>5

\* So the segments of a text are.
LEMMA ReleasedShows ==
  ASSUME NEW t \in Seq(Line), NEW segs, Shows(segs, t)
  PROVE  Shows(Released(segs), t)
<1>1. DOMAIN Released(segs) = DOMAIN segs
  BY DEF Released
<1>2. ASSUME NEW i \in DOMAIN segs
      PROVE  SegmentOK(Released(segs)[i]) /\ Released(segs)[i].seg = segs[i].seg
  <2>1. SegmentOK(segs[i])
    BY DEF Shows
  <2> QED
    BY <2>1, ReleasedOK
<1> QED
  BY <1>1, <1>2 DEF Shows

\* A new line is one, and a line that grows stays one.
LEMMA LinesGrow ==
  /\ \A k \in LineKind : Fresh(k) \in Line
  /\ \A l \in Line : /\ [l EXCEPT !.size = @ + 1] \in Line
                     /\ [l EXCEPT !.mark = l.size] \in Line
                     /\ [l EXCEPT !.kind = "quote", !.mark = l.size] \in Line
<1>1. \A k \in LineKind : Fresh(k) \in Line
  BY DEF Fresh, Line
<1>2. ASSUME NEW l \in Line
      PROVE  /\ [l EXCEPT !.size = @ + 1] \in Line
             /\ [l EXCEPT !.mark = l.size] \in Line
             /\ [l EXCEPT !.kind = "quote", !.mark = l.size] \in Line
  <2>1. l.size \in Nat \ {0} /\ l.size + 1 \in Nat \ {0} /\ l.size \in Nat
    BY DEF Line
  <2>2. "quote" \in LineKind
    BY DEF LineKind
  <2> QED
    BY <2>1, <2>2 DEF Line
<1> QED
  BY <1>1, <1>2

\* A text with its last line changed is a text.
LEMMA LineChanged ==
  ASSUME NEW t \in Seq(Line), NEW i \in 1..Len(t), NEW l \in Line
  PROVE  [t EXCEPT ![i] = l] \in Seq(Line)
OBVIOUS

\* The text that a delta makes is a text.
LEMMA AppendedText ==
  ASSUME sample \in Sample, text \in Seq(Line), AppendText
  PROVE  text' \in Seq(Line)
<1> DEFINE n == Len(text)
           l == text[n]
<1>1. sample.kinds \subseteq LineKind
  BY MarkdownAssumption
<1>2. ASSUME text # <<>>
      PROVE  /\ n \in 1..Len(text) /\ l \in Line /\ Last(text) = l
             /\ \A m \in Line : [text EXCEPT ![n] = m] \in Seq(Line)
  <2>1. n \in 1..Len(text)
    BY <1>2
  <2>2. l \in Line
    BY <2>1, ElementOfSeq
  <2>3. Last(text) = l
    BY DEF Last
  <2>4. \A m \in Line : [text EXCEPT ![n] = m] \in Seq(Line)
    BY <2>1, LineChanged
  <2> QED
    BY <2>1, <2>2, <2>3, <2>4
<1>3. CASE \E k \in sample.kinds : text' = Append(text, Fresh(k))
  <2>1. PICK k \in sample.kinds : text' = Append(text, Fresh(k))
    BY <1>3
  <2>2. Fresh(k) \in Line
    BY <1>1, LinesGrow
  <2>3. Append(text, Fresh(k)) \in Seq(Line)
    BY <2>2, AppendProperties
  <2> QED
    BY <2>1, <2>3
<1>4. CASE text # <<>> /\ text' = [text EXCEPT ![Len(text)].size = @ + 1]
  <2>1. text' = [text EXCEPT ![n] = [l EXCEPT !.size = @ + 1]]
    BY <1>4
  <2>2. [l EXCEPT !.size = @ + 1] \in Line
    BY <1>2, <1>4, LinesGrow
  <2> HIDE DEF l, n
  <2> QED
    BY <1>2, <1>4, <2>1, <2>2
<1>5. CASE text # <<>> /\ text' = [text EXCEPT ![Len(text)].mark = Last(text).size]
  <2>1. text' = [text EXCEPT ![n] = [l EXCEPT !.mark = l.size]]
    BY <1>2, <1>5
  <2>2. [l EXCEPT !.mark = l.size] \in Line
    BY <1>2, <1>5, LinesGrow
  <2> HIDE DEF l, n
  <2> QED
    BY <1>2, <1>5, <2>1, <2>2
<1>6. CASE text # <<>> /\ text' = [text EXCEPT ![Len(text)].kind = "quote",
                                               ![Len(text)].mark = Last(text).size]
  <2>1. text' = [text EXCEPT ![n] = [l EXCEPT !.kind = "quote", !.mark = l.size]]
    BY <1>2, <1>6
  <2>2. [l EXCEPT !.kind = "quote", !.mark = l.size] \in Line
    BY <1>2, <1>6, LinesGrow
  <2> HIDE DEF l, n
  <2> QED
    BY <1>2, <1>6, <2>1, <2>2
<1> QED
  BY <1>3, <1>4, <1>5, <1>6 DEF AppendText

\* So is the text that another one replaces it with.
LEMMA ReplacedText ==
  ASSUME sample \in Sample, text \in Seq(Line), SetText
  PROVE  text' \in Seq(Line)
<1>1. text # <<>> /\ Len(text) \in Nat /\ 1 \in 1..Len(text)
  BY DEF SetText
<1>2. CASE text' = Front(text)
  <2>1. 1 \in Nat \ {0} /\ Len(text) - 1 \in Int /\ Len(text) - 1 <= Len(text)
    BY <1>1
  <2>2. SubSeq(text, 1, Len(text) - 1) \in Seq(Line)
    BY <2>1, PartOfText
  <2> QED
    BY <1>2, <2>2 DEF Front
<1>3. CASE \E k \in sample.kinds : text' = [text EXCEPT ![1] = Fresh(k)]
  <2>1. PICK k \in sample.kinds : text' = [text EXCEPT ![1] = Fresh(k)]
    BY <1>3
  <2>2. sample.kinds \subseteq LineKind
    BY MarkdownAssumption
  <2>3. Fresh(k) \in Line
    BY <2>2, LinesGrow
  <2>4. [text EXCEPT ![1] = Fresh(k)] \in Seq(Line)
    BY <1>1, <2>3, LineChanged
  <2> QED
    BY <2>1, <2>4
<1> QED
  BY <1>2, <1>3 DEF SetText

\* The view starts with nothing.
LEMMA MarkdownStarts == MarkdownInit => MarkdownInv
  BY DEF MarkdownInit, MarkdownInv, ScreenShowsTheText

\* Every step keeps the components right and what is shown the text.
LEMMA MarkdownSteps ==
  ASSUME MarkdownInv, [MarkdownNext]_viewVars
  PROVE  MarkdownInv'
<1>0. /\ sample \in Sample /\ text \in Seq(Line)
      /\ \A i \in DOMAIN rendered : SegmentOK(rendered[i])
      /\ whole # Nothing => whole.rows = WholeText(text, whole.width)
      /\ screen # Nothing => screen.rows = WholeText(text, screen.width)
  BY DEF MarkdownInv, ScreenShowsTheText
<1>1. CASE AppendText
  <2>1. text' \in Seq(Line)
    BY <1>0, <1>1, AppendedText
  <2>2. whole' = Nothing /\ screen' = Nothing /\ UNCHANGED <<sample, rendered>>
    BY <1>1 DEF AppendText
  <2> QED
    BY <1>0, <2>1, <2>2 DEF MarkdownInv, ScreenShowsTheText
<1>2. CASE SetText
  <2>1. text' \in Seq(Line)
    BY <1>0, <1>2, ReplacedText
  <2>2. whole' = Nothing /\ screen' = Nothing /\ UNCHANGED <<sample, rendered>>
    BY <1>2 DEF SetText
  <2> QED
    BY <1>0, <2>1, <2>2 DEF MarkdownInv, ScreenShowsTheText
<1>3. CASE InvalidateView
  <2>1. rendered' = Released(rendered) /\ whole' = Nothing /\ UNCHANGED <<sample, text, screen>>
    BY <1>3 DEF InvalidateView
  <2>2. \A i \in DOMAIN rendered : SegmentOK(Released(rendered)[i])
    BY <1>0, ReleasedOK
  <2>3. DOMAIN Released(rendered) = DOMAIN rendered
    BY DEF Released
  <2> QED
    BY <1>0, <2>1, <2>2, <2>3 DEF MarkdownInv, ScreenShowsTheText
<1>4. ASSUME NEW w \in Width, RenderView(w) PROVE MarkdownInv'
  <2>1. UNCHANGED <<sample, text>>
    BY <1>4 DEF RenderView
  <2>2. CASE whole # Nothing /\ whole.width = w
    <3>1. screen' = [width |-> w, rows |-> whole.rows] /\ UNCHANGED <<rendered, whole>>
      BY <1>4, <2>2 DEF RenderView
    <3> QED
      BY <1>0, <2>1, <2>2, <3>1 DEF MarkdownInv, ScreenShowsTheText
  <2>3. CASE ~(whole # Nothing /\ whole.width = w)
    <3> DEFINE r == RenderAll(SyncSegments(rendered, text), w)
    <3>1. /\ rendered' = r.segs
          /\ whole' = [width |-> w, rows |-> r.rows] /\ screen' = [width |-> w, rows |-> r.rows]
      BY <1>4, <2>3 DEF RenderView, Show
    <3>2. Shows(SyncSegments(rendered, text), text)
      BY <1>0, SyncedShows
    <3>3. Shows(r.segs, text) /\ r.rows = WholeText(text, w)
      BY <1>0, <3>2, RenderedShows
    <3> HIDE DEF r
    <3>4. \A i \in DOMAIN r.segs : SegmentOK(r.segs[i])
      BY <3>3 DEF Shows
    <3> QED
      BY <1>0, <2>1, <3>1, <3>3, <3>4 DEF MarkdownInv, ScreenShowsTheText
  <2> QED
    BY <2>2, <2>3
<1>5. ASSUME NEW w \in Width, RenderViewWindow(w) PROVE MarkdownInv'
  <2> DEFINE measured == RenderAll(SyncSegments(rendered, text), w).segs
             r == RenderAll(Measured(w), w)
  <2>1. /\ rendered' = Released(r.segs) /\ screen' = [width |-> w, rows |-> r.rows]
        /\ whole' = Nothing /\ UNCHANGED <<sample, text>>
    BY <1>5 DEF RenderViewWindow, ShowWindow
  <2>2. Shows(SyncSegments(rendered, text), text)
    BY <1>0, SyncedShows
  <2>3. Shows(measured, text)
    BY <1>0, <2>2, RenderedShows
  <2> HIDE DEF measured
  <2>4. Shows(Released(measured), text)
    BY <1>0, <2>3, ReleasedShows
  <2>5. Shows(Measured(w), text)
    BY <2>4 DEF Measured, measured
  <2>6. Shows(r.segs, text) /\ r.rows = WholeText(text, w)
    BY <1>0, <2>5, RenderedShows
  <2> HIDE DEF r
  <2>7. Shows(Released(r.segs), text)
    BY <1>0, <2>6, ReleasedShows
  <2>8. \A i \in DOMAIN Released(r.segs) : SegmentOK(Released(r.segs)[i])
    BY <2>7 DEF Shows
  <2> QED
    BY <1>0, <2>1, <2>6, <2>8 DEF MarkdownInv, ScreenShowsTheText
<1>6. CASE UNCHANGED viewVars
  BY <1>0, <1>6 DEF viewVars, MarkdownInv, ScreenShowsTheText
<1> QED
  BY <1>1, <1>2, <1>3, <1>4, <1>5, <1>6 DEF MarkdownNext

\* Whatever was kept from an earlier rendering, what is on the screen is the text,
\* drawn for the width it was drawn for as the Markdown renderer draws it as a
\* whole (the caches of RichMarkdown and of its streaming components).
THEOREM ScreenIsTheText == MarkdownSpec => []ScreenShowsTheText
<1>1. MarkdownInit => MarkdownInv
  BY MarkdownStarts
<1>2. MarkdownInv /\ [MarkdownNext]_viewVars => MarkdownInv'
  BY MarkdownSteps
<1>3. MarkdownInv => ScreenShowsTheText
  BY DEF MarkdownInv
<1> QED
  BY <1>1, <1>2, <1>3, PTL DEF MarkdownSpec
=============================================================================
