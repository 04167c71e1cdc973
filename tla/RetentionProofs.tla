-------------------------- MODULE RetentionProofs --------------------------
(***************************************************************************)
(* What is kept of what comes to the terminal in pieces, for any pieces    *)
(* and any limits.                                                         *)
(*                                                                         *)
(* What the file changes of a turn become in turn-diff-store.ts and        *)
(* file-diff-budget.ts, for any reports, any positive budget and any       *)
(* number of tools and turns.  The budget's loops are followed by          *)
(* induction: over lines, hunks and files for one tool, then over the      *)
(* tools, from the last to the first; a size is a sum over what it counts, *)
(* and what was left out is always said by a mark.                         *)
(*                                                                         *)
(* What a long text becomes in thinking-view.ts and bounded-tool-text.ts:  *)
(* the end of it that is kept is the one from the first place on where it  *)
(* may begin, which does not depend on how much was left out before, and   *)
(* lines or chunks that go, whole ones and then the start of one, leave    *)
(* just that.                                                              *)
(***************************************************************************)
EXTENDS TurnDiffs, StreamTails, TLAPS, FiniteSetTheorems, SequenceTheorems, WellFoundedInduction

-----------------------------------------------------------------------------
(* Induction, and the loops of the budget. *)

\* Every set of numbers that is not empty has a least one.
LEMMA LeastNumber ==
  ASSUME NEW T, T \subseteq Nat, T # {}
  PROVE  \E m \in T : \A n \in T : m <= n
<1>1. IsWellFoundedOn(OpToRel(<, Nat), Nat)
  BY NatLessThanWellFounded
<1>2. PICK m \in T : \A n \in T : ~(<<n, m>> \in OpToRel(<, Nat))
  BY <1>1, WFMin
<1>3. ASSUME NEW n \in T PROVE m <= n
  <2>1. n \in Nat /\ m \in Nat
    OBVIOUS
  <2>2. n < m => <<n, m>> \in OpToRel(<, Nat)
    BY <2>1 DEF OpToRel
  <2>3. ~(n < m)
    BY <1>2, <2>2, Zenon
  <2> QED
    BY <2>1, <2>3
<1> QED
  BY <1>3

\* What Least picks.
LEMMA LeastFacts ==
  ASSUME NEW T, T \subseteq Nat, T # {}
  PROVE  Least(T) \in T /\ \A n \in T : Least(T) <= n
BY LeastNumber DEF Least

\* A set with 0 and with the successor of each of its members has them all.
LEMMA UpTo ==
  ASSUME NEW n \in Nat, NEW P, 0 \in P, \A i \in 1..n : i - 1 \in P => i \in P
  PROVE  \A i \in 0..n : i \in P
<1> DEFINE T == {i \in 0..n : i \notin P}
<1>1. ASSUME T # {} PROVE FALSE
  <2>1. T \subseteq Nat
    OBVIOUS
  <2>2. PICK m \in T : \A k \in T : m <= k
    <3> HIDE DEF T
    <3> QED
      BY <1>1, <2>1, LeastNumber
  <2>3. m \in 1..n /\ m - 1 \in 0..n /\ ~(m <= m - 1)
    OBVIOUS
  <2>4. m - 1 \in P
    BY <2>2, <2>3
  <2> QED
    BY <2>3, <2>4
<1> QED
  BY <1>1

\* Round i of a loop over s.
DiffRound(kind, c, acc, s, i) ==
  IF kind = "sum" THEN acc + s[i]
  ELSE IF kind = "line" THEN KeepLine(acc, s[i])
  ELSE IF kind = "hunk" THEN KeepHunk(acc, s[i])
  ELSE IF kind = "file" THEN KeepFile(acc, s[i])
  ELSE IF kind = "tool" THEN KeepTool(s[Len(s) + 1 - i], acc)
  ELSE IF kind = "all" THEN acc \o s[i].files
  ELSE IF kind = "without" THEN (IF s[i].tool = c THEN acc ELSE Append(acc, s[i]))
  ELSE IF kind = "flat" THEN acc \o s[i]
  ELSE IF kind = "breaks" THEN acc + (IF IsBreak(s[i]) THEN 1 ELSE 0)
  ELSE AddUnit(acc, s[i])

\* f has what a loop of this kind leaves after each of its first n rounds.
Loops(f, kind, c, base, s, n) ==
  f = [i \in 0..n |-> IF i = 0 THEN base ELSE DiffRound(kind, c, f[i - 1], s, i)]

\* There is such a function.
LEMMA LoopsExist ==
  ASSUME NEW kind, NEW c, NEW base, NEW s, NEW n \in Nat
  PROVE  \E f : Loops(f, kind, c, base, s, n)
<1> DEFINE P == {k \in 0..n : \E f : Loops(f, kind, c, base, s, k)}
<1>1. 0 \in P
  <2> DEFINE f == [i \in 0..0 |-> base]
  <2>1. f = [i \in 0..0 |-> IF i = 0 THEN base ELSE DiffRound(kind, c, f[i - 1], s, i)]
    OBVIOUS
  <2>2. Loops(f, kind, c, base, s, 0)
    BY <2>1 DEF Loops
  <2> HIDE DEF f
  <2> QED
    BY <2>2
<1>2. ASSUME NEW m \in 1..n, m - 1 \in P PROVE m \in P
  <2>1. m \in Nat /\ m # 0 /\ m - 1 \in Nat /\ m \in 0..n
    OBVIOUS
  <2>2. PICK f : Loops(f, kind, c, base, s, m - 1)
    BY <1>2
  <2> DEFINE g == [i \in 0..m |-> IF i = m THEN DiffRound(kind, c, f[m - 1], s, m) ELSE f[i]]
  <2>3. ASSUME NEW i \in 0..m
        PROVE  g[i] = IF i = 0 THEN base ELSE DiffRound(kind, c, g[i - 1], s, i)
    <3>1. CASE i = m
      <4>1. g[i - 1] = f[m - 1]
        BY <2>1, <3>1
      <4> QED
        BY <2>1, <3>1, <4>1
    <3>2. CASE i # m
      <4>1. i \in 0..(m - 1)
        BY <2>1, <3>2
      <4>2. f[i] = IF i = 0 THEN base ELSE DiffRound(kind, c, f[i - 1], s, i)
        BY <2>2, <4>1 DEF Loops
      <4>3. g[i] = f[i] /\ (i # 0 => g[i - 1] = f[i - 1])
        BY <2>1, <3>2, <4>1
      <4> HIDE DEF g
      <4> QED
        BY <4>2, <4>3
    <3> QED
      BY <3>1, <3>2
  <2>4. Loops(g, kind, c, base, s, m)
    BY <2>3 DEF Loops
  <2> HIDE DEF g
  <2> QED
    BY <2>1, <2>4
<1> HIDE DEF P
<1>3. \A k \in 0..n : k \in P
  BY <1>1, <1>2, UpTo
<1> QED
  BY <1>3 DEF P

\* Sums add one number at a time.
LEMMA SumToFollows ==
  ASSUME NEW f, Len(f) \in Nat
  PROVE  /\ SumTo(f)[0] = 0
         /\ \A i \in 1..Len(f) : SumTo(f)[i] = SumTo(f)[i - 1] + f[i]
<1> DEFINE Is(g) == g = [i \in 0..Len(f) |-> IF i = 0 THEN 0 ELSE g[i - 1] + f[i]]
           h == CHOOSE g : Is(g)
<1>1. SumTo(f) = h
  BY DEF SumTo
<1>2. \A g : Loops(g, "sum", 0, 0, f, Len(f)) <=> Is(g)
  BY DEF Loops, DiffRound
<1>3. \E g : Loops(g, "sum", 0, 0, f, Len(f))
  BY LoopsExist
<1> HIDE DEF Is
<1>4. Is(h)
  BY <1>2, <1>3
<1> HIDE DEF h
<1>5. h = [i \in 0..Len(f) |-> IF i = 0 THEN 0 ELSE h[i - 1] + f[i]]
  BY <1>4 DEF Is
<1>6. \A i \in 0..Len(f) : h[i] = IF i = 0 THEN 0 ELSE h[i - 1] + f[i]
  BY <1>5
<1>7. h[0] = 0
  BY <1>6
<1>8. ASSUME NEW i \in 1..Len(f) PROVE h[i] = h[i - 1] + f[i]
  <2>1. i \in 0..Len(f) /\ i # 0
    OBVIOUS
  <2> QED
    BY <1>6, <2>1
<1> QED
  BY <1>1, <1>7, <1>8

\* So do the lines of a hunk, one at a time,
LEMMA AfterLineFollows ==
  ASSUME NEW first, NEW lines, Len(lines) \in Nat
  PROVE  /\ AfterLine(first, lines)[0] = first
         /\ \A i \in 1..Len(lines) : AfterLine(first, lines)[i] = KeepLine(AfterLine(first, lines)[i - 1], lines[i])
<1> DEFINE Is(g) == g = [i \in 0..Len(lines) |-> IF i = 0 THEN first ELSE KeepLine(g[i - 1], lines[i])]
           h == CHOOSE g : Is(g)
<1>1. AfterLine(first, lines) = h
  BY DEF AfterLine
<1>2. \A g : Loops(g, "line", 0, first, lines, Len(lines)) <=> Is(g)
  BY DEF Loops, DiffRound
<1>3. \E g : Loops(g, "line", 0, first, lines, Len(lines))
  BY LoopsExist
<1> HIDE DEF Is
<1>4. Is(h)
  BY <1>2, <1>3
<1> HIDE DEF h
<1>5. h = [i \in 0..Len(lines) |-> IF i = 0 THEN first ELSE KeepLine(h[i - 1], lines[i])]
  BY <1>4 DEF Is
<1>6. \A i \in 0..Len(lines) : h[i] = IF i = 0 THEN first ELSE KeepLine(h[i - 1], lines[i])
  BY <1>5
<1>7. h[0] = first
  BY <1>6
<1>8. ASSUME NEW i \in 1..Len(lines) PROVE h[i] = KeepLine(h[i - 1], lines[i])
  <2>1. i \in 0..Len(lines) /\ i # 0
    OBVIOUS
  <2> QED
    BY <1>6, <2>1
<1> QED
  BY <1>1, <1>7, <1>8

\* the hunks of a file,
LEMMA AfterHunkFollows ==
  ASSUME NEW first, NEW hunks, Len(hunks) \in Nat
  PROVE  /\ AfterHunk(first, hunks)[0] = first
         /\ \A i \in 1..Len(hunks) : AfterHunk(first, hunks)[i] = KeepHunk(AfterHunk(first, hunks)[i - 1], hunks[i])
<1> DEFINE Is(g) == g = [i \in 0..Len(hunks) |-> IF i = 0 THEN first ELSE KeepHunk(g[i - 1], hunks[i])]
           h == CHOOSE g : Is(g)
<1>1. AfterHunk(first, hunks) = h
  BY DEF AfterHunk
<1>2. \A g : Loops(g, "hunk", 0, first, hunks, Len(hunks)) <=> Is(g)
  BY DEF Loops, DiffRound
<1>3. \E g : Loops(g, "hunk", 0, first, hunks, Len(hunks))
  BY LoopsExist
<1> HIDE DEF Is
<1>4. Is(h)
  BY <1>2, <1>3
<1> HIDE DEF h
<1>5. h = [i \in 0..Len(hunks) |-> IF i = 0 THEN first ELSE KeepHunk(h[i - 1], hunks[i])]
  BY <1>4 DEF Is
<1>6. \A i \in 0..Len(hunks) : h[i] = IF i = 0 THEN first ELSE KeepHunk(h[i - 1], hunks[i])
  BY <1>5
<1>7. h[0] = first
  BY <1>6
<1>8. ASSUME NEW i \in 1..Len(hunks) PROVE h[i] = KeepHunk(h[i - 1], hunks[i])
  <2>1. i \in 0..Len(hunks) /\ i # 0
    OBVIOUS
  <2> QED
    BY <1>6, <2>1
<1> QED
  BY <1>1, <1>7, <1>8

\* the files of a tool,
LEMMA AfterFileFollows ==
  ASSUME NEW limits, NEW files, Len(files) \in Nat
  PROVE  /\ AfterFile(limits, files)[0] = NoFiles(limits)
         /\ \A i \in 1..Len(files) : AfterFile(limits, files)[i] = KeepFile(AfterFile(limits, files)[i - 1], files[i])
<1> DEFINE Is(g) == g = [i \in 0..Len(files) |-> IF i = 0 THEN NoFiles(limits) ELSE KeepFile(g[i - 1], files[i])]
           h == CHOOSE g : Is(g)
<1>1. AfterFile(limits, files) = h
  BY DEF AfterFile
<1>2. \A g : Loops(g, "file", 0, NoFiles(limits), files, Len(files)) <=> Is(g)
  BY DEF Loops, DiffRound
<1>3. \E g : Loops(g, "file", 0, NoFiles(limits), files, Len(files))
  BY LoopsExist
<1> HIDE DEF Is
<1>4. Is(h)
  BY <1>2, <1>3
<1> HIDE DEF h
<1>5. h = [i \in 0..Len(files) |-> IF i = 0 THEN NoFiles(limits) ELSE KeepFile(h[i - 1], files[i])]
  BY <1>4 DEF Is
<1>6. \A i \in 0..Len(files) : h[i] = IF i = 0 THEN NoFiles(limits) ELSE KeepFile(h[i - 1], files[i])
  BY <1>5
<1>7. h[0] = NoFiles(limits)
  BY <1>6
<1>8. ASSUME NEW i \in 1..Len(files) PROVE h[i] = KeepFile(h[i - 1], files[i])
  <2>1. i \in 0..Len(files) /\ i # 0
    OBVIOUS
  <2> QED
    BY <1>6, <2>1
<1> QED
  BY <1>1, <1>7, <1>8

\* the tools, the last one first,
LEMMA AfterToolFollows ==
  ASSUME NEW tools, Len(tools) \in Nat
  PROVE  /\ AfterTool(tools)[0] = NoTools
         /\ \A i \in 1..Len(tools) : AfterTool(tools)[i] = KeepTool(tools[Len(tools) + 1 - i], AfterTool(tools)[i - 1])
<1> DEFINE Is(g) == g = [i \in 0..Len(tools) |-> IF i = 0 THEN NoTools ELSE KeepTool(tools[Len(tools) + 1 - i], g[i - 1])]
           h == CHOOSE g : Is(g)
<1>1. AfterTool(tools) = h
  BY DEF AfterTool
<1>2. \A g : Loops(g, "tool", 0, NoTools, tools, Len(tools)) <=> Is(g)
  BY DEF Loops, DiffRound
<1>3. \E g : Loops(g, "tool", 0, NoTools, tools, Len(tools))
  BY LoopsExist
<1> HIDE DEF Is
<1>4. Is(h)
  BY <1>2, <1>3
<1> HIDE DEF h
<1>5. h = [i \in 0..Len(tools) |-> IF i = 0 THEN NoTools ELSE KeepTool(tools[Len(tools) + 1 - i], h[i - 1])]
  BY <1>4 DEF Is
<1>6. \A i \in 0..Len(tools) : h[i] = IF i = 0 THEN NoTools ELSE KeepTool(tools[Len(tools) + 1 - i], h[i - 1])
  BY <1>5
<1>7. h[0] = NoTools
  BY <1>6
<1>8. ASSUME NEW i \in 1..Len(tools) PROVE h[i] = KeepTool(tools[Len(tools) + 1 - i], h[i - 1])
  <2>1. i \in 0..Len(tools) /\ i # 0
    OBVIOUS
  <2> QED
    BY <1>6, <2>1
<1> QED
  BY <1>1, <1>7, <1>8

\* and the files of all tools.
LEMMA FilesToFollows ==
  ASSUME NEW tools, Len(tools) \in Nat
  PROVE  /\ FilesTo(tools)[0] = <<>>
         /\ \A i \in 1..Len(tools) : FilesTo(tools)[i] = FilesTo(tools)[i - 1] \o tools[i].files
<1> DEFINE Is(g) == g = [i \in 0..Len(tools) |-> IF i = 0 THEN <<>> ELSE g[i - 1] \o tools[i].files]
           h == CHOOSE g : Is(g)
<1>1. FilesTo(tools) = h
  BY DEF FilesTo
<1>2. \A g : Loops(g, "all", 0, <<>>, tools, Len(tools)) <=> Is(g)
  BY DEF Loops, DiffRound
<1>3. \E g : Loops(g, "all", 0, <<>>, tools, Len(tools))
  BY LoopsExist
<1> HIDE DEF Is
<1>4. Is(h)
  BY <1>2, <1>3
<1> HIDE DEF h
<1>5. h = [i \in 0..Len(tools) |-> IF i = 0 THEN <<>> ELSE h[i - 1] \o tools[i].files]
  BY <1>4 DEF Is
<1>6. \A i \in 0..Len(tools) : h[i] = IF i = 0 THEN <<>> ELSE h[i - 1] \o tools[i].files
  BY <1>5
<1>7. h[0] = <<>>
  BY <1>6
<1>8. ASSUME NEW i \in 1..Len(tools) PROVE h[i] = h[i - 1] \o tools[i].files
  <2>1. i \in 0..Len(tools) /\ i # 0
    OBVIOUS
  <2> QED
    BY <1>6, <2>1
<1> QED
  BY <1>1, <1>7, <1>8

\* What leaves a tool out goes through the tools, too.
LEMMA WithoutFollows ==
  ASSUME NEW tools, NEW c, Len(tools) \in Nat
  PROVE  /\ WithoutTo(tools, c)[0] = <<>>
         /\ \A i \in 1..Len(tools) : WithoutTo(tools, c)[i] = IF tools[i].tool = c THEN WithoutTo(tools, c)[i - 1] ELSE Append(WithoutTo(tools, c)[i - 1], tools[i])
<1> DEFINE Is(g) == g = [i \in 0..Len(tools) |-> IF i = 0 THEN <<>> ELSE IF tools[i].tool = c THEN g[i - 1] ELSE Append(g[i - 1], tools[i])]
           h == CHOOSE g : Is(g)
<1>1. WithoutTo(tools, c) = h
  BY DEF WithoutTo
<1>2. \A g : Loops(g, "without", c, <<>>, tools, Len(tools)) <=> Is(g)
  BY DEF Loops, DiffRound
<1>3. \E g : Loops(g, "without", c, <<>>, tools, Len(tools))
  BY LoopsExist
<1> HIDE DEF Is
<1>4. Is(h)
  BY <1>2, <1>3
<1> HIDE DEF h
<1>5. h = [i \in 0..Len(tools) |-> IF i = 0 THEN <<>> ELSE IF tools[i].tool = c THEN h[i - 1] ELSE Append(h[i - 1], tools[i])]
  BY <1>4 DEF Is
<1>6. \A i \in 0..Len(tools) : h[i] = IF i = 0 THEN <<>> ELSE IF tools[i].tool = c THEN h[i - 1] ELSE Append(h[i - 1], tools[i])
  BY <1>5
<1>7. h[0] = <<>>
  BY <1>6
<1>8. ASSUME NEW i \in 1..Len(tools) PROVE h[i] = IF tools[i].tool = c THEN h[i - 1] ELSE Append(h[i - 1], tools[i])
  <2>1. i \in 0..Len(tools) /\ i # 0
    OBVIOUS
  <2> QED
    BY <1>6, <2>1
<1> QED
  BY <1>1, <1>7, <1>8

-----------------------------------------------------------------------------
(* Sums and sizes. *)

\* The sum of no numbers.
LEMMA SumNone == Sum(<<>>) = 0
<1>1. Len(<<>>) = 0
  OBVIOUS
<1> QED
  BY <1>1, SumToFollows DEF Sum

\* Sums are numbers.
LEMMA SumTyped ==
  ASSUME NEW f \in Seq(Nat)
  PROVE  Sum(f) \in Nat /\ \A i \in 0..Len(f) : SumTo(f)[i] \in Nat
<1> DEFINE P == {i \in 0..Len(f) : SumTo(f)[i] \in Nat}
<1>0. /\ SumTo(f)[0] = 0 /\ Len(f) \in Nat
      /\ \A i \in 1..Len(f) : SumTo(f)[i] = SumTo(f)[i - 1] + f[i]
  BY SumToFollows
<1>1. 0 \in P
  BY <1>0
<1>2. ASSUME NEW i \in 1..Len(f), i - 1 \in P PROVE i \in P
  <2>1. f[i] \in Nat
    OBVIOUS
  <2> QED
    BY <1>0, <1>2, <2>1
<1> HIDE DEF P
<1>3. \A i \in 0..Len(f) : i \in P
  BY <1>0, <1>1, <1>2, UpTo
<1> QED
  BY <1>0, <1>3 DEF P, Sum

\* A sum depends on the numbers.
LEMMA SumSame ==
  ASSUME NEW f \in Seq(Nat), NEW g \in Seq(Nat), NEW n \in Nat, n <= Len(f), n <= Len(g),
         \A i \in 1..n : f[i] = g[i]
  PROVE  SumTo(f)[n] = SumTo(g)[n]
<1> DEFINE P == {i \in 0..n : SumTo(f)[i] = SumTo(g)[i]}
<1>0. /\ SumTo(f)[0] = 0 /\ SumTo(g)[0] = 0 /\ Len(f) \in Nat /\ Len(g) \in Nat
      /\ \A i \in 1..Len(f) : SumTo(f)[i] = SumTo(f)[i - 1] + f[i]
      /\ \A i \in 1..Len(g) : SumTo(g)[i] = SumTo(g)[i - 1] + g[i]
  BY SumToFollows
<1>1. 0 \in P
  BY <1>0
<1>2. ASSUME NEW i \in 1..n, i - 1 \in P PROVE i \in P
  <2>1. i \in 1..Len(f) /\ i \in 1..Len(g) /\ i \in 0..n /\ f[i] = g[i]
    BY <1>0
  <2>2. SumTo(f)[i] = SumTo(f)[i - 1] + f[i] /\ SumTo(g)[i] = SumTo(g)[i - 1] + g[i]
    BY <1>0, <2>1
  <2>3. SumTo(f)[i - 1] = SumTo(g)[i - 1]
    BY <1>2
  <2> QED
    BY <2>1, <2>2, <2>3
<1> HIDE DEF P
<1>3. \A i \in 0..n : i \in P
  BY <1>1, <1>2, UpTo
<1> QED
  BY <1>3 DEF P

\* The sum of two sequences of numbers, and of one with a number more.
LEMMA SumJoin ==
  ASSUME NEW f \in Seq(Nat), NEW g \in Seq(Nat)
  PROVE  Sum(f \o g) = Sum(f) + Sum(g)
<1> DEFINE fg == f \o g
           P == {i \in 0..Len(g) : SumTo(fg)[Len(f) + i] = Sum(f) + SumTo(g)[i]}
<1>0. /\ fg \in Seq(Nat) /\ Len(fg) = Len(f) + Len(g) /\ Len(f) \in Nat /\ Len(g) \in Nat
      /\ \A i \in 1..Len(f) : fg[i] = f[i]
      /\ \A i \in 1..Len(g) : fg[Len(f) + i] = g[i]
  OBVIOUS
<1> HIDE DEF fg
<1>1. SumTo(fg)[Len(f)] = SumTo(f)[Len(f)]
  <2>1. Len(f) <= Len(fg) /\ Len(f) <= Len(f)
    BY <1>0
  <2> QED
    BY <1>0, <2>1, SumSame
<1>2. /\ SumTo(g)[0] = 0
      /\ \A i \in 1..Len(fg) : SumTo(fg)[i] = SumTo(fg)[i - 1] + fg[i]
      /\ \A i \in 1..Len(g) : SumTo(g)[i] = SumTo(g)[i - 1] + g[i]
  <2>1. Len(fg) \in Nat
    BY <1>0
  <2> QED
    BY <1>0, <2>1, SumToFollows
<1>3. /\ Sum(f) \in Nat /\ \A i \in 0..Len(g) : SumTo(g)[i] \in Nat
      /\ \A i \in 1..Len(g) : g[i] \in Nat
  BY SumTyped
<1>4. 0 \in P
  BY <1>0, <1>1, <1>2, <1>3 DEF Sum
<1>5. ASSUME NEW i \in 1..Len(g), i - 1 \in P PROVE i \in P
  <2>1. Len(f) + i \in 1..Len(fg) /\ Len(f) + i - 1 = Len(f) + (i - 1) /\ i - 1 \in 0..Len(g)
    BY <1>0
  <2>2. SumTo(fg)[Len(f) + i] = SumTo(fg)[Len(f) + (i - 1)] + g[i]
    <3>1. fg[Len(f) + i] = g[i]
      BY <1>0
    <3>2. SumTo(fg)[Len(f) + i] = SumTo(fg)[Len(f) + i - 1] + fg[Len(f) + i]
      BY <1>2, <2>1
    <3> QED
      BY <2>1, <3>1, <3>2
  <2>3. SumTo(fg)[Len(f) + (i - 1)] = Sum(f) + SumTo(g)[i - 1]
    BY <1>5
  <2>4. SumTo(g)[i] = SumTo(g)[i - 1] + g[i] /\ SumTo(g)[i - 1] \in Nat /\ g[i] \in Nat
    BY <1>2, <1>3, <2>1
  <2>5. SumTo(fg)[Len(f) + i] = Sum(f) + SumTo(g)[i]
    BY <1>3, <2>2, <2>3, <2>4
  <2>6. i \in 0..Len(g)
    OBVIOUS
  <2> QED
    BY <2>5, <2>6
<1> HIDE DEF P
<1>6. \A i \in 0..Len(g) : i \in P
  BY <1>0, <1>4, <1>5, UpTo
<1>7. Len(g) \in P
  BY <1>0, <1>6
<1> QED
  BY <1>0, <1>7 DEF P, Sum, fg

\* The sum of one number.
LEMMA SumOne ==
  ASSUME NEW n \in Nat
  PROVE  Sum(<<n>>) = n
<1> DEFINE f == <<n>>
<1>1. f \in Seq(Nat) /\ Len(f) = 1 /\ f[1] = n
  OBVIOUS
<1> HIDE DEF f
<1>2. SumTo(f)[0] = 0 /\ SumTo(f)[1] = SumTo(f)[1 - 1] + f[1]
  BY <1>1, SumToFollows
<1>3. Sum(f) = n
  BY <1>1, <1>2 DEF Sum
<1> QED
  BY <1>3 DEF f

\* What the elements of a sequence add up to, each counted as F counts it.
Adds(F, s) == Sum([i \in DOMAIN s |-> F[s[i]]])

\* It is that of its parts.
LEMMA AddsJoin ==
  ASSUME NEW S, NEW F \in [S -> Nat], NEW s \in Seq(S), NEW t \in Seq(S)
  PROVE  Adds(F, s \o t) = Adds(F, s) + Adds(F, t)
<1> DEFINE st == s \o t
           f == [i \in DOMAIN s |-> F[s[i]]]
           g == [i \in DOMAIN t |-> F[t[i]]]
           fg == [i \in DOMAIN st |-> F[st[i]]]
<1>0. /\ st \in Seq(S) /\ Len(st) = Len(s) + Len(t) /\ Len(s) \in Nat /\ Len(t) \in Nat
      /\ DOMAIN st = 1..Len(st) /\ DOMAIN s = 1..Len(s) /\ DOMAIN t = 1..Len(t)
      /\ \A i \in 1..Len(s) : st[i] = s[i] /\ s[i] \in S
      /\ \A i \in 1..Len(t) : st[Len(s) + i] = t[i] /\ t[i] \in S
  OBVIOUS
<1> HIDE DEF st
<1>1. f \in Seq(Nat) /\ Len(f) = Len(s) /\ \A i \in 1..Len(s) : f[i] = F[s[i]]
  BY <1>0
<1>2. g \in Seq(Nat) /\ Len(g) = Len(t) /\ \A i \in 1..Len(t) : g[i] = F[t[i]]
  BY <1>0
<1>3. fg \in [1..Len(st) -> Nat] /\ \A i \in 1..Len(st) : fg[i] = F[st[i]]
  <2>1. \A i \in 1..Len(st) : st[i] \in S
    BY <1>0
  <2> QED
    BY <1>0, <2>1
<1> HIDE DEF f, g, fg
<1>4. /\ f \o g \in [1..Len(st) -> Nat] /\ DOMAIN f = 1..Len(s)
      /\ \A i \in 1..(Len(f) + Len(g)) :
           (f \o g)[i] = IF i <= Len(f) THEN f[i] ELSE g[i - Len(f)]
  <2>1. f \o g \in Seq(Nat) /\ Len(f \o g) = Len(f) + Len(g)
    BY <1>1, <1>2, ConcatProperties
  <2>2. f \o g \in [1..Len(f \o g) -> Nat]
    BY <2>1, LenProperties
  <2> QED
    BY <1>0, <1>1, <1>2, <2>1, <2>2
<1>5. ASSUME NEW i \in 1..Len(st) PROVE fg[i] = (f \o g)[i]
  <2>1. CASE i <= Len(s)
    <3>1. i \in 1..Len(s) /\ i \in 1..(Len(f) + Len(g)) /\ i <= Len(f)
      BY <1>0, <1>1, <1>2, <2>1
    <3>2. (f \o g)[i] = f[i]
      BY <1>4, <3>1
    <3>3. fg[i] = F[st[i]] /\ st[i] = s[i] /\ f[i] = F[s[i]]
      BY <1>0, <1>1, <1>3, <3>1
    <3> QED
      BY <3>2, <3>3
  <2>2. CASE ~(i <= Len(s))
    <3>1. i - Len(s) \in 1..Len(t) /\ i = Len(s) + (i - Len(s))
      BY <1>0, <2>2
    <3>2. st[i] = t[i - Len(s)]
      BY <1>0, <3>1
    <3>3. (f \o g)[i] = g[i - Len(s)]
      BY <1>0, <1>1, <1>2, <1>4, <2>2, <3>1
    <3> QED
      BY <1>2, <1>3, <3>1, <3>2, <3>3
  <2> QED
    BY <2>1, <2>2
<1>6. fg = f \o g
  BY <1>3, <1>4, <1>5
<1>7. Sum(fg) = Sum(f) + Sum(g)
  BY <1>1, <1>2, <1>6, SumJoin
<1> QED
  BY <1>7 DEF Adds, f, g, fg, st

\* A number, for nothing nothing, and for one more element what that adds.
LEMMA AddsFacts ==
  ASSUME NEW S, NEW F \in [S -> Nat], NEW s \in Seq(S)
  PROVE  /\ Adds(F, s) \in Nat /\ Adds(F, <<>>) = 0
         /\ \A x \in S : Adds(F, <<x>>) = F[x] /\ Adds(F, Append(s, x)) = Adds(F, s) + F[x]
<1>1. Adds(F, s) \in Nat
  <2> DEFINE f == [i \in DOMAIN s |-> F[s[i]]]
  <2>1. f \in Seq(Nat)
    OBVIOUS
  <2> HIDE DEF f
  <2>2. Sum(f) \in Nat
    BY <2>1, SumTyped
  <2> QED
    BY <2>2 DEF Adds, f
<1>2. Adds(F, <<>>) = 0
  <2>1. [i \in DOMAIN <<>> |-> F[<<>>[i]]] = <<>>
    OBVIOUS
  <2> QED
    BY <2>1, SumNone DEF Adds
<1>3. ASSUME NEW x \in S PROVE Adds(F, <<x>>) = F[x]
  <2>1. [i \in DOMAIN <<x>> |-> F[<<x>>[i]]] = <<F[x]>>
    OBVIOUS
  <2>2. F[x] \in Nat
    OBVIOUS
  <2> QED
    BY <2>1, <2>2, SumOne DEF Adds
<1>4. ASSUME NEW x \in S PROVE Adds(F, Append(s, x)) = Adds(F, s) + F[x]
  <2>1. Append(s, x) = s \o <<x>> /\ <<x>> \in Seq(S)
    OBVIOUS
  <2>2. Adds(F, s \o <<x>>) = Adds(F, s) + Adds(F, <<x>>)
    BY <2>1, AddsJoin
  <2> QED
    BY <1>3, <2>1, <2>2
<1> QED
  BY <1>1, <1>2, <1>3, <1>4


-----------------------------------------------------------------------------
(* The sizes of hunks and files. *)

Size == [files: Nat, lines: Nat, characters: Nat]

\* How each hunk and each file counts.
HunkC == [h \in Hunk |-> HunkCharacters(h)]
HunkL == [h \in Hunk |-> Len(h.lines)]
FileC == [f \in File |-> FileCharacters(f)]
FileL == [f \in File |-> HunksLines(f.hunks)]

\* The size of one file, and a size that is the sum of two.
OneSize(f) == [files |-> 1, lines |-> FileL[f], characters |-> FileC[f]]
Plus(a, b, c) ==
  /\ c.files = a.files + b.files
  /\ c.lines = a.lines + b.lines
  /\ c.characters = a.characters + b.characters

\* The sizes of hunks are numbers.
LEMMA HunkTyped == HunkC \in [Hunk -> Nat] /\ HunkL \in [Hunk -> Nat]
<1>1. ASSUME NEW h \in Hunk PROVE HunkCharacters(h) \in Nat /\ Len(h.lines) \in Nat
  <2>1. h.header \in Nat /\ h.lines \in Seq(Nat)
    BY DEF Hunk
  <2>2. Sum(h.lines) \in Nat
    BY <2>1, SumTyped
  <2> QED
    BY <2>1, <2>2 DEF HunkCharacters
<1> QED
  BY <1>1 DEF HunkC, HunkL

\* What several hunks add up to.
LEMMA HunksFacts ==
  ASSUME NEW hs \in Seq(Hunk)
  PROVE  /\ HunksCharacters(hs) \in Nat /\ HunksLines(hs) \in Nat
         /\ HunksCharacters(<<>>) = 0 /\ HunksLines(<<>>) = 0
         /\ \A h \in Hunk : /\ HunksCharacters(Append(hs, h)) = HunksCharacters(hs) + HunkCharacters(h)
                            /\ HunksLines(Append(hs, h)) = HunksLines(hs) + Len(h.lines)
<1>1. ASSUME NEW t \in Seq(Hunk)
      PROVE  HunksCharacters(t) = Adds(HunkC, t) /\ HunksLines(t) = Adds(HunkL, t)
  <2>1. \A i \in DOMAIN t : t[i] \in Hunk
    OBVIOUS
  <2>2. [i \in DOMAIN t |-> HunkCharacters(t[i])] = [i \in DOMAIN t |-> HunkC[t[i]]]
    BY <2>1 DEF HunkC
  <2>3. [i \in DOMAIN t |-> Len(t[i].lines)] = [i \in DOMAIN t |-> HunkL[t[i]]]
    BY <2>1 DEF HunkL
  <2> QED
    BY <2>2, <2>3 DEF HunksCharacters, HunksLines, Adds
<1>2. /\ Adds(HunkC, hs) \in Nat /\ Adds(HunkC, <<>>) = 0
      /\ \A h \in Hunk : Adds(HunkC, Append(hs, h)) = Adds(HunkC, hs) + HunkC[h]
  BY HunkTyped, AddsFacts
<1>3. /\ Adds(HunkL, hs) \in Nat /\ Adds(HunkL, <<>>) = 0
      /\ \A h \in Hunk : Adds(HunkL, Append(hs, h)) = Adds(HunkL, hs) + HunkL[h]
  BY HunkTyped, AddsFacts
<1>4. <<>> \in Seq(Hunk) /\ \A h \in Hunk : Append(hs, h) \in Seq(Hunk)
  OBVIOUS
<1>5. \A h \in Hunk : HunkC[h] = HunkCharacters(h) /\ HunkL[h] = Len(h.lines)
  BY DEF HunkC, HunkL
<1> QED
  BY <1>1, <1>2, <1>3, <1>4, <1>5

\* The sizes of files are numbers.
LEMMA FileTyped == FileC \in [File -> Nat] /\ FileL \in [File -> Nat]
<1>1. ASSUME NEW f \in File PROVE FileCharacters(f) \in Nat /\ HunksLines(f.hunks) \in Nat
  <2>1. f.path \in Nat /\ f.old \in Nat /\ f.hunks \in Seq(Hunk)
    BY DEF File
  <2>2. HunksCharacters(f.hunks) \in Nat /\ HunksLines(f.hunks) \in Nat
    BY <2>1, HunksFacts
  <2> QED
    BY <2>1, <2>2 DEF FileCharacters
<1> QED
  BY <1>1 DEF FileC, FileL

\* The size of files is what they add up to.
LEMMA SizeAdds ==
  ASSUME NEW files \in Seq(File)
  PROVE  SizeOf(files) = [files |-> Len(files), lines |-> Adds(FileL, files),
                          characters |-> Adds(FileC, files)]
<1>1. \A i \in DOMAIN files : files[i] \in File
  OBVIOUS
<1>2. [i \in DOMAIN files |-> FileCharacters(files[i])] = [i \in DOMAIN files |-> FileC[files[i]]]
  BY <1>1 DEF FileC
<1>3. [i \in DOMAIN files |-> HunksLines(files[i].hunks)] = [i \in DOMAIN files |-> FileL[files[i]]]
  BY <1>1 DEF FileL
<1> QED
  BY <1>2, <1>3 DEF SizeOf, Adds

\* A size, for no files, one file more, and for the files of two.
LEMMA SizeFacts ==
  ASSUME NEW files \in Seq(File)
  PROVE  /\ SizeOf(files) \in Size
         /\ SizeOf(<<>>) = [files |-> 0, lines |-> 0, characters |-> 0]
         /\ \A f \in File : Plus(SizeOf(files), OneSize(f), SizeOf(Append(files, f)))
         /\ \A more \in Seq(File) : Plus(SizeOf(files), SizeOf(more), SizeOf(files \o more))
<1>0. /\ FileC \in [File -> Nat] /\ FileL \in [File -> Nat]
      /\ \A f \in File : FileC[f] \in Nat /\ FileL[f] \in Nat
  BY FileTyped
<1>1. \A s \in Seq(File) : /\ Adds(FileC, s) \in Nat /\ Adds(FileC, <<>>) = 0
                           /\ \A f \in File : Adds(FileC, Append(s, f)) = Adds(FileC, s) + FileC[f]
  BY <1>0, AddsFacts
<1>2. \A s \in Seq(File) : /\ Adds(FileL, s) \in Nat /\ Adds(FileL, <<>>) = 0
                           /\ \A f \in File : Adds(FileL, Append(s, f)) = Adds(FileL, s) + FileL[f]
  BY <1>0, AddsFacts
<1>3. \A s \in Seq(File) : SizeOf(s) = [files |-> Len(s), lines |-> Adds(FileL, s),
                                        characters |-> Adds(FileC, s)]
  BY SizeAdds
<1>4. SizeOf(files) \in Size
  <2>1. Len(files) \in Nat
    OBVIOUS
  <2> QED
    BY <1>1, <1>2, <1>3, <2>1 DEF Size
<1>5. SizeOf(<<>>) = [files |-> 0, lines |-> 0, characters |-> 0]
  <2>1. <<>> \in Seq(File) /\ Len(<<>>) = 0
    OBVIOUS
  <2> QED
    BY <1>1, <1>2, <1>3, <2>1
<1>6. ASSUME NEW f \in File PROVE Plus(SizeOf(files), OneSize(f), SizeOf(Append(files, f)))
  <2>1. Append(files, f) \in Seq(File) /\ Len(Append(files, f)) = Len(files) + 1
    OBVIOUS
  <2>2. /\ Adds(FileC, Append(files, f)) = Adds(FileC, files) + FileC[f]
        /\ Adds(FileL, Append(files, f)) = Adds(FileL, files) + FileL[f]
    BY <1>1, <1>2
  <2>3. /\ SizeOf(files) = [files |-> Len(files), lines |-> Adds(FileL, files),
                            characters |-> Adds(FileC, files)]
        /\ SizeOf(Append(files, f)) =
             [files |-> Len(files) + 1, lines |-> Adds(FileL, files) + FileL[f],
              characters |-> Adds(FileC, files) + FileC[f]]
    BY <1>3, <2>1, <2>2
  <2> QED
    BY <2>3 DEF Plus, OneSize
<1>7. ASSUME NEW more \in Seq(File)
      PROVE  Plus(SizeOf(files), SizeOf(more), SizeOf(files \o more))
  <2>1. files \o more \in Seq(File) /\ Len(files \o more) = Len(files) + Len(more)
    BY ConcatProperties
  <2>2. Adds(FileC, files \o more) = Adds(FileC, files) + Adds(FileC, more)
    BY <1>0, AddsJoin
  <2>3. Adds(FileL, files \o more) = Adds(FileL, files) + Adds(FileL, more)
    BY <1>0, AddsJoin
  <2>4. /\ SizeOf(files) = [files |-> Len(files), lines |-> Adds(FileL, files),
                            characters |-> Adds(FileC, files)]
        /\ SizeOf(more) = [files |-> Len(more), lines |-> Adds(FileL, more),
                           characters |-> Adds(FileC, more)]
        /\ SizeOf(files \o more) =
             [files |-> Len(files) + Len(more), lines |-> Adds(FileL, files) + Adds(FileL, more),
              characters |-> Adds(FileC, files) + Adds(FileC, more)]
    BY <1>3, <2>1, <2>2, <2>3
  <2> QED
    BY <2>4 DEF Plus
<1> QED
  BY <1>4, <1>5, <1>6, <1>7

\* Two sequences of files that differ in their marks only.
SameButMarks(files, others) ==
  /\ others \in Seq(File) /\ Len(others) = Len(files)
  /\ \A i \in 1..Len(files) : /\ others[i].path = files[i].path /\ others[i].old = files[i].old
                              /\ others[i].hunks = files[i].hunks
                              /\ files[i].truncated => others[i].truncated

\* They have the same size.
LEMMA SizeSame ==
  ASSUME NEW files \in Seq(File), NEW others, SameButMarks(files, others)
  PROVE  SizeOf(others) = SizeOf(files)
<1>1. /\ DOMAIN others = 1..Len(files) /\ DOMAIN files = 1..Len(files)
      /\ Len(others) = Len(files)
  BY DEF SameButMarks
<1>2. \A i \in 1..Len(files) : /\ FileCharacters(others[i]) = FileCharacters(files[i])
                               /\ HunksLines(others[i].hunks) = HunksLines(files[i].hunks)
  BY DEF SameButMarks, FileCharacters
<1>3. [i \in DOMAIN others |-> FileCharacters(others[i])] = [i \in DOMAIN files |-> FileCharacters(files[i])]
  BY <1>1, <1>2
<1>4. [i \in DOMAIN others |-> HunksLines(others[i].hunks)] = [i \in DOMAIN files |-> HunksLines(files[i].hunks)]
  BY <1>1, <1>2
<1> QED
  BY <1>1, <1>3, <1>4 DEF SizeOf

\* Marking the first or the last file of some changes nothing else, and marks.
LEMMA MarkFacts ==
  ASSUME NEW files \in Seq(File), files # <<>>
  PROVE  /\ SameButMarks(files, MarkFirst(files)) /\ BudgetMarked(MarkFirst(files))
         /\ SameButMarks(files, MarkLast(files)) /\ BudgetMarked(MarkLast(files))
<1>1. Len(files) \in Nat /\ Len(files) >= 1 /\ DOMAIN files = 1..Len(files)
  OBVIOUS
<1>2. ASSUME NEW n \in 1..Len(files)
      PROVE  /\ SameButMarks(files, [files EXCEPT ![n].truncated = TRUE])
             /\ BudgetMarked([files EXCEPT ![n].truncated = TRUE])
  <2> DEFINE m == [files EXCEPT ![n].truncated = TRUE]
  <2>1. files[n] \in File /\ [files[n] EXCEPT !.truncated = TRUE] \in File
    <3>1. files[n] \in File
      OBVIOUS
    <3>2. \A f \in File : [f EXCEPT !.truncated = TRUE] \in File
      BY DEF File
    <3> QED
      BY <3>1, <3>2
  <2>2. m = [files EXCEPT ![n] = [files[n] EXCEPT !.truncated = TRUE]]
    OBVIOUS
  <2>3. m \in Seq(File) /\ Len(m) = Len(files) /\ DOMAIN m = 1..Len(files)
    BY <1>1, <2>1, <2>2
  <2>4. \A i \in 1..Len(files) : m[i] = IF i = n THEN [files[n] EXCEPT !.truncated = TRUE] ELSE files[i]
    BY <1>1, <2>2
  <2>5. /\ [files[n] EXCEPT !.truncated = TRUE].path = files[n].path
        /\ [files[n] EXCEPT !.truncated = TRUE].old = files[n].old
        /\ [files[n] EXCEPT !.truncated = TRUE].hunks = files[n].hunks
        /\ [files[n] EXCEPT !.truncated = TRUE].truncated = TRUE
    BY <2>1 DEF File
  <2> HIDE DEF m
  <2>6. SameButMarks(files, m)
    BY <2>3, <2>4, <2>5 DEF SameButMarks
  <2>7. BudgetMarked(m)
    BY <2>3, <2>4, <2>5 DEF BudgetMarked
  <2> QED
    BY <2>6, <2>7 DEF m
<1>3. 1 \in 1..Len(files) /\ Len(files) \in 1..Len(files)
  BY <1>1
<1> QED
  BY <1>2, <1>3 DEF MarkFirst, MarkLast


-----------------------------------------------------------------------------
(* What the budget keeps of lines, hunks and files. *)

\* A number more in a sum.
LEMMA SumAppend ==
  ASSUME NEW f \in Seq(Nat), NEW n \in Nat
  PROVE  Sum(Append(f, n)) = Sum(f) + n
<1>1. Append(f, n) = f \o <<n>> /\ <<n>> \in Seq(Nat)
  OBVIOUS
<1> QED
  BY <1>1, SumJoin, SumOne

\* What is kept and what is left stay in balance.
LEMMA Balance ==
  \A k, l \in Nat : (k + 1) + (l - 1) = k + l
OBVIOUS

\* The least of two or three numbers.
LEMMA LeastOfTwo ==
  ASSUME NEW a \in Nat, NEW b \in Nat
  PROVE  Least({a, b}) \in Nat /\ Least({a, b}) <= a /\ Least({a, b}) <= b
BY LeastFacts
LEMMA LeastOfThree ==
  ASSUME NEW a \in Nat, NEW b \in Nat, NEW c \in Nat
  PROVE  Least({a, b, c}) \in Nat /\ Least({a, b, c}) <= a /\ Least({a, b, c}) <= b
BY LeastFacts

\* A sequence that has the first i elements of another.
Begins(kept, s, i) == Len(kept) = i /\ \A j \in 1..i : kept[j] = s[j]

\* It goes on with the next, and it is the other once it has all.
LEMMA BeginsFacts ==
  ASSUME NEW S, NEW kept \in Seq(S), NEW s \in Seq(S)
  PROVE  /\ \A i \in 1..Len(s) : Begins(kept, s, i - 1) => Begins(Append(kept, s[i]), s, i)
         /\ Begins(kept, s, Len(s)) => kept = s
<1>1. ASSUME NEW i \in 1..Len(s), Begins(kept, s, i - 1)
      PROVE  Begins(Append(kept, s[i]), s, i)
  <2>1. /\ s[i] \in S /\ Len(kept) = i - 1
        /\ \A j \in 1..(i - 1) : kept[j] = s[j]
    BY <1>1 DEF Begins
  <2>2. /\ Len(Append(kept, s[i])) = Len(kept) + 1
        /\ \A j \in 1..Len(kept) : Append(kept, s[i])[j] = kept[j]
        /\ Append(kept, s[i])[Len(kept) + 1] = s[i]
    BY <2>1, AppendProperties
  <2> QED
    BY <2>1, <2>2 DEF Begins
<1>2. ASSUME Begins(kept, s, Len(s)) PROVE kept = s
  BY <1>2, SeqEqual DEF Begins
<1> QED
  BY <1>1, <1>2

\* What is kept of the first i lines of a hunk, out of C characters and L lines.
LinesOK(a, C, L, lines, i) ==
  /\ a \in [kept: Seq(Nat), characters: Nat, lines: Nat, cut: BOOLEAN]
  /\ Sum(a.kept) + a.characters = C
  /\ Len(a.kept) + a.lines = L
  /\ ~a.cut => Begins(a.kept, lines, i)

\* It stays so with the next line,
LEMMA LineKept ==
  ASSUME NEW C \in Nat, NEW L \in Nat, NEW lines \in Seq(Nat), NEW i \in 1..Len(lines),
         NEW a, LinesOK(a, C, L, lines, i - 1)
  PROVE  LinesOK(KeepLine(a, lines[i]), C, L, lines, i)
<1>0. /\ a \in [kept: Seq(Nat), characters: Nat, lines: Nat, cut: BOOLEAN]
      /\ a.kept \in Seq(Nat) /\ a.characters \in Nat /\ a.lines \in Nat /\ a.cut \in BOOLEAN
      /\ Sum(a.kept) + a.characters = C /\ Len(a.kept) + a.lines = L
      /\ ~a.cut => Begins(a.kept, lines, i - 1)
      /\ Sum(a.kept) \in Nat /\ lines[i] \in Nat /\ Len(a.kept) \in Nat
  BY SMTT(20), SumTyped DEF LinesOK
<1>1. CASE a.cut
  BY <1>0, <1>1 DEF KeepLine, LinesOK
<1>2. CASE ~a.cut /\ Spent(a)
  <2> DEFINE b == [a EXCEPT !.cut = TRUE]
  <2>1. KeepLine(a, lines[i]) = b
    BY <1>2 DEF KeepLine
  <2>2. /\ b \in [kept: Seq(Nat), characters: Nat, lines: Nat, cut: BOOLEAN]
        /\ b.kept = a.kept /\ b.characters = a.characters /\ b.lines = a.lines /\ b.cut = TRUE
    BY <1>0
  <2> HIDE DEF b
  <2> QED
    BY <1>0, <2>1, <2>2 DEF LinesOK
<1>3. CASE ~a.cut /\ ~Spent(a)
  <2> DEFINE n == Least({lines[i], a.characters})
             b == [a EXCEPT !.kept = Append(@, n), !.characters = @ - n,
                            !.lines = @ - 1, !.cut = n < lines[i]]
  <2>1. KeepLine(a, lines[i]) = b
    BY <1>3 DEF KeepLine
  <2>2. n \in Nat /\ n <= lines[i] /\ n <= a.characters
    BY <1>0, LeastOfTwo
  <2> HIDE DEF n
  <2>0. a.characters \in Nat /\ a.lines \in Nat /\ lines[i] \in Nat
    BY <1>0
  <2>3. a.lines >= 1 /\ a.lines - 1 \in Nat /\ a.characters - n \in Nat
    BY SMTT(20), <1>3, <2>0, <2>2 DEF Spent
  <2>4. Append(a.kept, n) \in Seq(Nat) /\ Len(Append(a.kept, n)) = Len(a.kept) + 1
    BY <1>0, <2>2
  <2>5. /\ b \in [kept: Seq(Nat), characters: Nat, lines: Nat, cut: BOOLEAN]
        /\ b.kept = Append(a.kept, n) /\ b.characters = a.characters - n
        /\ b.lines = a.lines - 1 /\ b.cut \in BOOLEAN /\ (b.cut <=> n < lines[i])
    <3> DEFINE k == Append(a.kept, n)
               c == a.characters - n
               l == a.lines - 1
               x == n < lines[i]
    <3>1. b = [a EXCEPT !.kept = k, !.characters = c, !.lines = l, !.cut = x]
      OBVIOUS
    <3>2. k \in Seq(Nat) /\ c \in Nat /\ l \in Nat /\ x \in BOOLEAN
      BY <2>3, <2>4
    <3>3. a \in [kept: Seq(Nat), characters: Nat, lines: Nat, cut: BOOLEAN]
      BY <1>0
    <3> HIDE DEF k, c, l, x, b
    <3>4. /\ b \in [kept: Seq(Nat), characters: Nat, lines: Nat, cut: BOOLEAN]
          /\ b.kept = k /\ b.characters = c /\ b.lines = l /\ b.cut = x
      BY <3>1, <3>2, <3>3
    <3> QED
      BY <3>2, <3>4 DEF k, c, l, x
  <2> HIDE DEF b
  <2>a. b.characters = a.characters - n /\ b.lines = a.lines - 1 /\ b.kept = Append(a.kept, n)
    BY <2>5
  <2>b. ~b.cut => ~(n < lines[i])
    BY <2>5
  <2>6. Sum(b.kept) = Sum(a.kept) + n
    BY <1>0, <2>2, <2>5, SumAppend
  <2>7. ~b.cut => Begins(b.kept, lines, i)
    <3>1. ~b.cut => n = lines[i]
      BY <2>0, <2>2, <2>b
    <3>2. Begins(a.kept, lines, i - 1) => Begins(Append(a.kept, lines[i]), lines, i)
      BY <1>0, BeginsFacts
    <3> QED
      BY <1>0, <1>3, <2>5, <3>1, <3>2
  <2>8. Sum(b.kept) + b.characters = C
    <3>1. Sum(a.kept) + a.characters = C /\ Sum(a.kept) \in Nat
      BY <1>0
    <3> QED
      BY <2>0, <2>2, <2>a, <2>6, <3>1
  <2>9. Len(b.kept) + b.lines = L
    <3>1. Len(a.kept) + a.lines = L /\ Len(a.kept) \in Nat
      BY <1>0
    <3>2. Len(b.kept) = Len(a.kept) + 1
      BY <2>4, <2>a
    <3>3. b.lines = a.lines - 1
      BY <2>a
    <3>4. (Len(a.kept) + 1) + (a.lines - 1) = L
      BY <2>0, <3>1, Balance
    <3> QED
      BY <3>2, <3>3, <3>4
  <2> QED
    BY <2>1, <2>5, <2>7, <2>8, <2>9 DEF LinesOK
<1> QED
  BY <1>1, <1>2, <1>3

\* and so it is of all of them.
LEMMA LinesKept ==
  ASSUME NEW a, a.characters \in Nat, a.lines \in Nat,
         NEW lines \in Seq(Nat), NEW header \in Nat, header <= a.characters
  PROVE  LinesOK(KeepLines(a, lines, header), a.characters - header, a.lines, lines, Len(lines))
<1> DEFINE first == [kept |-> <<>>, characters |-> a.characters - header,
                     lines |-> a.lines, cut |-> FALSE]
           C == a.characters - header
           A == AfterLine(first, lines)
           P == {i \in 0..Len(lines) : LinesOK(A[i], C, a.lines, lines, i)}
<1>0. C \in Nat /\ Len(lines) \in Nat /\ <<>> \in Seq(Nat) /\ Len(<<>>) = 0
  OBVIOUS
<1>1. LinesOK(first, C, a.lines, lines, 0)
  <2>1. first.kept = <<>> /\ first.characters = C /\ first.lines = a.lines /\ first.cut = FALSE
    OBVIOUS
  <2>2. first \in [kept: Seq(Nat), characters: Nat, lines: Nat, cut: BOOLEAN]
    BY <1>0
  <2>3. Begins(<<>>, lines, 0)
    BY DEF Begins
  <2> HIDE DEF first
  <2> QED
    BY <1>0, <2>1, <2>2, <2>3, SumNone DEF LinesOK
<1>2. KeepLines(a, lines, header) = A[Len(lines)]
  BY DEF KeepLines
<1> HIDE DEF first, C
<1>3. A[0] = first /\ \A i \in 1..Len(lines) : A[i] = KeepLine(A[i - 1], lines[i])
  BY <1>0, AfterLineFollows
<1> HIDE DEF A
<1>4. 0 \in P
  BY <1>0, <1>1, <1>3
<1>5. ASSUME NEW i \in 1..Len(lines), i - 1 \in P PROVE i \in P
  <2>1. LinesOK(A[i - 1], C, a.lines, lines, i - 1)
    BY <1>5
  <2>2. LinesOK(KeepLine(A[i - 1], lines[i]), C, a.lines, lines, i)
    BY <1>0, <2>1, LineKept
  <2> QED
    BY <1>3, <2>2
<1> HIDE DEF P
<1>6. \A i \in 0..Len(lines) : i \in P
  BY <1>0, <1>4, <1>5, UpTo
<1>7. Len(lines) \in P
  BY <1>0, <1>6
<1> QED
  BY <1>2, <1>7 DEF P, C


\* What is kept of the first i hunks of a file, out of C characters and L lines;
\* something of the file was left out before if w.
HunksOK(a, C, L, w, hunks, i) ==
  /\ a \in [kept: Seq(Hunk), characters: Nat, lines: Nat, cut: BOOLEAN, short: BOOLEAN]
  /\ HunksCharacters(a.kept) + a.characters = C
  /\ HunksLines(a.kept) + a.lines = L
  /\ w => a.short
  /\ ~a.cut /\ ~a.short => Begins(a.kept, hunks, i)

\* What a hunk that is kept adds.
LEMMA HunkOfFacts ==
  ASSUME NEW C \in Nat, NEW L \in Nat, NEW w \in BOOLEAN, NEW hunks \in Seq(Hunk),
         NEW i \in 1..Len(hunks), NEW a, HunksOK(a, C, L, w, hunks, i - 1), ~a.cut,
         NEW header \in Nat, header <= hunks[i].header, header <= a.characters,
         NEW lines, LinesOK(lines, a.characters - header, a.lines, hunks[i].lines, Len(hunks[i].lines))
  PROVE  HunksOK(HunkOf(a, hunks[i], header, lines), C, L, w, hunks, i)
<1> DEFINE h == hunks[i]
           g == [header |-> header, lines |-> lines.kept]
           b == HunkOf(a, h, header, lines)
           added == h.header > 0 \/ lines.kept # <<>> \/ h.lines = <<>>
<1>1. h \in Hunk /\ h.header \in Nat /\ h.lines \in Seq(Nat) /\ Len(h.lines) \in Nat
  <2>1. h \in Hunk
    OBVIOUS
  <2> HIDE DEF h
  <2> QED
    BY <2>1 DEF Hunk
<1>2. /\ a.kept \in Seq(Hunk) /\ a.characters \in Nat /\ a.lines \in Nat
      /\ a.short \in BOOLEAN
  BY DEF HunksOK
<1>3. /\ HunksCharacters(a.kept) + a.characters = C /\ HunksLines(a.kept) + a.lines = L
      /\ HunksCharacters(a.kept) \in Nat /\ HunksLines(a.kept) \in Nat
  BY <1>2, HunksFacts DEF HunksOK
<1>4. (w => a.short) /\ (~a.short => Begins(a.kept, hunks, i - 1))
  BY DEF HunksOK
<1>5. /\ lines.kept \in Seq(Nat) /\ lines.characters \in Nat /\ lines.lines \in Nat
      /\ lines.cut \in BOOLEAN
  BY DEF LinesOK
<1>6. /\ Sum(lines.kept) + lines.characters = a.characters - header
      /\ Len(lines.kept) + lines.lines = a.lines
      /\ Sum(lines.kept) \in Nat /\ Len(lines.kept) \in Nat
  BY <1>5, SumTyped DEF LinesOK
<1>7. ~lines.cut => lines.kept = h.lines
  BY <1>1, <1>5, BeginsFacts DEF LinesOK
<1> HIDE DEF h
<1>8. g \in Hunk /\ g.header = header /\ g.lines = lines.kept
  BY <1>5 DEF Hunk
<1>9. HunkCharacters(g) = header + Sum(lines.kept)
  BY <1>8 DEF HunkCharacters
<1> HIDE DEF g
<1>10. /\ b.kept = (IF added THEN Append(a.kept, g) ELSE a.kept)
       /\ b.characters = lines.characters /\ b.lines = lines.lines /\ b.cut = lines.cut
       /\ b.short = (a.short \/ header < h.header)
  BY DEF HunkOf, g
<1>11. Append(a.kept, g) \in Seq(Hunk)
  BY <1>2, <1>8
<1>12. b \in [kept: Seq(Hunk), characters: Nat, lines: Nat, cut: BOOLEAN, short: BOOLEAN]
  <2>1. IF added THEN Append(a.kept, g) \in Seq(Hunk) ELSE a.kept \in Seq(Hunk)
    BY <1>2, <1>11
  <2>2. (a.short \/ header < h.header) \in BOOLEAN
    OBVIOUS
  <2> QED
    BY <1>2, <1>5, <2>1, <2>2 DEF HunkOf, g
<1> HIDE DEF b
<1>13. /\ HunksCharacters(Append(a.kept, g)) = HunksCharacters(a.kept) + HunkCharacters(g)
       /\ HunksLines(Append(a.kept, g)) = HunksLines(a.kept) + Len(lines.kept)
  BY <1>2, <1>8, HunksFacts
<1>14. ~added => header = 0 /\ lines.kept = <<>>
  <2>1. header <= h.header
    BY DEF h
  <2> QED
    BY <1>1, <2>1
<1>15. ~added => Sum(lines.kept) = 0 /\ Len(lines.kept) = 0
  BY <1>14, SumNone
<1>16. HunksCharacters(b.kept) + b.characters = C
  <2>1. CASE added
    <3>1. b.kept = Append(a.kept, g) /\ b.characters = lines.characters
      BY <1>10, <2>1
    <3>2. HunksCharacters(b.kept) = HunksCharacters(a.kept) + (header + Sum(lines.kept))
      BY <1>9, <1>13, <3>1
    <3>3. (HunksCharacters(a.kept) + (header + Sum(lines.kept))) + lines.characters = C
      <4>1. /\ HunksCharacters(a.kept) \in Nat /\ Sum(lines.kept) \in Nat
            /\ lines.characters \in Nat /\ a.characters \in Nat
        BY <1>2, <1>3, <1>5, <1>6
      <4>2. Sum(lines.kept) + lines.characters = a.characters - header
        BY <1>6
      <4>3. (HunksCharacters(a.kept) + (header + Sum(lines.kept))) + lines.characters
              = HunksCharacters(a.kept) + a.characters
        <5> DEFINE k == HunksCharacters(a.kept)
                   n == Sum(lines.kept)
                   c == lines.characters
                   m == a.characters
        <5>1. k \in Nat /\ n \in Nat /\ c \in Nat /\ m \in Nat /\ n + c = m - header
          BY <4>1, <4>2
        <5> HIDE DEF k, n, c, m
        <5>2. (k + (header + n)) + c = k + m
          BY <5>1
        <5> QED
          BY <5>2 DEF k, n, c, m
      <4> QED
        BY <1>3, <4>3
    <3> QED
      BY <3>1, <3>2, <3>3
  <2>2. CASE ~added
    <3>1. b.kept = a.kept /\ b.characters = lines.characters
      BY <1>10, <2>2
    <3>2. header = 0 /\ Sum(lines.kept) = 0
      BY <1>14, <1>15, <2>2
    <3> HIDE DEF added
    <3> QED
      BY <1>2, <1>3, <1>5, <1>6, <3>1, <3>2
  <2> QED
    BY <2>1, <2>2
<1>17. HunksLines(b.kept) + b.lines = L
  <2>1. CASE added
    <3>1. b.kept = Append(a.kept, g) /\ b.lines = lines.lines
      BY <1>10, <2>1
    <3>2. HunksLines(b.kept) = HunksLines(a.kept) + Len(lines.kept)
      BY <1>13, <3>1
    <3> HIDE DEF added
    <3> QED
      BY SMTT(20), <1>2, <1>3, <1>5, <1>6, <3>1, <3>2
  <2>2. CASE ~added
    <3>1. b.kept = a.kept /\ b.lines = lines.lines
      BY <1>10, <2>2
    <3>2. Len(lines.kept) = 0
      BY <1>15, <2>2
    <3> HIDE DEF added
    <3> QED
      BY <1>2, <1>3, <1>5, <1>6, <3>1, <3>2
  <2> QED
    BY <2>1, <2>2
<1>18. w => b.short
  BY <1>4, <1>10
<1>19. ASSUME ~b.cut, ~b.short PROVE Begins(b.kept, hunks, i)
  <2>1. ~a.short /\ ~(header < h.header) /\ ~lines.cut
    BY <1>10, <1>19
  <2>2. header = h.header
    BY <1>1, <2>1 DEF h
  <2>3. lines.kept = h.lines
    BY <1>7, <2>1
  <2>4. g = h
    <3>1. h = [header |-> h.header, lines |-> h.lines]
      BY <1>1 DEF Hunk
    <3> QED
      BY <2>2, <2>3, <3>1 DEF g
  <2>5. added
    BY <2>3
  <2>6. b.kept = Append(a.kept, hunks[i])
    BY <1>10, <2>4, <2>5 DEF h
  <2>7. Begins(a.kept, hunks, i - 1)
    BY <1>4, <2>1
  <2> QED
    BY <1>2, <2>6, <2>7, BeginsFacts
<1> QED
  BY <1>12, <1>16, <1>17, <1>18, <1>19 DEF HunksOK, b, h

\* It stays so with the next hunk,
LEMMA HunkKept ==
  ASSUME NEW C \in Nat, NEW L \in Nat, NEW w \in BOOLEAN, NEW hunks \in Seq(Hunk),
         NEW i \in 1..Len(hunks), NEW a, HunksOK(a, C, L, w, hunks, i - 1)
  PROVE  HunksOK(KeepHunk(a, hunks[i]), C, L, w, hunks, i)
<1>0. /\ a \in [kept: Seq(Hunk), characters: Nat, lines: Nat, cut: BOOLEAN, short: BOOLEAN]
      /\ HunksCharacters(a.kept) + a.characters = C
      /\ HunksLines(a.kept) + a.lines = L
      /\ w => a.short
  BY DEF HunksOK
<1>1. CASE a.cut
  BY <1>0, <1>1 DEF KeepHunk, HunksOK
<1>2. CASE ~a.cut /\ Spent(a)
  <2> DEFINE b == [a EXCEPT !.cut = TRUE]
  <2>1. KeepHunk(a, hunks[i]) = b
    BY <1>2 DEF KeepHunk
  <2>2. /\ b \in [kept: Seq(Hunk), characters: Nat, lines: Nat, cut: BOOLEAN, short: BOOLEAN]
        /\ b.kept = a.kept /\ b.characters = a.characters /\ b.lines = a.lines /\ b.cut = TRUE
        /\ b.short = a.short
    BY <1>0
  <2> HIDE DEF b
  <2> QED
    BY <1>0, <2>1, <2>2 DEF HunksOK
<1>3. CASE ~a.cut /\ ~Spent(a)
  <2> DEFINE header == Least({hunks[i].header, a.characters, MaxMetadata})
             lines == KeepLines(a, hunks[i].lines, header)
  <2>1. KeepHunk(a, hunks[i]) = HunkOf(a, hunks[i], header, lines)
    BY <1>3 DEF KeepHunk, HunkWith
  <2>2. a.characters \in Nat /\ a.lines \in Nat /\ MaxMetadata \in Nat
    BY <1>0, DiffsAssumption DEF Positive
  <2>3. hunks[i].header \in Nat /\ hunks[i].lines \in Seq(Nat)
    <3>1. hunks[i] \in Hunk
      OBVIOUS
    <3> QED
      BY <3>1 DEF Hunk
  <2>4. header \in Nat /\ header <= hunks[i].header /\ header <= a.characters
    BY <2>2, <2>3, LeastOfThree
  <2> HIDE DEF header
  <2>5. LinesOK(lines, a.characters - header, a.lines, hunks[i].lines, Len(hunks[i].lines))
    BY <2>2, <2>3, <2>4, LinesKept
  <2> HIDE DEF lines
  <2> QED
    BY <1>3, <2>1, <2>4, <2>5, HunkOfFacts
<1> QED
  BY <1>1, <1>2, <1>3

\* and so it is of all hunks of a file.
LEMMA HunksKept ==
  ASSUME NEW a, a.characters \in Nat, a.lines \in Nat, NEW f \in File,
         NEW path \in Nat, NEW old \in Nat, path + old <= a.characters
  PROVE  HunksOK(KeepHunks(a, f, path, old), a.characters - path - old, a.lines,
                 f.truncated \/ path < f.path \/ old < f.old, f.hunks, Len(f.hunks))
<1> DEFINE C == a.characters - path - old
           w == f.truncated \/ path < f.path \/ old < f.old
           first == [kept |-> <<>>, characters |-> C, lines |-> a.lines, cut |-> FALSE,
                     short |-> w]
           hunks == f.hunks
           A == AfterHunk(first, hunks)
           P == {i \in 0..Len(hunks) : HunksOK(A[i], C, a.lines, w, hunks, i)}
<1>0. /\ C \in Nat /\ hunks \in Seq(Hunk) /\ Len(hunks) \in Nat /\ <<>> \in Seq(Hunk)
      /\ w \in BOOLEAN
  BY DEF File
<1>2. KeepHunks(a, f, path, old) = A[Len(hunks)]
  BY DEF KeepHunks
<1> HIDE DEF C, w, hunks
<1>1. HunksOK(first, C, a.lines, w, hunks, 0)
  <2>1. /\ first.kept = <<>> /\ first.characters = C /\ first.lines = a.lines
        /\ first.cut = FALSE /\ first.short = w
    OBVIOUS
  <2>2. first \in [kept: Seq(Hunk), characters: Nat, lines: Nat, cut: BOOLEAN, short: BOOLEAN]
    BY <1>0
  <2>3. Begins(<<>>, hunks, 0)
    BY DEF Begins
  <2>4. HunksCharacters(<<>>) = 0 /\ HunksLines(<<>>) = 0
    BY <1>0, HunksFacts
  <2> HIDE DEF first
  <2> QED
    BY <1>0, <2>1, <2>2, <2>3, <2>4 DEF HunksOK
<1> HIDE DEF first
<1>3. A[0] = first /\ \A i \in 1..Len(hunks) : A[i] = KeepHunk(A[i - 1], hunks[i])
  BY <1>0, AfterHunkFollows
<1> HIDE DEF A
<1>4. 0 \in P
  BY <1>0, <1>1, <1>3
<1>5. ASSUME NEW i \in 1..Len(hunks), i - 1 \in P PROVE i \in P
  <2>1. HunksOK(A[i - 1], C, a.lines, w, hunks, i - 1)
    BY <1>5
  <2>2. HunksOK(KeepHunk(A[i - 1], hunks[i]), C, a.lines, w, hunks, i)
    BY <1>0, <2>1, HunkKept
  <2> QED
    BY <1>3, <2>2
<1> HIDE DEF P
<1>6. \A i \in 0..Len(hunks) : i \in P
  BY <1>0, <1>4, <1>5, UpTo
<1>7. Len(hunks) \in P
  BY <1>0, <1>6
<1> QED
  BY <1>2, <1>7 DEF P, C, w, hunks


\* The marks of one file more.
LEMMA MarkedAppend ==
  ASSUME NEW files \in Seq(File), NEW f \in File
  PROVE  BudgetMarked(Append(files, f)) <=> BudgetMarked(files) \/ f.truncated
<1>1. /\ Append(files, f) \in Seq(File) /\ Len(Append(files, f)) = Len(files) + 1
      /\ \A i \in 1..Len(files) : Append(files, f)[i] = files[i]
      /\ Append(files, f)[Len(files) + 1] = f
      /\ Len(files) \in Nat
  BY AppendProperties
<1>2. DOMAIN Append(files, f) = 1..(Len(files) + 1) /\ DOMAIN files = 1..Len(files)
  BY <1>1, LenProperties
<1>3. ASSUME BudgetMarked(Append(files, f)) PROVE BudgetMarked(files) \/ f.truncated
  <2>1. PICK i \in 1..(Len(files) + 1) : Append(files, f)[i].truncated
    BY <1>2, <1>3 DEF BudgetMarked
  <2>2. CASE i \in 1..Len(files)
    BY <1>1, <1>2, <2>1, <2>2 DEF BudgetMarked
  <2>3. CASE i = Len(files) + 1
    BY <1>1, <2>1, <2>3
  <2> QED
    BY <1>1, <2>2, <2>3
<1>4. ASSUME BudgetMarked(files) PROVE BudgetMarked(Append(files, f))
  <2>1. PICK i \in 1..Len(files) : files[i].truncated
    BY <1>2, <1>4 DEF BudgetMarked
  <2>2. i \in 1..(Len(files) + 1)
    BY <1>1
  <2> QED
    BY <1>1, <1>2, <2>1, <2>2 DEF BudgetMarked
<1>5. ASSUME f.truncated PROVE BudgetMarked(Append(files, f))
  <2>1. Len(files) + 1 \in 1..(Len(files) + 1)
    BY <1>1
  <2> QED
    BY <1>1, <1>2, <1>5, <2>1 DEF BudgetMarked
<1> QED
  BY <1>3, <1>4, <1>5

\* Limits with which something can be kept.
SomeRoom(limits) == limits.files > 0 /\ limits.lines > 0 /\ limits.characters > 0

\* What is kept of the first i files of a tool.
FilesOK(a, limits, files, i) ==
  /\ a \in [kept: Seq(File), files: Nat, lines: Nat, characters: Nat, cut: BOOLEAN]
  /\ Plus(SizeOf(a.kept), a, limits)
  /\ ~a.cut /\ ~BudgetMarked(a.kept) => Begins(a.kept, files, i)
  /\ i = 0 => a = NoFiles(limits)
  /\ i # 0 /\ SomeRoom(limits) => a.kept # <<>>

\* What a file that is kept adds.
LEMMA FileOfFacts ==
  ASSUME NEW limits \in Size, NEW files \in Seq(File), NEW i \in 1..Len(files),
         NEW a, FilesOK(a, limits, files, i - 1), ~a.cut, a.files # 0,
         NEW path \in Nat, path <= files[i].path, NEW old \in Nat, old <= files[i].old,
         path + old <= a.characters, NEW hunks,
         HunksOK(hunks, a.characters - path - old, a.lines,
                 files[i].truncated \/ path < files[i].path \/ old < files[i].old,
                 files[i].hunks, Len(files[i].hunks))
  PROVE  FilesOK(FileOf(a, path, old, hunks), limits, files, i)
<1> DEFINE f == files[i]
           g == [path |-> path, old |-> old, hunks |-> hunks.kept,
                 truncated |-> hunks.short \/ hunks.cut]
           b == FileOf(a, path, old, hunks)
<1>1. f \in File /\ f.path \in Nat /\ f.old \in Nat /\ f.hunks \in Seq(Hunk) /\ f.truncated \in BOOLEAN
  <2>1. f \in File
    OBVIOUS
  <2> HIDE DEF f
  <2> QED
    BY <2>1 DEF File
<1>2. /\ a.kept \in Seq(File) /\ a.files \in Nat /\ a.lines \in Nat /\ a.characters \in Nat
  BY DEF FilesOK
<1>3. /\ hunks.kept \in Seq(Hunk) /\ hunks.characters \in Nat /\ hunks.lines \in Nat
      /\ hunks.cut \in BOOLEAN /\ hunks.short \in BOOLEAN
  BY DEF HunksOK
<1>4. /\ HunksCharacters(hunks.kept) + hunks.characters = a.characters - path - old
      /\ HunksLines(hunks.kept) + hunks.lines = a.lines
  BY DEF HunksOK
<1>5. /\ HunksCharacters(hunks.kept) \in Nat /\ HunksLines(hunks.kept) \in Nat
  BY <1>3, HunksFacts
<1>6. g \in File /\ g.hunks = hunks.kept /\ g.path = path /\ g.old = old
      /\ g.truncated = (hunks.short \/ hunks.cut)
  BY <1>3 DEF File
<1>7. /\ OneSize(g).files = 1 /\ OneSize(g).lines = HunksLines(hunks.kept)
      /\ OneSize(g).characters = path + old + HunksCharacters(hunks.kept)
  BY <1>6 DEF OneSize, FileL, FileC, FileCharacters
<1>8. ~hunks.cut /\ ~hunks.short => g = f
  <2>1. ASSUME ~hunks.cut, ~hunks.short PROVE g = f
    <3>1. ~(f.truncated \/ path < f.path \/ old < f.old)
      BY <2>1 DEF HunksOK
    <3>2. Begins(hunks.kept, f.hunks, Len(f.hunks))
      BY <2>1 DEF HunksOK
    <3> HIDE DEF f, g
    <3>3. hunks.kept = f.hunks
      BY <1>1, <1>3, <3>2, BeginsFacts
    <3>4. path <= f.path /\ old <= f.old
      BY DEF f
    <3>5. path = f.path /\ old = f.old /\ f.truncated = FALSE
      BY <1>1, <3>1, <3>4
    <3>6. /\ f = [path |-> f.path, old |-> f.old, hunks |-> f.hunks, truncated |-> f.truncated]
          /\ g = [path |-> g.path, old |-> g.old, hunks |-> g.hunks, truncated |-> g.truncated]
      BY <1>1, <1>6 DEF File
    <3>7. g.truncated = f.truncated
      BY <1>6, <2>1, <3>5
    <3> QED
      BY <1>6, <3>3, <3>5, <3>6, <3>7
  <2> QED
    BY <2>1
<1>9. /\ b.kept = Append(a.kept, g) /\ b.files = a.files - 1 /\ b.characters = hunks.characters
      /\ b.lines = hunks.lines /\ b.cut = hunks.cut
  BY DEF FileOf
<1>10. b \in [kept: Seq(File), files: Nat, lines: Nat, characters: Nat, cut: BOOLEAN]
  <2> HIDE DEF g
  <2>1. Append(a.kept, g) \in Seq(File)
    BY <1>2, <1>6
  <2>2. a.files - 1 \in Nat
    <3>1. \A n \in Nat : n # 0 => n - 1 \in Nat
      OBVIOUS
    <3> QED
      BY <1>2, <3>1
  <2> QED
    BY <1>3, <2>1, <2>2 DEF FileOf, g
<1> HIDE DEF b, g, f
<1>11. Plus(SizeOf(b.kept), b, limits)
  <2> DEFINE z == SizeOf(a.kept)
             y == SizeOf(b.kept)
             x == HunksCharacters(hunks.kept)
             v == HunksLines(hunks.kept)
  <2>1. Plus(z, a, limits) /\ Plus(z, OneSize(g), y)
    BY <1>2, <1>6, <1>9, SizeFacts DEF FilesOK
  <2>2. z \in Size
    BY <1>2, SizeFacts
  <2>3. z.files \in Nat /\ z.lines \in Nat /\ z.characters \in Nat
    BY <2>2 DEF Size
  <2> HIDE DEF z, y, x, v
  <2>4. y.files + b.files = limits.files
    <3>1. y.files = z.files + 1 /\ z.files + a.files = limits.files /\ b.files = a.files - 1
      BY <1>7, <1>9, <2>1 DEF Plus
    <3>2. (z.files + 1) + (a.files - 1) = z.files + a.files
      BY <1>2, <2>3, Balance
    <3> QED
      BY <3>1, <3>2
  <2>5. y.lines + b.lines = limits.lines
    <3>1. y.lines = z.lines + v /\ z.lines + a.lines = limits.lines /\ b.lines = hunks.lines
      BY <1>7, <1>9, <2>1 DEF Plus, v
    <3>2. v + hunks.lines = a.lines /\ v \in Nat
      BY <1>4, <1>5 DEF v
    <3>3. (z.lines + v) + hunks.lines = z.lines + (v + hunks.lines)
      BY <1>3, <2>3, <3>2
    <3> QED
      BY <3>1, <3>2, <3>3
  <2>6. y.characters + b.characters = limits.characters
    <3> DEFINE zc == z.characters
               hc == hunks.characters
               ac == a.characters
    <3>1. /\ y.characters = zc + (path + old + x) /\ zc + ac = limits.characters
          /\ b.characters = hc
      BY <1>7, <1>9, <2>1 DEF Plus, x
    <3>2. x + hc = ac - path - old /\ x \in Nat /\ hc \in Nat /\ ac \in Nat /\ zc \in Nat
      BY <1>2, <1>3, <1>4, <1>5, <2>3 DEF x
    <3> HIDE DEF zc, hc, ac
    <3>3. (zc + (path + old + x)) + hc = zc + ac
      BY <3>2
    <3> QED
      BY <3>1, <3>3
  <2> QED
    BY <2>4, <2>5, <2>6 DEF Plus, y
<1>12. ASSUME ~b.cut, ~BudgetMarked(b.kept) PROVE Begins(b.kept, files, i)
  <2>1. ~BudgetMarked(a.kept) /\ ~g.truncated
    BY <1>2, <1>6, <1>9, <1>12, MarkedAppend
  <2>2. g = files[i]
    BY <1>6, <1>8, <2>1 DEF f
  <2>3. Begins(a.kept, files, i - 1)
    BY <2>1 DEF FilesOK
  <2> QED
    BY <1>2, <1>9, <2>2, <2>3, BeginsFacts
<1>13. b.kept # <<>>
  <2>0. \A t \in Seq(File) : \A x \in File : Append(t, x) # <<>>
    BY AppendProperties
  <2>1. Append(a.kept, g) # <<>>
    BY <1>2, <1>6, <2>0
  <2> QED
    BY <1>9, <2>1
<1>14. i # 0
  OBVIOUS
<1> QED
  BY <1>10, <1>11, <1>12, <1>13, <1>14 DEF FilesOK, b

\* It stays so with the next file,
LEMMA FileKept ==
  ASSUME NEW limits \in Size, NEW files \in Seq(File), NEW i \in 1..Len(files),
         NEW a, FilesOK(a, limits, files, i - 1)
  PROVE  FilesOK(KeepFile(a, files[i]), limits, files, i)
<1>0. /\ a \in [kept: Seq(File), files: Nat, lines: Nat, characters: Nat, cut: BOOLEAN]
      /\ Plus(SizeOf(a.kept), a, limits) /\ i # 0
      /\ (i - 1) = 0 => a = NoFiles(limits)
      /\ (i - 1) # 0 /\ SomeRoom(limits) => a.kept # <<>>
  BY DEF FilesOK
<1>1. CASE a.cut
  <2>1. (i - 1) # 0
    BY <1>0, <1>1 DEF NoFiles
  <2>2. KeepFile(a, files[i]) = a
    BY <1>1 DEF KeepFile
  <2> QED
    BY <1>0, <1>1, <2>1, <2>2 DEF FilesOK
<1>2. CASE ~a.cut /\ (a.files = 0 \/ Spent(a))
  <2> DEFINE b == [a EXCEPT !.cut = TRUE]
  <2>1. KeepFile(a, files[i]) = b
    BY <1>2 DEF KeepFile
  <2>2. /\ b \in [kept: Seq(File), files: Nat, lines: Nat, characters: Nat, cut: BOOLEAN]
        /\ b.kept = a.kept /\ b.characters = a.characters /\ b.lines = a.lines /\ b.cut = TRUE
        /\ b.files = a.files
    BY <1>0
  <2>3. SomeRoom(limits) => (i - 1) # 0
    <3>1. ASSUME a = NoFiles(limits), SomeRoom(limits) PROVE FALSE
      <4>1. a.files = limits.files /\ a.lines = limits.lines /\ a.characters = limits.characters
        BY <3>1 DEF NoFiles
      <4>2. limits.files \in Nat /\ limits.lines \in Nat /\ limits.characters \in Nat
        BY DEF Size
      <4> QED
        BY <1>2, <3>1, <4>1, <4>2 DEF SomeRoom, Spent
    <3> QED
      BY <1>0, <3>1
  <2> HIDE DEF b
  <2>4. Plus(SizeOf(b.kept), b, limits)
    BY <1>0, <2>2 DEF Plus
  <2> QED
    BY <1>0, <2>1, <2>2, <2>3, <2>4 DEF FilesOK
<1>3. CASE ~a.cut /\ ~(a.files = 0 \/ Spent(a))
  <2> DEFINE path == Least({files[i].path, a.characters, MaxMetadata})
             old == Least({files[i].old, a.characters - path, MaxMetadata})
             hunks == KeepHunks(a, files[i], path, old)
  <2>1. KeepFile(a, files[i]) = FileOf(a, path, old, hunks)
    BY <1>3 DEF KeepFile, FileAt, FileWith
  <2>2. a.characters \in Nat /\ a.lines \in Nat /\ MaxMetadata \in Nat
    BY <1>0, DiffsAssumption DEF Positive
  <2>3. files[i] \in File /\ files[i].path \in Nat /\ files[i].old \in Nat
    <3>1. files[i] \in File
      OBVIOUS
    <3> QED
      BY <3>1 DEF File
  <2>4. path \in Nat /\ path <= files[i].path /\ path <= a.characters
    BY <2>2, <2>3, LeastOfThree
  <2> HIDE DEF path
  <2>5. a.characters - path \in Nat
    BY <2>2, <2>4
  <2>6. old \in Nat /\ old <= files[i].old /\ old <= a.characters - path
    BY <2>2, <2>3, <2>5, LeastOfThree
  <2> HIDE DEF old
  <2>7. path + old <= a.characters
    BY <2>2, <2>4, <2>6
  <2>8. HunksOK(hunks, a.characters - path - old, a.lines,
                files[i].truncated \/ path < files[i].path \/ old < files[i].old,
                files[i].hunks, Len(files[i].hunks))
    BY <2>2, <2>3, <2>4, <2>6, <2>7, HunksKept
  <2> HIDE DEF hunks
  <2> QED
    BY <1>3, <2>1, <2>4, <2>6, <2>7, <2>8, FileOfFacts
<1> QED
  BY <1>1, <1>2, <1>3

\* and so it is of all files of a tool.
LEMMA FilesKept ==
  ASSUME NEW limits \in Size, NEW files \in Seq(File)
  PROVE  FilesOK(AfterFile(limits, files)[Len(files)], limits, files, Len(files))
<1> DEFINE A == AfterFile(limits, files)
           P == {i \in 0..Len(files) : FilesOK(A[i], limits, files, i)}
<1>0. Len(files) \in Nat
  OBVIOUS
<1>1. FilesOK(NoFiles(limits), limits, files, 0)
  <2> DEFINE first == NoFiles(limits)
  <2>1. /\ first.kept = <<>> /\ first.characters = limits.characters /\ first.lines = limits.lines
        /\ first.cut = FALSE /\ first.files = limits.files
    BY DEF NoFiles
  <2>2. limits.files \in Nat /\ limits.lines \in Nat /\ limits.characters \in Nat
    BY DEF Size
  <2>3. first \in [kept: Seq(File), files: Nat, lines: Nat, characters: Nat, cut: BOOLEAN]
    BY <2>2 DEF NoFiles
  <2>4. Begins(<<>>, files, 0)
    BY DEF Begins
  <2>5. SizeOf(<<>>) = [files |-> 0, lines |-> 0, characters |-> 0]
    BY SizeFacts
  <2> HIDE DEF first
  <2>6. Plus(SizeOf(first.kept), first, limits)
    BY <2>1, <2>2, <2>5 DEF Plus
  <2> QED
    BY <2>1, <2>3, <2>4, <2>6 DEF FilesOK, first
<1>3. A[0] = NoFiles(limits) /\ \A i \in 1..Len(files) : A[i] = KeepFile(A[i - 1], files[i])
  BY <1>0, AfterFileFollows
<1> HIDE DEF A
<1>4. 0 \in P
  BY <1>0, <1>1, <1>3
<1>5. ASSUME NEW i \in 1..Len(files), i - 1 \in P PROVE i \in P
  <2>1. FilesOK(A[i - 1], limits, files, i - 1)
    BY <1>5
  <2>2. FilesOK(KeepFile(A[i - 1], files[i]), limits, files, i)
    BY <1>0, <2>1, FileKept
  <2> QED
    BY <1>3, <2>2
<1> HIDE DEF P
<1>6. \A i \in 0..Len(files) : i \in P
  BY <1>0, <1>4, <1>5, UpTo
<1>7. Len(files) \in P
  BY <1>0, <1>6
<1> QED
  BY <1>7 DEF P, A

\* Files within their limits.
Below(size, limits) ==
  /\ size.files <= limits.files /\ size.lines <= limits.lines /\ size.characters <= limits.characters

\* What is kept of files is within the limits and, unless it says that something
\* is missing, it is all of them.
LEMMA BoundedFacts ==
  ASSUME NEW limits \in Size, NEW files \in Seq(File)
  PROVE  LET kept == BoundedFileDiffs(files, limits)
         IN  /\ kept \in Seq(File) /\ Below(SizeOf(kept), limits)
             /\ kept # <<>> /\ ~BudgetMarked(kept) => kept = files
             /\ files # <<>> /\ SomeRoom(limits) => kept # <<>>
<1> DEFINE kept == BoundedFileDiffs(files, limits)
           a == AfterFile(limits, files)[Len(files)]
<1>1. CASE Fits(SizeOf(files), limits)
  <2>1. kept = files
    BY <1>1 DEF BoundedFileDiffs
  <2>2. DOMAIN limits = {"files", "lines", "characters"}
    BY DEF Size
  <2>3. Below(SizeOf(files), limits)
    BY <1>1, <2>2 DEF Fits, Below
  <2> QED
    BY <2>1, <2>3
<1>2. CASE ~Fits(SizeOf(files), limits)
  <2>1. kept = Cutting(a)
    BY <1>2 DEF BoundedFileDiffs
  <2>2. FilesOK(a, limits, files, Len(files))
    BY FilesKept
  <2> HIDE DEF a, kept
  <2>3. /\ a.kept \in Seq(File) /\ a.files \in Nat /\ a.lines \in Nat /\ a.characters \in Nat
        /\ Plus(SizeOf(a.kept), a, limits)
    BY <2>2 DEF FilesOK
  <2>4. Below(SizeOf(a.kept), limits)
    <3>1. SizeOf(a.kept) \in Size
      BY <2>3, SizeFacts
    <3>2. /\ SizeOf(a.kept).files \in Nat /\ SizeOf(a.kept).lines \in Nat
          /\ SizeOf(a.kept).characters \in Nat
      BY <3>1 DEF Size
    <3>3. /\ limits.files = SizeOf(a.kept).files + a.files
          /\ limits.lines = SizeOf(a.kept).lines + a.lines
          /\ limits.characters = SizeOf(a.kept).characters + a.characters
      BY <2>3 DEF Plus
    <3>4. \A m, n, l \in Nat : l = m + n => m <= l
      OBVIOUS
    <3>5. limits.files \in Nat /\ limits.lines \in Nat /\ limits.characters \in Nat
      BY DEF Size
    <3> QED
      BY <2>3, <3>2, <3>3, <3>4, <3>5 DEF Below
  <2>5. files # <<>> /\ SomeRoom(limits) => a.kept # <<>>
    <3>1. files # <<>> => Len(files) # 0
      OBVIOUS
    <3> QED
      BY <2>2, <3>1 DEF FilesOK
  <2>6. CASE ~a.cut
    <3>1. kept = a.kept
      BY <2>1, <2>6 DEF Cutting
    <3>2. ~BudgetMarked(kept) => kept = files
      BY <2>2, <2>3, <2>6, <3>1, BeginsFacts DEF FilesOK
    <3> QED
      BY <2>3, <2>4, <2>5, <3>1, <3>2 DEF kept
  <2>7. CASE a.cut /\ a.kept = <<>>
    <3>1. kept = a.kept
      BY <2>1, <2>7 DEF Cutting, MarkLast
    <3> QED
      BY <2>3, <2>4, <2>5, <2>7, <3>1 DEF kept
  <2>8. CASE a.cut /\ a.kept # <<>>
    <3>1. kept = MarkLast(a.kept)
      BY <2>1, <2>8 DEF Cutting
    <3>2. SameButMarks(a.kept, kept) /\ BudgetMarked(kept)
      BY <2>3, <2>8, <3>1, MarkFacts
    <3>3. SizeOf(kept) = SizeOf(a.kept)
      BY <2>3, <3>2, SizeSame
    <3>4. kept \in Seq(File) /\ kept # <<>>
      <4>1. kept \in Seq(File) /\ Len(kept) = Len(a.kept)
        BY <3>2 DEF SameButMarks
      <4>2. Len(a.kept) # 0
        BY <2>3, <2>8
      <4> QED
        BY <4>1, <4>2
    <3> QED
      BY <2>4, <3>2, <3>3, <3>4 DEF kept
  <2> QED
    BY <2>6, <2>7, <2>8
<1> QED
  BY <1>1, <1>2


-----------------------------------------------------------------------------
(* What the budget keeps of the tools of a turn. *)

Entry == [tool: ToolCall, files: Seq(File)]

\* How the files of a tool count, and those of several tools.
EntryF == [e \in Entry |-> SizeOf(e.files).files]
EntryL == [e \in Entry |-> SizeOf(e.files).lines]
EntryC == [e \in Entry |-> SizeOf(e.files).characters]
TotalOf(tools) ==
  [files |-> Adds(EntryF, tools), lines |-> Adds(EntryL, tools), characters |-> Adds(EntryC, tools)]

\* The sizes of tools are numbers.
LEMMA EntryTyped ==
  /\ EntryF \in [Entry -> Nat] /\ EntryL \in [Entry -> Nat] /\ EntryC \in [Entry -> Nat]
<1>1. ASSUME NEW e \in Entry
      PROVE  /\ SizeOf(e.files).files \in Nat /\ SizeOf(e.files).lines \in Nat
             /\ SizeOf(e.files).characters \in Nat
  <2>1. SizeOf(e.files) \in Size
    <3>1. e.files \in Seq(File)
      BY DEF Entry
    <3> QED
      BY <3>1, SizeFacts
  <2> QED
    BY <2>1 DEF Size
<1> QED
  BY <1>1 DEF EntryF, EntryL, EntryC

\* The size of the files of tools, of none, and of one tool more.
LEMMA TotalFacts ==
  ASSUME NEW tools \in Seq(Entry)
  PROVE  /\ TotalOf(tools) \in Size
         /\ TotalOf(<<>>) = [files |-> 0, lines |-> 0, characters |-> 0]
         /\ \A e \in Entry : Plus(TotalOf(tools), SizeOf(e.files), TotalOf(<<e>> \o tools))
<1>0. /\ EntryF \in [Entry -> Nat] /\ EntryL \in [Entry -> Nat] /\ EntryC \in [Entry -> Nat]
  BY EntryTyped
<1>1. /\ Adds(EntryF, tools) \in Nat /\ Adds(EntryF, <<>>) = 0
      /\ \A e \in Entry : Adds(EntryF, <<e>>) = EntryF[e]
  BY <1>0, AddsFacts
<1>2. /\ Adds(EntryL, tools) \in Nat /\ Adds(EntryL, <<>>) = 0
      /\ \A e \in Entry : Adds(EntryL, <<e>>) = EntryL[e]
  BY <1>0, AddsFacts
<1>3. /\ Adds(EntryC, tools) \in Nat /\ Adds(EntryC, <<>>) = 0
      /\ \A e \in Entry : Adds(EntryC, <<e>>) = EntryC[e]
  BY <1>0, AddsFacts
<1>4. TotalOf(tools) \in Size
  BY <1>1, <1>2, <1>3 DEF TotalOf, Size
<1>5. TotalOf(<<>>) = [files |-> 0, lines |-> 0, characters |-> 0]
  BY <1>1, <1>2, <1>3 DEF TotalOf
<1>6. ASSUME NEW e \in Entry PROVE Plus(TotalOf(tools), SizeOf(e.files), TotalOf(<<e>> \o tools))
  <2>1. <<e>> \in Seq(Entry)
    OBVIOUS
  <2>2. Adds(EntryF, <<e>> \o tools) = Adds(EntryF, <<e>>) + Adds(EntryF, tools)
    BY <1>0, <2>1, AddsJoin
  <2>3. Adds(EntryL, <<e>> \o tools) = Adds(EntryL, <<e>>) + Adds(EntryL, tools)
    BY <1>0, <2>1, AddsJoin
  <2>4. Adds(EntryC, <<e>> \o tools) = Adds(EntryC, <<e>>) + Adds(EntryC, tools)
    BY <1>0, <2>1, AddsJoin
  <2>5. /\ EntryF[e] = SizeOf(e.files).files /\ EntryL[e] = SizeOf(e.files).lines
        /\ EntryC[e] = SizeOf(e.files).characters
        /\ EntryF[e] \in Nat /\ EntryL[e] \in Nat /\ EntryC[e] \in Nat
    BY <1>0 DEF EntryF, EntryL, EntryC
  <2>6. \A m, n \in Nat : m + n = n + m
    OBVIOUS
  <2>7. /\ TotalOf(<<e>> \o tools).files = TotalOf(tools).files + SizeOf(e.files).files
    BY <1>1, <2>2, <2>5, <2>6 DEF TotalOf
  <2>8. /\ TotalOf(<<e>> \o tools).lines = TotalOf(tools).lines + SizeOf(e.files).lines
    BY <1>2, <2>3, <2>5, <2>6 DEF TotalOf
  <2>9. /\ TotalOf(<<e>> \o tools).characters = TotalOf(tools).characters + SizeOf(e.files).characters
    BY <1>3, <2>4, <2>5, <2>6 DEF TotalOf
  <2> QED
    BY <2>7, <2>8, <2>9 DEF Plus
<1> QED
  BY <1>4, <1>5, <1>6

\* The marks of the files of two.
LEMMA MarkedJoin ==
  ASSUME NEW files \in Seq(File), NEW more \in Seq(File)
  PROVE  BudgetMarked(files \o more) <=> BudgetMarked(files) \/ BudgetMarked(more)
<1> DEFINE all == files \o more
<1>1. /\ all \in Seq(File) /\ Len(all) = Len(files) + Len(more)
      /\ \A i \in 1..Len(files) : all[i] = files[i]
      /\ \A i \in 1..Len(more) : all[Len(files) + i] = more[i]
      /\ Len(files) \in Nat /\ Len(more) \in Nat
  OBVIOUS
<1>2. DOMAIN all = 1..Len(all) /\ DOMAIN files = 1..Len(files) /\ DOMAIN more = 1..Len(more)
  BY <1>1, LenProperties
<1> HIDE DEF all
<1>3. ASSUME BudgetMarked(all) PROVE BudgetMarked(files) \/ BudgetMarked(more)
  <2>1. PICK i \in 1..Len(all) : all[i].truncated
    BY <1>2, <1>3 DEF BudgetMarked
  <2>2. CASE i \in 1..Len(files)
    BY <1>1, <1>2, <2>1, <2>2 DEF BudgetMarked
  <2>3. CASE ~(i \in 1..Len(files))
    <3>1. i - Len(files) \in 1..Len(more) /\ Len(files) + (i - Len(files)) = i
      BY <1>1, <2>3
    <3>2. all[i] = more[i - Len(files)]
      BY <1>1, <3>1
    <3> QED
      BY <1>2, <2>1, <3>1, <3>2 DEF BudgetMarked
  <2> QED
    BY <2>2, <2>3
<1>4. ASSUME BudgetMarked(files) PROVE BudgetMarked(all)
  <2>1. PICK i \in 1..Len(files) : files[i].truncated
    BY <1>2, <1>4 DEF BudgetMarked
  <2>2. i \in 1..Len(all)
    BY <1>1
  <2> QED
    BY <1>1, <1>2, <2>1, <2>2 DEF BudgetMarked
<1>5. ASSUME BudgetMarked(more) PROVE BudgetMarked(all)
  <2>1. PICK i \in 1..Len(more) : more[i].truncated
    BY <1>2, <1>5 DEF BudgetMarked
  <2>2. Len(files) + i \in 1..Len(all)
    BY <1>1
  <2>3. all[Len(files) + i].truncated
    BY <1>1, <2>1
  <2> QED
    BY <1>2, <2>2, <2>3 DEF BudgetMarked
<1> QED
  BY <1>3, <1>4, <1>5 DEF all

\* All files of the tools have the size of the tools, and their marks.
LEMMA FilesTotal ==
  ASSUME NEW tools \in Seq(Entry)
  PROVE  LET all == FilesTo(tools)[Len(tools)]
         IN  /\ all \in Seq(File) /\ SizeOf(all) = TotalOf(tools)
             /\ BudgetMarked(all) <=> \E j \in 1..Len(tools) : BudgetMarked(tools[j].files)
<1> DEFINE A == FilesTo(tools)
           F == SumTo([j \in DOMAIN tools |-> EntryF[tools[j]]])
           N == SumTo([j \in DOMAIN tools |-> EntryL[tools[j]]])
           C == SumTo([j \in DOMAIN tools |-> EntryC[tools[j]]])
           P == {i \in 0..Len(tools) :
                   /\ A[i] \in Seq(File)
                   /\ SizeOf(A[i]) = [files |-> F[i], lines |-> N[i], characters |-> C[i]]
                   /\ BudgetMarked(A[i]) <=> \E j \in 1..i : BudgetMarked(tools[j].files)}
<1>0. Len(tools) \in Nat /\ \A i \in 1..Len(tools) : tools[i] \in Entry /\ tools[i].files \in Seq(File)
  <2>1. \A e \in Entry : e.files \in Seq(File)
    BY DEF Entry
  <2> QED
    BY <2>1
<1>1. A[0] = <<>> /\ \A i \in 1..Len(tools) : A[i] = A[i - 1] \o tools[i].files
  BY <1>0, FilesToFollows
<1>2. /\ F[0] = 0 /\ \A i \in 1..Len(tools) : F[i] = F[i - 1] + SizeOf(tools[i].files).files
  <2> DEFINE f == [j \in DOMAIN tools |-> EntryF[tools[j]]]
  <2>1. Len(f) = Len(tools) /\ \A i \in 1..Len(tools) : f[i] = SizeOf(tools[i].files).files
    BY <1>0 DEF EntryF
  <2> HIDE DEF f
  <2>2. SumTo(f)[0] = 0 /\ \A i \in 1..Len(f) : SumTo(f)[i] = SumTo(f)[i - 1] + f[i]
    BY <1>0, <2>1, SumToFollows
  <2> QED
    BY <2>1, <2>2 DEF f
<1>3. /\ N[0] = 0 /\ \A i \in 1..Len(tools) : N[i] = N[i - 1] + SizeOf(tools[i].files).lines
  <2> DEFINE f == [j \in DOMAIN tools |-> EntryL[tools[j]]]
  <2>1. Len(f) = Len(tools) /\ \A i \in 1..Len(tools) : f[i] = SizeOf(tools[i].files).lines
    BY <1>0 DEF EntryL
  <2> HIDE DEF f
  <2>2. SumTo(f)[0] = 0 /\ \A i \in 1..Len(f) : SumTo(f)[i] = SumTo(f)[i - 1] + f[i]
    BY <1>0, <2>1, SumToFollows
  <2> QED
    BY <2>1, <2>2 DEF f
<1>4. /\ C[0] = 0 /\ \A i \in 1..Len(tools) : C[i] = C[i - 1] + SizeOf(tools[i].files).characters
  <2> DEFINE f == [j \in DOMAIN tools |-> EntryC[tools[j]]]
  <2>1. Len(f) = Len(tools) /\ \A i \in 1..Len(tools) : f[i] = SizeOf(tools[i].files).characters
    BY <1>0 DEF EntryC
  <2> HIDE DEF f
  <2>2. SumTo(f)[0] = 0 /\ \A i \in 1..Len(f) : SumTo(f)[i] = SumTo(f)[i - 1] + f[i]
    BY <1>0, <2>1, SumToFollows
  <2> QED
    BY <2>1, <2>2 DEF f
<1>5. [files |-> F[Len(tools)], lines |-> N[Len(tools)], characters |-> C[Len(tools)]] = TotalOf(tools)
  <2>1. /\ Len([j \in DOMAIN tools |-> EntryF[tools[j]]]) = Len(tools)
        /\ Len([j \in DOMAIN tools |-> EntryL[tools[j]]]) = Len(tools)
        /\ Len([j \in DOMAIN tools |-> EntryC[tools[j]]]) = Len(tools)
    BY <1>0
  <2> QED
    BY <2>1 DEF TotalOf, Adds, Sum
<1> HIDE DEF A, F, N, C
<1>6. 0 \in P
  <2>1. A[0] \in Seq(File) /\ SizeOf(A[0]) = [files |-> F[0], lines |-> N[0], characters |-> C[0]]
    <3>1. <<>> \in Seq(File)
      OBVIOUS
    <3> QED
      BY <1>1, <1>2, <1>3, <1>4, <3>1, SizeFacts
  <2>2. ~BudgetMarked(A[0])
    BY <1>1 DEF BudgetMarked
  <2> QED
    BY <1>0, <2>1, <2>2
<1>7. ASSUME NEW i \in 1..Len(tools), i - 1 \in P PROVE i \in P
  <2> DEFINE more == tools[i].files
             before == A[i - 1]
  <2>1. /\ before \in Seq(File) /\ more \in Seq(File) /\ A[i] = before \o more
        /\ SizeOf(before) = [files |-> F[i - 1], lines |-> N[i - 1], characters |-> C[i - 1]]
        /\ BudgetMarked(before) <=> \E j \in 1..(i - 1) : BudgetMarked(tools[j].files)
    BY <1>0, <1>1, <1>7
  <2> HIDE DEF before
  <2>2. before \o more \in Seq(File)
    BY <2>1, ConcatProperties
  <2>3. Plus(SizeOf(before), SizeOf(more), SizeOf(before \o more))
    BY <2>1, SizeFacts
  <2>4. SizeOf(before \o more) \in Size
    BY <2>2, SizeFacts
  <2>5. /\ SizeOf(before).files = F[i - 1] /\ SizeOf(before).lines = N[i - 1]
        /\ SizeOf(before).characters = C[i - 1]
    BY <2>1
  <2>6. SizeOf(before \o more) = [files |-> F[i], lines |-> N[i], characters |-> C[i]]
    <3> DEFINE z == SizeOf(before \o more)
    <3>1. z.files = F[i] /\ z.lines = N[i] /\ z.characters = C[i]
      BY <1>2, <1>3, <1>4, <2>3, <2>5 DEF Plus
    <3>2. z = [files |-> z.files, lines |-> z.lines, characters |-> z.characters]
      BY <2>4 DEF Size
    <3> HIDE DEF z
    <3> QED
      BY <3>1, <3>2 DEF z
  <2>7. BudgetMarked(before \o more) <=> \E j \in 1..i : BudgetMarked(tools[j].files)
    <3>1. BudgetMarked(before \o more) <=> BudgetMarked(before) \/ BudgetMarked(more)
      BY <2>1, MarkedJoin
    <3>2. 1..i = 1..(i - 1) \cup {i}
      OBVIOUS
    <3> QED
      BY <2>1, <3>1, <3>2
  <2>8. i \in 0..Len(tools)
    OBVIOUS
  <2> QED
    BY <2>1, <2>2, <2>6, <2>7, <2>8
<1> HIDE DEF P
<1>8. \A i \in 0..Len(tools) : i \in P
  BY <1>0, <1>6, <1>7, UpTo
<1>9. Len(tools) \in P
  BY <1>0, <1>8
<1> QED
  BY <1>5, <1>9 DEF P, A

\* Whether some tool's files say that something is missing; whether each has
\* files; whether no tool has two entries.
SomeMarked(tools) == \E p \in 1..Len(tools) : BudgetMarked(tools[p].files)
AllFiled(tools) == \A p \in 1..Len(tools) : tools[p].files # <<>>
Apart(tools) == \A p, q \in 1..Len(tools) : tools[p].tool = tools[q].tool => p = q

\* What is kept of the last i tools: it has used up what is not left, it is of
\* these tools only, and if nothing was omitted or marked it is all of them.
ToolsOK(a, tools, i) ==
  /\ a \in [kept: Seq(Entry), left: Size, omitted: BOOLEAN]
  /\ Plus(TotalOf(a.kept), a.left, Budget)
  /\ AllFiled(a.kept) /\ Apart(a.kept)
  /\ \A p \in 1..Len(a.kept) :
       \E j \in (Len(tools) + 1 - i)..Len(tools) : a.kept[p].tool = tools[j].tool
  /\ i = 0 => a = NoTools
  /\ i # 0 => a.kept # <<>>
  /\ ~a.omitted /\ ~SomeMarked(a.kept) =>
       \A j \in (Len(tools) + 1 - i)..Len(tools) :
         \E p \in 1..Len(a.kept) : a.kept[p] = tools[j]

\* An entry before others.
LEMMA FirstFacts ==
  ASSUME NEW e \in Entry, NEW s \in Seq(Entry)
  PROVE  /\ <<e>> \o s \in Seq(Entry) /\ Len(<<e>> \o s) = Len(s) + 1 /\ <<e>> \o s # <<>>
         /\ (<<e>> \o s)[1] = e
         /\ \A p \in 1..Len(s) : (<<e>> \o s)[p + 1] = s[p] /\ p + 1 \in 1..(Len(s) + 1)
         /\ \A p \in 1..(Len(s) + 1) : p = 1 \/ (p - 1 \in 1..Len(s) /\ (<<e>> \o s)[p] = s[p - 1])
<1> DEFINE t == <<e>> \o s
<1>1. /\ t \in Seq(Entry) /\ Len(t) = Len(s) + 1 /\ t[1] = e /\ Len(s) \in Nat
      /\ \A p \in 1..Len(s) : t[p + 1] = s[p]
  OBVIOUS
<1> HIDE DEF t
<1>2. t # <<>>
  BY <1>1
<1>3. ASSUME NEW p \in 1..(Len(s) + 1), p # 1 PROVE p - 1 \in 1..Len(s) /\ t[p] = s[p - 1]
  <2>1. p - 1 \in 1..Len(s) /\ (p - 1) + 1 = p
    BY <1>1, <1>3
  <2> QED
    BY <1>1, <2>1
<1>4. \A p \in 1..Len(s) : p + 1 \in 1..(Len(s) + 1)
  BY <1>1
<1> QED
  BY <1>1, <1>2, <1>3, <1>4 DEF t

\* What is taken from a number and what is left.
LEMMA Difference ==
  \A m, l \in Nat : m <= l => l - m \in Nat /\ l = m + (l - m)
OBVIOUS

\* A part of what is left goes to what is used.
LEMMA PlusMoves ==
  ASSUME NEW used \in Size, NEW size \in Size, NEW left \in Size, NEW before, NEW after, NEW all,
         Plus(used, before, all), Plus(size, left, before), Plus(used, size, after)
  PROVE  Plus(after, left, all)
<1>1. /\ used.files \in Nat /\ used.lines \in Nat /\ used.characters \in Nat
      /\ size.files \in Nat /\ size.lines \in Nat /\ size.characters \in Nat
      /\ left.files \in Nat /\ left.lines \in Nat /\ left.characters \in Nat
  BY DEF Size
<1>2. all.files = after.files + left.files
  BY <1>1 DEF Plus
<1>3. all.lines = after.lines + left.lines
  BY <1>1 DEF Plus
<1>4. all.characters = after.characters + left.characters
  BY <1>1 DEF Plus
<1> QED
  BY <1>2, <1>3, <1>4 DEF Plus

\* The step of the budget: one tool more, from the last to the first.
LEMMA ToolKept ==
  ASSUME NEW tools \in Seq(Entry), NEW i \in 1..Len(tools), NEW a, DiffsAssumption,
         AllFiled(tools), Apart(tools), ToolsOK(a, tools, i - 1)
  PROVE  ToolsOK(KeepTool(tools[Len(tools) + 1 - i], a), tools, i)
<1> DEFINE n == Len(tools)
           at == n + 1 - i
           e == tools[at]
           files == BoundedFileDiffs(e.files, a.left)
           size == SizeOf(files)
           entry == [tool |-> e.tool, files |-> files]
           b == KeepTool(e, a)
           k == <<entry>> \o a.kept
<1>1. /\ n \in Nat /\ at \in 1..n /\ i # 0 /\ at = n - i + 1 /\ n + 1 - (i - 1) = at + 1
      /\ at..n = {at} \cup ((at + 1)..n) /\ i \in Nat /\ i - 1 \in Nat
      /\ \A j \in (at + 1)..n : j # at /\ j \in 1..n
  OBVIOUS
<1>2. e \in Entry /\ e.files \in Seq(File) /\ e.tool \in ToolCall /\ e.files # <<>>
  <2>1. e \in Entry
    BY <1>1, ElementOfSeq
  <2> QED
    BY <1>1, <2>1 DEF Entry, AllFiled
<1>3. /\ a.kept \in Seq(Entry) /\ a.left \in Size /\ a.omitted \in BOOLEAN
      /\ a = [kept |-> a.kept, left |-> a.left, omitted |-> a.omitted]
  BY DEF ToolsOK
<1>4. /\ Plus(TotalOf(a.kept), a.left, Budget)
      /\ AllFiled(a.kept) /\ Apart(a.kept)
      /\ i - 1 = 0 => a = NoTools
      /\ i - 1 # 0 => a.kept # <<>>
  BY DEF ToolsOK
<1>5. \A p \in 1..Len(a.kept) : \E j \in (at + 1)..n : a.kept[p].tool = tools[j].tool
  <2>1. \A p \in 1..Len(a.kept) :
          \E j \in (n + 1 - (i - 1))..n : a.kept[p].tool = tools[j].tool
    BY DEF ToolsOK
  <2> QED
    BY <1>1, <2>1
<1>6. ~a.omitted /\ ~SomeMarked(a.kept) =>
        \A j \in (at + 1)..n : \E p \in 1..Len(a.kept) : a.kept[p] = tools[j]
  <2>1. ~a.omitted /\ ~SomeMarked(a.kept) =>
          \A j \in (n + 1 - (i - 1))..n : \E p \in 1..Len(a.kept) : a.kept[p] = tools[j]
    BY DEF ToolsOK
  <2> QED
    BY <1>1, <2>1
<1>7. /\ files \in Seq(File) /\ Below(size, a.left)
      /\ files # <<>> /\ ~BudgetMarked(files) => files = e.files
      /\ SomeRoom(a.left) => files # <<>>
  BY <1>2, <1>3, BoundedFacts
<1>8. size \in Size
  BY <1>7, SizeFacts
<1>9. b = ToolOf(e, a, files, size)
  BY DEF KeepTool, ToolWith
<1>10. i - 1 = 0 => files # <<>>
  <2>1. i - 1 = 0 => a.left = Budget
    BY <1>4 DEF NoTools
  <2>2. SomeRoom(Budget)
    BY DEF DiffsAssumption, SomeRoom, Positive
  <2> QED
    BY <1>7, <2>1, <2>2
<1> HIDE DEF b, files, size, e, at
<1>11. CASE files = <<>>
  <2>1. b = [kept |-> a.kept, left |-> a.left, omitted |-> TRUE]
    BY <1>3, <1>9, <1>11 DEF ToolOf
  <2>2. b.kept = a.kept /\ b.left = a.left /\ b.omitted = TRUE
    BY <2>1
  <2>3. b \in [kept: Seq(Entry), left: Size, omitted: BOOLEAN]
    BY <1>3, <2>1
  <2>4. b.kept # <<>>
    BY <1>4, <1>10, <1>11, <2>2
  <2>5. \A p \in 1..Len(b.kept) : \E j \in at..n : b.kept[p].tool = tools[j].tool
    BY <1>1, <1>5, <2>2
  <2> QED
    BY <1>1, <1>4, <2>2, <2>3, <2>4, <2>5 DEF ToolsOK, b, at, e
<1>12. CASE files # <<>>
  <2> DEFINE left == [f \in DOMAIN a.left |-> a.left[f] - size[f]]
             omitted == a.omitted \/ Less(size, SizeOf(e.files))
  <2>1. b = [kept |-> k, left |-> left, omitted |-> omitted]
    BY <1>9, <1>12 DEF ToolOf
  <2>2. entry \in Entry /\ entry.tool = e.tool /\ entry.files = files
    BY <1>2, <1>7 DEF Entry
  <2>3. /\ k \in Seq(Entry) /\ Len(k) = Len(a.kept) + 1 /\ k # <<>> /\ k[1] = entry
        /\ \A p \in 1..Len(a.kept) : k[p + 1] = a.kept[p] /\ p + 1 \in 1..(Len(a.kept) + 1)
        /\ \A p \in 1..(Len(a.kept) + 1) :
             p = 1 \/ (p - 1 \in 1..Len(a.kept) /\ k[p] = a.kept[p - 1])
    BY SMTT(20), <1>3, <2>2, FirstFacts
  <2>15. \A p \in 1..Len(k) : p # 1 => p - 1 \in 1..Len(a.kept) /\ k[p] = a.kept[p - 1]
    BY <2>3
  <2>4. left \in Size /\ Plus(size, left, a.left)
    <3>1. /\ left = [f \in {"files", "lines", "characters"} |-> a.left[f] - size[f]]
      BY <1>3 DEF Size
    <3>2. /\ left.files = a.left.files - size.files /\ left.lines = a.left.lines - size.lines
          /\ left.characters = a.left.characters - size.characters
      BY <3>1
    <3>3. left = [files |-> left.files, lines |-> left.lines, characters |-> left.characters]
      BY <3>1
    <3>4. /\ a.left.files \in Nat /\ a.left.lines \in Nat /\ a.left.characters \in Nat
          /\ size.files \in Nat /\ size.lines \in Nat /\ size.characters \in Nat
      BY <1>3, <1>8 DEF Size
    <3>5. size.files <= a.left.files /\ size.lines <= a.left.lines
          /\ size.characters <= a.left.characters
      BY <1>7 DEF Below
    <3> HIDE DEF left
    <3>6. left.files \in Nat /\ a.left.files = size.files + left.files
      BY SMTT(20), <3>2, <3>4, <3>5, Difference
    <3>7. left.lines \in Nat /\ a.left.lines = size.lines + left.lines
      BY <3>2, <3>4, <3>5, Difference
    <3>8. left.characters \in Nat /\ a.left.characters = size.characters + left.characters
      BY <3>2, <3>4, <3>5, Difference
    <3>9. left \in Size
      BY <3>3, <3>6, <3>7, <3>8 DEF Size
    <3> QED
      BY <3>6, <3>7, <3>8, <3>9 DEF Plus
  <2>5. Plus(TotalOf(a.kept), SizeOf(entry.files), TotalOf(k))
    BY <1>3, <2>2, TotalFacts
  <2> HIDE DEF left, k, entry, omitted
  <2>6. b.kept = k /\ b.left = left /\ b.omitted = omitted
    BY <2>1
  <2>7. omitted \in BOOLEAN
    BY <1>3 DEF omitted, Less
  <2>8. b \in [kept: Seq(Entry), left: Size, omitted: BOOLEAN]
    BY <2>1, <2>3, <2>4, <2>7
  <2>9. Plus(TotalOf(k), left, Budget)
    <3>1. TotalOf(a.kept) \in Size /\ TotalOf(k) \in Size
      BY <1>3, <2>3, TotalFacts
    <3>2. SizeOf(entry.files) = size
      BY <2>2 DEF size
    <3> QED
      BY <1>4, <1>8, <2>4, <2>5, <3>1, <3>2, PlusMoves
  <2>10. AllFiled(k)
    <3>1. ASSUME NEW p \in 1..Len(k) PROVE k[p].files # <<>>
      <4>1. CASE p = 1
        BY <1>12, <2>2, <2>3, <4>1
      <4>2. CASE p # 1
        BY <1>4, <2>15, <4>2 DEF AllFiled
      <4> QED
        BY <4>1, <4>2
    <3> QED
      BY <3>1 DEF AllFiled
  <2>11. \A p \in 1..Len(a.kept) : a.kept[p].tool # e.tool
    <3>1. ASSUME NEW p \in 1..Len(a.kept) PROVE a.kept[p].tool # e.tool
      <4>1. PICK j \in (at + 1)..n : a.kept[p].tool = tools[j].tool
        BY <1>5
      <4>2. j # at /\ j \in 1..Len(tools) /\ at \in 1..Len(tools)
        BY <1>1
      <4> QED
        BY <4>1, <4>2 DEF Apart, e
    <3> QED
      BY <3>1
  <2>12. Apart(k)
    <3>1. ASSUME NEW p \in 1..Len(k), NEW q \in 1..Len(k), k[p].tool = k[q].tool PROVE p = q
      <4>1. CASE p = 1 /\ q # 1
        <5>1. q - 1 \in 1..Len(a.kept) /\ k[q] = a.kept[q - 1]
          BY <2>15, <4>1
        <5>2. k[q].tool # e.tool
          BY <2>11, <5>1
        <5> QED
          BY <2>2, <2>3, <3>1, <4>1, <5>2
      <4>2. CASE p # 1 /\ q = 1
        <5>1. p - 1 \in 1..Len(a.kept) /\ k[p] = a.kept[p - 1]
          BY <2>15, <4>2
        <5>2. k[p].tool # e.tool
          BY <2>11, <5>1
        <5> QED
          BY <2>2, <2>3, <3>1, <4>2, <5>2
      <4>3. CASE p # 1 /\ q # 1
        <5>1. p - 1 \in 1..Len(a.kept) /\ q - 1 \in 1..Len(a.kept)
              /\ k[p] = a.kept[p - 1] /\ k[q] = a.kept[q - 1]
          BY <2>3, <4>3
        <5>2. p - 1 = q - 1
          BY <1>4, <3>1, <5>1 DEF Apart
        <5> QED
          BY <5>2
      <4> QED
        BY <4>1, <4>2, <4>3
    <3> QED
      BY <3>1 DEF Apart
  <2>13. \A p \in 1..Len(k) : \E j \in at..n : k[p].tool = tools[j].tool
    <3>1. ASSUME NEW p \in 1..Len(k) PROVE \E j \in at..n : k[p].tool = tools[j].tool
      <4>1. CASE p = 1
        BY <1>1, <2>2, <2>3, <4>1 DEF e
      <4>2. CASE p # 1
        <5>1. p - 1 \in 1..Len(a.kept) /\ k[p] = a.kept[p - 1]
          BY <2>15, <4>2
        <5>2. PICK j \in (at + 1)..n : a.kept[p - 1].tool = tools[j].tool
          BY <1>5, <5>1
        <5>3. j \in at..n
          BY <1>1
        <5> QED
          BY <5>1, <5>2, <5>3
      <4> QED
        BY <4>1, <4>2
    <3> QED
      BY <3>1
  <2>14. ASSUME ~omitted, ~SomeMarked(k), NEW j \in at..n PROVE \E p \in 1..Len(k) : k[p] = tools[j]
    <3>1. 1 \in 1..Len(k) /\ Len(a.kept) \in Nat
      BY <1>3, <2>3
    <3>2. ~BudgetMarked(files)
      BY <2>2, <2>3, <2>14, <3>1 DEF SomeMarked
    <3>3. k[1] = e
      <4>1. files = e.files
        BY <1>7, <1>12, <3>2
      <4>2. e = [tool |-> e.tool, files |-> e.files]
        BY <1>2 DEF Entry
      <4> QED
        BY <2>3, <4>1, <4>2 DEF entry
    <3>4. ~a.omitted
      BY <2>14 DEF omitted
    <3>5. ~SomeMarked(a.kept)
      BY <2>3, <2>14 DEF SomeMarked
    <3>6. CASE j = at
      BY <3>1, <3>3, <3>6 DEF e
    <3>7. CASE j \in (at + 1)..n
      <4>1. PICK p \in 1..Len(a.kept) : a.kept[p] = tools[j]
        BY <1>6, <3>4, <3>5, <3>7
      <4>2. k[p + 1] = tools[j] /\ p + 1 \in 1..Len(k)
        BY <2>3, <4>1
      <4> QED
        BY <4>2
    <3> QED
      BY <1>1, <3>6, <3>7
  <2> QED
    BY <1>1, <2>3, <2>6, <2>8, <2>9, <2>10, <2>12, <2>13, <2>14 DEF ToolsOK, b, at, e
<1> QED
  BY <1>11, <1>12

\* Tools with files of the same sizes have the same size.
LEMMA TotalSame ==
  ASSUME NEW s \in Seq(Entry), NEW t \in Seq(Entry), Len(t) = Len(s),
         \A p \in 1..Len(s) : SizeOf(t[p].files) = SizeOf(s[p].files)
  PROVE  TotalOf(t) = TotalOf(s)
<1>1. /\ DOMAIN s = 1..Len(s) /\ DOMAIN t = 1..Len(s)
      /\ \A p \in 1..Len(s) : s[p] \in Entry /\ t[p] \in Entry
  OBVIOUS
<1>2. [p \in DOMAIN t |-> EntryF[t[p]]] = [p \in DOMAIN s |-> EntryF[s[p]]]
  BY <1>1 DEF EntryF
<1>3. [p \in DOMAIN t |-> EntryL[t[p]]] = [p \in DOMAIN s |-> EntryL[s[p]]]
  BY <1>1 DEF EntryL
<1>4. [p \in DOMAIN t |-> EntryC[t[p]]] = [p \in DOMAIN s |-> EntryC[s[p]]]
  BY <1>1 DEF EntryC
<1> QED
  BY <1>2, <1>3, <1>4 DEF TotalOf, Adds

\* What the budget keeps of tools.
LEMMA EnforceFacts ==
  ASSUME NEW tools \in Seq(Entry), DiffsAssumption, AllFiled(tools), Apart(tools), tools # <<>>
  PROVE  LET kept == EnforceBudget(tools)
         IN  /\ kept \in Seq(Entry) /\ kept # <<>> /\ AllFiled(kept) /\ Apart(kept)
             /\ Below(TotalOf(kept), Budget)
             /\ ~SomeMarked(kept) =>
                  \A j \in 1..Len(tools) : \E p \in 1..Len(kept) : kept[p] = tools[j]
<1> DEFINE A == AfterTool(tools)
           n == Len(tools)
           P == {i \in 0..n : ToolsOK(A[i], tools, i)}
           a == A[n]
           kept == EnforceBudget(tools)
<1>0. n \in Nat /\ n # 0
  OBVIOUS
<1>1. A[0] = NoTools /\ \A i \in 1..n : A[i] = KeepTool(tools[n + 1 - i], A[i - 1])
  BY <1>0, AfterToolFollows
<1> HIDE DEF A
<1>2. ToolsOK(NoTools, tools, 0)
  <2>1. Budget \in Size
    BY DEF DiffsAssumption, Size, Positive
  <2>2. NoTools \in [kept: Seq(Entry), left: Size, omitted: BOOLEAN]
    BY <2>1 DEF NoTools
  <2>3. NoTools.kept = <<>> /\ NoTools.left = Budget /\ NoTools.omitted = FALSE
    BY DEF NoTools
  <2>4. <<>> \in Seq(Entry) /\ Len(<<>>) = 0
    OBVIOUS
  <2>5. TotalOf(<<>>) = [files |-> 0, lines |-> 0, characters |-> 0]
    BY <2>4, TotalFacts
  <2>6. Plus(TotalOf(NoTools.kept), NoTools.left, Budget)
    BY <2>1, <2>3, <2>5 DEF Plus, Size
  <2>7. (n + 1 - 0)..n = {}
    BY <1>0
  <2>8. AllFiled(NoTools.kept) /\ Apart(NoTools.kept) /\ 1..Len(NoTools.kept) = {}
    BY <2>3, <2>4 DEF AllFiled, Apart
  <2> HIDE DEF n
  <2> QED
    BY <2>2, <2>6, <2>7, <2>8 DEF ToolsOK, n
<1>3. 0 \in P
  BY <1>0, <1>1, <1>2
<1>4. ASSUME NEW i \in 1..n, i - 1 \in P PROVE i \in P
  <2>1. ToolsOK(A[i - 1], tools, i - 1)
    BY <1>4
  <2>2. ToolsOK(KeepTool(tools[n + 1 - i], A[i - 1]), tools, i)
    BY <2>1, ToolKept
  <2> QED
    BY <1>1, <2>2
<1> HIDE DEF P
<1>5. \A i \in 0..n : i \in P
  BY <1>0, <1>3, <1>4, UpTo
<1>6. ToolsOK(a, tools, n)
  BY <1>0, <1>5 DEF P
<1>7. kept = MarkOmitted(a)
  BY DEF EnforceBudget, A
<1> HIDE DEF a, kept
<1>8. n + 1 - n = 1
  BY <1>0
<1>9. /\ a.kept \in Seq(Entry) /\ a.left \in Size /\ Plus(TotalOf(a.kept), a.left, Budget)
      /\ AllFiled(a.kept) /\ Apart(a.kept) /\ a.kept # <<>>
      /\ ~a.omitted /\ ~SomeMarked(a.kept) =>
           \A j \in 1..n : \E p \in 1..Len(a.kept) : a.kept[p] = tools[j]
  BY <1>0, <1>6, <1>8 DEF ToolsOK
<1>10. Below(TotalOf(a.kept), Budget)
  <2>1. TotalOf(a.kept) \in Size
    BY <1>9, TotalFacts
  <2>2. /\ TotalOf(a.kept).files \in Nat /\ TotalOf(a.kept).lines \in Nat
        /\ TotalOf(a.kept).characters \in Nat
        /\ a.left.files \in Nat /\ a.left.lines \in Nat /\ a.left.characters \in Nat
    BY <1>9, <2>1 DEF Size
  <2>3. \A k, l \in Nat : k <= k + l
    OBVIOUS
  <2> QED
    BY <1>9, <2>2, <2>3 DEF Plus, Below
<1>11. CASE ~a.omitted
  <2>1. kept = a.kept
    BY <1>7, <1>11 DEF MarkOmitted
  <2> QED
    BY <1>9, <1>10, <1>11, <2>1 DEF kept
<1>12. CASE a.omitted
  <2> DEFINE s == a.kept
             marked == MarkFirst(s[1].files)
             first == [s[1] EXCEPT !.files = marked]
  <2>1. kept = [s EXCEPT ![1].files = MarkFirst(@)]
    BY <1>7, <1>9, <1>12 DEF MarkOmitted
  <2>2. Len(s) \in Nat /\ 1 \in 1..Len(s) /\ DOMAIN s = 1..Len(s) /\ s[1] \in Entry
    <3>1. Len(s) \in Nat /\ Len(s) # 0
      BY <1>9
    <3> QED
      BY <1>9, <3>1
  <2>3. s[1].files \in Seq(File) /\ s[1].files # <<>> /\ s[1].tool \in ToolCall
    BY <1>9, <2>2 DEF Entry, AllFiled
  <2>4. SameButMarks(s[1].files, marked) /\ BudgetMarked(marked)
    BY <2>3, MarkFacts
  <2>5. marked \in Seq(File) /\ marked # <<>>
    <3>1. Len(marked) = Len(s[1].files) /\ marked \in Seq(File)
      BY <2>4 DEF SameButMarks
    <3>2. Len(s[1].files) # 0
      BY <2>3
    <3> QED
      BY <3>1, <3>2
  <2>6. SizeOf(marked) = SizeOf(s[1].files)
    BY <2>3, <2>4, SizeSame
  <2> HIDE DEF marked
  <2>7. first = [tool |-> s[1].tool, files |-> marked]
    BY <2>2 DEF Entry
  <2>8. kept = [s EXCEPT ![1] = first]
    BY <2>1, <2>2 DEF marked
  <2> HIDE DEF first
  <2>9. first \in Entry /\ first.tool = s[1].tool /\ first.files = marked
    BY <2>3, <2>5, <2>7 DEF Entry
  <2>10. /\ kept \in Seq(Entry) /\ Len(kept) = Len(s) /\ kept[1] = first
         /\ \A p \in 1..Len(s) : p # 1 => kept[p] = s[p]
    BY <1>9, <2>2, <2>8, <2>9, ExceptSeq
  <2>11. \A p \in 1..Len(s) : kept[p].tool = s[p].tool /\ SizeOf(kept[p].files) = SizeOf(s[p].files)
    BY <2>6, <2>9, <2>10
  <2>12. AllFiled(kept)
    BY <1>9, <2>5, <2>9, <2>10 DEF AllFiled
  <2>13. Apart(kept)
    BY <1>9, <2>10, <2>11 DEF Apart
  <2>14. TotalOf(kept) = TotalOf(s)
    BY <1>9, <2>10, <2>11, TotalSame
  <2>15. SomeMarked(kept)
    BY <2>2, <2>4, <2>9, <2>10 DEF SomeMarked
  <2>16. kept # <<>>
    BY <2>2, <2>10
  <2> QED
    BY <1>10, <2>10, <2>12, <2>13, <2>14, <2>15, <2>16 DEF kept
<1> QED
  BY <1>11, <1>12

-----------------------------------------------------------------------------
\* What is left of the first i tools without those of c.
WithoutOK(w, tools, c, i) ==
  /\ w \in Seq(Entry) /\ AllFiled(w) /\ Apart(w)
  /\ \A p \in 1..Len(w) : w[p].tool # c /\ \E j \in 1..i : w[p] = tools[j]
  /\ \A j \in 1..i : tools[j].tool # c => \E p \in 1..Len(w) : w[p] = tools[j]

\* The step of it.
LEMMA WithoutStep ==
  ASSUME NEW tools \in Seq(Entry), NEW c, NEW w, NEW i \in 1..Len(tools),
         AllFiled(tools), Apart(tools), WithoutOK(w, tools, c, i - 1)
  PROVE  WithoutOK(IF tools[i].tool = c THEN w ELSE Append(w, tools[i]), tools, c, i)
<1>1. /\ Len(tools) \in Nat /\ 1..i = 1..(i - 1) \cup {i} /\ i \in Nat /\ tools[i] \in Entry
      /\ tools[i].files # <<>> /\ \A j \in 1..(i - 1) : j # i /\ j \in 1..Len(tools)
  BY DEF AllFiled
<1>2. /\ w \in Seq(Entry) /\ AllFiled(w) /\ Apart(w)
      /\ \A p \in 1..Len(w) : w[p].tool # c /\ \E j \in 1..(i - 1) : w[p] = tools[j]
      /\ \A j \in 1..(i - 1) : tools[j].tool # c => \E p \in 1..Len(w) : w[p] = tools[j]
  BY DEF WithoutOK
<1>3. CASE tools[i].tool = c
  <2>1. \A p \in 1..Len(w) : w[p].tool # c /\ \E j \in 1..i : w[p] = tools[j]
    BY <1>1, <1>2
  <2>2. \A j \in 1..i : tools[j].tool # c => \E p \in 1..Len(w) : w[p] = tools[j]
    BY <1>1, <1>2, <1>3
  <2> QED
    BY <1>2, <1>3, <2>1, <2>2 DEF WithoutOK
<1>4. CASE tools[i].tool # c
  <2> DEFINE v == Append(w, tools[i])
             e == tools[i]
  <2>1. /\ v \in Seq(Entry) /\ Len(v) = Len(w) + 1 /\ v[Len(w) + 1] = e /\ Len(w) \in Nat
        /\ \A p \in 1..Len(w) : v[p] = w[p]
    BY <1>1, <1>2, AppendProperties
  <2> HIDE DEF v
  <2>2. 1..Len(v) = 1..Len(w) \cup {Len(w) + 1}
    BY <2>1
  <2>3. AllFiled(v)
    BY <1>1, <1>2, <2>1, <2>2 DEF AllFiled
  <2>4. \A p \in 1..Len(w) : w[p].tool # e.tool
    <3>1. ASSUME NEW p \in 1..Len(w) PROVE w[p].tool # e.tool
      <4>1. PICK j \in 1..(i - 1) : w[p] = tools[j]
        BY <1>2
      <4> QED
        BY <1>1, <4>1 DEF Apart
    <3> QED
      BY <3>1
  <2>5. Apart(v)
    BY <1>2, <2>1, <2>2, <2>4 DEF Apart
  <2>6. \A p \in 1..Len(v) : v[p].tool # c /\ \E j \in 1..i : v[p] = tools[j]
    <3>1. ASSUME NEW p \in 1..Len(w) PROVE v[p].tool # c /\ \E j \in 1..i : v[p] = tools[j]
      BY SMTT(20), <1>1, <1>2, <2>1
    <3>2. v[Len(w) + 1].tool # c /\ v[Len(w) + 1] = tools[i] /\ i \in 1..i
      BY <1>1, <1>4, <2>1
    <3> QED
      BY <2>2, <3>1, <3>2
  <2>7. \A j \in 1..i : tools[j].tool # c => \E p \in 1..Len(v) : v[p] = tools[j]
    BY <1>1, <1>2, <2>1, <2>2
  <2> QED
    BY <1>4, <2>1, <2>3, <2>5, <2>6, <2>7 DEF WithoutOK, v
<1> QED
  BY <1>3, <1>4

\* The tools without those of c.
LEMMA WithoutFacts ==
  ASSUME NEW tools \in Seq(Entry), NEW c, AllFiled(tools), Apart(tools)
  PROVE  WithoutOK(Without(tools, c), tools, c, Len(tools))
<1> DEFINE W == WithoutTo(tools, c)
           P == {i \in 0..Len(tools) : WithoutOK(W[i], tools, c, i)}
<1>0. Len(tools) \in Nat
  OBVIOUS
<1>1. W[0] = <<>> /\ \A i \in 1..Len(tools) :
        W[i] = IF tools[i].tool = c THEN W[i - 1] ELSE Append(W[i - 1], tools[i])
  BY <1>0, WithoutFollows
<1>2. WithoutOK(<<>>, tools, c, 0)
  <2>1. <<>> \in Seq(Entry) /\ 1..Len(<<>>) = {} /\ 1..0 = {}
    OBVIOUS
  <2> QED
    BY <2>1 DEF WithoutOK, AllFiled, Apart
<1> HIDE DEF W
<1>3. 0 \in P
  BY <1>0, <1>1, <1>2
<1>4. ASSUME NEW i \in 1..Len(tools), i - 1 \in P PROVE i \in P
  <2>1. WithoutOK(W[i - 1], tools, c, i - 1)
    BY <1>4
  <2>2. WithoutOK(IF tools[i].tool = c THEN W[i - 1] ELSE Append(W[i - 1], tools[i]), tools, c, i)
    BY <2>1, WithoutStep
  <2> QED
    BY <1>1, <2>2
<1> HIDE DEF P
<1>5. \A i \in 0..Len(tools) : i \in P
  BY <1>0, <1>3, <1>4, UpTo
<1> QED
  BY <1>0, <1>5 DEF P, Without, W

-----------------------------------------------------------------------------
(* The turns that are kept. *)

Turn == [index: Nat, tools: Seq(Entry)]

\* The turns before the current one, and whether they are the latest that
\* changed files.
PastTurns == IF inTurn THEN Front(turns) ELSE turns
PastOK(past, done) ==
  /\ Len(past) = Least({Len(done), MaxKeptTurns})
  /\ \A i \in 1..Len(past) : past[i].index = done[Len(done) - Len(past) + i]

\* Unless a mark was lost or is there, every report is kept as it was.
ReportsKept(tools, reports) ==
  \A c \in ToolCall : reports[c] # <<>> =>
    \E p \in 1..Len(tools) : tools[p] = [tool |-> c, files |-> reports[c]]

CurrentOK(tools) ==
  /\ AllFiled(tools) /\ Apart(tools) /\ Below(TotalOf(tools), Budget)
  /\ unmarked \/ SomeMarked(tools) \/ ReportsKept(tools, reported)

DiffsInv ==
  /\ turns \in Seq(Turn) /\ inTurn \in BOOLEAN /\ nextIndex \in Nat /\ unmarked \in BOOLEAN
  /\ reported \in [ToolCall -> Seq(File)] /\ finished \in Seq(Nat)
  /\ PastOK(PastTurns, finished)
  /\ inTurn => turns # <<>> /\ CurrentOK(CurrentTurn.tools)

\* The lesser of two numbers.
LEMMA LesserOf ==
  ASSUME NEW a \in Nat, NEW b \in Nat
  PROVE  Least({a, b}) = IF a <= b THEN a ELSE b
<1>1. {a, b} \subseteq Nat /\ {a, b} # {}
  OBVIOUS
<1>2. Least({a, b}) \in {a, b} /\ Least({a, b}) <= a /\ Least({a, b}) <= b
  BY <1>1, LeastFacts
<1> HIDE DEF Least
<1> QED
  BY <1>2

\* All but the last of a sequence.
LEMMA FrontFacts ==
  ASSUME NEW S, NEW s \in Seq(S), s # <<>>
  PROVE  /\ Front(s) \in Seq(S) /\ Len(Front(s)) = Len(s) - 1 /\ Len(s) - 1 \in Nat
         /\ \A i \in 1..(Len(s) - 1) : Front(s)[i] = s[i]
         /\ s[Len(s)] \in S
<1>1. Len(s) \in Nat /\ Len(s) # 0 /\ \A i \in 1..Len(s) : s[i] \in S
  OBVIOUS
<1>2. Len(s) - 1 \in Nat /\ 1 \in Int /\ Len(s) - 1 \in Int /\ Len(s) \in 1..Len(s)
  BY <1>1
<1>3. \A i \in 1..(Len(s) - 1) : s[i] \in S
  BY <1>1
<1> DEFINE n == Len(s) - 1
<1> HIDE DEF n
<1>4. n \in Nat /\ \A i \in 1..n : s[i] \in S
  BY <1>2, <1>3 DEF n
<1>5. /\ SubSeq(s, 1, n) \in Seq(S)
      /\ Len(SubSeq(s, 1, n)) = IF 1 <= n THEN n - 1 + 1 ELSE 0
      /\ \A i \in 1..(n - 1 + 1) : SubSeq(s, 1, n)[i] = s[1 + i - 1]
  BY <1>4, SubSeqProperties
<1>6. Len(SubSeq(s, 1, n)) = n /\ \A i \in 1..n : SubSeq(s, 1, n)[i] = s[i]
  BY <1>4, <1>5
<1> QED
  BY <1>1, <1>2, <1>4, <1>5, <1>6 DEF Front, n

\* The turns that are kept when the current one is finished.
LEMMA FinishedFacts ==
  ASSUME DiffsInv, DiffsAssumption
  PROVE  Finished \in Seq(Turn) /\ FinishedIndices \in Seq(Nat) /\ PastOK(Finished, FinishedIndices)
<1>1. /\ turns \in Seq(Turn) /\ finished \in Seq(Nat) /\ PastOK(PastTurns, finished)
      /\ inTurn => turns # <<>>
      /\ MaxKeptTurns \in Nat /\ Len(finished) \in Nat /\ Len(turns) \in Nat
  BY DEF DiffsInv, DiffsAssumption
<1>2. CASE ~inTurn
  BY <1>1, <1>2 DEF Finished, FinishedIndices, PastTurns
<1>3. CASE inTurn
  <2>1. /\ Front(turns) \in Seq(Turn) /\ Len(Front(turns)) = Len(turns) - 1 /\ Len(turns) - 1 \in Nat
        /\ \A i \in 1..(Len(turns) - 1) : Front(turns)[i] = turns[i]
        /\ CurrentTurn \in Turn
    BY <1>1, <1>3, FrontFacts DEF CurrentTurn
  <2>2. PastOK(Front(turns), finished)
    BY <1>1, <1>3 DEF PastTurns
  <2>3. CASE CurrentTurn.tools = <<>>
    BY <1>1, <1>3, <2>1, <2>2, <2>3 DEF Finished, FinishedIndices
  <2>4. CASE CurrentTurn.tools # <<>>
    <3> DEFINE idx == CurrentTurn.index
               done == Append(finished, idx)
               L == Len(finished)
               M == MaxKeptTurns
               N == Len(turns)
    <3>1. idx \in Nat /\ FinishedIndices = done
      BY <1>3, <2>1, <2>4 DEF FinishedIndices, Turn
    <3>2. /\ done \in Seq(Nat) /\ Len(done) = L + 1 /\ done[L + 1] = idx
          /\ \A i \in 1..L : done[i] = finished[i]
      BY <1>1, <3>1, AppendProperties
    <3>3. /\ N - 1 = IF L <= M THEN L ELSE M
          /\ \A i \in 1..(N - 1) : turns[i].index = finished[L - (N - 1) + i]
      <4>1. Least({L, M}) = IF L <= M THEN L ELSE M
        BY <1>1, LesserOf
      <4> QED
        BY <2>1, <2>2, <4>1 DEF PastOK
    <3>4. Least({L + 1, M}) = IF L + 1 <= M THEN L + 1 ELSE M
      BY <1>1, LesserOf
    <3>5. turns[N].index = idx
      BY DEF CurrentTurn
    <3> HIDE DEF done, idx
    <3>6. CASE N > M
      <4> DEFINE s == SubSeq(turns, N - M + 1, N)
      <4>1. Finished = s
        BY <1>3, <2>4, <3>6 DEF Finished
      <4>2. N \in Nat /\ M \in Nat /\ L \in Nat /\ N = M + 1 /\ M <= L /\ N - M + 1 = 2
        BY <1>1, <2>1, <3>3, <3>6
      <4>3. \A i \in 2..N : turns[i] \in Turn
        BY <1>1, <4>2
      <4>4. /\ SubSeq(turns, 2, N) \in Seq(Turn)
            /\ Len(SubSeq(turns, 2, N)) = IF 2 <= N THEN N - 2 + 1 ELSE 0
            /\ \A i \in 1..(N - 2 + 1) : SubSeq(turns, 2, N)[i] = turns[2 + i - 1]
        BY <4>2, <4>3, SubSeqProperties
      <4>5. s \in Seq(Turn) /\ Len(s) = M /\ \A i \in 1..M : s[i] = turns[i + 1]
        BY <4>2, <4>4
      <4> HIDE DEF s
      <4>6. ASSUME NEW i \in 1..M PROVE s[i].index = done[(L + 1) - M + i]
        <5>1. CASE i = M
          <6>1. (L + 1) - M + i = L + 1 /\ i + 1 = N
            BY <4>2, <5>1
          <6> QED
            BY <3>2, <3>5, <4>5, <6>1
        <5>2. CASE i # M
          <6>1. i + 1 \in 1..(N - 1) /\ (L + 1) - M + i \in 1..L
                /\ L - (N - 1) + (i + 1) = (L + 1) - M + i
            BY <4>2, <5>2
          <6>2. turns[i + 1].index = finished[L - (N - 1) + (i + 1)]
            BY <3>3, <6>1
          <6> QED
            BY <3>2, <4>5, <6>1, <6>2
        <5> QED
          BY <5>1, <5>2
      <4>7. Least({L + 1, M}) = M
        BY <3>4, <4>2
      <4> QED
        BY <3>1, <3>2, <4>1, <4>5, <4>6, <4>7 DEF PastOK
    <3>7. CASE ~(N > M)
      <4>1. Finished = turns
        BY <1>3, <2>4, <3>7 DEF Finished
      <4>2. N \in Nat /\ M \in Nat /\ L \in Nat /\ N = L + 1 /\ L + 1 <= M
        BY <1>1, <2>1, <3>3, <3>7
      <4>3. ASSUME NEW i \in 1..N PROVE turns[i].index = done[(L + 1) - N + i]
        <5>1. (L + 1) - N + i = i
          BY <4>2
        <5>2. CASE i = N
          BY <3>2, <3>5, <4>2, <5>1, <5>2
        <5>3. CASE i # N
          <6>1. i \in 1..(N - 1) /\ L - (N - 1) + i = i /\ i \in 1..L
            BY <4>2, <5>3
          <6>2. turns[i].index = finished[L - (N - 1) + i]
            BY <3>3, <6>1
          <6> QED
            BY <3>2, <5>1, <6>1, <6>2
        <5> QED
          BY <5>2, <5>3
      <4>4. Least({L + 1, M}) = N
        BY <3>4, <4>2
      <4> QED
        BY <1>1, <3>1, <3>2, <4>1, <4>3, <4>4 DEF PastOK
    <3> QED
      BY <3>6, <3>7
  <2> QED
    BY <2>3, <2>4
<1> QED
  BY <1>1, <1>2, <1>3 DEF DiffsInv

-----------------------------------------------------------------------------
(* Each step keeps the invariant. *)

\* It is not disturbed by what does not change the turns.
LEMMA BeginKeepsDiffs ==
  ASSUME DiffsInv, DiffsAssumption, BeginTurnDiffs
  PROVE  DiffsInv'
<1> DEFINE turn == [index |-> nextIndex, tools |-> <<>>]
<1>1. Finished \in Seq(Turn) /\ FinishedIndices \in Seq(Nat) /\ PastOK(Finished, FinishedIndices)
  BY FinishedFacts
<1>2. /\ turns' = Append(Finished, turn) /\ inTurn' = TRUE /\ nextIndex' = nextIndex + 1
      /\ reported' = NoReport /\ unmarked' = FALSE /\ finished' = FinishedIndices
  BY DEF BeginTurnDiffs
<1>3. <<>> \in Seq(Entry) /\ <<>> \in Seq(File) /\ Len(<<>>) = 0 /\ 1..0 = {}
  OBVIOUS
<1>4. nextIndex \in Nat /\ turn \in Turn
  BY <1>3 DEF DiffsInv, Turn
<1>5. /\ turns' \in Seq(Turn) /\ turns' # <<>> /\ Len(turns') = Len(Finished) + 1
      /\ turns'[Len(Finished) + 1] = turn /\ \A i \in 1..Len(Finished) : turns'[i] = Finished[i]
  BY <1>1, <1>2, <1>4, AppendProperties
<1>6. /\ Front(turns') \in Seq(Turn) /\ Len(Front(turns')) = Len(turns') - 1
      /\ \A i \in 1..(Len(turns') - 1) : Front(turns')[i] = turns'[i]
  <2> DEFINE t == turns'
  <2>1. t \in Seq(Turn) /\ t # <<>>
    BY <1>5
  <2> HIDE DEF t
  <2>2. /\ Front(t) \in Seq(Turn) /\ Len(Front(t)) = Len(t) - 1
        /\ \A i \in 1..(Len(t) - 1) : Front(t)[i] = t[i]
    BY <2>1, FrontFacts
  <2> QED
    BY <2>2 DEF t
<1>7. Len(Finished) \in Nat /\ (Len(Finished) + 1) - 1 = Len(Finished)
  BY <1>1
<1>8. Front(turns') = Finished
  <2>1. Len(Front(turns')) = Len(Finished) /\ \A i \in 1..Len(Finished) : Front(turns')[i] = Finished[i]
    BY <1>5, <1>6, <1>7
  <2> QED
    BY <1>1, <1>6, <2>1, SeqEqual
<1>9. PastOK(PastTurns, finished)'
  BY <1>1, <1>2, <1>8 DEF PastOK, PastTurns
<1>10. CurrentTurn'.tools = <<>>
  BY <1>5 DEF CurrentTurn
<1>11. CurrentOK(<<>>)'
  <2>1. AllFiled(<<>>) /\ Apart(<<>>)
    BY <1>3 DEF AllFiled, Apart
  <2>2. Below(TotalOf(<<>>), Budget)
    <3>1. TotalOf(<<>>) = [files |-> 0, lines |-> 0, characters |-> 0]
      BY <1>3, TotalFacts
    <3> QED
      BY <3>1 DEF Below, DiffsAssumption, Positive
  <2>3. ReportsKept(<<>>, reported')
    BY <1>2 DEF ReportsKept, NoReport
  <2> QED
    BY <2>1, <2>2, <2>3 DEF CurrentOK
<1>12. reported' \in [ToolCall -> Seq(File)] /\ nextIndex' \in Nat
  BY <1>2, <1>3, <1>4 DEF NoReport
<1> HIDE DEF turn
<1> QED
  BY <1>1, <1>2, <1>5, <1>9, <1>10, <1>11, <1>12 DEF DiffsInv

\* The current turn is over.
LEMMA FinishKeepsDiffs ==
  ASSUME DiffsInv, DiffsAssumption, FinishTurnDiffs
  PROVE  DiffsInv'
<1>1. Finished \in Seq(Turn) /\ FinishedIndices \in Seq(Nat) /\ PastOK(Finished, FinishedIndices)
  BY FinishedFacts
<1>2. /\ turns' = Finished /\ inTurn' = FALSE /\ finished' = FinishedIndices
      /\ UNCHANGED <<nextIndex, reported, unmarked>>
  BY DEF FinishTurnDiffs
<1>3. PastOK(PastTurns, finished)'
  BY <1>1, <1>2 DEF PastOK, PastTurns
<1> QED
  BY <1>1, <1>2, <1>3 DEF DiffsInv

\* All turns go.
LEMMA ClearKeepsDiffs ==
  ASSUME DiffsAssumption, ClearDiffs
  PROVE  DiffsInv'
<1>1. Least({0, MaxKeptTurns}) = 0
  BY LesserOf DEF DiffsAssumption
<1>2. /\ <<>> \in Seq(Turn) /\ <<>> \in Seq(Nat) /\ <<>> \in Seq(File)
      /\ Len(<<>>) = 0 /\ 1..0 = {}
  OBVIOUS
<1>3. NoReport \in [ToolCall -> Seq(File)]
  BY <1>2 DEF NoReport
<1>4. PastOK(<<>>, <<>>)
  BY <1>1, <1>2 DEF PastOK
<1> QED
  BY <1>2, <1>3, <1>4 DEF ClearDiffs, DiffsInv, PastTurns, PastOK

\* So it is at the start.
LEMMA DiffsStart ==
  ASSUME DiffsAssumption, DiffsInit
  PROVE  DiffsInv
<1>1. Least({0, MaxKeptTurns}) = 0
  BY LesserOf DEF DiffsAssumption
<1>2. /\ <<>> \in Seq(Turn) /\ <<>> \in Seq(Nat) /\ <<>> \in Seq(File)
      /\ Len(<<>>) = 0 /\ 1..0 = {}
  OBVIOUS
<1>3. NoReport \in [ToolCall -> Seq(File)]
  BY <1>2 DEF NoReport
<1>4. PastOK(<<>>, <<>>)
  BY <1>1, <1>2 DEF PastOK
<1> QED
  BY <1>2, <1>3, <1>4 DEF DiffsInit, DiffsInv, PastTurns, PastOK

\* The tools of the current turn with a new report of one of them.
LEMMA UpsertFacts ==
  ASSUME NEW T \in Seq(Entry), NEW c \in ToolCall, NEW files \in Seq(File), files # <<>>,
         DiffsAssumption, AllFiled(T), Apart(T)
  PROVE  LET entry == [tool |-> c, files |-> BoundedFileDiffs(files, Budget)]
             R == EnforceBudget(Append(Without(T, c), entry))
         IN  /\ R \in Seq(Entry) /\ AllFiled(R) /\ Apart(R) /\ Below(TotalOf(R), Budget)
             /\ ~SomeMarked(R) =>
                  /\ \E p \in 1..Len(R) : R[p] = [tool |-> c, files |-> files]
                  /\ \A j \in 1..Len(T) : T[j].tool # c =>
                       ~BudgetMarked(T[j].files) /\ \E p \in 1..Len(R) : R[p] = T[j]
<1> DEFINE entry == [tool |-> c, files |-> BoundedFileDiffs(files, Budget)]
           W == Without(T, c)
           N == Append(W, entry)
           R == EnforceBudget(N)
<1>1. WithoutOK(W, T, c, Len(T))
  BY WithoutFacts
<1> HIDE DEF W
<1>2. /\ W \in Seq(Entry) /\ AllFiled(W) /\ Apart(W)
      /\ \A p \in 1..Len(W) : W[p].tool # c
      /\ \A j \in 1..Len(T) : T[j].tool # c => \E p \in 1..Len(W) : W[p] = T[j]
  BY <1>1 DEF WithoutOK
<1>3. /\ entry.files \in Seq(File) /\ entry.tool = c /\ entry.files # <<>>
      /\ ~BudgetMarked(entry.files) => entry.files = files
  <2>1. Budget \in Size /\ SomeRoom(Budget)
    BY DEF DiffsAssumption, Size, Positive, SomeRoom
  <2> DEFINE kept == BoundedFileDiffs(files, Budget)
  <2>2. /\ kept \in Seq(File)
        /\ kept # <<>> /\ ~BudgetMarked(kept) => kept = files
        /\ files # <<>> /\ SomeRoom(Budget) => kept # <<>>
    BY <2>1, BoundedFacts
  <2> HIDE DEF kept
  <2>3. entry = [tool |-> c, files |-> kept]
    BY DEF kept
  <2> QED
    BY <2>1, <2>2, <2>3
<1>4. entry \in Entry /\ entry = [tool |-> c, files |-> entry.files]
  BY <1>3 DEF Entry
<1> HIDE DEF entry
<1>5. /\ N \in Seq(Entry) /\ N # <<>> /\ Len(N) = Len(W) + 1 /\ N[Len(W) + 1] = entry
      /\ \A p \in 1..Len(W) : N[p] = W[p]
  BY <1>2, <1>4, AppendProperties
<1> HIDE DEF N
<1>6. Len(W) \in Nat /\ 1..Len(N) = 1..Len(W) \cup {Len(W) + 1}
  BY <1>2, <1>5
<1>7. AllFiled(N)
  BY <1>2, <1>3, <1>5, <1>6 DEF AllFiled
<1>8. Apart(N)
  BY <1>2, <1>3, <1>5, <1>6 DEF Apart
<1>9. /\ R \in Seq(Entry) /\ AllFiled(R) /\ Apart(R) /\ Below(TotalOf(R), Budget)
      /\ ~SomeMarked(R) => \A j \in 1..Len(N) : \E p \in 1..Len(R) : R[p] = N[j]
  BY <1>5, <1>7, <1>8, EnforceFacts
<1> HIDE DEF R
<1>10. ASSUME ~SomeMarked(R), NEW j \in 1..Len(N)
       PROVE  ~BudgetMarked(N[j].files) /\ \E p \in 1..Len(R) : R[p] = N[j]
  BY <1>9, <1>10 DEF SomeMarked
<1>11. ASSUME ~SomeMarked(R) PROVE \E p \in 1..Len(R) : R[p] = [tool |-> c, files |-> files]
  <2>1. ~BudgetMarked(entry.files) /\ \E p \in 1..Len(R) : R[p] = entry
    BY <1>5, <1>6, <1>10, <1>11
  <2> QED
    BY <1>3, <1>4, <2>1
<1>12. ASSUME ~SomeMarked(R), NEW j \in 1..Len(T), T[j].tool # c
       PROVE  ~BudgetMarked(T[j].files) /\ \E p \in 1..Len(R) : R[p] = T[j]
  <2>1. PICK p \in 1..Len(W) : W[p] = T[j]
    BY <1>2, <1>12
  <2>2. p \in 1..Len(N) /\ N[p] = T[j]
    BY <1>5, <1>6, <2>1
  <2> QED
    BY <1>10, <1>12, <2>2
<1> QED
  BY <1>9, <1>11, <1>12 DEF R, N, W, entry

\* A tool reports its changes.
LEMMA UpsertKeepsDiffs ==
  ASSUME DiffsInv, DiffsAssumption, NEW c \in ToolCall, NEW files \in Reports, UpsertTool(c, files)
  PROVE  DiffsInv'
<1>1. CASE ~inTurn
  BY <1>1 DEF UpsertTool, DiffsInv, PastTurns, PastOK
<1>2. CASE inTurn
  <2> DEFINE T == CurrentTurn.tools
             n == Len(turns)
             entry == [tool |-> c, files |-> BoundedFileDiffs(files, Budget)]
             R == EnforceBudget(Append(Without(T, c), entry))
             turn == [turns[n] EXCEPT !.tools = R]
  <2>1. /\ files # <<>> /\ turns' = [turns EXCEPT ![n].tools = R]
        /\ reported' = [reported EXCEPT ![c] = files]
        /\ unmarked' = (unmarked \/ \E e \in ToSet(T) : e.tool = c /\ BudgetMarked(e.files))
        /\ UNCHANGED <<inTurn, nextIndex, finished>>
    BY <1>2 DEF UpsertTool
  <2>2. /\ turns \in Seq(Turn) /\ turns # <<>> /\ CurrentOK(T) /\ PastOK(PastTurns, finished)
        /\ reported \in [ToolCall -> Seq(File)] /\ unmarked \in BOOLEAN /\ nextIndex \in Nat
        /\ finished \in Seq(Nat) /\ inTurn \in BOOLEAN
    BY <1>2 DEF DiffsInv
  <2>3. /\ Front(turns) \in Seq(Turn) /\ Len(Front(turns)) = n - 1 /\ n - 1 \in Nat
        /\ \A i \in 1..(n - 1) : Front(turns)[i] = turns[i]
        /\ turns[n] \in Turn
    BY <2>2, FrontFacts
  <2>4. n \in Nat /\ n \in 1..n /\ T = turns[n].tools /\ T \in Seq(Entry) /\ turns[n].index \in Nat
    <3>1. n \in Nat /\ n \in 1..n
      BY <2>2, <2>3
    <3> QED
      BY <2>3, <3>1 DEF CurrentTurn, Turn
  <2>5. files \in Seq(File)
    BY DEF DiffsAssumption
  <2>6. AllFiled(T) /\ Apart(T) /\ (unmarked \/ SomeMarked(T) \/ ReportsKept(T, reported))
    BY <2>2 DEF CurrentOK
  <2> HIDE DEF T
  <2>7. /\ R \in Seq(Entry) /\ AllFiled(R) /\ Apart(R) /\ Below(TotalOf(R), Budget)
        /\ ~SomeMarked(R) =>
             /\ \E p \in 1..Len(R) : R[p] = [tool |-> c, files |-> files]
             /\ \A j \in 1..Len(T) : T[j].tool # c =>
                  ~BudgetMarked(T[j].files) /\ \E p \in 1..Len(R) : R[p] = T[j]
    <3>1. T \in Seq(Entry) /\ files # <<>> /\ AllFiled(T) /\ Apart(T)
      BY <2>1, <2>4, <2>6
    <3> HIDE DEF n
    <3> QED
      BY <2>5, <3>1, UpsertFacts
  <2> HIDE DEF R
  <2>8. turn = [index |-> turns[n].index, tools |-> R]
    BY <2>3 DEF Turn
  <2>9. turns' = [turns EXCEPT ![n] = turn]
    BY <2>1, <2>2, <2>4
  <2> HIDE DEF turn
  <2>10. turn \in Turn /\ turn.index = turns[n].index /\ turn.tools = R
    BY <2>4, <2>7, <2>8 DEF Turn
  <2>11. /\ turns' \in Seq(Turn) /\ Len(turns') = n /\ turns'[n] = turn
         /\ \A i \in 1..n : i # n => turns'[i] = turns[i]
    BY <2>2, <2>4, <2>9, <2>10, ExceptSeq
  <2>12. Front(turns') = Front(turns) /\ turns' # <<>>
    <3> DEFINE t == turns'
    <3>1. t \in Seq(Turn) /\ Len(t) = n /\ n # 0 /\ \A i \in 1..(n - 1) : t[i] = turns[i]
      BY <2>4, <2>11
    <3> HIDE DEF t
    <3>2. t # <<>>
      BY <3>1
    <3>3. /\ Front(t) \in Seq(Turn) /\ Len(Front(t)) = Len(t) - 1
          /\ \A i \in 1..(Len(t) - 1) : Front(t)[i] = t[i]
      BY <3>1, <3>2, FrontFacts
    <3>4. Len(Front(t)) = Len(Front(turns)) /\ \A i \in 1..Len(Front(t)) : Front(t)[i] = Front(turns)[i]
      BY <2>3, <3>1, <3>3
    <3>5. Front(t) = Front(turns)
      BY <2>3, <3>3, <3>4, SeqEqual
    <3> QED
      BY <3>2, <3>5 DEF t
  <2>13. PastOK(PastTurns, finished)'
    BY <1>2, <2>1, <2>2, <2>12 DEF PastTurns, PastOK
  <2>14. CurrentTurn'.tools = R
    BY <2>10, <2>11 DEF CurrentTurn
  <2>15. reported' \in [ToolCall -> Seq(File)] /\ unmarked' \in BOOLEAN
    BY <2>1, <2>2, <2>5
  <2>16. ASSUME ~unmarked', ~SomeMarked(R) PROVE ReportsKept(R, reported')
    <3>1. ~unmarked /\ \A e \in ToSet(T) : e.tool = c => ~BudgetMarked(e.files)
      BY <2>1, <2>16
    <3>2. ASSUME NEW j \in 1..Len(T) PROVE ~BudgetMarked(T[j].files)
      <4>1. T[j] \in ToSet(T)
        BY <2>4 DEF ToSet
      <4>2. CASE T[j].tool = c
        BY <3>1, <4>1, <4>2
      <4>3. CASE T[j].tool # c
        BY <2>7, <2>16, <4>3
      <4> QED
        BY <4>2, <4>3
    <3>3. ReportsKept(T, reported)
      BY <2>6, <3>1, <3>2 DEF SomeMarked
    <3>4. ASSUME NEW d \in ToolCall, reported'[d] # <<>>
          PROVE  \E p \in 1..Len(R) : R[p] = [tool |-> d, files |-> reported'[d]]
      <4>1. CASE d = c
        <5>1. reported'[d] = files
          BY <2>1, <2>2, <4>1
        <5> QED
          BY <2>7, <2>16, <4>1, <5>1
      <4>2. CASE d # c
        <5>1. reported'[d] = reported[d]
          BY <2>1, <2>2, <4>2
        <5>2. PICK j \in 1..Len(T) : T[j] = [tool |-> d, files |-> reported[d]]
          BY <3>3, <3>4, <5>1 DEF ReportsKept
        <5>3. T[j].tool # c
          BY <4>2, <5>2
        <5> QED
          BY <2>7, <2>16, <5>1, <5>2, <5>3
      <4> QED
        BY <4>1, <4>2
    <3> QED
      BY <3>4 DEF ReportsKept
  <2>17. unmarked' \/ SomeMarked(R) \/ ReportsKept(R, reported')
    BY <2>16
  <2>18. CurrentOK(CurrentTurn.tools)'
    BY <2>7, <2>14, <2>17 DEF CurrentOK
  <2> QED
    BY <2>1, <2>2, <2>11, <2>12, <2>13, <2>15, <2>18 DEF DiffsInv
<1> QED
  BY <1>1, <1>2

-----------------------------------------------------------------------------
(* What it means for what is shown. *)

\* No size is less than itself, and none is less than nothing.
LEMMA LessFacts ==
  ASSUME NEW size \in Size
  PROVE  ~Less(size, size) /\ ~Less(size, [files |-> 0, lines |-> 0, characters |-> 0])
<1>1. size.files \in Nat /\ size.lines \in Nat /\ size.characters \in Nat
  BY DEF Size
<1>2. DOMAIN size = {"files", "lines", "characters"}
  BY DEF Size
<1>3. \A n \in Nat : ~(n < n) /\ ~(n < 0)
  OBVIOUS
<1> QED
  BY <1>1, <1>2, <1>3 DEF Less

\* The files of a tool are those of its entry; without one there are none.
LEMMA FilesOfFacts ==
  ASSUME CurrentTurn.tools \in Seq(Entry), Apart(CurrentTurn.tools), NEW c \in ToolCall
  PROVE  /\ FilesOf(c) \in Seq(File)
         /\ \A p \in 1..Len(CurrentTurn.tools) :
              CurrentTurn.tools[p].tool = c => FilesOf(c) = CurrentTurn.tools[p].files
<1> DEFINE T == CurrentTurn.tools
           at == {i \in DOMAIN T : T[i].tool = c}
<1>1. FilesOf(c) = IF at = {} THEN <<>> ELSE T[Least(at)].files
  BY DEF FilesOf
<1>2. T \in Seq(Entry) /\ Apart(T) /\ DOMAIN T = 1..Len(T) /\ Len(T) \in Nat
      /\ \A p \in 1..Len(T) : T[p] \in Entry
  OBVIOUS
<1> HIDE DEF T
<1>3. at # {} => Least(at) \in at
  <2>1. at \subseteq Nat
    BY <1>2
  <2> HIDE DEF at
  <2> QED
    BY <2>1, LeastFacts
<1>4. <<>> \in Seq(File) /\ \A e \in Entry : e.files \in Seq(File)
  BY DEF Entry
<1>5. FilesOf(c) \in Seq(File)
  BY <1>1, <1>2, <1>3, <1>4
<1>6. ASSUME NEW p \in 1..Len(T), T[p].tool = c PROVE FilesOf(c) = T[p].files
  <2>1. p \in at
    BY <1>2, <1>6
  <2>2. Least(at) \in 1..Len(T) /\ T[Least(at)].tool = c
    BY <1>2, <1>3, <2>1
  <2>3. Least(at) = p
    BY <1>2, <1>6, <2>2 DEF Apart
  <2> QED
    BY <1>1, <2>1, <2>3
<1> QED
  BY <1>5, <1>6 DEF T

\* The invariant is enough.
LEMMA DiffsInvIsEnough ==
  ASSUME DiffsInv, DiffsAssumption
  PROVE  RetainedDiffsAreHonest
<1> DEFINE T == CurrentTurn.tools
<1>1. ASSUME inTurn PROVE T \in Seq(Entry) /\ CurrentOK(T)
  <2>1. turns \in Seq(Turn) /\ turns # <<>> /\ CurrentOK(T)
    BY <1>1 DEF DiffsInv
  <2>2. turns[Len(turns)] \in Turn
    BY <2>1, FrontFacts
  <2> QED
    BY <2>1, <2>2 DEF CurrentTurn, Turn
<1>2. ASSUME inTurn PROVE SizeOf(AllFiles) = TotalOf(T) /\ (BudgetMarked(AllFiles) <=> SomeMarked(T))
  <2> HIDE DEF T
  <2>1. LET all == FilesTo(T)[Len(T)]
        IN  SizeOf(all) = TotalOf(T)
             /\ (BudgetMarked(all) <=> \E j \in 1..Len(T) : BudgetMarked(T[j].files))
    BY <1>1, <1>2, FilesTotal
  <2>2. AllFiles = FilesTo(T)[Len(T)]
    BY DEF AllFiles, T
  <2> QED
    BY <2>1, <2>2 DEF SomeMarked
<1>3. ASSUME inTurn PROVE Fits(SizeOf(AllFiles), Budget)
  <2>1. DOMAIN Budget = {"files", "lines", "characters"}
    BY DEF DiffsAssumption
  <2>2. Below(SizeOf(AllFiles), Budget)
    BY <1>1, <1>2, <1>3 DEF CurrentOK
  <2> QED
    BY <2>1, <2>2 DEF Fits, Below
<1>4. ASSUME inTurn, NEW c \in ToolCall, Less(SizeOf(FilesOf(c)), SizeOf(reported[c]))
      PROVE  unmarked \/ BudgetMarked(AllFiles)
  <2>1. ASSUME ~unmarked, ~SomeMarked(T) PROVE FALSE
    <3>1. ReportsKept(T, reported) /\ T \in Seq(Entry) /\ Apart(T)
      BY <1>1, <1>4, <2>1 DEF CurrentOK
    <3>2. /\ FilesOf(c) \in Seq(File)
          /\ \A p \in 1..Len(T) : T[p].tool = c => FilesOf(c) = T[p].files
      BY <3>1, FilesOfFacts
    <3>3. SizeOf(FilesOf(c)) \in Size
      BY <3>2, SizeFacts
    <3>4. CASE reported[c] = <<>>
      <4>1. <<>> \in Seq(File)
        OBVIOUS
      <4>2. SizeOf(<<>>) = [files |-> 0, lines |-> 0, characters |-> 0]
        BY <4>1, SizeFacts
      <4> QED
        BY <1>4, <3>3, <3>4, <4>2, LessFacts
    <3>5. CASE reported[c] # <<>>
      <4>1. PICK p \in 1..Len(T) : T[p] = [tool |-> c, files |-> reported[c]]
        BY <3>1, <3>5 DEF ReportsKept
      <4>2. T[p].tool = c /\ T[p].files = reported[c]
        BY <4>1
      <4>3. FilesOf(c) = reported[c]
        BY <3>2, <4>2
      <4> QED
        BY <1>4, <3>3, <4>3, LessFacts
    <3> QED
      BY <3>4, <3>5
  <2> QED
    BY <1>2, <1>4, <2>1
<1> DEFINE past == PastTurns
           L == Len(finished)
           n == Least({L, MaxKeptTurns})
           indices == [i \in DOMAIN past |-> past[i].index]
<1>5. indices = SubSeq(finished, L - n + 1, L)
  <2>1. /\ PastOK(past, finished) /\ finished \in Seq(Nat) /\ turns \in Seq(Turn)
        /\ MaxKeptTurns \in Nat /\ L \in Nat /\ inTurn => turns # <<>>
    BY DEF DiffsInv, DiffsAssumption
  <2>2. past \in Seq(Turn)
    BY <2>1, FrontFacts DEF PastTurns
  <2>3. n \in Nat /\ n <= L /\ Len(past) = n
        /\ \A i \in 1..n : past[i].index = finished[L - n + i]
    <3>1. n \in Nat /\ n <= L
      <4>1. \A a, b \in Nat : Least({a, b}) = IF a <= b THEN a ELSE b
        BY LesserOf
      <4>3. L \in Nat /\ Len(finished) \in Nat /\ MaxKeptTurns \in Nat
        BY <2>1
      <4>2. n = IF L <= MaxKeptTurns THEN L ELSE MaxKeptTurns
        BY <4>1, <4>3, Zenon
      <4> HIDE DEF n, L
      <4> QED
        BY <4>2, <4>3
    <3>2. Len(past) = n
      BY <2>1 DEF PastOK
    <3> QED
      BY <2>1, <3>1, <3>2 DEF PastOK
  <2> HIDE DEF n, past
  <2>4. /\ indices \in Seq(Nat) /\ Len(indices) = n
        /\ \A i \in 1..n : indices[i] = finished[L - n + i]
    <3>1. DOMAIN past = 1..n /\ \A i \in 1..n : past[i].index \in Nat
      <4>1. \A i \in 1..n : past[i] \in Turn
        BY <2>2, <2>3
      <4>2. \A t \in Turn : t.index \in Nat
        BY DEF Turn
      <4>3. DOMAIN past = 1..n
        BY <2>2, <2>3
      <4> QED
        BY <4>1, <4>2, <4>3
    <3> QED
      BY <2>3, <3>1
  <2> HIDE DEF indices
  <2> DEFINE m == L - n + 1
             s == SubSeq(finished, m, L)
  <2>5. m \in Nat /\ m # 0 /\ L - m + 1 = n /\ L \in Int /\ (m <= L <=> n # 0)
    BY <2>1, <2>3
  <2>6. \A i \in m..L : finished[i] \in Nat
    BY <2>1, <2>5
  <2>7. /\ s \in Seq(Nat)
        /\ Len(s) = IF m <= L THEN L - m + 1 ELSE 0
        /\ \A i \in 1..(L - m + 1) : s[i] = finished[m + i - 1]
    <3> HIDE DEF m
    <3> QED
      BY <2>1, <2>5, <2>6, SubSeqProperties
  <2>8. \A i \in 1..n : m + i - 1 = L - n + i
    BY <2>1, <2>3
  <2>9. Len(s) = n /\ \A i \in 1..n : s[i] = finished[L - n + i]
    BY <2>5, <2>7, <2>8
  <2> HIDE DEF s
  <2>10. Len(indices) = Len(s) /\ \A i \in 1..Len(indices) : indices[i] = s[i]
    BY <2>4, <2>9
  <2>11. indices = s
    BY <2>4, <2>7, <2>10, SeqEqual
  <2> QED
    BY <2>11 DEF s
<1> QED
  BY <1>3, <1>4, <1>5 DEF RetainedDiffsAreHonest, PastTurns

\* A step keeps the invariant.
LEMMA DiffsStep ==
  ASSUME DiffsInv, DiffsAssumption, [DiffsNext]_diffVars
  PROVE  DiffsInv'
<1>1. CASE BeginTurnDiffs
  BY <1>1, BeginKeepsDiffs
<1>2. CASE FinishTurnDiffs
  BY <1>2, FinishKeepsDiffs
<1>3. CASE ClearDiffs
  BY <1>3, ClearKeepsDiffs
<1>4. CASE \E c \in ToolCall : \E files \in Reports : UpsertTool(c, files)
  BY <1>4, UpsertKeepsDiffs
<1>5. CASE UNCHANGED diffVars
  BY <1>5 DEF diffVars, DiffsInv, PastTurns, PastOK, CurrentTurn, CurrentOK
<1> QED
  BY <1>1, <1>2, <1>3, <1>4, <1>5 DEF DiffsNext

\* The changes kept of the current turn are within the budget, and if they are
\* not all the tools reported last, one of the files says that it is truncated;
\* of the turns before it exactly the latest that changed files are kept
\* (upsertTool, enforceCurrentBudget, boundedFileDiffs, finishTurn).
THEOREM DiffsAreHonest == DiffsSpec => []RetainedDiffsAreHonest
<1>1. DiffsInit => DiffsInv
  BY DiffsAssumption, DiffsStart
<1>2. DiffsInv /\ [DiffsNext]_diffVars => DiffsInv'
  BY DiffsAssumption, DiffsStep
<1>3. DiffsInv => RetainedDiffsAreHonest
  BY DiffsAssumption, DiffsInvIsEnough
<1> QED
  BY <1>1, <1>2, <1>3, PTL DEF DiffsSpec

-----------------------------------------------------------------------------
(* The loops over texts and lines. *)

\* Parts are joined one at a time,
LEMMA FlatToFollows ==
  ASSUME NEW parts, Len(parts) \in Nat
  PROVE  /\ FlatTo(parts)[0] = <<>>
         /\ \A i \in 1..Len(parts) : FlatTo(parts)[i] = FlatTo(parts)[i - 1] \o parts[i]
<1> DEFINE Is(g) == g = [i \in 0..Len(parts) |-> IF i = 0 THEN <<>> ELSE g[i - 1] \o parts[i]]
           h == CHOOSE g : Is(g)
<1>1. FlatTo(parts) = h
  BY DEF FlatTo
<1>2. \A g : Loops(g, "flat", 0, <<>>, parts, Len(parts)) <=> Is(g)
  BY DEF Loops, DiffRound
<1>3. \E g : Loops(g, "flat", 0, <<>>, parts, Len(parts))
  BY LoopsExist
<1> HIDE DEF Is
<1>4. Is(h)
  BY <1>2, <1>3
<1> HIDE DEF h
<1>5. h = [i \in 0..Len(parts) |-> IF i = 0 THEN <<>> ELSE h[i - 1] \o parts[i]]
  BY <1>4 DEF Is
<1>6. \A i \in 0..Len(parts) : h[i] = IF i = 0 THEN <<>> ELSE h[i - 1] \o parts[i]
  BY <1>5
<1>7. h[0] = <<>>
  BY <1>6
<1>8. ASSUME NEW i \in 1..Len(parts) PROVE h[i] = h[i - 1] \o parts[i]
  <2>1. i \in 0..Len(parts) /\ i # 0
    OBVIOUS
  <2> QED
    BY <1>6, <2>1
<1> QED
  BY <1>1, <1>7, <1>8

\* breaks are counted one unit at a time,
LEMMA BreaksToFollows ==
  ASSUME NEW t, Len(t) \in Nat
  PROVE  /\ BreaksTo(t)[0] = 0
         /\ \A i \in 1..Len(t) :
              BreaksTo(t)[i] = BreaksTo(t)[i - 1] + (IF IsBreak(t[i]) THEN 1 ELSE 0)
<1> DEFINE Is(g) == g = [i \in 0..Len(t) |->
                           IF i = 0 THEN 0 ELSE g[i - 1] + (IF IsBreak(t[i]) THEN 1 ELSE 0)]
           h == CHOOSE g : Is(g)
<1>1. BreaksTo(t) = h
  BY DEF BreaksTo
<1>2. \A g : Loops(g, "breaks", 0, 0, t, Len(t)) <=> Is(g)
  BY DEF Loops, DiffRound
<1>3. \E g : Loops(g, "breaks", 0, 0, t, Len(t))
  BY LoopsExist
<1> HIDE DEF Is
<1>4. Is(h)
  BY <1>2, <1>3
<1> HIDE DEF h
<1>5. h = [i \in 0..Len(t) |-> IF i = 0 THEN 0 ELSE h[i - 1] + (IF IsBreak(t[i]) THEN 1 ELSE 0)]
  BY <1>4 DEF Is
<1>6. \A i \in 0..Len(t) :
        h[i] = IF i = 0 THEN 0 ELSE h[i - 1] + (IF IsBreak(t[i]) THEN 1 ELSE 0)
  BY <1>5
<1>7. h[0] = 0
  BY <1>6
<1>8. ASSUME NEW i \in 1..Len(t)
      PROVE  h[i] = h[i - 1] + (IF IsBreak(t[i]) THEN 1 ELSE 0)
  <2>1. i \in 0..Len(t) /\ i # 0
    OBVIOUS
  <2> QED
    BY <1>6, <2>1
<1> QED
  BY <1>1, <1>7, <1>8

\* and so are lines made.
LEMMA LinesToFollows ==
  ASSUME NEW lines, NEW t, Len(t) \in Nat
  PROVE  /\ LinesTo(lines, t)[0] = lines
         /\ \A i \in 1..Len(t) : LinesTo(lines, t)[i] = AddUnit(LinesTo(lines, t)[i - 1], t[i])
<1> DEFINE Is(g) == g = [i \in 0..Len(t) |-> IF i = 0 THEN lines ELSE AddUnit(g[i - 1], t[i])]
           h == CHOOSE g : Is(g)
<1>1. LinesTo(lines, t) = h
  BY DEF LinesTo
<1>2. \A g : Loops(g, "unit", 0, lines, t, Len(t)) <=> Is(g)
  BY DEF Loops, DiffRound
<1>3. \E g : Loops(g, "unit", 0, lines, t, Len(t))
  BY LoopsExist
<1> HIDE DEF Is
<1>4. Is(h)
  BY <1>2, <1>3
<1> HIDE DEF h
<1>5. h = [i \in 0..Len(t) |-> IF i = 0 THEN lines ELSE AddUnit(h[i - 1], t[i])]
  BY <1>4 DEF Is
<1>6. \A i \in 0..Len(t) : h[i] = IF i = 0 THEN lines ELSE AddUnit(h[i - 1], t[i])
  BY <1>5
<1>7. h[0] = lines
  BY <1>6
<1>8. ASSUME NEW i \in 1..Len(t) PROVE h[i] = AddUnit(h[i - 1], t[i])
  <2>1. i \in 0..Len(t) /\ i # 0
    OBVIOUS
  <2> QED
    BY <1>6, <2>1
<1> QED
  BY <1>1, <1>7, <1>8


-----------------------------------------------------------------------------
(* Texts, their breaks, and parts joined. *)

Unit == [at : Nat, kind : {"plain", "newline", "high", "low"}]
Text == Seq(Unit)

\* A text after another.
LEMMA JoinText ==
  ASSUME NEW a \in Text, NEW b \in Text
  PROVE  /\ a \o b \in Text /\ Len(a \o b) = Len(a) + Len(b)
         /\ Len(a) \in Nat /\ Len(b) \in Nat
         /\ \A i \in 1..Len(a) : (a \o b)[i] = a[i]
         /\ \A i \in 1..Len(b) : (a \o b)[Len(a) + i] = b[i]
         /\ \A i \in (Len(a) + 1)..(Len(a) + Len(b)) : (a \o b)[i] = b[i - Len(a)]
BY DEF Text

\* Joining is associative.
LEMMA JoinAgain ==
  ASSUME NEW a \in Text, NEW b \in Text, NEW d \in Text
  PROVE  (a \o b) \o d = a \o (b \o d)
<1>1. a \in Seq(Unit) /\ b \in Seq(Unit) /\ d \in Seq(Unit)
  BY DEF Text
<1> QED
  BY <1>1, ConcatAssociative, SMT

\* There are no more breaks than units.
LEMMA BreaksTyped ==
  ASSUME NEW t \in Text
  PROVE  /\ Breaks(t) \in Nat /\ Breaks(t) <= Len(t)
         /\ \A i \in 0..Len(t) : BreaksTo(t)[i] \in Nat /\ BreaksTo(t)[i] <= i
<1> DEFINE P == {i \in 0..Len(t) : BreaksTo(t)[i] \in Nat /\ BreaksTo(t)[i] <= i}
<1>0. Len(t) \in Nat
  BY DEF Text
<1>1. /\ BreaksTo(t)[0] = 0
      /\ \A i \in 1..Len(t) :
           BreaksTo(t)[i] = BreaksTo(t)[i - 1] + (IF IsBreak(t[i]) THEN 1 ELSE 0)
  BY <1>0, BreaksToFollows
<1>2. 0 \in P
  BY <1>0, <1>1
<1>3. ASSUME NEW i \in 1..Len(t), i - 1 \in P PROVE i \in P
  <2>1. BreaksTo(t)[i - 1] \in Nat /\ BreaksTo(t)[i - 1] <= i - 1
    BY <1>3
  <2>2. BreaksTo(t)[i] = BreaksTo(t)[i - 1] + 1 \/ BreaksTo(t)[i] = BreaksTo(t)[i - 1] + 0
    BY <1>1
  <2> QED
    BY <1>0, <2>1, <2>2
<1> HIDE DEF P
<1>4. \A i \in 0..Len(t) : i \in P
  BY <1>0, <1>2, <1>3, UpTo
<1>5. Len(t) \in 0..Len(t)
  BY <1>0
<1> QED
  BY <1>4, <1>5 DEF P, Breaks

\* How many there are up to a unit depends on the units before it.
LEMMA BreaksSame ==
  ASSUME NEW a \in Text, NEW b \in Text, NEW n \in Nat, n <= Len(a), n <= Len(b),
         \A i \in 1..n : a[i] = b[i]
  PROVE  BreaksTo(a)[n] = BreaksTo(b)[n]
<1> DEFINE P == {i \in 0..n : BreaksTo(a)[i] = BreaksTo(b)[i]}
<1>0. Len(a) \in Nat /\ Len(b) \in Nat
  BY DEF Text
<1>1. /\ BreaksTo(a)[0] = 0 /\ BreaksTo(b)[0] = 0
      /\ \A i \in 1..Len(a) :
           BreaksTo(a)[i] = BreaksTo(a)[i - 1] + (IF IsBreak(a[i]) THEN 1 ELSE 0)
      /\ \A i \in 1..Len(b) :
           BreaksTo(b)[i] = BreaksTo(b)[i - 1] + (IF IsBreak(b[i]) THEN 1 ELSE 0)
  BY <1>0, BreaksToFollows
<1>2. 0 \in P
  BY <1>1
<1>3. ASSUME NEW i \in 1..n, i - 1 \in P PROVE i \in P
  <2>1. i \in 1..Len(a) /\ i \in 1..Len(b) /\ i \in 0..n /\ a[i] = b[i]
    BY <1>0
  <2>2. BreaksTo(a)[i - 1] = BreaksTo(b)[i - 1]
    BY <1>3
  <2>3. /\ BreaksTo(a)[i] = BreaksTo(a)[i - 1] + (IF IsBreak(a[i]) THEN 1 ELSE 0)
        /\ BreaksTo(b)[i] = BreaksTo(b)[i - 1] + (IF IsBreak(b[i]) THEN 1 ELSE 0)
    BY <1>1, <2>1
  <2> QED
    BY <2>1, <2>2, <2>3
<1> HIDE DEF P
<1>4. \A i \in 0..n : i \in P
  BY <1>2, <1>3, UpTo
<1> QED
  BY <1>4 DEF P

\* The breaks of a text after another,
LEMMA BreaksJoin ==
  ASSUME NEW a \in Text, NEW b \in Text
  PROVE  Breaks(a \o b) = Breaks(a) + Breaks(b)
<1> DEFINE ab == a \o b
           P == {i \in 0..Len(b) : BreaksTo(ab)[Len(a) + i] = Breaks(a) + BreaksTo(b)[i]}
<1>0. /\ ab \in Text /\ Len(ab) = Len(a) + Len(b) /\ Len(a) \in Nat /\ Len(b) \in Nat
      /\ \A i \in 1..Len(a) : ab[i] = a[i]
      /\ \A i \in 1..Len(b) : ab[Len(a) + i] = b[i]
  BY JoinText
<1> HIDE DEF ab
<1>1. BreaksTo(ab)[Len(a)] = BreaksTo(a)[Len(a)]
  <2>1. Len(a) <= Len(ab) /\ Len(a) <= Len(a)
    BY <1>0
  <2> QED
    BY <1>0, <2>1, BreaksSame
<1>2. /\ BreaksTo(b)[0] = 0
      /\ \A i \in 1..Len(ab) :
           BreaksTo(ab)[i] = BreaksTo(ab)[i - 1] + (IF IsBreak(ab[i]) THEN 1 ELSE 0)
      /\ \A i \in 1..Len(b) :
           BreaksTo(b)[i] = BreaksTo(b)[i - 1] + (IF IsBreak(b[i]) THEN 1 ELSE 0)
  <2>1. Len(ab) \in Nat
    BY <1>0
  <2> QED
    BY <1>0, <2>1, BreaksToFollows
<1>3. Breaks(a) \in Nat /\ \A i \in 0..Len(b) : BreaksTo(b)[i] \in Nat
  BY BreaksTyped
<1>4. 0 \in P
  BY <1>0, <1>1, <1>2, <1>3 DEF Breaks
<1>5. ASSUME NEW i \in 1..Len(b), i - 1 \in P PROVE i \in P
  <2>1. /\ Len(a) + i \in 1..Len(ab) /\ ab[Len(a) + i] = b[i] /\ (Len(a) + i) - 1 = Len(a) + (i - 1)
        /\ i - 1 \in 0..Len(b) /\ i \in 0..Len(b)
    BY <1>0
  <2>2. BreaksTo(ab)[Len(a) + (i - 1)] = Breaks(a) + BreaksTo(b)[i - 1]
    BY <1>5
  <2>3. BreaksTo(ab)[Len(a) + i]
          = BreaksTo(ab)[Len(a) + (i - 1)] + (IF IsBreak(b[i]) THEN 1 ELSE 0)
    BY <1>2, <2>1, Zenon
  <2>4. BreaksTo(b)[i] = BreaksTo(b)[i - 1] + (IF IsBreak(b[i]) THEN 1 ELSE 0)
    BY <1>2
  <2>5. BreaksTo(b)[i - 1] \in Nat
    BY <1>3, <2>1
  <2>6. BreaksTo(ab)[Len(a) + i] = Breaks(a) + BreaksTo(b)[i]
    <3> DEFINE m == IF IsBreak(b[i]) THEN 1 ELSE 0
               x == BreaksTo(b)[i - 1]
    <3>1. m \in Nat /\ x \in Nat
      BY <2>5
    <3>2. BreaksTo(ab)[Len(a) + i] = (Breaks(a) + x) + m /\ BreaksTo(b)[i] = x + m
      BY <2>2, <2>3, <2>4
    <3> HIDE DEF m, x
    <3> QED
      BY <1>3, <3>1, <3>2
  <2> QED
    BY <2>1, <2>6
<1> HIDE DEF P
<1>6. \A i \in 0..Len(b) : i \in P
  BY <1>0, <1>4, <1>5, UpTo
<1>7. Len(b) \in 0..Len(b)
  BY <1>0
<1>8. BreaksTo(ab)[Len(a) + Len(b)] = Breaks(a) + BreaksTo(b)[Len(b)]
  BY <1>6, <1>7 DEF P
<1> QED
  BY <1>0, <1>8 DEF Breaks, ab

\* of one without units, and of one unit.
LEMMA BreaksNone == <<>> \in Text /\ Len(<<>>) = 0 /\ Breaks(<<>>) = 0
<1>1. <<>> \in Text /\ Len(<<>>) = 0
  BY DEF Text
<1> QED
  BY <1>1, BreaksToFollows DEF Breaks

LEMMA BreaksOne ==
  ASSUME NEW u \in Unit
  PROVE  /\ <<u>> \in Text /\ Len(<<u>>) = 1
         /\ Breaks(<<u>>) = IF IsBreak(u) THEN 1 ELSE 0
<1> DEFINE b == <<u>>
<1>1. b \in Text /\ Len(b) = 1 /\ b[1] = u
  BY DEF Text
<1> HIDE DEF b
<1>2. Len(b) \in Nat /\ 1 \in 1..Len(b) /\ 1 - 1 = 0
  BY <1>1
<1>3. BreaksTo(b)[0] = 0
  BY <1>2, BreaksToFollows
<1>4. BreaksTo(b)[1] = BreaksTo(b)[1 - 1] + (IF IsBreak(b[1]) THEN 1 ELSE 0)
  BY <1>2, BreaksToFollows, Zenon
<1>5. Breaks(b) = IF IsBreak(u) THEN 1 ELSE 0
  BY <1>1, <1>2, <1>3, <1>4 DEF Breaks
<1> QED
  BY <1>1, <1>5 DEF b

\* Parts joined are a text.
LEMMA FlatTyped ==
  ASSUME NEW p \in Seq(Text)
  PROVE  Flat(p) \in Text /\ \A i \in 0..Len(p) : FlatTo(p)[i] \in Text
<1> DEFINE P == {i \in 0..Len(p) : FlatTo(p)[i] \in Text}
<1>0. Len(p) \in Nat
  OBVIOUS
<1>1. /\ FlatTo(p)[0] = <<>>
      /\ \A i \in 1..Len(p) : FlatTo(p)[i] = FlatTo(p)[i - 1] \o p[i]
  BY <1>0, FlatToFollows
<1>2. 0 \in P
  BY <1>0, <1>1, BreaksNone
<1>3. ASSUME NEW i \in 1..Len(p), i - 1 \in P PROVE i \in P
  <2>1. FlatTo(p)[i - 1] \in Text /\ p[i] \in Text
    BY <1>3
  <2>2. FlatTo(p)[i] \in Text
    BY <1>1, <2>1, JoinText
  <2> QED
    BY <2>2
<1> HIDE DEF P
<1>4. \A i \in 0..Len(p) : i \in P
  BY <1>0, <1>2, <1>3, UpTo
<1>5. Len(p) \in 0..Len(p)
  BY <1>0
<1> QED
  BY <1>4, <1>5 DEF P, Flat

\* What the first parts are joined to depends on them.
LEMMA FlatSame ==
  ASSUME NEW p \in Seq(Text), NEW q \in Seq(Text), NEW n \in Nat, n <= Len(p), n <= Len(q),
         \A i \in 1..n : p[i] = q[i]
  PROVE  FlatTo(p)[n] = FlatTo(q)[n]
<1> DEFINE P == {i \in 0..n : FlatTo(p)[i] = FlatTo(q)[i]}
<1>0. Len(p) \in Nat /\ Len(q) \in Nat
  OBVIOUS
<1>1. /\ FlatTo(p)[0] = <<>> /\ FlatTo(q)[0] = <<>>
      /\ \A i \in 1..Len(p) : FlatTo(p)[i] = FlatTo(p)[i - 1] \o p[i]
      /\ \A i \in 1..Len(q) : FlatTo(q)[i] = FlatTo(q)[i - 1] \o q[i]
  BY <1>0, FlatToFollows
<1>2. 0 \in P
  BY <1>1
<1>3. ASSUME NEW i \in 1..n, i - 1 \in P PROVE i \in P
  <2>1. i \in 1..Len(p) /\ i \in 1..Len(q) /\ i \in 0..n /\ p[i] = q[i]
    BY <1>0
  <2>2. FlatTo(p)[i - 1] = FlatTo(q)[i - 1]
    BY <1>3
  <2> QED
    BY <1>1, <2>1, <2>2
<1> HIDE DEF P
<1>4. \A i \in 0..n : i \in P
  BY <1>2, <1>3, UpTo
<1> QED
  BY <1>4 DEF P

\* No parts, a part more, one part, and some parts after others.
LEMMA FlatNone == <<>> \in Seq(Text) /\ Flat(<<>>) = <<>>
<1>1. Len(<<>>) = 0 /\ <<>> \in Seq(Text)
  OBVIOUS
<1> QED
  BY <1>1, FlatToFollows DEF Flat

LEMMA FlatAppend ==
  ASSUME NEW p \in Seq(Text), NEW x \in Text
  PROVE  Flat(Append(p, x)) = Flat(p) \o x
<1> DEFINE q == Append(p, x)
           n == Len(p)
           m == n + 1
<1>1. /\ q \in Seq(Text) /\ Len(q) = m /\ q[m] = x
      /\ \A i \in 1..n : q[i] = p[i]
  BY AppendProperties
<1>2. n \in Nat /\ m \in Nat /\ m - 1 = n /\ n <= n /\ n <= m /\ m \in 1..m
  OBVIOUS
<1> HIDE DEF q, m
<1>3. FlatTo(q)[m] = FlatTo(q)[m - 1] \o q[m]
  BY <1>1, <1>2, FlatToFollows
<1>4. FlatTo(q)[n] = FlatTo(p)[n]
  BY <1>1, <1>2, FlatSame
<1>5. Flat(q) = Flat(p) \o x
  BY <1>1, <1>2, <1>3, <1>4 DEF Flat
<1> QED
  BY <1>5 DEF q

LEMMA FlatOne ==
  ASSUME NEW x \in Text
  PROVE  <<x>> \in Seq(Text) /\ Flat(<<x>>) = x
<1> DEFINE none == <<>>
<1>1. none \in Seq(Text) /\ Flat(none) = <<>>
  BY FlatNone
<1>2. Append(none, x) = <<x>>
  OBVIOUS
<1> HIDE DEF none
<1>3. Flat(Append(none, x)) = Flat(none) \o x
  BY <1>1, FlatAppend
<1>4. <<>> \o x = x
  BY DEF Text
<1> QED
  BY <1>1, <1>2, <1>3, <1>4

LEMMA FlatJoin ==
  ASSUME NEW p \in Seq(Text), NEW q \in Seq(Text)
  PROVE  Flat(p \o q) = Flat(p) \o Flat(q)
<1> DEFINE pq == p \o q
           P == {i \in 0..Len(q) : FlatTo(pq)[Len(p) + i] = Flat(p) \o FlatTo(q)[i]}
<1>0. /\ pq \in Seq(Text) /\ Len(pq) = Len(p) + Len(q) /\ Len(p) \in Nat /\ Len(q) \in Nat
      /\ \A i \in 1..Len(p) : pq[i] = p[i]
      /\ \A i \in 1..Len(q) : pq[Len(p) + i] = q[i]
  OBVIOUS
<1> HIDE DEF pq
<1>1. FlatTo(pq)[Len(p)] = FlatTo(p)[Len(p)]
  <2>1. Len(p) <= Len(pq) /\ Len(p) <= Len(p)
    BY <1>0
  <2> QED
    BY <1>0, <2>1, FlatSame
<1>2. /\ FlatTo(q)[0] = <<>>
      /\ \A i \in 1..Len(pq) : FlatTo(pq)[i] = FlatTo(pq)[i - 1] \o pq[i]
      /\ \A i \in 1..Len(q) : FlatTo(q)[i] = FlatTo(q)[i - 1] \o q[i]
  <2>1. Len(pq) \in Nat
    BY <1>0
  <2> QED
    BY <1>0, <2>1, FlatToFollows
<1>3. Flat(p) \in Text /\ \A i \in 0..Len(q) : FlatTo(q)[i] \in Text
  BY FlatTyped
<1>4. 0 \in P
  <2>1. Flat(p) \o <<>> = Flat(p)
    BY <1>3 DEF Text
  <2>2. Len(p) + 0 = Len(p) /\ 0 \in 0..Len(q)
    BY <1>0
  <2> QED
    BY <1>1, <1>2, <2>1, <2>2 DEF Flat
<1>5. ASSUME NEW i \in 1..Len(q), i - 1 \in P PROVE i \in P
  <2>1. /\ Len(p) + i \in 1..Len(pq) /\ pq[Len(p) + i] = q[i] /\ (Len(p) + i) - 1 = Len(p) + (i - 1)
        /\ i - 1 \in 0..Len(q) /\ i \in 0..Len(q)
    BY <1>0
  <2>2. FlatTo(pq)[Len(p) + (i - 1)] = Flat(p) \o FlatTo(q)[i - 1]
    BY <1>5
  <2>3. FlatTo(pq)[Len(p) + i] = FlatTo(pq)[Len(p) + (i - 1)] \o q[i]
    BY <1>2, <2>1, Zenon
  <2>4. FlatTo(q)[i] = FlatTo(q)[i - 1] \o q[i]
    BY <1>2
  <2>5. FlatTo(q)[i - 1] \in Text /\ q[i] \in Text /\ Flat(p) \in Text
    BY <1>3, <2>1
  <2>6. (Flat(p) \o FlatTo(q)[i - 1]) \o q[i] = Flat(p) \o (FlatTo(q)[i - 1] \o q[i])
    BY <2>5, JoinAgain
  <2> QED
    BY <2>1, <2>2, <2>3, <2>4, <2>6
<1> HIDE DEF P
<1>6. \A i \in 0..Len(q) : i \in P
  BY <1>0, <1>4, <1>5, UpTo
<1>7. Len(q) \in 0..Len(q)
  BY <1>0
<1>8. FlatTo(pq)[Len(p) + Len(q)] = Flat(p) \o FlatTo(q)[Len(q)]
  BY <1>6, <1>7 DEF P
<1> QED
  BY <1>0, <1>8 DEF Flat, pq


-----------------------------------------------------------------------------
(* Ends of a text. *)

\* The units from one on.
From(t, f) == SubSeq(t, f, Len(t))

LEMMA FromFacts ==
  ASSUME NEW t \in Text, NEW f \in 1..(Len(t) + 1)
  PROVE  /\ From(t, f) \in Text /\ Len(t) \in Nat
         /\ Len(From(t, f)) = (Len(t) - f) + 1
         /\ \A i \in 1..((Len(t) - f) + 1) : From(t, f)[i] = t[(f + i) - 1]
<1>0. Len(t) \in Nat /\ f \in Int /\ Len(t) \in Int /\ \A i \in f..Len(t) : t[i] \in Unit
  BY DEF Text
<1>1. /\ SubSeq(t, f, Len(t)) \in Seq(Unit)
      /\ Len(SubSeq(t, f, Len(t))) = IF f <= Len(t) THEN Len(t) - f + 1 ELSE 0
      /\ \A i \in 1 .. Len(t) - f + 1 : SubSeq(t, f, Len(t))[i] = t[f + i - 1]
  BY <1>0, SubSeqProperties
<1>2. f <= Len(t) \/ (Len(t) - f) + 1 = 0
  BY <1>0
<1> QED
  BY <1>0, <1>1, <1>2 DEF From, Text

\* The first units.
LEMMA TextFirst ==
  ASSUME NEW t \in Text, NEW n \in 0..Len(t)
  PROVE  /\ SubSeq(t, 1, n) \in Text /\ Len(SubSeq(t, 1, n)) = n
         /\ \A i \in 1..n : SubSeq(t, 1, n)[i] = t[i]
<1>0. Len(t) \in Nat /\ n \in Int /\ 1 \in Int /\ \A i \in 1..n : t[i] \in Unit
  BY DEF Text
<1>1. /\ SubSeq(t, 1, n) \in Seq(Unit)
      /\ Len(SubSeq(t, 1, n)) = IF 1 <= n THEN n - 1 + 1 ELSE 0
      /\ \A i \in 1 .. n - 1 + 1 : SubSeq(t, 1, n)[i] = t[1 + i - 1]
  BY <1>0, SubSeqProperties
<1>2. n - 1 + 1 = n /\ (1 <= n \/ n = 0) /\ \A i \in 1..n : 1 + i - 1 = i
  BY <1>0
<1> QED
  BY <1>1, <1>2 DEF Text

\* Texts with the same units are the same.
LEMMA SameText ==
  ASSUME NEW a \in Text, NEW b \in Text, Len(a) = Len(b), \A i \in 1..Len(a) : a[i] = b[i]
  PROVE  a = b
<1>1. a \in Seq(Unit) /\ b \in Seq(Unit)
  BY DEF Text
<1> QED
  BY <1>1, SeqEqual

\* A text is its first units and the others.
LEMMA FirstAndFrom ==
  ASSUME NEW t \in Text, NEW n \in 0..Len(t)
  PROVE  SubSeq(t, 1, n) \o From(t, n + 1) = t
<1> DEFINE a == SubSeq(t, 1, n)
           f == n + 1
           b == From(t, f)
<1>0. Len(t) \in Nat /\ f \in 1..(Len(t) + 1) /\ f - 1 = n
  BY DEF Text
<1>1. a \in Text /\ Len(a) = n /\ \A i \in 1..n : a[i] = t[i]
  BY TextFirst
<1> HIDE DEF a, f
<1>2. b \in Text /\ Len(b) = (Len(t) - f) + 1
      /\ \A i \in 1..((Len(t) - f) + 1) : b[i] = t[(f + i) - 1]
  BY <1>0, FromFacts
<1> HIDE DEF b
<1>3. /\ a \o b \in Text /\ Len(a \o b) = Len(a) + Len(b)
      /\ \A i \in 1..Len(a) : (a \o b)[i] = a[i]
      /\ \A i \in (Len(a) + 1)..(Len(a) + Len(b)) : (a \o b)[i] = b[i - Len(a)]
  BY <1>1, <1>2, JoinText
<1>4. Len(a \o b) = Len(t)
  BY <1>0, <1>1, <1>2, <1>3
<1>5. ASSUME NEW i \in 1..Len(a \o b) PROVE (a \o b)[i] = t[i]
  <2>1. CASE i <= n
    <3>1. i \in 1..n /\ i \in 1..Len(a)
      BY <1>1, <2>1
    <3> QED
      BY <1>1, <1>3, <3>1
  <2>2. CASE ~(i <= n)
    <3>0. i \in 1..Len(t) /\ n \in 0..Len(t) /\ Len(a) = n /\ Len(b) = Len(t) - n
      BY <1>0, <1>1, <1>2, <1>4
    <3>1. /\ i \in (Len(a) + 1)..(Len(a) + Len(b)) /\ i - Len(a) \in 1..((Len(t) - f) + 1)
          /\ (f + (i - Len(a))) - 1 = i
      BY <1>0, <2>2, <3>0
    <3>2. (a \o b)[i] = b[i - Len(a)]
      BY <1>3, <3>1
    <3> QED
      BY <1>2, <3>1, <3>2
  <2> QED
    BY <2>1, <2>2
<1>6. a \o b = t
  BY <1>3, <1>4, <1>5, SameText
<1> QED
  BY <1>6 DEF a, b, f

\* The whole text, and nothing.
LEMMA FromAll ==
  ASSUME NEW t \in Text
  PROVE  From(t, 1) = t /\ From(t, Len(t) + 1) = <<>>
<1>0. Len(t) \in Nat /\ 1 \in 1..(Len(t) + 1) /\ t \in Seq(Unit)
  BY DEF Text
<1>1. SubSeq(t, 1, Len(t)) = t
  BY <1>0, SubSeqFull
<1>2. Len(t) + 1 \in Int /\ Len(t) \in Int /\ Len(t) < Len(t) + 1
  BY <1>0
<1>3. SubSeq(t, Len(t) + 1, Len(t)) = <<>>
  BY <1>2, SubSeqEmpty
<1> QED
  BY <1>1, <1>3 DEF From

\* An end of an end,
LEMMA FromFrom ==
  ASSUME NEW t \in Text, NEW f \in 1..(Len(t) + 1), NEW k \in 1..(Len(From(t, f)) + 1)
  PROVE  (f + k) - 1 \in 1..(Len(t) + 1) /\ From(From(t, f), k) = From(t, (f + k) - 1)
<1> DEFINE a == From(t, f)
           g == (f + k) - 1
           b == From(a, k)
           d == From(t, g)
<1>1. a \in Text /\ Len(a) = (Len(t) - f) + 1 /\ Len(t) \in Nat
      /\ \A i \in 1..((Len(t) - f) + 1) : a[i] = t[(f + i) - 1]
  BY FromFacts
<1>2. g \in 1..(Len(t) + 1) /\ k \in 1..(Len(a) + 1)
  BY <1>1
<1> HIDE DEF a
<1>3. b \in Text /\ Len(b) = (Len(a) - k) + 1
      /\ \A i \in 1..((Len(a) - k) + 1) : b[i] = a[(k + i) - 1]
  BY <1>1, <1>2, FromFacts
<1>4. d \in Text /\ Len(d) = (Len(t) - g) + 1
      /\ \A i \in 1..((Len(t) - g) + 1) : d[i] = t[(g + i) - 1]
  <2> HIDE DEF g
  <2> QED
    BY <1>2, FromFacts
<1> HIDE DEF b, d
<1>5. Len(b) = Len(d)
  BY <1>1, <1>2, <1>3, <1>4
<1>6. ASSUME NEW i \in 1..Len(b) PROVE b[i] = d[i]
  <2>1. i \in 1..((Len(a) - k) + 1) /\ i \in 1..((Len(t) - g) + 1)
        /\ (k + i) - 1 \in 1..((Len(t) - f) + 1) /\ (f + ((k + i) - 1)) - 1 = (g + i) - 1
    BY <1>1, <1>2, <1>3, <1>4, <1>5
  <2>2. b[i] = a[(k + i) - 1] /\ d[i] = t[(g + i) - 1]
    BY <1>3, <1>4, <2>1
  <2>3. a[(k + i) - 1] = t[(f + ((k + i) - 1)) - 1]
    BY <1>1, <2>1
  <2> QED
    BY <2>1, <2>2, <2>3
<1>7. b = d
  BY <1>3, <1>4, <1>5, <1>6, SameText
<1> QED
  BY <1>2, <1>7 DEF a, b, d

\* an end of a text after another,
LEMMA FromJoin ==
  ASSUME NEW a \in Text, NEW b \in Text, NEW f \in 1..(Len(a) + 1)
  PROVE  From(a \o b, f) = From(a, f) \o b
<1> DEFINE ab == a \o b
           e == From(a, f)
           x == From(ab, f)
           y == e \o b
<1>1. /\ ab \in Text /\ Len(ab) = Len(a) + Len(b) /\ Len(a) \in Nat /\ Len(b) \in Nat
      /\ \A i \in 1..Len(a) : ab[i] = a[i]
      /\ \A i \in (Len(a) + 1)..(Len(a) + Len(b)) : ab[i] = b[i - Len(a)]
  BY JoinText
<1> HIDE DEF ab
<1>2. e \in Text /\ Len(e) = (Len(a) - f) + 1
      /\ \A i \in 1..((Len(a) - f) + 1) : e[i] = a[(f + i) - 1]
  BY FromFacts
<1>3. f \in 1..(Len(ab) + 1)
  BY <1>1
<1>4. x \in Text /\ Len(x) = (Len(ab) - f) + 1
      /\ \A i \in 1..((Len(ab) - f) + 1) : x[i] = ab[(f + i) - 1]
  BY <1>1, <1>3, FromFacts
<1> HIDE DEF e, x
<1>5. /\ y \in Text /\ Len(y) = Len(e) + Len(b)
      /\ \A i \in 1..Len(e) : y[i] = e[i]
      /\ \A i \in (Len(e) + 1)..(Len(e) + Len(b)) : y[i] = b[i - Len(e)]
  BY <1>2, JoinText
<1> HIDE DEF y
<1>6. Len(x) = Len(y)
  BY <1>1, <1>2, <1>4, <1>5
<1>7. ASSUME NEW i \in 1..Len(x) PROVE x[i] = y[i]
  <2>0. i \in 1..((Len(ab) - f) + 1) /\ x[i] = ab[(f + i) - 1]
    BY <1>4
  <2>1. CASE i <= Len(e)
    <3>1. i \in 1..Len(e) /\ i \in 1..((Len(a) - f) + 1) /\ (f + i) - 1 \in 1..Len(a)
      BY <1>1, <1>2, <2>1
    <3> QED
      BY <1>1, <1>2, <1>5, <2>0, <3>1
  <2>2. CASE ~(i <= Len(e))
    <3>1. /\ i \in (Len(e) + 1)..(Len(e) + Len(b))
          /\ (f + i) - 1 \in (Len(a) + 1)..(Len(a) + Len(b))
          /\ ((f + i) - 1) - Len(a) = i - Len(e)
      BY <1>1, <1>2, <1>4, <2>2
    <3> QED
      BY <1>1, <1>5, <2>0, <3>1
  <2> QED
    BY <2>1, <2>2
<1>8. x = y
  BY <1>4, <1>5, <1>6, <1>7, SameText
<1> QED
  BY <1>8 DEF ab, e, x, y

\* which may be an end of the other.
LEMMA FromLater ==
  ASSUME NEW a \in Text, NEW b \in Text, NEW k \in 1..(Len(b) + 1)
  PROVE  /\ Len(a) + k \in 1..(Len(a \o b) + 1)
         /\ From(a \o b, Len(a) + k) = From(b, k)
<1> DEFINE ab == a \o b
           f == Len(a) + k
           x == From(ab, f)
           y == From(b, k)
<1>1. /\ ab \in Text /\ Len(ab) = Len(a) + Len(b) /\ Len(a) \in Nat /\ Len(b) \in Nat
      /\ \A i \in (Len(a) + 1)..(Len(a) + Len(b)) : ab[i] = b[i - Len(a)]
  BY JoinText
<1> HIDE DEF ab
<1>2. f \in 1..(Len(ab) + 1)
  BY <1>1
<1>3. y \in Text /\ Len(y) = (Len(b) - k) + 1
      /\ \A i \in 1..((Len(b) - k) + 1) : y[i] = b[(k + i) - 1]
  BY FromFacts
<1>4. x \in Text /\ Len(x) = (Len(ab) - f) + 1
      /\ \A i \in 1..((Len(ab) - f) + 1) : x[i] = ab[(f + i) - 1]
  <2> HIDE DEF f
  <2> QED
    BY <1>1, <1>2, FromFacts
<1> HIDE DEF x, y
<1>5. Len(x) = Len(y)
  BY <1>1, <1>3, <1>4
<1>6. ASSUME NEW i \in 1..Len(x) PROVE x[i] = y[i]
  <2>1. /\ i \in 1..((Len(ab) - f) + 1) /\ i \in 1..((Len(b) - k) + 1)
        /\ (f + i) - 1 \in (Len(a) + 1)..(Len(a) + Len(b))
        /\ ((f + i) - 1) - Len(a) = (k + i) - 1
    BY <1>1, <1>3, <1>4, <1>5
  <2> QED
    BY <1>1, <1>3, <1>4, <2>1
<1>7. x = y
  BY <1>3, <1>4, <1>5, <1>6, SameText
<1> QED
  BY <1>2, <1>7 DEF ab, x, y

\* A longer end has no fewer breaks.
LEMMA LongerBreaks ==
  ASSUME NEW t \in Text, NEW f \in 1..(Len(t) + 1), NEW g \in 1..(Len(t) + 1), f <= g
  PROVE  /\ Breaks(From(t, f)) \in Nat /\ Breaks(From(t, g)) \in Nat
         /\ Breaks(From(t, g)) <= Breaks(From(t, f))
<1> DEFINE k == (g - f) + 1
           a == From(t, f)
           n == k - 1
<1>1. a \in Text /\ Len(a) = (Len(t) - f) + 1 /\ Len(t) \in Nat
  BY FromFacts
<1>2. From(t, g) \in Text
  BY FromFacts
<1>3. k \in 1..(Len(a) + 1) /\ n \in 0..Len(a) /\ (f + k) - 1 = g /\ n + 1 = k
  BY <1>1
<1> HIDE DEF k, n
<1>4. From(a, k) = From(t, g)
  BY <1>3, FromFrom
<1> HIDE DEF a
<1>5. SubSeq(a, 1, n) \o From(a, n + 1) = a /\ SubSeq(a, 1, n) \in Text
  BY <1>1, <1>3, FirstAndFrom, TextFirst
<1> DEFINE c == SubSeq(a, 1, n)
           d == From(t, g)
<1>9. c \o d = a /\ c \in Text /\ d \in Text
  BY <1>2, <1>3, <1>4, <1>5
<1> HIDE DEF c, d
<1>10. Breaks(c \o d) = Breaks(c) + Breaks(d)
  BY <1>9, BreaksJoin
<1>6. Breaks(a) = Breaks(c) + Breaks(d)
  BY <1>9, <1>10
<1>7. Breaks(a) \in Nat /\ Breaks(c) \in Nat /\ Breaks(d) \in Nat
  BY <1>1, <1>9, BreaksTyped
<1>8. Breaks(d) <= Breaks(a)
  BY <1>6, <1>7
<1> QED
  BY <1>7, <1>8 DEF a, d


-----------------------------------------------------------------------------
(* The longest end, and the longest start. *)

\* From here on the text does not begin within a pair, and is within the limits.
GoodEnd(t, f, c, m) ==
  /\ f <= Len(t) => t[f].kind # "low"
  /\ Len(From(t, f)) <= c /\ Breaks(From(t, f)) <= m

FirstGood(t, f, c, m) ==
  /\ f \in 1..(Len(t) + 1) /\ GoodEnd(t, f, c, m)
  /\ \A j \in 1..(Len(t) + 1) : GoodEnd(t, j, c, m) => f <= j

EndStart(t, c, m) == CHOOSE f : FirstGood(t, f, c, m)

\* The longest end is the one from the first good place on,
LEMMA LongestEndAt ==
  ASSUME NEW t \in Text, NEW c, NEW m, NEW f, FirstGood(t, f, c, m)
  PROVE  LongestEnd(t, c, m) = From(t, f)
<1> DEFINE from == {i \in 1 .. Len(t) + 1 : /\ i <= Len(t) => t[i].kind # "low"
                                            /\ Within(SubSeq(t, i, Len(t)), c, m)}
           g == CHOOSE i \in from : \A j \in from : i <= j
<1>1. LongestEnd(t, c, m) = SubSeq(t, g, Len(t))
  BY DEF LongestEnd
<1>2. \A i : i \in from <=> i \in 1..(Len(t) + 1) /\ GoodEnd(t, i, c, m)
  BY DEF GoodEnd, Within, From
<1>3. from \subseteq Int /\ Len(t) \in Nat
  BY DEF Text
<1> HIDE DEF from
<1>4. f \in from /\ \A j \in from : f <= j
  BY <1>2 DEF FirstGood
<1>5. g \in from /\ \A j \in from : g <= j
  BY <1>4
<1>6. g = f
  <2>1. g <= f /\ f <= g /\ f \in Int /\ g \in Int
    BY <1>3, <1>4, <1>5
  <2> QED
    BY <2>1
<1> QED
  BY <1>1, <1>6 DEF From

\* and there is such a place.
LEMMA EndStartFacts ==
  ASSUME NEW t \in Text, NEW c \in Nat, NEW m \in Nat
  PROVE  /\ FirstGood(t, EndStart(t, c, m), c, m)
         /\ LongestEnd(t, c, m) = From(t, EndStart(t, c, m))
<1> DEFINE S == {j \in 1..(Len(t) + 1) : GoodEnd(t, j, c, m)}
           n == Len(t) + 1
<1>0. Len(t) \in Nat /\ n \in 1..(Len(t) + 1) /\ ~(n <= Len(t))
  BY DEF Text
<1>1. GoodEnd(t, n, c, m)
  <2>1. From(t, n) = <<>> /\ Len(<<>>) = 0 /\ Breaks(<<>>) = 0
    BY FromAll, BreaksNone
  <2> HIDE DEF n
  <2> QED
    BY <1>0, <2>1 DEF GoodEnd
<1>2. n \in S
  BY <1>0, <1>1
<1>3. S \subseteq Nat
  BY <1>0
<1>4. PICK f \in S : \A j \in S : f <= j
  <2> HIDE DEF S
  <2> QED
    BY <1>2, <1>3, LeastNumber
<1>5. FirstGood(t, f, c, m)
  BY <1>4 DEF FirstGood
<1>6. FirstGood(t, EndStart(t, c, m), c, m)
  BY <1>5 DEF EndStart
<1> QED
  BY <1>6, LongestEndAt

\* It is within the limits and does not begin within a pair.
LEMMA LongestEndTyped ==
  ASSUME NEW t \in Text, NEW c \in Nat, NEW m \in Nat
  PROVE  /\ LongestEnd(t, c, m) \in Text
         /\ Len(LongestEnd(t, c, m)) \in Nat /\ Len(LongestEnd(t, c, m)) <= c
         /\ Breaks(LongestEnd(t, c, m)) <= m
         /\ LongestEnd(t, c, m) # <<>> => LongestEnd(t, c, m)[1].kind # "low"
<1> DEFINE f == EndStart(t, c, m)
           a == From(t, f)
<1>1. FirstGood(t, f, c, m) /\ LongestEnd(t, c, m) = a
  BY EndStartFacts
<1>2. f \in 1..(Len(t) + 1) /\ GoodEnd(t, f, c, m)
  BY <1>1 DEF FirstGood
<1> HIDE DEF f
<1>3. a \in Text /\ Len(t) \in Nat /\ Len(a) = (Len(t) - f) + 1
      /\ \A i \in 1..((Len(t) - f) + 1) : a[i] = t[(f + i) - 1]
  BY <1>2, FromFacts
<1>4. Len(a) <= c /\ Breaks(a) <= m
  BY <1>2 DEF GoodEnd
<1>5. ASSUME a # <<>> PROVE a[1].kind # "low"
  <2>1. Len(a) # 0
    BY <1>3, <1>5 DEF Text
  <2>2. 1 \in 1..((Len(t) - f) + 1) /\ (f + 1) - 1 = f /\ f <= Len(t)
    BY <1>2, <1>3, <2>1
  <2>3. t[f].kind # "low"
    BY <1>2, <2>2 DEF GoodEnd
  <2> QED
    BY <1>3, <2>2, <2>3
<1>6. Len(a) \in Nat
  BY <1>3 DEF Text
<1> QED
  BY <1>1, <1>3, <1>4, <1>5, <1>6

\* A text within the limits is its longest end.
LEMMA LongestEndAll ==
  ASSUME NEW t \in Text, NEW c \in Nat, NEW m \in Nat, Len(t) <= c, Breaks(t) <= m,
         t # <<>> => t[1].kind # "low"
  PROVE  LongestEnd(t, c, m) = t
<1> DEFINE f == 1
<1>1. From(t, f) = t /\ Len(t) \in Nat /\ f \in 1..(Len(t) + 1)
  BY FromAll DEF Text
<1>2. f <= Len(t) => t # <<>>
  BY DEF Text
<1>3. GoodEnd(t, f, c, m)
  BY <1>1, <1>2 DEF GoodEnd
<1>4. FirstGood(t, f, c, m)
  BY <1>1, <1>3 DEF FirstGood
<1> HIDE DEF f
<1> QED
  BY <1>1, <1>4, LongestEndAt

\* What was left out before is left out after more has come: the longest end of
\* the longest end with more is the one of all of it.
LEMMA LongestEndJoin ==
  ASSUME NEW a \in Text, NEW d \in Text, NEW c \in Nat, NEW m \in Nat,
         NEW c1 \in Nat, NEW m1 \in Nat, c <= c1, m <= m1
  PROVE  LongestEnd(LongestEnd(a, c1, m1) \o d, c, m) = LongestEnd(a \o d, c, m)
<1> DEFINE f == EndStart(a, c1, m1)
           e == From(a, f)
           x == a \o d
           g == EndStart(x, c, m)
           y == e \o d
           k == (g - f) + 1
<1>1. FirstGood(a, f, c1, m1) /\ LongestEnd(a, c1, m1) = e
  BY EndStartFacts
<1>2. f \in 1..(Len(a) + 1) /\ \A j \in 1..(Len(a) + 1) : GoodEnd(a, j, c1, m1) => f <= j
  BY <1>1 DEF FirstGood
<1> HIDE DEF f
<1>3. /\ x \in Text /\ Len(x) = Len(a) + Len(d) /\ Len(a) \in Nat /\ Len(d) \in Nat
      /\ \A i \in 1..Len(a) : x[i] = a[i]
  BY JoinText
<1>4. e \in Text /\ From(x, f) = y
  BY <1>2, FromFacts, FromJoin
<1> HIDE DEF e
<1>5. y \in Text
  BY <1>4, JoinText
<1>6. FirstGood(x, g, c, m) /\ LongestEnd(x, c, m) = From(x, g)
  <2> HIDE DEF x
  <2> QED
    BY <1>3, EndStartFacts
<1>7. /\ g \in 1..(Len(x) + 1) /\ GoodEnd(x, g, c, m)
      /\ \A j \in 1..(Len(x) + 1) : GoodEnd(x, j, c, m) => g <= j
  BY <1>6 DEF FirstGood
<1> HIDE DEF g
<1>8. ASSUME ~(f <= g) PROVE FALSE
  <2>1. g \in 1..(Len(a) + 1) /\ g <= Len(a) /\ g <= Len(x) /\ g \in 1..Len(a)
    BY <1>2, <1>3, <1>7, <1>8
  <2> DEFINE b == From(a, g)
  <2>2. From(x, g) = b \o d /\ b \in Text
    BY <2>1, FromJoin, FromFacts
  <2> HIDE DEF b
  <2>3. Len(b \o d) = Len(b) + Len(d) /\ Breaks(b \o d) = Breaks(b) + Breaks(d)
        /\ Len(b) \in Nat /\ Breaks(b) \in Nat /\ Breaks(d) \in Nat
    BY <2>2, JoinText, BreaksJoin, BreaksTyped
  <2>4. Len(b \o d) <= c /\ Breaks(b \o d) <= m /\ a[g].kind # "low"
    BY <1>3, <1>7, <2>1, <2>2 DEF GoodEnd
  <2>5. Len(b) <= c1 /\ Breaks(b) <= m1
    BY <1>3, <2>3, <2>4
  <2>6. GoodEnd(a, g, c1, m1)
    BY <2>4, <2>5 DEF GoodEnd, b
  <2>7. f <= g
    BY <1>2, <2>1, <2>6
  <2> QED
    BY <1>8, <2>7
<1>9. Len(y) = (Len(x) - f) + 1 /\ f \in 1..(Len(x) + 1)
      /\ \A i \in 1..((Len(x) - f) + 1) : y[i] = x[(f + i) - 1]
  <2>1. f \in 1..(Len(x) + 1)
    BY <1>2, <1>3
  <2> HIDE DEF x, y
  <2> QED
    BY <1>3, <1>4, <2>1, FromFacts
<1>10. ASSUME NEW j \in 1..(Len(y) + 1)
       PROVE  /\ (f + j) - 1 \in 1..(Len(x) + 1)
              /\ From(y, j) = From(x, (f + j) - 1)
              /\ GoodEnd(y, j, c, m) <=> GoodEnd(x, (f + j) - 1, c, m)
  <2>1. (f + j) - 1 \in 1..(Len(x) + 1) /\ From(y, j) = From(x, (f + j) - 1)
    <3>1. j \in 1..(Len(From(x, f)) + 1)
      BY <1>4
    <3> HIDE DEF x, y
    <3> QED
      BY <1>3, <1>4, <1>9, <3>1, FromFrom
  <2> DEFINE h == (f + j) - 1
  <2>2. j <= Len(y) <=> h <= Len(x)
    BY <1>3, <1>9
  <2>3. j <= Len(y) => y[j] = x[h]
    <3>1. j <= Len(y) => j \in 1..((Len(x) - f) + 1)
      BY <1>9
    <3> QED
      BY <1>9, <3>1
  <2>4. GoodEnd(y, j, c, m) <=> GoodEnd(x, h, c, m)
    <3> HIDE DEF h, x, y
    <3>1. From(y, j) = From(x, h)
      BY <2>1 DEF h
    <3> QED
      BY <2>2, <2>3, <3>1 DEF GoodEnd
  <2> QED
    BY <2>1, <2>4
<1>11. k \in 1..(Len(y) + 1) /\ (f + k) - 1 = g
  BY <1>3, <1>7, <1>8, <1>9
<1> HIDE DEF k
<1>12. GoodEnd(y, k, c, m) /\ From(y, k) = From(x, g)
  BY <1>7, <1>10, <1>11
<1>13. ASSUME NEW j \in 1..(Len(y) + 1), GoodEnd(y, j, c, m) PROVE k <= j
  <2>1. (f + j) - 1 \in 1..(Len(x) + 1) /\ GoodEnd(x, (f + j) - 1, c, m)
    BY <1>10, <1>13
  <2>2. g <= (f + j) - 1
    BY <1>7, <2>1
  <2>3. f \in Int /\ g \in Int /\ j \in Int /\ k \in Int
    BY <1>3, <1>7, <1>9, <1>11
  <2> HIDE DEF x, y
  <2> QED
    BY <1>11, <2>2, <2>3
<1>14. FirstGood(y, k, c, m)
  BY <1>11, <1>12, <1>13 DEF FirstGood
<1>15. LongestEnd(y, c, m) = From(y, k)
  <2> HIDE DEF y
  <2> QED
    BY <1>5, <1>14, LongestEndAt
<1> QED
  BY <1>1, <1>6, <1>12, <1>15

\* So an end of a longest end is one of the whole text.
LEMMA LongestEndAgain ==
  ASSUME NEW a \in Text, NEW c \in Nat, NEW m \in Nat,
         NEW c1 \in Nat, NEW m1 \in Nat, c <= c1, m <= m1
  PROVE  LongestEnd(LongestEnd(a, c1, m1), c, m) = LongestEnd(a, c, m)
<1> DEFINE d == <<>>
           e == LongestEnd(a, c1, m1)
<1>1. d \in Text /\ e \in Text
  BY BreaksNone, LongestEndTyped
<1>2. a \o d = a /\ e \o d = e
  <2> HIDE DEF e
  <2> QED
    BY <1>1 DEF Text
<1> HIDE DEF d
<1>3. LongestEnd(LongestEnd(a, c1, m1) \o d, c, m) = LongestEnd(a \o d, c, m)
  BY <1>1, LongestEndJoin
<1> QED
  BY <1>2, <1>3

\* When what comes last is as long as the limit, nothing before it counts.
LEMMA LongestEndLater ==
  ASSUME NEW a \in Text, NEW d \in Text, NEW c \in Nat, NEW m \in Nat, c <= Len(d)
  PROVE  LongestEnd(a \o d, c, m) = LongestEnd(d, c, m)
<1> DEFINE x == a \o d
           f == EndStart(d, c, m)
           g == Len(a) + f
<1>1. FirstGood(d, f, c, m) /\ LongestEnd(d, c, m) = From(d, f)
  BY EndStartFacts
<1>2. f \in 1..(Len(d) + 1) /\ GoodEnd(d, f, c, m)
      /\ \A j \in 1..(Len(d) + 1) : GoodEnd(d, j, c, m) => f <= j
  BY <1>1 DEF FirstGood
<1> HIDE DEF f
<1>3. /\ x \in Text /\ Len(x) = Len(a) + Len(d) /\ Len(a) \in Nat /\ Len(d) \in Nat
      /\ \A i \in 1..Len(d) : x[Len(a) + i] = d[i]
  BY JoinText
<1>4. ASSUME NEW j \in 1..(Len(d) + 1)
      PROVE  /\ Len(a) + j \in 1..(Len(x) + 1) /\ From(x, Len(a) + j) = From(d, j)
             /\ GoodEnd(x, Len(a) + j, c, m) <=> GoodEnd(d, j, c, m)
  <2>1. Len(a) + j \in 1..(Len(x) + 1) /\ From(x, Len(a) + j) = From(d, j)
    BY FromLater
  <2>2. /\ Len(a) + j <= Len(x) <=> j <= Len(d)
        /\ j <= Len(d) => x[Len(a) + j] = d[j]
    BY <1>3
  <2> HIDE DEF x
  <2>3. GoodEnd(x, Len(a) + j, c, m) <=> GoodEnd(d, j, c, m)
    <3> DEFINE h == Len(a) + j
    <3>1. From(x, h) = From(d, j) /\ (h <= Len(x) <=> j <= Len(d))
          /\ (j <= Len(d) => x[h] = d[j])
      BY <2>1, <2>2
    <3> HIDE DEF h
    <3>2. GoodEnd(x, h, c, m) <=> GoodEnd(d, j, c, m)
      BY <3>1 DEF GoodEnd
    <3> QED
      BY <3>2 DEF h
  <2> QED
    BY <2>1, <2>3
<1>5. g \in 1..(Len(x) + 1) /\ From(x, g) = From(d, f) /\ GoodEnd(x, g, c, m)
  BY <1>2, <1>4
<1>6. ASSUME NEW j \in 1..(Len(x) + 1), GoodEnd(x, j, c, m) PROVE g <= j
  <2> DEFINE k == j - Len(a)
  <2>1. CASE k \in 1..(Len(d) + 1)
    <3>1. Len(a) + k = j
      BY <1>3
    <3>2. GoodEnd(d, k, c, m)
      <4> HIDE DEF k
      <4> QED
        BY <1>4, <1>6, <2>1, <3>1
    <3>3. f <= k
      BY <1>2, <2>1, <3>2
    <3> QED
      BY <1>2, <1>3, <3>1, <3>3
  <2>2. CASE k \notin 1..(Len(d) + 1)
    <3>1. j <= Len(a)
      BY <1>3, <2>2
    <3>2. Len(From(x, j)) = (Len(x) - j) + 1
      <4> HIDE DEF x
      <4> QED
        BY <1>3, FromFacts
    <3>3. Len(From(x, j)) <= c
      BY <1>6 DEF GoodEnd
    <3> HIDE DEF x
    <3> QED
      BY <1>3, <3>1, <3>2, <3>3
  <2> QED
    BY <2>1, <2>2
<1>7. FirstGood(x, g, c, m)
  BY <1>5, <1>6 DEF FirstGood
<1>8. LongestEnd(x, c, m) = From(x, g)
  <2> HIDE DEF x, g
  <2> QED
    BY <1>3, <1>7, LongestEndAt
<1> QED
  BY <1>1, <1>5, <1>8


-----------------------------------------------------------------------------
(* Cuts that keep pairs whole. *)

Whole(t) ==
  \A i \in 1..Len(t) : /\ t[i].kind = "high" => i < Len(t)
                       /\ t[i].kind = "low" <=> i > 1 /\ t[i - 1].kind = "high"

LEMMA WholeJoin ==
  ASSUME NEW a \in Text, NEW b \in Text, Whole(a), Whole(b)
  PROVE  Whole(a \o b)
<1> DEFINE x == a \o b
<1>1. /\ x \in Text /\ Len(x) = Len(a) + Len(b) /\ Len(a) \in Nat /\ Len(b) \in Nat
      /\ \A i \in 1..Len(a) : x[i] = a[i]
      /\ \A i \in (Len(a) + 1)..(Len(a) + Len(b)) : x[i] = b[i - Len(a)]
  BY JoinText
<1> HIDE DEF x
<1>2. ASSUME NEW i \in 1..Len(x)
      PROVE  /\ x[i].kind = "high" => i < Len(x)
             /\ x[i].kind = "low" <=> i > 1 /\ x[i - 1].kind = "high"
  <2>1. CASE i <= Len(a)
    <3>1. i \in 1..Len(a) /\ x[i] = a[i] /\ (i > 1 => i - 1 \in 1..Len(a))
      BY <1>1, <2>1
    <3>2. i > 1 => x[i - 1] = a[i - 1]
      BY <1>1, <3>1
    <3>3. /\ a[i].kind = "high" => i < Len(a)
          /\ a[i].kind = "low" <=> i > 1 /\ a[i - 1].kind = "high"
      BY <3>1 DEF Whole
    <3>4. i < Len(a) => i < Len(x)
      BY <1>1
    <3> QED
      BY <3>1, <3>2, <3>3, <3>4
  <2>2. CASE ~(i <= Len(a))
    <3> DEFINE k == i - Len(a)
    <3>0. i \in (Len(a) + 1)..(Len(a) + Len(b))
      BY <1>1, <2>2
    <3>1. i \in (Len(a) + 1)..(Len(a) + Len(b)) /\ k \in 1..Len(b) /\ x[i] = b[k]
          /\ (i > 1 <=> k > 1 \/ Len(a) # 0)
      BY <1>1, <3>0
    <3>2. /\ b[k].kind = "high" => k < Len(b)
          /\ b[k].kind = "low" <=> k > 1 /\ b[k - 1].kind = "high"
      <4> HIDE DEF k
      <4> QED
        BY <3>1 DEF Whole
    <3>3. k < Len(b) => i < Len(x)
      BY <1>1
    <3>4. CASE k > 1
      <4>1. i - 1 \in (Len(a) + 1)..(Len(a) + Len(b)) /\ (i - 1) - Len(a) = k - 1
        BY <1>1, <3>4
      <4>2. x[i - 1] = b[k - 1]
        BY <1>1, <4>1
      <4> QED
        BY <3>1, <3>2, <3>3, <3>4, <4>2
    <3>5. CASE ~(k > 1)
      <4>1. i - 1 = Len(a) /\ (Len(a) = 0 \/ Len(a) \in 1..Len(a))
        BY <1>1, <3>1, <3>5
      <4>2. i > 1 => x[i - 1].kind # "high"
        <5> SUFFICES ASSUME i > 1 PROVE x[i - 1].kind # "high"
          OBVIOUS
        <5>1. Len(a) \in 1..Len(a)
          BY <1>1, <4>1, <3>1
        <5>2. x[i - 1] = a[Len(a)]
          BY <1>1, <4>1, <5>1
        <5>3. a[Len(a)].kind = "high" => Len(a) < Len(a)
          BY <5>1 DEF Whole
        <5> QED
          BY <1>1, <5>2, <5>3
      <4> QED
        BY <3>1, <3>2, <3>3, <3>5, <4>2
    <3> QED
      BY <3>4, <3>5
  <2> QED
    BY <2>1, <2>2
<1> QED
  BY <1>2 DEF Whole, x

\* An end that does not begin within a pair is whole,
LEMMA WholeEnd ==
  ASSUME NEW t \in Text, Whole(t), NEW f \in 1..(Len(t) + 1), f <= Len(t) => t[f].kind # "low"
  PROVE  Whole(From(t, f))
<1> DEFINE a == From(t, f)
<1>1. a \in Text /\ Len(t) \in Nat /\ Len(a) = (Len(t) - f) + 1
      /\ \A i \in 1..((Len(t) - f) + 1) : a[i] = t[(f + i) - 1]
  BY FromFacts
<1> HIDE DEF a
<1>2. ASSUME NEW i \in 1..Len(a)
      PROVE  /\ a[i].kind = "high" => i < Len(a)
             /\ a[i].kind = "low" <=> i > 1 /\ a[i - 1].kind = "high"
  <2> DEFINE j == (f + i) - 1
  <2>1. j \in 1..Len(t) /\ a[i] = t[j] /\ (j < Len(t) => i < Len(a))
    BY <1>1
  <2>2. /\ t[j].kind = "high" => j < Len(t)
        /\ t[j].kind = "low" <=> j > 1 /\ t[j - 1].kind = "high"
    <3> HIDE DEF j
    <3> QED
      BY <2>1 DEF Whole
  <2>3. CASE i > 1
    <3>1. i - 1 \in 1..((Len(t) - f) + 1) /\ (f + (i - 1)) - 1 = j - 1 /\ j > 1
      BY <1>1, <2>3
    <3>2. a[i - 1] = t[j - 1]
      BY <1>1, <3>1
    <3> QED
      BY <2>1, <2>2, <2>3, <3>1, <3>2
  <2>4. CASE ~(i > 1)
    <3>1. j = f /\ f <= Len(t)
      BY <1>1, <2>4
    <3>2. t[j].kind # "low"
      BY <3>1
    <3> QED
      BY <2>1, <2>2, <2>4, <3>2
  <2> QED
    BY <2>3, <2>4
<1> QED
  BY <1>2 DEF Whole, a

\* and so is the longest one.
LEMMA WholeLongestEnd ==
  ASSUME NEW t \in Text, Whole(t), NEW c \in Nat, NEW m \in Nat
  PROVE  Whole(LongestEnd(t, c, m))
<1> DEFINE f == EndStart(t, c, m)
<1>1. FirstGood(t, f, c, m) /\ LongestEnd(t, c, m) = From(t, f)
  BY EndStartFacts
<1>2. f \in 1..(Len(t) + 1) /\ (f <= Len(t) => t[f].kind # "low")
  BY <1>1 DEF FirstGood, GoodEnd
<1> HIDE DEF f
<1>3. Whole(From(t, f))
  BY <1>2, WholeEnd
<1> QED
  BY <1>1, <1>3

\* It begins outside a pair.
LEMMA WholeBegins ==
  ASSUME NEW t \in Text, Whole(t), t # <<>>
  PROVE  t[1].kind # "low" /\ t[Len(t)].kind # "high"
<1>1. Len(t) \in Nat /\ Len(t) # 0
  BY DEF Text
<1>2. 1 \in 1..Len(t) /\ Len(t) \in 1..Len(t) /\ ~(1 > 1) /\ ~(Len(t) < Len(t))
  BY <1>1
<1> QED
  BY <1>2 DEF Whole

\* A cut moves by one unit at most.
LEMMA SafeStartFacts ==
  ASSUME NEW t \in Text, NEW e \in 0..Len(t)
  PROVE  /\ SafeStart(t, e) \in 0..Len(t) /\ Len(t) \in Nat
         /\ SafeStart(t, e) = e + 1 <=> e \in 1..(Len(t) - 1) /\ t[e].kind = "high"
         /\ SafeStart(t, e) # e + 1 => SafeStart(t, e) = e
<1>1. Len(t) \in Nat
  BY DEF Text
<1> QED
  BY <1>1 DEF SafeStart

\* To cut off what is too much at its start leaves the longest end.
LEMMA SafeEnd ==
  ASSUME NEW t \in Text, Whole(t), NEW c \in Nat, NEW m \in Nat, NEW e \in 0..Len(t),
         Len(t) - e = c \/ (e = 0 /\ Len(t) <= c), Breaks(t) <= m \/ c <= m
  PROVE  LongestEnd(t, c, m) = From(t, SafeStart(t, e) + 1)
<1> DEFINE s == SafeStart(t, e)
           f == s + 1
<1>1. /\ s \in 0..Len(t) /\ Len(t) \in Nat
      /\ s = e + 1 <=> e \in 1..(Len(t) - 1) /\ t[e].kind = "high"
      /\ s # e + 1 => s = e
  BY SafeStartFacts
<1> HIDE DEF s
<1>2. f \in 1..(Len(t) + 1) /\ f - 1 = s
  BY <1>1
<1>3. ASSUME f <= Len(t) PROVE t[f].kind # "low"
  <2>1. f \in 1..Len(t)
    BY <1>2, <1>3
  <2>2. t[f].kind = "low" <=> f > 1 /\ t[f - 1].kind = "high"
    <3> HIDE DEF f
    <3> QED
      BY <2>1 DEF Whole
  <2>3. CASE s = e + 1
    <3>1. e \in 1..(Len(t) - 1) /\ t[e].kind = "high" /\ s \in 1..Len(t) /\ s - 1 = e /\ s > 1
      BY <1>1, <2>3
    <3>2. t[s].kind = "low" <=> s > 1 /\ t[s - 1].kind = "high"
      BY <3>1 DEF Whole
    <3>3. t[s].kind = "low"
      BY <3>1, <3>2
    <3> QED
      BY <1>2, <2>2, <3>3
  <2>4. CASE s = e
    <3>1. s = 0 \/ (s \in 1..(Len(t) - 1) /\ s # e + 1)
      BY <1>1, <1>3, <2>4
    <3>2. s # 0 => t[s].kind # "high"
      BY <1>1, <2>4, <3>1
    <3>3. f > 1 => s # 0
      BY <1>1
    <3> QED
      BY <1>2, <2>2, <3>2, <3>3
  <2> QED
    BY <1>1, <2>3, <2>4
<1>4. Len(From(t, f)) <= c
  <2>1. Len(From(t, f)) = (Len(t) - f) + 1
    <3> HIDE DEF f
    <3> QED
      BY <1>2, FromFacts
  <2> QED
    BY <1>1, <2>1
<1>5. Breaks(From(t, f)) <= m
  <2>1. From(t, f) \in Text /\ Breaks(From(t, f)) \in Nat
        /\ Breaks(From(t, f)) <= Len(From(t, f)) /\ Len(From(t, f)) \in Nat
    <3> HIDE DEF f
    <3>1. From(t, f) \in Text
      BY <1>2, FromFacts
    <3>2. Len(From(t, f)) \in Nat
      BY <3>1 DEF Text
    <3> QED
      BY <3>1, <3>2, BreaksTyped
  <2>2. CASE c <= m
    <3> HIDE DEF f
    <3> QED
      BY <1>4, <2>1, <2>2
  <2>3. CASE Breaks(t) <= m
    <3> DEFINE one == 1
    <3>1. one \in 1..(Len(t) + 1) /\ one <= f /\ From(t, one) = t
      BY <1>1, <1>2, FromAll
    <3> HIDE DEF f, one
    <3>2. Breaks(From(t, f)) <= Breaks(t) /\ Breaks(t) \in Nat
      BY <1>2, <3>1, LongerBreaks, BreaksTyped
    <3> QED
      BY <2>1, <2>3, <3>2
  <2> QED
    BY <2>2, <2>3
<1>6. GoodEnd(t, f, c, m)
  BY <1>3, <1>4, <1>5 DEF GoodEnd
<1>7. ASSUME NEW j \in 1..(Len(t) + 1), GoodEnd(t, j, c, m), ~(f <= j) PROVE FALSE
  <2>1. j <= s /\ e # 0 /\ Len(t) - e = c
    <3>1. j <= s
      BY <1>1, <1>7
    <3>2. e # 0
      BY <1>1, <3>1
    <3> QED
      BY <3>1, <3>2
  <2>2. Len(From(t, j)) = (Len(t) - j) + 1 /\ Len(From(t, j)) <= c
    BY <1>7, FromFacts DEF GoodEnd
  <2>3. j > e
    BY <1>1, <2>1, <2>2
  <2>4. j = e + 1 /\ s = e + 1 /\ j \in 1..Len(t) /\ j - 1 = e /\ j > 1 /\ j <= Len(t)
    BY <1>1, <2>1, <2>3
  <2>5. t[j].kind = "low" <=> j > 1 /\ t[j - 1].kind = "high"
    BY <2>4 DEF Whole
  <2>6. t[j].kind = "low"
    BY <1>1, <2>4, <2>5
  <2> QED
    BY <1>7, <2>4, <2>6 DEF GoodEnd
<1>8. FirstGood(t, f, c, m)
  BY <1>2, <1>6, <1>7 DEF FirstGood
<1>9. LongestEnd(t, c, m) = From(t, f)
  <2> HIDE DEF f
  <2> QED
    BY <1>8, LongestEndAt
<1> QED
  BY <1>9 DEF s

\* That is what safeSuffix does.
LEMMA SafeSuffixIs ==
  ASSUME NEW t \in Text, Whole(t), NEW c \in Nat, NEW m \in Nat, Breaks(t) <= m \/ c <= m
  PROVE  SafeSuffix(t, c) = LongestEnd(t, c, m)
<1> DEFINE e == IF c < Len(t) THEN Len(t) - c ELSE 0
<1>1. Len(t) \in Nat
  BY DEF Text
<1>2. e \in 0..Len(t) /\ (Len(t) - e = c \/ (e = 0 /\ Len(t) <= c))
  BY <1>1
<1>3. SafeSuffix(t, c) = From(t, SafeStart(t, e) + 1)
  BY DEF SafeSuffix, From
<1> HIDE DEF e
<1> QED
  BY <1>2, <1>3, SafeEnd

\* safePrefix keeps the longest start,
LEMMA SafePrefixIs ==
  ASSUME NEW t \in Text, Whole(t), NEW n \in Nat
  PROVE  SafePrefix(t, n) = LongestStart(t, n)
<1> DEFINE high == n \in 1..(Len(t) - 1) /\ t[n].kind = "high"
           p == IF high THEN n - 1 ELSE Cut(n, Len(t))
           to == {i \in 0 .. Cut(n, Len(t)) : i = 0 \/ t[i].kind # "high"}
           g == CHOOSE i \in to : \A j \in to : j <= i
<1>1. SafePrefix(t, n) = SubSeq(t, 1, p) /\ LongestStart(t, n) = SubSeq(t, 1, g)
  BY DEF SafePrefix, LongestStart
<1>2. Len(t) \in Nat /\ Cut(n, Len(t)) \in 0..Len(t) /\ Cut(n, Len(t)) <= n
      /\ (Cut(n, Len(t)) = n \/ Cut(n, Len(t)) = Len(t))
  BY DEF Text, Cut
<1>3. p \in to /\ \A j \in to : j <= p
  <2>1. CASE high
    <3>1. n \in 1..Len(t) /\ Cut(n, Len(t)) = n /\ p = n - 1
      BY <1>2, <2>1 DEF Cut
    <3>2. p # 0 => t[p].kind # "high"
      <4> SUFFICES ASSUME p # 0, t[p].kind = "high" PROVE FALSE
        OBVIOUS
      <4>1. n > 1 /\ t[n - 1].kind = "high"
        BY <3>1
      <4>2. t[n].kind = "low" <=> n > 1 /\ t[n - 1].kind = "high"
        BY <3>1 DEF Whole
      <4> QED
        BY <2>1, <4>1, <4>2
    <3>3. p \in to
      BY <3>1, <3>2
    <3>4. ASSUME NEW j \in to PROVE j <= p
      <4>1. j \in 0..n /\ (j = 0 \/ t[j].kind # "high")
        BY <3>1, <3>4
      <4>2. j # n
        BY <2>1, <4>1
      <4> QED
        BY <3>1, <4>1, <4>2
    <3> QED
      BY <3>3, <3>4
  <2>2. CASE ~high
    <3>1. p = Cut(n, Len(t))
      BY <2>2
    <3>2. p # 0 => t[p].kind # "high"
      <4>1. CASE p = Len(t) /\ p # 0
        <5>1. p \in 1..Len(t) /\ ~(p < Len(t))
          BY <1>2, <4>1
        <5> QED
          BY <5>1 DEF Whole
      <4>2. CASE p # Len(t) /\ p # 0
        <5>1. p = n /\ n \in 1..(Len(t) - 1)
          BY <1>2, <3>1, <4>2
        <5> QED
          BY <2>2, <5>1
      <4> QED
        BY <4>1, <4>2
    <3>3. p \in 0..Cut(n, Len(t))
      BY <1>2, <3>1
    <3>4. \A j \in to : j <= p
      BY <3>1
    <3> QED
      BY <3>2, <3>3, <3>4
  <2> QED
    BY <2>1, <2>2
<1>4. to \subseteq Int
  BY <1>2
<1> HIDE DEF p, to
<1>5. g \in to /\ \A j \in to : j <= g
  BY <1>3
<1>6. g = p
  <2>1. g <= p /\ p <= g /\ g \in Int /\ p \in Int
    BY <1>3, <1>4, <1>5
  <2> QED
    BY <2>1
<1> QED
  BY <1>1, <1>6

\* which has a length of its own, and is a text.
LEMMA SafePrefixTyped ==
  ASSUME NEW t \in Text, NEW n \in Nat
  PROVE  SafePrefix(t, n) \in Text
<1> DEFINE p == IF n \in 1..(Len(t) - 1) /\ t[n].kind = "high" THEN n - 1 ELSE Cut(n, Len(t))
<1>1. Len(t) \in Nat
  BY DEF Text
<1>2. p \in 0..Len(t)
  BY <1>1 DEF Cut
<1>3. SafePrefix(t, n) = SubSeq(t, 1, p)
  BY DEF SafePrefix
<1> HIDE DEF p
<1> QED
  BY <1>2, <1>3, TextFirst

\* The longest start is not changed by what comes after it,
LEMMA LongestStartJoin ==
  ASSUME NEW a \in Text, NEW b \in Text, NEW n \in Nat, n <= Len(a)
  PROVE  LongestStart(a \o b, n) = LongestStart(a, n)
<1> DEFINE x == a \o b
           toX == {i \in 0 .. Cut(n, Len(x)) : i = 0 \/ x[i].kind # "high"}
           toA == {i \in 0 .. Cut(n, Len(a)) : i = 0 \/ a[i].kind # "high"}
           g == CHOOSE i \in toA : \A j \in toA : j <= i
<1>1. /\ x \in Text /\ Len(x) = Len(a) + Len(b) /\ Len(a) \in Nat /\ Len(b) \in Nat
      /\ \A i \in 1..Len(a) : x[i] = a[i]
  BY JoinText
<1> HIDE DEF x
<1>2. Cut(n, Len(x)) = n /\ Cut(n, Len(a)) = n
  BY <1>1 DEF Cut
<1>3. ASSUME NEW i \in 0..n PROVE i # 0 => x[i] = a[i]
  <2>1. i # 0 => i \in 1..Len(a)
    BY <1>1
  <2> QED
    BY <1>1, <2>1
<1>4. toX = toA
  BY <1>2, <1>3
<1>5. LongestStart(x, n) = SubSeq(x, 1, CHOOSE i \in toX : \A j \in toX : j <= i)
      /\ LongestStart(a, n) = SubSeq(a, 1, g)
  BY DEF LongestStart
<1>6. LongestStart(x, n) = SubSeq(x, 1, g)
  BY <1>4, <1>5
<1>7. g \in 0..Len(a)
  <2>1. toA \subseteq 0..n /\ 0 \in toA
    BY <1>1, <1>2
  <2> DEFINE back == {k \in 0..n : n - k \in toA}
  <2>2. back \subseteq Nat /\ n \in back
    <3>1. n - n = 0
      OBVIOUS
    <3> QED
      BY <2>1, <3>1
  <2>3. PICK k \in back : \A j \in back : k <= j
    <3> HIDE DEF back
    <3> QED
      BY <2>2, LeastNumber
  <2>4. n - k \in toA
    BY <2>3
  <2>5. ASSUME NEW j \in toA PROVE j <= n - k
    <3>1. j \in 0..n
      BY <2>1
    <3>2. n - j \in 0..n /\ n - (n - j) = j
      BY <3>1
    <3>3. n - j \in back
      BY <3>2
    <3>4. k <= n - j /\ k \in 0..n
      BY <2>3, <3>3
    <3> QED
      BY <3>1, <3>4
  <2> HIDE DEF toA
  <2>6. g \in toA
    BY <2>4, <2>5
  <2>7. g \in 0..n
    BY <2>1, <2>6
  <2> HIDE DEF g
  <2> QED
    BY <1>1, <2>7
<1> HIDE DEF g
<1>8. SubSeq(x, 1, g) = SubSeq(a, 1, g)
  <2>1. g \in 0..Len(x)
    BY <1>1, <1>7
  <2> DEFINE u == SubSeq(x, 1, g)
             v == SubSeq(a, 1, g)
  <2>2. u \in Text /\ Len(u) = g /\ \A i \in 1..g : u[i] = x[i]
    BY <1>1, <2>1, TextFirst
  <2>3. v \in Text /\ Len(v) = g /\ \A i \in 1..g : v[i] = a[i]
    BY <1>7, TextFirst
  <2> HIDE DEF u, v
  <2>4. \A i \in 1..Len(u) : u[i] = v[i]
    <3>1. \A i \in 1..g : i \in 1..Len(a)
      BY <1>1, <1>7
    <3> QED
      BY <1>1, <2>2, <2>3, <3>1
  <2>5. u = v
    BY <2>2, <2>3, <2>4, SameText
  <2> QED
    BY <2>5 DEF u, v
<1> QED
  BY <1>5, <1>6, <1>8 DEF x

\* and takes all of a text that is shorter than it may be.
LEMMA SafePrefixJoin ==
  ASSUME NEW a \in Text, NEW b \in Text, NEW n \in Nat, Len(a) < n
  PROVE  SafePrefix(a \o b, n) = a \o SafePrefix(b, n - Len(a))
<1> DEFINE x == a \o b
           k == n - Len(a)
           p == IF n \in 1..(Len(x) - 1) /\ x[n].kind = "high" THEN n - 1 ELSE Cut(n, Len(x))
           q == IF k \in 1..(Len(b) - 1) /\ b[k].kind = "high" THEN k - 1 ELSE Cut(k, Len(b))
           u == SubSeq(x, 1, p)
           v == SubSeq(b, 1, q)
           w == a \o v
<1>1. /\ x \in Text /\ Len(x) = Len(a) + Len(b) /\ Len(a) \in Nat /\ Len(b) \in Nat
      /\ \A i \in 1..Len(a) : x[i] = a[i]
      /\ \A i \in 1..Len(b) : x[Len(a) + i] = b[i]
      /\ \A i \in (Len(a) + 1)..(Len(a) + Len(b)) : x[i] = b[i - Len(a)]
  BY JoinText
<1> HIDE DEF x
<1>2. SafePrefix(x, n) = u /\ SafePrefix(b, k) = v
  BY DEF SafePrefix
<1>3. k \in 1..n /\ n = Len(a) + k
  BY <1>1
<1>4. /\ n \in 1..(Len(x) - 1) <=> k \in 1..(Len(b) - 1)
      /\ k \in 1..(Len(b) - 1) => x[n] = b[k]
      /\ Cut(n, Len(x)) = Len(a) + Cut(k, Len(b)) /\ Cut(k, Len(b)) \in 0..Len(b)
  <2>1. n \in 1..(Len(x) - 1) <=> k \in 1..(Len(b) - 1)
    BY <1>1, <1>3
  <2>2. k \in 1..(Len(b) - 1) => k \in 1..Len(b)
    BY <1>1
  <2>3. k \in 1..(Len(b) - 1) => x[n] = b[k]
    <3> HIDE DEF k
    <3> QED
      BY <1>1, <1>3, <2>2
  <2> QED
    BY <1>1, <1>3, <2>1, <2>3 DEF Cut
<1> HIDE DEF k
<1>5. p = Len(a) + q /\ q \in 0..Len(b) /\ p \in 0..Len(x)
  <2>1. q \in 0..Len(b)
    BY <1>1, <1>3, <1>4
  <2>2. p = Len(a) + q
    BY <1>1, <1>3, <1>4
  <2> HIDE DEF p, q
  <2> QED
    BY <1>1, <2>1, <2>2
<1> HIDE DEF p, q
<1>6. u \in Text /\ Len(u) = p /\ \A i \in 1..p : u[i] = x[i]
  BY <1>1, <1>5, TextFirst
<1>7. v \in Text /\ Len(v) = q /\ \A i \in 1..q : v[i] = b[i]
  BY <1>5, TextFirst
<1> HIDE DEF u, v
<1>8. /\ w \in Text /\ Len(w) = Len(a) + Len(v)
      /\ \A i \in 1..Len(a) : w[i] = a[i]
      /\ \A i \in (Len(a) + 1)..(Len(a) + Len(v)) : w[i] = v[i - Len(a)]
  BY <1>7, JoinText
<1> HIDE DEF w
<1>9. ASSUME NEW i \in 1..Len(u) PROVE u[i] = w[i]
  <2>1. CASE i <= Len(a)
    <3>1. i \in 1..Len(a) /\ i \in 1..p
      BY <1>1, <1>6, <2>1
    <3> QED
      BY <1>1, <1>6, <1>8, <3>1
  <2>2. CASE ~(i <= Len(a))
    <3>1. /\ i \in 1..p /\ i \in (Len(a) + 1)..(Len(a) + Len(v))
          /\ i \in (Len(a) + 1)..(Len(a) + Len(b)) /\ i - Len(a) \in 1..q
      BY <1>1, <1>5, <1>6, <1>7, <2>2
    <3>2. u[i] = x[i] /\ x[i] = b[i - Len(a)]
      BY <1>1, <1>6, <3>1
    <3>3. w[i] = v[i - Len(a)] /\ v[i - Len(a)] = b[i - Len(a)]
      BY <1>7, <1>8, <3>1
    <3> QED
      BY <3>2, <3>3
  <2> QED
    BY <2>1, <2>2
<1>10. Len(u) = Len(w)
  BY <1>5, <1>6, <1>7, <1>8
<1>11. u = w
  BY <1>6, <1>8, <1>9, <1>10, SameText
<1> QED
  BY <1>2, <1>11 DEF x, k, w


-----------------------------------------------------------------------------
(* Parts taken from the start. *)

\* The first parts and the others.
LEMMA PartsFacts ==
  ASSUME NEW p \in Seq(Text), NEW n \in 0..Len(p)
  PROVE  /\ SubSeq(p, 1, n) \in Seq(Text) /\ Len(SubSeq(p, 1, n)) = n
         /\ \A i \in 1..n : SubSeq(p, 1, n)[i] = p[i]
         /\ SubSeq(p, n + 1, Len(p)) \in Seq(Text)
         /\ Len(SubSeq(p, n + 1, Len(p))) = Len(p) - n
         /\ \A i \in 1..(Len(p) - n) : SubSeq(p, n + 1, Len(p))[i] = p[n + i]
         /\ Flat(p) = Flat(SubSeq(p, 1, n)) \o Flat(SubSeq(p, n + 1, Len(p)))
<1> DEFINE f == n + 1
           a == SubSeq(p, 1, n)
           b == SubSeq(p, f, Len(p))
           x == a \o b
<1>0. Len(p) \in Nat /\ n \in Int /\ 1 \in Int /\ f \in Int /\ Len(p) \in Int
      /\ (\A i \in 1..n : p[i] \in Text) /\ (\A i \in f..Len(p) : p[i] \in Text)
  OBVIOUS
<1>1. a \in Seq(Text) /\ Len(a) = n /\ \A i \in 1..n : a[i] = p[i]
  <2>1. /\ a \in Seq(Text)
        /\ Len(a) = IF 1 <= n THEN n - 1 + 1 ELSE 0
        /\ \A i \in 1 .. n - 1 + 1 : a[i] = p[1 + i - 1]
    BY <1>0, SubSeqProperties
  <2>2. n - 1 + 1 = n /\ (1 <= n \/ n = 0) /\ \A i \in 1..n : 1 + i - 1 = i
    BY <1>0
  <2> HIDE DEF a
  <2> QED
    BY <2>1, <2>2
<1>2. b \in Seq(Text) /\ Len(b) = Len(p) - n /\ \A i \in 1..(Len(p) - n) : b[i] = p[n + i]
  <2>1. /\ b \in Seq(Text)
        /\ Len(b) = IF f <= Len(p) THEN Len(p) - f + 1 ELSE 0
        /\ \A i \in 1 .. Len(p) - f + 1 : b[i] = p[f + i - 1]
    <3> HIDE DEF f
    <3> QED
      BY <1>0, SubSeqProperties
  <2>2. Len(p) - f + 1 = Len(p) - n /\ (f <= Len(p) \/ Len(p) - n = 0)
        /\ \A i \in 1..(Len(p) - n) : f + i - 1 = n + i
    BY <1>0
  <2> HIDE DEF b, f
  <2> QED
    BY <2>1, <2>2
<1> HIDE DEF a, b
<1>3. /\ x \in Seq(Text) /\ Len(x) = Len(a) + Len(b)
      /\ \A i \in 1 .. Len(a) + Len(b) : x[i] = IF i <= Len(a) THEN a[i] ELSE b[i - Len(a)]
  BY <1>1, <1>2, ConcatProperties
<1> HIDE DEF x
<1>4. Len(x) = Len(p)
  BY <1>0, <1>1, <1>2, <1>3
<1>5. ASSUME NEW i \in 1..Len(x) PROVE x[i] = p[i]
  <2>1. i \in 1..Len(p) /\ x[i] = IF i <= n THEN a[i] ELSE b[i - n]
    BY <1>1, <1>2, <1>3, <1>4
  <2>2. CASE i <= n
    <3>1. i \in 1..n
      BY <2>1, <2>2
    <3> QED
      BY <1>1, <2>1, <2>2, <3>1
  <2>3. CASE ~(i <= n)
    <3>1. i - n \in 1..(Len(p) - n) /\ n + (i - n) = i
      BY <1>0, <2>1, <2>3
    <3> QED
      BY <1>2, <2>1, <2>3, <3>1
  <2> QED
    BY <2>2, <2>3
<1>6. x = p
  BY <1>3, <1>4, <1>5, SeqEqual
<1>7. Flat(x) = Flat(a) \o Flat(b)
  BY <1>1, <1>2, FlatJoin DEF x
<1> QED
  BY <1>1, <1>2, <1>6, <1>7 DEF a, b, f

\* The next part and those after it.
LEMMA NextPart ==
  ASSUME NEW p \in Seq(Text), NEW n \in Nat, n < Len(p)
  PROVE  /\ n + 1 \in 1..Len(p) /\ p[n + 1] \in Text
         /\ Flat(SubSeq(p, 1, n + 1)) = Flat(SubSeq(p, 1, n)) \o p[n + 1]
         /\ Flat(SubSeq(p, n + 1, Len(p))) = p[n + 1] \o Flat(SubSeq(p, n + 2, Len(p)))
<1> DEFINE f == n + 1
           a == SubSeq(p, 1, n)
           b == SubSeq(p, 1, f)
           d == SubSeq(p, f, Len(p))
           e == SubSeq(p, f + 1, Len(p))
           u == p[f]
<1>0. /\ Len(p) \in Nat /\ f \in 1..Len(p) /\ u \in Text /\ n \in 0..Len(p) /\ f \in 0..Len(p)
      /\ f = n + 1 /\ f + 1 = n + 2
  OBVIOUS
<1>1. a \in Seq(Text) /\ Len(a) = n /\ \A i \in 1..n : a[i] = p[i]
  BY <1>0, PartsFacts
<1>2. b \in Seq(Text) /\ Len(b) = f /\ \A i \in 1..f : b[i] = p[i]
  <2> HIDE DEF f
  <2> QED
    BY <1>0, PartsFacts
<1>3. d \in Seq(Text) /\ Len(d) = Len(p) - n /\ \A i \in 1..(Len(p) - n) : d[i] = p[n + i]
  BY <1>0, PartsFacts
<1>4. e \in Seq(Text) /\ Len(e) = Len(p) - f /\ \A i \in 1..(Len(p) - f) : e[i] = p[f + i]
  <2> HIDE DEF f
  <2> QED
    BY <1>0, PartsFacts
<1> HIDE DEF a, b, d, e, u
<1>5. Flat(b) = Flat(a) \o u
  <2> DEFINE c == Append(a, u)
  <2>1. /\ c \in Seq(Text) /\ Len(c) = Len(a) + 1 /\ c[Len(a) + 1] = u
        /\ \A i \in 1..Len(a) : c[i] = a[i]
    BY <1>0, <1>1, AppendProperties
  <2>2. Flat(c) = Flat(a) \o u
    BY <1>0, <1>1, FlatAppend
  <2> HIDE DEF c
  <2>3. Len(b) = Len(c)
    BY <1>0, <1>1, <1>2, <2>1
  <2>4. ASSUME NEW i \in 1..Len(b) PROVE b[i] = c[i]
    <3>1. i \in 1..f /\ (i = f \/ i \in 1..n)
      BY <1>0, <1>2
    <3> QED
      BY <1>0, <1>1, <1>2, <2>1, <3>1 DEF u
  <2>5. b = c
    BY <1>2, <2>1, <2>3, <2>4, SeqEqual
  <2> QED
    BY <2>2, <2>5
<1>6. Flat(d) = u \o Flat(e)
  <2> DEFINE o == <<u>>
             c == o \o e
  <2>1. o \in Seq(Text) /\ Len(o) = 1 /\ o[1] = u /\ Flat(o) = u
    <3>1. Flat(<<u>>) = u
      BY <1>0, FlatOne
    <3> QED
      BY <1>0, <3>1
  <2> HIDE DEF o
  <2>2. /\ c \in Seq(Text) /\ Len(c) = Len(o) + Len(e)
        /\ \A i \in 1 .. Len(o) + Len(e) : c[i] = IF i <= Len(o) THEN o[i] ELSE e[i - Len(o)]
    BY <1>4, <2>1, ConcatProperties
  <2>3. Flat(c) = u \o Flat(e)
    BY <1>4, <2>1, FlatJoin
  <2> HIDE DEF c
  <2>4. Len(d) = Len(c)
    BY <1>0, <1>3, <1>4, <2>1, <2>2
  <2>5. ASSUME NEW i \in 1..Len(d) PROVE d[i] = c[i]
    <3>1. i \in 1..(Len(p) - n) /\ c[i] = IF i <= 1 THEN o[i] ELSE e[i - 1]
      BY <1>3, <2>1, <2>2, <2>4
    <3>2. CASE i = 1
      BY <1>0, <1>3, <2>1, <3>1, <3>2 DEF u
    <3>3. CASE i # 1
      <4>1. i - 1 \in 1..(Len(p) - f) /\ f + (i - 1) = n + i /\ ~(i <= 1)
        BY <1>0, <3>1, <3>3
      <4> QED
        BY <1>3, <1>4, <3>1, <4>1
    <3> QED
      BY <3>2, <3>3
  <2>6. d = c
    BY <1>3, <2>2, <2>4, <2>5, SeqEqual
  <2> QED
    BY <2>3, <2>6
<1> QED
  BY <1>0, <1>5, <1>6 DEF a, b, d, e, u, f

\* As many parts as are within an excess that is not all there is.
LEMMA MostWithinFacts ==
  ASSUME NEW p \in Seq(Text), NEW e \in Nat, e < Total(p)
  PROVE  /\ MostWithin(p, e) \in Nat /\ MostWithin(p, e) < Len(p)
         /\ Total(SubSeq(p, 1, MostWithin(p, e))) <= e
         /\ e < Total(SubSeq(p, 1, MostWithin(p, e) + 1))
<1> DEFINE gone == {n \in 0 .. Len(p) : Total(SubSeq(p, 1, n)) <= e}
           most == CHOOSE n \in gone : \A k \in gone : k <= n
           l == Len(p)
           back == {k \in 0..l : l - k \in gone}
<1>0. l \in Nat /\ MostWithin(p, e) = most
  BY DEF MostWithin
<1>1. 0 \in gone
  <2>1. SubSeq(p, 1, 0) \in Seq(Text) /\ Len(SubSeq(p, 1, 0)) = 0
    <3> DEFINE z == 0
    <3>1. z \in 0..Len(p)
      BY <1>0
    <3> HIDE DEF z
    <3>2. SubSeq(p, 1, z) \in Seq(Text) /\ Len(SubSeq(p, 1, z)) = z
      BY <3>1, PartsFacts
    <3> QED
      BY <3>2 DEF z
  <2>2. SubSeq(p, 1, 0) = <<>>
    BY <2>1
  <2>3. Flat(<<>>) = <<>> /\ Len(<<>>) = 0
    BY FlatNone
  <2>4. Total(SubSeq(p, 1, 0)) = 0
    BY <2>2, <2>3, Zenon DEF Total
  <2> QED
    BY <1>0, <2>4
<1>2. back \subseteq Nat /\ l \in back
  <2>1. l - l = 0
    BY <1>0
  <2> QED
    BY <1>0, <1>1, <2>1
<1>3. PICK k \in back : \A j \in back : k <= j
  <2> HIDE DEF back
  <2> QED
    BY <1>2, LeastNumber
<1>4. l - k \in gone
  BY <1>3
<1>5. ASSUME NEW j \in gone PROVE j <= l - k
  <2>1. j \in 0..l /\ k \in 0..l
    BY <1>3
  <2>2. l - j \in 0..l /\ l - (l - j) = j
    BY <1>0, <2>1
  <2>3. l - j \in back
    BY <2>2
  <2>4. k <= l - j
    BY <1>3, <2>3
  <2> QED
    BY <1>0, <2>1, <2>4
<1>6. gone \subseteq 0..l /\ \A n \in 0..l : Total(SubSeq(p, 1, n)) <= e <=> n \in gone
  OBVIOUS
<1> HIDE DEF gone, back
<1>7. most \in gone /\ \A n \in gone : n <= most
  BY <1>4, <1>5
<1> HIDE DEF most
<1>8. most \in 0..l /\ Total(SubSeq(p, 1, most)) <= e
  BY <1>6, <1>7
<1>9. most # l
  <2>1. SubSeq(p, 1, Len(p)) = p
    BY SubSeqFull
  <2>2. Total(p) \in Nat
    <3>1. Flat(p) \in Text
      BY FlatTyped
    <3> QED
      BY <3>1 DEF Total, Text
  <2>3. ASSUME most = l PROVE FALSE
    <3>1. SubSeq(p, 1, most) = p
      BY <2>1, <2>3
    <3>2. Total(p) <= e
      BY <1>8, <3>1
    <3> QED
      BY <2>2, <3>2
  <2> QED
    BY <2>3
<1>10. ~(Total(SubSeq(p, 1, most + 1)) <= e) /\ Total(SubSeq(p, 1, most + 1)) \in Nat
  <2> DEFINE h == most + 1
  <2>1. h \in 0..l /\ ~(h <= most)
    BY <1>0, <1>8, <1>9
  <2> HIDE DEF h
  <2>2. ~(Total(SubSeq(p, 1, h)) <= e)
    BY <1>6, <1>7, <2>1
  <2>3. SubSeq(p, 1, h) \in Seq(Text)
    BY <2>1, PartsFacts
  <2>4. Flat(SubSeq(p, 1, h)) \in Text
    BY <2>3, FlatTyped
  <2>5. Total(SubSeq(p, 1, h)) \in Nat
    BY <2>4 DEF Total, Text
  <2> QED
    BY <2>2, <2>5 DEF h
<1> QED
  BY <1>0, <1>8, <1>9, <1>10

\* A text that does not end within a pair.
EndsWell(t) == t # <<>> => t[Len(t)].kind # "high"

LEMMA EndsWellJoin ==
  ASSUME NEW a \in Text, NEW b \in Text, EndsWell(a), EndsWell(b)
  PROVE  EndsWell(a \o b)
<1> DEFINE x == a \o b
<1>1. /\ x \in Text /\ Len(x) = Len(a) + Len(b) /\ Len(a) \in Nat /\ Len(b) \in Nat
      /\ \A i \in 1..Len(a) : x[i] = a[i]
      /\ \A i \in 1..Len(b) : x[Len(a) + i] = b[i]
  BY JoinText
<1> HIDE DEF x
<1>2. CASE Len(b) # 0
  <2>1. Len(b) \in 1..Len(b) /\ b # <<>>
    BY <1>1, <1>2, BreaksNone
  <2>2. x[Len(x)] = b[Len(b)]
    BY <1>1, <2>1
  <2> QED
    BY <2>1, <2>2 DEF EndsWell, x
<1>3. CASE Len(b) = 0 /\ Len(a) # 0
  <2>1. Len(a) \in 1..Len(a) /\ a # <<>>
    BY <1>1, <1>3, BreaksNone
  <2>2. x[Len(x)] = a[Len(a)]
    BY <1>1, <1>3, <2>1
  <2> QED
    BY <2>1, <2>2 DEF EndsWell, x
<1>4. CASE Len(b) = 0 /\ Len(a) = 0
  <2>1. x = <<>>
    BY <1>1, <1>4 DEF Text
  <2> QED
    BY <2>1 DEF EndsWell, x
<1> QED
  BY <1>2, <1>3, <1>4

LEMMA EndsWellFlat ==
  ASSUME NEW p \in Seq(Text), \A i \in 1..Len(p) : EndsWell(p[i])
  PROVE  EndsWell(Flat(p))
<1> DEFINE P == {i \in 0..Len(p) : EndsWell(FlatTo(p)[i])}
<1>0. Len(p) \in Nat
  OBVIOUS
<1>1. /\ FlatTo(p)[0] = <<>>
      /\ \A i \in 1..Len(p) : FlatTo(p)[i] = FlatTo(p)[i - 1] \o p[i]
  BY <1>0, FlatToFollows
<1>2. 0 \in P
  BY <1>0, <1>1 DEF EndsWell
<1>3. ASSUME NEW i \in 1..Len(p), i - 1 \in P PROVE i \in P
  <2>1. i - 1 \in 0..Len(p) /\ i \in 0..Len(p) /\ EndsWell(FlatTo(p)[i - 1]) /\ EndsWell(p[i])
    BY <1>0, <1>3
  <2>2. FlatTo(p)[i - 1] \in Text /\ p[i] \in Text
    BY <2>1, FlatTyped
  <2>3. EndsWell(FlatTo(p)[i - 1] \o p[i])
    BY <2>1, <2>2, EndsWellJoin
  <2> QED
    BY <1>1, <2>1, <2>3
<1> HIDE DEF P
<1>4. \A i \in 0..Len(p) : i \in P
  BY <1>0, <1>2, <1>3, UpTo
<1>5. Len(p) \in 0..Len(p)
  BY <1>0
<1> QED
  BY <1>4, <1>5 DEF P, Flat

\* A cut within a part is the cut of the text.
LEMMA SafeStartInPart ==
  ASSUME NEW a \in Text, NEW b \in Text, NEW r \in Text, EndsWell(a),
         NEW k \in Nat, k < Len(b)
  PROVE  SafeStart(a \o (b \o r), Len(a) + k) = Len(a) + SafeStart(b, k)
<1> DEFINE br == b \o r
           x == a \o br
           e == Len(a) + k
<1>1. /\ br \in Text /\ Len(br) = Len(b) + Len(r) /\ Len(b) \in Nat /\ Len(r) \in Nat
      /\ \A i \in 1..Len(b) : br[i] = b[i]
  BY JoinText
<1> HIDE DEF br
<1>2. /\ x \in Text /\ Len(x) = Len(a) + Len(br) /\ Len(a) \in Nat
      /\ \A i \in 1..Len(a) : x[i] = a[i]
      /\ \A i \in 1..Len(br) : x[Len(a) + i] = br[i]
  BY <1>1, JoinText
<1> HIDE DEF x
<1>3. /\ SafeStart(b, k) = k + 1 <=> k \in 1..(Len(b) - 1) /\ b[k].kind = "high"
      /\ SafeStart(b, k) # k + 1 => SafeStart(b, k) = k
  <2>1. k \in 0..Len(b)
    BY <1>1
  <2> QED
    BY <2>1, SafeStartFacts
<1>4. /\ SafeStart(x, e) = e + 1 <=> e \in 1..(Len(x) - 1) /\ x[e].kind = "high"
      /\ SafeStart(x, e) # e + 1 => SafeStart(x, e) = e
  <2>1. e \in 0..Len(x)
    BY <1>1, <1>2
  <2> HIDE DEF e
  <2> QED
    BY <1>2, <2>1, SafeStartFacts
<1>5. CASE k = 0
  <2>1. e = Len(a) /\ SafeStart(b, k) = 0
    BY <1>2, <1>3, <1>5
  <2>2. e # 0 => x[e].kind # "high"
    <3> SUFFICES ASSUME e # 0 PROVE x[e].kind # "high"
      OBVIOUS
    <3>1. Len(a) \in 1..Len(a) /\ a # <<>>
      BY <1>2, <2>1, BreaksNone
    <3>2. x[e] = a[Len(a)]
      BY <1>2, <2>1, <3>1
    <3> QED
      BY <3>1, <3>2 DEF EndsWell
  <2>3. SafeStart(x, e) = e
    BY <1>4, <2>2
  <2> QED
    BY <1>2, <2>1, <2>3 DEF x, br
<1>6. CASE k # 0
  <2>1. k \in 1..(Len(b) - 1) /\ k \in 1..Len(b) /\ k \in 1..Len(br) /\ e \in 1..(Len(x) - 1)
    BY <1>1, <1>2, <1>6
  <2>2. x[e] = b[k]
    BY <1>1, <1>2, <2>1
  <2>3. (SafeStart(b, k) = k + 1 /\ SafeStart(x, e) = e + 1)
        \/ (SafeStart(b, k) = k /\ SafeStart(x, e) = e)
    <3> HIDE DEF e
    <3> QED
      BY <1>3, <1>4, <2>1, <2>2, Zenon
  <2>4. e + 1 = Len(a) + (k + 1) /\ e = Len(a) + k
    BY <1>2
  <2>5. SafeStart(x, e) = Len(a) + SafeStart(b, k)
    <3> HIDE DEF e
    <3> QED
      BY <2>3, <2>4
  <2> QED
    BY <2>5 DEF x, br
<1> QED
  BY <1>5, <1>6

AllEndWell(p) == \A i \in 1..Len(p) : EndsWell(p[i])

\* Of an excess e the first n parts go, and s units of the next one.
Dropped(p, e, n, gone, first, s) ==
  /\ n = MostWithin(p, e) /\ gone = Total(SubSeq(p, 1, n))
  /\ first = p[n + 1] /\ s = SafeStart(first, e - gone)

\* What is left of them.
Left(p, n, gone, first, s) ==
  From(first, s + 1) \o Flat(SubSeq(p, n + 2, Len(p))) = From(Flat(p), (gone + s) + 1)

\* Whole parts go, then the start of the next one: together the safe cut of all.
LEMMA DropParts ==
  ASSUME NEW p \in Seq(Text), AllEndWell(p), NEW e \in Nat, e < Total(p),
         NEW n, NEW gone, NEW first, NEW s, Dropped(p, e, n, gone, first, s)
  PROVE  /\ n \in Nat /\ n < Len(p) /\ first \in Text /\ e - gone \in Nat /\ e - gone < Len(first)
         /\ gone \in Nat /\ s \in 0..Len(first)
         /\ gone + s = SafeStart(Flat(p), e)
         /\ Left(p, n, gone, first, s)
         /\ gone + Len(first) <= Len(Flat(p))
         /\ \A i \in 1..Len(first) : Flat(p)[gone + i] = first[i]
<1> DEFINE a == Flat(SubSeq(p, 1, n))
           r == Flat(SubSeq(p, n + 2, Len(p)))
           k == e - gone
<1>0. /\ n = MostWithin(p, e) /\ gone = Total(SubSeq(p, 1, n))
      /\ first = p[n + 1] /\ s = SafeStart(first, e - gone)
      /\ \A i \in 1..Len(p) : EndsWell(p[i])
  BY DEF Dropped, AllEndWell
<1>1. n \in Nat /\ n < Len(p) /\ gone <= e /\ e < Total(SubSeq(p, 1, n + 1)) /\ Len(p) \in Nat
  BY <1>0, MostWithinFacts
<1>2. /\ n + 1 \in 1..Len(p) /\ first \in Text
      /\ Flat(SubSeq(p, 1, n + 1)) = a \o first
      /\ Flat(SubSeq(p, n + 1, Len(p))) = first \o r
  BY <1>0, <1>1, NextPart
<1>3. /\ SubSeq(p, 1, n) \in Seq(Text) /\ Len(SubSeq(p, 1, n)) = n
      /\ \A i \in 1..n : SubSeq(p, 1, n)[i] = p[i]
      /\ Flat(p) = a \o Flat(SubSeq(p, n + 1, Len(p)))
  <2>1. n \in 0..Len(p)
    BY <1>1
  <2> QED
    BY <2>1, PartsFacts
<1>4. SubSeq(p, n + 2, Len(p)) \in Seq(Text)
  <2> DEFINE h == n + 1
  <2>1. h \in 0..Len(p) /\ h + 1 = n + 2
    BY <1>1
  <2>2. SubSeq(p, h + 1, Len(p)) \in Seq(Text)
    <3> HIDE DEF h
    <3> QED
      BY <2>1, PartsFacts
  <2> QED
    BY <2>1, <2>2
<1>5. a \in Text /\ r \in Text
  BY <1>3, <1>4, FlatTyped
<1>6. EndsWell(a)
  <2>1. \A i \in 1..Len(SubSeq(p, 1, n)) : EndsWell(SubSeq(p, 1, n)[i])
    <3>1. \A i \in 1..n : i \in 1..Len(p)
      BY <1>1
    <3> QED
      BY <1>0, <1>3, <3>1
  <2> QED
    BY <1>3, <2>1, EndsWellFlat
<1> HIDE DEF a, r
<1>7. gone = Len(a) /\ Len(a) \in Nat /\ Total(SubSeq(p, 1, n + 1)) = Len(a) + Len(first)
      /\ Len(first) \in Nat
  <2>1. gone = Len(a)
    BY <1>0, Zenon DEF Total, a
  <2>2. Len(a \o first) = Len(a) + Len(first) /\ Len(a) \in Nat /\ Len(first) \in Nat
    BY <1>2, <1>5, JoinText
  <2>3. Total(SubSeq(p, 1, n + 1)) = Len(a \o first)
    BY <1>2, Zenon DEF Total
  <2> QED
    BY <2>1, <2>2, <2>3
<1>8. k \in Nat /\ k < Len(first) /\ k \in 0..Len(first) /\ e = Len(a) + k
  BY <1>1, <1>7
<1>9. Flat(p) = a \o (first \o r)
  BY <1>2, <1>3
<1>10. SafeStart(first, k) \in 0..Len(first) /\ s = SafeStart(first, k)
  BY <1>0, <1>2, <1>8, SafeStartFacts
<1>11. gone + s = SafeStart(Flat(p), e)
  <2> HIDE DEF k
  <2>1. SafeStart(a \o (first \o r), Len(a) + k) = Len(a) + SafeStart(first, k)
    BY <1>2, <1>5, <1>6, <1>8, SafeStartInPart
  <2> QED
    BY <1>7, <1>8, <1>9, <1>10, <2>1
<1>12. From(Flat(p), (gone + s) + 1) = From(first, s + 1) \o r
  <2> DEFINE f == s + 1
             b == first \o r
  <2>1. f \in 1..(Len(first) + 1) /\ (gone + s) + 1 = Len(a) + f
    BY <1>7, <1>10
  <2>2. b \in Text /\ Len(b) = Len(first) + Len(r) /\ Len(r) \in Nat
    BY <1>2, <1>5, JoinText
  <2>3. f \in 1..(Len(b) + 1)
    BY <1>7, <2>1, <2>2
  <2>4. From(b, f) = From(first, f) \o r
    <3> HIDE DEF f
    <3> QED
      BY <1>2, <1>5, <2>1, FromJoin
  <2> HIDE DEF b, f
  <2>5. From(a \o b, Len(a) + f) = From(b, f)
    BY <1>5, <2>2, <2>3, FromLater
  <2> QED
    BY <1>9, <2>1, <2>4, <2>5 DEF b, f
<1>13. /\ Len(a) + Len(first) <= Len(Flat(p))
       /\ \A i \in 1..Len(first) : Flat(p)[Len(a) + i] = first[i]
  <2> DEFINE b == first \o r
  <2>1. b \in Text /\ Len(b) = Len(first) + Len(r) /\ Len(r) \in Nat
        /\ \A i \in 1..Len(first) : b[i] = first[i]
    BY <1>2, <1>5, JoinText
  <2> HIDE DEF b
  <2>2. Len(a \o b) = Len(a) + Len(b) /\ \A i \in 1..Len(b) : (a \o b)[Len(a) + i] = b[i]
    BY <1>5, <2>1, JoinText
  <2>3. Flat(p) = a \o b
    BY <1>9 DEF b
  <2>4. Len(a) + Len(first) <= Len(a \o b) /\ \A i \in 1..Len(first) : i \in 1..Len(b)
    BY <1>7, <2>1, <2>2
  <2>5. \A i \in 1..Len(first) : (a \o b)[Len(a) + i] = first[i]
    BY <2>1, <2>2, <2>4
  <2> QED
    BY <2>3, <2>4, <2>5
<1> QED
  BY <1>1, <1>2, <1>7, <1>8, <1>10, <1>11, <1>12, <1>13 DEF r, Left


-----------------------------------------------------------------------------
(* Lines. *)

\* A line with its newline, and lines: all but the last one have theirs.
Ended(t) == Breaks(t) = 1 /\ t # <<>> /\ IsBreak(t[Len(t)])

AreLines(l) ==
  /\ l \in Seq(Text) /\ l # <<>> /\ Breaks(l[Len(l)]) = 0
  /\ \A i \in 1..(Len(l) - 1) : Ended(l[i])

\* A unit more,
LEMMA AddUnitFacts ==
  ASSUME NEW l, AreLines(l), NEW u \in Unit
  PROVE  AreLines(AddUnit(l, u)) /\ Flat(AddUnit(l, u)) = Flat(l) \o <<u>>
<1> DEFINE n == Len(l)
           k == n - 1
           last == l[n]
           one == <<u>>
           longer == last \o one
           more == [l EXCEPT ![n] = Append(@, u)]
           none == <<>>
           all == Append(more, none)
<1>1. /\ l \in Seq(Text) /\ n \in Nat /\ n # 0 /\ n \in 1..n /\ Breaks(last) = 0
      /\ \A i \in 1..k : Ended(l[i])
  BY DEF AreLines
<1>2. last \in Text /\ k \in Nat /\ k <= n /\ k + 1 = n /\ n - 1 = k
  BY <1>1
<1>3. one \in Text /\ Len(one) = 1 /\ Breaks(one) = (IF IsBreak(u) THEN 1 ELSE 0) /\ one[1] = u
  BY BreaksOne
<1>4. Append(last, u) = longer
  BY <1>2, AppendIsConcat DEF Text
<1> HIDE DEF one
<1>5. /\ longer \in Text /\ Len(longer) = Len(last) + 1 /\ Breaks(longer) = Breaks(one)
      /\ longer[Len(longer)] = u /\ longer # <<>> /\ Len(last) \in Nat
  <2> HIDE DEF last, longer
  <2>1. /\ longer \in Text /\ Len(longer) = Len(last) + Len(one)
        /\ Len(last) \in Nat
        /\ \A i \in 1..Len(one) : longer[Len(last) + i] = one[i]
    BY <1>2, <1>3, JoinText DEF longer
  <2>2. Breaks(longer) = Breaks(last) + Breaks(one) /\ Breaks(one) \in Nat
    BY <1>2, <1>3, BreaksJoin, BreaksTyped DEF longer
  <2>3. Breaks(last) = 0
    BY <1>1 DEF last
  <2>4. 1 \in 1..Len(one) /\ Len(longer) = Len(last) + 1
    BY <1>3, <2>1
  <2>5. longer[Len(longer)] = u
    BY <1>3, <2>1, <2>4
  <2>6. longer # <<>>
    BY <2>1, <2>4, BreaksNone
  <2> QED
    BY <2>1, <2>2, <2>3, <2>4, <2>5, <2>6
<1> HIDE DEF longer
<1>6. more = [l EXCEPT ![n] = longer]
  BY <1>4
<1>7. /\ more \in Seq(Text) /\ Len(more) = n
      /\ \A j \in 1..n : more[j] = IF j = n THEN longer ELSE l[j]
  <2> DEFINE x == [l EXCEPT ![n] = longer]
  <2>1. n \in 1..Len(l) /\ Len(l) = n
    BY <1>1
  <2> HIDE DEF n
  <2>2. /\ x \in Seq(Text) /\ Len(x) = Len(l)
        /\ \A j \in 1..Len(l) : x[j] = IF j = n THEN longer ELSE l[j]
    BY <1>1, <1>5, <2>1, ExceptSeq
  <2>3. more = x
    BY <1>6
  <2> HIDE DEF x, more
  <2> QED
    BY <2>1, <2>2, <2>3
<1> HIDE DEF more
<1>8. Flat(more) = Flat(l) \o one
  <2>1. FlatTo(l)[k] = FlatTo(more)[k]
    <3>1. \A i \in 1..k : l[i] = more[i]
      <4>1. \A i \in 1..k : i \in 1..n /\ i # n
        BY <1>1
      <4> QED
        BY <1>7, <4>1
    <3>2. Len(l) = n /\ l \in Seq(Text)
      BY <1>1
    <3> HIDE DEF n, k
    <3> QED
      BY <1>2, <1>7, <3>1, <3>2, FlatSame
  <2>2. FlatTo(l)[n] = FlatTo(l)[k] \o last
    BY <1>1, <1>2, FlatToFollows
  <2>3. FlatTo(more)[n] = FlatTo(more)[k] \o longer
    <3>1. Len(more) \in Nat /\ n \in 1..Len(more) /\ more[n] = longer
      BY <1>1, <1>7
    <3> HIDE DEF n, k
    <3> QED
      BY <1>2, <3>1, FlatToFollows
  <2>4. FlatTo(l)[k] \in Text
    <3>1. k \in 0..Len(l)
      BY <1>1
    <3> HIDE DEF k
    <3> QED
      BY <1>1, <3>1, FlatTyped
  <2>5. (FlatTo(l)[k] \o last) \o one = FlatTo(l)[k] \o longer
    <3> DEFINE a == FlatTo(l)[k]
    <3>1. a \in Text
      BY <2>4
    <3> HIDE DEF a, last
    <3>2. (a \o last) \o one = a \o (last \o one)
      BY <1>2, <1>3, <3>1, JoinAgain
    <3> QED
      BY <3>2 DEF longer, a
  <2> QED
    BY <1>7, <2>1, <2>2, <2>3, <2>5 DEF Flat
<1>9. AddUnit(l, u) = IF IsBreak(u) THEN all ELSE more
  BY DEF AddUnit, more
<1>10. ASSUME NEW i \in 1..k PROVE Ended(more[i])
  <2>1. i \in 1..n /\ i # n
    BY <1>1, <1>10
  <2> QED
    BY <1>1, <1>7, <1>10, <2>1
<1>11. CASE ~IsBreak(u)
  <2>1. Breaks(more[n]) = 0 /\ more # <<>>
    BY <1>1, <1>3, <1>5, <1>7, <1>11, BreaksNone
  <2>2. AreLines(more)
    BY <1>7, <1>10, <2>1 DEF AreLines
  <2> QED
    BY <1>8, <1>9, <1>11, <2>2 DEF one
<1>12. CASE IsBreak(u)
  <2>1. none \in Text /\ Breaks(none) = 0
    BY BreaksNone
  <2>2. /\ all \in Seq(Text) /\ all # <<>> /\ Len(all) = n + 1 /\ all[n + 1] = none
        /\ \A i \in 1..n : all[i] = more[i]
    <3> HIDE DEF none
    <3> QED
      BY <1>7, <2>1, AppendProperties
  <2>3. Flat(all) = Flat(more)
    <3>1. Flat(all) = Flat(more) \o none
      <4> HIDE DEF none
      <4> QED
        BY <1>7, <2>1, FlatAppend
    <3>2. Flat(more) \in Seq(Unit)
      BY <1>7, FlatTyped DEF Text
    <3> QED
      BY <3>1, <3>2
  <2>4. Ended(more[n])
    <3>1. Breaks(longer) = 1
      BY <1>3, <1>5, <1>12
    <3>2. Ended(longer)
      BY <1>5, <1>12, <3>1 DEF Ended
    <3> QED
      BY <1>1, <1>7, <3>2
  <2>5. ASSUME NEW i \in 1..(Len(all) - 1) PROVE Ended(all[i])
    <3>1. i \in 1..n /\ (i = n \/ i \in 1..k)
      BY <1>1, <2>2
    <3> QED
      BY <1>10, <2>2, <2>4, <3>1
  <2>6. AreLines(all)
    BY <2>1, <2>2, <2>5 DEF AreLines
  <2> QED
    BY <1>8, <1>9, <1>12, <2>3, <2>6 DEF one
<1> QED
  BY <1>11, <1>12

\* and a text more.
LEMMA AddLinesFacts ==
  ASSUME NEW l, AreLines(l), NEW t \in Text
  PROVE  AreLines(AddLines(l, t)) /\ Flat(AddLines(l, t)) = Flat(l) \o t
<1> DEFINE at == LinesTo(l, t)
           P == {i \in 0..Len(t) : AreLines(at[i]) /\ Flat(at[i]) = Flat(l) \o SubSeq(t, 1, i)}
<1>0. Len(t) \in Nat /\ t \in Seq(Unit)
  BY DEF Text
<1>1. at[0] = l /\ \A i \in 1..Len(t) : at[i] = AddUnit(at[i - 1], t[i])
  BY <1>0, LinesToFollows
<1>2. AddLines(l, t) = at[Len(t)]
  BY DEF AddLines
<1> HIDE DEF at
<1>3. Flat(l) \in Text
  BY FlatTyped DEF AreLines
<1>4. 0 \in P
  <2>1. SubSeq(t, 1, 0) = <<>> /\ 0 \in 0..Len(t)
    BY <1>0
  <2>2. Flat(l) \o <<>> = Flat(l)
    BY <1>3 DEF Text
  <2> QED
    BY <1>1, <2>1, <2>2
<1>5. ASSUME NEW i \in 1..Len(t), i - 1 \in P PROVE i \in P
  <2> DEFINE k == i - 1
             a == SubSeq(t, 1, k)
             u == t[i]
             b == at[k]
  <2>1. k \in 0..Len(t) /\ i \in 0..Len(t) /\ u \in Unit /\ AreLines(b) /\ Flat(b) = Flat(l) \o a
    BY <1>0, <1>5
  <2>2. at[i] = AddUnit(b, u)
    BY <1>1
  <2>3. a \in Text
    <3> HIDE DEF k
    <3> QED
      BY <2>1, TextFirst
  <2>4. SubSeq(t, 1, i) = a \o <<u>>
    <3>1. 1 \in 1..Len(t) /\ i \in 1..Len(t)
      BY <1>0
    <3> QED
      BY <1>0, <3>1, SubSeqRecursiveSecond
  <2>5. AreLines(at[i]) /\ Flat(at[i]) = (Flat(l) \o a) \o <<u>>
    <3> HIDE DEF a, b, u
    <3> QED
      BY <2>1, <2>2, AddUnitFacts
  <2>6. (Flat(l) \o a) \o <<u>> = Flat(l) \o (a \o <<u>>)
    <3> DEFINE o == <<u>>
               f == Flat(l)
    <3>1. o \in Text /\ f \in Text
      BY <1>3, <2>1, BreaksOne
    <3>2. \A x, y, z \in Text : (x \o y) \o z = x \o (y \o z)
      BY JoinAgain
    <3> HIDE DEF a, o, u, f
    <3>3. (f \o a) \o o = f \o (a \o o)
      BY <2>3, <3>1, <3>2, Zenon
    <3> QED
      BY <3>3 DEF o, f
  <2> QED
    BY <2>1, <2>4, <2>5, <2>6
<1> HIDE DEF P
<1>6. \A i \in 0..Len(t) : i \in P
  BY <1>0, <1>4, <1>5, UpTo
<1>7. Len(t) \in 0..Len(t) /\ SubSeq(t, 1, Len(t)) = t
  BY <1>0, SubSeqFull
<1> QED
  BY <1>2, <1>6, <1>7 DEF P

\* Each line but the last one has one break.
LEMMA BreaksOfLines ==
  ASSUME NEW l, AreLines(l)
  PROVE  Breaks(Flat(l)) = Len(l) - 1
<1> DEFINE n == Len(l) - 1
           P == {i \in 0..n : Breaks(FlatTo(l)[i]) = i}
<1>1. /\ l \in Seq(Text) /\ Len(l) \in Nat /\ Len(l) # 0 /\ Breaks(l[Len(l)]) = 0
      /\ \A i \in 1..n : Ended(l[i])
  BY DEF AreLines
<1>2. n \in Nat /\ n + 1 = Len(l) /\ Len(l) \in 1..Len(l) /\ n \in 0..n
  BY <1>1
<1>3. /\ FlatTo(l)[0] = <<>>
      /\ \A i \in 1..Len(l) : FlatTo(l)[i] = FlatTo(l)[i - 1] \o l[i]
  BY <1>1, FlatToFollows
<1>4. \A i \in 1..Len(l) : /\ FlatTo(l)[i - 1] \in Text /\ l[i] \in Text
                           /\ Breaks(FlatTo(l)[i]) = Breaks(FlatTo(l)[i - 1]) + Breaks(l[i])
  <2> SUFFICES ASSUME NEW i \in 1..Len(l)
               PROVE  /\ FlatTo(l)[i - 1] \in Text /\ l[i] \in Text
                      /\ Breaks(FlatTo(l)[i]) = Breaks(FlatTo(l)[i - 1]) + Breaks(l[i])
    OBVIOUS
  <2>1. i - 1 \in 0..Len(l)
    BY <1>1
  <2>2. FlatTo(l)[i - 1] \in Text /\ l[i] \in Text
    BY <1>1, <2>1, FlatTyped
  <2>3. Breaks(FlatTo(l)[i - 1] \o l[i]) = Breaks(FlatTo(l)[i - 1]) + Breaks(l[i])
    BY <2>2, BreaksJoin
  <2> QED
    BY <1>3, <2>2, <2>3
<1> HIDE DEF n
<1>5. 0 \in P
  BY <1>2, <1>3, BreaksNone
<1>6. ASSUME NEW i \in 1..n, i - 1 \in P PROVE i \in P
  <2>1. i \in 1..Len(l) /\ i \in 0..n /\ Breaks(l[i]) = 1 /\ Breaks(FlatTo(l)[i - 1]) = i - 1
    BY <1>1, <1>2, <1>6 DEF Ended
  <2>2. Breaks(FlatTo(l)[i]) = (i - 1) + 1
    BY <1>4, <2>1
  <2> QED
    BY <2>1, <2>2
<1> HIDE DEF P
<1>7. \A i \in 0..n : i \in P
  BY <1>2, <1>5, <1>6, UpTo
<1>8. Breaks(FlatTo(l)[n]) = n /\ Len(l) - 1 = n
  BY <1>2, <1>7 DEF P
<1>9. Breaks(FlatTo(l)[Len(l)]) = n + 0
  BY <1>1, <1>2, <1>4, <1>8
<1> QED
  BY <1>2, <1>8, <1>9 DEF Flat

\* No line ends within a pair.
LEMMA LinesEndWell ==
  ASSUME NEW l, AreLines(l), EndsWell(Flat(l))
  PROVE  \A i \in 1..Len(l) : EndsWell(l[i])
<1>1. /\ l \in Seq(Text) /\ Len(l) \in Nat /\ Len(l) # 0
      /\ \A i \in 1..(Len(l) - 1) : Ended(l[i])
  BY DEF AreLines
<1>2. ASSUME NEW i \in 1..(Len(l) - 1) PROVE EndsWell(l[i])
  <2>1. IsBreak(l[i][Len(l[i])])
    BY <1>1, <1>2 DEF Ended
  <2> QED
    BY <2>1 DEF EndsWell, IsBreak
<1>3. EndsWell(l[Len(l)])
  <2> DEFINE n == Len(l)
             a == FlatTo(l)[n - 1]
             b == l[n]
             x == a \o b
  <2>1. n \in 1..Len(l) /\ n - 1 \in 0..Len(l)
    BY <1>1
  <2>2. a \in Text /\ b \in Text /\ Flat(l) = x
    <3>1. Len(l) \in Nat
      BY <1>1
    <3>2. FlatTo(l)[n] = x
      BY <2>1, <3>1, FlatToFollows
    <3> QED
      BY <1>1, <2>1, <3>2, FlatTyped DEF Flat
  <2> HIDE DEF a, b
  <2>3. Len(x) = Len(a) + Len(b) /\ Len(a) \in Nat /\ Len(b) \in Nat
        /\ \A i \in 1..Len(b) : x[Len(a) + i] = b[i]
    BY <2>2, JoinText
  <2> HIDE DEF x
  <2>4. ASSUME b # <<>> PROVE b[Len(b)].kind # "high"
    <3>1. Len(b) # 0 /\ Len(b) \in 1..Len(b)
      BY <2>2, <2>3, <2>4 DEF Text
    <3>2. x[Len(x)] = b[Len(b)] /\ x # <<>>
      BY <2>3, <3>1, BreaksNone
    <3> QED
      BY <2>2, <3>2 DEF EndsWell
  <2> QED
    BY <2>4 DEF EndsWell, b
<1>4. \A i \in 1..Len(l) : i = Len(l) \/ i \in 1..(Len(l) - 1)
  BY <1>1
<1> QED
  BY <1>2, <1>3, <1>4


-----------------------------------------------------------------------------
(* The lines kept of a thought. *)

\* What is kept: lines whose text is y, and their length.
Keeps(t, y) ==
  /\ AreLines(t.lines) /\ Flat(t.lines) = y /\ t.length = Len(y)

\* A text that ends with a newline has a break in each of its ends.
LEMMA EndedBreaks ==
  ASSUME NEW a \in Text, a # <<>>, IsBreak(a[Len(a)]), NEW j \in 1..Len(a)
  PROVE  From(a, j) \in Text /\ Breaks(From(a, j)) \in Nat /\ 1 <= Breaks(From(a, j))
<1> DEFINE g == Len(a)
           e == From(a, g)
           u == a[g]
<1>1. g \in Nat /\ g # 0 /\ u \in Unit
  BY DEF Text
<1>2. g \in 1..(Len(a) + 1) /\ j \in 1..(Len(a) + 1) /\ j <= g
  BY <1>1
<1>3. e \in Text /\ Len(e) = 1 /\ e[1] = u
  <2>1. Len(a) - g + 1 = 1 /\ (g + 1) - 1 = g /\ (Len(a) - g) + 1 = 1
    BY <1>1
  <2> HIDE DEF g
  <2>2. e \in Text /\ Len(e) = (Len(a) - g) + 1
        /\ \A i \in 1..((Len(a) - g) + 1) : e[i] = a[(g + i) - 1]
    BY <1>2, FromFacts
  <2> HIDE DEF e
  <2> QED
    BY <2>1, <2>2
<1> HIDE DEF g, e
<1>4. e = <<u>>
  <2>1. <<u>> \in Text /\ Len(<<u>>) = 1
    BY <1>1, BreaksOne
  <2> QED
    BY <1>3, <2>1, SameText
<1>5. Breaks(e) = 1
  BY <1>1, <1>4, BreaksOne DEF u, g
<1>6. Breaks(e) <= Breaks(From(a, j)) /\ Breaks(From(a, j)) \in Nat
  BY <1>2, LongerBreaks DEF e
<1> QED
  BY <1>2, <1>5, <1>6, FromFacts

\* The last lines are the longest end with as many breaks as there may be.
LEMMA LastLinesFacts ==
  ASSUME TailsAssumption, NEW t, NEW y \in Text, Keeps(t, y), Whole(y),
         NEW c \in Nat, Len(y) <= c
  PROVE  /\ Keeps(LastLines(t), LongestEnd(y, c, MaxLiveLines - 1))
         /\ Len(LastLines(t).lines) <= MaxLiveLines
<1> DEFINE l == t.lines
           k == Len(l) - MaxLiveLines
           m == MaxLiveLines - 1
<1>1. /\ AreLines(l) /\ Flat(l) = y /\ t.length = Len(y)
      /\ l \in Seq(Text) /\ Len(l) \in Nat /\ Len(l) # 0 /\ Breaks(l[Len(l)]) = 0
      /\ \A i \in 1..(Len(l) - 1) : Ended(l[i])
  BY DEF Keeps, AreLines
<1>2. Breaks(y) = Len(l) - 1
  BY <1>1, BreaksOfLines
<1> HIDE DEF l
<1>3. MaxLiveLines \in Nat /\ MaxLiveLines # 0 /\ m \in Nat /\ m + 1 = MaxLiveLines /\ k \in Int
  BY <1>1 DEF TailsAssumption
<1>4. CASE k <= 0
  <2>1. LastLines(t) = t
    BY <1>4 DEF LastLines, l
  <2>2. Breaks(y) <= m /\ Len(l) <= MaxLiveLines
    BY <1>1, <1>2, <1>3, <1>4
  <2>3. y # <<>> => y[1].kind # "low"
    BY WholeBegins
  <2>4. LongestEnd(y, c, m) = y
    <3> HIDE DEF m
    <3> QED
      BY <1>3, <2>2, <2>3, LongestEndAll
  <2> QED
    BY <2>1, <2>2, <2>4 DEF l
<1>5. CASE ~(k <= 0)
  <2> DEFINE h == k - 1
             a == Flat(SubSeq(l, 1, k))
             rest == SubSeq(l, k + 1, Len(l))
             b == Flat(rest)
             f == Len(a) + 1
  <2>1. k \in 1..(Len(l) - 1) /\ k \in 0..Len(l) /\ k \in 1..Len(l) /\ h \in Nat /\ h < Len(l) /\ h + 1 = k
        /\ Len(l) - k = MaxLiveLines
    BY <1>1, <1>3, <1>5
  <2>2. LastLines(t) = [lines |-> rest, length |-> t.length - Len(a)]
    <3>1. LastLines(t) = [lines |-> SubSeq(l, k + 1, Len(l)),
                          length |-> t.length - Total(SubSeq(l, 1, k))]
      BY <1>5 DEF LastLines, l
    <3>2. Total(SubSeq(l, 1, k)) = Len(a)
      BY Zenon DEF Total
    <3> QED
      BY <3>1, <3>2
  <2> HIDE DEF k
  <2>3. /\ SubSeq(l, 1, k) \in Seq(Text) /\ rest \in Seq(Text) /\ Len(rest) = MaxLiveLines
        /\ \A i \in 1..(Len(l) - k) : rest[i] = l[k + i]
        /\ y = a \o b
    <3>1. /\ SubSeq(l, 1, k) \in Seq(Text)
          /\ SubSeq(l, k + 1, Len(l)) \in Seq(Text)
          /\ Len(SubSeq(l, k + 1, Len(l))) = Len(l) - k
          /\ \A i \in 1..(Len(l) - k) : SubSeq(l, k + 1, Len(l))[i] = l[k + i]
          /\ Flat(l) = Flat(SubSeq(l, 1, k)) \o Flat(SubSeq(l, k + 1, Len(l)))
      <4>1. l \in Seq(Text) /\ k \in 0..Len(l)
        BY <1>1, <2>1
      <4> QED
        BY <4>1, PartsFacts
    <3>2. Flat(l) = y /\ Len(l) - k = MaxLiveLines
      BY <1>1, <2>1
    <3> QED
      BY <3>1, <3>2, Zenon
  <2>4. AreLines(rest)
    <3> HIDE DEF rest
    <3>1. MaxLiveLines \in 1..(Len(l) - k) /\ k + MaxLiveLines = Len(l)
      BY <1>1, <1>3, <2>1
    <3>2. rest # <<>> /\ Breaks(rest[Len(rest)]) = 0
      BY <1>1, <1>3, <2>3, <3>1
    <3>3. ASSUME NEW i \in 1..(Len(rest) - 1) PROVE Ended(rest[i])
      <4>1. i \in 1..(Len(l) - k) /\ k + i \in 1..(Len(l) - 1)
        BY <1>1, <1>3, <2>1, <2>3
      <4> QED
        BY <1>1, <2>3, <4>1
    <3> QED
      BY <2>3, <3>2, <3>3 DEF AreLines
  <2>5. Breaks(b) = m
    <3>1. Breaks(b) = Len(rest) - 1
      <4> HIDE DEF rest
      <4> QED
        BY <2>4, BreaksOfLines
    <3> HIDE DEF rest, b
    <3> QED
      BY <2>3, <3>1
  <2>6. a \in Text /\ b \in Text
    BY <2>3, FlatTyped
  <2>7. a # <<>> /\ IsBreak(a[Len(a)])
    <3> DEFINE z == Flat(SubSeq(l, 1, h))
               last == l[k]
               zl == z \o last
    <3>1. a = zl
      <4>1. Flat(SubSeq(l, 1, h + 1)) = Flat(SubSeq(l, 1, h)) \o l[h + 1]
        <5> HIDE DEF h
        <5> QED
          BY <1>1, <2>1, NextPart
      <4> HIDE DEF h
      <4> QED
        BY <2>1, <4>1
    <3>2. last \in Text /\ Ended(last) /\ z \in Text
      <4>1. h \in 0..Len(l)
        BY <1>1, <2>1
      <4> HIDE DEF h
      <4>2. SubSeq(l, 1, h) \in Seq(Text)
        BY <1>1, <4>1, PartsFacts
      <4>3. Flat(SubSeq(l, 1, h)) \in Text
        BY <4>2, FlatTyped
      <4>4. l[k] \in Text /\ Ended(l[k])
        BY <1>1, <2>1
      <4> QED
        BY <4>3, <4>4
    <3> HIDE DEF a, z, last
    <3>3. Len(zl) = Len(z) + Len(last) /\ Len(z) \in Nat /\ Len(last) \in Nat
          /\ \A i \in 1..Len(last) : zl[Len(z) + i] = last[i]
      BY <3>2, JoinText
    <3> HIDE DEF zl
    <3>4. Len(last) # 0 /\ Len(last) \in 1..Len(last) /\ IsBreak(last[Len(last)])
      BY <3>2, <3>3 DEF Ended, Text
    <3>5. zl[Len(zl)] = last[Len(last)] /\ zl # <<>>
      BY <3>3, <3>4, BreaksNone
    <3> QED
      BY <3>1, <3>4, <3>5
  <2> HIDE DEF a, b, rest
  <2>8. /\ Len(y) = Len(a) + Len(b) /\ Len(a) \in Nat /\ Len(b) \in Nat /\ Len(a) # 0
        /\ \A i \in 1..Len(a) : y[i] = a[i]
    <3>1. Len(a) # 0
      BY <2>6, <2>7 DEF Text
    <3> QED
      BY <2>3, <2>6, <3>1, JoinText
  <2>9. From(y, f) = b /\ f \in 1..(Len(y) + 1)
    <3> DEFINE one == 1
    <3>1. one \in 1..(Len(b) + 1) /\ From(b, one) = b
      BY <2>6, <2>8, FromAll
    <3> HIDE DEF one
    <3>2. From(a \o b, Len(a) + one) = From(b, one)
      BY <2>6, <3>1, FromLater
    <3>3. Len(a) + one = f
      BY DEF one
    <3> QED
      BY <2>3, <2>8, <3>1, <3>2, <3>3
  <2>10. GoodEnd(y, f, c, m)
    <3>1. Len(b) <= c /\ Breaks(b) <= m
      BY <1>3, <2>5, <2>8
    <3>2. ASSUME f <= Len(y) PROVE y[f].kind # "low"
      <4>1. f \in 1..Len(y) /\ f - 1 = Len(a) /\ Len(a) \in 1..Len(a)
        BY <2>8, <3>2
      <4>2. y[f].kind = "low" <=> f > 1 /\ y[f - 1].kind = "high"
        <5> HIDE DEF f
        <5> QED
          BY <4>1 DEF Whole
      <4>3. y[f - 1].kind = "newline"
        BY <2>7, <2>8, <4>1 DEF IsBreak
      <4> QED
        BY <4>2, <4>3
    <3> HIDE DEF f, m
    <3> QED
      BY <2>9, <3>1, <3>2 DEF GoodEnd
  <2>11. ASSUME NEW j \in 1..(Len(y) + 1), GoodEnd(y, j, c, m), ~(f <= j) PROVE FALSE
    <3>1. j \in 1..Len(a) /\ j \in 1..(Len(a) + 1)
      BY <2>8, <2>11
    <3> DEFINE e == From(a, j)
    <3>2. e \in Text /\ Breaks(e) \in Nat /\ 1 <= Breaks(e)
      BY <2>6, <2>7, <3>1, EndedBreaks
    <3>3. From(y, j) = e \o b
      BY <2>3, <2>6, <3>1, FromJoin
    <3> HIDE DEF e
    <3>4. Breaks(e \o b) = Breaks(e) + Breaks(b)
      BY <2>6, <3>2, BreaksJoin
    <3>5. Breaks(e \o b) <= m
      BY <2>11, <3>3 DEF GoodEnd
    <3> HIDE DEF m
    <3> QED
      BY <1>3, <2>5, <3>2, <3>4, <3>5
  <2>12. LongestEnd(y, c, m) = b
    <3>1. FirstGood(y, f, c, m)
      BY <2>9, <2>10, <2>11 DEF FirstGood
    <3> HIDE DEF f, m
    <3>2. LongestEnd(y, c, m) = From(y, f)
      BY <3>1, LongestEndAt
    <3> QED
      BY <2>9, <3>2
  <2>13. t.length - Len(a) = Len(b)
    BY <1>1, <2>8
  <2>14. Keeps(LastLines(t), b) /\ Len(LastLines(t).lines) <= MaxLiveLines
    <3>1. LastLines(t).lines = rest /\ LastLines(t).length = Len(b)
      BY <2>2, <2>13
    <3>2. Len(rest) <= MaxLiveLines /\ Flat(rest) = b
      BY <1>3, <2>3 DEF b
    <3> QED
      BY <2>4, <3>1, <3>2 DEF Keeps
  <2> QED
    BY <2>12, <2>14
<1> QED
  BY <1>3, <1>4, <1>5

\* Whole lines and the start of the next one make the longest end in units.
LEMMA TrimCharactersFacts ==
  ASSUME TailsAssumption, NEW t, NEW y \in Text, Keeps(t, y), Whole(y),
         Len(t.lines) <= MaxLiveLines
  PROVE  Keeps(TrimCharacters(t), LongestEnd(y, MaxLiveCharacters, MaxLiveLines - 1))
<1> DEFINE l == t.lines
           m == MaxLiveLines - 1
           c == MaxLiveCharacters
           e == t.length - c
           n == MostWithin(l, e)
           gone == Total(SubSeq(l, 1, n))
           first == l[n + 1]
           s == SafeStart(first, e - gone)
           x == From(first, s + 1)
           rest == SubSeq(l, n + 2, Len(l))
           result == <<x>> \o rest
<1>1. /\ AreLines(l) /\ Flat(l) = y /\ t.length = Len(y)
      /\ l \in Seq(Text) /\ Len(l) \in Nat /\ Len(l) # 0 /\ Breaks(l[Len(l)]) = 0
      /\ \A i \in 1..(Len(l) - 1) : Ended(l[i])
  BY DEF Keeps, AreLines
<1>2. Breaks(y) = Len(l) - 1 /\ Len(y) \in Nat
  BY <1>1, BreaksOfLines DEF Text
<1>3. Len(l) <= MaxLiveLines
  OBVIOUS
<1>4. m \in Nat /\ c \in Nat /\ c # 0 /\ Breaks(y) <= m
  BY <1>1, <1>2, <1>3 DEF TailsAssumption
<1>5. y # <<>> => y[1].kind # "low" /\ y[Len(y)].kind # "high"
  BY WholeBegins
<1>6. TrimCharacters(t) =
        IF e <= 0 THEN t
        ELSE IF n = Len(l) THEN [lines |-> <<<<>>>>, length |-> t.length - gone]
        ELSE [lines |-> <<SubSeq(first, s + 1, Len(first))>> \o rest,
              length |-> t.length - gone - s]
  BY DEF TrimCharacters
<1> HIDE DEF l
<1>7. CASE e <= 0
  <2>1. Len(y) <= c
    BY <1>1, <1>2, <1>4, <1>7
  <2>2. LongestEnd(y, c, m) = y
    <3> HIDE DEF c, m
    <3> QED
      BY <1>4, <1>5, <2>1, LongestEndAll
  <2> QED
    BY <1>6, <1>7, <2>2
<1>8. CASE ~(e <= 0)
  <2>1. e \in Nat /\ e < Len(y) /\ e \in 0..Len(y) /\ Len(y) - e = c /\ e # 0
    BY <1>1, <1>2, <1>4, <1>8
  <2>2. Total(l) = Len(y)
    BY <1>1 DEF Total
  <2>3. AllEndWell(l)
    BY <1>1, <1>5, LinesEndWell DEF EndsWell, AllEndWell
  <2>0. first = l[n + 1] /\ s = SafeStart(first, e - gone)
    OBVIOUS
  <2>01. Dropped(l, e, n, gone, first, s)
    BY DEF Dropped
  <2>00. e = t.length - c
    OBVIOUS
  <2> HIDE DEF e, n, gone, first, s
  <2>4. /\ n \in Nat /\ n < Len(l) /\ first \in Text /\ e - gone \in Nat /\ e - gone < Len(first)
        /\ gone \in Nat /\ s \in 0..Len(first)
        /\ gone + s = SafeStart(y, e)
        /\ x \o Flat(rest) = From(y, (gone + s) + 1)
        /\ gone + Len(first) <= Len(y)
        /\ \A i \in 1..Len(first) : y[gone + i] = first[i]
    <3>1. e < Total(l) /\ Flat(l) = y
      BY <1>1, <2>1, <2>2
    <3>2. /\ n \in Nat /\ n < Len(l) /\ first \in Text /\ e - gone \in Nat /\ e - gone < Len(first)
          /\ gone \in Nat /\ s \in 0..Len(first)
          /\ gone + s = SafeStart(Flat(l), e)
          /\ From(first, s + 1) \o Flat(SubSeq(l, n + 2, Len(l))) = From(Flat(l), (gone + s) + 1)
          /\ gone + Len(first) <= Len(Flat(l))
          /\ \A i \in 1..Len(first) : Flat(l)[gone + i] = first[i]
      <4>1. l \in Seq(Text) /\ e \in Nat /\ e < Total(l)
        BY <1>1, <2>1, <3>1
      <4>2. n \in Nat /\ n < Len(l) /\ first \in Text /\ e - gone \in Nat /\ e - gone < Len(first)
        BY <2>01, <2>3, <4>1, DropParts
      <4>3. gone \in Nat /\ s \in 0..Len(first) /\ gone + s = SafeStart(Flat(l), e)
            /\ gone + Len(first) <= Len(Flat(l))
        BY <2>01, <2>3, <4>1, DropParts
      <4>4. From(first, s + 1) \o Flat(SubSeq(l, n + 2, Len(l))) = From(Flat(l), (gone + s) + 1)
        <5>1. Left(l, n, gone, first, s)
          BY <2>01, <2>3, <4>1, DropParts
        <5> QED
          BY <5>1, Zenon DEF Left
      <4>5. \A i \in 1..Len(first) : Flat(l)[gone + i] = first[i]
        BY <2>01, <2>3, <4>1, DropParts
      <4> QED
        BY <4>2, <4>3, <4>4, <4>5, Zenon
    <3> QED
      BY <3>1, <3>2, Zenon
  <2>40. /\ n \in Nat /\ n < Len(l) /\ first \in Text /\ e - gone \in Nat /\ e - gone < Len(first)
         /\ gone \in Nat /\ s \in 0..Len(first) /\ gone + Len(first) <= Len(y)
    BY <2>4
  <2>5. TrimCharacters(t) = [lines |-> result, length |-> t.length - gone - s]
    <3>1. n # Len(l)
      BY <1>1, <2>40
    <3> QED
      BY <1>6, <1>8, <3>1 DEF From, e, n, gone, first, s
  <2>6. LongestEnd(y, c, m) = From(y, (gone + s) + 1)
    <3> HIDE DEF c, m
    <3>1. LongestEnd(y, c, m) = From(y, SafeStart(y, e) + 1)
      BY <1>4, <2>1, SafeEnd
    <3> QED
      BY <2>4, <3>1
  <2>7. Len(first) \in Nat /\ Len(first) # 0
    <3>1. Len(first) \in Nat
      BY <2>40 DEF Text
    <3> QED
      BY <2>40, <3>1
  <2>8. s < Len(first) \/ n + 1 = Len(l)
    <3> SUFFICES ASSUME ~(s < Len(first)), n + 1 # Len(l) PROVE FALSE
      OBVIOUS
    <3> DEFINE k == e - gone
    <3>1. s = Len(first)
      BY <2>40, <2>7
    <3>2. k \in 0..Len(first) /\ k # Len(first)
      BY <2>40, <2>7
    <3>3. /\ s = k + 1 <=> k \in 1..(Len(first) - 1) /\ first[k].kind = "high"
          /\ s # k + 1 => s = k
      <4> HIDE DEF k
      <4>1. /\ SafeStart(first, k) = k + 1 <=> k \in 1..(Len(first) - 1) /\ first[k].kind = "high"
            /\ SafeStart(first, k) # k + 1 => SafeStart(first, k) = k
        BY <2>40, <3>2, SafeStartFacts
      <4>2. s = SafeStart(first, k)
        BY <2>0 DEF k
      <4> QED
        BY <4>1, <4>2
    <3>4. s = k + 1 /\ k \in 1..(Len(first) - 1) /\ first[k].kind = "high"
      BY <3>1, <3>2, <3>3
    <3>5. /\ k \in 1..Len(first) /\ k + 1 \in 1..Len(first) /\ k + 1 = Len(first)
      BY <2>7, <3>1, <3>4
    <3>6. y[gone + k] = first[k] /\ y[gone + (k + 1)] = first[Len(first)]
      BY <2>4, <3>5
    <3>7. /\ gone + (k + 1) \in 1..Len(y) /\ (gone + (k + 1)) - 1 = gone + k /\ gone + (k + 1) > 1
      <4>1. k \in Nat /\ 1 <= k /\ gone + (k + 1) <= Len(y)
        BY <2>40, <2>7, <3>5
      <4> HIDE DEF k
      <4> QED
        BY <1>2, <2>40, <4>1
    <3>8. y[gone + (k + 1)].kind = "low"
      <4> DEFINE i == gone + (k + 1)
      <4>1. y[i].kind = "low" <=> i > 1 /\ y[i - 1].kind = "high"
        <5> HIDE DEF i
        <5>1. i \in 1..Len(y)
          BY <3>7 DEF i
        <5> QED
          BY <5>1 DEF Whole
      <4> QED
        BY <3>4, <3>6, <3>7, <4>1
    <3>9. Ended(first)
      <4>1. n + 1 \in 1..(Len(l) - 1)
        BY <1>1, <2>40
      <4> QED
        BY <1>1, <2>0, <4>1
    <3> QED
      BY <3>6, <3>8, <3>9 DEF Ended, IsBreak
  <2>9. x \in Text /\ Len(x) = Len(first) - s
        /\ (Len(x) # 0 => x[Len(x)] = first[Len(first)])
    <3> DEFINE f == s + 1
    <3>1. f \in 1..(Len(first) + 1)
      BY <2>40, <2>7
    <3> HIDE DEF f
    <3>2. From(first, f) \in Text /\ Len(From(first, f)) = (Len(first) - f) + 1
          /\ \A i \in 1..((Len(first) - f) + 1) : From(first, f)[i] = first[(f + i) - 1]
      BY <2>40, <3>1, FromFacts
    <3> DEFINE g == (Len(first) - f) + 1
    <3>3. g = Len(first) - s /\ g \in Nat /\ (f + g) - 1 = Len(first) /\ (g # 0 => g \in 1..g)
      BY <2>40, <2>7, <3>1 DEF f
    <3>4. g # 0 => From(first, f)[g] = first[(f + g) - 1]
      BY <3>2, <3>3
    <3> QED
      BY <3>2, <3>3, <3>4 DEF f
  <2>10. Breaks(x) \in Nat /\ Breaks(first) \in Nat /\ Breaks(x) <= Breaks(first)
    <3> DEFINE one == 1
               f == s + 1
    <3>1. one \in 1..(Len(first) + 1) /\ f \in 1..(Len(first) + 1) /\ one <= f /\ From(first, one) = first
      BY <2>40, <2>7, FromAll
    <3> HIDE DEF one, f
    <3>2. Breaks(From(first, one)) \in Nat /\ Breaks(From(first, f)) \in Nat
          /\ Breaks(From(first, f)) <= Breaks(From(first, one))
      BY <2>40, <3>1, LongerBreaks
    <3> QED
      BY <3>1, <3>2 DEF f
  <2> DEFINE h == n + 1
  <2>11. /\ rest \in Seq(Text) /\ Len(rest) = Len(l) - h
         /\ (\A i \in 1..(Len(l) - h) : rest[i] = l[h + i]) /\ h \in 1..Len(l)
    <3>1. h \in 0..Len(l) /\ h + 1 = n + 2 /\ h \in 1..Len(l)
      BY <1>1, <2>40
    <3>2. /\ SubSeq(l, h + 1, Len(l)) \in Seq(Text)
          /\ Len(SubSeq(l, h + 1, Len(l))) = Len(l) - h
          /\ \A i \in 1..(Len(l) - h) : SubSeq(l, h + 1, Len(l))[i] = l[h + i]
      <4> HIDE DEF h
      <4>1. l \in Seq(Text)
        BY <1>1
      <4> QED
        BY <3>1, <4>1, PartsFacts
    <3>3. rest = SubSeq(l, h + 1, Len(l))
      BY <3>1
    <3> HIDE DEF h, rest
    <3> QED
      BY <3>1, <3>2, <3>3, Zenon
  <2>12a. /\ Len(l) \in Nat /\ h \in 1..Len(l) /\ first = l[h]
          /\ s < Len(first) \/ h = Len(l)
    BY <1>1, <2>0, <2>8, <2>11
  <2> HIDE DEF x, rest, h
  <2> DEFINE o == <<x>>
  <2>12. o \in Seq(Text) /\ Len(o) = 1 /\ o[1] = x /\ Flat(o) = x
    <3>1. Flat(<<x>>) = x
      BY <2>9, FlatOne
    <3> QED
      BY <2>9, <3>1
  <2>13. /\ result \in Seq(Text) /\ Len(result) = 1 + Len(rest)
         /\ \A i \in 1..(1 + Len(rest)) : result[i] = IF i <= 1 THEN x ELSE rest[i - 1]
         /\ Flat(result) = x \o Flat(rest)
    <3> HIDE DEF o
    <3>1. /\ o \o rest \in Seq(Text) /\ Len(o \o rest) = Len(o) + Len(rest)
          /\ \A i \in 1 .. Len(o) + Len(rest) : (o \o rest)[i] = IF i <= Len(o) THEN o[i] ELSE rest[i - Len(o)]
      BY <2>11, <2>12, ConcatProperties
    <3>2. Flat(o \o rest) = Flat(o) \o Flat(rest)
      BY <2>11, <2>12, FlatJoin
    <3>3. result = o \o rest
      BY DEF o
    <3> HIDE DEF result
    <3>4. ASSUME NEW i \in 1..(1 + Len(rest))
          PROVE  result[i] = IF i <= 1 THEN x ELSE rest[i - 1]
      <4>1. i \in 1 .. Len(o) + Len(rest) /\ (i <= 1 => i = 1)
        BY <2>12
      <4> QED
        BY <2>12, <3>1, <3>3, <4>1
    <3> QED
      BY <2>12, <3>1, <3>2, <3>3, <3>4
  <2> HIDE DEF result, o
  <2>14. AreLines(result)
    <3>1. Len(result) \in Nat /\ Len(result) = (Len(l) - h) + 1 /\ Len(result) # 0 /\ result # <<>>
      <4>1. Len(result) = (Len(l) - h) + 1 /\ Len(l) - h \in Nat
        BY <1>1, <2>11, <2>13
      <4> QED
        BY <2>13, <4>1
    <3>2. ASSUME NEW i \in 1..Len(result), i # 1 PROVE result[i] = l[h + (i - 1)] /\ h + (i - 1) \in 1..Len(l)
      <4>1. i \in 1..(1 + Len(rest)) /\ i - 1 \in 1..(Len(l) - h) /\ ~(i <= 1)
        BY <1>1, <2>11, <2>13, <3>1, <3>2
      <4>2. h + (i - 1) \in 1..Len(l)
        BY <1>1, <2>11, <4>1
      <4> QED
        BY <2>11, <2>13, <4>1, <4>2
    <3>3. result[1] = x
      <4>1. 1 \in 1..(1 + Len(rest))
        BY <1>1, <2>11
      <4> QED
        BY <2>13, <4>1
    <3>4. ASSUME NEW i \in 1..(Len(result) - 1) PROVE Ended(result[i])
      <4>1. CASE i = 1
        <5>1. h \in 1..(Len(l) - 1) /\ h # Len(l)
          BY <2>12a, <3>1, <3>4, <4>1
        <5>2. Ended(first)
          BY <1>1, <2>12a, <5>1
        <5>3. s < Len(first) /\ Len(x) # 0
          BY <2>40, <2>7, <2>12a, <2>9, <5>1
        <5>4. x # <<>> /\ IsBreak(x[Len(x)])
          BY <2>9, <5>2, <5>3, BreaksNone DEF Ended
        <5>5. Breaks(x) = 1
          <6> DEFINE one == 1
          <6>1. Len(x) \in Nat /\ one \in 1..Len(x) /\ From(x, one) = x
            BY <2>9, <5>3, FromAll DEF Text
          <6> HIDE DEF one
          <6>2. 1 <= Breaks(From(x, one))
            BY <2>9, <5>4, <6>1, EndedBreaks
          <6>3. Breaks(first) = 1
            BY <5>2 DEF Ended
          <6> QED
            BY <2>10, <6>1, <6>2, <6>3
        <5> QED
          BY <3>3, <4>1, <5>4, <5>5 DEF Ended
      <4>2. CASE i # 1
        <5>1. i \in 1..Len(result) /\ h + (i - 1) \in 1..(Len(l) - 1)
          BY <2>12a, <3>1, <3>4, <4>2
        <5> QED
          BY <1>1, <3>2, <4>2, <5>1
      <4> QED
        BY <4>1, <4>2
    <3>5. Breaks(result[Len(result)]) = 0
      <4>1. CASE Len(result) = 1
        <5>0. (Len(l) - h) + 1 = 1 /\ Len(l) \in Int /\ h \in Int
          <6>1. Len(result) = (Len(l) - h) + 1
            BY <3>1
          <6>2. Len(l) \in Int /\ h \in Int
            BY <2>12a
          <6> QED
            BY <4>1, <6>1, <6>2
        <5>1. h = Len(l)
          BY <5>0
        <5>2. Breaks(first) = 0
          BY <1>1, <2>12a, <5>1
        <5> QED
          BY <2>10, <3>3, <4>1, <5>2
      <4>2. CASE Len(result) # 1
        <5>1. Len(result) \in 1..Len(result) /\ h + (Len(result) - 1) = Len(l)
          BY <2>12a, <3>1
        <5> QED
          BY <1>1, <3>2, <4>2, <5>1
      <4> QED
        BY <4>1, <4>2
    <3> QED
      BY <2>13, <3>1, <3>4, <3>5 DEF AreLines
  <2>15. Flat(result) = LongestEnd(y, c, m)
    BY <2>4, <2>6, <2>13 DEF x, rest
  <2>16. t.length - gone - s = Len(LongestEnd(y, c, m))
    <3> DEFINE q == gone + s
               f == q + 1
    <3>1. SafeStart(y, e) \in 0..Len(y) /\ q = SafeStart(y, e)
      BY <2>1, <2>4, SafeStartFacts
    <3> HIDE DEF q
    <3>2. q \in 0..Len(y) /\ f \in 1..(Len(y) + 1)
      BY <1>2, <3>1
    <3>3. Len(From(y, f)) = (Len(y) - f) + 1
      <4> HIDE DEF f
      <4> QED
        BY <3>2, FromFacts
    <3>4. Len(From(y, f)) = Len(y) - q
      BY <1>2, <3>2, <3>3
    <3>5. t.length - gone - s = Len(y) - q
      BY <1>1, <1>2, <2>40 DEF q
    <3> QED
      BY <2>6, <3>4, <3>5 DEF q
  <2>17. TrimCharacters(t).lines = result /\ TrimCharacters(t).length = Len(LongestEnd(y, c, m))
    BY <2>5, <2>16
  <2> QED
    BY <2>14, <2>15, <2>17 DEF Keeps
<1> QED
  BY <1>7, <1>8, <1>1, <1>2, <1>4

\* What is kept of a thought that came as x.
TailOf(t, x) == Keeps(t, LongestEnd(x, MaxLiveCharacters, MaxLiveLines - 1))

\* A delta,
LEMMA AppendTailFacts ==
  ASSUME TailsAssumption, NEW t, NEW x \in Text, Whole(x), TailOf(t, x),
         NEW d \in Text, Whole(d)
  PROVE  TailOf(AppendTail(t, d), x \o d)
<1> DEFINE c == MaxLiveCharacters
           m == MaxLiveLines - 1
           a == LongestEnd(x, c, m)
           y == a \o d
           lines == AddLines(t.lines, d)
           new == [lines |-> lines, length |-> t.length + Len(d)]
           b == Len(y) + c
           kept == LongestEnd(y, b, m)
<1>1. c \in Nat /\ m \in Nat /\ MaxLiveLines \in Nat /\ m + 1 = MaxLiveLines
  BY DEF TailsAssumption
<1>2. /\ AreLines(t.lines) /\ Flat(t.lines) = a /\ t.length = Len(a)
  BY DEF TailOf, Keeps
<1>3. a \in Text /\ Whole(a)
  <2> HIDE DEF c, m
  <2> QED
    BY <1>1, LongestEndTyped, WholeLongestEnd
<1>4. LongestEnd(y, c, m) = LongestEnd(x \o d, c, m)
  <2> HIDE DEF c, m
  <2>1. c <= c /\ m <= m
    BY <1>1
  <2> QED
    BY <1>1, <2>1, LongestEndJoin
<1>5. AppendTail(t, d) = IF Len(lines) > MaxLiveLines \/ t.length + Len(d) > MaxLiveCharacters
                         THEN Trim(new) ELSE new
  BY DEF AppendTail
<1> HIDE DEF a
<1>6. /\ y \in Text /\ Len(y) = Len(a) + Len(d) /\ Len(a) \in Nat /\ Len(d) \in Nat /\ Whole(y)
  BY <1>3, JoinText, WholeJoin
<1>7. AreLines(lines) /\ Flat(lines) = y
  BY <1>2, AddLinesFacts
<1> HIDE DEF y
<1>8. Breaks(y) = Len(lines) - 1 /\ Len(lines) \in Nat
  BY <1>7, BreaksOfLines DEF AreLines
<1> HIDE DEF lines
<1>9. Keeps(new, y)
  BY <1>2, <1>6, <1>7 DEF Keeps
<1>10. CASE Len(lines) > MaxLiveLines \/ t.length + Len(d) > MaxLiveCharacters
  <2>1. AppendTail(t, d) = TrimCharacters(LastLines(new))
    BY <1>5, <1>10 DEF Trim
  <2>2. b \in Nat /\ Len(y) <= b /\ c <= b
    BY <1>1, <1>6
  <2> HIDE DEF new
  <2>3. Keeps(LastLines(new), kept) /\ Len(LastLines(new).lines) <= MaxLiveLines
    <3> HIDE DEF b, c
    <3> QED
      BY <1>6, <1>9, <2>2, LastLinesFacts
  <2> HIDE DEF b
  <2>4. kept \in Text /\ Whole(kept)
    <3> HIDE DEF m
    <3> QED
      BY <1>1, <1>6, <2>2, LongestEndTyped, WholeLongestEnd
  <2>5. Keeps(TrimCharacters(LastLines(new)), LongestEnd(kept, c, m))
    <3> HIDE DEF kept
    <3> QED
      BY <2>3, <2>4, TrimCharactersFacts
  <2>6. LongestEnd(kept, c, m) = LongestEnd(y, c, m)
    <3> HIDE DEF c, m
    <3>1. m <= m
      BY <1>1
    <3> QED
      BY <1>1, <1>6, <2>2, <3>1, LongestEndAgain
  <2> QED
    BY <1>4, <2>1, <2>5, <2>6 DEF TailOf
<1>11. CASE ~(Len(lines) > MaxLiveLines \/ t.length + Len(d) > MaxLiveCharacters)
  <2>1. Breaks(y) <= m /\ Len(y) <= c
    BY <1>1, <1>2, <1>6, <1>8, <1>11
  <2>2. y # <<>> => y[1].kind # "low"
    BY <1>6, WholeBegins
  <2>3. LongestEnd(y, c, m) = y
    <3> HIDE DEF c, m
    <3> QED
      BY <1>1, <1>6, <2>1, <2>2, LongestEndAll
  <2> QED
    BY <1>4, <1>5, <1>9, <1>11, <2>3 DEF TailOf
<1> QED
  BY <1>10, <1>11

\* and the text in one piece.
LEMMA ReplaceTailFacts ==
  ASSUME TailsAssumption, NEW x \in Text, Whole(x)
  PROVE  TailOf(ReplaceTail(x), x)
<1> DEFINE c == MaxLiveCharacters
           m == MaxLiveLines - 1
           m1 == Len(x) + MaxLiveLines
           suffix == SafeSuffix(x, c)
           none == <<>>
           empty == <<none>>
           t == [lines |-> AddLines(empty, suffix), length |-> Len(suffix)]
<1>1. c \in Nat /\ m \in Nat /\ m1 \in Nat /\ m <= m1 /\ Len(x) \in Nat /\ Len(x) <= m1
  BY DEF TailsAssumption, Text
<1>2. ReplaceTail(x) = LastLines(t)
  BY DEF ReplaceTail
<1>3. AreLines(empty) /\ Flat(empty) = none
  <2>1. none \in Text /\ Breaks(none) = 0
    BY BreaksNone
  <2>2. Flat(<<none>>) = none
    <3> HIDE DEF none
    <3> QED
      BY <2>1, FlatOne
  <2>3. empty \in Seq(Text) /\ Len(empty) = 1 /\ empty[1] = none /\ empty # <<>>
    BY <2>1
  <2> HIDE DEF empty, none
  <2>4. 1..(Len(empty) - 1) = {}
    BY <2>3
  <2> QED
    BY <2>1, <2>2, <2>3, <2>4 DEF AreLines, empty
<1>4. suffix = LongestEnd(x, c, m1)
  <2>1. Breaks(x) <= m1
    BY <1>1, BreaksTyped
  <2> HIDE DEF c, m1
  <2> QED
    BY <1>1, <2>1, SafeSuffixIs
<1>5. suffix \in Text /\ Whole(suffix) /\ Len(suffix) <= c
  <2> HIDE DEF c, m1, suffix
  <2> QED
    BY <1>1, <1>4, LongestEndTyped, WholeLongestEnd
<1>6. LongestEnd(suffix, c, m) = LongestEnd(x, c, m)
  <2>1. c <= c
    BY <1>1
  <2> HIDE DEF c, m, m1, suffix
  <2> QED
    BY <1>1, <1>4, <2>1, LongestEndAgain
<1> HIDE DEF suffix
<1>7. AreLines(AddLines(empty, suffix)) /\ Flat(AddLines(empty, suffix)) = suffix
  <2>1. Flat(AddLines(empty, suffix)) = none \o suffix /\ AreLines(AddLines(empty, suffix))
    <3> HIDE DEF empty
    <3> QED
      BY <1>3, <1>5, AddLinesFacts
  <2>2. none \o suffix = suffix
    BY <1>5 DEF Text
  <2> QED
    BY <2>1, <2>2
<1> HIDE DEF empty
<1>8. Keeps(t, suffix)
  BY <1>7 DEF Keeps
<1> HIDE DEF t
<1>9. Keeps(LastLines(t), LongestEnd(suffix, c, m))
  <2> HIDE DEF c
  <2> QED
    BY <1>1, <1>5, <1>8, LastLinesFacts
<1> QED
  BY <1>2, <1>6, <1>9 DEF TailOf


-----------------------------------------------------------------------------
(* The head and the tail kept of a tool's output. *)

ToolText == [full : Text, head : Text, chunks : Seq(Text), start : Nat,
             characters : Nat, total : Nat, truncated : BOOLEAN]

\* The chunks that are not consumed are those of y.
Rolls(t, y) ==
  /\ AllEndWell(t.chunks) /\ t.start <= Len(t.chunks)
  /\ t.characters = Len(y) /\ ToolTail(t) = y

\* One text with the head of another.
SameHead(r, t) ==
  r \in ToolText /\ r.head = t.head /\ r.truncated = t.truncated

\* The limits are numbers, and the head's is within that of all.
LEMMA LimitsTyped ==
  ASSUME TailsAssumption
  PROVE  /\ HeadLimit \in Nat /\ TailLimit \in Nat /\ HeadLimit <= MaxToolCharacters
         /\ MaxToolCharacters \in Nat /\ CompactAt \in Nat
<1>1. /\ MaxToolCharacters \in Nat /\ MaxToolCharacters # 0 /\ MarkerReserve \in Nat
      /\ CompactAt \in Nat
  BY DEF TailsAssumption
<1>2. MarkerLimit \in Nat /\ MarkerLimit + MarkerLimit <= MaxToolCharacters
  BY <1>1 DEF MarkerLimit, Cut
<1>3. ContentLimit \in Nat /\ ContentLimit <= MaxToolCharacters /\ ContentLimit # 0
  BY <1>1, <1>2 DEF ContentLimit
<1>4. HeadLimit \in Nat /\ TailLimit \in Nat /\ HeadLimit <= ContentLimit
  BY <1>3 DEF HeadLimit, TailLimit
<1> QED
  BY <1>1, <1>3, <1>4

\* Consumed chunks that go leave what is kept.
LEMMA CompactedFacts ==
  ASSUME NEW t \in ToolText, NEW y \in Text, Rolls(t, y)
  PROVE  SameHead(Compacted(t), t) /\ Rolls(Compacted(t), y)
<1> DEFINE u == SubSeq(t.chunks, t.start + 1, Len(t.chunks))
           z == 0
           r == [t EXCEPT !.chunks = u, !.start = z]
<1>1. /\ t.chunks \in Seq(Text) /\ t.start \in 0..Len(t.chunks) /\ AllEndWell(t.chunks)
      /\ t.characters = Len(y) /\ Flat(u) = y /\ Len(t.chunks) \in Nat
  BY DEF ToolText, Rolls, ToolTail, Unconsumed
<1>2. /\ u \in Seq(Text) /\ Len(u) = Len(t.chunks) - t.start
      /\ \A i \in 1..(Len(t.chunks) - t.start) : u[i] = t.chunks[t.start + i]
  <2> DEFINE p == t.chunks
             n == t.start
  <2>1. p \in Seq(Text) /\ n \in 0..Len(p)
    BY <1>1
  <2> HIDE DEF p, n
  <2>2. /\ SubSeq(p, n + 1, Len(p)) \in Seq(Text)
        /\ Len(SubSeq(p, n + 1, Len(p))) = Len(p) - n
        /\ \A i \in 1..(Len(p) - n) : SubSeq(p, n + 1, Len(p))[i] = p[n + i]
    BY <2>1, PartsFacts
  <2> QED
    BY <2>2 DEF p, n
<1>3. AllEndWell(u)
  <2>1. \A i \in 1..Len(u) : t.start + i \in 1..Len(t.chunks) /\ i \in 1..(Len(t.chunks) - t.start)
    <3> DEFINE a == t.start
               b == Len(t.chunks)
    <3>1. a \in 0..b /\ b \in Nat /\ Len(u) = b - a
      BY <1>1, <1>2
    <3> HIDE DEF a, b, u
    <3>2. \A i \in 1..Len(u) : a + i \in 1..b /\ i \in 1..(b - a)
      BY <3>1
    <3> QED
      BY <3>2 DEF a, b
  <2> HIDE DEF u
  <2> QED
    BY <1>1, <1>2, <2>1 DEF AllEndWell
<1>4. Compacted(t) = r \/ Compacted(t) = t
  BY DEF Compacted
<1>5. SameHead(t, t)
  BY DEF SameHead
<1> HIDE DEF u, z
<1>6. r \in ToolText /\ r.chunks = u /\ r.start = z /\ r.characters = t.characters
      /\ r.head = t.head /\ r.truncated = t.truncated
  <2>1. z \in Nat
    BY DEF z
  <2> QED
    BY <1>2, <2>1 DEF ToolText
<1> HIDE DEF r
<1>7. Rolls(r, y)
  <2>1. SubSeq(u, z + 1, Len(u)) = u
    BY <1>2, SubSeqFull DEF z
  <2>2. ToolTail(r) = y
    BY <1>1, <1>6, <2>1, Zenon DEF ToolTail, Unconsumed
  <2>3. Len(u) \in Nat /\ z <= Len(u)
    BY <1>2 DEF z
  <2> QED
    BY <1>1, <1>3, <1>6, <2>2, <2>3 DEF Rolls
<1> QED
  BY <1>4, <1>5, <1>6, <1>7 DEF SameHead

\* What safeSuffix leaves of a part whose start goes.
LEMMA SuffixOfPart ==
  ASSUME NEW t \in Text, EndsWell(t), NEW k \in Nat, k < Len(t)
  PROVE  /\ SafeSuffix(t, Len(t) - k) = From(t, SafeStart(t, k) + 1)
         /\ From(t, SafeStart(t, k) + 1) \in Text
         /\ Len(From(t, SafeStart(t, k) + 1)) = Len(t) - SafeStart(t, k)
         /\ EndsWell(From(t, SafeStart(t, k) + 1))
<1> DEFINE s == SafeStart(t, k)
           f == s + 1
           a == From(t, f)
           q == Len(t) - k
           e == IF q < Len(t) THEN Len(t) - q ELSE 0
<1>1. Len(t) \in Nat /\ k \in 0..Len(t)
  BY DEF Text
<1>2. e = k
  BY <1>1
<1>3. SafeSuffix(t, q) = SubSeq(t, SafeStart(t, e) + 1, Len(t))
  BY DEF SafeSuffix
<1> HIDE DEF e
<1>4. SafeSuffix(t, q) = a
  BY <1>2, <1>3 DEF From
<1>5. s \in 0..Len(t)
  BY <1>1, SafeStartFacts
<1> HIDE DEF s, q
<1>6. f \in 1..(Len(t) + 1) /\ (Len(t) - f) + 1 = Len(t) - s
  BY <1>1, <1>5
<1>7. a \in Text /\ Len(a) = (Len(t) - f) + 1
      /\ \A i \in 1..((Len(t) - f) + 1) : a[i] = t[(f + i) - 1]
  <2> HIDE DEF f
  <2> QED
    BY <1>6, FromFacts
<1> HIDE DEF a
<1>8. ASSUME a # <<>> PROVE a[Len(a)].kind # "high"
  <2> DEFINE g == Len(a)
  <2>1. g # 0 /\ g \in Nat
    BY <1>7, <1>8 DEF Text
  <2>2. g \in 1..((Len(t) - f) + 1) /\ (f + g) - 1 = Len(t)
    <3> DEFINE l == Len(t)
    <3>1. l \in Nat /\ f \in 1..(l + 1) /\ g = (l - f) + 1
      BY <1>1, <1>6, <1>7
    <3> HIDE DEF l, g, f
    <3>2. g \in 1..((l - f) + 1) /\ (f + g) - 1 = l
      BY <2>1, <3>1
    <3> QED
      BY <3>2 DEF l
  <2>3. a[g] = t[Len(t)]
    <3> HIDE DEF g, f
    <3> QED
      BY <1>7, <2>2
  <2>4. t # <<>>
    BY <1>1, BreaksNone
  <2> QED
    BY <2>3, <2>4 DEF EndsWell
<1> QED
  BY <1>4, <1>6, <1>7, <1>8 DEF EndsWell, a, s, q

\* Whole chunks are consumed, and then the start of one.
LEMMA ConsumeFacts ==
  ASSUME NEW t \in ToolText, NEW y \in Text, Rolls(t, y), NEW e \in Nat, e < Len(y)
  PROVE  SameHead(Consume(t, e), t) /\ Rolls(Consume(t, e), From(y, SafeStart(y, e) + 1))
<1> DEFINE c == t.chunks
           b == t.start
           u == SubSeq(c, b + 1, Len(c))
           n == MostWithin(u, e)
           gone == Total(SubSeq(u, 1, n))
           first == u[n + 1]
           s == SafeStart(first, e - gone)
           h == b + n
           at == h + 1
           kept == From(first, s + 1)
           left == [i \in DOMAIN c |-> IF i <= h THEN <<>> ELSE IF i = at THEN kept ELSE c[i]]
           less == t.characters - gone - (Len(first) - Len(kept))
           r == [t EXCEPT !.chunks = left, !.start = h, !.characters = less]
<1>1. /\ c \in Seq(Text) /\ b \in Nat /\ b <= Len(c) /\ b \in 0..Len(c) /\ AllEndWell(c)
      /\ t.characters = Len(y) /\ Flat(u) = y /\ Len(c) \in Nat /\ Len(y) \in Nat
  BY DEF ToolText, Rolls, ToolTail, Unconsumed, Text
<1>2. Dropped(u, e, n, gone, first, s)
  BY DEF Dropped
<1>3. /\ first = u[n + 1] /\ s = SafeStart(first, e - gone)
      /\ Consume(t, e) =
           [t EXCEPT !.chunks = [i \in DOMAIN c |->
                                   IF i <= b + n THEN <<>>
                                   ELSE IF i = b + n + 1
                                   THEN SafeSuffix(c[b + n + 1], Len(c[b + n + 1]) - (e - gone))
                                   ELSE c[i]],
                     !.start = b + n,
                     !.characters = t.characters - gone
                       - (Len(c[b + n + 1])
                          - Len(SafeSuffix(c[b + n + 1], Len(c[b + n + 1]) - (e - gone))))]
  BY DEF Consume, Unconsumed
<1> HIDE DEF c, b
<1>4. /\ u \in Seq(Text) /\ Len(u) = Len(c) - b
      /\ \A i \in 1..(Len(c) - b) : u[i] = c[b + i]
  BY <1>1, PartsFacts
<1>5. AllEndWell(u)
  <2>1. \A i \in 1..Len(u) : b + i \in 1..Len(c) /\ i \in 1..(Len(c) - b)
    BY <1>1, <1>4
  <2> HIDE DEF u
  <2> QED
    BY <1>1, <1>4, <2>1 DEF AllEndWell
<1> HIDE DEF u, n, gone, first, s
<1>6. e < Total(u)
  BY <1>1 DEF Total
<1>7. n \in Nat /\ n < Len(u) /\ first \in Text /\ e - gone \in Nat /\ e - gone < Len(first)
      /\ gone \in Nat
  BY <1>2, <1>4, <1>5, <1>6, DropParts
<1>8. s \in 0..Len(first) /\ gone + s = SafeStart(Flat(u), e) /\ Left(u, n, gone, first, s)
  BY <1>2, <1>4, <1>5, <1>6, DropParts
<1>9. /\ n + 1 \in 1..(Len(c) - b) /\ b + (n + 1) = at /\ at \in 1..Len(c) /\ h \in Nat /\ h < Len(c)
      /\ b + n + 1 = at /\ b + n = h /\ n + 1 \in 1..Len(u)
  BY <1>1, <1>4, <1>7
<1>10. first = c[at] /\ EndsWell(first)
  BY <1>3, <1>4, <1>5, <1>9 DEF AllEndWell
<1> HIDE DEF h, at
<1>11. /\ SafeSuffix(first, Len(first) - (e - gone)) = kept /\ kept \in Text
       /\ Len(kept) = Len(first) - s /\ EndsWell(kept)
  <2> DEFINE k == e - gone
  <2>1. k \in Nat /\ k < Len(first) /\ s = SafeStart(first, k)
    BY <1>3, <1>7
  <2> HIDE DEF k
  <2>2. /\ SafeSuffix(first, Len(first) - k) = From(first, SafeStart(first, k) + 1)
        /\ From(first, SafeStart(first, k) + 1) \in Text
        /\ Len(From(first, SafeStart(first, k) + 1)) = Len(first) - SafeStart(first, k)
        /\ EndsWell(From(first, SafeStart(first, k) + 1))
    BY <1>7, <1>10, <2>1, SuffixOfPart
  <2> QED
    BY <2>1, <2>2 DEF k
<1>12. Consume(t, e) = r
  <2> DEFINE x == SafeSuffix(first, Len(first) - (e - gone))
  <2>1. Consume(t, e) =
           [t EXCEPT !.chunks = [i \in DOMAIN c |-> IF i <= h THEN <<>> ELSE IF i = at THEN x ELSE c[i]],
                     !.start = h, !.characters = t.characters - gone - (Len(first) - Len(x))]
    <3> DEFINE hh == b + n
               aa == b + n + 1
               ff == c[aa]
    <3>1. hh = h /\ aa = at
      BY <1>9
    <3>2. Consume(t, e) =
           [t EXCEPT !.chunks = [i \in DOMAIN c |->
                                   IF i <= hh THEN <<>>
                                   ELSE IF i = aa THEN SafeSuffix(ff, Len(ff) - (e - gone)) ELSE c[i]],
                     !.start = hh,
                     !.characters = t.characters - gone
                                      - (Len(ff) - Len(SafeSuffix(ff, Len(ff) - (e - gone))))]
      BY <1>3
    <3> HIDE DEF hh, aa
    <3>3. ff = first
      BY <1>10, <3>1
    <3> HIDE DEF ff
    <3> QED
      BY <3>1, <3>2, <3>3
  <2>2. x = kept
    BY <1>11
  <2> HIDE DEF x, kept
  <2> QED
    BY <2>1, <2>2
<1>13. /\ left \in Seq(Text) /\ Len(left) = Len(c)
       /\ \A i \in 1..Len(c) : left[i] = IF i <= h THEN <<>> ELSE IF i = at THEN kept ELSE c[i]
  <2> HIDE DEF kept
  <2>1. DOMAIN c = 1..Len(c) /\ \A i \in 1..Len(c) : c[i] \in Text
    BY <1>1
  <2>2. <<>> \in Text
    BY BreaksNone
  <2> QED
    BY <1>1, <1>11, <2>1, <2>2
<1>14. AllEndWell(left)
  <2>1. ASSUME NEW i \in 1..Len(left) PROVE EndsWell(left[i])
    <3>1. EndsWell(<<>>) /\ EndsWell(kept) /\ EndsWell(c[i])
      BY <1>1, <1>11, <1>13, <2>1 DEF AllEndWell, EndsWell
    <3> HIDE DEF left, kept
    <3> QED
      BY <1>13, <3>1
  <2> QED
    BY <2>1 DEF AllEndWell
<1> HIDE DEF left
<1>15. less = Len(y) - (gone + s) /\ gone + s \in 0..Len(y)
  <2>1. gone + s \in 0..Len(y)
    <3> DEFINE q == SafeStart(y, e)
    <3>1. e \in 0..Len(y) /\ gone + s = q
      BY <1>1, <1>8
    <3>2. q \in 0..Len(y)
      BY <3>1, SafeStartFacts
    <3> QED
      BY <3>1, <3>2
  <2>2. Len(first) \in Nat /\ s \in Nat /\ gone \in Nat /\ t.characters = Len(y)
    <3>1. Len(first) \in Nat
      BY <1>7 DEF Text
    <3> QED
      BY <1>1, <1>7, <1>8, <3>1
  <2> HIDE DEF kept
  <2> QED
    BY <1>1, <1>11, <2>1, <2>2
<1>16. less \in Nat
  <2> HIDE DEF less
  <2> QED
    BY <1>1, <1>15
<1> HIDE DEF less, kept
<1>17. /\ r \in ToolText /\ r.chunks = left /\ r.start = h /\ r.characters = less
       /\ r.head = t.head /\ r.truncated = t.truncated
  BY <1>9, <1>13, <1>16 DEF ToolText
<1> HIDE DEF r
<1>18. Flat(SubSeq(left, h + 1, Len(left))) = kept \o Flat(SubSeq(left, h + 2, Len(left)))
       /\ left[h + 1] = kept
  <2>1. h < Len(left) /\ at = h + 1 /\ ~(at <= h)
    BY <1>9, <1>13 DEF at
  <2>2. Flat(SubSeq(left, h + 1, Len(left))) = left[h + 1] \o Flat(SubSeq(left, h + 2, Len(left)))
    BY <1>9, <1>13, <2>1, NextPart
  <2>3. left[at] = kept
    BY <1>9, <1>13, <2>1
  <2> QED
    BY <2>1, <2>2, <2>3
<1>19. SubSeq(left, h + 2, Len(left)) = SubSeq(u, n + 2, Len(u))
  <2> DEFINE m == n + 1
             v == SubSeq(left, at + 1, Len(left))
             w == SubSeq(u, m + 1, Len(u))
  <2>1. at \in 0..Len(left) /\ m \in 0..Len(u) /\ at = h + 1 /\ at + 1 = h + 2 /\ m + 1 = n + 2
        /\ Len(left) - at = Len(u) - m /\ b + m = at
    <3> DEFINE lc == Len(c)
               lu == Len(u)
               ll == Len(left)
    <3>1. /\ lc \in Nat /\ lu = lc - b /\ ll = lc /\ b \in Nat /\ n \in Nat /\ h \in Nat
          /\ at = h + 1 /\ b + n = h /\ h < lc
      BY <1>1, <1>4, <1>7, <1>9, <1>13 DEF at
    <3> HIDE DEF lc, lu, ll
    <3>2. at \in 0..ll /\ m \in 0..lu /\ at = h + 1 /\ at + 1 = h + 2 /\ m + 1 = n + 2
          /\ ll - at = lu - m /\ b + m = at
      BY <3>1
    <3> QED
      BY <3>2 DEF lc, lu, ll
  <2> HIDE DEF m
  <2>2. v \in Seq(Text) /\ Len(v) = Len(left) - at
        /\ \A i \in 1..(Len(left) - at) : v[i] = left[at + i]
    BY <1>13, <2>1, PartsFacts
  <2>3. w \in Seq(Text) /\ Len(w) = Len(u) - m
        /\ \A i \in 1..(Len(u) - m) : w[i] = u[m + i]
    BY <1>4, <2>1, PartsFacts
  <2> HIDE DEF v, w
  <2>4. Len(v) = Len(w)
    BY <2>1, <2>2, <2>3
  <2>5. ASSUME NEW i \in 1..Len(v) PROVE v[i] = w[i]
    <3>1. /\ i \in 1..(Len(left) - at) /\ i \in 1..(Len(u) - m)
          /\ at + i \in 1..Len(c) /\ m + i \in 1..(Len(c) - b) /\ b + (m + i) = at + i
          /\ ~(at + i <= h) /\ at + i # at
      <4> DEFINE lc == Len(c)
                 lu == Len(u)
                 ll == Len(left)
                 lv == Len(v)
      <4>1. /\ lc \in Nat /\ lu = lc - b /\ ll = lc /\ b \in Nat /\ n \in Nat /\ h \in Nat
            /\ at = h + 1 /\ b + m = at /\ lv = ll - at /\ ll - at = lu - m /\ i \in 1..lv
            /\ m \in 0..lu
        BY <1>1, <1>4, <1>7, <1>9, <1>13, <2>1, <2>2
      <4> HIDE DEF lc, lu, ll, lv
      <4>2. /\ i \in 1..(ll - at) /\ i \in 1..(lu - m)
            /\ at + i \in 1..lc /\ m + i \in 1..(lc - b) /\ b + (m + i) = at + i
            /\ ~(at + i <= h) /\ at + i # at
        BY <4>1
      <4> QED
        BY <4>2 DEF lc, lu, ll
    <3>2. v[i] = left[at + i] /\ w[i] = u[m + i]
      BY <2>2, <2>3, <3>1
    <3>3. left[at + i] = c[at + i]
      BY <1>13, <3>1
    <3>4. u[m + i] = c[b + (m + i)]
      BY <1>4, <3>1
    <3> QED
      BY <3>1, <3>2, <3>3, <3>4
  <2>6. v = w
    BY <2>2, <2>3, <2>4, <2>5, SeqEqual
  <2> QED
    BY <2>1, <2>6 DEF v, w
<1>20. ToolTail(r) = From(y, (gone + s) + 1)
  <2>1. ToolTail(r) = kept \o Flat(SubSeq(u, n + 2, Len(u)))
    BY <1>17, <1>18, <1>19, Zenon DEF ToolTail, Unconsumed
  <2>2. kept \o Flat(SubSeq(u, n + 2, Len(u))) = From(Flat(u), (gone + s) + 1)
    BY <1>8, Zenon DEF Left, kept
  <2> QED
    BY <1>1, <2>1, <2>2
<1>21. Rolls(r, From(y, (gone + s) + 1))
  <2> DEFINE q == gone + s
             f == q + 1
  <2>1. f \in 1..(Len(y) + 1) /\ (Len(y) - f) + 1 = Len(y) - q
    BY <1>1, <1>15
  <2>2. Len(From(y, f)) = (Len(y) - f) + 1
    <3> HIDE DEF f
    <3> QED
      BY <2>1, FromFacts
  <2>3. less = Len(From(y, f)) /\ h <= Len(left)
    BY <1>9, <1>13, <1>15, <2>1, <2>2
  <2> QED
    BY <1>14, <1>17, <1>20, <2>3 DEF Rolls
<1> QED
  BY <1>1, <1>8, <1>12, <1>17, <1>21 DEF SameHead

\* A chunk that is there is one or none, with its text.
LEMMA ChunkFacts ==
  ASSUME NEW y \in Text, EndsWell(y)
  PROVE  Chunk(y) \in Seq(Text) /\ Flat(SubSeq(Chunk(y), 1, Len(Chunk(y)))) = y /\ AllEndWell(Chunk(y))
<1>1. CASE y = <<>>
  <2>1. Chunk(y) = y
    BY <1>1 DEF Chunk
  <2>2. y \in Seq(Text) /\ SubSeq(y, 1, Len(y)) = y /\ Flat(y) = y /\ Len(y) = 0
    <3>1. y \in Seq(Text) /\ Flat(y) = y
      BY <1>1, FlatNone
    <3> QED
      BY <1>1, <3>1, SubSeqFull
  <2>3. AllEndWell(y)
    <3>1. 1..Len(y) = {}
      BY <2>2
    <3> QED
      BY <3>1 DEF AllEndWell
  <2> QED
    BY <2>1, <2>2, <2>3
<1>2. CASE y # <<>>
  <2> DEFINE p == <<y>>
  <2>1. Chunk(y) = p
    BY <1>2 DEF Chunk
  <2>2. p \in Seq(Text) /\ Flat(p) = y
    BY FlatOne
  <2>3. Len(p) = 1 /\ p[1] = y
    OBVIOUS
  <2> HIDE DEF p
  <2>4. SubSeq(p, 1, Len(p)) = p
    BY <2>2, SubSeqFull
  <2>5. AllEndWell(p)
    <3>1. \A i \in 1..Len(p) : i = 1
      BY <2>3
    <3> QED
      BY <2>3, <3>1 DEF AllEndWell
  <2> QED
    BY <2>1, <2>2, <2>4, <2>5
<1> QED
  BY <1>1, <1>2

\* A chunk more.
LEMMA PushedFacts ==
  ASSUME NEW t \in ToolText, NEW y \in Text, Rolls(t, y), NEW d \in Text, EndsWell(d),
         NEW r, r = [t EXCEPT !.chunks = Append(@, d), !.characters = @ + Len(d)]
  PROVE  SameHead(r, t) /\ r.characters = Len(y \o d) /\ Rolls(r, y \o d)
<1> DEFINE c == t.chunks
           b == t.start
           u == SubSeq(c, b + 1, Len(c))
           p == Append(c, d)
           v == SubSeq(p, b + 1, Len(p))
           q == Append(u, d)
           k == t.characters + Len(d)
<1>1. /\ c \in Seq(Text) /\ b \in Nat /\ b <= Len(c) /\ b \in 0..Len(c) /\ AllEndWell(c)
      /\ t.characters = Len(y) /\ Flat(u) = y /\ Len(c) \in Nat /\ Len(y) \in Nat /\ Len(d) \in Nat
  BY DEF ToolText, Rolls, ToolTail, Unconsumed, Text
<1>2. r = [t EXCEPT !.chunks = p, !.characters = k]
  OBVIOUS
<1>3. k \in Nat /\ k = Len(y \o d)
  <2>1. Len(y \o d) = Len(y) + Len(d)
    BY JoinText
  <2> QED
    BY <1>1, <2>1
<1> HIDE DEF c, b, k
<1>4. /\ p \in Seq(Text) /\ Len(p) = Len(c) + 1
      /\ \A i \in 1..Len(c) : p[i] = c[i]
      /\ p[Len(c) + 1] = d
  BY <1>1
<1>5. /\ u \in Seq(Text) /\ Len(u) = Len(c) - b
      /\ \A i \in 1..(Len(c) - b) : u[i] = c[b + i]
  BY <1>1, PartsFacts
<1> HIDE DEF p, u
<1>6. /\ q \in Seq(Text) /\ Len(q) = Len(u) + 1
      /\ \A i \in 1..Len(u) : q[i] = u[i]
      /\ q[Len(u) + 1] = d
  BY <1>5
<1>7. /\ v \in Seq(Text) /\ Len(v) = Len(p) - b
      /\ \A i \in 1..(Len(p) - b) : v[i] = p[b + i]
  <2>1. b \in 0..Len(p)
    BY <1>1, <1>4
  <2> QED
    BY <1>4, <2>1, PartsFacts
<1> HIDE DEF q, v
<1>8. v = q
  <2>1. Len(v) = Len(q) /\ Len(v) = (Len(c) - b) + 1 /\ Len(u) = Len(c) - b /\ Len(p) - b = (Len(c) - b) + 1
    BY <1>1, <1>4, <1>5, <1>6, <1>7
  <2>2. ASSUME NEW i \in 1..Len(v) PROVE v[i] = q[i]
    <3> DEFINE g == Len(c) - b
    <3>1. g \in Nat /\ i \in 1..(g + 1) /\ g = Len(c) - b /\ Len(u) = g /\ Len(p) - b = g + 1
      BY <1>1, <2>1
    <3> HIDE DEF g
    <3>2. v[i] = p[b + i]
      BY <1>7, <3>1
    <3>3. CASE i = g + 1
      <4>1. b + i = Len(c) + 1 /\ i = Len(u) + 1
        BY <1>1, <3>1, <3>3
      <4> QED
        BY <1>4, <1>6, <3>2, <4>1
    <3>4. CASE i # g + 1
      <4>1. b + i \in 1..Len(c) /\ i \in 1..Len(u) /\ i \in 1..(Len(c) - b)
        BY <1>1, <3>1, <3>4
      <4> QED
        BY <1>4, <1>5, <1>6, <3>2, <4>1
    <3> QED
      BY <3>3, <3>4
  <2> QED
    BY <1>6, <1>7, <2>1, <2>2, SeqEqual
<1>9. Flat(v) = y \o d
  <2>1. Flat(q) = Flat(u) \o d
    BY <1>5, FlatAppend DEF q
  <2> QED
    BY <1>1, <1>8, <2>1
<1>10. AllEndWell(p)
  <2>1. ASSUME NEW i \in 1..Len(p) PROVE EndsWell(p[i])
    <3>1. CASE i = Len(c) + 1
      BY <1>4, <3>1
    <3>2. CASE i # Len(c) + 1
      <4>1. i \in 1..Len(c)
        BY <1>1, <1>4, <3>2
      <4> QED
        BY <1>1, <1>4, <4>1 DEF AllEndWell
    <3> QED
      BY <3>1, <3>2
  <2> QED
    BY <2>1 DEF AllEndWell
<1>11. /\ r \in ToolText /\ r.chunks = p /\ r.start = b /\ r.characters = k
       /\ r.head = t.head /\ r.truncated = t.truncated
  BY <1>2, <1>3, <1>4 DEF ToolText, b
<1>12. ToolTail(r) = y \o d
  BY <1>9, <1>11, Zenon DEF ToolTail, Unconsumed, v
<1>13. b <= Len(p)
  BY <1>1, <1>4
<1> QED
  BY <1>3, <1>10, <1>11, <1>12, <1>13 DEF Rolls, SameHead

\* The longest end of a tool's output, as it is kept.
ToolEnd(x) == LongestEnd(x, TailLimit, TailLimit)

LEMMA ToolEndFacts ==
  ASSUME TailsAssumption, NEW x \in Text, Whole(x)
  PROVE  /\ ToolEnd(x) \in Text /\ Len(ToolEnd(x)) \in Nat /\ Len(ToolEnd(x)) <= TailLimit
         /\ Whole(ToolEnd(x)) /\ EndsWell(ToolEnd(x))
<1> DEFINE c == TailLimit
           y == LongestEnd(x, c, c)
<1>1. c \in Nat
  BY LimitsTyped
<1> HIDE DEF c
<1>2. y \in Text /\ Len(y) \in Nat /\ Len(y) <= c
  BY <1>1, LongestEndTyped
<1>3. Whole(y)
  BY <1>1, WholeLongestEnd
<1> HIDE DEF y
<1>4. EndsWell(y)
  BY <1>2, <1>3, WholeBegins DEF EndsWell
<1> QED
  BY <1>2, <1>3, <1>4 DEF ToolEnd, c, y

\* safeSuffix takes it, also of what comes last when that is long enough.
LEMMA ToolEndIsSuffix ==
  ASSUME TailsAssumption, NEW x \in Text, Whole(x)
  PROVE  SafeSuffix(x, TailLimit) = ToolEnd(x)
<1> DEFINE c == TailLimit
<1>1. c \in Nat /\ c <= c
  BY LimitsTyped
<1> HIDE DEF c
<1>2. SafeSuffix(x, c) = LongestEnd(x, c, c)
  BY <1>1, SafeSuffixIs
<1> QED
  BY <1>2 DEF ToolEnd, c

LEMMA ToolEndLater ==
  ASSUME TailsAssumption, NEW x \in Text, NEW d \in Text, TailLimit <= Len(d)
  PROVE  ToolEnd(x \o d) = ToolEnd(d)
<1> DEFINE c == TailLimit
<1>1. c \in Nat /\ c <= Len(d)
  BY LimitsTyped
<1> HIDE DEF c
<1>2. LongestEnd(x \o d, c, c) = LongestEnd(d, c, c)
  BY <1>1, LongestEndLater
<1> QED
  BY <1>2 DEF ToolEnd, c

LEMMA ToolEndJoin ==
  ASSUME TailsAssumption, NEW x \in Text, NEW d \in Text
  PROVE  ToolEnd(ToolEnd(x) \o d) = ToolEnd(x \o d)
<1> DEFINE c == TailLimit
<1>1. c \in Nat /\ c <= c
  BY LimitsTyped
<1> HIDE DEF c
<1>2. LongestEnd(LongestEnd(x, c, c) \o d, c, c) = LongestEnd(x \o d, c, c)
  BY <1>1, LongestEndJoin
<1> QED
  BY <1>2 DEF ToolEnd, c

\* A text within the limit is all kept; of another one the excess goes.
LEMMA ToolEndAll ==
  ASSUME TailsAssumption, NEW x \in Text, Whole(x), Len(x) <= TailLimit
  PROVE  ToolEnd(x) = x
<1> DEFINE c == TailLimit
<1>1. c \in Nat /\ Len(x) <= c /\ Len(x) \in Nat
  BY LimitsTyped DEF Text
<1> HIDE DEF c
<1>2. Breaks(x) <= c
  BY <1>1, BreaksTyped
<1>3. x # <<>> => x[1].kind # "low"
  BY WholeBegins
<1>4. LongestEnd(x, c, c) = x
  BY <1>1, <1>2, <1>3, LongestEndAll
<1> QED
  BY <1>4 DEF ToolEnd, c

LEMMA ToolEndCut ==
  ASSUME TailsAssumption, NEW x \in Text, Whole(x), NEW e \in Nat, e = Len(x) - TailLimit
  PROVE  ToolEnd(x) = From(x, SafeStart(x, e) + 1)
<1> DEFINE c == TailLimit
<1>1. c \in Nat /\ Len(x) \in Nat /\ c <= c
  BY LimitsTyped DEF Text
<1>2. e \in 0..Len(x) /\ Len(x) - e = c
  BY <1>1
<1> HIDE DEF c
<1>3. LongestEnd(x, c, c) = From(x, SafeStart(x, e) + 1)
  BY <1>1, <1>2, SafeEnd
<1> QED
  BY <1>3 DEF ToolEnd, c

\* A delta goes on with the rolling tail: one that fills it replaces it, and
\* else chunks go at its start until it is within its limit.
LEMMA AppendRollingFacts ==
  ASSUME TailsAssumption, NEW t \in ToolText, NEW x \in Text, Whole(x), Rolls(t, ToolEnd(x)),
         NEW d \in Text, Whole(d)
  PROVE  SameHead(AppendRolling(t, d), t) /\ Rolls(AppendRolling(t, d), ToolEnd(x \o d))
<1> DEFINE y == ToolEnd(x)
           z == ToolEnd(x \o d)
           w == y \o d
           last == SafeSuffix(d, TailLimit)
           p == Chunk(last)
           zero == 0
           l == Len(last)
           new == [t EXCEPT !.chunks = Append(@, d), !.characters = @ + Len(d)]
           e == new.characters - TailLimit
<1>1. /\ y \in Text /\ Len(y) \in Nat /\ Len(y) <= TailLimit /\ Whole(y) /\ EndsWell(y)
      /\ TailLimit \in Nat /\ Len(d) \in Nat
  BY ToolEndFacts, LimitsTyped DEF Text
<1>2. x \o d \in Text /\ Whole(x \o d)
  BY JoinText, WholeJoin
<1>3. /\ z \in Text /\ Len(z) \in Nat /\ Len(z) <= TailLimit
  BY <1>2, ToolEndFacts
<1>4. ToolEnd(w) = z
  BY ToolEndJoin
<1>5. /\ last = ToolEnd(d) /\ last \in Text /\ EndsWell(last)
  BY ToolEndFacts, ToolEndIsSuffix
<1>6. Rolls(t, y)
  OBVIOUS
<1> HIDE DEF y, z
<1>7. w \in Text /\ Whole(w)
  <2>1. w \in Text
    BY <1>1, JoinText
  <2> QED
    BY <1>1, <2>1, WholeJoin
<1>8. EndsWell(d)
  BY WholeBegins DEF EndsWell
<1>9. SameHead(t, t)
  BY DEF SameHead
<1>10. CASE TailLimit = 0
  <2>1. AppendRolling(t, d) = t
    BY <1>10 DEF AppendRolling
  <2>2. y = <<>> /\ z = <<>>
    <3>1. Len(y) = 0 /\ Len(z) = 0
      BY <1>1, <1>3, <1>10
    <3> QED
      BY <1>1, <1>3, <3>1, EmptySeq DEF Text
  <2> QED
    BY <1>6, <1>9, <2>1, <2>2 DEF y, z
<1>11. CASE TailLimit # 0 /\ Len(d) >= TailLimit
  <2> DEFINE r == [t EXCEPT !.chunks = p, !.start = zero, !.characters = l]
  <2>1. AppendRolling(t, d) = r
    BY <1>11 DEF AppendRolling
  <2>2. last = z
    <3>1. ToolEnd(x \o d) = ToolEnd(d)
      BY <1>1, <1>11, ToolEndLater
    <3> QED
      BY <1>5, <3>1 DEF z
  <2> HIDE DEF last
  <2>3. p \in Seq(Text) /\ Flat(SubSeq(p, 1, Len(p))) = last /\ AllEndWell(p)
    BY <1>5, ChunkFacts
  <2>4. l \in Nat /\ zero \in Nat /\ zero + 1 = 1 /\ Len(p) \in Nat /\ zero <= Len(p)
    BY <1>5, <2>3 DEF Text
  <2> HIDE DEF p, l, zero
  <2>5. /\ r \in ToolText /\ r.chunks = p /\ r.start = zero /\ r.characters = l
        /\ r.head = t.head /\ r.truncated = t.truncated
    BY <2>3, <2>4 DEF ToolText
  <2> HIDE DEF r
  <2>6. ToolTail(r) = z
    BY <2>2, <2>3, <2>4, <2>5, Zenon DEF ToolTail, Unconsumed
  <2>7. Rolls(r, z)
    BY <2>2, <2>3, <2>4, <2>5, <2>6 DEF Rolls, l
  <2> QED
    BY <2>1, <2>5, <2>7 DEF SameHead, z
<1>12. SameHead(new, t) /\ new.characters = Len(w) /\ Rolls(new, w)
  BY <1>1, <1>6, <1>8, PushedFacts
<1>13. new \in ToolText /\ Len(w) \in Nat
  BY <1>7, <1>12 DEF SameHead, Text
<1>14. CASE TailLimit # 0 /\ ~(Len(d) >= TailLimit) /\ new.characters <= TailLimit
  <2>1. AppendRolling(t, d) = Compacted(new)
    BY <1>14 DEF AppendRolling
  <2> HIDE DEF new
  <2>2. w = z
    <3>1. Len(w) <= TailLimit
      BY <1>12, <1>14
    <3> HIDE DEF w
    <3>2. ToolEnd(w) = w
      BY <1>7, <3>1, ToolEndAll
    <3> QED
      BY <1>4, <3>2
  <2> HIDE DEF w
  <2>3. SameHead(Compacted(new), new) /\ Rolls(Compacted(new), w)
    BY <1>7, <1>12, <1>13, CompactedFacts
  <2> QED
    BY <1>12, <2>1, <2>2, <2>3 DEF SameHead, z
<1>15. CASE TailLimit # 0 /\ ~(Len(d) >= TailLimit) /\ ~(new.characters <= TailLimit)
  <2>1. AppendRolling(t, d) = Compacted(Consume(new, e))
    BY <1>15 DEF AppendRolling
  <2> HIDE DEF new
  <2>2. e \in Nat /\ e < Len(w) /\ e = Len(w) - TailLimit
    <3> HIDE DEF w
    <3> QED
      BY <1>1, <1>12, <1>13, <1>15
  <2> HIDE DEF e, w
  <2> DEFINE r == Consume(new, e)
             v == From(w, SafeStart(w, e) + 1)
  <2>3. v = z
    BY <1>4, <1>7, <2>2, ToolEndCut
  <2>4. SameHead(r, new) /\ Rolls(r, v)
    BY <1>7, <1>12, <1>13, <2>2, ConsumeFacts
  <2>5. r \in ToolText
    BY <2>4 DEF SameHead
  <2> HIDE DEF r, v
  <2>6. SameHead(Compacted(r), r) /\ Rolls(Compacted(r), z)
    BY <1>3, <2>3, <2>4, <2>5, CompactedFacts
  <2> QED
    BY <1>12, <2>1, <2>4, <2>6 DEF SameHead, z, r
<1> QED
  BY <1>10, <1>11, <1>14, <1>15

\* What is kept of an output that came as x, and its length.
OutputOf(t, x) ==
  /\ ~t.truncated =>
       /\ t.full = x /\ Len(x) <= MaxToolCharacters
       /\ t.chunks = <<>> /\ t.start = 0 /\ t.characters = 0
  /\ t.truncated =>
       /\ MaxToolCharacters < Len(x)
       /\ t.head = LongestStart(x, HeadLimit) /\ Rolls(t, ToolEnd(x))

KeepsOutput(t, x) == t.total = Len(x) /\ OutputOf(t, x)

\* The head and the tail of a text that is too long are taken from all of it.
LEMMA BeginTruncationFacts ==
  ASSUME TailsAssumption, NEW t \in ToolText, NEW x \in Text, Whole(x), KeepsOutput(t, x),
         ~t.truncated, NEW d \in Text, Whole(d)
  PROVE  /\ BeginTruncation(t, d) \in ToolText /\ BeginTruncation(t, d).truncated
         /\ BeginTruncation(t, d).head = SafePrefix(x \o d, HeadLimit)
         /\ Rolls(BeginTruncation(t, d), ToolEnd(x \o d))
<1> DEFINE w == x \o d
           last == IF Len(d) >= TailLimit THEN SafeSuffix(d, TailLimit) ELSE SafeSuffix(w, TailLimit)
           head == IF Len(x) >= HeadLimit THEN SafePrefix(x, HeadLimit)
                   ELSE x \o SafePrefix(d, HeadLimit - Len(x))
           z == ToolEnd(w)
           p == Chunk(z)
           l == Len(z)
           none == <<>>
           yes == TRUE
           r == [t EXCEPT !.head = head, !.full = none, !.truncated = yes, !.chunks = p, !.characters = l]
<1>1. /\ t.full = x /\ t.chunks = <<>> /\ t.start = 0 /\ t.characters = 0
      /\ t.chunks \in Seq(Text) /\ t.start \in Nat /\ t.characters \in Nat
  BY DEF KeepsOutput, OutputOf, ToolText
<1>2. /\ w \in Text /\ Whole(w) /\ Len(x) \in Nat /\ Len(d) \in Nat
      /\ HeadLimit \in Nat /\ TailLimit \in Nat
  BY JoinText, WholeJoin, LimitsTyped
<1>3. z \in Text /\ EndsWell(z) /\ l \in Nat
  <2> HIDE DEF w
  <2> QED
    BY <1>2, ToolEndFacts
<1>4. last = z
  <2>1. CASE Len(d) >= TailLimit
    <3>1. last = ToolEnd(d)
      BY <2>1, ToolEndIsSuffix
    <3>2. ToolEnd(w) = ToolEnd(d)
      BY <1>2, <2>1, ToolEndLater
    <3> QED
      BY <3>1, <3>2
  <2>2. CASE ~(Len(d) >= TailLimit)
    <3>1. last = SafeSuffix(w, TailLimit)
      BY <2>2
    <3> HIDE DEF w, last
    <3> QED
      BY <1>2, <3>1, ToolEndIsSuffix
  <2> QED
    BY <2>1, <2>2
<1>5. head = SafePrefix(w, HeadLimit) /\ head \in Text
  <2> DEFINE h == HeadLimit
             k == h - Len(x)
  <2>1. SafePrefix(w, h) \in Text
    <3> HIDE DEF w
    <3> QED
      BY <1>2, SafePrefixTyped
  <2>2. CASE Len(x) >= h
    <3> HIDE DEF h
    <3>1. h \in Nat /\ h <= Len(x)
      BY <1>2, <2>2 DEF h
    <3>2. SafePrefix(x, h) = LongestStart(x, h)
      BY <3>1, SafePrefixIs
    <3>3. SafePrefix(w, h) = LongestStart(w, h)
      <4> HIDE DEF w
      <4> QED
        BY <1>2, <3>1, SafePrefixIs
    <3>4. LongestStart(w, h) = LongestStart(x, h)
      BY <3>1, LongestStartJoin
    <3>5. head = SafePrefix(x, h)
      BY <2>2 DEF h
    <3> QED
      BY <2>1, <3>2, <3>3, <3>4, <3>5 DEF h
  <2>3. CASE ~(Len(x) >= h)
    <3>1. Len(x) < h
      BY <1>2, <2>3
    <3>2. head = x \o SafePrefix(d, k)
      BY <2>3
    <3> HIDE DEF h, k
    <3>3. SafePrefix(w, h) = x \o SafePrefix(d, h - Len(x))
      BY <1>2, <3>1, SafePrefixJoin DEF h
    <3> QED
      BY <2>1, <3>2, <3>3 DEF h, k
  <2> QED
    BY <2>2, <2>3
<1>6. BeginTruncation(t, d) = r
  <2> DEFINE a == IF last = <<>> THEN t.chunks ELSE <<last>>
             b == IF last = <<>> THEN t.characters ELSE Len(last)
  <2>1. BeginTruncation(t, d) =
          [t EXCEPT !.head = head, !.full = none, !.truncated = yes, !.chunks = a, !.characters = b]
    BY <1>1 DEF BeginTruncation
  <2> HIDE DEF last, z, head
  <2>2. a = p
    BY <1>1, <1>4 DEF Chunk
  <2>3. b = l
    BY <1>1, <1>4
  <2> HIDE DEF a, b, p, l, none, yes
  <2> QED
    BY <2>1, <2>2, <2>3, Zenon
<1> HIDE DEF z
<1>7. p \in Seq(Text) /\ Flat(SubSeq(p, 1, Len(p))) = z /\ AllEndWell(p)
  BY <1>3, ChunkFacts
<1>8. none \in Text /\ yes \in BOOLEAN /\ t.start + 1 = 1 /\ Len(p) \in Nat /\ t.start <= Len(p)
  BY <1>1, <1>7, BreaksNone
<1> HIDE DEF p, l, none, head
<1>9. /\ r \in ToolText /\ r.chunks = p /\ r.start = t.start /\ r.characters = l
      /\ r.head = head /\ r.truncated
  <2>1. yes
    OBVIOUS
  <2> HIDE DEF yes
  <2> QED
    BY <1>3, <1>5, <1>7, <1>8, <2>1 DEF ToolText
<1> HIDE DEF r
<1>10. ToolTail(r) = z
  BY <1>7, <1>8, <1>9, Zenon DEF ToolTail, Unconsumed
<1>11. Rolls(r, z)
  BY <1>7, <1>8, <1>9, <1>10 DEF Rolls, l
<1> QED
  BY <1>5, <1>6, <1>9, <1>11 DEF z


\* A delta,
LEMMA AppendToolFacts ==
  ASSUME TailsAssumption, NEW t \in ToolText, NEW x \in Text, Whole(x), KeepsOutput(t, x),
         NEW d \in Text, Whole(d)
  PROVE  AppendTool(t, d) \in ToolText /\ KeepsOutput(AppendTool(t, d), x \o d)
<1> DEFINE w == x \o d
           next == t.total + Len(d)
           full == t.full \o d
           fits == [t EXCEPT !.full = full]
           with == IF ~t.truncated /\ next <= MaxToolCharacters THEN fits
                   ELSE IF ~t.truncated THEN BeginTruncation(t, d) ELSE AppendRolling(t, d)
           r == [with EXCEPT !.total = next]
<1>1. /\ w \in Text /\ Whole(w) /\ Len(w) = Len(x) + Len(d) /\ Len(x) \in Nat /\ Len(d) \in Nat
      /\ HeadLimit \in Nat /\ HeadLimit <= MaxToolCharacters /\ MaxToolCharacters \in Nat
  BY JoinText, WholeJoin, LimitsTyped
<1>2. t.total = Len(x) /\ t.truncated \in BOOLEAN /\ OutputOf(t, x)
  BY DEF KeepsOutput, ToolText
<1>3. next = Len(w) /\ next \in Nat
  BY <1>1, <1>2
<1>4. CASE d = <<>>
  <2>1. AppendTool(t, d) = t
    BY <1>4 DEF AppendTool
  <2>2. w = x
    BY <1>4 DEF Text
  <2> QED
    BY <2>1, <2>2
<1>5. CASE d # <<>>
  <2>1. AppendTool(t, d) = r
    BY <1>5 DEF AppendTool
  <2> HIDE DEF next, w
  <2>2. ASSUME ~t.truncated, next <= MaxToolCharacters PROVE with \in ToolText /\ OutputOf(with, w)
    <3>1. with = fits
      BY <2>2
    <3>2. t.full = x /\ t.chunks = <<>> /\ t.start = 0 /\ t.characters = 0
      BY <1>2, <2>2 DEF OutputOf
    <3>3. full = w
      BY <3>2 DEF w
    <3> HIDE DEF full, with
    <3>4. fits \in ToolText /\ fits.full = full /\ fits.truncated = t.truncated
          /\ fits.chunks = t.chunks /\ fits.start = t.start /\ fits.characters = t.characters
      BY <1>1, <3>3 DEF ToolText
    <3> HIDE DEF fits
    <3>5. OutputOf(fits, w)
      BY <1>3, <2>2, <3>2, <3>3, <3>4 DEF OutputOf
    <3> QED
      BY <3>1, <3>4, <3>5
  <2>3. ASSUME ~t.truncated, ~(next <= MaxToolCharacters) PROVE with \in ToolText /\ OutputOf(with, w)
    <3> DEFINE b == BeginTruncation(t, d)
    <3>1. with = b
      BY <2>3
    <3>2. /\ b \in ToolText /\ b.truncated
          /\ b.head = SafePrefix(w, HeadLimit) /\ Rolls(b, ToolEnd(w))
      BY <2>3, BeginTruncationFacts DEF w
    <3>3. SafePrefix(w, HeadLimit) = LongestStart(w, HeadLimit)
      BY <1>1, SafePrefixIs
    <3>4. MaxToolCharacters < Len(w)
      BY <1>1, <1>3, <2>3
    <3> HIDE DEF b, with
    <3>5. OutputOf(b, w)
      BY <3>2, <3>3, <3>4 DEF OutputOf
    <3> QED
      BY <3>1, <3>2, <3>5
  <2>4. ASSUME t.truncated PROVE with \in ToolText /\ OutputOf(with, w)
    <3> DEFINE b == AppendRolling(t, d)
    <3>1. with = b
      BY <2>4
    <3>2. /\ MaxToolCharacters < Len(x) /\ t.head = LongestStart(x, HeadLimit)
          /\ Rolls(t, ToolEnd(x))
      BY <1>2, <2>4 DEF OutputOf
    <3>3. SameHead(b, t) /\ Rolls(b, ToolEnd(w))
      BY <3>2, AppendRollingFacts DEF w
    <3>4. MaxToolCharacters < Len(w) /\ HeadLimit <= Len(x)
      BY <1>1, <3>2
    <3>5. LongestStart(w, HeadLimit) = LongestStart(x, HeadLimit)
      BY <1>1, <3>4, LongestStartJoin DEF w
    <3> HIDE DEF b, with
    <3>6. b \in ToolText /\ b.head = t.head /\ b.truncated
      BY <2>4, <3>3 DEF SameHead
    <3>7. OutputOf(b, w)
      BY <3>2, <3>3, <3>4, <3>5, <3>6 DEF OutputOf
    <3> QED
      BY <3>1, <3>6, <3>7
  <2>5. with \in ToolText /\ OutputOf(with, w)
    BY <2>2, <2>3, <2>4
  <2> HIDE DEF with
  <2>6. r \in ToolText /\ r.total = next /\ r.full = with.full /\ r.truncated = with.truncated
        /\ r.chunks = with.chunks /\ r.start = with.start /\ r.characters = with.characters
        /\ r.head = with.head
    BY <1>3, <2>5 DEF ToolText
  <2> HIDE DEF r
  <2>7. OutputOf(r, w)
    <3>1. ToolTail(r) = ToolTail(with)
      BY <2>6 DEF ToolTail, Unconsumed
    <3> QED
      BY <2>5, <2>6, <3>1 DEF OutputOf, Rolls
  <2>8. KeepsOutput(r, w)
    BY <1>3, <2>6, <2>7 DEF KeepsOutput
  <2> QED
    BY <2>1, <2>6, <2>8 DEF w
<1> QED
  BY <1>4, <1>5

\* and no text.
LEMMA NoTextFacts ==
  ASSUME TailsAssumption
  PROVE  NoText \in ToolText /\ KeepsOutput(NoText, <<>>)
<1> DEFINE none == <<>>
           zero == 0
           no == FALSE
<1>1. none \in Text /\ none \in Seq(Text) /\ Len(none) = 0
  BY BreaksNone, FlatNone
<1>2. /\ NoText.full = none /\ NoText.head = none /\ NoText.chunks = none /\ NoText.start = zero
      /\ NoText.characters = zero /\ NoText.total = zero /\ NoText.truncated = no
  BY DEF NoText
<1>3. NoText = [full |-> none, head |-> none, chunks |-> none, start |-> zero,
                characters |-> zero, total |-> zero, truncated |-> no]
  BY DEF NoText
<1>4. zero \in Nat /\ zero = 0 /\ no \in BOOLEAN /\ ~no /\ MaxToolCharacters \in Nat
  BY LimitsTyped
<1>5. 0 <= MaxToolCharacters
  BY <1>4
<1> HIDE DEF none, zero, no
<1>6. NoText \in ToolText
  BY <1>1, <1>3, <1>4 DEF ToolText
<1>7. OutputOf(NoText, none)
  BY <1>1, <1>2, <1>4, <1>5 DEF OutputOf, none
<1>8. KeepsOutput(NoText, none)
  BY <1>1, <1>2, <1>4, <1>7 DEF KeepsOutput
<1> QED
  BY <1>6, <1>8 DEF none

-----------------------------------------------------------------------------
(* What is kept is the text. *)
TailsInv ==
  /\ streamed \in Text /\ Whole(streamed) /\ TailOf(tail, streamed)
  /\ tool \in ToolText /\ KeepsOutput(tool, streamed)

LEMMA TailsInvInit ==
  ASSUME TailsAssumption, TailsInit
  PROVE  TailsInv
<1> DEFINE none == <<>>
           empty == <<none>>
<1>1. streamed = none /\ tail.lines = empty /\ tail.length = 0 /\ tool = NoText
  BY DEF TailsInit
<1>2. none \in Text /\ Len(none) = 0 /\ Breaks(none) = 0
  BY BreaksNone
<1>3. Whole(none)
  BY <1>2 DEF Whole
<1>4. Flat(empty) = none /\ empty \in Seq(Text)
  <2> HIDE DEF none
  <2> QED
    BY <1>2, FlatOne
<1>5. Len(empty) = 1 /\ empty[1] = none /\ empty # <<>>
  OBVIOUS
<1>6. AreLines(empty)
  <2> HIDE DEF empty, none
  <2>1. 1..(Len(empty) - 1) = {}
    BY <1>5
  <2> QED
    BY <1>2, <1>4, <1>5, <2>1 DEF AreLines
<1>7. LongestEnd(none, MaxLiveCharacters, MaxLiveLines - 1) = none
  <2> DEFINE c == MaxLiveCharacters
             m == MaxLiveLines - 1
  <2>1. c \in Nat /\ m \in Nat
    BY DEF TailsAssumption
  <2> HIDE DEF c, m
  <2>2. Len(none) <= c /\ Breaks(none) <= m /\ (none # <<>> => none[1].kind # "low")
    BY <1>2, <2>1
  <2> HIDE DEF none
  <2>3. LongestEnd(none, c, m) = none
    BY <1>2, <2>1, <2>2, LongestEndAll
  <2> QED
    BY <2>3 DEF c, m
<1>8. NoText \in ToolText /\ KeepsOutput(NoText, none)
  BY NoTextFacts
<1> HIDE DEF empty, none
<1>9. TailOf(tail, none)
  BY <1>1, <1>2, <1>4, <1>6, <1>7 DEF TailOf, Keeps
<1> QED
  BY <1>1, <1>2, <1>3, <1>8, <1>9 DEF TailsInv

\* A delta that comes is whole.
LEMMA DeltaFacts ==
  ASSUME NEW l \in Nat, NEW n \in Nat, NEW kinds \in Deltas(n), NEW d,
         d = [i \in 1..n |-> [at |-> l + i, kind |-> kinds[i]]]
  PROVE  d \in Text /\ Whole(d)
<1>1. /\ kinds \in [1..n -> {"plain", "newline", "high", "low"}]
      /\ \A i \in 1..n : /\ kinds[i] = "high" => i < n
                         /\ kinds[i] = "low" <=> i > 1 /\ kinds[i - 1] = "high"
  BY DEF Deltas
<1>2. \A i \in 1..n : d[i] = [at |-> l + i, kind |-> kinds[i]] /\ d[i] \in Unit /\ d[i].kind = kinds[i]
  <2>1. \A i \in 1..n : l + i \in Nat
    OBVIOUS
  <2> QED
    BY <1>1, <2>1 DEF Unit
<1>3. d \in [1..n -> Unit]
  <2>1. DOMAIN d = 1..n /\ d = [i \in 1..n |-> d[i]]
    OBVIOUS
  <2> QED
    BY <1>2, <2>1
<1>4. d \in Text /\ Len(d) = n
  <2>1. d \in Seq(Unit)
    BY <1>3
  <2> QED
    BY <1>3, <2>1 DEF Text
<1>5. \A i \in 1..n : i > 1 => i - 1 \in 1..n
  OBVIOUS
<1> QED
  BY <1>1, <1>2, <1>4, <1>5 DEF Whole

LEMMA TailsInvNext ==
  ASSUME TailsAssumption, TailsInv, [TailsNext]_tailVars
  PROVE  TailsInv'
<1> USE DEF TailsInv
<1>1. CASE StreamGrows
  <2>1. PICK n \in 1..MaxDelta : \E kinds \in Deltas(n) :
          LET delta == [i \in 1..n |-> [at |-> Len(streamed) + i, kind |-> kinds[i]]]
          IN  /\ streamed' = streamed \o delta
              /\ tail' = AppendTail(tail, delta)
              /\ tool' = AppendTool(tool, delta)
    BY <1>1 DEF StreamGrows
  <2>2. PICK kinds \in Deltas(n) :
          LET delta == [i \in 1..n |-> [at |-> Len(streamed) + i, kind |-> kinds[i]]]
          IN  /\ streamed' = streamed \o delta
              /\ tail' = AppendTail(tail, delta)
              /\ tool' = AppendTool(tool, delta)
    BY <2>1
  <2> DEFINE l == Len(streamed)
             d == [i \in 1..n |-> [at |-> l + i, kind |-> kinds[i]]]
  <2>3. streamed' = streamed \o d /\ tail' = AppendTail(tail, d) /\ tool' = AppendTool(tool, d)
    BY <2>2
  <2>4. d \in Text /\ Whole(d)
    <3>1. l \in Nat /\ n \in Nat
      BY <2>1 DEF Text
    <3> HIDE DEF l
    <3> QED
      BY <2>2, <3>1, DeltaFacts
  <2> HIDE DEF d
  <2>5. streamed \o d \in Text /\ Whole(streamed \o d)
    BY <2>4, JoinText, WholeJoin
  <2>6. TailOf(AppendTail(tail, d), streamed \o d)
    BY <2>4, AppendTailFacts
  <2>7. AppendTool(tool, d) \in ToolText /\ KeepsOutput(AppendTool(tool, d), streamed \o d)
    BY <2>4, AppendToolFacts
  <2> QED
    BY <2>3, <2>5, <2>6, <2>7
<1>2. CASE StreamReplaced
  <2>1. streamed' = streamed /\ tail' = ReplaceTail(streamed) /\ tool' = AppendTool(NoText, streamed)
    BY <1>2 DEF StreamReplaced
  <2>2. TailOf(ReplaceTail(streamed), streamed)
    BY ReplaceTailFacts
  <2>3. AppendTool(NoText, streamed) \in ToolText /\ KeepsOutput(AppendTool(NoText, streamed), streamed)
    <3> DEFINE none == <<>>
    <3>1. none \in Text /\ Whole(none)
      BY BreaksNone DEF Whole
    <3>2. NoText \in ToolText /\ KeepsOutput(NoText, none)
      BY NoTextFacts
    <3>3. none \o streamed = streamed
      BY DEF Text
    <3> HIDE DEF none
    <3>4. /\ AppendTool(NoText, streamed) \in ToolText
          /\ KeepsOutput(AppendTool(NoText, streamed), none \o streamed)
      BY <3>1, <3>2, AppendToolFacts
    <3> QED
      BY <3>3, <3>4
  <2> QED
    BY <2>1, <2>2, <2>3
<1>3. CASE UNCHANGED tailVars
  BY <1>3 DEF tailVars, TailOf, Keeps, KeepsOutput, OutputOf, Rolls, ToolTail, Unconsumed
<1> QED
  BY <1>1, <1>2, <1>3 DEF TailsNext

LEMMA TailsInvKept ==
  ASSUME TailsAssumption, TailsInv
  PROVE  KeptIsTheText
<1>1. /\ Flat(tail.lines) = LongestEnd(streamed, MaxLiveCharacters, MaxLiveLines - 1)
      /\ tail.length = Total(tail.lines)
  BY DEF TailsInv, TailOf, Keeps, Total
<1>2. /\ tool.total = Len(streamed)
      /\ ~tool.truncated => tool.full = streamed
      /\ tool.truncated => tool.head = LongestStart(streamed, HeadLimit)
      /\ tool.truncated => tool.characters = Len(ToolEnd(streamed)) /\ ToolTail(tool) = ToolEnd(streamed)
  BY DEF TailsInv, KeepsOutput, OutputOf, Rolls
<1>3. tool.truncated =>
        /\ ToolTail(tool) = LongestEnd(streamed, TailLimit, TailLimit)
        /\ OmittedCharacters(tool) = Len(streamed) - Len(tool.head) - Len(ToolTail(tool))
  BY <1>2 DEF ToolEnd, OmittedCharacters
<1> QED
  BY <1>1, <1>2, <1>3 DEF KeptIsTheText

\* Whatever pieces a text came in, also when it was sent again in one piece, what
\* is kept of a thought is the longest end of it within both limits, and of a
\* tool's output all of it or its longest head and tail, with no pair split and
\* the counters right (ThinkingTailBuffer, BoundedToolText).
THEOREM WhatIsKeptIsTheText == TailsSpec => []KeptIsTheText
<1>1. TailsInit => TailsInv
  BY TailsAssumption, TailsInvInit
<1>2. TailsInv /\ [TailsNext]_tailVars => TailsInv'
  BY TailsAssumption, TailsInvNext
<1>3. TailsInv => KeptIsTheText
  BY TailsAssumption, TailsInvKept
<1> QED
  BY <1>1, <1>2, <1>3, PTL DEF TailsSpec
=============================================================================
