--------------------------- MODULE TurnLoopProofs ---------------------------
(***************************************************************************)
(* However many inputs, calls of submit, turns and handoffs there are: one *)
(* submission at most is active, and steers are pending only during the    *)
(* primary turn.  Then the type invariant, with what it needs of the       *)
(* steers the screen waits for and of those the runtime holds.  Then: an   *)
(* input is in one place until it is gone, so that none is lost or given   *)
(* to the model twice, and follow-ups are stranded only by a command.      *)
(***************************************************************************)
EXTENDS TurnLoop, TLAPS, FiniteSetTheorems, SequenceTheorems

PrimaryTurn == [call: Id, aborted: BOOLEAN, forSteers: BOOLEAN, foreground: BOOLEAN]

\* Each call is a record with the fields of NoCall, and the turn a primary one.
Shaped ==
  /\ calls \in Nat
  /\ DOMAIN call = Id /\ call = [c \in Id |-> call[c]]
  /\ \A c \in Id : call[c] = [at |-> call[c].at, text |-> call[c].text, ids |-> call[c].ids,
                              queued |-> call[c].queued, epoch |-> call[c].epoch,
                              answer |-> call[c].answer]
  /\ turn \in PrimaryTurn \cup {None}

\* A number is given to one call of submit only.
NumbersAreFresh == \A c \in Id : c > calls => call[c].at = "none"

\* OnePrimaryTurn, without the sets.
OneActive ==
  /\ \A c, d \in Id : call[c].at \in {"turn", "login"} /\ call[d].at \in {"turn", "login"} => c = d
  /\ turn # None => call[turn.call].at = "turn" /\ call[turn.call].epoch = turnEpoch
  /\ turn = None => \A c \in Id : call[c].at # "turn"

\* The inductive invariant.
TurnInv == Shaped /\ NumbersAreFresh /\ OneActive

\* OneActive says the same as the property.
LEMMA OneActiveIsOnePrimaryTurn == TurnInv => OnePrimaryTurn
BY DEF TurnInv, Shaped, PrimaryTurn, OneActive, OnePrimaryTurn, ActiveSubmissions, Under

LEMMA InitTurnInv == Init => TurnInv
BY DEF Init, TurnInv, Shaped, NumbersAreFresh, OneActive, NoCall, Id

\* A step that leaves the active calls and the turn alone keeps the invariant.
LEMMA PassiveStep ==
  ASSUME TurnInv, UNCHANGED <<turnEpoch, turn>>, Shaped', NumbersAreFresh',
         \A c \in Id : \/ call'[c].at = call[c].at /\ call'[c].epoch = call[c].epoch
                       \/ /\ call[c].at \notin {"turn", "login"}
                          /\ call'[c].at \notin {"turn", "login"}
  PROVE  TurnInv'
<1> USE DEF TurnInv, Shaped, OneActive, PrimaryTurn
<1>1. turn # None => turn.call \in Id
  OBVIOUS
<1> QED
  BY <1>1

\* What SubmitIn does to the calls: it takes a fresh number for a call that is
\* not active yet.
LEMMA SubmitAddsOne ==
  ASSUME TurnInv, NEW cs, cs = [d \in Id |-> cs[d]],
         NEW sub, NEW queued, NEW primary, SubmitIn(cs, sub, queued, primary)
  PROVE  /\ calls + 1 \in Id /\ calls' = calls + 1
         /\ call' = [d \in Id |-> call'[d]]
         /\ \A d \in Id : d # calls + 1 => call'[d] = cs[d]
         /\ call'[calls + 1].at \in {"command", "prepare", "preflight"}
         /\ call'[calls + 1] = [at |-> call'[calls + 1].at, text |-> call'[calls + 1].text,
           ids |-> call'[calls + 1].ids, queued |-> call'[calls + 1].queued,
           epoch |-> call'[calls + 1].epoch, answer |-> call'[calls + 1].answer]
<1>1. calls + 1 \in Id
  BY TurnAssumption DEF SubmitIn, TurnInv, Shaped, Id
<1>2. PICK s \in {"command", "prepare", "preflight"} :
        call' = [cs EXCEPT ![calls + 1] = [at |-> s, text |-> sub.text, ids |-> sub.ids,
                                           queued |-> queued, epoch |-> 0, answer |-> "none"]]
  BY DEF SubmitIn
<1>3. calls' = calls + 1
  BY DEF SubmitIn
<1> QED
  BY <1>1, <1>2, <1>3

\* A new call of submit beside those there are.
LEMMA SubmitKeeps ==
  ASSUME TurnInv, NEW sub, NEW queued, NEW primary, SubmitIn(call, sub, queued, primary),
         UNCHANGED turnVars
  PROVE  TurnInv'
<1>1. /\ calls + 1 \in Id /\ calls' = calls + 1
      /\ call' = [d \in Id |-> call'[d]]
      /\ \A d \in Id : d # calls + 1 => call'[d] = call[d]
      /\ call'[calls + 1].at \in {"command", "prepare", "preflight"}
      /\ call'[calls + 1] = [at |-> call'[calls + 1].at, text |-> call'[calls + 1].text,
           ids |-> call'[calls + 1].ids, queued |-> call'[calls + 1].queued,
           epoch |-> call'[calls + 1].epoch, answer |-> call'[calls + 1].answer]
  <2>1. call = [d \in Id |-> call[d]]
    BY DEF TurnInv, Shaped
  <2> QED
    BY <2>1, SubmitAddsOne
<1>2. Shaped'
  BY <1>1 DEF TurnInv, Shaped, turnVars
<1>3. NumbersAreFresh'
  BY <1>1 DEF TurnInv, Shaped, NumbersAreFresh, Id
<1>4. call[calls + 1].at = "none"
  BY <1>1 DEF TurnInv, Shaped, NumbersAreFresh, Id
<1> QED
  BY <1>1, <1>2, <1>3, <1>4, PassiveStep DEF turnVars

\* A step that changes no call keeps it as well.
LEMMA TurnUpdated ==
  ASSUME TurnInv, UNCHANGED <<callVars, turnEpoch>>,
         turn' = turn \/ (turn # None /\ turn' \in PrimaryTurn /\ turn'.call = turn.call)
  PROVE  TurnInv'
BY TurnAssumption DEF TurnInv, Shaped, NumbersAreFresh, OneActive, PrimaryTurn, callVars, Id
-----------------------------------------------------------------------------
LEMMA KeyboardKeeps == ASSUME TurnInv, Keyboard PROVE TurnInv'
<1>1. CASE Enter
  <2>1. PICK primary \in BOOLEAN : SubmitIn(call, Submission(editor, {}), FALSE, primary)
    BY <1>1, Zenon DEF Enter
  <2>2. UNCHANGED turnVars
    BY <1>1 DEF Enter
  <2> QED
    BY <2>1, <2>2, SubmitKeeps
<1>2. CASE CtrlC \/ Esc
  <2>1. UNCHANGED <<callVars, turnEpoch>>
    BY <1>2 DEF CtrlC, Esc, turnVars
  <2>2. turn' = turn \/ (turn # None /\ turn' \in PrimaryTurn /\ turn'.call = turn.call)
    BY <1>2 DEF CtrlC, Esc, turnVars, TurnInv, Shaped, PrimaryTurn
  <2> QED
    BY <2>1, <2>2, TurnUpdated
<1>3. CASE (\E i \in Input : Type(i)) \/ QueueDraft \/ EditLatest
  BY <1>3, TurnUpdated DEF Type, QueueDraft, EditLatest, turnVars
<1> QED
  BY <1>1, <1>2, <1>3 DEF Keyboard

LEMMA RuntimeKeeps == ASSUME TurnInv, Runtime PROVE TurnInv'
<1>1. ASSUME NEW c \in Id, RuntimeQueues(c) \/ RuntimeRefuses(c) PROVE TurnInv'
  <2>1. PICK a : call' = [call EXCEPT ![c].answer = a]
    BY <1>1 DEF RuntimeQueues, RuntimeRefuses
  <2>2. UNCHANGED <<calls, turnVars>>
    BY <1>1 DEF RuntimeQueues, RuntimeRefuses
  <2>3. Shaped' /\ NumbersAreFresh'
    BY <2>1, <2>2 DEF TurnInv, Shaped, NumbersAreFresh, turnVars
  <2> QED
    BY <2>1, <2>2, <2>3, PassiveStep DEF TurnInv, Shaped, turnVars
<1>2. CASE RuntimeEnds
  <2>1. PICK a : call' = [call EXCEPT ![running].answer = a]
    BY <1>2 DEF RuntimeEnds
  <2>2. UNCHANGED <<calls, turnVars>>
    BY <1>2 DEF RuntimeEnds
  <2>3. CASE running \in Id
    <3> DEFINE r == running
    <3>1. r \in Id /\ call' = [call EXCEPT ![r].answer = a]
      BY <2>1, <2>3
    <3> HIDE DEF r
    <3>2. Shaped' /\ NumbersAreFresh'
      BY <3>1, <2>2 DEF TurnInv, Shaped, NumbersAreFresh, turnVars
    <3> QED
      BY <3>1, <2>2, <3>2, PassiveStep DEF TurnInv, Shaped, turnVars
  <2>4. CASE running \notin Id
    <3>1. call' = call
      BY <2>1, <2>4 DEF TurnInv, Shaped
    <3> QED
      BY <3>1, <2>2, TurnUpdated DEF turnVars, callVars
  <2> QED
    BY <2>3, <2>4
<1>3. ASSUME \/ \E c \in Id : RuntimeStarts(c)
             \/ \E h \in held : RuntimeDrains(h) \/ RuntimeDiscards(h)
             \/ HandoffBegins \/ HandoffEnds
      PROVE  TurnInv'
  BY <1>3, TurnUpdated DEF RuntimeStarts, RuntimeDrains, RuntimeDiscards, HandoffBegins,
       HandoffEnds, turnVars
<1> QED
  BY <1>1, <1>2, <1>3 DEF Runtime
-----------------------------------------------------------------------------
\* Starting a turn, from the call that prepared an input or from a command.
LEMMA StartKeeps ==
  ASSUME TurnInv, NEW c \in Id, c <= calls, Start(c), UNCHANGED calls PROVE TurnInv'
<1> USE DEF TurnInv
<1>1. \A d \in Id : call[d].at \notin {"turn", "login"}
  BY DEF Start, ActiveSubmissions, Under
<1>2. /\ call' = [call EXCEPT ![c].at = "turn", ![c].epoch = turnEpoch + 1]
      /\ turn' = [call |-> c, aborted |-> FALSE, forSteers |-> FALSE, foreground |-> FALSE]
      /\ turnEpoch' = turnEpoch + 1
  BY DEF Start
<1>3. Shaped'
  BY <1>2 DEF Shaped, PrimaryTurn
<1>4. NumbersAreFresh'
  BY <1>2 DEF Shaped, NumbersAreFresh, Id
<1>5. /\ call'[c].at = "turn" /\ call'[c].epoch = turnEpoch'
      /\ \A d \in Id : d # c => call'[d] = call[d]
  <2>1. c \in DOMAIN call /\ call[c] = [at |-> call[c].at, text |-> call[c].text,
          ids |-> call[c].ids, queued |-> call[c].queued, epoch |-> call[c].epoch,
          answer |-> call[c].answer]
    BY DEF Shaped
  <2>2. call'[c] = [call[c] EXCEPT !.at = "turn", !.epoch = turnEpoch + 1]
    BY <1>2, <2>1
  <2>3. call'[c].at = "turn" /\ call'[c].epoch = turnEpoch + 1
    BY <2>1, <2>2
  <2> QED
    BY <1>2, <2>3 DEF Shaped
<1>6. turn' # None /\ turn'.call = c
  <2>1. turn' \in PrimaryTurn
    BY <1>2 DEF PrimaryTurn
  <2> QED
    BY <1>2, <2>1, TurnAssumption DEF PrimaryTurn, Id
<1> QED
  BY <1>1, <1>3, <1>4, <1>5, <1>6 DEF OneActive

\* A call that waits, ends, or begins to steer.
LEMMA CallMoves ==
  ASSUME TurnInv, NEW c \in Id, UNCHANGED <<calls, turnVars>>,
         call[c].at \notin {"none", "turn", "login"},
         \/ End(c)
         \/ \E s \in {"prepare", "steering"} : call' = [call EXCEPT ![c].at = s]
         \/ call' = [call EXCEPT ![c].at = "steering", ![c].epoch = turnEpoch]
  PROVE  TurnInv'
<1> USE DEF TurnInv
<1>1. Shaped'
  BY DEF Shaped, End, NoCall, turnVars
<1>2. /\ call'[c].at \notin {"turn", "login"}
      /\ \A d \in Id : d # c => call'[d] = call[d]
  BY DEF Shaped, End, NoCall
<1>3. NumbersAreFresh'
  BY <1>2 DEF Shaped, NumbersAreFresh, Id
<1> QED
  BY <1>1, <1>2, <1>3, PassiveStep DEF turnVars

\* A login begins when nothing is active, and ends.
LEMMA LoginKeeps ==
  ASSUME TurnInv, NEW c \in Id, UNCHANGED <<calls, turnVars>>,
         \/ /\ ActiveSubmissions = {} /\ call[c].at = "command"
            /\ call' = [call EXCEPT ![c].at = "login"]
         \/ call[c].at = "login" /\ End(c)
  PROVE  TurnInv'
<1> USE DEF TurnInv
<1>1. Shaped'
  BY DEF Shaped, End, NoCall, turnVars
<1>2. /\ call[c].at # "turn" /\ call'[c].at # "turn"
      /\ \A d \in Id : d # c => call'[d] = call[d]
      /\ call'[c].at = "login" => \A d \in Id : call[d].at \notin {"turn", "login"}
  <2>1. CASE call' = [call EXCEPT ![c].at = "login"] /\ ActiveSubmissions = {}
    BY <2>1 DEF Shaped, ActiveSubmissions, Under
  <2>2. CASE End(c) /\ call[c].at = "login"
    BY <2>2 DEF Shaped, End, NoCall
  <2> QED
    BY <2>1, <2>2
<1>3. NumbersAreFresh'
  BY <1>2 DEF Shaped, NumbersAreFresh, Id
<1>4. OneActive'
  BY <1>2 DEF OneActive, Shaped, PrimaryTurn, turnVars
<1> QED
  BY <1>1, <1>3, <1>4

LEMMA CommandKeeps == ASSUME TurnInv, NEW c \in Id, Command(c) PROVE TurnInv'
<1>1. call[c].at = "command" /\ UNCHANGED calls /\ c <= calls
  BY DEF Command, TurnInv, NumbersAreFresh, Shaped, Id
<1>2. CASE End(c) /\ UNCHANGED turnVars
  BY <1>1, <1>2, CallMoves
<1>3. CASE ActiveSubmissions = {} /\ call' = [call EXCEPT ![c].at = "login"] /\ UNCHANGED turnVars
  BY <1>1, <1>3, LoginKeeps
<1>4. CASE Postpone(c)
  BY <1>1, <1>4, CallMoves DEF Postpone
<1>5. CASE Start(c)
  BY <1>1, <1>5, StartKeeps
<1>6. CASE call' = [call EXCEPT ![c].at = "prepare"] /\ UNCHANGED turnVars
  BY <1>1, <1>6, CallMoves
<1> QED
  BY <1>2, <1>3, <1>4, <1>5, <1>6 DEF Command

\* The turn's call ends and the next follow-up may be submitted in the same step.
LEMMA SettleTurnKeeps == ASSUME TurnInv, NEW c \in Id, SettleTurn(c) PROVE TurnInv'
<1> DEFINE ended == [call EXCEPT ![c] = NoCall]
<1>1. call[c].at = "turn" /\ turn' = None /\ UNCHANGED turnEpoch
  BY DEF SettleTurn
<1>2. \/ \E sub : SubmitIn(ended, sub, TRUE, FALSE)
      \/ call' = ended /\ UNCHANGED calls
  BY DEF SettleTurn
<1>3. /\ ended = [d \in Id |-> ended[d]] /\ ended[c] = NoCall
      /\ \A d \in Id : d # c => ended[d] = call[d] /\ call[d].at \notin {"turn", "login"}
  BY <1>1 DEF TurnInv, Shaped, OneActive
<1> HIDE DEF ended
<1>4. Shaped' /\ NumbersAreFresh' /\ \A d \in Id : call'[d].at \notin {"turn", "login"}
  <2>1. CASE call' = ended /\ UNCHANGED calls
    <3>1. Shaped'
      BY <1>1, <1>3, <2>1 DEF TurnInv, Shaped, NoCall
    <3> QED
      BY <1>3, <2>1, <3>1 DEF TurnInv, Shaped, NumbersAreFresh, NoCall
  <2>2. ASSUME NEW sub, SubmitIn(ended, sub, TRUE, FALSE)
        PROVE  Shaped' /\ NumbersAreFresh' /\ \A d \in Id : call'[d].at \notin {"turn", "login"}
    <3>1. /\ calls + 1 \in Id /\ calls' = calls + 1
          /\ call' = [d \in Id |-> call'[d]]
          /\ \A d \in Id : d # calls + 1 => call'[d] = ended[d]
          /\ call'[calls + 1].at \in {"command", "prepare", "preflight"}
          /\ call'[calls + 1] = [at |-> call'[calls + 1].at, text |-> call'[calls + 1].text,
           ids |-> call'[calls + 1].ids, queued |-> call'[calls + 1].queued,
           epoch |-> call'[calls + 1].epoch, answer |-> call'[calls + 1].answer]
      BY <1>3, <2>2, SubmitAddsOne
    <3>3. Shaped'
      BY <1>1, <1>3, <3>1 DEF TurnInv, Shaped, NoCall
    <3>4. \A d \in Id : call'[d].at \notin {"turn", "login"}
      BY <1>3, <3>1 DEF NoCall
    <3>5. NumbersAreFresh'
      BY <1>3, <3>1 DEF TurnInv, Shaped, NumbersAreFresh, NoCall, Id
    <3> QED
      BY <3>3, <3>4, <3>5
  <2> QED
    BY <1>2, <2>1, <2>2
<1> QED
  BY <1>1, <1>4 DEF TurnInv, OneActive

LEMMA ResumedKeeps == ASSUME TurnInv, Resumed PROVE TurnInv'
<1>1. ASSUME NEW c \in Id, Preflight(c) PROVE TurnInv'
  BY <1>1, CallMoves DEF Preflight
<1>2. ASSUME NEW c \in Id, Prepared(c) PROVE TurnInv'
  <2>1. call[c].at = "prepare" /\ UNCHANGED calls /\ c <= calls
    BY <1>2 DEF Prepared, TurnInv, NumbersAreFresh, Shaped, Id
  <2>2. CASE Steer(c)
    BY <2>1, <2>2, CallMoves DEF Steer
  <2>3. CASE Postpone(c)
    BY <2>1, <2>3, CallMoves DEF Postpone
  <2>4. CASE Start(c)
    BY <2>1, <2>4, StartKeeps
  <2> QED
    BY <1>2, <2>2, <2>3, <2>4 DEF Prepared
<1>3. ASSUME NEW c \in Id, LoginEnds(c) PROVE TurnInv'
  BY <1>3, LoginKeeps DEF LoginEnds
<1>4. ASSUME NEW c \in Id, SettleSteer(c) PROVE TurnInv'
  BY <1>4, CallMoves DEF SettleSteer
<1>5. CASE InterruptAnswered
  BY <1>5, TurnUpdated DEF InterruptAnswered, TurnInv, Shaped, PrimaryTurn
<1>6. CASE HandoffInterrupted
  BY <1>6, TurnUpdated DEF HandoffInterrupted, turnVars
<1>7. CASE Drain
  <2>1. UNCHANGED turnVars /\ DOMAIN call = Id
    BY <1>7 DEF Drain, TurnInv, Shaped
  <2>2. CASE UNCHANGED callVars
    BY <2>1, <2>2, TurnUpdated DEF turnVars
  <2>3. ASSUME NEW sub, SubmitIn(call, sub, TRUE, FALSE) PROVE TurnInv'
    BY <2>1, <2>3, SubmitKeeps
  <2> QED
    BY <1>7, <2>2, <2>3 DEF Drain
<1> QED
  BY <1>1, <1>2, <1>3, <1>4, <1>5, <1>6, <1>7, SettleTurnKeeps DEF Resumed
-----------------------------------------------------------------------------
LEMMA TurnInvPreserved == TurnInv /\ [Next]_vars => TurnInv'
<1>1. ASSUME TurnInv, UNCHANGED vars PROVE TurnInv'
  BY <1>1, TurnUpdated DEF vars, turnVars
<1> QED
  BY <1>1, CommandKeeps, KeyboardKeeps, RuntimeKeeps, ResumedKeeps DEF Next

\* One call of submit at most is a turn or a login, and the primary turn of the
\* TUI is that call, with its epoch: whatever was awaited, by however many calls.
THEOREM OneTurnAtATime == Spec => []OnePrimaryTurn
BY InitTurnInv, TurnInvPreserved, OneActiveIsOnePrimaryTurn, PTL DEF Spec

\* A step outside the turn adds no steer, and the end of the turn leaves none.
LEMMA SteersPreserved == SteersNeedTurn /\ TurnInv /\ [Next]_vars => SteersNeedTurn'
<1> SUFFICES ASSUME SteersNeedTurn, TurnInv, [Next]_vars PROVE SteersNeedTurn'
  OBVIOUS
<1> USE DEF SteersNeedTurn
<1>1. ASSUME UNCHANGED steers, turn' = turn \/ (turn' \in PrimaryTurn) PROVE SteersNeedTurn'
  BY <1>1, TurnAssumption DEF PrimaryTurn, Id
<1>2. ASSUME turn # None, turn' = turn PROVE SteersNeedTurn'
  BY <1>2
<1>3. CASE Keyboard
  BY <1>1, <1>3 DEF Keyboard, Type, Enter, QueueDraft, EditLatest, CtrlC, Esc, queueVars,
       turnVars, TurnInv, Shaped, PrimaryTurn
<1>4. CASE Runtime
  BY <1>1, <1>2, <1>4 DEF Runtime, RuntimeStarts, RuntimeQueues, RuntimeRefuses, RuntimeDrains,
       RuntimeDiscards, RuntimeEnds, HandoffBegins, HandoffEnds, Heard, queueVars, turnVars
<1>5. ASSUME NEW c \in Id, Command(c) \/ Prepared(c) PROVE SteersNeedTurn'
  <2>1. CASE Start(c)
    BY <1>1, <2>1 DEF Start, PrimaryTurn
  <2>2. CASE Steer(c) \/ Postpone(c) \/ (UNCHANGED <<steers, turnVars>>)
    BY <1>1, <1>2, <2>2 DEF Steer, Postpone, turnVars
  <2> QED
    BY <1>5, <2>1, <2>2 DEF Command, Prepared, queueVars
<1>6. ASSUME NEW c \in Id, Preflight(c) \/ LoginEnds(c) \/ SettleSteer(c) \/ SettleTurn(c)
      PROVE  SteersNeedTurn'
  <2>1. CASE SettleTurn(c)
    BY <2>1 DEF SettleTurn
  <2>2. CASE SettleSteer(c)
    BY <1>1, <1>2, <2>2 DEF SettleSteer, turnVars
  <2> QED
    BY <1>1, <1>6, <2>1, <2>2 DEF Preflight, LoginEnds, queueVars, turnVars
<1>7. CASE InterruptAnswered \/ HandoffInterrupted \/ Drain
  BY <1>1, <1>7 DEF InterruptAnswered, HandoffInterrupted, Drain, queueVars, turnVars, TurnInv,
       Shaped, PrimaryTurn
<1>8. CASE UNCHANGED vars
  BY <1>1, <1>8 DEF vars, queueVars, turnVars
<1> QED
  BY <1>3, <1>4, <1>5, <1>6, <1>7, <1>8 DEF Next, Resumed

\* A steer is pending only while the turn it is meant for is the primary one, so
\* every end of a turn gives all of them back.
THEOREM SteersBelongToATurn == Spec => []SteersNeedTurn
<1>1. Init => SteersNeedTurn
  BY DEF Init, SteersNeedTurn
<1> QED
  BY <1>1, InitTurnInv, TurnInvPreserved, SteersPreserved, PTL DEF Spec

-----------------------------------------------------------------------------
(* Counting an input in the entries of a queue. *)

\* In how many entries of a sequence, each with a text, an input is.
Keeping(entries, i) == {k \in DOMAIN entries : i \in InText(entries[k].text)}
Count(entries, i) == Cardinality(Keeping(entries, i))
Bit(b) == IF b THEN 1 ELSE 0

\* The count is a number, and 0 when no entry has the input.
LEMMA CountType ==
  ASSUME NEW E, NEW s \in Seq(E), NEW i
  PROVE  /\ Keeping(s, i) \subseteq 1..Len(s) /\ IsFiniteSet(Keeping(s, i))
         /\ Count(s, i) \in Nat
         /\ Count(s, i) = 0 <=> \A k \in 1..Len(s) : i \notin InText(s[k].text)
<1>1. Len(s) \in Nat /\ DOMAIN s = 1..Len(s)
  BY LenProperties
<1>2. Keeping(s, i) \subseteq 1..Len(s)
  BY <1>1 DEF Keeping
<1>3. IsFiniteSet(1..Len(s))
  BY <1>1, FS_Interval
<1>4. IsFiniteSet(Keeping(s, i))
  BY <1>2, <1>3, FS_Subset
<1>5. Count(s, i) \in Nat
  BY <1>4, FS_CardinalityType DEF Count
<1>6. Count(s, i) = 0 <=> Keeping(s, i) = {}
  BY <1>4, FS_EmptySet DEF Count
<1> QED
  BY <1>1, <1>2, <1>4, <1>5, <1>6 DEF Keeping

\* One entry, and two sequences one behind the other.
LEMMA CountOne == ASSUME NEW e, NEW i PROVE Count(<<e>>, i) = Bit(i \in InText(e.text))
<1>1. Keeping(<<e>>, i) = IF i \in InText(e.text) THEN {1} ELSE {}
  BY DEF Keeping
<1> QED
  BY <1>1, FS_EmptySet, FS_Singleton DEF Count, Bit

LEMMA CountConcat ==
  ASSUME NEW E, NEW s \in Seq(E), NEW t \in Seq(E), NEW i
  PROVE  Count(s \o t, i) = Count(s, i) + Count(t, i)
<1> DEFINE n == Len(s)
           A == Keeping(s, i)
           B == Keeping(t, i)
           C == {k \in (n + 1)..(n + Len(t)) : k - n \in B}
<1>1. /\ Len(s) \in Nat /\ DOMAIN s = 1..Len(s) /\ Len(t) \in Nat /\ DOMAIN t = 1..Len(t)
      /\ s \o t \in Seq(E) /\ Len(s \o t) = Len(s) + Len(t) /\ DOMAIN (s \o t) = 1..(Len(s) + Len(t))
      /\ \A k \in 1..Len(s) + Len(t) : (s \o t)[k] = IF k <= Len(s) THEN s[k] ELSE t[k - Len(s)]
  BY LenProperties, ConcatProperties
<1>2. /\ IsFiniteSet(A) /\ IsFiniteSet(B) /\ A \subseteq 1..n /\ B \subseteq 1..Len(t)
      /\ Cardinality(A) \in Nat /\ Cardinality(B) \in Nat
  BY CountType DEF Count
<1>3. Keeping(s \o t, i) = A \cup C
  <2>1. ASSUME NEW k \in 1..(n + Len(t)) PROVE k \in Keeping(s \o t, i) <=> k \in A \cup C
    <3>1. CASE k <= n
      BY <1>1, <1>2, <2>1, <3>1 DEF Keeping
    <3>2. CASE ~(k <= n)
      <4>1. k - n \in 1..Len(t) /\ k \in (n + 1)..(n + Len(t)) /\ (s \o t)[k] = t[k - n]
        BY <1>1, <2>1, <3>2
      <4>2. k \notin A
        BY <1>1, <1>2, <3>2
      <4> QED
        BY <1>1, <4>1, <4>2 DEF Keeping
    <3> QED
      BY <3>1, <3>2
  <2>2. Keeping(s \o t, i) \subseteq 1..(n + Len(t)) /\ A \cup C \subseteq 1..(n + Len(t))
    BY <1>1, <1>2 DEF Keeping
  <2> QED
    BY <2>1, <2>2
<1>4. A \cap C = {}
  BY <1>1, <1>2
<1>5. IsFiniteSet(C) /\ Cardinality(C) = Cardinality(B)
  <2> DEFINE f == [k \in B |-> k + n]
  <2>1. f \in Bijection(B, C)
    <3>1. \A k \in B : k + n \in C
      BY <1>1, <1>2
    <3>2. \A c \in C : c - n \in B /\ (c - n) + n = c
      BY <1>1, <1>2
    <3>3. \A k, l \in B : k + n = l + n => k = l
      BY <1>1, <1>2
    <3> HIDE DEF B, C
    <3> QED
      BY <3>1, <3>2, <3>3 DEF Bijection, Injection, Surjection, IsInjective
  <2>2. ExistsBijection(B, C)
    BY <2>1 DEF ExistsBijection
  <2> QED
    BY <1>2, <2>2, FS_Bijection
<1>6. Cardinality(A \cup C) = Cardinality(A) + Cardinality(C)
  <2>1. Cardinality(A \cap C) = 0
    BY <1>4, FS_EmptySet
  <2>2. Cardinality(A \cup C) = Cardinality(A) + Cardinality(C) - Cardinality(A \cap C)
    BY <1>2, <1>5, FS_Union
  <2> QED
    BY <1>2, <1>5, <2>1, <2>2
<1> QED
  BY <1>3, <1>5, <1>6 DEF Count

\* The ways the queues change.
LEMMA CountAppend ==
  ASSUME NEW E, NEW s \in Seq(E), NEW e \in E, NEW i
  PROVE  Count(Append(s, e), i) = Count(s, i) + Bit(i \in InText(e.text))
<1>1. Append(s, e) = s \o <<e>> /\ <<e>> \in Seq(E)
  BY AppendIsConcat
<1>2. Count(s \o <<e>>, i) = Count(s, i) + Count(<<e>>, i)
  BY <1>1, CountConcat
<1>3. Count(<<e>>, i) = Bit(i \in InText(e.text))
  BY CountOne
<1> QED
  BY <1>1, <1>2, <1>3

LEMMA CountPrepend ==
  ASSUME NEW E, NEW s \in Seq(E), NEW e \in E, NEW i
  PROVE  Count(<<e>> \o s, i) = Bit(i \in InText(e.text)) + Count(s, i)
<1>1. <<e>> \in Seq(E)
  OBVIOUS
<1>2. Count(<<e>> \o s, i) = Count(<<e>>, i) + Count(s, i)
  BY <1>1, CountConcat
<1>3. Count(<<e>>, i) = Bit(i \in InText(e.text))
  BY CountOne
<1> QED
  BY <1>2, <1>3

LEMMA CountTail ==
  ASSUME NEW E, NEW s \in Seq(E), s # <<>>, NEW i
  PROVE  /\ Head(s) \in E /\ Tail(s) \in Seq(E)
         /\ Count(s, i) = Bit(i \in InText(Head(s).text)) + Count(Tail(s), i)
<1>1. Len(s) \in Nat \ {0} /\ Tail(s) = SubSeq(s, 2, Len(s)) /\ Head(s) \in E /\ Tail(s) \in Seq(E)
  BY EmptySeq, TailIsSubSeq, HeadTailProperties
<1>2. s = <<s[1]>> \o SubSeq(s, 2, Len(s)) /\ Head(s) = s[1]
  <2>1. SubSeq(s, 1, Len(s)) = <<s[1]>> \o SubSeq(s, 1 + 1, Len(s))
    BY <1>1, SubSeqRecursiveFirst
  <2> QED
    BY <1>1, <2>1, SubSeqFull
<1>3. s[1] \in E
  BY <1>1, ElementOfSeq
<1>4. Count(<<s[1]>> \o SubSeq(s, 2, Len(s)), i)
        = Bit(i \in InText(s[1].text)) + Count(SubSeq(s, 2, Len(s)), i)
  BY ZenonT(40), <1>1, <1>3, CountPrepend
<1>5. Count(s, i) = Count(<<s[1]>> \o SubSeq(s, 2, Len(s)), i)
  BY <1>2, Zenon
<1>6. Bit(i \in InText(s[1].text)) + Count(SubSeq(s, 2, Len(s)), i)
        = Bit(i \in InText(Head(s).text)) + Count(Tail(s), i)
  BY <1>1, <1>2, Zenon
<1>7. Count(s, i) = Bit(i \in InText(Head(s).text)) + Count(Tail(s), i)
  BY <1>4, <1>5, <1>6, Zenon
<1> QED
  BY <1>1, <1>7, Zenon

LEMMA CountFront ==
  ASSUME NEW E, NEW s \in Seq(E), s # <<>>, NEW i
  PROVE  /\ s[Len(s)] \in E /\ SubSeq(s, 1, Len(s) - 1) \in Seq(E)
         /\ Count(s, i) = Count(SubSeq(s, 1, Len(s) - 1), i) + Bit(i \in InText(s[Len(s)].text))
<1>1. Len(s) \in Nat \ {0}
  BY EmptySeq
<1>2. s[Len(s)] \in E /\ SubSeq(s, 1, Len(s) - 1) \in Seq(E)
  <2>1. \A k \in 1..Len(s) : s[k] \in E
    BY ElementOfSeq
  <2> QED
    BY <1>1, <2>1, SubSeqProperties
<1>3. s = SubSeq(s, 1, Len(s) - 1) \o <<s[Len(s)]>>
  BY <1>1, SubSeqRecursiveSecond, SubSeqFull
<1>4. Append(SubSeq(s, 1, Len(s) - 1), s[Len(s)]) = s
  BY <1>2, <1>3, AppendIsConcat
<1>5. Count(Append(SubSeq(s, 1, Len(s) - 1), s[Len(s)]), i)
        = Count(SubSeq(s, 1, Len(s) - 1), i) + Bit(i \in InText(s[Len(s)].text))
  BY <1>2, CountAppend
<1> QED
  BY <1>2, <1>4, <1>5

LEMMA CountRemove ==
  ASSUME NEW E, NEW s \in Seq(E), NEW k \in 1..Len(s), NEW i
  PROVE  LET t == SubSeq(s, 1, k - 1) \o SubSeq(s, k + 1, Len(s)) IN
         /\ t \in Seq(E) /\ Len(t) = Len(s) - 1
         /\ \A j \in 1..Len(t) : t[j] = IF j < k THEN s[j] ELSE s[j + 1]
         /\ Count(s, i) = Count(t, i) + Bit(i \in InText(s[k].text))
<1> DEFINE a == SubSeq(s, 1, k - 1)
           b == SubSeq(s, k + 1, Len(s))
<1>1. Len(s) \in Nat /\ \A j \in 1..Len(s) : s[j] \in E
  BY LenProperties, ElementOfSeq
<1>2. /\ a \in Seq(E) /\ Len(a) = k - 1 /\ \A j \in 1..Len(a) : a[j] = s[j]
      /\ b \in Seq(E) /\ Len(b) = Len(s) - k /\ \A j \in 1..Len(b) : b[j] = s[j + k]
  BY <1>1, SubSeqProperties
<1>3. s = a \o (<<s[k]>> \o b)
  <2>1. SubSeq(s, k, Len(s)) = <<s[k]>> \o b
    BY <1>1, SubSeqRecursiveFirst
  <2>2. 1 \in 1..Len(s) + 1 /\ k - 1 \in (1 - 1)..Len(s) /\ Len(s) \in (k - 1)..Len(s)
        /\ (k - 1) + 1 = k
    BY <1>1
  <2>3. a \o SubSeq(s, (k - 1) + 1, Len(s)) = SubSeq(s, 1, Len(s))
    BY <2>2, ConcatAdjacentSubSeq
  <2>4. SubSeq(s, 1, Len(s)) = s
    BY SubSeqFull
  <2> QED
    BY <2>1, <2>2, <2>3, <2>4
<1> HIDE DEF a, b
<1>4. s[k] \in E /\ <<s[k]>> \o b \in Seq(E)
  BY <1>1, <1>2
<1>5. Count(s, i) = Count(a, i) + Bit(i \in InText(s[k].text)) + Count(b, i)
  <2>1. Count(s, i) = Count(a, i) + Count(<<s[k]>> \o b, i)
    <3>1. Count(a \o (<<s[k]>> \o b), i) = Count(a, i) + Count(<<s[k]>> \o b, i)
      BY ZenonT(40), <1>2, <1>4, CountConcat
    <3> QED
      BY <1>3, <3>1
  <2>2. Count(<<s[k]>> \o b, i) = Bit(i \in InText(s[k].text)) + Count(b, i)
    BY <1>2, <1>4, CountPrepend
  <2>3. Count(a, i) \in Nat /\ Count(b, i) \in Nat
    BY <1>2, CountType
  <2> QED
    BY <2>1, <2>2, <2>3 DEF Bit
<1>6. Count(a \o b, i) = Count(a, i) + Count(b, i)
  BY <1>2, CountConcat
<1>7. /\ a \o b \in Seq(E) /\ Len(a \o b) = Len(s) - 1
      /\ \A j \in 1..Len(s) - 1 : (a \o b)[j] = IF j < k THEN s[j] ELSE s[j + 1]
  <2>1. /\ a \o b \in Seq(E) /\ Len(a \o b) = Len(a) + Len(b)
        /\ \A j \in 1..Len(a) + Len(b) : (a \o b)[j] = IF j <= Len(a) THEN a[j] ELSE b[j - Len(a)]
    BY <1>2, ConcatProperties
  <2> QED
    BY <1>1, <1>2, <2>1
<1>8. Count(a, i) \in Nat /\ Count(b, i) \in Nat
  BY <1>2, CountType
<1>9. Count(s, i) = Count(a \o b, i) + Bit(i \in InText(s[k].text))
  BY <1>5, <1>6, <1>8 DEF Bit
<1> QED
  BY <1>7, <1>9 DEF a, b

-----------------------------------------------------------------------------
(* What the queue is when a turn gives its steers back. *)

\* Every set of numbers that is not empty has a least one: the induction that
\* is at hand, by a least counterexample.
LEMMA Least ==
  ASSUME NEW T, T \subseteq Nat, T # {}
  PROVE  \E m \in T : \A n \in T : m <= n
<1>1. IsWellFoundedOn(OpToRel(<, Nat), Nat)
  BY NatLessThanWellFounded
<1>2. PICK m \in T : \A n \in T : ~(<<n, m>> \in OpToRel(<, Nat))
  BY <1>1, WFMin
<1>3. ASSUME NEW n \in T PROVE m <= n
  <2>1. n \in Nat /\ m \in Nat
    OBVIOUS
  <2>2. n < m => <<n, m>> \in OpToRel(<, Nat)
    BY <2>1 DEF OpToRel
  <2>3. ~(n < m)
    BY <1>2, <2>2, Zenon
  <2> QED
    BY <2>1, <2>3
<1> QED
  BY <1>3

\* The function that Joined is computed by.
JoinOf(f, s, n) == f = [k \in 0..n |-> IF k = 0 THEN <<>> ELSE f[k - 1] \o s[k].text]

\* There is such a function, for every sequence of texts.
LEMMA JoinExists ==
  ASSUME NEW s, NEW l \in Nat
  PROVE  \E f : JoinOf(f, s, l)
<1> DEFINE T == {n \in Nat : ~\E f : JoinOf(f, s, n)}
<1>1. SUFFICES ASSUME T # {} PROVE FALSE
  OBVIOUS
<1>2. PICK m \in T : \A n \in T : m <= n
  <2>1. T \subseteq Nat
    OBVIOUS
  <2> HIDE DEF T
  <2> QED
    BY <1>1, <2>1, Least
<1>3. m # 0
  <2>1. JoinOf([k \in 0..0 |-> <<>>], s, 0)
    <3> DEFINE f == [k \in 0..0 |-> <<>>]
    <3>1. \A k \in 0..0 : k = 0
      OBVIOUS
    <3>2. f = [k \in 0..0 |-> IF k = 0 THEN <<>> ELSE f[k - 1] \o s[k].text]
      BY <3>1
    <3> QED
      BY <3>2 DEF JoinOf
  <2> QED
    BY <2>1
<1>4. m - 1 \in Nat /\ ~(m <= m - 1)
  BY <1>3
<1>5. PICK f : JoinOf(f, s, m - 1)
  BY <1>2, <1>4
<1> DEFINE g == [k \in 0..m |-> IF k = m THEN f[m - 1] \o s[m].text ELSE f[k]]
<1>6. \A k \in 0..m : g[k] = IF k = 0 THEN <<>> ELSE g[k - 1] \o s[k].text
  <2> SUFFICES ASSUME NEW k \in 0..m PROVE g[k] = IF k = 0 THEN <<>> ELSE g[k - 1] \o s[k].text
    OBVIOUS
  <2>1. CASE k = m
    <3>1. m - 1 \in 0..m /\ m - 1 # m /\ m \in 0..m
      BY <1>4
    <3>2. g[m - 1] = f[m - 1] /\ g[m] = f[m - 1] \o s[m].text
      BY <3>1
    <3> QED
      BY <1>3, <2>1, <3>2
  <2>2. CASE k # m
    <3>1. k \in 0..(m - 1)
      BY <1>4, <2>2
    <3>2. f[k] = IF k = 0 THEN <<>> ELSE f[k - 1] \o s[k].text
      BY <1>5, <3>1 DEF JoinOf
    <3>3. g[k] = f[k] /\ (k # 0 => g[k - 1] = f[k - 1])
      BY <2>2, <3>1, <1>4
    <3> QED
      BY <3>2, <3>3
  <2> QED
    BY <2>1, <2>2
<1>7. JoinOf(g, s, m)
  BY <1>6 DEF JoinOf
<1> QED
  BY <1>2, <1>7

\* The join of the first n texts is the join of the first n - 1 and the n-th.
LEMMA JoinedUnfolds ==
  ASSUME NEW s, Len(s) \in Nat
  PROVE  \E f : JoinOf(f, s, Len(s)) /\ Joined(s) = f[Len(s)]
<1>1. \E f : JoinOf(f, s, Len(s))
  BY JoinExists
<1> DEFINE join == CHOOSE f : f = [k \in 0..Len(s) |-> IF k = 0 THEN <<>> ELSE f[k - 1] \o s[k].text]
<1>2. join = [k \in 0..Len(s) |-> IF k = 0 THEN <<>> ELSE join[k - 1] \o s[k].text]
  BY <1>1 DEF JoinOf
<1>3. Joined(s) = join[Len(s)]
  BY DEF Joined
<1> QED
  BY <1>2, <1>3 DEF JoinOf

Text == Seq(Input) \ {<<>>}
FollowUp == [text: Text, ids: SUBSET Id]
PendingSteer == [id: Id, text: Text, admitted: BOOLEAN]

\* What is in two texts, one behind the other.
LEMMA InTextConcat ==
  ASSUME NEW a \in Seq(Input), NEW b \in Seq(Input)
  PROVE  InText(a \o b) = InText(a) \cup InText(b)
<1>1. /\ Len(a) \in Nat /\ DOMAIN a = 1..Len(a) /\ Len(b) \in Nat /\ DOMAIN b = 1..Len(b)
      /\ DOMAIN (a \o b) = 1..(Len(a) + Len(b))
      /\ \A k \in 1..Len(a) + Len(b) : (a \o b)[k] = IF k <= Len(a) THEN a[k] ELSE b[k - Len(a)]
  BY LenProperties, ConcatProperties
<1>2. ASSUME NEW i \in InText(a \o b) PROVE i \in InText(a) \cup InText(b)
  <2>1. PICK k \in 1..(Len(a) + Len(b)) : i = (a \o b)[k]
    BY <1>1, <1>2 DEF InText
  <2>2. CASE k <= Len(a)
    BY <1>1, <2>1, <2>2 DEF InText
  <2>3. CASE ~(k <= Len(a))
    <3>1. k - Len(a) \in 1..Len(b) /\ i = b[k - Len(a)]
      BY <1>1, <2>1, <2>3
    <3> QED
      BY <1>1, <3>1 DEF InText
  <2> QED
    BY <2>2, <2>3
<1>3. ASSUME NEW i \in InText(a) PROVE i \in InText(a \o b)
  <2>1. PICK k \in 1..Len(a) : i = a[k]
    BY <1>1, <1>3 DEF InText
  <2>2. k \in 1..(Len(a) + Len(b)) /\ (a \o b)[k] = i
    BY <1>1, <2>1
  <2> QED
    BY <1>1, <2>2 DEF InText
<1>4. ASSUME NEW i \in InText(b) PROVE i \in InText(a \o b)
  <2>1. PICK k \in 1..Len(b) : i = b[k]
    BY <1>1, <1>4 DEF InText
  <2>2. k + Len(a) \in 1..(Len(a) + Len(b)) /\ (a \o b)[k + Len(a)] = i
    BY <1>1, <2>1
  <2> QED
    BY <1>1, <2>2 DEF InText
<1> QED
  BY <1>2, <1>3, <1>4

\* The steers joined hold the inputs of all of them.
LEMMA JoinedText ==
  ASSUME NEW s \in Seq(PendingSteer), s # <<>>
  PROVE  /\ Joined(s) \in Text
         /\ \A i : i \in InText(Joined(s)) <=> \E k \in 1..Len(s) : i \in InText(s[k].text)
<1>1. Len(s) \in Nat \ {0} /\ \A k \in 1..Len(s) : s[k].text \in Text
  <2>1. \A k \in 1..Len(s) : s[k] \in PendingSteer
    BY ElementOfSeq
  <2>2. Len(s) \in Nat \ {0}
    BY EmptySeq
  <2> QED
    BY <2>1, <2>2 DEF PendingSteer
<1>2. PICK f : JoinOf(f, s, Len(s)) /\ Joined(s) = f[Len(s)]
  BY <1>1, JoinedUnfolds
<1>3. \A n \in 0..Len(s) : f[n] = IF n = 0 THEN <<>> ELSE f[n - 1] \o s[n].text
  BY <1>2 DEF JoinOf
<1> DEFINE Good(n) == /\ f[n] \in Seq(Input) /\ (n # 0 => f[n] # <<>>)
                      /\ \A i : i \in InText(f[n]) <=> \E k \in 1..n : i \in InText(s[k].text)
           T == {n \in 0..Len(s) : ~Good(n)}
<1>4. ASSUME T # {} PROVE FALSE
  <2>1. PICK m \in T : \A n \in T : m <= n
    <3>1. T \subseteq Nat
      BY <1>1
    <3> HIDE DEF T
    <3> QED
      BY <1>4, <3>1, Least
  <2>2. CASE m = 0
    <3>1. f[0] = <<>>
      BY <1>1, <1>3
    <3>2. InText(f[0]) = {}
      BY <3>1 DEF InText
    <3>3. Good(0)
      BY <3>1, <3>2
    <3> QED
      BY <2>1, <2>2, <3>3
  <2>3. CASE m # 0
    <3>1. m - 1 \in 0..Len(s) /\ ~(m <= m - 1) /\ m \in 1..Len(s)
      BY <1>1, <2>1, <2>3
    <3>2. Good(m - 1)
      BY <2>1, <3>1
    <3>3. f[m] = f[m - 1] \o s[m].text /\ s[m].text \in Seq(Input) /\ s[m].text # <<>>
      BY <1>1, <1>3, <2>1, <2>3, <3>1 DEF Text
    <3>4. InText(f[m]) = InText(f[m - 1]) \cup InText(s[m].text)
      BY <3>2, <3>3, InTextConcat
    <3>5. f[m] \in Seq(Input) /\ f[m] # <<>>
      BY <3>2, <3>3, ConcatProperties, ConcatEqualIffEmpty
    <3>6. 1..m = 1..(m - 1) \cup {m}
      BY <3>1
    <3>7. Good(m)
      BY <3>2, <3>4, <3>5, <3>6
    <3> QED
      BY <2>1, <3>7
  <2> QED
    BY <2>2, <2>3
<1>5. Good(Len(s))
  <2>1. ASSUME NEW n \in 0..Len(s), ~Good(n) PROVE FALSE
    <3>1. n \in T
      BY <2>1
    <3> HIDE DEF T
    <3> QED
      BY <1>4, <3>1
  <2>2. Len(s) \in 0..Len(s)
    BY <1>1
  <2> HIDE DEF Good
  <2> QED
    BY <2>1, <2>2
<1> QED
  BY <1>1, <1>2, <1>5 DEF Text

LEMMA CountEmpty == ASSUME NEW i PROVE Count(<<>>, i) = 0
<1>1. Keeping(<<>>, i) = {}
  BY DEF Keeping
<1> QED
  BY <1>1, FS_EmptySet DEF Count

\* Sequences with the same texts count the same.
LEMMA CountSame ==
  ASSUME NEW E, NEW s \in Seq(E), NEW F, NEW t \in Seq(F), Len(s) = Len(t),
         \A k \in 1..Len(s) : s[k].text = t[k].text, NEW i
  PROVE  Count(s, i) = Count(t, i)
<1>1. DOMAIN s = 1..Len(s) /\ DOMAIN t = 1..Len(t)
  BY LenProperties
<1>2. Keeping(s, i) = Keeping(t, i)
  BY <1>1 DEF Keeping
<1> QED
  BY <1>2 DEF Count

\* The queue with the steers of a turn that ends: unchanged, with one entry in
\* front that joins them, or with one entry behind for each.
LEMMA RecoveredShape ==
  ASSUME followUps \in Seq(FollowUp), steers \in Seq(PendingSteer), NEW forSteers \in BOOLEAN
  PROVE  /\ Recovered(forSteers) \in Seq(FollowUp)
         /\ \/ steers = <<>> /\ Recovered(forSteers) = followUps
            \/ /\ steers # <<>>
               /\ \E e \in FollowUp : e.text = Joined(steers)
                                      /\ Recovered(forSteers) = <<e>> \o followUps
            \/ \E t \in Seq(FollowUp) :
                 /\ Len(t) = Len(steers) /\ \A k \in 1..Len(steers) : t[k].text = steers[k].text
                 /\ Recovered(forSteers) = followUps \o t
<1> DEFINE ids(s) == IF s.admitted THEN {s.id} ELSE {}
<1>1. /\ Len(steers) \in Nat /\ DOMAIN steers = 1..Len(steers)
      /\ \A k \in 1..Len(steers) : steers[k] \in PendingSteer
  BY LenProperties, ElementOfSeq
<1>2. CASE steers = <<>>
  BY <1>1, <1>2 DEF Recovered
<1>3. CASE steers # <<>> /\ forSteers
  <2> DEFINE e == Submission(Joined(steers), UNION {ids(steers[k]) : k \in DOMAIN steers})
  <2>1. e \in FollowUp /\ e.text = Joined(steers)
    <3>1. Joined(steers) \in Text
      BY <1>3, JoinedText
    <3>2. UNION {ids(steers[k]) : k \in DOMAIN steers} \in SUBSET Id
      BY <1>1 DEF PendingSteer
    <3> QED
      BY <3>1, <3>2 DEF FollowUp, Submission
  <2>2. Recovered(forSteers) = <<e>> \o followUps
    BY <1>3 DEF Recovered
  <2> HIDE DEF e
  <2>3. <<e>> \o followUps \in Seq(FollowUp)
    BY <2>1
  <2> QED
    BY <1>3, <2>1, <2>2, <2>3
<1>4. CASE steers # <<>> /\ ~forSteers
  <2> DEFINE t == [k \in DOMAIN steers |-> Submission(steers[k].text, ids(steers[k]))]
  <2>1. t \in Seq(FollowUp) /\ Len(t) = Len(steers) /\ \A k \in 1..Len(steers) : t[k].text = steers[k].text
    <3>1. \A k \in 1..Len(steers) : Submission(steers[k].text, ids(steers[k])) \in FollowUp
      BY <1>1 DEF FollowUp, Submission, PendingSteer
    <3>2. t \in [1..Len(steers) -> FollowUp]
      BY <1>1, <3>1
    <3>3. t \in Seq(FollowUp)
      BY ZenonT(40), <1>1, <3>2, SeqDef
    <3>4. DOMAIN t = 1..Len(steers) /\ Len(t) = Len(steers)
      BY <1>1, <3>2, <3>3, LenProperties
    <3> QED
      BY <1>1, <3>3, <3>4 DEF Submission
  <2>2. Recovered(forSteers) = followUps \o t
    BY <1>4 DEF Recovered
  <2> HIDE DEF t
  <2>3. followUps \o t \in Seq(FollowUp)
    BY <2>1
  <2> QED
    BY <2>1, <2>2, <2>3
<1> QED
  BY <1>2, <1>3, <1>4

\* Recovering the steers loses none of their inputs, and keeps none twice.
LEMMA RecoveredCount ==
  ASSUME followUps \in Seq(FollowUp), steers \in Seq(PendingSteer),
         NEW forSteers \in BOOLEAN, NEW i, Count(steers, i) <= 1
  PROVE  /\ Recovered(forSteers) \in Seq(FollowUp)
         /\ Count(Recovered(forSteers), i) = Count(followUps, i) + Count(steers, i)
<1>1. Count(steers, i) \in Nat /\ Count(followUps, i) \in Nat
  BY CountType
<1>2. Recovered(forSteers) \in Seq(FollowUp)
  BY RecoveredShape
<1>3. CASE steers = <<>> /\ Recovered(forSteers) = followUps
  BY <1>1, <1>2, <1>3, CountEmpty
<1>4. ASSUME steers # <<>>, NEW e \in FollowUp, e.text = Joined(steers),
             Recovered(forSteers) = <<e>> \o followUps
      PROVE  Count(Recovered(forSteers), i) = Count(followUps, i) + Count(steers, i)
  <2>1. Bit(i \in InText(Joined(steers))) = Count(steers, i)
    <3>1. i \in InText(Joined(steers)) <=> \E k \in 1..Len(steers) : i \in InText(steers[k].text)
      BY <1>4, JoinedText
    <3>2. Count(steers, i) = 0 <=> \A k \in 1..Len(steers) : i \notin InText(steers[k].text)
      BY CountType
    <3> QED
      BY <1>1, <3>1, <3>2 DEF Bit
  <2>2. Count(<<e>> \o followUps, i) = Bit(i \in InText(e.text)) + Count(followUps, i)
    BY <1>4, CountPrepend
  <2> QED
    BY <1>1, <1>4, <2>1, <2>2
<1>5. ASSUME NEW t \in Seq(FollowUp), Len(t) = Len(steers),
             \A k \in 1..Len(steers) : t[k].text = steers[k].text,
             Recovered(forSteers) = followUps \o t
      PROVE  Count(Recovered(forSteers), i) = Count(followUps, i) + Count(steers, i)
  <2>1. Count(t, i) = Count(steers, i)
    BY <1>5, CountSame
  <2>2. Count(followUps \o t, i) = Count(followUps, i) + Count(t, i)
    BY <1>5, CountConcat
  <2> QED
    BY <1>5, <2>1, <2>2
<1> QED
  BY <1>2, <1>3, <1>4, <1>5, RecoveredShape

-----------------------------------------------------------------------------
(* The type invariant. *)

\* The values of the variables.
SubmitCall == [at: {"none", "command", "preflight", "prepare", "steering", "turn", "login"},
               text: Seq(Input), ids: SUBSET Id, queued: BOOLEAN, epoch: 0..MaxTurns,
               answer: {"none", "queued", "rejected", "threw", "ok"}]
HeldSteer == [id: Id, text: Text, epoch: 0..MaxTurns]

InputsTyped ==
  fresh \subseteq Input /\ gone \subseteq Input /\ (editor = None \/ editor \in Text)
QueuesTyped ==
  followUps \in Seq(FollowUp) /\ steers \in Seq(PendingSteer) /\ autoSend \in BOOLEAN
TypedCalls(cs) ==
  cs \in [Id -> SubmitCall] /\ \A c \in Id : cs[c].at # "none" => cs[c].text \in Text
CallsTyped == TypedCalls(call) /\ calls \in 0..MaxCalls
TurnTyped == turn \in PrimaryTurn \cup {None} /\ turnEpoch \in 0..MaxTurns
HandoffTyped ==
  handoff \in [active: BOOLEAN, interrupting: BOOLEAN] /\ drain \in BOOLEAN
  /\ handoffs \in 0..MaxHandoffs
RuntimeTyped ==
  running \in Id \cup {None} /\ held \subseteq HeldSteer /\ delivered \in [Input -> Nat]

\* TypeOK, and no text is empty but that of a call that has not begun.
Typed ==
  /\ InputsTyped /\ QueuesTyped /\ CallsTyped /\ TurnTyped /\ HandoffTyped /\ RuntimeTyped

LEMMA TypedIsTypeOK == Typed => TypeOK
<1> SUFFICES ASSUME Typed PROVE TypeOK
  OBVIOUS
<1>1. HeldIds \subseteq Id
  BY DEF Typed, RuntimeTyped, HeldSteer, HeldIds
<1> QED
  BY <1>1 DEF Typed, InputsTyped, QueuesTyped, CallsTyped, TypedCalls, TurnTyped, HandoffTyped,
     RuntimeTyped, Text, FollowUp, PendingSteer, SubmitCall, PrimaryTurn, TypeOK

LEMMA InitTyped == Init => Typed
<1> SUFFICES ASSUME Init PROVE Typed
  OBVIOUS
<1>1. NoCall \in SubmitCall
  BY TurnAssumption DEF NoCall, SubmitCall
<1>2. InputsTyped /\ QueuesTyped
  <2>1. <<>> \in Seq(FollowUp) /\ <<>> \in Seq(PendingSteer)
    OBVIOUS
  <2>2. fresh = Input /\ gone = {} /\ editor = None
    BY DEF Init
  <2>3. followUps \in Seq(FollowUp) /\ steers \in Seq(PendingSteer) /\ autoSend \in BOOLEAN
    BY <2>1, Zenon DEF Init
  <2> QED
    BY <2>2, <2>3 DEF InputsTyped, QueuesTyped
<1>3. CallsTyped
  BY <1>1, TurnAssumption DEF Init, CallsTyped, TypedCalls, NoCall
<1>4. TurnTyped /\ HandoffTyped
  <2>1. turn = None /\ turnEpoch \in 0..MaxTurns /\ handoffs \in 0..MaxHandoffs
    BY TurnAssumption DEF Init
  <2>2. handoff = [active |-> FALSE, interrupting |-> FALSE] /\ drain = FALSE
    BY DEF Init
  <2> QED
    BY <2>1, <2>2 DEF TurnTyped, HandoffTyped
<1>5. RuntimeTyped
  BY DEF Init, RuntimeTyped
<1> QED
  BY <1>2, <1>3, <1>4, <1>5 DEF Typed

\* What is left alone stays typed.
LEMMA StaysTyped ==
  ASSUME Typed
  PROVE  /\ UNCHANGED inputVars => InputsTyped'
         /\ UNCHANGED queueVars => QueuesTyped'
         /\ UNCHANGED callVars => CallsTyped'
         /\ UNCHANGED turnVars => TurnTyped'
         /\ UNCHANGED handoffVars => HandoffTyped'
         /\ UNCHANGED runtimeVars => RuntimeTyped'
BY DEF Typed, InputsTyped, QueuesTyped, CallsTyped, TypedCalls, TurnTyped, HandoffTyped,
   RuntimeTyped, inputVars, queueVars, callVars, turnVars, handoffVars, runtimeVars

LEMMA InTextOfText == ASSUME NEW t \in Seq(Input) PROVE InText(t) \subseteq Input
BY ElementOfSeq, LenProperties DEF InText

\* The ways the calls change.
LEMMA SubmitTyped ==
  ASSUME Typed, NEW cs, TypedCalls(cs), NEW sub \in FollowUp, NEW queued \in BOOLEAN, NEW primary,
         SubmitIn(cs, sub, queued, primary)
  PROVE  CallsTyped'
<1>1. calls + 1 \in Id /\ calls' = calls + 1 /\ calls' \in 0..MaxCalls
  BY TurnAssumption DEF SubmitIn, Typed, CallsTyped, Id
<1>2. PICK s \in {"command", "prepare", "preflight"} :
        call' = [cs EXCEPT ![calls + 1] = [at |-> s, text |-> sub.text, ids |-> sub.ids,
                                           queued |-> queued, epoch |-> 0, answer |-> "none"]]
  BY DEF SubmitIn
<1>3. sub.text \in Text /\ sub.ids \in SUBSET Id /\ Text \subseteq Seq(Input) /\ 0 \in 0..MaxTurns
  BY TurnAssumption DEF FollowUp, Text
<1> DEFINE r == [at |-> s, text |-> sub.text, ids |-> sub.ids, queued |-> queued, epoch |-> 0,
                 answer |-> "none"]
<1>4. r \in SubmitCall /\ r.text \in Text
  BY <1>3 DEF SubmitCall
<1> HIDE DEF r
<1>5. call' = [cs EXCEPT ![calls + 1] = r]
  BY <1>2 DEF r
<1> QED
  BY <1>1, <1>4, <1>5 DEF CallsTyped, TypedCalls

LEMMA EndTyped ==
  ASSUME Typed, NEW c \in Id PROVE TypedCalls([call EXCEPT ![c] = NoCall])
<1>1. NoCall \in SubmitCall /\ NoCall.at = "none"
  BY TurnAssumption DEF NoCall, SubmitCall
<1> QED
  BY <1>1 DEF Typed, CallsTyped, TypedCalls

LEMMA MoveTyped ==
  ASSUME Typed, NEW c \in Id, call[c].at # "none", UNCHANGED calls,
         \/ End(c)
         \/ \E s \in {"prepare", "login"} : call' = [call EXCEPT ![c].at = s]
         \/ \E s \in {"steering", "turn"}, e \in 0..MaxTurns :
              call' = [call EXCEPT ![c].at = s, ![c].epoch = e]
         \/ \E a \in {"queued", "rejected", "threw", "ok"} : call' = [call EXCEPT ![c].answer = a]
  PROVE  CallsTyped'
<1>1. call \in [Id -> SubmitCall] /\ call[c] \in SubmitCall /\ calls' \in 0..MaxCalls
      /\ \A d \in Id : call[d].at # "none" => call[d].text \in Text
  BY DEF Typed, CallsTyped, TypedCalls
<1>2. CASE End(c)
  BY <1>1, <1>2, EndTyped DEF End, CallsTyped
<1>3. ASSUME NEW r \in SubmitCall, r.text = call[c].text, call' = [call EXCEPT ![c] = r]
      PROVE  CallsTyped'
  BY <1>1, <1>3 DEF CallsTyped, TypedCalls
<1>4. ASSUME NEW s \in {"prepare", "login"}, call' = [call EXCEPT ![c].at = s] PROVE CallsTyped'
  <2>1. [call[c] EXCEPT !.at = s] \in SubmitCall /\ [call[c] EXCEPT !.at = s].text = call[c].text
    BY <1>1 DEF SubmitCall
  <2>2. call' = [call EXCEPT ![c] = [call[c] EXCEPT !.at = s]]
    BY <1>4
  <2> QED
    BY <1>3, <2>1, <2>2
<1>5. ASSUME NEW s \in {"steering", "turn"}, NEW e \in 0..MaxTurns,
             call' = [call EXCEPT ![c].at = s, ![c].epoch = e]
      PROVE  CallsTyped'
  <2>1. /\ [call[c] EXCEPT !.at = s, !.epoch = e] \in SubmitCall
        /\ [call[c] EXCEPT !.at = s, !.epoch = e].text = call[c].text
    BY <1>1 DEF SubmitCall
  <2>2. call' = [call EXCEPT ![c] = [call[c] EXCEPT !.at = s, !.epoch = e]]
    BY <1>1, <1>5
  <2> QED
    BY <1>3, <2>1, <2>2
<1>6. ASSUME NEW a \in {"queued", "rejected", "threw", "ok"}, call' = [call EXCEPT ![c].answer = a]
      PROVE  CallsTyped'
  <2>1. /\ [call[c] EXCEPT !.answer = a] \in SubmitCall
        /\ [call[c] EXCEPT !.answer = a].text = call[c].text
    BY <1>1 DEF SubmitCall
  <2>2. call' = [call EXCEPT ![c] = [call[c] EXCEPT !.answer = a]]
    BY <1>6
  <2> QED
    BY <1>3, <2>1, <2>2
<1> QED
  BY <1>2, <1>4, <1>5, <1>6

\* The ways the steers change.
LEMMA UntrackedTyped ==
  ASSUME steers \in Seq(PendingSteer), NEW c
  PROVE  Untrack(c) \in Seq(PendingSteer)
<1>1. CASE Tracked(c)
  <2>1. /\ Len(steers) \in Nat /\ DOMAIN steers = 1..Len(steers)
        /\ SteerIndex(c) \in 1..Len(steers)
    <3>1. Len(steers) \in Nat /\ DOMAIN steers = 1..Len(steers)
      BY LenProperties
    <3> DEFINE T == {k \in DOMAIN steers : steers[k].id = c}
    <3>2. T # {} /\ T \subseteq Nat
      BY <1>1, <3>1 DEF Tracked
    <3> HIDE DEF T
    <3>3. \E m \in T : \A n \in T : m <= n
      BY <3>2, Least
    <3> QED
      BY <3>1, <3>3 DEF T, SteerIndex
  <2> DEFINE k == SteerIndex(c)
  <2>2. Untrack(c) = SubSeq(steers, 1, k - 1) \o SubSeq(steers, k + 1, Len(steers))
    BY <1>1 DEF Untrack
  <2>3. k \in 1..Len(steers)
    BY <2>1
  <2> HIDE DEF k
  <2> QED
    BY <2>2, <2>3, CountRemove
<1>2. CASE ~Tracked(c)
  BY <1>2 DEF Untrack
<1> QED
  BY <1>1, <1>2

LEMMA AdmittedTyped ==
  ASSUME steers \in Seq(PendingSteer), NEW c
  PROVE  /\ Admit(c) \in Seq(PendingSteer) /\ Len(Admit(c)) = Len(steers)
         /\ DOMAIN Admit(c) = DOMAIN steers
         /\ \A k \in DOMAIN steers : /\ Admit(c)[k].id = steers[k].id
                                     /\ Admit(c)[k].text = steers[k].text
                                     /\ Admit(c)[k].admitted = (steers[k].admitted \/ steers[k].id = c)
<1>1. Len(steers) \in Nat /\ DOMAIN steers = 1..Len(steers)
  BY LenProperties
<1>2. \A k \in 1..Len(steers) : steers[k] \in PendingSteer
  BY ElementOfSeq
<1>3. \A k \in 1..Len(steers) :
        /\ [steers[k] EXCEPT !.admitted = @ \/ steers[k].id = c] \in PendingSteer
        /\ [steers[k] EXCEPT !.admitted = @ \/ steers[k].id = c].id = steers[k].id
        /\ [steers[k] EXCEPT !.admitted = @ \/ steers[k].id = c].text = steers[k].text
        /\ [steers[k] EXCEPT !.admitted = @ \/ steers[k].id = c].admitted
             = (steers[k].admitted \/ steers[k].id = c)
  BY <1>2 DEF PendingSteer
<1>4. Admit(c) = [k \in 1..Len(steers) |-> [steers[k] EXCEPT !.admitted = @ \/ steers[k].id = c]]
  BY <1>1 DEF Admit
<1>5. Admit(c) \in [1..Len(steers) -> PendingSteer]
  BY <1>3, <1>4
<1>6. Admit(c) \in Seq(PendingSteer)
  BY <1>1, <1>5, SeqDef
<1>7. Len(Admit(c)) = Len(steers) /\ DOMAIN Admit(c) = 1..Len(steers)
  BY <1>1, <1>5, <1>6, LenProperties
<1>8. \A k \in 1..Len(steers) :
        Admit(c)[k] = [steers[k] EXCEPT !.admitted = @ \/ steers[k].id = c]
  BY <1>4
<1>9. ASSUME NEW k \in 1..Len(steers)
      PROVE  /\ Admit(c)[k].id = steers[k].id /\ Admit(c)[k].text = steers[k].text
             /\ Admit(c)[k].admitted = (steers[k].admitted \/ steers[k].id = c)
  <2> DEFINE s == [steers[k] EXCEPT !.admitted = @ \/ steers[k].id = c]
  <2>1. /\ s.id = steers[k].id /\ s.text = steers[k].text
        /\ s.admitted = (steers[k].admitted \/ steers[k].id = c)
    BY <1>3
  <2>2. Admit(c)[k] = s
    BY <1>8
  <2> HIDE DEF s, Admit
  <2> QED
    BY <2>1, <2>2, Zenon
<1>10. DOMAIN Admit(c) = DOMAIN steers
  BY <1>1, <1>7
<1> HIDE DEF Admit
<1> QED
  BY <1>1, <1>6, <1>7, <1>9, <1>10, Zenon

\* What the type invariant needs of the operators.
LEMMA SubmissionIsFollowUp ==
  ASSUME NEW t \in Text, NEW ids \in SUBSET Id
  PROVE  Submission(t, ids) \in FollowUp /\ Submission(t, ids).text = t
                                         /\ Submission(t, ids).ids = ids
BY DEF FollowUp, Submission

LEMMA NoneIsNoText == None \notin Text
BY TurnAssumption DEF Text

\* The first and the last of a queue.
LEMMA FrontTyped ==
  ASSUME NEW E, NEW s \in Seq(E), s # <<>>
  PROVE  /\ s[Len(s)] \in E /\ SubSeq(s, 1, Len(s) - 1) \in Seq(E)
         /\ Head(s) \in E /\ Tail(s) \in Seq(E)
BY CountFront, CountTail

\* Each step keeps the types.
LEMMA KeyboardTyped == ASSUME Typed, Keyboard PROVE Typed'
<1> USE StaysTyped
<1>1. ASSUME NEW i \in Input, Type(i) PROVE Typed'
  <2>1. <<i>> \in Text
    BY DEF Text
  <2>2. InputsTyped'
    BY <1>1, <2>1 DEF Type, Typed, InputsTyped
  <2> QED
    BY <1>1, <2>2 DEF Type, Typed
<1>2. CASE Enter
  <2>1. Submission(editor, {}) \in FollowUp
    BY <1>2, SubmissionIsFollowUp DEF Enter, Typed, InputsTyped
  <2>2. PICK primary \in BOOLEAN : SubmitIn(call, Submission(editor, {}), FALSE, primary)
    BY <1>2, Zenon DEF Enter
  <2>3. CallsTyped'
    BY <2>1, <2>2, SubmitTyped DEF Typed, CallsTyped
  <2>4. InputsTyped'
    BY <1>2 DEF Enter, Typed, InputsTyped
  <2> QED
    BY <1>2, <2>3, <2>4 DEF Enter, Typed
<1>3. CASE QueueDraft
  <2>1. Submission(editor, {}) \in FollowUp
    BY <1>3, SubmissionIsFollowUp DEF QueueDraft, Typed, InputsTyped
  <2>2. QueuesTyped'
    BY <1>3, <2>1, AppendProperties DEF QueueDraft, Typed, QueuesTyped
  <2>3. InputsTyped'
    BY <1>3 DEF QueueDraft, Typed, InputsTyped
  <2> QED
    BY <1>3, <2>2, <2>3 DEF QueueDraft, Typed
<1>4. CASE EditLatest
  <2>1. followUps[Len(followUps)] \in FollowUp /\ SubSeq(followUps, 1, Len(followUps) - 1) \in Seq(FollowUp)
    BY <1>4, FrontTyped DEF EditLatest, Typed, QueuesTyped
  <2>2. QueuesTyped'
    BY <1>4, <2>1 DEF EditLatest, Typed, QueuesTyped
  <2>3. InputsTyped'
    BY <1>4, <2>1 DEF EditLatest, Typed, InputsTyped, FollowUp
  <2> QED
    BY <1>4, <2>2, <2>3 DEF EditLatest, Typed
<1>5. CASE CtrlC \/ Esc
  <2>1. ASSUME editor # None, editor' = None, gone' = gone \cup InText(editor), UNCHANGED fresh
        PROVE  InputsTyped'
    <3>1. editor \in Seq(Input)
      BY <2>1 DEF Typed, InputsTyped, Text
    <3>2. InText(editor) \subseteq Input
      BY <3>1, InTextOfText
    <3> QED
      BY <2>1, <3>2 DEF Typed, InputsTyped
  <2>2. InputsTyped'
    BY <1>5, <2>1 DEF CtrlC, Esc, Typed, InputsTyped
  <2>3. TurnTyped'
    BY <1>5 DEF CtrlC, Esc, Typed, TurnTyped, PrimaryTurn, turnVars
  <2> QED
    BY <1>5, <2>2, <2>3 DEF CtrlC, Esc, Typed
<1> QED
  BY <1>1, <1>2, <1>3, <1>4, <1>5 DEF Keyboard

LEMMA GivenTyped ==
  ASSUME Typed, NEW text, Give(text) PROVE delivered' \in [Input -> Nat]
BY DEF Give, Typed, RuntimeTyped

\* The turn the runtime runs is that of a call which waits for its answer.
RunningTurn ==
  running # None => call[running].at = "turn" /\ call[running].answer = "none"

LEMMA RuntimeStepTyped == ASSUME Typed, RunningTurn, Runtime PROVE Typed'
<1> USE StaysTyped
<1>0. held \subseteq HeldSteer /\ running \in Id \cup {None} /\ delivered \in [Input -> Nat]
      /\ TypedCalls(call)
  BY DEF Typed, RuntimeTyped, CallsTyped
<1>1. ASSUME NEW c \in Id, RuntimeStarts(c) PROVE Typed'
  <2>1. RuntimeTyped'
    BY <1>0, <1>1, GivenTyped DEF RuntimeStarts, RuntimeTyped
  <2> QED
    BY <1>1, <2>1 DEF RuntimeStarts, Typed
<1>2. ASSUME NEW c \in Id, RuntimeQueues(c) PROVE Typed'
  <2>1. [id |-> c, text |-> call[c].text, epoch |-> call[c].epoch] \in HeldSteer
    BY <1>0, <1>2 DEF RuntimeQueues, TypedCalls, SubmitCall, HeldSteer
  <2>2. RuntimeTyped'
    BY <1>0, <1>2, <2>1 DEF RuntimeQueues, RuntimeTyped
  <2>3. CallsTyped'
    BY <1>2, MoveTyped DEF RuntimeQueues
  <2>4. QueuesTyped'
    BY <1>2, AdmittedTyped DEF RuntimeQueues, Typed, QueuesTyped
  <2> QED
    BY <1>2, <2>2, <2>3, <2>4 DEF RuntimeQueues, Typed
<1>3. ASSUME NEW c \in Id, RuntimeRefuses(c) PROVE Typed'
  <2>1. CallsTyped'
    BY <1>3, MoveTyped DEF RuntimeRefuses
  <2> QED
    BY <1>3, <2>1 DEF RuntimeRefuses, Typed
<1>4. ASSUME NEW h \in held, RuntimeDrains(h) PROVE Typed'
  <2>1. RuntimeTyped'
    BY <1>0, <1>4, GivenTyped DEF RuntimeDrains, RuntimeTyped
  <2>2. QueuesTyped'
    BY <1>4, UntrackedTyped DEF RuntimeDrains, Typed, QueuesTyped
  <2> QED
    BY <1>4, <2>1, <2>2 DEF RuntimeDrains, Typed
<1>5. ASSUME NEW h \in held, RuntimeDiscards(h) PROVE Typed'
  <2>1. RuntimeTyped'
    BY <1>0, <1>5 DEF RuntimeDiscards, RuntimeTyped
  <2>2. Submission(h.text, {}) \in FollowUp
    BY <1>0, SubmissionIsFollowUp DEF HeldSteer
  <2>3. Untrack(h.id) \in Seq(PendingSteer) /\ Requeue(h.text) \in Seq(FollowUp)
    BY <2>2, UntrackedTyped, AppendProperties DEF Requeue, Typed, QueuesTyped
  <2>4. QueuesTyped'
    BY <1>5, <2>3 DEF RuntimeDiscards, Typed, QueuesTyped
  <2> QED
    BY <1>5, <2>1, <2>4 DEF RuntimeDiscards, Typed
<1>6. CASE RuntimeEnds
  <2>1. RuntimeTyped'
    BY <1>0, <1>6 DEF RuntimeEnds, RuntimeTyped
  <2>2. PICK a \in {"ok", "threw"} : call' = [call EXCEPT ![running].answer = a]
    BY <1>6 DEF RuntimeEnds
  <2>3. running \in Id /\ call[running].at # "none" /\ UNCHANGED calls
    BY <1>0, <1>6 DEF RuntimeEnds, RunningTurn
  <2>4. CallsTyped'
    <3> DEFINE r == running
    <3>1. r \in Id /\ call[r].at # "none" /\ call' = [call EXCEPT ![r].answer = a]
      BY <2>2, <2>3
    <3> HIDE DEF r
    <3> QED
      BY <2>3, <3>1, MoveTyped
  <2> QED
    BY <1>6, <2>1, <2>4 DEF RuntimeEnds, Typed
<1>7. CASE HandoffBegins \/ HandoffEnds
  <2>1. handoff \in [active: BOOLEAN, interrupting: BOOLEAN] /\ handoffs \in 0..MaxHandoffs
        /\ drain \in BOOLEAN /\ MaxHandoffs \in Nat
    BY TurnAssumption DEF Typed, HandoffTyped
  <2>2. ASSUME HandoffBegins PROVE HandoffTyped'
    <3>1. handoffs' = handoffs + 1 /\ handoffs < MaxHandoffs /\ drain' = drain
          /\ handoff' = [handoff EXCEPT !.active = TRUE]
      BY <2>2 DEF HandoffBegins
    <3>2. handoffs' \in 0..MaxHandoffs
      BY <2>1, <3>1
    <3> QED
      BY <2>1, <3>1, <3>2 DEF HandoffTyped
  <2>3. ASSUME HandoffEnds PROVE HandoffTyped'
    BY <2>1, <2>3 DEF HandoffEnds, HandoffTyped
  <2> QED
    BY <1>7, <2>2, <2>3 DEF HandoffBegins, HandoffEnds, Typed
<1> QED
  BY <1>1, <1>2, <1>3, <1>4, <1>5, <1>6, <1>7 DEF Runtime

LEMMA StartTyped ==
  ASSUME Typed, NEW c \in Id, call[c].at # "none", Start(c), UNCHANGED calls
  PROVE  CallsTyped' /\ QueuesTyped' /\ TurnTyped'
<1>1. turnEpoch + 1 \in 0..MaxTurns
  BY TurnAssumption DEF Start, Typed, TurnTyped
<1>2. CallsTyped'
  BY <1>1, MoveTyped DEF Start
<1>3. QueuesTyped' /\ TurnTyped'
  BY <1>1 DEF Start, Typed, QueuesTyped, TurnTyped, PrimaryTurn
<1> QED
  BY <1>2, <1>3

LEMMA PostponeTyped ==
  ASSUME Typed, NEW c \in Id, call[c].at # "none", Postpone(c), UNCHANGED <<calls, drain, handoffs>>
  PROVE  CallsTyped' /\ QueuesTyped' /\ HandoffTyped'
<1>1. Submission(call[c].text, call[c].ids) \in FollowUp
  BY SubmissionIsFollowUp DEF Typed, CallsTyped, TypedCalls, SubmitCall
<1>2. CallsTyped'
  BY MoveTyped DEF Postpone
<1>3. QueuesTyped'
  BY <1>1, AppendProperties DEF Postpone, Typed, QueuesTyped
<1>4. HandoffTyped'
  BY DEF Postpone, Typed, HandoffTyped
<1> QED
  BY <1>2, <1>3, <1>4

LEMMA CommandTyped == ASSUME Typed, NEW c \in Id, Command(c) PROVE Typed'
<1> USE StaysTyped
<1>1. call[c].at = "command" /\ UNCHANGED <<calls, drain, handoffs, runtimeVars, fresh, editor>>
  BY DEF Command
<1>2. CASE End(c) /\ gone' = gone \cup InText(call[c].text) /\ UNCHANGED <<queueVars, turnVars, handoff>>
  <2>1. InText(call[c].text) \subseteq Input
    BY InTextOfText DEF Typed, CallsTyped, TypedCalls, SubmitCall
  <2>2. CallsTyped'
    BY <1>1, <1>2, MoveTyped
  <2>3. InputsTyped'
    BY <1>1, <1>2, <2>1 DEF Typed, InputsTyped
  <2> QED
    BY <1>1, <1>2, <2>2, <2>3 DEF Typed, handoffVars
<1>3. CASE call' = [call EXCEPT ![c].at = "login"] /\ autoSend' = TRUE
           /\ UNCHANGED <<gone, followUps, steers, turnVars, handoff>>
  <2>1. CallsTyped'
    BY <1>1, <1>3, MoveTyped
  <2>2. QueuesTyped'
    BY <1>3 DEF Typed, QueuesTyped
  <2> QED
    BY <1>1, <1>3, <2>1, <2>2 DEF Typed, handoffVars, inputVars
<1>4. CASE Postpone(c) /\ UNCHANGED gone
  BY <1>1, <1>4, PostponeTyped DEF Postpone, Typed, inputVars
<1>5. CASE Start(c) /\ UNCHANGED gone
  BY <1>1, <1>5, StartTyped DEF Start, Typed, inputVars, handoffVars
<1>6. CASE call' = [call EXCEPT ![c].at = "prepare"] /\ UNCHANGED <<gone, queueVars, turnVars, handoff>>
  <2>1. CallsTyped'
    BY <1>1, <1>6, MoveTyped
  <2> QED
    BY <1>1, <1>6, <2>1 DEF Typed, handoffVars, inputVars
<1> QED
  BY <1>2, <1>3, <1>4, <1>5, <1>6 DEF Command

LEMMA SettleTurnTyped == ASSUME Typed, turn # None, NEW c \in Id, SettleTurn(c) PROVE Typed'
<1> USE StaysTyped
<1> DEFINE forSteers == Cancelled(call[c].answer) /\ turn.forSteers
           queue     == Recovered(forSteers)
           open      == \/ forSteers /\ steers # <<>>
                        \/ call[c].answer = "ok" /\ autoSend
           ended     == [call EXCEPT ![c] = NoCall]
<1>1. forSteers \in BOOLEAN
  BY DEF Typed, TurnTyped, PrimaryTurn, Cancelled
<1>2. TypedCalls(ended)
  BY EndTyped
<1>3. /\ autoSend' = open
      /\ \/ /\ open /\ queue # <<>>
            /\ SubmitIn(ended, Head(queue), TRUE, FALSE)
            /\ followUps' = Tail(queue)
         \/ /\ ~open \/ queue = <<>>
            /\ followUps' = queue
            /\ call' = ended /\ UNCHANGED calls
      /\ turn' = None /\ steers' = <<>>
      /\ gone' = gone \cup {i \in InText(call[c].text) : delivered[i] = 0}
      /\ UNCHANGED <<fresh, editor, turnEpoch, handoffVars, runtimeVars>>
  BY Zenon DEF SettleTurn
<1>4. queue \in Seq(FollowUp)
  BY <1>1, RecoveredShape DEF Typed, QueuesTyped
<1>5. open \in BOOLEAN
  BY <1>1 DEF Typed, QueuesTyped
<1>6. InText(call[c].text) \subseteq Input
  BY InTextOfText DEF Typed, CallsTyped, TypedCalls, SubmitCall
<1> HIDE DEF forSteers, queue, open, ended
<1>7. CallsTyped'
  <2>1. CASE queue # <<>> /\ SubmitIn(ended, Head(queue), TRUE, FALSE)
    <3>1. Head(queue) \in FollowUp
      BY <1>4, <2>1, FrontTyped
    <3> QED
      BY <1>2, <2>1, <3>1, SubmitTyped
  <2>2. CASE call' = ended /\ UNCHANGED calls
    BY <1>2, <2>2 DEF Typed, CallsTyped
  <2> QED
    BY <1>3, <2>1, <2>2
<1>8. QueuesTyped'
  <2>1. followUps' \in Seq(FollowUp)
    <3>1. queue # <<>> => Tail(queue) \in Seq(FollowUp)
      BY <1>4, FrontTyped
    <3> QED
      BY <1>3, <1>4, <3>1
  <2>2. steers' \in Seq(PendingSteer)
    BY <1>3
  <2> QED
    BY <1>3, <1>5, <2>1, <2>2 DEF QueuesTyped
<1>9. InputsTyped'
  BY <1>3, <1>6 DEF Typed, InputsTyped
<1>10. TurnTyped'
  BY <1>3 DEF Typed, TurnTyped
<1> QED
  BY <1>3, <1>7, <1>8, <1>9, <1>10 DEF Typed

LEMMA ResumedTyped == ASSUME Typed, TurnInv, Resumed PROVE Typed'
<1> USE StaysTyped
<1>1. ASSUME NEW c \in Id, Preflight(c) PROVE Typed'
  <2>1. Submission(call[c].text, call[c].ids) \in FollowUp /\ call[c].text \in Text
    BY <1>1, SubmissionIsFollowUp DEF Preflight, Typed, CallsTyped, TypedCalls, SubmitCall
  <2>2. CallsTyped'
    BY <1>1, MoveTyped DEF Preflight
  <2>3. QueuesTyped' /\ InputsTyped'
    <3>1. <<Submission(call[c].text, call[c].ids)>> \o followUps \in Seq(FollowUp)
      BY <2>1 DEF Typed, QueuesTyped
    <3> QED
      BY <1>1, <2>1, <3>1 DEF Preflight, Typed, QueuesTyped, InputsTyped, queueVars
  <2> QED
    BY <1>1, <2>2, <2>3 DEF Preflight, Typed
<1>2. ASSUME NEW c \in Id, Prepared(c) PROVE Typed'
  <2>1. call[c].at = "prepare" /\ UNCHANGED <<inputVars, calls, drain, handoffs, runtimeVars>>
    BY <1>2 DEF Prepared
  <2>2. CASE Steer(c)
    <3>1. [id |-> c, text |-> call[c].text, admitted |-> FALSE] \in PendingSteer
      BY <2>1 DEF Typed, CallsTyped, TypedCalls, PendingSteer
    <3>2. QueuesTyped'
      BY <2>2, <3>1, AppendProperties DEF Steer, Typed, QueuesTyped
    <3>3. CallsTyped'
      <4>1. turnEpoch \in 0..MaxTurns
        BY DEF Typed, TurnTyped
      <4> QED
        BY <2>1, <2>2, <4>1, MoveTyped DEF Steer
    <3> QED
      BY <2>1, <2>2, <3>2, <3>3 DEF Steer, Typed, handoffVars
  <2>3. CASE Postpone(c)
    BY <2>1, <2>3, PostponeTyped DEF Postpone, Typed
  <2>4. CASE Start(c)
    BY <2>1, <2>4, StartTyped DEF Start, Typed, handoffVars
  <2> QED
    BY <1>2, <2>2, <2>3, <2>4 DEF Prepared
<1>3. ASSUME NEW c \in Id, LoginEnds(c) PROVE Typed'
  <2>1. InText(call[c].text) \subseteq Input
    BY InTextOfText DEF Typed, CallsTyped, TypedCalls, SubmitCall
  <2>2. CallsTyped'
    BY <1>3, MoveTyped DEF LoginEnds
  <2>3. InputsTyped'
    BY <1>3, <2>1 DEF LoginEnds, Typed, InputsTyped
  <2> QED
    BY <1>3, <2>2, <2>3 DEF LoginEnds, Typed
<1>4. ASSUME NEW c \in Id, SettleSteer(c) PROVE Typed'
  <2>1. CallsTyped'
    BY <1>4, MoveTyped DEF SettleSteer
  <2>2. Submission(call[c].text, {}) \in FollowUp
    BY <1>4, SubmissionIsFollowUp DEF SettleSteer, Typed, CallsTyped, TypedCalls
  <2>3. Untrack(c) \in Seq(PendingSteer) /\ Requeue(call[c].text) \in Seq(FollowUp)
        /\ Admit(c) \in Seq(PendingSteer)
    BY <2>2, UntrackedTyped, AdmittedTyped, AppendProperties DEF Requeue, Typed, QueuesTyped
  <2>4. QueuesTyped'
    BY <1>4, <2>3 DEF SettleSteer, Typed, QueuesTyped
  <2>5. InputsTyped'
    <3>1. InText(call[c].text) \subseteq Input
      BY InTextOfText DEF Typed, CallsTyped, TypedCalls, SubmitCall
    <3> QED
      BY <1>4, <3>1 DEF SettleSteer, Typed, InputsTyped
  <2> QED
    BY <1>4, <2>1, <2>4, <2>5 DEF SettleSteer, Typed
<1>5. ASSUME NEW c \in Id, SettleTurn(c) PROVE Typed'
  BY <1>5, SettleTurnTyped DEF SettleTurn, TurnInv, OneActive
<1>6. CASE InterruptAnswered
  <2>1. TurnTyped'
    BY <1>6 DEF InterruptAnswered, Typed, TurnTyped, PrimaryTurn
  <2> QED
    BY <1>6, <2>1 DEF InterruptAnswered, Typed
<1>7. CASE HandoffInterrupted
  <2>1. HandoffTyped'
    <3>1. drain' = TRUE /\ handoffs' = handoffs
      BY <1>7 DEF HandoffInterrupted
    <3>2. handoff' \in [active: BOOLEAN, interrupting: BOOLEAN]
      <4>1. \/ handoff' = [active |-> FALSE, interrupting |-> FALSE]
            \/ handoff' = [handoff EXCEPT !.interrupting = FALSE]
        BY <1>7 DEF HandoffInterrupted
      <4>2. [handoff EXCEPT !.interrupting = FALSE] \in [active: BOOLEAN, interrupting: BOOLEAN]
        BY DEF Typed, HandoffTyped
      <4>3. [active |-> FALSE, interrupting |-> FALSE] \in [active: BOOLEAN, interrupting: BOOLEAN]
        OBVIOUS
      <4> QED
        BY <4>1, <4>2, <4>3, Zenon
    <3> QED
      BY <3>1, <3>2 DEF Typed, HandoffTyped
  <2>2. QueuesTyped'
    BY <1>7 DEF HandoffInterrupted, Typed, QueuesTyped
  <2> QED
    BY <1>7, <2>1, <2>2 DEF HandoffInterrupted, Typed
<1>8. CASE Drain
  <2>1. HandoffTyped'
    BY <1>8 DEF Drain, Typed, HandoffTyped
  <2>2. CallsTyped' /\ QueuesTyped'
    <3>1. CASE UNCHANGED <<callVars, followUps>>
      BY <1>8, <3>1 DEF Drain, Typed, QueuesTyped, queueVars
    <3>2. CASE followUps # <<>> /\ SubmitIn(call, Head(followUps), TRUE, FALSE) /\ followUps' = Tail(followUps)
      <4>1. Head(followUps) \in FollowUp /\ Tail(followUps) \in Seq(FollowUp)
        BY <3>2, FrontTyped DEF Typed, QueuesTyped
      <4>2. CallsTyped'
        BY <3>2, <4>1, SubmitTyped DEF Typed, CallsTyped
      <4> QED
        BY <1>8, <3>2, <4>1, <4>2 DEF Drain, Typed, QueuesTyped
    <3> QED
      BY <1>8, <3>1, <3>2 DEF Drain
  <2> QED
    BY <1>8, <2>1, <2>2 DEF Drain, Typed
<1> QED
  BY <1>1, <1>2, <1>3, <1>4, <1>5, <1>6, <1>7, <1>8 DEF Resumed

\* Every step keeps the types.
LEMMA TypedPreserved == ASSUME Typed, RunningTurn, TurnInv, [Next]_vars PROVE Typed'
<1>1. CASE UNCHANGED vars
  BY <1>1, StaysTyped DEF vars, Typed
<1> QED
  BY <1>1, CommandTyped, KeyboardTyped, RuntimeStepTyped, ResumedTyped DEF Next

-----------------------------------------------------------------------------
(* The pending steers and the calls they are of. *)

\* The pending steers as a set, and that no two are of one call of submit.
Entries(s) == {s[k] : k \in DOMAIN s}
Unique(s)  == \A j, k \in DOMAIN s : s[j].id = s[k].id => j = k

LEMMA EntriesTyped == ASSUME NEW E, NEW s \in Seq(E) PROVE Entries(s) \subseteq E
<1>1. DOMAIN s = 1..Len(s) /\ \A k \in 1..Len(s) : s[k] \in E
  BY LenProperties, ElementOfSeq
<1> QED
  BY <1>1 DEF Entries

\* The entries after a steer is added, admitted or taken out.
LEMMA AppendedEntries ==
  ASSUME NEW s \in Seq(PendingSteer), NEW e \in PendingSteer
  PROVE  /\ Entries(Append(s, e)) = Entries(s) \cup {e}
         /\ Unique(s) /\ (\A f \in Entries(s) : f.id # e.id) => Unique(Append(s, e))
<1>1. /\ Len(s) \in Nat /\ DOMAIN s = 1..Len(s)
      /\ DOMAIN Append(s, e) = 1..(Len(s) + 1)
      /\ \A k \in 1..Len(s) : Append(s, e)[k] = s[k]
      /\ Append(s, e)[Len(s) + 1] = e
  BY LenProperties, AppendProperties
<1>2. 1..(Len(s) + 1) = 1..Len(s) \cup {Len(s) + 1}
  BY <1>1
<1>3. Entries(Append(s, e)) = Entries(s) \cup {e}
  BY <1>1, <1>2 DEF Entries
<1>4. ASSUME Unique(s), \A f \in Entries(s) : f.id # e.id PROVE Unique(Append(s, e))
  <2>1. \A k \in 1..Len(s) : s[k].id # e.id
    BY <1>1, <1>4 DEF Entries
  <2> QED
    BY <1>1, <1>2, <1>4, <2>1 DEF Unique
<1> QED
  BY <1>3, <1>4

LEMMA AdmittedEntries ==
  ASSUME steers \in Seq(PendingSteer), NEW c, NEW i
  PROVE  /\ \A e \in Entries(Admit(c)) : \E f \in Entries(steers) : f.id = e.id /\ f.text = e.text
         /\ \A f \in Entries(steers) : \E e \in Entries(Admit(c)) :
              e.id = f.id /\ e.text = f.text /\ (f.admitted \/ f.id = c => e.admitted)
         /\ Unique(steers) => Unique(Admit(c))
         /\ Count(Admit(c), i) = Count(steers, i)
<1>1. /\ Admit(c) \in Seq(PendingSteer) /\ Len(Admit(c)) = Len(steers)
      /\ DOMAIN Admit(c) = DOMAIN steers
      /\ \A k \in DOMAIN steers : /\ Admit(c)[k].id = steers[k].id
                                  /\ Admit(c)[k].text = steers[k].text
                                  /\ Admit(c)[k].admitted = (steers[k].admitted \/ steers[k].id = c)
  BY AdmittedTyped
<1>2. Count(Admit(c), i) = Count(steers, i)
  <2>1. \A k \in 1..Len(steers) : Admit(c)[k].text = steers[k].text
    BY <1>1, LenProperties
  <2> QED
    BY <1>1, <2>1, CountSame
<1>3. \A e \in Entries(Admit(c)) : \E f \in Entries(steers) : f.id = e.id /\ f.text = e.text
  BY <1>1 DEF Entries
<1>4. \A f \in Entries(steers) : \E e \in Entries(Admit(c)) :
        e.id = f.id /\ e.text = f.text /\ (f.admitted \/ f.id = c => e.admitted)
  BY <1>1 DEF Entries
<1>5. Unique(steers) => Unique(Admit(c))
  BY <1>1 DEF Unique
<1> QED
  BY <1>2, <1>3, <1>4, <1>5

LEMMA UntrackedEntries ==
  ASSUME steers \in Seq(PendingSteer), Unique(steers), NEW e \in Entries(steers), NEW i
  PROVE  /\ Entries(Untrack(e.id)) = Entries(steers) \ {e}
         /\ \A f \in Entries(Untrack(e.id)) : f.id # e.id
         /\ Unique(Untrack(e.id))
         /\ Count(steers, i) = Count(Untrack(e.id), i) + Bit(i \in InText(e.text))
<1>1. /\ Len(steers) \in Nat /\ DOMAIN steers = 1..Len(steers)
      /\ \A k \in 1..Len(steers) : steers[k] \in PendingSteer
  BY LenProperties, ElementOfSeq
<1>2. PICK k \in 1..Len(steers) : e = steers[k]
  BY <1>1 DEF Entries
<1>3. SteerIndex(e.id) = k
  <2>1. \A j \in DOMAIN steers : steers[j].id = e.id => j = k
    BY <1>1, <1>2 DEF Unique
  <2>2. k \in DOMAIN steers /\ steers[k].id = e.id
        /\ \A j \in DOMAIN steers : steers[j].id = e.id => k <= j
    BY <1>1, <1>2, <2>1
  <2> QED
    BY <2>1, <2>2 DEF SteerIndex
<1> DEFINE t == SubSeq(steers, 1, k - 1) \o SubSeq(steers, k + 1, Len(steers))
<1>4. Untrack(e.id) = t
  <2>1. Tracked(e.id)
    BY <1>1, <1>2 DEF Tracked
  <2> QED
    BY <1>3, <2>1 DEF Untrack
<1>5. /\ t \in Seq(PendingSteer) /\ Len(t) = Len(steers) - 1
      /\ \A j \in 1..Len(t) : t[j] = IF j < k THEN steers[j] ELSE steers[j + 1]
      /\ Count(steers, i) = Count(t, i) + Bit(i \in InText(steers[k].text))
  BY ZenonT(40), CountRemove
<1> HIDE DEF t
<1>6. DOMAIN t = 1..(Len(steers) - 1)
  BY <1>1, <1>5, LenProperties
<1>7. Entries(t) = Entries(steers) \ {e}
  <2>1. ASSUME NEW j \in 1..(Len(steers) - 1) PROVE t[j] \in Entries(steers) /\ t[j].id # e.id
    <3>1. CASE j < k
      <4>1. j \in 1..Len(steers) /\ t[j] = steers[j] /\ j # k
        BY <1>1, <1>5, <3>1
      <4> QED
        BY <1>1, <1>2, <4>1 DEF Entries, Unique
    <3>2. CASE ~(j < k)
      <4>1. j + 1 \in 1..Len(steers) /\ t[j] = steers[j + 1] /\ j + 1 # k
        BY <1>1, <1>5, <3>2
      <4> QED
        BY <1>1, <1>2, <4>1 DEF Entries, Unique
    <3> QED
      BY <3>1, <3>2
  <2>2. ASSUME NEW j \in 1..Len(steers), j # k PROVE steers[j] \in Entries(t)
    <3>1. CASE j < k
      <4>1. j \in 1..(Len(steers) - 1) /\ t[j] = steers[j]
        BY <1>1, <1>5, <3>1
      <4> QED
        BY <1>6, <4>1 DEF Entries
    <3>2. CASE ~(j < k)
      <4>1. j - 1 \in 1..(Len(steers) - 1) /\ t[j - 1] = steers[j]
        BY <1>1, <1>5, <2>2, <3>2
      <4> QED
        BY <1>6, <4>1 DEF Entries
    <3> QED
      BY <3>1, <3>2
  <2> QED
    BY <1>1, <1>2, <1>6, <2>1, <2>2 DEF Entries
<1>8. \A f \in Entries(t) : f.id # e.id
  BY <1>1, <1>2, <1>7 DEF Entries, Unique
<1>9. Unique(t)
  <2> SUFFICES ASSUME NEW j \in 1..(Len(steers) - 1), NEW l \in 1..(Len(steers) - 1), t[j].id = t[l].id
               PROVE  j = l
    BY <1>6 DEF Unique
  <2> DEFINE up(x) == IF x < k THEN x ELSE x + 1
  <2>1. \A x \in 1..(Len(steers) - 1) : up(x) \in 1..Len(steers) /\ t[x] = steers[up(x)]
    BY <1>1, <1>5
  <2>2. steers[up(j)].id = steers[up(l)].id /\ up(j) \in DOMAIN steers /\ up(l) \in DOMAIN steers
    BY <1>1, <2>1
  <2>3. up(j) = up(l)
    <3> HIDE DEF up
    <3> QED
      BY <2>2 DEF Unique
  <2> QED
    BY <1>1, <2>3
<1> QED
  BY <1>2, <1>4, <1>5, <1>7, <1>8, <1>9

\* What a step may do to a call of submit.
Opened(c) ==
  /\ c = calls + 1 /\ calls' = c
  /\ call[c].at = "none" /\ call'[c].at \in {"command", "prepare", "preflight"}
  /\ call'[c].at = "command" <=> Lead(call'[c].text) \in Slash
  /\ call'[c].answer = "none"
Ended(c) ==
  call'[c] = NoCall /\ (call[c].at \in {"turn", "steering"} => call[c].answer # "none")
Advanced(c) ==
  /\ call'[c].text = call[c].text /\ call'[c].answer = call[c].answer
  /\ \/ call[c].at = "preflight" /\ call'[c].at = "prepare"
     \/ call[c].at = "command" /\ call'[c].at = "login"
     \/ call[c].at = "command" /\ Len(call[c].text) = 1 /\ call'[c].at = "prepare"
Started(c) ==
  /\ Start(c) /\ call[c].at \in {"prepare", "command"}
  /\ call'[c].at = "turn" /\ call'[c].text = call[c].text
Steered(c) ==
  /\ Steer(c) /\ call[c].at = "prepare"
  /\ call'[c].at = "steering" /\ call'[c].text = call[c].text /\ call'[c].epoch = turnEpoch
  /\ call'[c].answer = call[c].answer
Answered(c) ==
  /\ call[c].at \in {"turn", "steering"} /\ call[c].answer = "none"
  /\ call'[c].at = call[c].at /\ call'[c].text = call[c].text /\ call'[c].epoch = call[c].epoch
  /\ call'[c].answer # "none"
  /\ RuntimeQueues(c) \/ RuntimeRefuses(c) \/ (RuntimeEnds /\ c = running)

\* How many calls there were only grows.
CallSteps(c) ==
  \/ call'[c] = call[c]
  \/ Opened(c) \/ Ended(c) \/ Advanced(c) \/ Started(c) \/ Steered(c) \/ Answered(c)

\* A call given a number by SubmitIn, beside the ones `cs` there were.
LEMMA SubmitOpens ==
  ASSUME Typed, TurnInv, NEW cs, TypedCalls(cs), \A d \in Id : cs[d] = call[d] \/ (cs[d] = NoCall /\ d <= calls),
         NEW sub, NEW queued, NEW primary, SubmitIn(cs, sub, queued, primary)
  PROVE  /\ Opened(calls + 1) /\ calls + 1 \in Id
         /\ \A d \in Id : d # calls + 1 => call'[d] = cs[d]
<1>1. cs = [d \in Id |-> cs[d]]
  BY DEF TypedCalls
<1>2. /\ calls + 1 \in Id /\ calls' = calls + 1
      /\ \A d \in Id : d # calls + 1 => call'[d] = cs[d]
      /\ call'[calls + 1].at \in {"command", "prepare", "preflight"}
  BY <1>1, SubmitAddsOne
<1>3. call[calls + 1].at = "none"
  BY <1>2 DEF TurnInv, NumbersAreFresh, Typed, CallsTyped
<1>4. /\ call'[calls + 1].at = "command" <=> Lead(call'[calls + 1].text) \in Slash
      /\ call'[calls + 1].answer = "none"
  BY <1>2 DEF SubmitIn, TypedCalls
<1> QED
  BY <1>2, <1>3, <1>4 DEF Opened

\* What one step does to each call of submit.
LEMMA CallLife ==
  ASSUME Typed, TurnInv, RunningTurn, [Next]_vars
  PROVE  calls' >= calls /\ \A d \in Id : CallSteps(d)
<1> USE DEF CallSteps
<1>0. /\ call \in [Id -> SubmitCall] /\ calls \in 0..MaxCalls /\ calls \in Nat /\ DOMAIN call = Id
      /\ \A d \in Id : call[d] \in SubmitCall /\ (call[d].at # "none" => d <= calls)
  BY DEF Typed, CallsTyped, TypedCalls, TurnInv, NumbersAreFresh, Id
<1> DEFINE Goal == calls' >= calls /\ \A d \in Id : CallSteps(d)
<1>1. ASSUME UNCHANGED callVars PROVE Goal
  BY <1>0, <1>1 DEF callVars
<1>2. ASSUME NEW cs, TypedCalls(cs), NEW sub, NEW queued, NEW primary,
             SubmitIn(cs, sub, queued, primary),
             \A d \in Id : cs[d] = call[d]
                          \/ (/\ d <= calls /\ cs[d] = NoCall
                              /\ call[d].at \in {"turn", "steering"} => call[d].answer # "none")
      PROVE  Goal
  <2>1. /\ Opened(calls + 1) /\ calls + 1 \in Id
        /\ \A d \in Id : d # calls + 1 => call'[d] = cs[d]
    BY <1>2, SubmitOpens
  <2>2. \A d \in Id : d # calls + 1 => call'[d] = call[d] \/ Ended(d)
    BY <1>2, <2>1 DEF Ended
  <2> QED
    BY <1>0, <2>1, <2>2 DEF Opened
<1>3. ASSUME NEW c \in Id, calls' = calls, \A d \in Id : d # c => call'[d] = call[d], CallSteps(c)
      PROVE  Goal
  BY <1>0, <1>3
<1>4. ASSUME NEW c \in Id, End(c), calls' = calls,
             call[c].at \in {"turn", "steering"} => call[c].answer # "none"
      PROVE  Goal
  <2>1. call'[c] = NoCall /\ \A d \in Id : d # c => call'[d] = call[d]
    BY <1>0, <1>4 DEF End
  <2> QED
    BY <1>3, <1>4, <2>1 DEF Ended
<1>5. ASSUME NEW c \in Id, Start(c), call[c].at \in {"prepare", "command"}, calls' = calls PROVE Goal
  <2>1. call'[c].at = "turn" /\ call'[c].text = call[c].text
        /\ \A d \in Id : d # c => call'[d] = call[d]
    BY <1>0, <1>5 DEF Start, SubmitCall
  <2> QED
    BY <1>3, <1>5, <2>1 DEF Started
<1>6. ASSUME NEW c \in Id, NEW s, call' = [call EXCEPT ![c].at = s], calls' = calls,
             \/ call[c].at = "preflight" /\ s = "prepare"
             \/ call[c].at = "command" /\ s = "login"
             \/ call[c].at = "command" /\ Len(call[c].text) = 1 /\ s = "prepare"
      PROVE  Goal
  <2>1. call'[c].at = s /\ call'[c].text = call[c].text /\ call'[c].answer = call[c].answer
        /\ \A d \in Id : d # c => call'[d] = call[d]
    BY <1>0, <1>6 DEF SubmitCall
  <2> QED
    BY <1>3, <1>6, <2>1 DEF Advanced
<1>7. ASSUME NEW c \in Id, NEW a, a # "none", call[c].at \in {"turn", "steering"},
             call[c].answer = "none", call' = [call EXCEPT ![c].answer = a], calls' = calls,
             RuntimeQueues(c) \/ RuntimeRefuses(c) \/ (RuntimeEnds /\ c = running)
      PROVE  Goal
  <2>1. /\ call'[c].at = call[c].at /\ call'[c].text = call[c].text /\ call'[c].epoch = call[c].epoch
        /\ call'[c].answer = a /\ \A d \in Id : d # c => call'[d] = call[d]
    BY <1>0, <1>7 DEF SubmitCall
  <2>2. Answered(c)
    BY <1>7, <2>1 DEF Answered
  <2> QED
    BY <1>3, <1>7, <2>1, <2>2
<1> HIDE DEF Goal
<1>8. ASSUME NEW c \in Id, Command(c) PROVE Goal
  <2>1. call[c].at = "command" /\ calls' = calls
    BY <1>8 DEF Command
  <2> QED
    BY <1>4, <1>5, <1>6, <1>8, <2>1 DEF Command, Postpone
<1>9. ASSUME Keyboard PROVE Goal
  <2>1. CASE Enter
    <3>1. PICK primary \in BOOLEAN : SubmitIn(call, Submission(editor, {}), FALSE, primary)
      BY <2>1, Zenon DEF Enter
    <3>2. TypedCalls(call)
      BY DEF Typed, CallsTyped
    <3> QED
      BY <1>2, <3>1, <3>2
  <2> QED
    BY <1>1, <1>9, <2>1 DEF Keyboard, Type, QueueDraft, EditLatest, CtrlC, Esc
<1>10. ASSUME Runtime PROVE Goal
  <2>1. ASSUME NEW c \in Id, RuntimeQueues(c) \/ RuntimeRefuses(c) PROVE Goal
    <3>1. PICK a : a # "none" /\ call' = [call EXCEPT ![c].answer = a]
      BY <2>1 DEF RuntimeQueues, RuntimeRefuses
    <3>2. call[c].at \in {"turn", "steering"} /\ call[c].answer = "none" /\ calls' = calls
      BY <2>1 DEF RuntimeQueues, RuntimeRefuses
    <3> QED
      BY <1>7, <2>1, <3>1, <3>2
  <2>2. CASE RuntimeEnds
    <3> DEFINE r == running
    <3>1. PICK a : a # "none" /\ call' = [call EXCEPT ![r].answer = a]
      BY <2>2 DEF RuntimeEnds
    <3>2. r \in Id /\ call[r].at = "turn" /\ call[r].answer = "none" /\ calls' = calls /\ r = running
      BY <2>2 DEF RuntimeEnds, RunningTurn, Typed, RuntimeTyped
    <3> HIDE DEF r
    <3> QED
      BY <1>7, <2>2, <3>1, <3>2
  <2> QED
    BY <1>1, <1>10, <2>1, <2>2 DEF Runtime, RuntimeStarts, RuntimeDrains, RuntimeDiscards,
       HandoffBegins, HandoffEnds
<1>11. ASSUME Resumed PROVE Goal
  <2>1. ASSUME NEW c \in Id, Preflight(c) PROVE Goal
    BY <1>4, <1>6, <2>1 DEF Preflight
  <2>2. ASSUME NEW c \in Id, Prepared(c) PROVE Goal
    <3>1. call[c].at = "prepare" /\ calls' = calls
      BY <2>2 DEF Prepared
    <3>2. ASSUME Steer(c) PROVE Goal
      <4>1. call'[c].at = "steering" /\ call'[c].text = call[c].text /\ call'[c].epoch = turnEpoch
            /\ call'[c].answer = call[c].answer /\ \A d \in Id : d # c => call'[d] = call[d]
        BY <1>0, <3>2 DEF Steer, SubmitCall
      <4> QED
        BY <1>3, <3>1, <3>2, <4>1 DEF Steered
    <3> QED
      BY <1>4, <1>5, <2>2, <3>1, <3>2 DEF Prepared, Postpone
  <2>3. ASSUME NEW c \in Id, LoginEnds(c) \/ SettleSteer(c) PROVE Goal
    BY <1>4, <2>3 DEF LoginEnds, SettleSteer
  <2>4. ASSUME NEW c \in Id, SettleTurn(c) PROVE Goal
    <3> DEFINE ended == [call EXCEPT ![c] = NoCall]
    <3>1. call[c].at = "turn" /\ call[c].answer # "none" /\ c <= calls
      BY <1>0, <2>4 DEF SettleTurn
    <3>2. \/ \E sub : SubmitIn(ended, sub, TRUE, FALSE)
          \/ call' = ended /\ calls' = calls
      BY <2>4 DEF SettleTurn
    <3>3. TypedCalls(ended) /\ ended[c] = NoCall /\ \A d \in Id : d # c => ended[d] = call[d]
      BY <1>0, EndTyped
    <3>4. CASE call' = ended /\ calls' = calls
      BY <1>4, <3>1, <3>4 DEF End
    <3> HIDE DEF ended
    <3>5. ASSUME NEW sub, SubmitIn(ended, sub, TRUE, FALSE) PROVE Goal
      BY <1>2, <3>1, <3>3, <3>5
    <3> QED
      BY <3>2, <3>4, <3>5
  <2>5. CASE Drain
    <3>1. TypedCalls(call)
      BY DEF Typed, CallsTyped
    <3>2. \/ UNCHANGED callVars
          \/ \E sub : SubmitIn(call, sub, TRUE, FALSE)
      BY <2>5 DEF Drain
    <3> QED
      BY <1>1, <1>2, <3>1, <3>2
  <2> QED
    BY <1>1, <1>11, <2>1, <2>2, <2>3, <2>4, <2>5 DEF Resumed, InterruptAnswered, HandoffInterrupted
<1> QED
  BY <1>1, <1>8, <1>9, <1>10, <1>11 DEF Next, vars, Goal

-----------------------------------------------------------------------------
(* What the runtime holds is what is pending. *)

\* A pending steer is of a call that has been made, and steers or has settled.
SteersTracked ==
  /\ Unique(steers)
  /\ \A e \in Entries(steers) :
       /\ e.id <= calls /\ call[e.id].at \in {"none", "steering"}
       /\ call[e.id].at = "steering" =>
            e.text = call[e.id].text /\ call[e.id].epoch = turnEpoch
  /\ \A c \in Id : call[c].at = "steering" => call[c].epoch <= turnEpoch
  /\ \A c \in Id : turn # None /\ call[c].at = "steering" /\ call[c].epoch = turnEpoch
                   /\ call[c].answer = "none" => \E e \in Entries(steers) : e.id = c

\* An item the runtime holds is a pending steer, word for word, of the turn it
\* was meant for, or one whose turn is over.
HeldTracked ==
  /\ \A g, h \in held : g.id = h.id => g = h
  /\ \A h \in held :
       /\ h.epoch <= turnEpoch /\ h.id <= calls /\ call[h.id].at \in {"none", "steering"}
       /\ call[h.id].at = "steering" =>
            call[h.id].answer \in {"queued", "threw"} /\ call[h.id].epoch = h.epoch
       /\ turn # None /\ h.epoch = turnEpoch =>
            \E e \in Entries(steers) :
              /\ e.id = h.id /\ e.text = h.text
              /\ call[h.id].at = "steering" /\ call[h.id].answer = "threw" => e.admitted

\* The inductive invariant of the steers.
TrackInv ==
  Typed /\ TurnInv /\ SteersNeedTurn /\ RunningTurn /\ SteersTracked /\ HeldTracked

\* The number of the turn only grows, and only with a turn that starts.
LEMMA EpochLife ==
  ASSUME Typed, SteersNeedTurn, [Next]_vars
  PROVE  \/ turnEpoch' = turnEpoch /\ (turn' # None => turn # None)
         \/ /\ turnEpoch' = turnEpoch + 1 /\ turn = None /\ steers = <<>> /\ steers' = <<>>
            /\ UNCHANGED <<held, running, delivered>>
<1> DEFINE Goal == \/ turnEpoch' = turnEpoch /\ (turn' # None => turn # None)
                   \/ /\ turnEpoch' = turnEpoch + 1 /\ turn = None /\ steers = <<>> /\ steers' = <<>>
                      /\ UNCHANGED <<held, running, delivered>>
<1>1. ASSUME UNCHANGED turnVars PROVE Goal
  BY <1>1 DEF turnVars
<1>2. ASSUME UNCHANGED turnEpoch, turn # None PROVE Goal
  BY <1>2
<1>3. ASSUME NEW c \in Id, Start(c), UNCHANGED runtimeVars PROVE Goal
  BY <1>3 DEF Start, SteersNeedTurn, runtimeVars
<1> HIDE DEF Goal
<1>4. ASSUME NEW c \in Id, Command(c) PROVE Goal
  BY <1>1, <1>3, <1>4 DEF Command, Postpone
<1>5. ASSUME Keyboard PROVE Goal
  BY <1>1, <1>2, <1>5 DEF Keyboard, Type, Enter, QueueDraft, EditLatest, CtrlC, Esc
<1>6. ASSUME Runtime PROVE Goal
  BY <1>1, <1>6 DEF Runtime, RuntimeStarts, RuntimeQueues, RuntimeRefuses, RuntimeDrains,
     RuntimeDiscards, RuntimeEnds, HandoffBegins, HandoffEnds
<1>7. ASSUME NEW c \in Id, Prepared(c) PROVE Goal
  BY <1>1, <1>3, <1>7 DEF Prepared, Postpone, Steer
<1>8. ASSUME NEW c \in Id, SettleTurn(c) PROVE Goal
  BY <1>8 DEF SettleTurn, Goal
<1>9. ASSUME Resumed PROVE Goal
  BY <1>1, <1>2, <1>7, <1>8, <1>9 DEF Resumed, Preflight, LoginEnds, SettleSteer, InterruptAnswered,
     HandoffInterrupted, Drain
<1> QED
  BY <1>1, <1>4, <1>5, <1>6, <1>9 DEF Next, vars, Goal

\* While the runtime has a turn, it is the primary one.
LEMMA RunningIsPrimary ==
  ASSUME Typed, TurnInv, RunningTurn, running # None
  PROVE  /\ running \in Id /\ turn # None /\ turn.call = running /\ turn.call \in Id
         /\ call[running].epoch = turnEpoch
         /\ \A c \in Id : call[c].at = "turn" => c = running
<1>1. running \in Id /\ call[running].at = "turn"
  BY DEF Typed, RuntimeTyped, RunningTurn
<1>2. turn # None
  BY <1>1 DEF TurnInv, OneActive
<1>3. turn.call \in Id
  BY <1>2 DEF TurnInv, Shaped, PrimaryTurn
<1> QED
  BY <1>1, <1>2, <1>3 DEF TurnInv, OneActive

\* How the pending steers change.
Dropped(e) ==
  /\ steers' = Untrack(e.id)
  /\ \/ \E h \in held : h.id = e.id /\ h.text = e.text /\ held' = held \ {h}
     \/ SettleSteer(e.id) /\ held' = held /\ ~(\E h \in held : h.id = e.id /\ h.epoch = turnEpoch)

\* What one step does to the pending steers.
LEMMA SteerLife ==
  ASSUME TrackInv, [Next]_vars
  PROVE  \/ steers' = steers
         \/ \E c \in Id : Steer(c) /\ call[c].at = "prepare"
         \/ \E c \in Id : steers' = Admit(c)
         \/ \E e \in Entries(steers) : Dropped(e)
         \/ steers' = <<>> /\ turn' = None
<1> DEFINE Goal == \/ steers' = steers
                   \/ \E c \in Id : Steer(c) /\ call[c].at = "prepare"
                   \/ \E c \in Id : steers' = Admit(c)
                   \/ \E e \in Entries(steers) : Dropped(e)
                   \/ steers' = <<>> /\ turn' = None
<1> USE DEF TrackInv
<1>1. ASSUME steers' = steers PROVE Goal
  BY <1>1
<1>2. ASSUME NEW c \in Id, steers' = Admit(c) PROVE Goal
  BY <1>2
<1>3. ASSUME NEW e \in Entries(steers), Dropped(e) PROVE Goal
  BY <1>3
<1>4. ASSUME NEW c \in Id, Steer(c), call[c].at = "prepare" PROVE Goal
  BY <1>4
<1>5. ASSUME steers' = <<>> /\ turn' = None PROVE Goal
  BY <1>5
<1> HIDE DEF Goal
<1>6. ASSUME NEW c \in Id, Command(c) PROVE Goal
  BY <1>1, <1>6 DEF Command, Postpone, Start, queueVars
<1>7. ASSUME Keyboard PROVE Goal
  BY <1>1, <1>7 DEF Keyboard, Type, Enter, QueueDraft, EditLatest, CtrlC, Esc, queueVars
<1>8. ASSUME NEW c \in Id, RuntimeQueues(c) PROVE Goal
  BY <1>1, <1>2, <1>8 DEF RuntimeQueues
<1>9. ASSUME NEW h \in held, RuntimeDrains(h) \/ RuntimeDiscards(h) PROVE Goal
  <2>1. running # None /\ call[running].epoch = h.epoch /\ held' = held \ {h}
    BY <1>9 DEF RuntimeDrains, RuntimeDiscards
  <2>2. Heard(h.epoch)
    BY <2>1, RunningIsPrimary DEF Heard
  <2>3. PICK e \in Entries(steers) : e.id = h.id /\ e.text = h.text
    BY <2>2 DEF HeldTracked, Heard
  <2>4. Tracked(h.id)
    BY <2>3 DEF Tracked, Entries
  <2>5. steers' = Untrack(e.id)
    BY <1>9, <2>2, <2>3, <2>4 DEF RuntimeDrains, RuntimeDiscards
  <2> QED
    BY <1>3, <2>1, <2>3, <2>5 DEF Dropped
<1>10. ASSUME Runtime PROVE Goal
  BY <1>1, <1>8, <1>9, <1>10 DEF Runtime, RuntimeStarts, RuntimeRefuses, RuntimeEnds,
     HandoffBegins, HandoffEnds, queueVars
<1>11. ASSUME NEW c \in Id, SettleSteer(c) PROVE Goal
  <2> DEFINE current  == turn # None /\ turnEpoch = call[c].epoch
             admitted == \E k \in DOMAIN steers : steers[k].id = c /\ steers[k].admitted
             refused  == call[c].answer = "rejected" \/ (call[c].answer = "threw" /\ ~admitted)
  <2>1. \/ steers' = Admit(c)
        \/ current /\ refused /\ Tracked(c) /\ steers' = Untrack(c)
        \/ steers' = steers
    BY <1>11 DEF SettleSteer
  <2>2. call[c].at = "steering" /\ held' = held
    BY <1>11 DEF SettleSteer, runtimeVars
  <2>3. CASE current /\ refused /\ Tracked(c) /\ steers' = Untrack(c)
    <3>1. PICK e \in Entries(steers) : e.id = c
      BY <2>3 DEF Tracked, Entries
    <3>2. ASSUME NEW h \in held, h.id = c, h.epoch = turnEpoch PROVE FALSE
      <4>1. call[c].answer \in {"queued", "threw"}
        BY <2>2, <3>2 DEF HeldTracked
      <4>2. \E f \in Entries(steers) : f.id = c /\ (call[c].answer = "threw" => f.admitted)
        BY <2>2, <2>3, <3>2 DEF HeldTracked
      <4>3. call[c].answer = "threw" => admitted
        BY <4>2 DEF Entries
      <4> QED
        BY <2>3, <4>1, <4>3
    <3>3. Dropped(e)
      BY <1>11, <2>2, <2>3, <3>1, <3>2 DEF Dropped
    <3> QED
      BY <1>3, <3>3
  <2> HIDE DEF current, refused
  <2> QED
    BY <1>1, <1>2, <2>1, <2>3
<1>12. ASSUME NEW c \in Id, Prepared(c) PROVE Goal
  BY <1>1, <1>4, <1>12 DEF Prepared, Postpone, Start
<1>13. ASSUME Resumed PROVE Goal
  BY <1>1, <1>5, <1>11, <1>12, <1>13 DEF Resumed, Preflight, LoginEnds, SettleTurn,
     InterruptAnswered, HandoffInterrupted, Drain, queueVars
<1> QED
  BY <1>1, <1>6, <1>7, <1>10, <1>13 DEF Next, vars, queueVars, Goal

\* Each part of the invariant is kept.
LEMMA RunningPreserved ==
  ASSUME Typed, TurnInv, RunningTurn, [Next]_vars PROVE RunningTurn'
<1>0. call \in [Id -> SubmitCall] /\ running \in Id \cup {None}
  BY DEF Typed, CallsTyped, TypedCalls, RuntimeTyped
<1>1. ASSUME running' = running, running # None, ~RuntimeEnds,
             ~(RuntimeQueues(running) \/ RuntimeRefuses(running))
      PROVE  RunningTurn'
  <2>1. running \in Id /\ call[running].at = "turn" /\ call[running].answer = "none"
        /\ running <= calls
    BY <1>0, <1>1 DEF RunningTurn, TurnInv, NumbersAreFresh, Shaped, Id
  <2>2. CallSteps(running) /\ ~Answered(running)
    BY <1>1, <2>1, CallLife DEF Answered
  <2>3. call'[running] = call[running]
    BY <2>1, <2>2, TurnAssumption DEF CallSteps, Opened, Ended, Advanced, Started, Steered, Id
  <2> QED
    BY <1>1, <2>1, <2>3 DEF RunningTurn
<1>2. CASE \E c \in Id : RuntimeStarts(c)
  BY <1>0, <1>2 DEF RuntimeStarts, RunningTurn, callVars
<1>3. CASE RuntimeEnds
  BY <1>3 DEF RuntimeEnds, RunningTurn
<1>4. ASSUME NEW c \in Id, RuntimeQueues(c) \/ RuntimeRefuses(c) PROVE running # c
  BY <1>4 DEF RuntimeQueues, RuntimeRefuses, RunningTurn
<1>5. ASSUME running' = running PROVE RunningTurn'
  <2>1. CASE running = None
    BY <1>5, <2>1 DEF RunningTurn
  <2>2. CASE running # None
    <3>1. running \in Id
      BY <1>0, <2>2
    <3> QED
      BY <1>1, <1>3, <1>4, <1>5, <2>2, <3>1
  <2> QED
    BY <2>1, <2>2
<1>6. \/ running' = running \/ RuntimeEnds \/ \E c \in Id : RuntimeStarts(c)
  <2>1. ASSUME Keyboard PROVE running' = running
    BY <2>1 DEF Keyboard, Type, Enter, QueueDraft, EditLatest, CtrlC, Esc, runtimeVars
  <2>2. ASSUME Runtime PROVE \/ running' = running \/ RuntimeEnds \/ \E c \in Id : RuntimeStarts(c)
    BY <2>2 DEF Runtime, RuntimeQueues, RuntimeRefuses, RuntimeDrains, RuntimeDiscards,
       HandoffBegins, HandoffEnds, runtimeVars
  <2>3. ASSUME Resumed PROVE running' = running
    BY <2>3 DEF Resumed, Preflight, Prepared, LoginEnds, SettleSteer, SettleTurn,
       InterruptAnswered, HandoffInterrupted, Drain, runtimeVars
  <2> QED
    BY <2>1, <2>2, <2>3 DEF Next, Command, vars, runtimeVars
<1> QED
  BY <1>2, <1>3, <1>5, <1>6

\* What is left of the steers after a step, and what is new.
LEMMA EntriesStep ==
  ASSUME TrackInv, [Next]_vars
  PROVE  /\ Unique(steers')
         /\ \A e \in Entries(steers') :
              \/ \E f \in Entries(steers) : f.id = e.id /\ f.text = e.text
              \/ e.id \in Id /\ Steered(e.id) /\ e.text = call[e.id].text
         /\ \A f \in Entries(steers) :
              \/ \E e \in Entries(steers') :
                   e.id = f.id /\ e.text = f.text /\ (f.admitted => e.admitted)
              \/ Dropped(f) \/ turn' = None
<1> USE DEF TrackInv
<1>0. steers \in Seq(PendingSteer)
  BY DEF Typed, QueuesTyped
<1>1. CASE steers' = steers
  BY <1>1 DEF SteersTracked
<1>2. ASSUME NEW c \in Id, Steer(c), call[c].at = "prepare"
      PROVE  /\ Unique(steers')
             /\ \A e \in Entries(steers') :
                  \/ \E f \in Entries(steers) : f.id = e.id /\ f.text = e.text
                  \/ e.id \in Id /\ Steered(e.id) /\ e.text = call[e.id].text
             /\ \A f \in Entries(steers) :
                  \E e \in Entries(steers') :
                    e.id = f.id /\ e.text = f.text /\ (f.admitted => e.admitted)
  <2> DEFINE new == [id |-> c, text |-> call[c].text, admitted |-> FALSE]
  <2>1. new \in PendingSteer /\ new.id = c /\ new.text = call[c].text
    BY <1>2 DEF PendingSteer, Typed, CallsTyped, TypedCalls
  <2>2. steers' = Append(steers, new)
    BY <1>2 DEF Steer
  <2>3. \A f \in Entries(steers) : f.id # c
    BY <1>2 DEF SteersTracked
  <2> HIDE DEF new
  <2>4. Entries(Append(steers, new)) = Entries(steers) \cup {new}
        /\ (Unique(steers) /\ (\A f \in Entries(steers) : f.id # new.id) => Unique(Append(steers, new)))
    BY <1>0, <2>1, AppendedEntries
  <2>5. Unique(steers') /\ Entries(steers') = Entries(steers) \cup {new}
    BY <2>1, <2>2, <2>3, <2>4 DEF SteersTracked
  <2>6. Steered(c)
    <3>1. call \in [Id -> SubmitCall]
      BY DEF Typed, CallsTyped, TypedCalls
    <3> QED
      BY <1>2, <3>1 DEF Steer, Steered, SubmitCall
  <2> QED
    BY <2>1, <2>5, <2>6
<1>3. ASSUME NEW c \in Id, steers' = Admit(c)
      PROVE  /\ Unique(steers')
             /\ \A e \in Entries(steers') : \E f \in Entries(steers) : f.id = e.id /\ f.text = e.text
             /\ \A f \in Entries(steers) :
                  \E e \in Entries(steers') :
                    e.id = f.id /\ e.text = f.text /\ (f.admitted => e.admitted)
  BY <1>0, <1>3, AdmittedEntries DEF SteersTracked
<1>4. ASSUME NEW d \in Entries(steers), Dropped(d)
      PROVE  /\ Unique(steers')
             /\ \A e \in Entries(steers') : \E f \in Entries(steers) : f.id = e.id /\ f.text = e.text
             /\ \A f \in Entries(steers) :
                  \/ \E e \in Entries(steers') :
                       e.id = f.id /\ e.text = f.text /\ (f.admitted => e.admitted)
                  \/ f = d
  <2>1. Entries(steers') = Entries(steers) \ {d} /\ Unique(steers')
    BY <1>0, <1>4, UntrackedEntries DEF SteersTracked, Dropped
  <2> QED
    BY <2>1
<1>5. CASE steers' = <<>> /\ turn' = None
  <2>1. Entries(<<>>) = {} /\ Unique(<<>>)
    BY DEF Entries, Unique
  <2> QED
    BY <1>5, <2>1
<1> QED
  BY <1>1, <1>2, <1>3, <1>4, <1>5, SteerLife

\* The call of a pending steer.
Settled(c) == c <= calls /\ call[c].at \in {"none", "steering"}

\* Such a call stays one.
LEMMA SettledStays ==
  ASSUME Typed, TurnInv, RunningTurn, [Next]_vars, NEW c \in Id, Settled(c)
  PROVE  /\ Settled(c)'
         /\ call'[c].at = "steering" => /\ call[c].at = "steering" /\ call'[c].text = call[c].text
                                        /\ call'[c].epoch = call[c].epoch
         /\ call'[c] = call[c] \/ call'[c] = NoCall \/ Answered(c)
<1>1. CallSteps(c) /\ calls' >= calls /\ calls \in Nat /\ c \in Nat /\ calls' \in Nat
  BY CallLife, TypedPreserved DEF Typed, CallsTyped, Id
<1>2. call'[c] = call[c] \/ call'[c] = NoCall \/ Answered(c)
  BY <1>1 DEF Settled, CallSteps, Opened, Ended, Advanced, Started, Steered
<1> QED
  BY <1>1, <1>2 DEF Settled, Answered, NoCall

LEMMA SteersTrackedPreserved ==
  ASSUME TrackInv, [Next]_vars PROVE SteersTracked'
<1> USE DEF TrackInv
<1>0. /\ Typed' /\ turnEpoch \in Nat /\ \A c \in Id : call[c] \in SubmitCall
      /\ \A e \in Entries(steers) : e.id \in Id
  <2>1. \A e \in Entries(steers) : e.id \in Id
    <3>1. Entries(steers) \subseteq PendingSteer
      BY EntriesTyped DEF Typed, QueuesTyped
    <3> QED
      BY <3>1 DEF PendingSteer
  <2> QED
    BY <2>1, TypedPreserved DEF Typed, TurnTyped, CallsTyped, TypedCalls
<1>1. Unique(steers')
  BY EntriesStep
<1>2. ASSUME NEW e \in Entries(steers')
      PROVE  /\ e.id <= calls' /\ call'[e.id].at \in {"none", "steering"}
             /\ call'[e.id].at = "steering" =>
                  e.text = call'[e.id].text /\ call'[e.id].epoch = turnEpoch'
  <2>1. turnEpoch' = turnEpoch
    <3>1. steers' # <<>>
      BY <1>2 DEF Entries
    <3> QED
      BY <3>1, EpochLife
  <2>2. CASE \E f \in Entries(steers) : f.id = e.id /\ f.text = e.text
    <3>1. PICK f \in Entries(steers) : f.id = e.id /\ f.text = e.text
      BY <2>2
    <3>2. e.id \in Id /\ Settled(e.id)
      BY <1>0, <3>1 DEF SteersTracked, Settled
    <3> QED
      BY <2>1, <3>1, <3>2, SettledStays DEF Settled, SteersTracked
  <2>3. CASE e.id \in Id /\ Steered(e.id) /\ e.text = call[e.id].text
    <3>1. e.id <= calls'
      <4>1. e.id <= calls
        BY <2>3 DEF Steered, TurnInv, NumbersAreFresh, Shaped, Id
      <4>2. calls' >= calls /\ calls \in Nat /\ calls' \in Nat /\ e.id \in Nat
        BY <1>0, <2>3, CallLife DEF Typed, CallsTyped, Id
      <4> QED
        BY <4>1, <4>2
    <3> QED
      BY <2>1, <2>3, <3>1 DEF Steered
  <2> QED
    BY <2>2, <2>3, EntriesStep
<1>3. ASSUME NEW c \in Id, call'[c].at = "steering" PROVE call'[c].epoch <= turnEpoch'
  <2>1. \/ call[c].at = "steering" /\ call'[c].epoch = call[c].epoch
        \/ call'[c].epoch = turnEpoch
    BY <1>3, CallLife DEF CallSteps, Opened, Ended, Advanced, Started, Steered, Answered, NoCall
  <2>2. turnEpoch' = turnEpoch \/ turnEpoch' = turnEpoch + 1
    BY EpochLife
  <2> QED
    BY <1>0, <2>1, <2>2 DEF SteersTracked, SubmitCall
<1>4. ASSUME NEW c \in Id, turn' # None, call'[c].at = "steering", call'[c].epoch = turnEpoch',
             call'[c].answer = "none"
      PROVE  \E e \in Entries(steers') : e.id = c
  <2>1. CASE Steered(c)
    <3> DEFINE new == [id |-> c, text |-> call[c].text, admitted |-> FALSE]
    <3>1. new \in PendingSteer /\ new.id = c
      BY <2>1 DEF Steered, PendingSteer, Typed, CallsTyped, TypedCalls
    <3>2. steers' = Append(steers, new) /\ steers \in Seq(PendingSteer)
      BY <2>1 DEF Steered, Steer, Typed, QueuesTyped
    <3> HIDE DEF new
    <3> QED
      BY <3>1, <3>2, AppendedEntries
  <2>2. CASE ~Steered(c)
    <3>1. call'[c] = call[c]
      BY <1>4, <2>2, CallLife DEF CallSteps, Opened, Ended, Advanced, Started, Answered, NoCall
    <3>2. turnEpoch' = turnEpoch /\ turn # None
      <4>1. call[c].epoch <= turnEpoch
        BY <1>4, <3>1 DEF SteersTracked
      <4> QED
        BY <1>0, <1>4, <3>1, <4>1, EpochLife DEF SubmitCall
    <3>3. PICK f \in Entries(steers) : f.id = c
      BY <1>4, <3>1, <3>2 DEF SteersTracked
    <3>4. ~Dropped(f)
      <4>1. ASSUME NEW h \in held, h.id = c PROVE FALSE
        BY <1>4, <3>1, <4>1 DEF HeldTracked
      <4>2. ~SettleSteer(c)
        BY <1>4, <3>1 DEF SettleSteer
      <4> QED
        BY <3>3, <4>1, <4>2 DEF Dropped
    <3> QED
      BY <1>4, <3>3, <3>4, EntriesStep
  <2> QED
    BY <2>1, <2>2
<1> QED
  BY <1>1, <1>2, <1>3, <1>4 DEF SteersTracked

LEMMA HeldStep ==
  ASSUME Typed, [Next]_vars
  PROVE  \A h \in held' :
           \/ h \in held
           \/ \E c \in Id : /\ RuntimeQueues(c)
                            /\ h = [id |-> c, text |-> call[c].text, epoch |-> call[c].epoch]
<1> DEFINE Goal == held' \subseteq held \/ \E c \in Id : RuntimeQueues(c)
<1>1. ASSUME Keyboard PROVE held' = held
  BY <1>1 DEF Keyboard, Type, Enter, QueueDraft, EditLatest, CtrlC, Esc, runtimeVars
<1>2. ASSUME Runtime PROVE Goal
  BY <1>2 DEF Runtime, RuntimeStarts, RuntimeRefuses, RuntimeDrains, RuntimeDiscards, RuntimeEnds,
     HandoffBegins, HandoffEnds, runtimeVars
<1>3. ASSUME Resumed PROVE held' = held
  BY <1>3 DEF Resumed, Preflight, Prepared, LoginEnds, SettleSteer, SettleTurn,
     InterruptAnswered, HandoffInterrupted, Drain, runtimeVars
<1>4. Goal
  BY <1>1, <1>2, <1>3 DEF Next, Command, vars, runtimeVars
<1> HIDE DEF Goal
<1> QED
  BY <1>4 DEF Goal, RuntimeQueues

LEMMA HeldTrackedPreserved ==
  ASSUME TrackInv, [Next]_vars PROVE HeldTracked'
<1> USE DEF TrackInv
<1>0. /\ Typed' /\ turnEpoch \in Nat /\ \A c \in Id : call[c] \in SubmitCall
      /\ \A h \in held : h \in HeldSteer
      /\ calls \in Nat /\ calls' \in Nat /\ calls' >= calls
  BY TypedPreserved, CallLife DEF Typed, TurnTyped, CallsTyped, TypedCalls, RuntimeTyped
\* The item of a steer the runtime takes now.
<1>1. ASSUME NEW c \in Id, RuntimeQueues(c)
      PROVE  /\ call[c].at = "steering" /\ call[c].answer = "none" /\ c <= calls /\ calls' = calls
             /\ call'[c].at = "steering" /\ call'[c].epoch = call[c].epoch
             /\ call'[c].text = call[c].text /\ call'[c].answer \in {"queued", "threw"}
             /\ turn' = turn /\ turnEpoch' = turnEpoch
             /\ \A h \in held : h.id # c
  <2>1. call[c].at = "steering" /\ call[c].answer = "none" /\ calls' = calls
        /\ turn' = turn /\ turnEpoch' = turnEpoch
    BY <1>1 DEF RuntimeQueues, turnVars
  <2>2. PICK a \in {"queued", "threw"} : call' = [call EXCEPT ![c].answer = a]
    BY <1>1 DEF RuntimeQueues
  <2>3. call \in [Id -> SubmitCall]
    BY DEF Typed, CallsTyped, TypedCalls
  <2>4. /\ call'[c].at = "steering" /\ call'[c].epoch = call[c].epoch
        /\ call'[c].text = call[c].text /\ call'[c].answer = a
    BY <2>1, <2>2, <2>3 DEF SubmitCall
  <2>5. c <= calls
    BY <2>1 DEF TurnInv, NumbersAreFresh, Shaped, Id
  <2>6. \A h \in held : h.id # c
    BY <2>1 DEF HeldTracked
  <2> QED
    BY <2>1, <2>4, <2>5, <2>6
<1>2. ASSUME NEW g \in held', NEW h \in held', g.id = h.id PROVE g = h
  <2>1. ASSUME NEW c \in Id, RuntimeQueues(c), NEW x \in held' PROVE
           x \in held \/ x = [id |-> c, text |-> call[c].text, epoch |-> call[c].epoch]
    BY <2>1 DEF RuntimeQueues
  <2>2. CASE g \in held /\ h \in held
    BY <1>2, <2>2 DEF HeldTracked
  <2>3. CASE \E c \in Id : RuntimeQueues(c)
    <3>1. PICK c \in Id : RuntimeQueues(c)
      BY <2>3
    <3> DEFINE new == [id |-> c, text |-> call[c].text, epoch |-> call[c].epoch]
    <3>2. new.id = c
      OBVIOUS
    <3>3. (g \in held \/ g = new) /\ (h \in held \/ h = new)
      BY <2>1, <3>1
    <3>4. \A x \in held : x.id # c
      BY <1>1, <3>1
    <3> HIDE DEF new
    <3> QED
      BY <1>2, <3>2, <3>3, <3>4 DEF HeldTracked
  <2> QED
    BY <2>2, <2>3, HeldStep
<1>3. ASSUME NEW h \in held', h \in held
      PROVE  /\ h.epoch <= turnEpoch' /\ h.id <= calls' /\ call'[h.id].at \in {"none", "steering"}
             /\ call'[h.id].at = "steering" =>
                  call'[h.id] = call[h.id] /\ call'[h.id].answer \in {"queued", "threw"}
                  /\ call'[h.id].epoch = h.epoch
  <2>1. h.id \in Id /\ h.epoch \in Nat
    BY <1>0, <1>3, TurnAssumption DEF HeldSteer
  <2>2. Settled(h.id) /\ h.epoch <= turnEpoch
    BY <1>3 DEF HeldTracked, Settled
  <2>3. ~Answered(h.id)
    BY <1>3 DEF HeldTracked, Answered
  <2>4. Settled(h.id)' /\ (call'[h.id] = call[h.id] \/ call'[h.id] = NoCall)
    BY <2>1, <2>2, <2>3, SettledStays
  <2>5. h.epoch <= turnEpoch'
    BY <1>0, <2>1, <2>2, EpochLife
  <2> QED
    BY <1>3, <2>4, <2>5 DEF HeldTracked, Settled, NoCall
<1>4. ASSUME NEW h \in held', h \in held, turn' # None, h.epoch = turnEpoch'
      PROVE  \E e \in Entries(steers') :
               /\ e.id = h.id /\ e.text = h.text
               /\ call'[h.id].at = "steering" /\ call'[h.id].answer = "threw" => e.admitted
  <2>1. turnEpoch' = turnEpoch /\ turn # None
    <3>1. h.epoch <= turnEpoch /\ h.epoch \in Nat
      BY <1>0, <1>4 DEF HeldTracked, HeldSteer
    <3> QED
      BY <1>0, <1>4, <3>1, EpochLife
  <2>2. PICK f \in Entries(steers) :
          /\ f.id = h.id /\ f.text = h.text
          /\ call[h.id].at = "steering" /\ call[h.id].answer = "threw" => f.admitted
    BY <1>4, <2>1 DEF HeldTracked
  <2>3. ~Dropped(f)
    <3>1. ASSUME NEW g \in held, g.id = f.id, held' = held \ {g} PROVE FALSE
      BY <1>4, <2>2, <3>1 DEF HeldTracked
    <3>2. \E g \in held : g.id = f.id /\ g.epoch = turnEpoch
      BY <1>4, <2>1, <2>2
    <3> QED
      BY <3>1, <3>2 DEF Dropped
  <2>4. PICK e \in Entries(steers') : e.id = f.id /\ e.text = f.text /\ (f.admitted => e.admitted)
    BY <1>4, <2>3, EntriesStep
  <2> QED
    BY <1>3, <1>4, <2>2, <2>4
<1>5. ASSUME NEW c \in Id, RuntimeQueues(c), turn' # None, call[c].epoch = turnEpoch'
      PROVE  \E e \in Entries(steers') :
               e.id = c /\ e.text = call[c].text /\ (call'[c].answer = "threw" => e.admitted)
  <2>1. PICK f \in Entries(steers) : f.id = c
    BY <1>1, <1>5 DEF SteersTracked
  <2>2. f.text = call[c].text
    BY <1>1, <1>5, <2>1 DEF SteersTracked
  <2>3. CASE call' = [call EXCEPT ![c].answer = "queued"] /\ UNCHANGED steers
    <3>1. call \in [Id -> SubmitCall]
      BY DEF Typed, CallsTyped, TypedCalls
    <3>2. call'[c].answer = "queued"
      BY <2>3, <3>1 DEF SubmitCall
    <3> QED
      BY <2>1, <2>2, <2>3, <3>2
  <2>4. CASE steers' = Admit(c)
    <3>1. steers \in Seq(PendingSteer)
      BY DEF Typed, QueuesTyped
    <3>2. \E e \in Entries(Admit(c)) :
            e.id = f.id /\ e.text = f.text /\ (f.admitted \/ f.id = c => e.admitted)
      BY <3>1, AdmittedEntries
    <3> QED
      BY <2>1, <2>2, <2>4, <3>2
  <2>5. Heard(call[c].epoch)
    BY <1>1, <1>5 DEF Heard
  <2> QED
    BY <1>5, <2>3, <2>4, <2>5 DEF RuntimeQueues
<1>6. ASSUME NEW h \in held'
      PROVE  /\ h.epoch <= turnEpoch' /\ h.id <= calls' /\ call'[h.id].at \in {"none", "steering"}
             /\ call'[h.id].at = "steering" =>
                  call'[h.id].answer \in {"queued", "threw"} /\ call'[h.id].epoch = h.epoch
             /\ turn' # None /\ h.epoch = turnEpoch' =>
                  \E e \in Entries(steers') :
                    /\ e.id = h.id /\ e.text = h.text
                    /\ call'[h.id].at = "steering" /\ call'[h.id].answer = "threw" => e.admitted
  <2>1. CASE h \in held
    BY <1>3, <1>4, <2>1
  <2>2. ASSUME NEW c \in Id, RuntimeQueues(c),
               h = [id |-> c, text |-> call[c].text, epoch |-> call[c].epoch]
        PROVE  /\ h.epoch <= turnEpoch' /\ h.id <= calls' /\ call'[h.id].at \in {"none", "steering"}
               /\ call'[h.id].at = "steering" =>
                    call'[h.id].answer \in {"queued", "threw"} /\ call'[h.id].epoch = h.epoch
               /\ turn' # None /\ h.epoch = turnEpoch' =>
                    \E e \in Entries(steers') :
                      /\ e.id = h.id /\ e.text = h.text
                      /\ call'[h.id].at = "steering" /\ call'[h.id].answer = "threw" => e.admitted
    <3>1. h.id = c /\ h.text = call[c].text /\ h.epoch = call[c].epoch
      BY <2>2
    <3>2. call[c].epoch <= turnEpoch
      BY <1>1, <2>2 DEF SteersTracked
    <3> QED
      BY <1>1, <1>5, <2>2, <3>1, <3>2
  <2> QED
    BY <2>1, <2>2, HeldStep
<1> QED
  BY <1>2, <1>6 DEF HeldTracked

LEMMA InitTrackInv == Init => TrackInv
<1>1. Init => Typed /\ TurnInv
  BY InitTyped, InitTurnInv
<1>2. Init => SteersNeedTurn /\ RunningTurn
  BY DEF Init, SteersNeedTurn, RunningTurn
<1>3. Init => SteersTracked /\ HeldTracked
  BY DEF Init, SteersTracked, HeldTracked, Entries, Unique, NoCall
<1> QED
  BY <1>1, <1>2, <1>3 DEF TrackInv

LEMMA TrackInvPreserved == TrackInv /\ [Next]_vars => TrackInv'
BY TypedPreserved, TurnInvPreserved, SteersPreserved, RunningPreserved, SteersTrackedPreserved,
   HeldTrackedPreserved DEF TrackInv

\* Every variable of the turn loop keeps its type: the queues hold texts that
\* are not empty (index.ts:1719), and what the runtime holds for the turn stays
\* what the screen knows of it.
THEOREM TypeCorrect == Spec => []TypeOK
<1>1. TrackInv => TypeOK
  BY TypedIsTypeOK DEF TrackInv
<1> QED
  BY <1>1, InitTrackInv, TrackInvPreserved, PTL DEF Spec

-----------------------------------------------------------------------------
(* Where an input is. *)

\* In how many of the calls `cs` an input is that was not handed over.
Carries(cs, c, i) ==
  /\ i \in InText(cs[c].text)
  /\ \/ cs[c].at \in {"command", "preflight", "prepare", "login"}
     \/ cs[c].at = "turn" /\ delivered[i] = 0
Carried(cs, i) == Cardinality({c \in Id : Carries(cs, c, i)})

\* How often an input is in each of the places it can be.
InFresh(i)  == Bit(i \in fresh)
InGone(i)   == Bit(i \in gone)
InEditor(i) == Bit(editor # None /\ i \in InText(editor))
InQueue(i)  == Count(followUps, i)
InSteers(i) == Count(steers, i)
InCalls(i)  == Carried(call, i)
Whole(i) == InFresh(i) + delivered[i] + InEditor(i) + InQueue(i) + InSteers(i) + InCalls(i)

\* An input is in one place until it is gone, and only a slash command may then
\* still be kept.
Once(i) ==
  /\ Whole(i) \in {0, 1}
  /\ Whole(i) = 0 => InGone(i) = 1
  /\ i \notin Slash /\ InGone(i) = 1 => Whole(i) = 0

\* How often the calls carry an input is a number, and 0 when none does.
LEMMA CarriedNat ==
  ASSUME NEW cs, NEW i
  PROVE  /\ Carried(cs, i) \in Nat
         /\ \A c \in Id : Carries(cs, c, i) => Carried(cs, i) >= 1
<1> DEFINE S == {c \in Id : Carries(cs, c, i)}
<1>1. IsFiniteSet(Id)
  <2>1. MaxCalls \in Int /\ 1 \in Int
    BY TurnAssumption
  <2> QED
    BY <2>1, FS_Interval DEF Id
<1>5. S \subseteq Id
  OBVIOUS
<1>2. IsFiniteSet(S)
  BY <1>1, <1>5, FS_Subset
<1>3. Cardinality(S) \in Nat
  BY <1>2, FS_CardinalityType
<1>4. ASSUME NEW c \in Id, Carries(cs, c, i) PROVE Cardinality(S) >= 1
  <2>1. S # {}
    BY <1>4
  <2> HIDE DEF S
  <2>2. Cardinality(S) # 0
    BY <1>2, <2>1, FS_EmptySet
  <2> QED
    BY <1>3, <2>2
<1> QED
  BY <1>3, <1>4 DEF Carried

\* Every place is counted by a number.
LEMMA PartsAreNat ==
  ASSUME Typed, NEW i \in Input
  PROVE  /\ InFresh(i) \in {0, 1} /\ InGone(i) \in {0, 1} /\ delivered[i] \in Nat
         /\ InEditor(i) \in {0, 1} /\ InQueue(i) \in Nat /\ InSteers(i) \in Nat /\ InCalls(i) \in Nat
<1>1. delivered[i] \in Nat /\ followUps \in Seq(FollowUp) /\ steers \in Seq(PendingSteer)
  BY DEF Typed, RuntimeTyped, QueuesTyped
<1>2. InQueue(i) \in Nat
  BY <1>1, CountType DEF InQueue
<1>3. InSteers(i) \in Nat
  BY <1>1, CountType DEF InSteers
<1>4. InCalls(i) \in Nat
  BY CarriedNat DEF InCalls
<1> QED
  BY <1>1, <1>2, <1>3, <1>4 DEF InFresh, InGone, InEditor, Bit

\* EachInputOnce says this of every input.
LEMMA OnceIsWhole == ASSUME Typed, \A i \in Input : Once(i) PROVE EachInputOnce
<1>1. ASSUME NEW i \in Input PROVE Whole(i) = Places(i)
  <2>1. {c \in Id : Carries(call, c, i)}
          = {c \in Id : /\ \/ call[c].at \in {"command", "preflight", "prepare", "login"}
                           \/ call[c].at = "turn" /\ delivered[i] = 0
                        /\ i \in InText(call[c].text)}
    BY DEF Carries
  <2>2. Holders(i) = InEditor(i) + InQueue(i) + InSteers(i) + InCalls(i)
    BY <2>1 DEF InEditor, InQueue, InSteers, InCalls, Bit, Count, Keeping, Carried, Holders
  <2>3. Whole(i) = InFresh(i) + delivered[i] + Holders(i)
    BY <2>2, PartsAreNat DEF Once, Whole
  <2> QED
    BY <2>3 DEF InFresh, Bit, Places
<1>2. ASSUME NEW i \in Input
      PROVE  /\ Places(i) <= 1 /\ (Places(i) = 0 => i \in gone)
             /\ i \notin Slash /\ i \in gone => Places(i) = 0
  <2>1. Once(i) /\ Whole(i) = Places(i) /\ (InGone(i) = 1 <=> i \in gone)
    BY <1>1 DEF InGone, Bit
  <2> QED
    BY <2>1 DEF Once
<1> QED
  BY <1>2 DEF EachInputOnce

\* One call changes what it carries.
LEMMA OneCallChanges ==
  ASSUME NEW S, NEW T, S \subseteq Id, T \subseteq Id, NEW c \in Id, S \ {c} = T \ {c}
  PROVE  /\ Cardinality(S) \in Nat /\ Cardinality(T) \in Nat
         /\ Cardinality(T) = Cardinality(S) - Bit(c \in S) + Bit(c \in T)
<1>1. IsFiniteSet(Id)
  BY FS_Interval, TurnAssumption DEF Id
<1>2. IsFiniteSet(S) /\ IsFiniteSet(T)
  BY <1>1, FS_Subset
<1>3. Cardinality(S) \in Nat /\ Cardinality(T) \in Nat
  BY <1>2, FS_CardinalityType
<1>4. IsFiniteSet(S \ {c})
  BY <1>2, FS_Subset
<1>5. ASSUME NEW U, IsFiniteSet(U) PROVE Cardinality(U) = Cardinality(U \ {c}) + Bit(c \in U)
  <2>1. Cardinality(U) \in Nat
    BY <1>5, FS_CardinalityType
  <2>2. Cardinality(U \ {c}) = IF c \in U THEN Cardinality(U) - 1 ELSE Cardinality(U)
    BY <1>5, FS_RemoveElement
  <2> QED
    BY <2>1, <2>2 DEF Bit
<1>6. Cardinality(S) = Cardinality(S \ {c}) + Bit(c \in S)
  BY <1>2, <1>5
<1>7. Cardinality(T) = Cardinality(T \ {c}) + Bit(c \in T)
  BY <1>2, <1>5
<1>8. Cardinality(S \ {c}) \in Nat
  BY <1>4, FS_CardinalityType
<1> QED
  BY <1>3, <1>6, <1>7, <1>8 DEF Bit

\* The ways the calls change, and what they carry afterwards.
LEMMA CarriedChanges ==
  ASSUME NEW cs, NEW ds, NEW c \in Id, NEW i,
         \A d \in Id : d # c => (Carries(ds, d, i) <=> Carries(cs, d, i))
  PROVE  Carried(ds, i) = Carried(cs, i) - Bit(Carries(cs, c, i)) + Bit(Carries(ds, c, i))
<1> DEFINE S == {d \in Id : Carries(cs, d, i)}
           T == {d \in Id : Carries(ds, d, i)}
<1>1. S \subseteq Id /\ T \subseteq Id /\ S \ {c} = T \ {c}
  OBVIOUS
<1>2. (c \in S <=> Carries(cs, c, i)) /\ (c \in T <=> Carries(ds, c, i))
  OBVIOUS
<1>3. Carried(cs, i) = Cardinality(S) /\ Carried(ds, i) = Cardinality(T)
  BY DEF Carried
<1> HIDE DEF S, T
<1>4. Cardinality(T) = Cardinality(S) - Bit(c \in S) + Bit(c \in T)
  BY <1>1, OneCallChanges
<1> QED
  BY <1>2, <1>3, <1>4 DEF Bit

LEMMA EndedCarries ==
  ASSUME Typed, NEW c \in Id, NEW i
  PROVE  Carried([call EXCEPT ![c] = NoCall], i) = InCalls(i) - Bit(Carries(call, c, i))
<1> DEFINE ended == [call EXCEPT ![c] = NoCall]
<1>1. ended[c] = NoCall /\ \A d \in Id : d # c => ended[d] = call[d]
  BY DEF Typed, CallsTyped, TypedCalls
<1> HIDE DEF ended
<1>2. \A d \in Id : d # c => (Carries(ended, d, i) <=> Carries(call, d, i))
  BY <1>1 DEF Carries
<1>3. ~Carries(ended, c, i)
  BY <1>1 DEF Carries, NoCall
<1>4. Carried(ended, i) = Carried(call, i) - Bit(Carries(call, c, i)) + Bit(Carries(ended, c, i))
  BY <1>2, CarriedChanges
<1>5. Carried(call, i) \in Nat
  BY CarriedNat
<1> QED
  BY <1>3, <1>4, <1>5 DEF Bit, InCalls, ended

\* The calls after a step, for an input that was not delivered in it.
LEMMA CarriedAfter ==
  ASSUME NEW i, delivered'[i] = delivered[i] PROVE InCalls(i)' = Carried(call', i)
<1>1. \A c \in Id : Carries(call, c, i)' <=> Carries(call', c, i)
  BY DEF Carries
<1> QED
  BY <1>1 DEF InCalls, Carried

LEMMA SubmitCarries ==
  ASSUME Typed, TurnInv, NEW cs, TypedCalls(cs), NEW sub, NEW queued, NEW primary, NEW i,
         SubmitIn(cs, sub, queued, primary), delivered'[i] = delivered[i],
         \A d \in Id : cs[d] = call[d] \/ cs[d] = NoCall
  PROVE  InCalls(i)' = Carried(cs, i) + Bit(i \in InText(sub.text))
<1>1. cs = [d \in Id |-> cs[d]]
  BY DEF TypedCalls
<1>2. /\ calls + 1 \in Id
      /\ \A d \in Id : d # calls + 1 => call'[d] = cs[d]
      /\ call'[calls + 1].at \in {"command", "prepare", "preflight"}
  BY <1>1, SubmitAddsOne
<1>3. call'[calls + 1].text = sub.text
  BY <1>2 DEF SubmitIn, TypedCalls
<1>4. cs[calls + 1].at = "none"
  BY <1>2 DEF TurnInv, NumbersAreFresh, Typed, CallsTyped, NoCall
<1>5. \A d \in Id : d # calls + 1 => (Carries(call', d, i) <=> Carries(cs, d, i))
  BY <1>2 DEF Carries
<1>6. ~Carries(cs, calls + 1, i) /\ (Carries(call', calls + 1, i) <=> i \in InText(sub.text))
  BY <1>2, <1>3, <1>4 DEF Carries
<1>7. Carried(call', i) = Carried(cs, i) - Bit(Carries(cs, calls + 1, i)) + Bit(Carries(call', calls + 1, i))
  BY <1>2, <1>5, CarriedChanges
<1>8. Carried(cs, i) \in Nat
  BY CarriedNat
<1> QED
  BY <1>6, <1>7, <1>8, CarriedAfter DEF Bit

LEMMA EndCarries ==
  ASSUME Typed, NEW c \in Id, NEW i, End(c), delivered'[i] = delivered[i]
  PROVE  InCalls(i)' = InCalls(i) - Bit(Carries(call, c, i))
BY CarriedAfter, EndedCarries DEF End

\* A call that only moves on.
LEMMA MoveCarries ==
  ASSUME Typed, NEW c \in Id, NEW i, delivered'[i] = delivered[i],
         \A d \in Id : d # c => call'[d] = call[d]
  PROVE  InCalls(i)' = InCalls(i) - Bit(Carries(call, c, i)) + Bit(Carries(call', c, i))
<1>1. \A d \in Id : d # c => (Carries(call', d, i) <=> Carries(call, d, i))
  BY DEF Carries
<1>2. Carried(call', i) = Carried(call, i) - Bit(Carries(call, c, i)) + Bit(Carries(call', c, i))
  BY <1>1, CarriedChanges
<1> QED
  BY <1>2, CarriedAfter DEF InCalls

\* What a step leaves alone.
LEMMA PartsStay ==
  ASSUME NEW i
  PROVE  /\ UNCHANGED fresh => InFresh(i)' = InFresh(i)
         /\ UNCHANGED gone => InGone(i)' = InGone(i)
         /\ UNCHANGED editor => InEditor(i)' = InEditor(i)
         /\ UNCHANGED followUps => InQueue(i)' = InQueue(i)
         /\ UNCHANGED steers => InSteers(i)' = InSteers(i)
         /\ UNCHANGED <<call, delivered>> => InCalls(i)' = InCalls(i)
         /\ UNCHANGED delivered => delivered'[i] = delivered[i]
BY DEF InFresh, InGone, InEditor, InQueue, InSteers, InCalls, Carried, Carries

LEMMA PartsStayNat ==
  ASSUME Typed', NEW i \in Input
  PROVE  /\ InFresh(i)' \in {0, 1} /\ InGone(i)' \in {0, 1} /\ delivered'[i] \in Nat
         /\ InEditor(i)' \in {0, 1} /\ InQueue(i)' \in Nat /\ InSteers(i)' \in Nat
         /\ InCalls(i)' \in Nat
<1>1. delivered'[i] \in Nat /\ followUps' \in Seq(FollowUp) /\ steers' \in Seq(PendingSteer)
  BY DEF Typed, RuntimeTyped, QueuesTyped
<1>2. InQueue(i)' \in Nat
  <2>1. Count(followUps', i) \in Nat
    BY <1>1, CountType
  <2> QED
    BY <2>1 DEF InQueue
<1>3. InSteers(i)' \in Nat
  <2>1. Count(steers', i) \in Nat
    BY <1>1, CountType
  <2> QED
    BY <2>1 DEF InSteers
<1>4. InCalls(i)' \in Nat
  <2> DEFINE S == {c \in Id : Carries(call, c, i)'}
  <2>1. IsFiniteSet(Id)
    BY FS_Interval, TurnAssumption DEF Id
  <2>2. S \subseteq Id /\ InCalls(i)' = Cardinality(S)
    BY DEF InCalls, Carried
  <2> HIDE DEF S
  <2>3. Cardinality(S) \in Nat
    BY <2>1, <2>2, FS_Subset, FS_CardinalityType
  <2> QED
    BY <2>2, <2>3
<1> QED
  BY <1>1, <1>2, <1>3, <1>4 DEF InFresh, InGone, InEditor, Bit

\* What runs as a command, or is a login, begins with "/". Any other call that
\* does is a command a turn overtook: it has no other text, and only it is run
\* without a turn.
CommandsAreSlash ==
  \A c \in Id :
    /\ call[c].at \in {"command", "login"} => Lead(call[c].text) \in Slash
    /\ call[c].at \in {"preflight", "prepare", "steering"} /\ Lead(call[c].text) \in Slash
         => InText(call[c].text) \subseteq Slash
    /\ call[c].answer = "ok"
         => call[c].at = "turn" \/ (call[c].at = "steering" /\ Lead(call[c].text) \in Slash)

\* Every step keeps this.
LEMMA CommandsPreserved ==
  ASSUME Typed, TurnInv, RunningTurn, CommandsAreSlash, [Next]_vars PROVE CommandsAreSlash'
<1> SUFFICES ASSUME NEW c \in Id
    PROVE  /\ call'[c].at \in {"command", "login"} => Lead(call'[c].text) \in Slash
           /\ call'[c].at \in {"preflight", "prepare", "steering"} /\ Lead(call'[c].text) \in Slash
                => InText(call'[c].text) \subseteq Slash
           /\ call'[c].answer = "ok"
                => call'[c].at = "turn" \/ (call'[c].at = "steering" /\ Lead(call'[c].text) \in Slash)
  BY DEF CommandsAreSlash
<1>1. CASE call'[c] = call[c]
  BY <1>1 DEF CommandsAreSlash
<1>2. CASE Opened(c)
  BY <1>2 DEF Opened
<1>3. CASE Ended(c)
  BY <1>3 DEF Ended, NoCall
<1>4. CASE Advanced(c)
  <2>1. ASSUME Len(call[c].text) = 1 PROVE InText(call[c].text) = {Lead(call[c].text)}
    <3>1. call[c].text \in Seq(Input)
      BY DEF Typed, CallsTyped, TypedCalls, SubmitCall
    <3>2. DOMAIN call[c].text = 1..1
      BY <2>1, <3>1
    <3> QED
      BY <3>2 DEF InText, Lead
  <2> QED
    BY <1>4, <2>1 DEF Advanced, CommandsAreSlash
<1>5. CASE Started(c)
  BY <1>5 DEF Started
<1>6. CASE Steered(c)
  BY <1>6 DEF Steered, CommandsAreSlash
<1>7. CASE Answered(c)
  <2>1. CASE call[c].at = "turn"
    BY <1>7, <2>1 DEF Answered
  <2>2. CASE call[c].at = "steering"
    <3>1. ~(RuntimeEnds /\ c = running)
      BY <2>2 DEF RunningTurn, RuntimeEnds
    <3>2. ASSUME call'[c].answer = "ok" PROVE Lead(call[c].text) \in Slash
      BY <1>7, <2>2, <3>1, <3>2 DEF Answered, RuntimeQueues, RuntimeRefuses, Typed, CallsTyped,
         TypedCalls, SubmitCall
    <3> QED
      BY <1>7, <2>2, <3>2 DEF Answered, CommandsAreSlash
  <2> QED
    BY <1>7, <2>1, <2>2 DEF Answered
<1> QED
  BY <1>1, <1>2, <1>3, <1>4, <1>5, <1>6, <1>7, CallLife DEF CallSteps

\* A turn the runtime has not begun, nor refused, has delivered nothing.
Unstarted ==
  \A c \in Id : call[c].at = "turn" /\ call[c].answer = "none" /\ running # c =>
    \A i \in InText(call[c].text) : delivered[i] = 0

\* The inductive invariant: every input is in one place until it is gone.
OnceInv == TrackInv /\ CommandsAreSlash /\ Unstarted /\ \A i \in Input : Once(i)

LEMMA KeyboardOnce ==
  ASSUME Typed, TurnInv, Keyboard, NEW i \in Input, Once(i) PROVE Once(i)'
<1>n. /\ InFresh(i) \in {0, 1} /\ InGone(i) \in {0, 1} /\ delivered[i] \in Nat
      /\ InEditor(i) \in {0, 1} /\ InQueue(i) \in Nat /\ InSteers(i) \in Nat /\ InCalls(i) \in Nat
  BY PartsAreNat
<1>m. /\ InFresh(i)' \in {0, 1} /\ InGone(i)' \in {0, 1} /\ delivered'[i] \in Nat
      /\ InEditor(i)' \in {0, 1} /\ InQueue(i)' \in Nat /\ InSteers(i)' \in Nat
      /\ InCalls(i)' \in Nat
  BY KeyboardTyped, PartsStayNat
<1>s. /\ UNCHANGED fresh => InFresh(i)' = InFresh(i)
      /\ UNCHANGED gone => InGone(i)' = InGone(i)
      /\ UNCHANGED editor => InEditor(i)' = InEditor(i)
      /\ UNCHANGED followUps => InQueue(i)' = InQueue(i)
      /\ UNCHANGED steers => InSteers(i)' = InSteers(i)
      /\ UNCHANGED <<call, delivered>> => InCalls(i)' = InCalls(i)
  BY PartsStay
<1>0. UNCHANGED <<delivered, steers>> /\ delivered'[i] = delivered[i]
  BY DEF Keyboard, Type, Enter, QueueDraft, EditLatest, CtrlC, Esc, runtimeVars, queueVars
<1>1. ASSUME NEW j \in Input, Type(j) PROVE Once(i)'
  <2>1. /\ UNCHANGED <<gone, followUps, call>> /\ editor = None /\ editor' = <<j>> /\ j \in fresh
        /\ fresh' = fresh \ {j}
    BY <1>1 DEF Type, queueVars, callVars
  <2>2. <<j>> # None /\ InText(<<j>>) = {j}
    <3>1. <<j>> \in Text
      BY DEF Text
    <3>2. InText(<<j>>) = {j}
      BY DEF InText
    <3> QED
      BY <3>1, <3>2, NoneIsNoText
  <2>3. InFresh(i)' + InEditor(i)' = InFresh(i) + InEditor(i)
    BY <2>1, <2>2 DEF InFresh, InEditor, Bit
  <2>4. InGone(i)' = InGone(i) /\ InQueue(i)' = InQueue(i) /\ InSteers(i)' = InSteers(i)
        /\ InCalls(i)' = InCalls(i)
    BY <1>s, <1>0, <2>1
  <2> QED
    BY <1>n, <1>m, <1>0, <2>3, <2>4 DEF Once, Whole
<1>2. CASE Enter
  <2>1. /\ UNCHANGED <<fresh, gone, followUps>> /\ editor # None /\ editor' = None
    BY <1>2 DEF Enter, queueVars
  <2>2. PICK primary \in BOOLEAN : SubmitIn(call, Submission(editor, {}), FALSE, primary)
    BY <1>2, Zenon DEF Enter
  <2>3. InCalls(i)' = InCalls(i) + Bit(i \in InText(editor))
    <3>1. Submission(editor, {}).text = editor /\ TypedCalls(call)
      BY DEF Submission, Typed, CallsTyped
    <3>2. InCalls(i)' = Carried(call, i) + Bit(i \in InText(Submission(editor, {}).text))
      BY <1>0, <2>2, <3>1, SubmitCarries
    <3> QED
      BY <3>1, <3>2 DEF InCalls
  <2>4. InEditor(i) = Bit(i \in InText(editor)) /\ InEditor(i)' = 0
    BY <2>1 DEF InEditor, Bit
  <2>5. InFresh(i)' = InFresh(i) /\ InGone(i)' = InGone(i) /\ InQueue(i)' = InQueue(i)
        /\ InSteers(i)' = InSteers(i)
    BY <1>s, <1>0, <2>1
  <2>6. InCalls(i)' = InCalls(i) + InEditor(i)
    BY <2>3, <2>4
  <2> QED
    BY <1>n, <1>m, <1>0, <2>4, <2>5, <2>6 DEF Once, Whole
<1>3. CASE QueueDraft
  <2>1. /\ UNCHANGED <<fresh, gone, call>> /\ editor # None /\ editor' = None
        /\ followUps' = Append(followUps, Submission(editor, {}))
    BY <1>3 DEF QueueDraft, callVars
  <2>2. followUps \in Seq(FollowUp) /\ editor \in Text
    BY <2>1 DEF Typed, QueuesTyped, InputsTyped
  <2>3. Submission(editor, {}) \in FollowUp /\ Submission(editor, {}).text = editor
    BY <2>2, SubmissionIsFollowUp
  <2>4. InQueue(i)' = InQueue(i) + Bit(i \in InText(editor))
    BY <2>1, <2>2, <2>3, CountAppend DEF InQueue
  <2>5. InEditor(i) = Bit(i \in InText(editor)) /\ InEditor(i)' = 0
    BY <2>1 DEF InEditor, Bit
  <2>6. InFresh(i)' = InFresh(i) /\ InGone(i)' = InGone(i) /\ InSteers(i)' = InSteers(i)
        /\ InCalls(i)' = InCalls(i)
    BY <1>s, <1>0, <2>1
  <2>7. InQueue(i)' = InQueue(i) + InEditor(i)
    BY <2>4, <2>5
  <2> QED
    BY <1>n, <1>m, <1>0, <2>5, <2>6, <2>7 DEF Once, Whole
<1>4. CASE EditLatest
  <2>1. /\ UNCHANGED <<fresh, gone, call>> /\ editor = None /\ followUps # <<>>
        /\ editor' = followUps[Len(followUps)].text
        /\ followUps' = SubSeq(followUps, 1, Len(followUps) - 1)
    BY <1>4 DEF EditLatest, callVars
  <2>2. /\ followUps[Len(followUps)] \in FollowUp
        /\ Count(followUps, i) = Count(SubSeq(followUps, 1, Len(followUps) - 1), i)
                                 + Bit(i \in InText(followUps[Len(followUps)].text))
    <3>1. followUps \in Seq(FollowUp)
      BY DEF Typed, QueuesTyped
    <3> QED
      BY <2>1, <3>1, CountFront
  <2>3. InQueue(i) = InQueue(i)' + Bit(i \in InText(editor'))
    BY <2>1, <2>2 DEF InQueue
  <2>4. editor' # None
    BY <2>1, <2>2, NoneIsNoText DEF FollowUp
  <2>5. InEditor(i) = 0 /\ InEditor(i)' = Bit(i \in InText(editor'))
    BY <2>1, <2>4 DEF InEditor, Bit
  <2>6. InEditor(i) = 0 /\ InQueue(i) = InQueue(i)' + InEditor(i)'
    BY <2>3, <2>5
  <2>7. InFresh(i)' = InFresh(i) /\ InGone(i)' = InGone(i) /\ InSteers(i)' = InSteers(i)
        /\ InCalls(i)' = InCalls(i)
    BY <1>s, <1>0, <2>1
  <2> QED
    BY <1>n, <1>m, <1>0, <2>6, <2>7 DEF Once, Whole
<1>5. CASE CtrlC \/ Esc
  <2>1. \/ UNCHANGED inputVars
        \/ editor # None /\ editor' = None /\ gone' = gone \cup InText(editor) /\ UNCHANGED fresh
    BY <1>5 DEF CtrlC, Esc
  <2>2. UNCHANGED <<followUps, call>>
    BY <1>5 DEF CtrlC, Esc, queueVars, callVars
  <2>3. CASE UNCHANGED inputVars
    <3>1. /\ InFresh(i)' = InFresh(i) /\ InGone(i)' = InGone(i) /\ InEditor(i)' = InEditor(i)
          /\ InQueue(i)' = InQueue(i) /\ InSteers(i)' = InSteers(i) /\ InCalls(i)' = InCalls(i)
      BY <1>s, <1>0, <2>2, <2>3 DEF inputVars
    <3> QED
      BY <1>0, <3>1 DEF Once, Whole
  <2>4. CASE editor # None /\ editor' = None /\ gone' = gone \cup InText(editor) /\ UNCHANGED fresh
    <3>2. InEditor(i)' = 0 /\ InGone(i)' = IF InEditor(i) = 1 THEN 1 ELSE InGone(i)
      BY <2>4 DEF InGone, InEditor, Bit
    <3>3. InFresh(i)' = InFresh(i) /\ InQueue(i)' = InQueue(i) /\ InSteers(i)' = InSteers(i)
          /\ InCalls(i)' = InCalls(i)
      BY <1>s, <1>0, <2>2, <2>4
    <3> QED
      BY <1>n, <1>m, <1>0, <3>2, <3>3 DEF Once, Whole
  <2> QED
    BY <2>1, <2>3, <2>4
<1> QED
  BY <1>1, <1>2, <1>3, <1>4, <1>5 DEF Keyboard

-----------------------------------------------------------------------------
(* The steps of a call of submit. *)

\* The places of an input as numbers, before and after a step.
Numbers(i) ==
  /\ InFresh(i) \in {0, 1} /\ InGone(i) \in {0, 1} /\ delivered[i] \in Nat
  /\ InEditor(i) \in {0, 1} /\ InQueue(i) \in Nat /\ InSteers(i) \in Nat /\ InCalls(i) \in Nat

LEMMA StepNumbers ==
  ASSUME Typed, Typed', NEW i \in Input PROVE Numbers(i) /\ Numbers(i)'
BY PartsAreNat, PartsStayNat DEF Numbers

\* An input carried by a call is nowhere else.
LEMMA CarriedIsWhole ==
  ASSUME Typed, NEW i \in Input, Once(i), NEW c \in Id, Carries(call, c, i)
  PROVE  /\ InCalls(i) = 1 /\ InFresh(i) = 0 /\ delivered[i] = 0
         /\ InEditor(i) = 0 /\ InQueue(i) = 0 /\ InSteers(i) = 0
<1>1. InCalls(i) >= 1
  BY CarriedNat DEF InCalls
<1> QED
  BY <1>1, PartsAreNat DEF Once, Whole

\* The text of a call in use.
LEMMA TextOfCall ==
  ASSUME Typed, NEW c \in Id, call[c].at # "none"
  PROVE  /\ call[c].text \in Text /\ Submission(call[c].text, call[c].ids) \in FollowUp
         /\ Submission(call[c].text, {}) \in FollowUp
         /\ Submission(call[c].text, call[c].ids).text = call[c].text
         /\ Submission(call[c].text, {}).text = call[c].text
BY SubmissionIsFollowUp DEF Typed, CallsTyped, TypedCalls, SubmitCall

\* A call that still carried its text ends.
LEMMA EndGivesBack ==
  ASSUME Typed, NEW c \in Id, NEW i, End(c), delivered'[i] = delivered[i],
         call[c].at \in {"command", "preflight", "prepare", "login"}
  PROVE  InCalls(i)' = InCalls(i) - Bit(i \in InText(call[c].text))
<1>1. Bit(Carries(call, c, i)) = Bit(i \in InText(call[c].text))
  BY DEF Carries, Bit
<1>2. InCalls(i)' = InCalls(i) - Bit(Carries(call, c, i))
  BY EndCarries
<1> QED
  BY <1>1, <1>2

\* A turn starts with an input that was not given to the model yet.
LEMMA StartOnce ==
  ASSUME Typed, Typed', NEW i \in Input, Once(i), NEW c \in Id, Start(c),
         call[c].at \in {"prepare", "command"}, UNCHANGED <<fresh, gone, editor, delivered>>
  PROVE  Once(i)'
<1>n. Numbers(i) /\ Numbers(i)'
  BY StepNumbers
<1>1. call'[c].at = "turn" /\ call'[c].text = call[c].text
      /\ \A d \in Id : d # c => call'[d] = call[d]
  BY DEF Start, Typed, CallsTyped, TypedCalls, SubmitCall
<1>2. delivered'[i] = delivered[i] /\ UNCHANGED <<followUps, steers>>
  BY DEF Start
<1>3. Carries(call', c, i) <=> Carries(call, c, i)
  <2>1. Carries(call, c, i) => delivered[i] = 0
    BY CarriedIsWhole
  <2> QED
    BY <1>1, <2>1 DEF Carries
<1>4. InCalls(i)' = InCalls(i) - Bit(Carries(call, c, i)) + Bit(Carries(call', c, i))
  BY <1>1, <1>2, MoveCarries
<1>5. InCalls(i)' = InCalls(i)
  BY <1>3, <1>4, <1>n DEF Numbers, Bit
<1>6. InFresh(i)' = InFresh(i) /\ InGone(i)' = InGone(i) /\ InEditor(i)' = InEditor(i)
      /\ InQueue(i)' = InQueue(i) /\ InSteers(i)' = InSteers(i)
  BY <1>2, PartsStay
<1> QED
  BY <1>2, <1>5, <1>6 DEF Once, Whole

\* An input goes behind the follow-ups.
LEMMA PostponeOnce ==
  ASSUME Typed, Typed', NEW i \in Input, Once(i), NEW c \in Id, Postpone(c),
         call[c].at \in {"prepare", "command"}, UNCHANGED <<fresh, gone, editor, delivered>>
  PROVE  Once(i)'
<1>n. Numbers(i) /\ Numbers(i)'
  BY StepNumbers
<1>1. End(c) /\ delivered'[i] = delivered[i] /\ UNCHANGED steers
      /\ followUps' = Append(followUps, Submission(call[c].text, call[c].ids))
  BY DEF Postpone
<1>2. InCalls(i)' = InCalls(i) - Bit(i \in InText(call[c].text))
  BY <1>1, EndGivesBack
<1>3. InQueue(i)' = InQueue(i) + Bit(i \in InText(call[c].text))
  <2>1. followUps \in Seq(FollowUp)
    BY DEF Typed, QueuesTyped
  <2>2. Submission(call[c].text, call[c].ids) \in FollowUp
        /\ Submission(call[c].text, call[c].ids).text = call[c].text
    BY TextOfCall
  <2> QED
    BY <1>1, <2>1, <2>2, CountAppend DEF InQueue
<1>4. InFresh(i)' = InFresh(i) /\ InGone(i)' = InGone(i) /\ InEditor(i)' = InEditor(i)
      /\ InSteers(i)' = InSteers(i) /\ delivered'[i] = delivered[i]
  BY <1>1, PartsStay
<1> QED
  BY <1>2, <1>3, <1>4, <1>n DEF Once, Whole, Numbers, Bit

\* A call ends and its input with it.
LEMMA EndOnce ==
  ASSUME Typed, Typed', NEW i \in Input, Once(i), NEW c \in Id, End(c),
         call[c].at \in {"command", "login"}, gone' = gone \cup InText(call[c].text),
         UNCHANGED <<fresh, editor, delivered, followUps, steers>>
  PROVE  Once(i)'
<1>n. Numbers(i) /\ Numbers(i)'
  BY StepNumbers
<1>1. InCalls(i)' = InCalls(i) - Bit(i \in InText(call[c].text))
  BY EndGivesBack
<1>2. InGone(i)' = IF i \in InText(call[c].text) THEN 1 ELSE InGone(i)
  BY DEF InGone, Bit
<1>4. i \in InText(call[c].text) => Whole(i) = 1
  <2>1. i \in InText(call[c].text) => Carries(call, c, i)
    BY DEF Carries
  <2> QED
    BY <2>1, <1>n, CarriedIsWhole DEF Whole
<1>3. InFresh(i)' = InFresh(i) /\ InEditor(i)' = InEditor(i) /\ InSteers(i)' = InSteers(i)
      /\ InQueue(i)' = InQueue(i) /\ delivered'[i] = delivered[i]
  BY PartsStay
<1> QED
  BY <1>1, <1>2, <1>3, <1>4, <1>n DEF Once, Whole, Numbers, Bit

LEMMA CommandOnce ==
  ASSUME Typed, Typed', NEW c \in Id, Command(c), NEW i \in Input, Once(i)
  PROVE  Once(i)'
<1>n. Numbers(i) /\ Numbers(i)'
  BY StepNumbers
<1>1. call[c].at = "command" /\ UNCHANGED <<fresh, editor, delivered>>
  BY DEF Command, runtimeVars
<1>2. CASE End(c) /\ gone' = gone \cup InText(call[c].text) /\ UNCHANGED queueVars
  BY <1>1, <1>2, EndOnce DEF queueVars
<1>3. CASE /\ \E step \in {"login", "prepare"} : call' = [call EXCEPT ![c].at = step]
           /\ UNCHANGED <<gone, followUps, steers>>
  <2>1. call'[c].at \in {"login", "prepare"} /\ call'[c].text = call[c].text
        /\ \A d \in Id : d # c => call'[d] = call[d]
    BY <1>3 DEF Typed, CallsTyped, TypedCalls, SubmitCall
  <2>2. Carries(call', c, i) <=> Carries(call, c, i)
    BY <1>1, <2>1 DEF Carries
  <2>3. InCalls(i)' = InCalls(i) - Bit(Carries(call, c, i)) + Bit(Carries(call', c, i))
    BY <1>1, <2>1, MoveCarries
  <2>4. InCalls(i)' = InCalls(i)
    BY <2>2, <2>3, <1>n DEF Numbers, Bit
  <2>5. InFresh(i)' = InFresh(i) /\ InGone(i)' = InGone(i) /\ InEditor(i)' = InEditor(i)
        /\ InQueue(i)' = InQueue(i) /\ InSteers(i)' = InSteers(i) /\ delivered'[i] = delivered[i]
    BY <1>1, <1>3, PartsStay
  <2> QED
    BY <2>4, <2>5 DEF Once, Whole
<1>4. CASE Postpone(c) /\ UNCHANGED gone
  BY <1>1, <1>4, PostponeOnce
<1>5. CASE Start(c) /\ UNCHANGED gone
  BY <1>1, <1>5, StartOnce
<1> QED
  BY <1>2, <1>3, <1>4, <1>5 DEF Command, queueVars
-----------------------------------------------------------------------------
\* The steps of a call of submit.
LEMMA PreflightOnce ==
  ASSUME Typed, Typed', NEW c \in Id, Preflight(c), NEW i \in Input, Once(i)
  PROVE  Once(i)'
<1>n. Numbers(i) /\ Numbers(i)'
  BY StepNumbers
<1>1. call[c].at = "preflight" /\ UNCHANGED <<fresh, gone, delivered>> /\ delivered'[i] = delivered[i]
  BY DEF Preflight, runtimeVars
<1>2. InFresh(i)' = InFresh(i) /\ InGone(i)' = InGone(i)
  BY <1>1, PartsStay
<1>3. CASE call' = [call EXCEPT ![c].at = "prepare"] /\ UNCHANGED <<editor, queueVars>>
  <2>1. call'[c].at = "prepare" /\ call'[c].text = call[c].text
        /\ \A d \in Id : d # c => call'[d] = call[d]
    BY <1>3 DEF Typed, CallsTyped, TypedCalls, SubmitCall
  <2>2. Carries(call', c, i) <=> Carries(call, c, i)
    BY <1>1, <2>1 DEF Carries
  <2>3. InCalls(i)' = InCalls(i) - Bit(Carries(call, c, i)) + Bit(Carries(call', c, i))
    BY <1>1, <2>1, MoveCarries
  <2>4. InCalls(i)' = InCalls(i)
    BY <2>2, <2>3, <1>n DEF Numbers, Bit
  <2>5. InEditor(i)' = InEditor(i) /\ InQueue(i)' = InQueue(i) /\ InSteers(i)' = InSteers(i)
    BY <1>3, PartsStay DEF queueVars
  <2> QED
    BY <1>1, <1>2, <2>4, <2>5 DEF Once, Whole
<1>4. End(c) => InCalls(i)' = InCalls(i) - Bit(i \in InText(call[c].text))
  BY <1>1, EndGivesBack
<1>5. CASE /\ followUps' = <<Submission(call[c].text, call[c].ids)>> \o followUps
           /\ End(c) /\ UNCHANGED <<editor, steers>>
  <2>1. followUps \in Seq(FollowUp)
    BY DEF Typed, QueuesTyped
  <2>2. Submission(call[c].text, call[c].ids) \in FollowUp
        /\ Submission(call[c].text, call[c].ids).text = call[c].text
    BY <1>1, TextOfCall
  <2>3. InQueue(i)' = Bit(i \in InText(call[c].text)) + InQueue(i)
    BY <1>5, <2>1, <2>2, CountPrepend DEF InQueue
  <2>4. InEditor(i)' = InEditor(i) /\ InSteers(i)' = InSteers(i) /\ delivered'[i] = delivered[i]
    BY <1>1, <1>5, PartsStay
  <2>5. InCalls(i)' = InCalls(i) - Bit(i \in InText(call[c].text))
    BY <1>4, <1>5
  <2> QED
    BY <1>2, <2>3, <2>4, <2>5, <1>n DEF Once, Whole, Numbers, Bit
<1>6. CASE editor = None /\ editor' = call[c].text /\ End(c) /\ UNCHANGED <<followUps, steers>>
  <2>1. editor' # None
    BY <1>1, <1>6, TextOfCall, NoneIsNoText
  <2>2. InEditor(i) = 0 /\ InEditor(i)' = Bit(i \in InText(call[c].text))
    BY <1>6, <2>1 DEF InEditor, Bit
  <2>3. InQueue(i)' = InQueue(i) /\ InSteers(i)' = InSteers(i)
    BY <1>6, PartsStay
  <2> QED
    BY <1>1, <1>2, <1>4, <1>6, <2>2, <2>3, <1>n DEF Once, Whole, Numbers, Bit
<1> QED
  BY <1>3, <1>5, <1>6 DEF Preflight

LEMMA SteerOnce ==
  ASSUME Typed, Typed', NEW c \in Id, Steer(c), call[c].at = "prepare", NEW i \in Input, Once(i),
         UNCHANGED <<fresh, gone, editor, delivered>>
  PROVE  Once(i)'
<1>n. Numbers(i) /\ Numbers(i)'
  BY StepNumbers
<1> DEFINE new == [id |-> c, text |-> call[c].text, admitted |-> FALSE]
<1>1. new \in PendingSteer /\ new.text = call[c].text
  BY TextOfCall DEF PendingSteer
<1>2. steers' = Append(steers, new) /\ steers \in Seq(PendingSteer) /\ UNCHANGED followUps
  BY DEF Steer, Typed, QueuesTyped
<1> HIDE DEF new
<1>3. InSteers(i)' = InSteers(i) + Bit(i \in InText(call[c].text))
  BY <1>1, <1>2, CountAppend DEF InSteers
<1>4. call'[c].at = "steering" /\ \A d \in Id : d # c => call'[d] = call[d]
  BY DEF Steer, Typed, CallsTyped, TypedCalls, SubmitCall
<1>5. ~Carries(call', c, i) /\ (Carries(call, c, i) <=> i \in InText(call[c].text))
  BY <1>4 DEF Carries
<1>6. InCalls(i)' = InCalls(i) - Bit(Carries(call, c, i)) + Bit(Carries(call', c, i))
  BY <1>4, MoveCarries
<1>7. InFresh(i)' = InFresh(i) /\ InGone(i)' = InGone(i) /\ InEditor(i)' = InEditor(i)
      /\ InQueue(i)' = InQueue(i) /\ delivered'[i] = delivered[i]
  BY <1>2, PartsStay
<1>8. InCalls(i)' = InCalls(i) - Bit(i \in InText(call[c].text))
  BY <1>5, <1>6, <1>n DEF Numbers, Bit
<1> QED
  BY <1>3, <1>7, <1>8, <1>n DEF Once, Whole, Numbers, Bit

-----------------------------------------------------------------------------
(* The steps of the runtime. *)

\* Steps that move no input.
LEMMA StillOnce ==
  ASSUME Typed, NEW i \in Input, Once(i),
         UNCHANGED <<fresh, gone, editor, followUps, delivered>>,
         InSteers(i)' = InSteers(i), InCalls(i)' = InCalls(i)
  PROVE  Once(i)'
<1>1. InFresh(i)' = InFresh(i) /\ InGone(i)' = InGone(i) /\ InEditor(i)' = InEditor(i)
      /\ InQueue(i)' = InQueue(i) /\ delivered'[i] = delivered[i]
  BY PartsStay
<1> QED
  BY <1>1 DEF Once, Whole

\* An answer changes nothing that a call carries.
LEMMA AnswerCarries ==
  ASSUME Typed, NEW r \in Id, NEW a, call' = [call EXCEPT ![r].answer = a], UNCHANGED delivered,
         NEW i \in Input
  PROVE  InCalls(i)' = InCalls(i)
<1>1. \A d \in Id : call'[d].at = call[d].at /\ call'[d].text = call[d].text
  BY DEF Typed, CallsTyped, TypedCalls, SubmitCall
<1>2. \A d \in Id : Carries(call, d, i)' <=> Carries(call, d, i)
  BY <1>1 DEF Carries
<1>3. {d \in Id : Carries(call, d, i)'} = {d \in Id : Carries(call, d, i)}
  BY <1>2
<1> QED
  BY <1>3 DEF InCalls, Carried

\* The steps of the runtime.
LEMMA StartsOnce ==
  ASSUME Typed, Typed', TurnInv, Unstarted, NEW c \in Id, RuntimeStarts(c),
         NEW i \in Input, Once(i)
  PROVE  Once(i)'
<1>n. Numbers(i) /\ Numbers(i)'
  BY StepNumbers
<1>1. /\ call[c].at = "turn" /\ call[c].answer = "none" /\ running # c
      /\ UNCHANGED <<fresh, gone, editor, followUps, steers, call>>
      /\ delivered'[i] = delivered[i] + IF i \in InText(call[c].text) THEN 1 ELSE 0
  BY TurnAssumption DEF RuntimeStarts, Give, inputVars, queueVars, callVars, Id
<1>2. delivered'[i] = delivered[i] + Bit(i \in InText(call[c].text))
  BY <1>1 DEF Bit
<1>3. \A d \in Id : d # c => (Carries(call, d, i)' <=> Carries(call, d, i))
  BY <1>1 DEF Carries, TurnInv, OneActive
<1>4. (Carries(call, c, i) <=> i \in InText(call[c].text)) /\ ~Carries(call, c, i)'
  <2>1. i \in InText(call[c].text) => delivered[i] = 0 /\ delivered'[i] = 1
    BY <1>1, <1>n DEF Unstarted, Numbers
  <2> QED
    BY <1>1, <2>1 DEF Carries
<1>5. InCalls(i)' = InCalls(i) - Bit(i \in InText(call[c].text))
  <2> DEFINE S == {d \in Id : Carries(call, d, i)}
             T == {d \in Id : Carries(call, d, i)'}
  <2>1. S \subseteq Id /\ T \subseteq Id /\ S \ {c} = T \ {c}
    BY <1>3
  <2>2. (c \in S <=> i \in InText(call[c].text)) /\ c \notin T
    BY <1>4
  <2>3. InCalls(i) = Cardinality(S) /\ InCalls(i)' = Cardinality(T)
    BY DEF InCalls, Carried
  <2> HIDE DEF S, T
  <2>4. /\ Cardinality(S) \in Nat /\ Cardinality(T) \in Nat
        /\ Cardinality(T) = Cardinality(S) - Bit(c \in S) + Bit(c \in T)
    BY <2>1, OneCallChanges
  <2> QED
    BY <2>2, <2>3, <2>4 DEF Bit
<1>6. InFresh(i)' = InFresh(i) /\ InGone(i)' = InGone(i) /\ InEditor(i)' = InEditor(i)
      /\ InQueue(i)' = InQueue(i) /\ InSteers(i)' = InSteers(i)
  BY <1>1, PartsStay
<1> QED
  BY <1>2, <1>5, <1>6, <1>n DEF Once, Whole, Numbers, Bit

LEMMA QueuesOnce ==
  ASSUME Typed, NEW c \in Id, RuntimeQueues(c), NEW i \in Input, Once(i) PROVE Once(i)'
<1>1. UNCHANGED <<fresh, gone, editor, followUps, delivered>>
  BY DEF RuntimeQueues, inputVars
<1>2. InCalls(i)' = InCalls(i)
  BY <1>1, AnswerCarries DEF RuntimeQueues
<1>3. InSteers(i)' = InSteers(i)
  <2>1. steers \in Seq(PendingSteer)
    BY DEF Typed, QueuesTyped
  <2>2. Count(Admit(c), i) = Count(steers, i)
    BY <2>1, AdmittedEntries
  <2>3. steers' = steers \/ steers' = Admit(c)
    BY DEF RuntimeQueues
  <2> QED
    BY <2>2, <2>3 DEF InSteers
<1> QED
  BY <1>1, <1>2, <1>3, StillOnce

\* The steer an item of the runtime stands for.
LEMMA HeldIsPending ==
  ASSUME TrackInv, NEW h \in held, running # None, call[running].epoch = h.epoch, NEW i
  PROVE  /\ Heard(h.epoch) /\ Tracked(h.id)
         /\ Count(steers, i) = Count(Untrack(h.id), i) + Bit(i \in InText(h.text))
<1> USE DEF TrackInv
<1>1. Heard(h.epoch)
  BY RunningIsPrimary DEF Heard
<1>2. PICK e \in Entries(steers) : e.id = h.id /\ e.text = h.text
  BY <1>1 DEF HeldTracked, Heard
<1>3. Tracked(h.id)
  BY <1>2 DEF Tracked, Entries
<1>4. steers \in Seq(PendingSteer) /\ Unique(steers)
  BY DEF Typed, QueuesTyped, SteersTracked
<1>5. Count(steers, i) = Count(Untrack(e.id), i) + Bit(i \in InText(e.text))
  BY <1>4, UntrackedEntries
<1> QED
  BY <1>1, <1>2, <1>3, <1>5

LEMMA DrainsOnce ==
  ASSUME TrackInv, Typed', NEW h \in held, RuntimeDrains(h), NEW i \in Input, Once(i)
  PROVE  Once(i)'
<1>n. Numbers(i) /\ Numbers(i)'
  BY StepNumbers DEF TrackInv
<1>1. /\ running # None /\ call[running].epoch = h.epoch
      /\ UNCHANGED <<fresh, gone, editor, followUps, call>>
      /\ delivered'[i] = delivered[i] + Bit(i \in InText(h.text))
      /\ Heard(h.epoch) => steers' = Untrack(h.id)
  BY DEF RuntimeDrains, Give, inputVars, callVars, Bit
<1>2. InSteers(i) = InSteers(i)' + Bit(i \in InText(h.text))
  BY <1>1, HeldIsPending DEF InSteers
<1>3. InCalls(i)' = InCalls(i)
  <2>1. CASE i \notin InText(h.text)
    <3>1. delivered'[i] = delivered[i]
      BY <1>1, <1>n, <2>1 DEF Bit, Numbers
    <3>2. Carried(call', i) = Carried(call, i)
      BY <1>1
    <3> QED
      BY <3>1, <3>2, CarriedAfter DEF InCalls
  <2>2. CASE i \in InText(h.text)
    <3>1. InCalls(i) = 0 /\ delivered'[i] = 1
      <4>1. InSteers(i) >= 1
        BY <1>2, <1>n, <2>2 DEF Bit, Numbers
      <4> QED
        BY <1>1, <1>n, <2>2, <4>1 DEF Once, Whole, Numbers, Bit
    <3>2. \A d \in Id : ~Carries(call, d, i)
      BY <3>1, CarriedNat DEF InCalls
    <3>3. \A d \in Id : ~Carries(call, d, i)'
      BY <1>1, <3>1, <3>2 DEF Carries
    <3>4. {d \in Id : Carries(call, d, i)'} = {} /\ {d \in Id : Carries(call, d, i)} = {}
      BY <3>2, <3>3
    <3> QED
      BY <3>4 DEF InCalls, Carried
  <2> QED
    BY <2>1, <2>2
<1>4. InFresh(i)' = InFresh(i) /\ InGone(i)' = InGone(i) /\ InEditor(i)' = InEditor(i)
      /\ InQueue(i)' = InQueue(i)
  BY <1>1, PartsStay
<1>5. delivered'[i] = delivered[i] + Bit(i \in InText(h.text))
  BY <1>1
<1> QED
  BY <1>2, <1>3, <1>4, <1>5, <1>n DEF Once, Whole, Numbers, Bit

LEMMA RequeueOnce ==
  ASSUME Typed, NEW i, NEW t \in Text
  PROVE  Count(Requeue(t), i) = Count(followUps, i) + Bit(i \in InText(t))
<1>1. Submission(t, {}) \in FollowUp /\ Submission(t, {}).text = t /\ followUps \in Seq(FollowUp)
  BY SubmissionIsFollowUp DEF Typed, QueuesTyped
<1> QED
  BY <1>1, CountAppend DEF Requeue

LEMMA DiscardsOnce ==
  ASSUME TrackInv, Typed', NEW h \in held, RuntimeDiscards(h), NEW i \in Input, Once(i)
  PROVE  Once(i)'
<1>n. Numbers(i) /\ Numbers(i)'
  BY StepNumbers DEF TrackInv
<1>1. /\ running # None /\ call[running].epoch = h.epoch
      /\ UNCHANGED <<fresh, gone, editor, call, delivered>>
      /\ Heard(h.epoch) /\ Tracked(h.id) => steers' = Untrack(h.id) /\ followUps' = Requeue(h.text)
  BY DEF RuntimeDiscards, inputVars, callVars
<1>2. Heard(h.epoch) /\ Tracked(h.id)
      /\ Count(steers, i) = Count(Untrack(h.id), i) + Bit(i \in InText(h.text))
  BY <1>1, HeldIsPending
<1>3. InSteers(i) = InSteers(i)' + Bit(i \in InText(h.text))
  BY <1>1, <1>2 DEF InSteers
<1>4. InQueue(i)' = InQueue(i) + Bit(i \in InText(h.text))
  <2>1. h.text \in Text /\ Typed
    BY DEF TrackInv, Typed, RuntimeTyped, HeldSteer
  <2>2. Count(Requeue(h.text), i) = Count(followUps, i) + Bit(i \in InText(h.text))
    BY <2>1, RequeueOnce
  <2> QED
    BY <1>1, <1>2, <2>2 DEF InQueue
<1>5. InFresh(i)' = InFresh(i) /\ InGone(i)' = InGone(i) /\ InEditor(i)' = InEditor(i)
      /\ InCalls(i)' = InCalls(i) /\ delivered'[i] = delivered[i]
  BY <1>1, PartsStay
<1> QED
  BY <1>3, <1>4, <1>5, <1>n DEF Once, Whole, Numbers, Bit

LEMMA RuntimeOnce ==
  ASSUME TrackInv, Typed', Unstarted, Runtime, NEW i \in Input, Once(i)
  PROVE  Once(i)'
<1> USE DEF TrackInv
<1>1. ASSUME NEW c \in Id, RuntimeRefuses(c) PROVE Once(i)'
  <2>1. UNCHANGED <<fresh, gone, editor, followUps, steers, delivered>>
    BY <1>1 DEF RuntimeRefuses, inputVars, queueVars, runtimeVars
  <2>2. InCalls(i)' = InCalls(i)
    BY <1>1, <2>1, AnswerCarries DEF RuntimeRefuses
  <2> QED
    BY <2>1, <2>2, StillOnce, PartsStay
<1>2. CASE RuntimeEnds
  <2>1. UNCHANGED <<fresh, gone, editor, followUps, steers, delivered>>
    BY <1>2 DEF RuntimeEnds, inputVars, queueVars
  <2>2. InCalls(i)' = InCalls(i)
    <3> DEFINE r == running
    <3>1. r \in Id /\ \E a : call' = [call EXCEPT ![r].answer = a]
      BY <1>2 DEF RuntimeEnds, Typed, RuntimeTyped
    <3> HIDE DEF r
    <3> QED
      BY <2>1, <3>1, AnswerCarries
  <2> QED
    BY <2>1, <2>2, StillOnce, PartsStay
<1>3. CASE HandoffBegins \/ HandoffEnds
  <2>1. UNCHANGED <<fresh, gone, editor, followUps, steers, delivered, call>>
    BY <1>3 DEF HandoffBegins, HandoffEnds, inputVars, queueVars, callVars, runtimeVars
  <2> QED
    BY <2>1, StillOnce, PartsStay
<1> QED
  BY <1>1, <1>2, <1>3, StartsOnce, QueuesOnce, DrainsOnce, DiscardsOnce DEF Runtime

\* The ends of a steer and of a turn, and the follow-up that goes on.
LEMMA SettleSteerOnce ==
  ASSUME TrackInv, CommandsAreSlash, Typed', NEW c \in Id, SettleSteer(c), NEW i \in Input, Once(i)
  PROVE  Once(i)'
<1> USE DEF TrackInv
<1>n. Numbers(i) /\ Numbers(i)'
  BY StepNumbers
<1>1. /\ call[c].at = "steering" /\ End(c) /\ UNCHANGED <<fresh, editor, delivered>>
      /\ delivered'[i] = delivered[i]
  BY DEF SettleSteer, inputVars, runtimeVars
<1>g. InGone(i)' = InGone(i) \/ (i \in Slash /\ InGone(i)' = 1)
  BY <1>1 DEF SettleSteer, CommandsAreSlash, InGone, Bit
<1>2. InCalls(i)' = InCalls(i)
  <2>1. Bit(Carries(call, c, i)) = 0
    BY <1>1 DEF Carries, Bit
  <2>2. InCalls(i)' = InCalls(i) - Bit(Carries(call, c, i))
    BY <1>1, EndCarries
  <2> QED
    BY <2>1, <2>2, <1>n DEF Numbers
<1>3. steers \in Seq(PendingSteer) /\ Unique(steers)
  BY DEF Typed, QueuesTyped, SteersTracked
<1>4. \/ (steers' = steers \/ steers' = Admit(c)) /\ UNCHANGED followUps
      \/ /\ turn # None /\ turnEpoch = call[c].epoch /\ Tracked(c)
         /\ steers' = Untrack(c) /\ followUps' = Requeue(call[c].text)
  BY DEF SettleSteer
<1>5. CASE (steers' = steers \/ steers' = Admit(c)) /\ UNCHANGED followUps
  <2>1. Count(Admit(c), i) = Count(steers, i)
    BY <1>3, AdmittedEntries
  <2>2. InSteers(i)' = InSteers(i)
    BY <1>5, <2>1 DEF InSteers
  <2>3. InFresh(i)' = InFresh(i) /\ InEditor(i)' = InEditor(i) /\ InQueue(i)' = InQueue(i)
    BY <1>1, <1>5, PartsStay
  <2> QED
    BY <1>1, <1>2, <1>g, <2>2, <2>3 DEF Once, Whole
<1>6. CASE Tracked(c) /\ steers' = Untrack(c) /\ followUps' = Requeue(call[c].text)
  <2>1. PICK e \in Entries(steers) : e.id = c
    BY <1>6 DEF Tracked, Entries
  <2>2. e.text = call[c].text
    BY <1>1, <2>1 DEF SteersTracked
  <2>3. Count(steers, i) = Count(Untrack(e.id), i) + Bit(i \in InText(e.text))
    BY <1>3, UntrackedEntries
  <2>4. InSteers(i) = InSteers(i)' + Bit(i \in InText(call[c].text))
    BY <1>6, <2>1, <2>2, <2>3 DEF InSteers
  <2>5. InQueue(i)' = InQueue(i) + Bit(i \in InText(call[c].text))
    <3>1. call[c].text \in Text
      BY <1>1, TextOfCall
    <3>2. Count(Requeue(call[c].text), i) = Count(followUps, i) + Bit(i \in InText(call[c].text))
      BY <3>1, RequeueOnce
    <3> QED
      BY <1>6, <3>2 DEF InQueue
  <2>6. InFresh(i)' = InFresh(i) /\ InEditor(i)' = InEditor(i) /\ delivered'[i] = delivered[i]
    BY <1>1, PartsStay
  <2> QED
    BY <1>2, <1>g, <2>4, <2>5, <2>6, <1>n DEF Once, Whole, Numbers, Bit
<1> QED
  BY <1>4, <1>5, <1>6

\* The head of a queue goes to a call of its own.
LEMMA HeadSubmitted ==
  ASSUME Typed, TurnInv, NEW cs, TypedCalls(cs), NEW queue \in Seq(FollowUp), queue # <<>>,
         SubmitIn(cs, Head(queue), TRUE, FALSE), NEW i, delivered'[i] = delivered[i],
         \A d \in Id : cs[d] = call[d] \/ cs[d] = NoCall
  PROVE  InCalls(i)' + Count(Tail(queue), i) = Carried(cs, i) + Count(queue, i)
<1>1. Count(queue, i) = Bit(i \in InText(Head(queue).text)) + Count(Tail(queue), i)
      /\ Tail(queue) \in Seq(FollowUp)
  BY CountTail
<1>2. InCalls(i)' = Carried(cs, i) + Bit(i \in InText(Head(queue).text))
  BY ZenonT(40), SubmitCarries
<1>3. Carried(cs, i) \in Nat
  BY CarriedNat
<1>4. Count(Tail(queue), i) \in Nat
  BY <1>1, CountType
<1> QED
  BY <1>1, <1>2, <1>3, <1>4 DEF Bit

LEMMA SettleTurnOnce ==
  ASSUME TrackInv, Typed', NEW c \in Id, SettleTurn(c), NEW i \in Input, Once(i)
  PROVE  Once(i)'
<1> USE DEF TrackInv
<1>n. Numbers(i) /\ Numbers(i)'
  BY StepNumbers
<1> DEFINE forSteers == Cancelled(call[c].answer) /\ turn.forSteers
           queue     == Recovered(forSteers)
           ended     == [call EXCEPT ![c] = NoCall]
<1>1. /\ call[c].at = "turn" /\ steers' = <<>>
      /\ gone' = gone \cup {j \in InText(call[c].text) : delivered[j] = 0}
      /\ UNCHANGED <<fresh, editor, delivered>> /\ delivered'[i] = delivered[i]
  BY DEF SettleTurn, runtimeVars
<1>2. \/ queue # <<>> /\ SubmitIn(ended, Head(queue), TRUE, FALSE) /\ followUps' = Tail(queue)
      \/ followUps' = queue /\ call' = ended
  BY Zenon DEF SettleTurn
<1>3. forSteers \in BOOLEAN
  <2>1. turn # None
    BY <1>1 DEF TurnInv, OneActive
  <2> QED
    BY <2>1 DEF Typed, TurnTyped, PrimaryTurn
<1>4. /\ TypedCalls(ended) /\ \A d \in Id : ended[d] = call[d] \/ ended[d] = NoCall
      /\ Carried(ended, i) = InCalls(i) - Bit(Carries(call, c, i))
  BY EndTyped, EndedCarries DEF Typed, CallsTyped, TypedCalls
<1>5. queue \in Seq(FollowUp) /\ Count(queue, i) = InQueue(i) + InSteers(i)
  <2>1. followUps \in Seq(FollowUp) /\ steers \in Seq(PendingSteer) /\ Count(steers, i) <= 1
    <3>1. InSteers(i) <= 1
      BY <1>n DEF Once, Whole, Numbers
    <3> QED
      BY <3>1 DEF InSteers, Typed, QueuesTyped
  <2> HIDE DEF forSteers
  <2> QED
    BY <1>3, <2>1, RecoveredCount DEF InQueue, InSteers
<1> HIDE DEF queue, ended
<1>6. InCalls(i)' + InQueue(i)' = Carried(ended, i) + Count(queue, i)
  <2>1. CASE queue # <<>> /\ SubmitIn(ended, Head(queue), TRUE, FALSE) /\ followUps' = Tail(queue)
    <3>1. InCalls(i)' + Count(Tail(queue), i) = Carried(ended, i) + Count(queue, i)
      BY <1>1, <1>4, <1>5, <2>1, HeadSubmitted
    <3> QED
      BY <2>1, <3>1 DEF InQueue
  <2>2. CASE followUps' = queue /\ call' = ended
    <3>1. InCalls(i)' = Carried(ended, i)
      BY <1>1, <2>2, CarriedAfter
    <3> QED
      BY <2>2, <3>1 DEF InQueue
  <2> QED
    BY <1>2, <2>1, <2>2
<1>7. InGone(i)' = IF Carries(call, c, i) THEN 1 ELSE InGone(i)
  <2>1. Carries(call, c, i) <=> i \in {j \in InText(call[c].text) : delivered[j] = 0}
    BY <1>1 DEF Carries
  <2> QED
    BY <1>1, <2>1 DEF InGone, Bit
<1>12. Carries(call, c, i) => Whole(i) = 1
  BY <1>n, CarriedIsWhole DEF Whole
<1>8. InSteers(i)' = 0
  BY <1>1, CountEmpty DEF InSteers
<1>9. InFresh(i)' = InFresh(i) /\ InEditor(i)' = InEditor(i) /\ delivered'[i] = delivered[i]
  BY <1>1, PartsStay
<1>10. Bit(Carries(call, c, i)) \in {0, 1}
  BY DEF Bit
<1>11. Carried(ended, i) = InCalls(i) - Bit(Carries(call, c, i))
       /\ Count(queue, i) = InQueue(i) + InSteers(i)
  BY <1>4, <1>5
<1> QED
  BY <1>6, <1>7, <1>8, <1>9, <1>10, <1>11, <1>12, <1>n DEF Once, Whole, Numbers, Bit

LEMMA DrainOnce ==
  ASSUME TrackInv, Typed', Drain, NEW i \in Input, Once(i) PROVE Once(i)'
<1> USE DEF TrackInv
<1>n. Numbers(i) /\ Numbers(i)'
  BY StepNumbers
<1>1. UNCHANGED <<fresh, gone, editor, steers, delivered>> /\ delivered'[i] = delivered[i]
  BY DEF Drain, inputVars, runtimeVars
<1>2. \/ UNCHANGED <<call, followUps>>
      \/ followUps # <<>> /\ SubmitIn(call, Head(followUps), TRUE, FALSE) /\ followUps' = Tail(followUps)
  BY DEF Drain, callVars
<1>3. CASE UNCHANGED <<call, followUps>>
  BY <1>1, <1>3, StillOnce, PartsStay
<1>4. CASE followUps # <<>> /\ SubmitIn(call, Head(followUps), TRUE, FALSE) /\ followUps' = Tail(followUps)
  <2>1. followUps \in Seq(FollowUp) /\ TypedCalls(call)
    BY DEF Typed, QueuesTyped, CallsTyped
  <2>2. InCalls(i)' + Count(Tail(followUps), i) = Carried(call, i) + Count(followUps, i)
    BY <1>1, <1>4, <2>1, HeadSubmitted
  <2>3. InCalls(i)' + InQueue(i)' = InCalls(i) + InQueue(i)
    BY <1>4, <2>2 DEF InQueue, InCalls
  <2>4. InFresh(i)' = InFresh(i) /\ InGone(i)' = InGone(i) /\ InEditor(i)' = InEditor(i)
        /\ InSteers(i)' = InSteers(i) /\ delivered'[i] = delivered[i]
    BY <1>1, PartsStay
  <2> QED
    BY <2>3, <2>4, <1>n DEF Once, Whole, Numbers
<1> QED
  BY <1>2, <1>3, <1>4

LEMMA ResumedOnce ==
  ASSUME TrackInv, CommandsAreSlash, Typed', Resumed, NEW i \in Input, Once(i) PROVE Once(i)'
<1> USE DEF TrackInv
<1>1. ASSUME NEW c \in Id, Prepared(c) PROVE Once(i)'
  <2>1. call[c].at = "prepare" /\ UNCHANGED <<fresh, gone, editor, delivered>>
    BY <1>1 DEF Prepared, inputVars, runtimeVars
  <2> QED
    BY <1>1, <2>1, SteerOnce, PostponeOnce, StartOnce DEF Prepared
<1>2. ASSUME NEW c \in Id, LoginEnds(c) PROVE Once(i)'
  BY <1>2, EndOnce DEF LoginEnds, queueVars, runtimeVars
<1>3. CASE InterruptAnswered \/ HandoffInterrupted
  <2>1. UNCHANGED <<fresh, gone, editor, followUps, steers, delivered, call>>
    BY <1>3 DEF InterruptAnswered, HandoffInterrupted, inputVars, queueVars, callVars, runtimeVars
  <2> QED
    BY <2>1, StillOnce, PartsStay
<1> QED
  BY <1>1, <1>2, <1>3, PreflightOnce, SettleSteerOnce, SettleTurnOnce, DrainOnce DEF Resumed

LEMMA WholePreserved ==
  ASSUME TrackInv, CommandsAreSlash, Unstarted, [Next]_vars, NEW i \in Input, Once(i) PROVE Once(i)'
<1> USE DEF TrackInv
<1>1. Typed'
  BY TypedPreserved
<1>2. CASE UNCHANGED vars
  <2>1. UNCHANGED <<fresh, gone, editor, followUps, steers, delivered, call>>
    BY <1>2 DEF vars, inputVars, queueVars, callVars, runtimeVars
  <2> QED
    BY <2>1, StillOnce, PartsStay
<1> QED
  BY <1>1, <1>2, CommandOnce, KeyboardOnce, RuntimeOnce, ResumedOnce DEF Next
-----------------------------------------------------------------------------
\* What one step does to the turn the runtime runs and to what is delivered.
LEMMA RuntimeLife ==
  ASSUME Typed, [Next]_vars
  PROVE  \/ UNCHANGED <<running, delivered>>
         \/ \E c \in Id : RuntimeStarts(c)
         \/ running # None /\ running' = running
         \/ RuntimeEnds
<1> DEFINE Goal == \/ UNCHANGED <<running, delivered>>
                   \/ \E c \in Id : RuntimeStarts(c)
                   \/ running # None /\ running' = running
                   \/ RuntimeEnds
<1>1. ASSUME Keyboard PROVE UNCHANGED <<running, delivered>>
  BY <1>1 DEF Keyboard, Type, Enter, QueueDraft, EditLatest, CtrlC, Esc, runtimeVars
<1>2. ASSUME Runtime PROVE Goal
  BY <1>2 DEF Runtime, RuntimeQueues, RuntimeRefuses, RuntimeDrains, RuntimeDiscards,
     HandoffBegins, HandoffEnds, runtimeVars
<1>3. ASSUME Resumed PROVE UNCHANGED <<running, delivered>>
  BY <1>3 DEF Resumed, Preflight, Prepared, LoginEnds, SettleSteer, SettleTurn,
     InterruptAnswered, HandoffInterrupted, Drain, runtimeVars
<1>4. ASSUME NEW c \in Id, Command(c) PROVE UNCHANGED <<running, delivered>>
  BY <1>4 DEF Command, runtimeVars
<1>5. ASSUME UNCHANGED vars PROVE UNCHANGED <<running, delivered>>
  BY <1>5 DEF vars, runtimeVars
<1>6. UNCHANGED <<running, delivered>> => Goal
  OBVIOUS
<1> HIDE DEF Goal
<1>7. Goal
  BY <1>1, <1>2, <1>3, <1>4, <1>5, <1>6 DEF Next
<1> QED
  BY <1>7 DEF Goal

LEMMA UnstartedPreserved ==
  ASSUME TrackInv, Unstarted, \A i \in Input : Once(i), [Next]_vars PROVE Unstarted'
<1> USE DEF TrackInv
<1> SUFFICES ASSUME NEW c \in Id, call'[c].at = "turn", call'[c].answer = "none", running' # c,
                    NEW i \in InText(call'[c].text)
             PROVE  delivered'[i] = 0
  BY DEF Unstarted
<1>1. CASE Started(c)
  <2>1. i \in InText(call[c].text) /\ call[c].at \in {"prepare", "command"}
    BY <1>1 DEF Started
  <2>2. i \in Input
    <3>1. call[c].text \in Seq(Input)
      BY DEF Typed, CallsTyped, TypedCalls, SubmitCall
    <3> QED
      BY <2>1, <3>1, InTextOfText
  <2>3. Carries(call, c, i)
    BY <2>1 DEF Carries
  <2>4. delivered[i] = 0
    BY <2>2, <2>3, CarriedIsWhole
  <2>5. UNCHANGED delivered
    BY <1>1, EpochLife, TurnAssumption DEF Started, Start, Typed, TurnTyped
  <2> QED
    BY <2>4, <2>5
<1>2. CASE ~Started(c)
  <2>1. call'[c] = call[c]
    BY <1>2, CallLife DEF CallSteps, Opened, Ended, Advanced, Steered, Answered, NoCall
  <2>2. CASE running = c
    <3>1. ~RuntimeEnds
      <4>1. RunningTurn' /\ call[c].answer = "none"
        BY <2>1, RunningPreserved
      <4>2. ASSUME RuntimeEnds PROVE FALSE
        <5>1. PICK a \in {"ok", "threw"} : call' = [call EXCEPT ![c].answer = a]
          BY <2>2, <4>2 DEF RuntimeEnds
        <5> QED
          BY <2>1, <4>1, <5>1 DEF Typed, CallsTyped, TypedCalls, SubmitCall
      <4> QED
        BY <4>2
    <3>2. running # None
      BY <2>2, TurnAssumption DEF Id
    <3> QED
      BY <2>2, <3>1, <3>2, RuntimeLife DEF RuntimeStarts
  <2>3. CASE running # c
    <3>1. \A j \in InText(call[c].text) : delivered[j] = 0
      BY <2>1, <2>3 DEF Unstarted
    <3>2. running = None
      BY <2>1, <2>3, RunningIsPrimary
    <3>3. ~RuntimeEnds /\ ~\E d \in Id : RuntimeStarts(d)
      <4>1. ASSUME NEW d \in Id, RuntimeStarts(d) PROVE FALSE
        BY <2>1, <4>1 DEF RuntimeStarts, TurnInv, OneActive
      <4> QED
        BY <3>2, <4>1 DEF RuntimeEnds
    <3>4. UNCHANGED delivered
      BY <3>2, <3>3, RuntimeLife
    <3> QED
      BY <2>1, <3>1, <3>4
  <2> QED
    BY <2>2, <2>3
<1> QED
  BY <1>1, <1>2

\* At first every input is in one place, the one it is to come from.
LEMMA InitOnce == Init => OnceInv
<1> SUFFICES ASSUME Init PROVE OnceInv
  OBVIOUS
<1>1. TrackInv /\ Typed
  BY InitTrackInv DEF TrackInv
<1>2. Unstarted
  BY DEF Init, Unstarted, NoCall
<1>3. ASSUME NEW i \in Input PROVE Once(i)
  <2>1. InFresh(i) = 1 /\ InGone(i) = 0 /\ delivered[i] = 0 /\ InEditor(i) = 0
    BY DEF Init, InFresh, InGone, InEditor, Bit
  <2>2. InQueue(i) = 0 /\ InSteers(i) = 0
    BY CountEmpty DEF Init, InQueue, InSteers
  <2>3. InCalls(i) = 0
    <3>1. {c \in Id : Carries(call, c, i)} = {}
      BY DEF Init, NoCall, Carries
    <3> QED
      BY <3>1, FS_EmptySet DEF InCalls, Carried
  <2> QED
    BY <2>1, <2>2, <2>3 DEF Once, Whole
<1>4. CommandsAreSlash
  BY DEF Init, CommandsAreSlash, NoCall
<1> QED
  BY <1>1, <1>2, <1>3, <1>4 DEF OnceInv

\* Every step keeps this of every input.
LEMMA OnceInvPreserved == OnceInv /\ [Next]_vars => OnceInv'
BY TrackInvPreserved, CommandsPreserved, UnstartedPreserved, WholePreserved DEF OnceInv, TrackInv

\* However submit, the runtime and a handoff interleave, an input is in one place
\* until it is gone: it is not typed yet, it is in the editor or a queue, it is a
\* steer, a call of submit carries it, or it reached the model once. Gone is what a
\* command took, was refused or was thrown away. Neither a steer given back when
\* its turn ends (finishPrimaryTurnSubmission) nor a follow-up that goes on by itself
\* (input-queue.ts) loses an input or sends it twice - but a slash command that a
\* turn overtook while its picker loaded (index.ts:1681), which runs and stays a steer.
THEOREM NothingLostOrTwice == Spec => []EachInputOnce
<1>1. OnceInv => EachInputOnce
  BY OnceIsWhole DEF OnceInv, TrackInv
<1> QED
  BY <1>1, InitOnce, OnceInvPreserved, PTL DEF Spec

-----------------------------------------------------------------------------
(* What waits when all is quiet. *)

\* The inductive invariant of what is left in the queue.
StrandInv == TrackInv /\ CommandsAreSlash /\ StrandedOnlyByCommand

\* The first input of a text is in it.
LEMMA LeadInText == ASSUME NEW t \in Text PROVE Lead(t) \in InText(t)
<1>1. Len(t) \in Nat \ {0} /\ DOMAIN t = 1..Len(t)
  BY EmptySeq, LenProperties DEF Text
<1> QED
  BY <1>1 DEF Lead, InText

\* A command or a login that ends leaves its "/" among what is gone.
LEMMA EndedCommandIsGone ==
  ASSUME Typed, CommandsAreSlash, NEW c \in Id, call[c].at \in {"command", "login"},
         gone' = gone \cup InText(call[c].text)
  PROVE  gone' \cap Slash # {}
<1>1. call[c].text \in Text /\ Lead(call[c].text) \in Slash
  BY DEF Typed, CallsTyped, TypedCalls, CommandsAreSlash
<1>2. Lead(call[c].text) \in InText(call[c].text)
  BY <1>1, LeadInText
<1> QED
  BY <1>1, <1>2

\* Nothing is quiet while a call of submit is active.
LEMMA OpenedIsNotQuiet ==
  ASSUME Typed, TurnInv, NEW cs, TypedCalls(cs), NEW sub, NEW queued, NEW primary,
         SubmitIn(cs, sub, queued, primary)
  PROVE  ~Quiet'
<1>1. cs = [d \in Id |-> cs[d]]
  BY DEF TypedCalls
<1>2. calls + 1 \in Id /\ call'[calls + 1].at \in {"command", "prepare", "preflight"}
  BY <1>1, SubmitAddsOne
<1> QED
  BY <1>2 DEF Quiet

\* Every step keeps the queue from being stranded, but by a command.
LEMMA StrandedPreserved ==
  ASSUME TrackInv, CommandsAreSlash, StrandedOnlyByCommand, [Next]_vars
  PROVE  StrandedOnlyByCommand'
<1> USE DEF TrackInv
<1> SUFFICES ASSUME Quiet', followUps' # <<>>, autoSend' PROVE gone' \cap Slash # {}
  BY DEF StrandedOnlyByCommand
<1>q. /\ turn' = None /\ ~handoff'.active /\ ~handoff'.interrupting /\ ~drain'
      /\ \A c \in Id : call'[c].at \in {"none", "steering"}
  BY DEF Quiet
<1>c. \A c \in Id : call[c] \in SubmitCall
  BY DEF Typed, CallsTyped, TypedCalls
<1>t. TypedCalls(call)
  BY DEF Typed, CallsTyped
\* A step that leaves everything else as it was.
<1>s. ASSUME \A c \in Id : call[c].at = call'[c].at \/ call[c].at \in {"none", "steering"},
             UNCHANGED <<turn, handoff, drain, autoSend>>, followUps # <<>>, gone \subseteq gone'
      PROVE  gone' \cap Slash # {}
  <2>1. Quiet
    BY <1>q, <1>s DEF Quiet
  <2> QED
    BY <1>s, <2>1 DEF StrandedOnlyByCommand
<1>1. ASSUME NEW c \in Id, Command(c) PROVE gone' \cap Slash # {}
  <2>1. call[c].at = "command" /\ UNCHANGED <<drain, handoffs>>
    BY <1>1 DEF Command
  <2>2. CASE gone' = gone \cup InText(call[c].text)
    BY <2>1, <2>2, EndedCommandIsGone
  <2>3. CASE \E step \in {"login", "prepare"} : call' = [call EXCEPT ![c].at = step]
    BY <1>q, <2>3 DEF Typed, CallsTyped, TypedCalls, SubmitCall
  <2>4. CASE Postpone(c) /\ ActiveSubmissions = {}
    BY <1>q, <2>4 DEF Postpone, Typed, HandoffTyped
  <2>5. CASE Start(c)
    <3>1. turn' # None
      <4>1. turn' \in PrimaryTurn
        BY <2>5 DEF Start, PrimaryTurn
      <4> QED
        BY <4>1, TurnAssumption DEF PrimaryTurn, Id
    <3> QED
      BY <1>q, <3>1
  <2> QED
    BY <1>1, <2>2, <2>3, <2>4, <2>5 DEF Command
<1>2. ASSUME Keyboard PROVE gone' \cap Slash # {}
  <2>1. CASE Enter
    <3>1. PICK primary \in BOOLEAN : SubmitIn(call, Submission(editor, {}), FALSE, primary)
      BY <2>1, Zenon DEF Enter
    <3> QED
      BY <1>t, <3>1, OpenedIsNotQuiet
  <2>2. CASE QueueDraft
    BY <1>q, <2>2 DEF QueueDraft, turnVars
  <2>3. CASE EditLatest
    BY <1>s, <2>3 DEF EditLatest, callVars, turnVars, handoffVars
  <2>4. CASE CtrlC
    <3>1. CASE gone' = gone \cup InText(editor)
               /\ UNCHANGED <<queueVars, callVars, turnVars, handoffVars>>
      BY <1>s, <3>1 DEF queueVars, callVars, turnVars, handoffVars
    <3>2. CASE turn # None /\ turn' = [turn EXCEPT !.aborted = TRUE, !.forSteers = FALSE]
      <4>1. turn' \in PrimaryTurn
        BY <3>2 DEF Typed, TurnTyped, PrimaryTurn
      <4> QED
        BY <1>q, <4>1, TurnAssumption DEF PrimaryTurn, Id
    <3> QED
      BY <2>4, <3>1, <3>2 DEF CtrlC
  <2>5. CASE Esc
    <3>1. turn' \in PrimaryTurn
      BY <2>5 DEF Esc, Typed, TurnTyped, PrimaryTurn
    <3> QED
      BY <1>q, <3>1, TurnAssumption DEF PrimaryTurn, Id
  <2>6. ASSUME NEW i \in Input, Type(i) PROVE gone' \cap Slash # {}
    BY <1>s, <2>6 DEF Type, queueVars, callVars, turnVars, handoffVars
  <2> QED
    BY <1>2, <2>1, <2>2, <2>3, <2>4, <2>5, <2>6 DEF Keyboard
<1>3. ASSUME Runtime PROVE gone' \cap Slash # {}
  <2>1. ASSUME NEW c \in Id, NEW a, call' = [call EXCEPT ![c].answer = a]
        PROVE  \A d \in Id : call[d].at = call'[d].at
    BY <1>t, <2>1 DEF TypedCalls, SubmitCall
  <2>2. ASSUME NEW c \in Id, RuntimeQueues(c) \/ RuntimeRefuses(c) PROVE gone' \cap Slash # {}
    <3>1. \A d \in Id : call[d].at = call'[d].at
      BY <2>1, <2>2 DEF RuntimeQueues, RuntimeRefuses
    <3> QED
      BY <1>s, <2>2, <3>1 DEF RuntimeQueues, RuntimeRefuses, inputVars, queueVars, turnVars, handoffVars
  <2>3. CASE RuntimeEnds
    <3> DEFINE r == running
    <3>1. r \in Id /\ \E a : call' = [call EXCEPT ![r].answer = a]
      BY <2>3 DEF RuntimeEnds, Typed, RuntimeTyped
    <3> HIDE DEF r
    <3>2. \A d \in Id : call[d].at = call'[d].at
      BY <2>1, <3>1
    <3> QED
      BY <1>s, <2>3, <3>2 DEF RuntimeEnds, inputVars, queueVars, turnVars, handoffVars
  <2>4. ASSUME NEW h \in held, RuntimeDrains(h) PROVE gone' \cap Slash # {}
    BY <1>s, <2>4 DEF RuntimeDrains, inputVars, callVars, turnVars, handoffVars
  <2>5. ASSUME NEW h \in held, RuntimeDiscards(h) PROVE gone' \cap Slash # {}
    <3>1. turn = None /\ UNCHANGED <<turn, handoff, drain, autoSend, call, gone>>
      BY <1>q, <2>5 DEF RuntimeDiscards, inputVars, callVars, turnVars, handoffVars
    <3>2. UNCHANGED followUps
      BY <2>5, <3>1 DEF RuntimeDiscards, Heard
    <3> QED
      BY <1>s, <3>1, <3>2
  <2>6. ASSUME NEW c \in Id, RuntimeStarts(c) PROVE gone' \cap Slash # {}
    BY <1>s, <2>6 DEF RuntimeStarts, inputVars, queueVars, callVars, turnVars, handoffVars
  <2>7. ~HandoffBegins /\ ~HandoffEnds
    BY <1>q DEF HandoffBegins, HandoffEnds, Typed, HandoffTyped
  <2> QED
    BY <1>3, <2>2, <2>3, <2>4, <2>5, <2>6, <2>7 DEF Runtime
<1>4. ASSUME Resumed PROVE gone' \cap Slash # {}
  <2>1. ASSUME NEW c \in Id, Preflight(c) PROVE gone' \cap Slash # {}
    <3>1. CASE call' = [call EXCEPT ![c].at = "prepare"]
      BY <1>q, <1>t, <3>1 DEF TypedCalls, SubmitCall
    <3> QED
      BY <2>1, <3>1 DEF Preflight
  <2>2. ASSUME NEW c \in Id, Prepared(c) PROVE gone' \cap Slash # {}
    <3>1. CASE Steer(c)
      BY <1>q, <2>2, <3>1 DEF Steer, turnVars
    <3>2. CASE Start(c)
      <4>1. turn' \in PrimaryTurn
        BY <3>2 DEF Start, PrimaryTurn
      <4> QED
        BY <1>q, <4>1, TurnAssumption DEF PrimaryTurn, Id
    <3>3. CASE Postpone(c)
      <4>1. PICK d \in Id : call[d].at \in {"turn", "login"}
        <5>1. ~handoff.active
          BY <1>q, <3>3 DEF Postpone, Typed, HandoffTyped
        <5> QED
          BY <3>3, <5>1 DEF Postpone, ActiveSubmissions, Under
      <4>2. d # c /\ call'[d] = call[d]
        BY <2>2, <3>3, <4>1 DEF Prepared, Postpone, End
      <4> QED
        BY <1>q, <4>1, <4>2
    <3> QED
      BY <2>2, <3>1, <3>2, <3>3 DEF Prepared
  <2>3. ASSUME NEW c \in Id, LoginEnds(c) PROVE gone' \cap Slash # {}
    BY <2>3, EndedCommandIsGone DEF LoginEnds
  <2>4. ASSUME NEW c \in Id, SettleSteer(c) PROVE gone' \cap Slash # {}
    <3>1. /\ UNCHANGED <<turn, handoff, drain, autoSend>> /\ gone \subseteq gone'
          /\ call[c].at = "steering" /\ End(c) /\ turn = None
      BY <1>q, <2>4 DEF SettleSteer, inputVars, turnVars, handoffVars
    <3>2. UNCHANGED followUps
      BY <2>4, <3>1 DEF SettleSteer
    <3>3. \A d \in Id : call[d].at = call'[d].at \/ call[d].at \in {"none", "steering"}
      BY <3>1 DEF End
    <3> QED
      BY <1>s, <3>1, <3>2, <3>3
  <2>5. ASSUME NEW c \in Id, SettleTurn(c) PROVE gone' \cap Slash # {}
    <3> DEFINE open == \/ Cancelled(call[c].answer) /\ turn.forSteers /\ steers # <<>>
                       \/ call[c].answer = "ok" /\ autoSend
               queue == Recovered(Cancelled(call[c].answer) /\ turn.forSteers)
               ended == [call EXCEPT ![c] = NoCall]
    <3>1. /\ autoSend' = open
          /\ \/ SubmitIn(ended, Head(queue), TRUE, FALSE)
             \/ /\ ~open \/ queue = <<>>
                /\ followUps' = queue
      BY <2>5, Zenon DEF SettleTurn
    <3>2. TypedCalls(ended)
      BY EndTyped
    <3> HIDE DEF open, queue, ended
    <3> QED
      BY <3>1, <3>2, OpenedIsNotQuiet
  <2>6. CASE Drain
    <3>1. UNCHANGED <<turn, handoff, autoSend, gone>>
      BY <2>6 DEF Drain, turnVars, inputVars
    <3>2. ASSUME UNCHANGED <<callVars, followUps>> PROVE FALSE
      <4>1. ActiveSubmissions = {} /\ ~handoff.active /\ ~handoff.interrupting /\ autoSend
        BY <1>q, <3>1, <3>2 DEF ActiveSubmissions, Under, callVars
      <4>2. followUps = <<>>
        BY <2>6, <3>2, <4>1 DEF Drain, SubmitIn, callVars, Typed, CallsTyped
      <4> QED
        BY <3>2, <4>2
    <3>3. ~\E sub : SubmitIn(call, sub, TRUE, FALSE)
      BY <1>t, OpenedIsNotQuiet
    <3> QED
      BY <2>6, <3>2, <3>3 DEF Drain
  <2>7. ~InterruptAnswered
    <3>1. ASSUME InterruptAnswered PROVE turn' \in PrimaryTurn
      BY <3>1 DEF InterruptAnswered, Typed, TurnTyped, PrimaryTurn
    <3> QED
      BY <1>q, <3>1, TurnAssumption DEF PrimaryTurn, Id
  <2>8. ~HandoffInterrupted
    BY <1>q DEF HandoffInterrupted
  <2> QED
    BY <1>4, <2>1, <2>2, <2>3, <2>4, <2>5, <2>6, <2>7, <2>8 DEF Resumed
<1>5. CASE UNCHANGED vars
  BY <1>s, <1>5 DEF vars, inputVars, queueVars, callVars, turnVars, handoffVars
<1> QED
  BY <1>1, <1>2, <1>3, <1>4, <1>5 DEF Next

\* When nothing is under way and the queue is open, follow-ups wait in it only if
\* some slash command has ended before (index.ts:1743): every other end of a
\* call of submit, the drain after a handoff and the answers to steers included,
\* takes the next one.
THEOREM OnlyCommandsStrand == Spec => []StrandedOnlyByCommand
<1>1. Init => CommandsAreSlash /\ StrandedOnlyByCommand
  BY DEF Init, CommandsAreSlash, StrandedOnlyByCommand, NoCall
<1>2. StrandInv /\ [Next]_vars => StrandInv'
  BY TrackInvPreserved, CommandsPreserved, StrandedPreserved DEF StrandInv, TrackInv
<1>3. Init => StrandInv
  BY <1>1, InitTrackInv DEF StrandInv
<1>4. StrandInv => StrandedOnlyByCommand
  BY DEF StrandInv
<1> QED
  BY <1>2, <1>3, <1>4, PTL DEF Spec
=============================================================================
