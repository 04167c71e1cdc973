------------------------------ MODULE MCLinks ------------------------------
(***************************************************************************)
(* The two links of a worker: the commands relayed to it, one at a time,   *)
(* and its own calls to the fabric; and what the terminal keeps of what    *)
(* comes to it in pieces: long texts and the changes of files.  They share *)
(* no state, so that each is explored with the others at rest: `link' says *)
(* which one moves, and only that one is fair.  Commands are handled by    *)
(* two workers at the same time (`workers'), where no pid fails to be      *)
(* written, or by one at a time (`commands'), where that may happen.       *)
(***************************************************************************)
EXTENDS MCRelayAdmission, FabricClient, StreamTails, TurnDiffs

\* Reports of a tool: a new file, a changed one, several, the same one thrice,
\* and one with a line longer than the budget.
NewHunk(header, rows) == [header |-> header, lines |-> rows]
Change(path, old, hunks) ==
  [path |-> path, old |-> old, hunks |-> hunks, truncated |-> FALSE]
NewFile == Change(1, 0, <<NewHunk(0, <<1>>)>>)

MCReports ==
  {<<NewFile>>, <<Change(1, 1, <<NewHunk(2, <<2, 0>>), NewHunk(0, <<>>)>>)>>,
   <<Change(2, 0, <<NewHunk(0, <<3>>)>>), Change(1, 0, <<NewHunk(1, <<1>>)>>)>>,
   <<NewFile, NewFile, NewFile>>, <<Change(1, 0, <<NewHunk(0, <<9>>)>>)>>}

MCBudget == [files |-> 2, lines |-> 3, characters |-> 8]

VARIABLE link

allVars == <<link, vars, fabricVars, tailVars, diffVars>>

On(l) == link = l

MCInit ==
  /\ link \in {"workers", "commands", "calls", "tails", "diffs"}
  /\ Init /\ FabricInit /\ TailsInit /\ DiffsInit

RelayOn == link \in {"workers", "commands"}

PidsWritten == \A p \in Proc : pc[p] = "writePid" => pc'[p] # "idle"
OneAtATime ==
  /\ \A p, q \in Proc : Dispatching(p)' /\ Dispatching(q)' => p = q
  /\ \A p \in Proc : envelope'[p] \in MCInOrder \cup {None}

MCNext ==
  /\ \/ On("workers") /\ Next /\ PidsWritten
     \/ On("commands") /\ Next /\ OneAtATime
     \/ On("calls") /\ FabricNext
     \/ On("tails") /\ TailsNext
     \/ On("diffs") /\ DiffsNext
  /\ link' = link
  /\ ~RelayOn => UNCHANGED vars
  /\ link # "calls" => UNCHANGED fabricVars
  /\ link # "tails" => UNCHANGED tailVars
  /\ link # "diffs" => UNCHANGED diffVars

\* The fairness of each, while its link is the one that moves.
CommandsFair ==
  /\ \A p \in Proc : WF_vars(On("commands") /\ Proceed(p))
  /\ <>[][PidsWritten]_vars
  /\ SF_vars(On("commands") /\ \E p \in Proc : Executed(p) /\ op'[p] = "acknowledge")
  /\ SF_vars(On("commands") /\ \E p \in Proc : AcknowledgeDurable(p) /\ outcome'[p] = "executed")
  /\ SF_vars(On("commands") /\ \E p \in Proc : InspectLock(p) /\ pc'[p] = "unlink")
  /\ \A e \in MCInOrder : SF_vars(On("commands") /\ \E p \in Proc : Dispatch(p, e) /\ OneAtATime)

CallsFair == \A c \in Call : WF_fabricVars(On("calls") /\ CallGoesOn(c))

MCSpec == MCInit /\ [][MCNext]_allVars /\ CommandsFair /\ CallsFair

\* A pending command is acknowledged in the end, when one worker runs at a time.
PendingIsAcknowledgedAlone == On("commands") => PendingIsAcknowledged
=============================================================================
