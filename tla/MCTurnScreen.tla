---------------------------- MODULE MCTurnScreen ----------------------------
(***************************************************************************)
(* The turns of the terminal UI and what their screen is drawn from: the   *)
(* input queue and the turn loop, an answer and its code drawn as they     *)
(* grow, and the tasks in the background.  They share no state, so that    *)
(* each is explored with the others at rest in one initial state: `part'   *)
(* says which one moves.                                                   *)
(***************************************************************************)
EXTENDS MCTurnLoop, MarkdownView, CodeHighlight, BackgroundTasks

\* Which kinds of line an answer is made of, how many lines, and how often it
\* is replaced.
Answer(kinds, lines, rewritten) ==
  [kinds |-> kinds, lines |-> lines, rewrites |-> rewritten]

OneItem == Answer({"item", "blank"}, 3, 1)

MCSample ==
  {Answer({"text", "blank"}, 3, 1), Answer({"text", "mermaid", "tick"}, 3, 0),
   Answer({"fence", "text", "tick"}, 3, 0), Answer({"quote"}, 3, 0), OneItem,
   Answer({"head", "row"}, 4, 0), Answer({"deep"}, 3, 1),
   Answer({"json", "open", "tick"}, 4, 0), Answer({"script", "open", "tick"}, 4, 0),
   Answer({"opener", "entry"}, 3, 1), Answer({"quote", "half"}, 3, 0),
   Answer({"half"}, 4, 0), Answer({"item", "child", "blank"}, 3, 0),
   Answer({"entry", "under"}, 4, 0), Answer({"entry", "bar"}, 5, 0)}

\* A list drawn item by item at the wider width differs from the whole.
MCMisdrawn == {<<"list", 2>>}

\* Which kinds of line a script is made of and how many; the last holds for the
\* delimiters inside which a line is highlighted differently.
Script(kinds, lines, inside) ==
  [kinds |-> kinds, lines |-> lines, contextual |-> inside]

Calls == Script({"call", "done"}, 4, {"("})

MCCodeSample ==
  {Script({"stmt", "tick"}, 3, {"("}), Script({"head", "stmt", "brace"}, 3, {"("}),
   Script({"head", "brace"}, 4, {"("}),
   Script({"head", "bare", "brace"}, 3, {"(", "{"}), Calls}

MCOtherCode ==
  {<<<<"head", "stmt">>, "typescript">>, <<<<"bare">>, "unknown">>}

\* Kinds of event and how many; which tool is whose child and which launches a
\* background agent.
CONSTANTS c1, c2

Story(kinds, events, agents) ==
  [kinds |-> kinds, events |-> events, agents |-> agents,
   under |-> (c1 :> NoTool) @@ (c2 :> c1)]

AtRest == Story({}, 0, {})

MCStories ==
  {Story({"ends", "turns", "text"}, 4, {}), Story({"replies", "turns", "text"}, 6, {}),
   Story({"ends", "messages"}, 2, {}), Story({"ends", "restored"}, 1, {}),
   Story({"turns", "text", "user"}, 6, {}), Story({"tools", "user"}, 5, {c1}),
   Story({"tools", "user"}, 4, {c2}), AtRest}

VARIABLE part

Part == {"turns", "answer", "code", "tasks"}

screenVars == <<part, vars, viewVars, codeVars, taskVars>>

MCInit ==
  /\ part \in Part
  /\ Init /\ MarkdownInit /\ CodeInit /\ BackgroundInit
  /\ part # "answer" => sample = OneItem
  /\ part # "code" => codeSample = Calls
  /\ part # "tasks" => runtime.story = AtRest

MCNext ==
  /\ \/ part = "turns" /\ Next
     \/ part = "answer" /\ MarkdownNext
     \/ part = "code" /\ CodeNext
     \/ part = "tasks" /\ BackgroundNext
  /\ part' = part
  /\ part # "turns" => UNCHANGED vars
  /\ part # "answer" => UNCHANGED viewVars
  /\ part # "code" => UNCHANGED codeVars
  /\ part # "tasks" => UNCHANGED taskVars

MCSpec == MCInit /\ [][MCNext]_screenVars
=============================================================================
