--------------------------- MODULE PluginCommand ---------------------------
(***************************************************************************)
(* zcode plugins (runPluginCommand of src/src/plugin-cli.ts): a command is *)
(* a fixed sequence of requests, each to an app server of its own, with a  *)
(* preview and a question before what is installed changes.  All requests  *)
(* of a command share one abort signal.  Arguments are taken as parsed.    *)
(***************************************************************************)
EXTENDS AppServerRequest, Sequences, SequencesExt

VARIABLES
  command,  \* the action and its flags
  step,     \* how many steps of it are done
  verdicts, \* what the results of its requests said
  agreed,   \* the user answered yes
  applied,  \* the runtime made the change of the request it is serving
  exit      \* the exit status, or "none"

pluginVars == <<command, step, verdicts, agreed, applied, exit>>

Action == {"overview", "add", "remove", "install", "describe", "validate",
           "update", "configure", "restore", "validateSource"}

\* The options a command does not support are refused before a request.
Supported(c) ==
  /\ c.dryRun => c.action \in {"add", "install", "configure"}
  /\ c.yes    => c.action \in {"add", "remove", "install"}

Command == {c \in [action : Action, dryRun : BOOLEAN, yes : BOOLEAN] : Supported(c)}

Asking(c) == IF c.yes THEN <<>> ELSE <<"confirm">>
After(c, preview) == IF c.dryRun THEN preview ELSE preview \o Asking(c) \o <<"change">>

\* The steps of a command.  "catalog" is the overview whose errors end the
\* command, "look" a description, "plan" a dry run, "change" the real call.
Script(c) ==
  CASE c.action = "install"              -> After(c, <<"catalog", "look", "plan">>)
    [] c.action = "add"                  -> After(c, <<"plan">>)
    [] c.action = "remove"               -> After(c, <<>>)
    [] c.action \in {"update", "restore"} -> <<"change">>
    [] c.action = "configure"            -> IF c.dryRun THEN <<"look">> ELSE <<"change">>
    [] c.action \in {"describe", "validate"} -> <<"catalog", "look">>
    [] c.action = "validateSource"       -> <<"look">>
    [] c.action = "overview"             -> <<"catalog">>

Current == Script(command)[step + 1]
Running == exit = "none"

ResultFailed(v) == v \in {"refused", "diagnostic"}
-----------------------------------------------------------------------------
PluginInit ==
  /\ RequestInit
  /\ command \in Command /\ step = 0 /\ verdicts = <<>>
  /\ agreed = FALSE /\ applied = FALSE /\ exit = "none"

\* The request of the current step.  The runtime makes the change of a request
\* before it answers, and without having answered when it ends first.
CallStart == Running /\ Current # "confirm" /\ Start /\ UNCHANGED pluginVars

CallStep ==
  /\ \/ (\E a \in Answer : Respond(a)) \/ Flood
     \/ ReadResponse \/ ReadFlood \/ ForceTermination
     \/ (\E code \in {"exited", "killed"} : Exit(code)) \/ Close \/ Settle
  /\ UNCHANGED pluginVars

Apply ==
  /\ Running /\ Current = "change" /\ child = "running" /\ output = "nothing"
  /\ applied' = TRUE
  /\ UNCHANGED <<requestVars, command, step, verdicts, agreed, exit>>

\* A signal of the terminal; it reaches the request under way or the next one.
Interrupt ==
  /\ Running
  /\ \/ Abort
     \/ /\ ~aborted /\ Current = "confirm"
        /\ aborted' = TRUE
        /\ UNCHANGED <<request, child, output, read, stdin, pipes, signalled, timer>>
  /\ UNCHANGED pluginVars

NextRequest ==
  /\ request' = "new" /\ child' = "none" /\ output' = "nothing" /\ read' = FALSE
  /\ stdin' = "open" /\ pipes' = FALSE /\ signalled' = FALSE /\ timer' = "none"
  /\ UNCHANGED aborted

\* (mutant) the description is not looked at once there is a plan
PlanFailed(vs) == ResultFailed(Last(vs))

\* resultFailed of the preview, which is the description and the dry run.
PreviewFailed(vs) ==
  \E i \in DOMAIN vs : Script(command)[i] \in {"look", "plan"} /\ ResultFailed(vs[i])

\* Whether the verdicts so far end the command in front of the next step.
Refuses(vs) ==
  \/ Current = "catalog" /\ Last(vs) = "diagnostic"
  \/ Current = "plan" /\ PreviewFailed(vs)

LastStep == step + 1 = Len(Script(command))

\* The result of a request is looked at; an exception ends the command with
\* the status that goes with it.
Conclude ==
  /\ Running /\ Current # "confirm" /\ Settled
  /\ IF request = "result"
     THEN \E v \in {"ok", "refused", "diagnostic"} :
            /\ Current = "change" /\ v = "ok" => applied
            /\ LET vs == Append(verdicts, v) IN
               /\ verdicts' = vs
               /\ exit' = CASE Refuses(vs) -> "failure"
                            [] ~Refuses(vs) /\ LastStep /\ Current = "catalog" -> "success"
                            [] ~Refuses(vs) /\ LastStep /\ Current # "catalog" ->
                                 IF ResultFailed(v) THEN "failure" ELSE "success"
                            [] ~Refuses(vs) /\ ~LastStep -> "none"
     ELSE /\ exit' = IF request = "cancelled" THEN "cancelled" ELSE "failure"
          /\ UNCHANGED verdicts
  /\ IF exit' = "none" THEN step' = step + 1 /\ NextRequest ELSE UNCHANGED <<step, requestVars>>
  /\ UNCHANGED <<command, agreed, applied>>

\* confirm: without a terminal it answers no, even when the command is already
\* aborted; an abort ends the question.
Confirm(answer) ==
  /\ Running /\ Current = "confirm"
  /\ IF answer = "yes" /\ ~aborted
     THEN /\ agreed' = TRUE /\ step' = step + 1
          /\ verdicts' = Append(verdicts, "ok")
          /\ UNCHANGED exit
     ELSE /\ \/ exit' = "failure"
             \/ aborted /\ exit' = "cancelled"
          /\ UNCHANGED <<agreed, step, verdicts>>
  /\ UNCHANGED <<requestVars, command, applied>>

PluginNext ==
  \/ CallStart \/ CallStep \/ Apply \/ Interrupt \/ Conclude
  \/ \E answer \in {"yes", "no"} : Confirm(answer)

PluginSpec == PluginInit /\ [][PluginNext]_<<requestVars, pluginVars>>

\* The fairness of a request, and a user who answers.
PluginFairness ==
  /\ RequestFairness
  /\ WF_<<requestVars, pluginVars>>(Conclude)
  /\ WF_<<requestVars, pluginVars>>(\E answer \in {"yes", "no"} : Confirm(answer))

PluginFairSpec == PluginSpec /\ PluginFairness
-----------------------------------------------------------------------------
(* Properties *)

\* What is installed only changes when the command was meant to change it, its
\* previews had nothing against it and the user agreed, on the terminal or in
\* advance; a dry run changes nothing, and neither does a command that was told to
\* stop before it asked for the change.  Success is only reported for a change
\* that was made, and an interrupted command does not report it.
NothingUnasked ==
  [][/\ applied' /\ ~applied =>
          /\ ~command.dryRun
          /\ aborted => signalled
          /\ command.action \in {"add", "remove", "install"} => agreed \/ command.yes
          /\ command.action \in {"add", "install"} =>
               \A i \in DOMAIN verdicts :
                 Script(command)[i] \in {"look", "plan"} => verdicts[i] = "ok"
     /\ exit' = "success" =>
          /\ Contains(Script(command), "change") => applied'
          /\ ~aborted' /\ request' = "result" /\ child' = "exited"]_<<requestVars, pluginVars>>
=============================================================================
