---------------------------- MODULE MCExchanges ----------------------------
(***************************************************************************)
(* The exchanges with somebody who may not answer: the login with the      *)
(* browser, a plugin command with an app server, a permission dialog with  *)
(* the user, the view of the runtime with the runtime, and what the model  *)
(* says with the transcript.  They share no state, so that each is explored*)
(* with the others at rest in one initial state: `part' says which one     *)
(* moves, and only that one is fair.                                       *)
(***************************************************************************)
EXTENDS OAuthHandler, PluginCommand, PermissionDialogs, RuntimeView,
        AssistantText, TLC

CONSTANTS u1, d1, d2, d3, p1, p2, t1, t2

VARIABLE part

Part == {"login", "plugins", "dialogs", "view", "answer"}

\* A list of questions and a plan of the turn, and a tool of somebody else.
MCKindOf == (d1 :> "questions") @@ (d2 :> "plan") @@ (d3 :> "tool")

\* A first message of a text and a thought, and a second one.
MCMessageOf == [p \in AnyPart |-> IF p \in {p1, t1} THEN 1 ELSE 2]

vars == <<part, oauthVars, requestVars, pluginVars, dialogVars, viewVars,
          textVars>>

MCInit ==
  /\ part \in Part
  /\ OAuthInit /\ (part # "login" => handler = u1)
  /\ PluginInit
  /\ part # "plugins" => /\ command = [action |-> "overview", dryRun |-> FALSE, yes |-> FALSE]
                         /\ ~aborted
  /\ DialogsInit /\ ViewInit
  /\ TextInit /\ (part # "answer" => protocol = "plain")

MCNext ==
  /\ \/ part = "login" /\ OAuthNext
     \/ part = "plugins" /\ PluginNext
     \/ part = "dialogs" /\ DialogsNext
     \/ part = "view" /\ ViewNext
     \/ part = "answer" /\ TextNext
  /\ part' = part
  /\ part # "login" => UNCHANGED oauthVars
  /\ part # "plugins" => UNCHANGED <<requestVars, pluginVars>>
  /\ part # "dialogs" => UNCHANGED dialogVars
  /\ part # "view" => UNCHANGED viewVars
  /\ part # "answer" => UNCHANGED textVars

On(p) == part = p

\* The fairness of each part, while it is the one that moves.
LoginFair ==
  \A l \in Login : WF_oauthVars(On("login") /\ Step(l)) /\ WF_oauthVars(On("login") /\ Begin(l))

Called(A) == On("plugins") /\ A

PluginsFair ==
  /\ WF_requestVars(Called(Start)) /\ WF_requestVars(Called(ReadResponse))
  /\ WF_requestVars(Called(ReadFlood)) /\ WF_requestVars(Called(ForceTermination))
  /\ WF_requestVars(Called(Settle)) /\ WF_requestVars(Called(Close))
  /\ WF_requestVars(Called(stdin = "ended" /\ Exit("exited")))
  /\ WF_<<requestVars, pluginVars>>(Called(Conclude))
  /\ WF_<<requestVars, pluginVars>>(Called(\E answer \in {"yes", "no"} : Confirm(answer)))

Seen(A) == On("view") /\ A

ViewFair ==
  /\ \A t \in {"poll", "refresh"} : WF_viewVars(Seen(TimerFires(t)))
  /\ WF_viewVars(Seen(RuntimeReads))
  /\ WF_viewVars(Seen(SnapshotArrives \/ ReadFails))
  /\ SF_viewVars(Seen(SnapshotArrives /\ ~touched))
  /\ WF_viewVars(Seen(SwitchReturns \/ SwitchLeavesMode))
  /\ WF_viewVars(Seen(ExecutionStateRead)) /\ WF_viewVars(Seen(RefreshExecutionState))

MCSpec ==
  /\ MCInit /\ [][MCNext]_vars
  /\ LoginFair /\ PluginsFair /\ ViewFair
  /\ WF_dialogVars(On("dialogs") /\ BeginRequest)
=============================================================================
