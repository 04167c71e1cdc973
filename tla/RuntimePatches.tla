--------------------------- MODULE RuntimePatches ---------------------------
(***************************************************************************)
(* How the upstream runtime is patched when it is vendored                 *)
(* (scripts/sync-runtime.ts, patchRuntime*, runtimePatchPlan and           *)
(* applyRuntimePatchPlan).  The bundle is minified text that changes with  *)
(* every upstream release: a patch looks for anchors, replaces some, and   *)
(* is applied twice and verified before its result is kept.                *)
(*                                                                         *)
(* A text gives each place the patches look at the form it has there:      *)
(*   shipped   the anchor, once            doubled  the anchor, twice      *)
(*   gone      neither anchor nor patch    native   upstream does it itself*)
(*   patched   the replacement             half     one of two replaced    *)
(* Branches for a text an older bridge was put into are left out: a sync   *)
(* always starts from the upstream bundle.                                 *)
(***************************************************************************)
EXTENDS Naturals, Sequences, FiniteSets

CONSTANTS Drifts    \* the upstream bundles: [a set of places -> a form], what differs from the supported one

VARIABLES drift,          \* the bundle being patched
          text,           \* patched: the text so far
          patchReports    \* reports: [id, status], one for each patch of the plan tried so far

patchVars == <<drift, text, patchReports>>

\* what each patch of the plan writes (fields and methods stand for all the bridge's)
Writes ==
  [id \in {"tui-execution-state", "shared-config", "session-model-recovery", "official-mcp",
           "tui-bridge", "model-catalog-reload", "goal-failure-pause", "terminal-tool-projection",
           "detached-agent", "agent-auto-background", "builtin-aliases", "http-no-content",
           "network-retry", "stream-eof", "attach-metadata", "metadata-turn", "sqlite-busy",
           "oauth-errors", "desktop-oauth", "max-turns", "subagent-max-turns", "expert-strategy",
           "ledger-forwarding", "login-defaults", "cli-help"} |->
     CASE id = "tui-execution-state"      -> {"modes", "getter", "setter", "update", "result"}
       [] id = "shared-config"            -> {"settingsFile", "validation", "main"}
       [] id = "session-model-recovery"   -> {"facade", "restore", "boundary"}
       [] id = "official-mcp"             -> {"mcpRecord"}
       [] id = "tui-bridge"               -> {"loginGate", "startedTurn", "steer", "transcript",
                                              "userIds", "agentIds", "agentModel", "rewind",
                                              "sessionContext", "methods", "fields"}
       [] id = "model-catalog-reload"     -> {"modelHelp", "reload"}
       [] id = "goal-failure-pause"       -> {"goalStatus"}
       [] id = "terminal-tool-projection" -> {"completed", "failed"}
       [] id = "detached-agent"           -> {"detachedRunner"}
       [] id = "agent-auto-background"    -> {"autoBackground"}
       [] id = "builtin-aliases"          -> {"providerLookup", "modelLookup", "selection", "registryBuilder"}
       [] id = "http-no-content"          -> {"response"}
       [] id = "network-retry"            -> {"retryDecision", "networkBranch", "staleStream"}
       [] id = "stream-eof"               -> {"generator", "completionTail"}
       [] id = "attach-metadata"          -> {"attach"}
       [] id = "metadata-turn"            -> {"metadataTurn"}
       [] id = "sqlite-busy"              -> {"syncOpen", "startupOpen"}
       [] id = "oauth-errors"             -> {"oauthParser", "decoder"}
       [] id = "desktop-oauth"            -> {"credential"}
       [] id = "max-turns"                -> {"loopHead"}
       [] id = "subagent-max-turns"       -> {"spawnDefault"}
       [] id = "expert-strategy"          -> {"strategy"}
       [] id = "ledger-forwarding"        -> {"ledger"}
       [] id = "login-defaults"           -> {"initialSelection", "modelSwitch"}
       [] id = "cli-help"                 -> {"helpLines"}]

\* the anchors that are only looked at
Looked == {"planEnabled", "importer", "repositoryClass", "loader", "adapter", "skills", "options",
           "modelList", "registryList", "registryService", "refresh", "factoryRepository",
           "helperCall", "whitelist", "extractor", "classifier", "streamGate", "completionGate",
           "generatorLabel", "loginFunction", "loginDependencies", "loopLabel", "errorFactory",
           "registryLogin", "initialLabel", "parser", "parserOptions"}

Places == Looked \cup UNION {Writes[id] : id \in DOMAIN Writes}

\* the supported bundle: what the patches themselves bring is not there, nor the older shapes
Shipped == [p \in Places |-> IF p \in {"methods", "fields", "reload", "registryBuilder", "factoryRepository"}
                             THEN "gone" ELSE "shipped"]

Upstream(d) == [p \in Places |-> IF p \in DOMAIN d THEN d[p] ELSE Shipped[p]]

\* where upstream may come to say what the patch would put there: the other marks are names made up here
NativeForms ==
  {"steer", "transcript", "userIds", "agentIds", "agentModel", "rewind", "goalStatus", "completed",
   "failed", "response", "attach", "metadataTurn", "ledger", "initialSelection", "modelSwitch"}

\* how a bundle may differ in a place: no bundle is patched already
Forms(p) ==
  {"gone", "doubled"} \cup (IF p \in NativeForms THEN {"native"} ELSE {})
  \cup (IF Shipped[p] = "gone" THEN {"shipped"} ELSE {})

ASSUME DriftsAssumption == \A d \in Drifts : \A p \in Places \cap DOMAIN d : d[p] \in Forms(p)

----------------------------------------------------------------------------
(* Looking and replacing.                                                  *)

\* pattern.exec(runtime), runtime.includes(anchor)
Found(t, p) == t[p] \in {"shipped", "doubled", "half"}

\* countRegExpMatches(runtime, pattern) === 1
Sole(t, p) == t[p] \in {"shipped", "half"}

\* the text already says what the patch would put there
Marked(t, p) == t[p] \in {"patched", "half", "native"}

Unchanged(t) == [ok |-> TRUE, text |-> t]
Refused(t) == [ok |-> FALSE, text |-> t]

\* runtime.replace(anchor, ...): the first place only
Put(t, ps) ==
  Unchanged([p \in Places |-> IF p \notin ps THEN t[p]
                              ELSE IF t[p] = "doubled" THEN "half" ELSE "patched"])

\* a global replace, or none when there is nothing to replace
PutAll(t, p) == Unchanged(IF Found(t, p) THEN [t EXCEPT ![p] = "patched"] ELSE t)

Unless(t, marks, r) == IF \A p \in marks : Marked(t, p) THEN Unchanged(t) ELSE r

Anchored(t, found, sole, put) ==
  IF (\A p \in found : Found(t, p)) /\ (\A p \in sole : Sole(t, p)) THEN Put(t, put) ELSE Refused(t)

\* one after the other, the first that refuses ends it
Then(r, Op(_)) == IF r.ok THEN Op(r.text) ELSE r

PutOne(t, p) == Unless(t, {p}, Anchored(t, {p}, {}, {p}))

\* replaces what is there and does not mind when nothing is
PutAny(t, p) == IF Found(t, p) THEN Put(t, {p}) ELSE Unchanged(t)

----------------------------------------------------------------------------
(* The patches.                                                            *)

TuiExecutionState(t) ==
  Unless(t, {"getter"}, Anchored(t, {"planEnabled"} \cup Writes["tui-execution-state"], {},
                                 Writes["tui-execution-state"]))

SharedConfig(t) ==
  Unless(t, {"main"}, Anchored(t, {"importer", "repositoryClass", "loader"} \cup Writes["shared-config"],
                               {}, Writes["shared-config"]))

SessionModelRecovery(t) ==
  Unless(t, {"facade", "restore"}, Anchored(t, Writes["session-model-recovery"], {},
                                            Writes["session-model-recovery"]))

OfficialMcp(t) == Unless(t, {"mcpRecord"}, Anchored(t, {}, {"mcpRecord"}, {"mcpRecord"}))

\* alreadyPatched
BridgeDone(t) ==
  /\ ~Found(t, "startedTurn")
  /\ \A p \in {"methods", "fields", "steer", "transcript", "userIds", "agentModel", "rewind"} : Marked(t, p)

\* the messages of a transcript get their ids, the assistant's their model as well
AgentRecords(t) ==
  IF Marked(t, "agentIds") THEN PutOne(t, "agentModel")
  ELSE Anchored(t, {"agentIds"}, {}, {"agentIds", "agentModel"})

BridgeMethods(t) ==
  Unless(t, {"methods"}, Anchored(t, {"skills"}, {}, {"methods"}))

\* the bridge's methods and the fields that hand them to the TUI; their anchors stay in the text
Bridge(t) ==
  IF Found(t, "adapter")
  THEN Then(BridgeMethods(t), LAMBDA u : Unless(u, {"fields"}, Anchored(u, {"options"}, {}, {"fields"})))
  ELSE Refused(t)

BridgeSteps(t) ==
  Then(PutAll(t, "startedTurn"), LAMBDA a :
  Then(PutOne(a, "steer"), LAMBDA b :
  Then(PutOne(b, "transcript"), LAMBDA c :
  Then(PutOne(c, "userIds"), LAMBDA e :
  Then(AgentRecords(e), LAMBDA f :
  Then(PutOne(f, "rewind"), LAMBDA g :
  Then(PutOne(g, "sessionContext"), Bridge)))))))

\* the login gate is replaced before anything is looked at
TuiBridge(t) ==
  Then(PutAny(t, "loginGate"), LAMBDA u : IF BridgeDone(u) THEN Unchanged(u) ELSE BridgeSteps(u))

\* the registry is reached from the factory's scope, or through a call site that must be the only one
ReadsRegistry(t) == Found(t, "factoryRepository") \/ Sole(t, "helperCall")

CatalogReload(t) ==
  IF ReadsRegistry(t) /\ Marked(t, "fields")
  THEN Anchored(t, {"modelList", "registryList", "registryService", "refresh"}, {}, {"reload"})
  ELSE Refused(t)

ModelCatalogReload(t) ==
  Then(PutAny(t, "modelHelp"), LAMBDA u : Unless(u, {"reload"}, CatalogReload(u)))

GoalFailurePause(t) == PutOne(t, "goalStatus")

TerminalToolProjection(t) == Then(PutOne(t, "completed"), LAMBDA u : PutOne(u, "failed"))

DetachedAgentLifecycle(t) ==
  IF Found(t, "detachedRunner") THEN PutAll(t, "detachedRunner")
  ELSE Unless(t, {"detachedRunner"}, Refused(t))

AgentAutoBackground(t) == PutOne(t, "autoBackground")

\* two shapes of registry: lookups that fall back on the family, or a builder that adds the aliases
RegistryAliases(t) ==
  IF Found(t, "providerLookup") /\ Found(t, "modelLookup")
  THEN Anchored(t, {"selection"}, {}, {"providerLookup", "modelLookup", "selection"})
  ELSE Anchored(t, {"registryBuilder"}, {}, {"registryBuilder"})

BuiltinProviderAliases(t) ==
  Unless(t, {"providerLookup"}, Unless(t, {"registryBuilder"}, RegistryAliases(t)))

\* never refuses: a bundle without the anchor is left to the verification
HttpNoContent(t) == PutAll(t, "response")

\* hasRuntimeNetworkRetryGuard
RetryGuard(t) == Sole(t, "streamGate") /\ \A p \in Writes["network-retry"] : Marked(t, p)

NetworkRetry(t) ==
  IF RetryGuard(t) THEN Unchanged(t)
  ELSE IF Marked(t, "retryDecision") THEN Refused(t)
  ELSE Anchored(t, {}, {"whitelist", "extractor", "classifier", "streamGate"} \cup Writes["network-retry"],
                Writes["network-retry"])

StreamEofFinishGuard(t) ==
  Unless(t, Writes["stream-eof"],
         Anchored(t, {}, {"completionGate", "generatorLabel"} \cup Writes["stream-eof"], Writes["stream-eof"]))

AttachSessionMetadata(t) == Unless(t, {"attach"}, Anchored(t, {}, {"attach"}, {"attach"}))

TuiMetadataTurn(t) == Unless(t, {"metadataTurn"}, Anchored(t, {}, {"metadataTurn"}, {"metadataTurn"}))

SqliteBusyTimeout(t) ==
  Unless(t, Writes["sqlite-busy"], Anchored(t, {}, Writes["sqlite-busy"], Writes["sqlite-busy"]))

\* a bundle without the message needs no patch
OAuthHttpErrors(t) ==
  IF Found(t, "oauthParser") THEN Unless(t, {"oauthParser"}, Anchored(t, {"decoder"}, {}, Writes["oauth-errors"]))
  ELSE Unchanged(t)

ZaiDesktopOAuth(t) ==
  Unless(t, {"credential"}, Anchored(t, {"credential", "loginFunction", "loginDependencies"}, {}, {"credential"}))

MaxTurnsEnforcement(t) ==
  Unless(t, {"loopHead"}, Anchored(t, {"loopLabel", "errorFactory"}, {"loopHead"}, {"loopHead"}))

SubagentMaxTurns(t) == Unless(t, {"spawnDefault"}, Anchored(t, {}, {"spawnDefault"}, {"spawnDefault"}))

ExpertStrategyConfig(t) == Unless(t, {"strategy"}, Anchored(t, {}, {"strategy"}, {"strategy"}))

\* no marker to look for first: what is still there is replaced
StreamingLedgerForwarding(t) ==
  IF Found(t, "ledger") THEN Put(t, {"ledger"}) ELSE Unless(t, {"ledger"}, Refused(t))

LoginModelDefaults(t) ==
  IF Found(t, "registryLogin") /\ Found(t, "initialLabel")
  THEN Then(PutOne(t, "initialSelection"), LAMBDA u : PutOne(u, "modelSwitch"))
  ELSE Refused(t)

\* extractRuntimeCapabilities throws without the parser's anchors
Capabilities(t) == Found(t, "parser") /\ Found(t, "parserOptions")

CliHelpContract(t) == IF Capabilities(t) THEN PutAll(t, "helpLines") ELSE Refused(t)

----------------------------------------------------------------------------
(* The plan.                                                               *)

runtimePatchPlan ==
  <<"tui-execution-state", "shared-config", "session-model-recovery", "official-mcp", "tui-bridge",
    "model-catalog-reload", "goal-failure-pause", "terminal-tool-projection", "detached-agent",
    "agent-auto-background", "builtin-aliases", "http-no-content", "network-retry", "stream-eof",
    "attach-metadata", "metadata-turn", "sqlite-busy", "oauth-errors", "desktop-oauth", "max-turns",
    "subagent-max-turns", "expert-strategy", "ledger-forwarding", "login-defaults", "cli-help">>

Optional == {"official-mcp", "goal-failure-pause", "terminal-tool-projection", "detached-agent",
             "agent-auto-background", "builtin-aliases", "attach-metadata", "metadata-turn",
             "oauth-errors"}

\* patch.apply
Apply(id, t) ==
  CASE id = "tui-execution-state"      -> TuiExecutionState(t)
    [] id = "shared-config"            -> SharedConfig(t)
    [] id = "session-model-recovery"   -> SessionModelRecovery(t)
    [] id = "official-mcp"             -> OfficialMcp(t)
    [] id = "tui-bridge"               -> TuiBridge(t)
    [] id = "model-catalog-reload"     -> ModelCatalogReload(t)
    [] id = "goal-failure-pause"       -> GoalFailurePause(t)
    [] id = "terminal-tool-projection" -> TerminalToolProjection(t)
    [] id = "detached-agent"           -> DetachedAgentLifecycle(t)
    [] id = "agent-auto-background"    -> AgentAutoBackground(t)
    [] id = "builtin-aliases"          -> BuiltinProviderAliases(t)
    [] id = "http-no-content"          -> HttpNoContent(t)
    [] id = "network-retry"            -> NetworkRetry(t)
    [] id = "stream-eof"               -> StreamEofFinishGuard(t)
    [] id = "attach-metadata"          -> AttachSessionMetadata(t)
    [] id = "metadata-turn"            -> TuiMetadataTurn(t)
    [] id = "sqlite-busy"              -> SqliteBusyTimeout(t)
    [] id = "oauth-errors"             -> OAuthHttpErrors(t)
    [] id = "desktop-oauth"            -> ZaiDesktopOAuth(t)
    [] id = "max-turns"                -> MaxTurnsEnforcement(t)
    [] id = "subagent-max-turns"       -> SubagentMaxTurns(t)
    [] id = "expert-strategy"          -> ExpertStrategyConfig(t)
    [] id = "ledger-forwarding"        -> StreamingLedgerForwarding(t)
    [] id = "login-defaults"           -> LoginModelDefaults(t)
    [] id = "cli-help"                 -> CliHelpContract(t)

\* the places a patch's own verification looks for in the result; none where the plan gives no verify
Verified ==
  [id \in DOMAIN Writes |->
     CASE id = "tui-execution-state" -> {"getter", "modes"}
       [] id = "shared-config"       -> {"main", "settingsFile"}
       [] id = "session-model-recovery" -> {"facade", "restore"}
       [] id = "tui-bridge"          -> {"methods"}
       [] id = "model-catalog-reload" -> {"reload"}
       [] id \in {"goal-failure-pause", "terminal-tool-projection", "detached-agent", "stream-eof",
                  "agent-auto-background", "http-no-content", "network-retry", "attach-metadata",
                  "metadata-turn", "sqlite-busy", "desktop-oauth", "subagent-max-turns",
                  "expert-strategy"} -> Writes[id]
       [] OTHER -> {}]

\* patch.verify: what must be there is, and what must not be is gone
Verify(id, t) ==
  /\ \A p \in Verified[id] : Marked(t, p)
  /\ id = "network-retry" => RetryGuard(t)
  /\ id = "sqlite-busy" => \A p \in Writes[id] : ~Found(t, p)
  /\ id = "builtin-aliases" => Marked(t, "providerLookup") \/ Marked(t, "registryBuilder")
  /\ id = "oauth-errors" => ~Found(t, "oauthParser")
  /\ id = "cli-help" => ~Found(t, "helpLines")

\* applied once, applied again to what that gave, and verified
Holds(id, once, again) == once.ok /\ again.ok /\ again.text = once.text /\ Verify(id, once.text)

Outcome(id, once, again) ==
  IF Holds(id, once, again)
  THEN IF once.text = text THEN "already_present" ELSE "applied"
  ELSE IF id \in Optional THEN "skipped" ELSE "failed"

KeepPartial(id, once, again) == once.text

\* what was refused leaves the text as it was
Kept(id, once, again) == IF Holds(id, once, again) THEN once.text ELSE text

\* a failed required patch is thrown with the reports, nothing is written
PatchesGoOn ==
  /\ Len(patchReports) < Len(runtimePatchPlan)
  /\ \A n \in DOMAIN patchReports : patchReports[n].status # "failed"

RunPatch ==
  /\ PatchesGoOn
  /\ \E id \in {runtimePatchPlan[Len(patchReports) + 1]} :
     \E once \in {Apply(id, text)} :
     \E again \in {Apply(id, once.text)} :
        /\ patchReports' = Append(patchReports, [id |-> id, status |-> Outcome(id, once, again)])
        /\ text' = Kept(id, once, again)
  /\ UNCHANGED drift

PatchesInit ==
  /\ drift \in Drifts
  /\ text = Upstream(drift)
  /\ patchReports = <<>>

PatchesSpec == PatchesInit /\ [][RunPatch]_patchVars

----------------------------------------------------------------------------
(* Properties.                                                             *)

PatchesTypeOK ==
  /\ text \in [Places -> {"shipped", "doubled", "gone", "native", "patched", "half"}]
  /\ Len(patchReports) <= Len(runtimePatchPlan)

\* what a patch is for, whatever it looked at on its way
Fulfilled(id, t) ==
  CASE id = "cli-help"        -> ~Found(t, "helpLines")
    [] id = "oauth-errors"    -> ~Found(t, "oauthParser")
    [] id = "http-no-content" -> t["response"] \in {"patched", "native"}
    [] id = "tui-bridge"      -> /\ ~Found(t, "startedTurn")
                                 /\ \A p \in Writes[id] \ {"loginGate", "startedTurn"} : Marked(t, p)
    [] id = "model-catalog-reload" -> Marked(t, "reload") /\ Marked(t, "fields")
    [] id = "builtin-aliases" -> \/ Marked(t, "registryBuilder")
                                 \/ \A p \in Writes[id] \ {"registryBuilder"} : Marked(t, p)
    [] OTHER                  -> \A p \in Writes[id] : Marked(t, p)

(* A vendored runtime is what its patch reports say.  Whatever differs in  *)
(* the upstream bundle, a patch reported as applied or present has done    *)
(* all it is for, and no later patch took that back; a skipped or failed   *)
(* one left every place it writes as upstream shipped it, even when it had *)
(* replaced some of them before it met the one that is missing; only       *)
(* optional patches are skipped and nothing follows a failure.             *)
PatchedRuntimeIsTrue ==
  \A n \in DOMAIN patchReports :
    /\ patchReports[n].status \in {"applied", "already_present"} => Fulfilled(patchReports[n].id, text)
    /\ patchReports[n].status \in {"already_present", "skipped", "failed"} =>
         \A p \in Writes[patchReports[n].id] : text[p] = Upstream(drift)[p]
    /\ patchReports[n].status = "skipped" => patchReports[n].id \in Optional
    /\ patchReports[n].status = "failed" => n = Len(patchReports)
=============================================================================
