----------------------------- MODULE MCRecords -----------------------------
(***************************************************************************)
(* The records the program keeps: on disk what a start of zcode migrates,  *)
(* the event log of a session, the chain of receipts and the vendored      *)
(* runtime, in the UI the tool views of a turn and the transcript.  They   *)
(* share no state, so that each is explored with the others at rest in one *)
(* initial state: `part' says which one moves.                             *)
(***************************************************************************)
EXTENDS Startup, ReceiptChain, OcelRecorder, ToolTree, Transcript, RuntimePatches,
        SyncRuntime, TLC

\* Upstream bundles: the supported one, one that differs in any one place, and
\* those that differ in two of the places a patch has to decide between.
InOnePlace(places) == UNION {{p :> form : form \in Forms(p)} : p \in places}

Contested ==
  InOnePlace({"loginGate", "startedTurn", "steer", "agentIds", "agentModel", "providerLookup",
              "modelLookup", "selection", "registryBuilder", "completed", "failed",
              "factoryRepository", "helperCall", "response", "oauthParser", "decoder"})

MCDrifts ==
  {<<>>} \cup InOnePlace(Places \ {"methods", "fields", "reload"})
  \cup {one @@ other : one \in Contested, other \in Contested}

Published(app, platform, sha) == [app |-> app, platform |-> platform, sha |-> sha]

MCReleases == {Published(1, "linux", 1), Published(2, "linux", 2), Published(2, "darwin", 3)}

\* Processes, and the tools that may be grouped, differ in nothing but their name.
Interchangeable == Permutations(Process) \cup Permutations(Grouped)

VARIABLE part

Part == {"start", "receipt", "events", "tools", "transcript", "patches", "sync"}

vars == <<part, startupVars, chain, ocelVars, views, transcriptVars,
          patchVars, syncVars>>

MCInit ==
  /\ part \in Part
  /\ StartupInit /\ ReceiptInit /\ OcelInit /\ ToolTreeInit /\ TranscriptInit
  /\ PatchesInit /\ SyncInit
  /\ part # "start" => /\ settings = "absent" /\ legacy = "absent"
                       /\ \A q \in Provider : registry[q] = "absent"
  /\ part # "patches" => drift = <<>>
  /\ part # "sync" => lock = NoLock /\ package = 0

MCNext ==
  /\ \/ part = "start" /\ StartupNext
     \/ part = "receipt" /\ ReceiptNext
     \/ part = "events" /\ OcelNext
     \/ part = "tools" /\ ToolTreeNext
     \/ part = "transcript" /\ TranscriptNext
     \/ part = "patches" /\ RunPatch
     \/ part = "sync" /\ SyncNext
  /\ part' = part
  /\ part # "start" => UNCHANGED startupVars
  /\ part # "receipt" => UNCHANGED chain
  /\ part # "events" => UNCHANGED ocelVars
  /\ part # "tools" => UNCHANGED views
  /\ part # "transcript" => UNCHANGED transcriptVars
  /\ part # "patches" => UNCHANGED patchVars
  /\ part # "sync" => UNCHANGED syncVars

MCSpec == MCInit /\ [][MCNext]_vars
=============================================================================
