------------------------------ MODULE Startup ------------------------------
(***************************************************************************)
(* What a start of zcode does before it hands over to the runtime (main of *)
(* src/src/launcher.ts, ensureCliSettings and the setup marker of          *)
(* model-access.ts, migrateLegacyProviders of runtime-config-bridge.ts),   *)
(* and what the TUI and the login do to the same files afterwards.  Starts *)
(* run side by side over one home directory; a step runs to the next await *)
(* and touches one file.                                                   *)
(***************************************************************************)
EXTENDS Integers, FiniteSets

CONSTANTS
  Process,     \* the processes
  Provider,    \* provider ids of the shared registry
  MaxKills,    \* starts that are killed or that an I/O error ends, in all
  MaxEdits     \* changes the user makes to the files by hand, in all

ASSUME StartupAssumption ==
  /\ Process # {} /\ Provider # {}
  /\ MaxKills \in Nat /\ MaxEdits \in Nat

VARIABLES
  settings,       \* where the contents of setting.json come from, or "absent"
  legacy,         \* config.json: "absent", "invalid" or "valid"
  candidates,     \* the providers of it that can be imported
  settingsMarker, \* migrations/settings-v1.json is there
  pending,        \* setup-pending is there
  registry,       \* provider_config.json: who put each provider there
  broken,         \* the registry needs recovery
  providerMarker, \* migrations/provider-registry-*.json is there
  at,             \* the await each start is at
  pass,           \* which of its calls of ensureCliSettings it is in
  initial,        \* the settings it is about to write
  created,        \* what its first ensureCliSettings did
  late,           \* auxiliary: the markers that were there when it began
  had,            \* auxiliary: the providers that have been in the registry
  owed,           \* auxiliary: new default settings, and no wizard yet
  kills, edits

disk   == <<settings, legacy, candidates, settingsMarker, pending, registry,
            broken, providerMarker>>
mine   == <<pass, initial, created, late>>
ghosts == <<had, owed, kills, edits>>
startupVars == <<disk, at, mine, ghosts>>

Present(q) == registry[q] # "absent"
Access == \E q \in Provider : Present(q)
At(p, step) == at[p] = step
Goto(p, step) == at' = [at EXCEPT ![p] = step]

NotLate == [settings |-> FALSE, providers |-> FALSE]

\* The variables of main are dead once the runtime runs.
Handover(p, step) ==
  /\ Goto(p, step)
  /\ created' = [created EXCEPT ![p] = "no"]
  /\ late' = [late EXCEPT ![p] = NotLate]
  /\ UNCHANGED <<pass, initial>>

\* What fails ends a start; of the TUI it only ends the saving.
StartFailed(p) == Goto(p, IF pass[p] = 3 THEN "tui" ELSE "off")

\* The start has new settings to announce and has not done it.
Announcing(p) ==
  created[p] = "fresh" /\ pass[p] # 3 /\ at[p] \in {"stat", "look", "link", "again", "finish", "read", "mark"}
-----------------------------------------------------------------------------
StartupInit ==
  /\ settings \in {"absent", "own"}
  /\ legacy \in {"absent", "invalid", "valid"}
  /\ candidates \in SUBSET Provider /\ (legacy # "valid" => candidates = {})
  /\ settingsMarker = FALSE /\ pending = FALSE /\ providerMarker = FALSE
  /\ registry \in [Provider -> {"absent", "user"}]
  /\ broken = FALSE
  /\ at = [p \in Process |-> "off"]
  /\ pass = [p \in Process |-> 1]
  /\ initial = [p \in Process |-> "absent"]
  /\ created = [p \in Process |-> "no"]
  /\ late = [p \in Process |-> NotLate]
  /\ had = {q \in Provider : Present(q)}
  /\ owed = FALSE /\ kills = 0 /\ edits = 0

EnterMain(p) ==
  /\ At(p, "off")
  /\ Goto(p, "stat")
  /\ pass' = [pass EXCEPT ![p] = 1]
  /\ created' = [created EXCEPT ![p] = "no"]
  /\ late' = [late EXCEPT ![p] = [settings |-> settingsMarker, providers |-> providerMarker]]
  /\ UNCHANGED <<disk, initial, ghosts>>

\* ensureCliSettings: a setting.json that is there is kept.
Stat(p) ==
  /\ At(p, "stat")
  /\ Goto(p, IF settings = "absent" THEN "look" ELSE "finish")
  /\ UNCHANGED <<disk, mine, ghosts>>

\* The old settings are only taken while the marker is absent.
Look(p) ==
  /\ At(p, "look")
  /\ IF ~settingsMarker /\ legacy = "invalid" THEN StartFailed(p) ELSE Goto(p, "link")
  /\ initial' = [initial EXCEPT ![p] =
       IF ~settingsMarker /\ legacy = "valid" THEN "legacy" ELSE "defaults"]
  /\ UNCHANGED <<disk, pass, created, late, ghosts>>

\* The temporary file becomes setting.json, unless somebody was faster.  Only
\* the first call's result is looked at.
Link(p) ==
  /\ At(p, "link") /\ settings = "absent"
  /\ settings' = initial[p] /\ initial' = [initial EXCEPT ![p] = "absent"]
  /\ Goto(p, "finish")
  /\ IF pass[p] = 1
     THEN /\ created' = [created EXCEPT ![p] =
               IF initial[p] = "legacy" THEN "migrated" ELSE "fresh"]
          /\ owed' = (initial[p] = "defaults")
     ELSE UNCHANGED <<created, owed>>
  /\ UNCHANGED <<legacy, candidates, settingsMarker, pending, registry, broken,
                 providerMarker, pass, late, had, kills, edits>>

LinkExists(p) ==
  /\ At(p, "link") /\ settings # "absent"
  /\ Goto(p, "again")
  /\ initial' = [initial EXCEPT ![p] = "absent"]
  /\ UNCHANGED <<disk, pass, created, late, ghosts>>

\* The file that was in the way is gone again.
Again(p) ==
  /\ At(p, "again")
  /\ IF settings = "absent" THEN StartFailed(p) ELSE Goto(p, "finish")
  /\ UNCHANGED <<disk, mine, ghosts>>

\* finishSettingsMigration.  main calls ensureCliSettings and readCliSettings,
\* which calls it again; updateCliSettings is the third caller.
Finish(p) ==
  /\ At(p, "finish")
  /\ settingsMarker' = TRUE
  /\ Goto(p, IF pass[p] = 1 THEN "stat" ELSE "read")
  /\ pass' = [pass EXCEPT ![p] = IF @ = 1 THEN 2 ELSE @]
  /\ UNCHANGED <<settings, legacy, candidates, pending, registry, broken,
                 providerMarker, initial, created, late, ghosts>>

\* The settings are read; nothing of the start depends on what they say.
Read(p) ==
  /\ At(p, "read") /\ pass[p] = 2
  /\ Goto(p, IF settings = "absent" THEN "off"
             ELSE IF created[p] = "fresh" THEN "mark"
             ELSE "providers")
  /\ UNCHANGED <<disk, mine, ghosts>>

\* markSetupPending
Mark(p) ==
  /\ At(p, "mark")
  /\ pending' = TRUE
  /\ Goto(p, "providers")
  /\ UNCHANGED <<settings, legacy, candidates, settingsMarker, registry, broken,
                 providerMarker, mine, ghosts>>

ProviderMigrationNeeded == legacy # "absent" /\ ~providerMarker

\* A child runs the migration; it looks again whether it is needed.
Providers(p) ==
  /\ At(p, "providers")
  /\ Goto(p, IF ProviderMigrationNeeded THEN "migrate" ELSE "run")
  /\ UNCHANGED <<disk, mine, ghosts>>

Migrate(p) ==
  /\ At(p, "migrate")
  /\ Goto(p, CASE ~ProviderMigrationNeeded -> "run"
               [] ProviderMigrationNeeded /\ legacy = "invalid" -> "off"
               [] ProviderMigrationNeeded /\ legacy # "invalid" ->
                    IF candidates = {} THEN "done" ELSE "registry")
  /\ UNCHANGED <<disk, mine, ghosts>>

\* (mutant) a registry that needs recovery counts as an empty one
ReadLenient(p) ==
  /\ At(p, "registry")
  /\ Goto(p, IF broken \/ \A q \in candidates : Present(q) THEN "done" ELSE "update")
  /\ UNCHANGED <<disk, mine, ghosts>>

\* A registry that needs recovery is left alone, and so is the marker.
ReadRegistry(p) ==
  /\ At(p, "registry")
  /\ Goto(p, CASE broken -> "off"
               [] ~broken /\ (\A q \in candidates : Present(q)) -> "done"
               [] ~broken /\ (\E q \in candidates : ~Present(q)) -> "update")
  /\ UNCHANGED <<disk, mine, ghosts>>

\* repository.update adds what is absent, under its file lock.
UpdateRegistry(p) ==
  /\ At(p, "update")
  /\ registry' = [q \in Provider |->
       IF q \in candidates /\ ~Present(q) THEN "imported" ELSE registry[q]]
  /\ had' = had \cup candidates
  /\ Goto(p, "done")
  /\ UNCHANGED <<settings, legacy, candidates, settingsMarker, pending, broken,
                 providerMarker, mine, owed, kills, edits>>

WriteProviderMarker(p) ==
  /\ At(p, "done")
  /\ providerMarker' = TRUE
  /\ Goto(p, "run")
  /\ UNCHANGED <<settings, legacy, candidates, settingsMarker, pending, registry,
                 broken, mine, ghosts>>

\* The TUI: a pending setup shows the wizard, or is over when there is access.
EnterTui(p) ==
  /\ At(p, "run")
  /\ Handover(p, CASE ~pending -> "tui"
                   [] pending /\ Access -> "clear"
                   [] pending /\ ~Access -> "wizard")
  /\ UNCHANGED <<disk, ghosts>>

\* A sign-in, of the wizard or of zcode login, adds a provider.
SignIn(p, q) ==
  /\ at[p] \in {"wizard", "run"}
  /\ registry' = [registry EXCEPT ![q] = "user"]
  /\ had' = had \cup {q}
  /\ Handover(p, IF At(p, "run") THEN "signedIn" ELSE "clear")
  /\ UNCHANGED <<settings, legacy, candidates, settingsMarker, pending, broken,
                 providerMarker, owed, kills, edits>>

\* The wizard is skipped, or shown again with /setup and closed.
CloseWizard(p) ==
  /\ at[p] \in {"wizard", "tui"}
  /\ Goto(p, "clear")
  /\ UNCHANGED <<disk, mine, ghosts>>

ClearPending(p) ==
  /\ at[p] \in {"clear", "signedIn"}
  /\ pending' = FALSE /\ owed' = FALSE
  /\ Goto(p, IF At(p, "clear") THEN "tui" ELSE "off")
  /\ UNCHANGED <<settings, legacy, candidates, settingsMarker, registry, broken,
                 providerMarker, mine, had, kills, edits>>

\* updateCliSettings of the TUI: ensureCliSettings, a read and a rename.
Save(p) ==
  /\ At(p, "tui")
  /\ Goto(p, "stat")
  /\ pass' = [pass EXCEPT ![p] = 3]
  /\ UNCHANGED <<disk, initial, created, late, ghosts>>

ReadToSave(p) ==
  /\ At(p, "read") /\ pass[p] = 3
  /\ Goto(p, IF settings = "absent" THEN "tui" ELSE "write")
  /\ initial' = [initial EXCEPT ![p] = settings]
  /\ UNCHANGED <<disk, pass, created, late, ghosts>>

WriteSettings(p) ==
  /\ At(p, "write")
  /\ settings' = initial[p] /\ initial' = [initial EXCEPT ![p] = "absent"]
  /\ Goto(p, "tui")
  /\ UNCHANGED <<legacy, candidates, settingsMarker, pending, registry, broken,
                 providerMarker, pass, created, late, ghosts>>

\* The TUI is left; a login needs no OAuth, or fails.
Quit(p) ==
  /\ at[p] \in {"tui", "wizard", "run"}
  /\ Handover(p, "off")
  /\ UNCHANGED <<disk, ghosts>>

Kill(p) ==
  /\ ~At(p, "off") /\ kills < MaxKills
  /\ kills' = kills + 1
  /\ Handover(p, "off")
  /\ owed' = (owed /\ ~Announcing(p))
  /\ UNCHANGED <<disk, had, edits>>

\* The user takes setting.json away, or changes the registry.  A registry does
\* not break under a migration that has read it.
Reset ==
  /\ settings # "absent"
  /\ settings' = "absent" /\ owed' = FALSE
  /\ UNCHANGED <<legacy, candidates, settingsMarker, pending, registry, broken, providerMarker, had>>

EditProvider(q) ==
  /\ registry' = [registry EXCEPT ![q] = IF Present(q) THEN "absent" ELSE "user"]
  /\ had' = had \cup {q}
  /\ UNCHANGED <<settings, legacy, candidates, settingsMarker, pending, broken, providerMarker, owed>>

BreakOrRepair ==
  /\ \A p \in Process : ~At(p, "update")
  /\ broken' = ~broken
  /\ UNCHANGED <<settings, legacy, candidates, settingsMarker, pending, registry, providerMarker,
                 had, owed>>

Edit ==
  /\ edits < MaxEdits
  /\ edits' = edits + 1
  /\ Reset \/ BreakOrRepair \/ \E q \in Provider : EditProvider(q)
  /\ UNCHANGED <<at, mine, kills>>

StartupNext ==
  \/ \E p \in Process :
       \/ EnterMain(p) \/ Stat(p) \/ Look(p) \/ Link(p) \/ LinkExists(p) \/ Again(p)
       \/ Finish(p) \/ Read(p) \/ Mark(p)
       \/ Providers(p) \/ Migrate(p) \/ ReadRegistry(p) \/ UpdateRegistry(p)
       \/ WriteProviderMarker(p)
       \/ EnterTui(p) \/ CloseWizard(p) \/ ClearPending(p)
       \/ Save(p) \/ ReadToSave(p) \/ WriteSettings(p) \/ Quit(p) \/ Kill(p)
       \/ \E q \in Provider : SignIn(p, q)
  \/ Edit

StartupSpec == StartupInit /\ [][StartupNext]_startupVars
-----------------------------------------------------------------------------
(* Properties *)

\* Once the provider migration counts as done, every provider it could import
\* has been in the registry.
MarkerMeansImported == providerMarker => candidates \subseteq had

\* New default settings lead to the wizard: the setup is pending, or the start
\* that created them is about to say so.
FreshMeansPending == owed => pending \/ \E p \in Process : Announcing(p)

\* What the old files hold is imported, and only once.  What the marker files say
\* is true, however starts overlap, are killed and meet what the user did to the
\* files (markSetupPending, migrateLegacyProviders); and a start that began after
\* the migrations were done brings nothing of the old files back: neither the
\* settings the user took away ("A deliberate reset of the new file must not
\* resurrect old settings.") nor a removed provider.
ImportedOnce ==
  [][/\ (MarkerMeansImported /\ FreshMeansPending)'
     /\ \A p \in Process : at[p] # at'[p] =>
          /\ At(p, "link") /\ settings = "absent" /\ late[p].settings => settings' # "legacy"
          /\ At(p, "update") /\ late[p].providers => registry' = registry]_startupVars
=============================================================================
