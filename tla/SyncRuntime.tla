---------------------------- MODULE SyncRuntime ----------------------------
(***************************************************************************)
(* How the upstream runtime gets into a release: scripts/sync-runtime.ts   *)
(* replaces vendor/ by a freshly patched bundle and writes the version and *)
(* the lock, build-release.ts syncs and checks, pack-release.ts packs what *)
(* its checks accept (check-runtime.ts, check-package.ts).  One script     *)
(* runs at a time, any of them may be killed between two steps, and while  *)
(* none runs the developer edits the TUI's sources and pulls.              *)
(* What the patches do to the bundle is module RuntimePatches.             *)
(***************************************************************************)
EXTENDS Naturals

CONSTANTS Releases,  \* what upstream publishes: [app, platform, sha]
          MaxTui     \* bound on the versions of the TUI's source

Platforms == {r.platform : r \in Releases}
Release == [app : Nat \ {0}, platform : Platforms, sha : Nat \ {0}]

ASSUME ReleasesAssumption == Releases \subseteq Release

VARIABLES lock,       \* zcode-runtime.lock.json
          package,    \* the App version in package.json's, 0 when that is a calendar version; the build number
                      \* behind it, which a sync keeps and no check reads, is left out
          vendor,     \* vendor/
          nextVendor, \* .vendor-next/
          tuiSource, tuiBuilt,  \* packages/zcode-tui, and its dist
          report,     \* the phase .release/runtime-compatibility.json speaks of, or "none"
          released,   \* the tarball .release/release.json speaks of: its version, lock, bundle and TUI
          job,        \* the script that runs: [step, kind, mode, source]
          synced      \* history: the last sync that began has replaced vendor/

syncVars == <<lock, package, vendor, nextVendor, tuiSource, tuiBuilt, report, released, job, synced>>

NoLock == [app |-> 0, platform |-> "none", sha |-> 0]
NoFile == [app |-> 0, sha |-> 0, patched |-> FALSE, tui |-> 0, extraction |-> NoLock]
NoRelease == [app |-> 0, lock |-> NoLock, vendor |-> NoFile, tui |-> 0]
NoSource == [app |-> 0, lock |-> NoLock, sha |-> 0]
Idle == [step |-> "idle", kind |-> "none", mode |-> "none", source |-> NoSource]

SyncInit ==
  /\ lock \in {NoLock} \cup Releases
  /\ package \in {0, lock.app}
  /\ vendor = NoFile /\ nextVendor = NoFile
  /\ tuiSource = 1 /\ tuiBuilt = 0
  /\ report = "none" /\ released = NoRelease /\ job = Idle /\ synced = FALSE

Doing(step) == job.step = step
GoOn(step) == job' = [job EXCEPT !.step = step]

----------------------------------------------------------------------------
(* Versions and locks.                                                     *)

\* selectRuntimeLock: a newer lock of the same platform is kept
SelectLock(candidate, current) ==
  IF current.platform = candidate.platform /\ current.app > candidate.app THEN current ELSE candidate

\* resolveLatestRuntimeLock: any trouble with the service, and the static manifest is read
Candidate(service, static) == IF service # NoLock THEN service ELSE static

Offers(platform) == {NoLock} \cup {r \in Releases : r.platform = platform}

----------------------------------------------------------------------------
(* sync.                                                                   *)

\* bun run build comes first; build-release has the types checked before
StartSync(kind, mode) ==
  /\ Doing("idle")
  /\ kind = "build" => mode # "app"
  /\ job' = [Idle EXCEPT !.step = "clear", !.kind = kind, !.mode = mode]
  /\ tuiBuilt' = tuiSource
  /\ UNCHANGED <<lock, package, vendor, nextVendor, tuiSource, report, released, synced>>

Clear ==
  /\ Doing("clear")
  /\ report' = "none"
  /\ synced' = FALSE
  /\ GoOn("resolve")
  /\ UNCHANGED <<lock, package, vendor, nextVendor, tuiSource, tuiBuilt, released>>

\* the catch and the finally of sync; build-release adds nothing to a report that exists
Fail(phase) ==
  /\ report' = phase
  /\ nextVendor' = NoFile
  /\ job' = Idle
  /\ UNCHANGED <<lock, package, tuiSource, tuiBuilt, released, synced>>

Resolved(source) ==
  /\ job' = [job EXCEPT !.step = "copy", !.source = source]
  /\ UNCHANGED <<lock, package, vendor, nextVendor, tuiSource, tuiBuilt, report, released, synced>>

Undiscovered == Fail("runtime_discovery") /\ UNCHANGED vendor

ResolveApp(r) == Resolved([app |-> r.app, lock |-> NoLock, sha |-> r.sha])

\* resolveLockedSource: what is served must have the hash the lock names
Download(l, served) ==
  IF l # NoLock /\ served = l.sha THEN Resolved([app |-> l.app, lock |-> l, sha |-> served])
  ELSE Undiscovered

Resolve ==
  /\ Doing("resolve")
  /\ \/ Undiscovered
     \/ \E r \in Releases :
          \/ job.mode = "app" /\ ResolveApp(r)
          \/ job.mode = "locked" /\ Download(lock, r.sha)
          \/ /\ job.mode = "latest"
             /\ \E platform \in Platforms :
                \E service \in Offers(platform), static \in Offers(platform) :
                  IF Candidate(service, static) = NoLock THEN Undiscovered
                  ELSE Download(SelectLock(Candidate(service, static), lock), r.sha)

\* rm and cp, then the provider catalogue
Copy ==
  /\ Doing("copy")
  /\ \/ /\ nextVendor' = [NoFile EXCEPT !.app = job.source.app, !.sha = job.source.sha]
        /\ GoOn("patch")
        /\ UNCHANGED <<lock, package, vendor, tuiSource, tuiBuilt, report, released, synced>>
     \/ Fail("runtime_sync") /\ UNCHANGED vendor

\* installTuiBridge: module RuntimePatches
Patch ==
  /\ Doing("patch")
  /\ \/ /\ nextVendor' = [nextVendor EXCEPT !.patched = TRUE]
        /\ GoOn("tui")
        /\ UNCHANGED <<lock, package, vendor, tuiSource, tuiBuilt, report, released, synced>>
     \/ Fail("runtime_patch") /\ UNCHANGED vendor

\* installLocalTui
InstallTui ==
  /\ Doing("tui")
  /\ nextVendor' = [nextVendor EXCEPT !.tui = tuiBuilt]
  /\ GoOn("extraction")
  /\ UNCHANGED <<lock, package, vendor, tuiSource, tuiBuilt, report, released, synced>>

\* the new bundle runs, says its version, and extraction.json says where it is from
WriteExtraction ==
  /\ Doing("extraction")
  /\ \/ /\ nextVendor' = [nextVendor EXCEPT !.extraction = [job.source.lock EXCEPT !.app = job.source.app]]
        /\ GoOn(IF job.mode = "app" THEN "remove" ELSE "package")
        /\ UNCHANGED <<lock, package, vendor, tuiSource, tuiBuilt, report, released, synced>>
     \/ Fail("runtime_sync") /\ UNCHANGED vendor

WritePackage ==
  /\ Doing("package")
  /\ package' = job.source.app
  /\ GoOn("lock")
  /\ UNCHANGED <<lock, vendor, nextVendor, tuiSource, tuiBuilt, report, released, synced>>

WriteLock ==
  /\ Doing("lock")
  /\ lock' = job.source.lock
  /\ GoOn("remove")
  /\ UNCHANGED <<package, vendor, nextVendor, tuiSource, tuiBuilt, report, released, synced>>

RemoveVendor ==
  /\ Doing("remove")
  /\ vendor' = NoFile
  /\ GoOn("rename")
  /\ UNCHANGED <<lock, package, nextVendor, tuiSource, tuiBuilt, report, released, synced>>

\* the old vendor/ is gone when the rename fails
Rename ==
  /\ Doing("rename")
  /\ \/ /\ vendor' = nextVendor /\ nextVendor' = NoFile
        /\ synced' = TRUE
        /\ job' = IF job.kind = "build" THEN [job EXCEPT !.step = "validate"] ELSE Idle
        /\ UNCHANGED <<lock, package, tuiSource, tuiBuilt, report, released>>
     \/ Fail("runtime_sync") /\ UNCHANGED vendor

----------------------------------------------------------------------------
(* The checks.                                                             *)

\* check-runtime.ts
RuntimeChecked(v) == v # NoFile /\ v.extraction.app = lock.app /\ lock # NoLock /\ v.patched

\* validatePackageTree
TreeOfTheSameApp(v, built) ==
  /\ v # NoFile /\ lock # NoLock
  /\ package = lock.app /\ v.extraction.app = lock.app
  /\ v.patched
  /\ v.tui = built

TreeValid(v, built) == TreeOfTheSameApp(v, built) /\ v.extraction = lock

----------------------------------------------------------------------------
(* build-release.ts and pack-release.ts.                                   *)

\* tests, check (which builds), check:tui, check-package; a failure is reported for the latest runtime only
Validate ==
  /\ Doing("validate")
  /\ tuiBuilt' = tuiSource
  /\ \/ RuntimeChecked(vendor) /\ TreeValid(vendor, tuiSource) /\ UNCHANGED report
     \/ report' = IF job.mode = "latest" /\ report = "none" THEN "release_validation" ELSE report
  /\ job' = Idle
  /\ UNCHANGED <<lock, package, vendor, nextVendor, tuiSource, released, synced>>

\* .release is emptied, an older report with it
StartPack ==
  /\ Doing("idle")
  /\ released' = NoRelease /\ report' = "none"
  /\ job' = [Idle EXCEPT !.step = "prepack", !.kind = "pack"]
  /\ UNCHANGED <<lock, package, vendor, nextVendor, tuiSource, tuiBuilt, synced>>

\* npm pack runs check-package --prepack before it takes the files
Prepack ==
  /\ Doing("prepack")
  /\ tuiBuilt' = tuiSource
  /\ \/ RuntimeChecked(vendor) /\ TreeValid(vendor, tuiSource) /\ GoOn("record")
     \/ job' = Idle
  /\ UNCHANGED <<lock, package, vendor, nextVendor, tuiSource, report, released, synced>>

\* validatePackResult, the smoke test of the tarball, release.json
Record ==
  /\ Doing("record")
  /\ \/ released' = [app |-> package, lock |-> lock, vendor |-> vendor, tui |-> tuiBuilt]
     \/ UNCHANGED released
  /\ job' = Idle
  /\ UNCHANGED <<lock, package, vendor, nextVendor, tuiSource, tuiBuilt, report, synced>>

----------------------------------------------------------------------------
(* The developer, and a script that is killed.                             *)

EditTui ==
  /\ Doing("idle") /\ tuiSource < MaxTui
  /\ tuiSource' = tuiSource + 1
  /\ UNCHANGED <<lock, package, vendor, nextVendor, tuiBuilt, report, released, job, synced>>

\* another commit's lock and version; vendor/ and .release/ are not tracked
Pull ==
  /\ Doing("idle")
  /\ \E r \in Releases : lock' = r /\ package' = r.app
  /\ UNCHANGED <<vendor, nextVendor, tuiSource, tuiBuilt, report, released, job, synced>>

Killed ==
  /\ ~Doing("idle")
  /\ job' = Idle
  /\ UNCHANGED <<lock, package, vendor, nextVendor, tuiSource, tuiBuilt, report, released, synced>>

SyncNext ==
  \/ \E kind \in {"sync", "build"}, mode \in {"latest", "locked", "app"} : StartSync(kind, mode)
  \/ Clear \/ Resolve \/ Copy \/ Patch \/ InstallTui \/ WriteExtraction
  \/ WritePackage \/ WriteLock \/ RemoveVendor \/ Rename
  \/ Validate \/ StartPack \/ Prepack \/ Record
  \/ EditTui \/ Pull \/ Killed

SyncSpec == SyncInit /\ [][SyncNext]_syncVars

----------------------------------------------------------------------------
(* Properties.                                                             *)

\* what is said of a bundle is about that bundle, and it was finished
Whole(v) ==
  /\ v.extraction.app = v.app /\ v.extraction.sha \in {0, v.sha}
  /\ v.patched /\ v.tui # 0

(* One runtime ships.  Whatever was synced, killed, pulled, edited or      *)
(* published again in between, a packed release holds the very bundle its  *)
(* lock names, patched, under that App's version and with the TUI of the   *)
(* sources it was packed from; vendor/ is a finished bundle or none; a     *)
(* compatibility report is about the last sync; and a sync with the latest *)
(* runtime never takes the lock back to an older App.                      *)
OneRuntimeShips ==
  [][/\ released' # NoRelease =>
          /\ Whole(released.vendor)'
          /\ released'.vendor.sha = released'.lock.sha
          /\ released'.vendor.app = released'.lock.app
          /\ released'.app = released'.lock.app
          /\ released'.vendor.tui = released'.tui
     /\ vendor' # NoFile => Whole(vendor)'
     /\ report' # "none" => synced' = (report' = "release_validation")
     /\ Doing("lock") /\ job.mode = "latest" /\ lock'.platform = lock.platform
          => lock'.app >= lock.app]_syncVars
=============================================================================
