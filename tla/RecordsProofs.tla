--------------------------- MODULE RecordsProofs ---------------------------
(***************************************************************************)
(* What the program writes down, for every number of processes, receipts,  *)
(* launchers and releases: old files are imported once, a damaged chain of *)
(* receipts is found out, a recorded session has all its events and a      *)
(* receipt about its log, one runtime is shipped, and the reports of its   *)
(* patches are true of it.                                                 *)
(***************************************************************************)
EXTENDS Startup, ReceiptChain, OcelRecorder, SyncRuntime, RuntimePatches,
        TLAPS, FiniteSetTheorems, SequenceTheorems, WellFoundedInduction

(* Sequences. *)

\* What a sequence is made of.
LEMMA Indexed ==
  ASSUME NEW S, NEW c \in Seq(S)
  PROVE  Len(c) \in Nat /\ DOMAIN c = 1 .. Len(c) /\ (c = <<>> <=> Len(c) = 0)
BY LenProperties, EmptySeq

\* The chain with one more entry.
LEMMA Appended ==
  ASSUME NEW S, NEW c \in Seq(S), NEW e
  PROVE  /\ Append(c, e) \in Seq(S \cup {e}) /\ Len(Append(c, e)) = Len(c) + 1
         /\ DOMAIN Append(c, e) = 1 .. Len(c) + 1 /\ Len(c) \in Nat
         /\ Append(c, e)[Len(c) + 1] = e
         /\ \A i \in 1 .. Len(c) : Append(c, e)[i] = c[i]
<1>1. c \in Seq(S \cup {e})
  BY Indexed
<1> QED
  BY <1>1, AppendProperties, LenProperties

-----------------------------------------------------------------------------
(* What a start imports (Startup). *)

\* The awaits of a start.
Await == {"off", "stat", "look", "link", "again", "finish", "read", "mark", "providers", "migrate",
          "registry", "update", "done", "run", "clear", "wizard", "tui", "signedIn", "write"}
\* Where settings come from.
Files == {"absent", "own", "defaults", "legacy"}

\* The types of its variables.
StartupShape ==
  /\ settings \in Files /\ at \in [Process -> Await] /\ pass \in [Process -> 1 .. 3]
  /\ initial \in [Process -> Files] /\ created \in [Process -> {"no", "fresh", "migrated"}]
  /\ late \in [Process -> [settings : BOOLEAN, providers : BOOLEAN]]
  /\ settingsMarker \in BOOLEAN /\ providerMarker \in BOOLEAN
  /\ pending \in BOOLEAN /\ owed \in BOOLEAN
  /\ registry \in [Provider -> {"absent", "user", "imported"}] /\ candidates \subseteq Provider

\* The settings a start writes are none it took away, and the old ones only
\* while no marker was there when it began.
InitialTrue ==
  \A p \in Process :
    /\ at[p] = "link" => initial[p] \in {"defaults", "legacy"}
    /\ at[p] = "write" => initial[p] # "absent"
    /\ late[p].settings => settingsMarker /\ (at[p] = "link" => initial[p] = "defaults")

\* A start that began after the providers were migrated does not migrate them.
MigrationTrue ==
  /\ \A p \in Process : late[p].providers =>
       providerMarker /\ at[p] \notin {"migrate", "registry", "update"}
  /\ \A q \in Provider : Present(q) => q \in had
  /\ \A p \in Process : at[p] = "done" => candidates \subseteq had
  /\ MarkerMeansImported

\* New settings that nobody announced yet are still there, and after the call that
\* wrote them the marker of the old ones is.
FreshTrue ==
  /\ owed => settings # "absent"
  /\ \A p \in Process : Announcing(p) => (pass[p] = 1 /\ at[p] = "finish") \/ settingsMarker
  /\ FreshMeansPending

\* The inductive invariant.
StartupInv == StartupShape /\ InitialTrue /\ MigrationTrue /\ FreshTrue

\* It holds before the first start.
LEMMA InitStartupInv == StartupInit => StartupInv
<1> SUFFICES ASSUME StartupInit PROVE StartupInv
  OBVIOUS
<1> USE DEF StartupInit
<1>1. StartupShape
  <2>1. registry \in [Provider -> {"absent", "user", "imported"}]
    OBVIOUS
  <2>2. late \in [Process -> [settings : BOOLEAN, providers : BOOLEAN]]
    BY DEF NotLate
  <2>3. /\ at \in [Process -> Await] /\ pass \in [Process -> 1 .. 3]
        /\ initial \in [Process -> Files] /\ created \in [Process -> {"no", "fresh", "migrated"}]
    BY DEF Await, Files
  <2>4. settings \in Files /\ candidates \subseteq Provider
    BY DEF Files
  <2> QED
    BY <2>1, <2>2, <2>3, <2>4 DEF StartupShape
<1>2. InitialTrue
  BY DEF InitialTrue, NotLate
<1>3. MigrationTrue
  BY DEF MigrationTrue, MarkerMeansImported, Present, NotLate
<1>4. FreshTrue
  BY DEF FreshTrue, FreshMeansPending, Announcing
<1> QED
  BY <1>1, <1>2, <1>3, <1>4 DEF StartupInv

\* Each step of a start keeps the invariant.
LEMMA StartStepKeeps ==
  ASSUME StartupInv, NEW p \in Process,
         \/ EnterMain(p) \/ Stat(p) \/ Look(p) \/ Link(p) \/ LinkExists(p) \/ Again(p)
         \/ Finish(p) \/ Read(p) \/ Mark(p)
         \/ Providers(p) \/ Migrate(p) \/ ReadRegistry(p) \/ UpdateRegistry(p)
         \/ WriteProviderMarker(p)
         \/ EnterTui(p) \/ CloseWizard(p) \/ ClearPending(p)
         \/ Save(p) \/ ReadToSave(p) \/ WriteSettings(p) \/ Quit(p) \/ Kill(p)
         \/ \E q \in Provider : SignIn(p, q)
  PROVE  StartupInv'
<1> USE DEF StartupInv, StartupShape, InitialTrue, MigrationTrue, FreshTrue, Announcing,
            FreshMeansPending, MarkerMeansImported, Present, disk, mine, ghosts, Goto, At,
            Handover, StartFailed, NotLate, Await, Files
<1>1. CASE EnterMain(p)
  BY <1>1 DEF EnterMain
<1>2. CASE Stat(p)
  BY <1>2 DEF Stat
<1>3. CASE Look(p)
  BY <1>3 DEF Look
<1>4. CASE Link(p)
  <2>1. /\ At(p, "link") /\ settings = "absent" /\ settings' = initial[p]
        /\ initial' = [initial EXCEPT ![p] = "absent"] /\ Goto(p, "finish")
        /\ UNCHANGED <<legacy, candidates, settingsMarker, pending, registry, broken,
                       providerMarker, pass, late, had>>
        /\ created' \in [Process -> {"no", "fresh", "migrated"}] /\ owed' \in BOOLEAN
        /\ \A q \in Process \ {p} : created'[q] = created[q]
    BY <1>4 DEF Link
  <2>2. StartupShape'
    BY <2>1
  <2>3. InitialTrue' /\ MigrationTrue'
    BY <2>1
  <2>4. owed = FALSE /\ (owed' => Announcing(p)')
    BY <1>4 DEF Link
  <2>5. owed' => settings' # "absent"
    BY <2>1
  <2>6. \A q \in Process : Announcing(q)' => (pass'[q] = 1 /\ at'[q] = "finish") \/ settingsMarker'
    <3>1. Announcing(p)' => (pass'[p] = 1 /\ at'[p] = "finish") \/ settingsMarker'
      <4>1. CASE pass[p] = 1
        BY <2>1, <4>1
      <4>2. CASE pass[p] # 1
        BY <1>4, <4>2 DEF Link
      <4> QED
        BY <4>1, <4>2
    <3>2. ASSUME NEW q \in Process \ {p}, Announcing(q)'
          PROVE  (pass'[q] = 1 /\ at'[q] = "finish") \/ settingsMarker'
      BY <2>1, <3>2
    <3> QED
      BY <3>1, <3>2
  <2> HIDE DEF Announcing
  <2>7. FreshTrue'
    BY <2>4, <2>5, <2>6
  <2> QED
    BY <2>2, <2>3, <2>7
<1>5. CASE LinkExists(p)
  BY <1>5 DEF LinkExists
<1>6. CASE Again(p)
  BY <1>6 DEF Again
<1>7. CASE Finish(p)
  BY <1>7 DEF Finish
<1>8. CASE Read(p)
  BY <1>8 DEF Read
<1>9. CASE Mark(p)
  BY <1>9 DEF Mark
<1>10. CASE Providers(p)
  BY <1>10 DEF Providers, ProviderMigrationNeeded
<1>11. CASE Migrate(p)
  BY <1>11 DEF Migrate, ProviderMigrationNeeded
<1>12. CASE ReadRegistry(p)
  BY <1>12 DEF ReadRegistry
<1>13. CASE UpdateRegistry(p)
  BY <1>13 DEF UpdateRegistry
<1>14. CASE WriteProviderMarker(p)
  BY <1>14 DEF WriteProviderMarker
<1>15. CASE EnterTui(p)
  BY <1>15 DEF EnterTui
<1>16. CASE CloseWizard(p)
  BY <1>16 DEF CloseWizard
<1>17. CASE ClearPending(p)
  BY <1>17 DEF ClearPending
<1>18. CASE Save(p)
  BY <1>18 DEF Save
<1>19. CASE ReadToSave(p)
  BY <1>19 DEF ReadToSave
<1>20. CASE WriteSettings(p)
  BY <1>20 DEF WriteSettings
<1>21. CASE Quit(p)
  BY <1>21 DEF Quit
<1>22. CASE Kill(p)
  BY <1>22 DEF Kill
<1>23. ASSUME NEW q \in Provider, SignIn(p, q) PROVE StartupInv'
  BY <1>23 DEF SignIn
<1> QED
  BY <1>1, <1>2, <1>3, <1>4, <1>5, <1>6, <1>7, <1>8, <1>9, <1>10, <1>11, <1>12, <1>13, <1>14, <1>15, <1>16, <1>17, <1>18, <1>19, <1>20, <1>21, <1>22, <1>23

\* Every step of a start, of the user and of a crash keeps it.
LEMMA StartupInvPreserved == StartupInv /\ [StartupNext]_startupVars => StartupInv'
<1> SUFFICES ASSUME StartupInv, [StartupNext]_startupVars PROVE StartupInv'
  OBVIOUS
<1>1. CASE Edit
  <2> USE DEF StartupInv, StartupShape, InitialTrue, MigrationTrue, FreshTrue, Announcing,
              FreshMeansPending, MarkerMeansImported, Present, mine
  <2>1. CASE Reset
    BY <1>1, <2>1 DEF Edit, Reset, Files
  <2>2. CASE BreakOrRepair
    BY <1>1, <2>2 DEF Edit, BreakOrRepair
  <2>3. ASSUME NEW q \in Provider, EditProvider(q) PROVE StartupInv'
    BY <1>1, <2>3 DEF Edit, EditProvider
  <2> QED
    BY <1>1, <2>1, <2>2, <2>3 DEF Edit
<1>2. CASE UNCHANGED startupVars
  BY <1>2 DEF startupVars, disk, mine, ghosts, StartupInv, StartupShape, InitialTrue, MigrationTrue,
     FreshTrue, Announcing, FreshMeansPending, MarkerMeansImported, Present
<1> QED
  BY <1>1, <1>2, StartStepKeeps DEF StartupNext

\* What the marker files say stays true, however starts overlap, are killed and
\* meet what the user does to the files, and a start that began after the
\* migrations were done brings nothing of the old files back (ensureCliSettings of
\* model-access.ts, migrateLegacyProviders of runtime-config-bridge.ts).
THEOREM OldFilesAreImportedOnce == StartupSpec => ImportedOnce
<1>1. StartupInv /\ StartupInv' /\ [StartupNext]_startupVars =>
        [/\ (MarkerMeansImported /\ FreshMeansPending)'
         /\ \A p \in Process : at[p] # at'[p] =>
              /\ At(p, "link") /\ settings = "absent" /\ late[p].settings => settings' # "legacy"
              /\ At(p, "update") /\ late[p].providers => registry' = registry]_startupVars
  <2> SUFFICES ASSUME StartupInv, StartupInv', StartupNext, NEW p \in Process, at[p] # at'[p]
               PROVE  /\ At(p, "link") /\ settings = "absent" /\ late[p].settings =>
                           settings' # "legacy"
                      /\ At(p, "update") /\ late[p].providers => registry' = registry
    BY DEF StartupInv, MigrationTrue, FreshTrue
  <2>1. ~(At(p, "update") /\ late[p].providers)
    BY DEF StartupInv, MigrationTrue, At
  <2>2. ASSUME At(p, "link"), settings = "absent", late[p].settings PROVE settings' # "legacy"
    <3>1. initial[p] = "defaults"
      BY <2>2 DEF At, StartupInv, InitialTrue
    <3>2. CASE Link(p)
      BY <3>1, <3>2 DEF Link
    <3>3. CASE UNCHANGED settings
      BY <2>2, <3>3
    <3>4. Link(p) \/ UNCHANGED settings
      BY <2>2 DEF StartupInv, StartupShape, StartupNext, Edit, At, Goto, disk, Handover,
         EnterMain, Stat, Look, Link, LinkExists, Again, Finish, Read, Mark, Providers, Migrate,
         ReadRegistry, UpdateRegistry, WriteProviderMarker, EnterTui, SignIn, CloseWizard,
         ClearPending, Save, ReadToSave, WriteSettings, Quit, Kill
    <3> QED
      BY <3>2, <3>3, <3>4
  <2> QED
    BY <2>1, <2>2
<1> QED
  BY <1>1, InitStartupInv, StartupInvPreserved, PTL DEF StartupSpec, ImportedOnce

-----------------------------------------------------------------------------
(* The chain of receipts (ReceiptChain). *)

\* An entry has the fields Make gives it.
IsEntry(e) ==
  /\ e = [parent |-> e.parent, phase |-> e.phase, standing |-> e.standing, subject |-> e.subject,
          action |-> e.action, ref |-> e.ref, seal |-> e.seal, hash |-> e.hash]
  /\ e.phase \in Phase /\ e.seal \in BOOLEAN

\* What holds of every chain the functions build: no two hashes in it are the
\* same, since each holds all those in front of it.
ChainOK(c) ==
  /\ \E S : c \in Seq(S)
  /\ \A i \in DOMAIN c : IsEntry(c[i])
  /\ \A i, j \in DOMAIN c : c[i].hash = c[j].hash => i = j
  /\ VerifyChain(c)

\* No hash is the one in front of the first entry, or that of no entry.
LEMMA HashIsATuple == ASSUME NEW e PROVE Digest(e) # Genesis /\ Digest(e) # NoRef
BY DEF Digest, Genesis, NoRef

\* Entries of one hash say the same.
LEMMA DigestBinds ==
  ASSUME NEW e, NEW f, Digest(e) = Digest(f)
  PROVE  /\ e.parent = f.parent /\ e.phase = f.phase /\ e.standing = f.standing
         /\ e.subject = f.subject /\ e.action = f.action /\ e.ref = f.ref
BY DEF Digest

\* What an entry has to be only depends on those in front of it.
LEMMA EntryStays ==
  ASSUME NEW c, NEW d, NEW i \in Nat, \A k \in 1 .. i : d[k] = c[k], i >= 1, EntryHolds(c, i)
  PROVE  EntryHolds(d, i)
<1>1. d[i] = c[i] /\ (i # 1 => d[i - 1] = c[i - 1]) /\ \A j \in 1 .. i - 1 : d[j] = c[j]
  OBVIOUS
<1>2. {j \in 1 .. i - 1 : d[j].phase = "pending"} = {j \in 1 .. i - 1 : c[j].phase = "pending"}
  BY <1>1
<1> QED
  BY <1>1, <1>2 DEF EntryHolds, Bound, Digest

\* The first of some numbers is one of them.
LEMMA FirstOfIsOne == ASSUME NEW S, S \subseteq Nat, S # {} PROVE FirstOf(S) \in S
<1>1. IsWellFoundedOn(OpToRel(<, Nat), Nat)
  BY NatLessThanWellFounded
<1>2. PICK m \in S : \A n \in S : ~(<<n, m>> \in OpToRel(<, Nat))
  BY <1>1, WFMin
<1>3. ASSUME NEW n \in S PROVE m <= n
  <2>1. n \in Nat /\ m \in Nat
    OBVIOUS
  <2>2. n < m => <<n, m>> \in OpToRel(<, Nat)
    BY <2>1 DEF OpToRel
  <2>3. ~(n < m)
    BY <1>2, <2>2, Zenon
  <2> QED
    BY <2>1, <2>3
<1> QED
  BY <1>2, <1>3 DEF FirstOf

\* An entry that is bound to the last one and holds behind it keeps the chain.
LEMMA AppendKeeps ==
  ASSUME NEW c, ChainOK(c), ~IsSealed(c), NEW e, IsEntry(e), e.hash = Digest(e),
         e.parent = Parent(c), EntryHolds(Append(c, e), Len(c) + 1)
  PROVE  ChainOK(Append(c, e))
<1>0. PICK S : c \in Seq(S)
  BY DEF ChainOK
<1> DEFINE d == Append(c, e)
           n == Len(c)
<1>1. /\ d \in Seq(S \cup {e}) /\ DOMAIN d = 1 .. n + 1 /\ DOMAIN c = 1 .. n /\ n \in Nat
      /\ Len(d) = n + 1 /\ d[n + 1] = e /\ \A i \in 1 .. n : d[i] = c[i]
      /\ (c = <<>> <=> n = 0)
  BY <1>0, Appended, Indexed
<1> HIDE DEF d, n
<1>2. \A i \in 1 .. n : IsEntry(c[i]) /\ c[i].hash = Digest(c[i]) /\ EntryHolds(c, i)
  BY <1>1 DEF ChainOK, VerifyChain, EntryHolds
<1>3. \A i \in DOMAIN d : IsEntry(d[i])
  BY <1>1, <1>2
<1>4. \A i \in 1 .. n : e.hash # c[i].hash
  <2> SUFFICES ASSUME NEW i \in 1 .. n, e.hash = c[i].hash PROVE FALSE
    OBVIOUS
  <2>1. c[i].parent = c[n].hash
    <3>1. Digest(e) = Digest(c[i])
      BY <1>2
    <3>2. e.parent = c[i].parent
      BY <3>1, DigestBinds
    <3> QED
      BY <1>1, <3>2 DEF Parent, Last, n
  <2>2. c[i].parent = (IF i = 1 THEN Genesis ELSE c[i - 1].hash)
    BY <1>2 DEF EntryHolds, Bound
  <2>3. CASE i = 1
    <3>1. n \in 1 .. n
      BY <1>1
    <3>2. c[n].hash = Digest(c[n])
      BY <1>2, <3>1
    <3> QED
      BY <2>1, <2>2, <2>3, <3>2, HashIsATuple
  <2>4. CASE i # 1
    <3>1. c[i - 1].hash = c[n].hash /\ i - 1 \in DOMAIN c /\ n \in DOMAIN c /\ i - 1 # n
      BY <1>1, <2>1, <2>2, <2>4
    <3> QED
      BY <3>1 DEF ChainOK
  <2> QED
    BY <2>3, <2>4
<1>5. \A i, j \in DOMAIN d : d[i].hash = d[j].hash => i = j
  <2> SUFFICES ASSUME NEW i \in DOMAIN d, NEW j \in DOMAIN d, d[i].hash = d[j].hash PROVE i = j
    OBVIOUS
  <2>1. CASE i \in 1 .. n /\ j \in 1 .. n
    BY <1>1, <2>1 DEF ChainOK
  <2>2. CASE i = n + 1 \/ j = n + 1
    BY <1>1, <1>4, <2>2
  <2> QED
    BY <1>1, <2>1, <2>2
<1>6. \A i \in DOMAIN d : EntryHolds(d, i)
  <2>1. ASSUME NEW i \in 1 .. n PROVE EntryHolds(d, i)
    BY <1>1, <1>2, <2>1, EntryStays
  <2> QED
    BY <1>1, <2>1 DEF d, n
<1>7. Seals(d) \subseteq {n + 1}
  BY <1>1 DEF Seals, IsSealed
<1>8. Cardinality(Seals(d)) <= 1 /\ (Seals(d) # {} => Last(d).seal)
  <2>1. IsFiniteSet({n + 1}) /\ Cardinality({n + 1}) = 1
    BY FS_Singleton
  <2>2. Cardinality(Seals(d)) <= Cardinality({n + 1})
    BY <1>7, <2>1, FS_Subset
  <2>3. Seals(d) # {} => n + 1 \in Seals(d)
    BY <1>7
  <2> QED
    BY <1>1, <2>1, <2>2, <2>3 DEF Seals, Last
<1> QED
  BY <1>1, <1>3, <1>5, <1>6, <1>8 DEF ChainOK, VerifyChain, d

\* Every operation on the chain keeps it whole.
LEMMA ChainPreserved == ChainOK(chain) /\ [ReceiptNext]_chain => ChainOK(chain)'
<1> SUFFICES ASSUME ChainOK(chain), ReceiptNext PROVE ChainOK(chain')
  BY DEF ChainOK
<1>0. PICK S : chain \in Seq(S)
  BY DEF ChainOK
<1> DEFINE n == Len(chain)
<1>1. n \in Nat /\ DOMAIN chain = 1 .. n /\ (chain = <<>> <=> n = 0)
  BY <1>0, Indexed
<1>2. \A i \in 1 .. n : IsEntry(chain[i]) /\ chain[i].hash = Digest(chain[i])
  BY <1>1 DEF ChainOK, VerifyChain, EntryHolds
<1>3. ASSUME NEW e PROVE /\ Append(chain, e)[n + 1] = e
                         /\ \A i \in 1 .. n : Append(chain, e)[i] = chain[i]
  BY <1>0, Appended
<1> HIDE DEF n
<1>4. ASSUME NEW e, e.parent = Parent(chain) PROVE Bound(Append(chain, e), n + 1)
  <2>1. n + 1 # 1 => Append(chain, e)[n + 1 - 1] = chain[n]
    BY <1>1, <1>3
  <2>2. Parent(chain) = IF n = 0 THEN Genesis ELSE chain[n].hash
    BY <1>1 DEF Parent, Last, n
  <2>3. Append(chain, e)[n + 1].parent = Parent(chain)
    BY <1>3, <1>4
  <2> QED
    BY <1>1, <2>1, <2>2, <2>3 DEF Bound
<1>5. ASSUME NEW about \in Subject, NEW action \in Operation, AppendPending(about, action)
      PROVE  ChainOK(chain')
  <2> DEFINE e == Make(chain, "pending", Neutral, about, action, NoRef, FALSE)
  <2>1. /\ IsEntry(e) /\ e.hash = Digest(e) /\ e.parent = Parent(chain) /\ e.phase = "pending"
        /\ e.standing = Neutral /\ e.ref = NoRef
    <3>1. e = [parent |-> Parent(chain), phase |-> "pending", standing |-> Neutral, subject |-> about,
               action |-> action, ref |-> NoRef, seal |-> FALSE,
               hash |-> <<Parent(chain), "pending", Neutral, about, action, NoRef>>]
      BY DEF Make, Digest
    <3> HIDE DEF e
    <3> QED
      BY <3>1 DEF IsEntry, Digest, Phase
  <2>2. chain' = Append(chain, e) /\ ~IsSealed(chain)
    BY <1>5 DEF AppendPending
  <2> HIDE DEF e
  <2>3. EntryHolds(Append(chain, e), n + 1)
    BY <1>3, <1>4, <2>1 DEF EntryHolds
  <2> QED
    BY <2>1, <2>2, <2>3, AppendKeeps DEF n
<1>6. ASSUME NEW about \in Subject, NEW standing \in Standing, NEW action \in Operation,
             AppendOutcome(standing, about, action)
      PROVE  ChainOK(chain')
  <2> DEFINE k == FirstOf(OpenFor(chain, action))
             e == Make(chain, "outcome", standing, about, action, chain[k].hash, FALSE)
  <2>1. /\ IsEntry(e) /\ e.hash = Digest(e) /\ e.parent = Parent(chain) /\ e.phase = "outcome"
        /\ e.action = action /\ e.ref = chain[k].hash /\ e.seal = FALSE
    <3>1. e = [parent |-> Parent(chain), phase |-> "outcome", standing |-> standing, subject |-> about,
               action |-> action, ref |-> chain[k].hash, seal |-> FALSE,
               hash |-> <<Parent(chain), "outcome", standing, about, action, chain[k].hash>>]
      BY DEF Make, Digest
    <3> HIDE DEF e
    <3> QED
      BY <3>1 DEF IsEntry, Digest, Phase
  <2>2. chain' = Append(chain, e) /\ ~IsSealed(chain) /\ OpenFor(chain, action) # {}
    BY <1>6 DEF AppendOutcome
  <2>3. k \in OpenFor(chain, action)
    <3>1. OpenFor(chain, action) \subseteq Nat
      BY <1>1 DEF OpenFor, Unpaired
    <3> QED
      BY <2>2, <3>1, FirstOfIsOne
  <2> HIDE DEF k, e
  <2>4. /\ k \in 1 .. n /\ chain[k].phase = "pending" /\ chain[k].action = action
        /\ chain[k].hash \notin Paired(chain) /\ chain[k].hash # NoRef
    BY <1>1, <1>2, <2>3, HashIsATuple DEF OpenFor, Unpaired
  <2>5. ASSUME NEW j \in 1 .. n, chain[j].phase = "outcome" PROVE chain[j].ref # chain[k].hash
    BY <1>1, <2>4, <2>5 DEF Paired
  <2>6. EntryHolds(Append(chain, e), n + 1)
    BY <1>1, <1>3, <1>4, <2>1, <2>4, <2>5 DEF EntryHolds
  <2> QED
    BY <2>1, <2>2, <2>6, AppendKeeps DEF n
<1>7. ASSUME NEW about \in Subject, NEW standing \in Standing, SealChain(standing, about)
      PROVE  ChainOK(chain')
  <2> DEFINE e == Make(chain, "outcome", standing, about, "seal", NoRef, TRUE)
  <2>1. /\ IsEntry(e) /\ e.hash = Digest(e) /\ e.parent = Parent(chain) /\ e.phase = "outcome"
        /\ e.ref = NoRef /\ e.seal = TRUE
    <3>1. e = [parent |-> Parent(chain), phase |-> "outcome", standing |-> standing, subject |-> about,
               action |-> "seal", ref |-> NoRef, seal |-> TRUE,
               hash |-> <<Parent(chain), "outcome", standing, about, "seal", NoRef>>]
      BY DEF Make, Digest
    <3> HIDE DEF e
    <3> QED
      BY <3>1 DEF IsEntry, Digest, Phase
  <2>2. chain' = Append(chain, e) /\ ~IsSealed(chain) /\ Unpaired(chain) = {}
    BY <1>7 DEF SealChain
  <2> HIDE DEF e
  <2>3. ASSUME NEW i \in 1 .. n, chain[i].phase = "pending"
        PROVE  \E j \in 1 .. n : /\ chain[j].phase = "outcome" /\ ~chain[j].seal
                                 /\ chain[j].ref = chain[i].hash
    <3>1. chain[i].hash \in Paired(chain)
      BY <1>1, <2>2, <2>3 DEF Unpaired
    <3> QED
      BY <1>1, <2>2, <3>1 DEF Paired, IsSealed
  <2>4. EntryHolds(Append(chain, e), n + 1)
    BY <1>1, <1>3, <1>4, <2>1, <2>3 DEF EntryHolds
  <2> QED
    BY <2>1, <2>2, <2>4, AppendKeeps DEF n
<1> QED
  BY <1>5, <1>6, <1>7 DEF ReceiptNext

\* An entry that is not behind the one it was bound to does not verify.
LEMMA OutOfPlace ==
  ASSUME NEW c, ChainOK(c), NEW i \in DOMAIN c, i + 1 \in DOMAIN c, NEW d, i \in DOMAIN d,
         d[i] = c[i + 1], i # 1 => d[i - 1] = c[i - 1]
  PROVE  ~VerifyChain(d)
<1>0. PICK S : c \in Seq(S)
  BY DEF ChainOK
<1>1. DOMAIN c = 1 .. Len(c) /\ Len(c) \in Nat
  BY <1>0, Indexed
<1>2. EntryHolds(c, i + 1) /\ c[i].hash = Digest(c[i])
  BY DEF ChainOK, VerifyChain, EntryHolds
<1>3. d[i].parent = c[i].hash
  BY <1>1, <1>2 DEF EntryHolds, Bound
<1>4. c[i].hash # Genesis
  BY <1>2, HashIsATuple
<1>5. i # 1 => c[i].hash # c[i - 1].hash
  BY <1>1 DEF ChainOK
<1>6. ~Bound(d, i)
  BY <1>3, <1>4, <1>5 DEF Bound
<1> QED
  BY <1>6 DEF VerifyChain, EntryHolds

\* A rewritten entry does not hold, unless its hash was computed anew; and then
\* it is not the one the next entry is bound to.
LEMMA RewrittenFails ==
  ASSUME NEW c, ChainOK(c), NEW i \in DOMAIN c, NEW e \in Rewritten(c[i]),
         e.hash = c[i].hash \/ i + 1 \in DOMAIN c
  PROVE  ~VerifyChain(ReplaceAt(c, i, e))
<1>0. PICK S : c \in Seq(S)
  BY DEF ChainOK
<1> DEFINE d == ReplaceAt(c, i, e)
<1>1. DOMAIN c = 1 .. Len(c) /\ Len(c) \in Nat
  BY <1>0, Indexed
<1>2. DOMAIN d = DOMAIN c /\ d[i] = e /\ \A j \in DOMAIN c \ {i} : d[j] = c[j]
  BY <1>0, <1>1 DEF ReplaceAt
<1> HIDE DEF d
<1>3. IsEntry(c[i]) /\ c[i].hash = Digest(c[i])
  BY DEF ChainOK, VerifyChain, EntryHolds
<1>4. PICK s \in Standing, b \in Subject :
        /\ e # c[i]
        /\ \/ e = [c[i] EXCEPT !.standing = s, !.subject = b]
           \/ e = [[c[i] EXCEPT !.standing = s, !.subject = b]
                     EXCEPT !.hash = Digest([c[i] EXCEPT !.standing = s, !.subject = b])]
  <2>1. PICK f \in Altered(c[i]) : e # c[i] /\ (e = f \/ e = Rehashed(f))
    BY DEF Rewritten
  <2>2. PICK v \in Standing \X Subject : f = [c[i] EXCEPT !.standing = v[1], !.subject = v[2]]
    BY DEF Altered
  <2>3. v[1] \in Standing /\ v[2] \in Subject
    OBVIOUS
  <2> QED
    BY <2>1, <2>2, <2>3 DEF Rehashed
<1>5. /\ e = [c[i] EXCEPT !.standing = s, !.subject = b, !.hash = e.hash]
      /\ e.standing = s /\ e.subject = b
  BY <1>3, <1>4 DEF IsEntry
<1>6. CASE e.hash = c[i].hash
  <2>1. s # c[i].standing \/ b # c[i].subject
    BY <1>3, <1>4, <1>5, <1>6 DEF IsEntry
  <2>2. Digest(e) # Digest(c[i])
    BY <1>5, <2>1, DigestBinds
  <2> QED
    BY <1>2, <1>3, <1>6, <2>2 DEF VerifyChain, EntryHolds, d
<1>7. CASE e.hash # c[i].hash
  <2>1. i + 1 \in DOMAIN c /\ c[i + 1].parent = c[i].hash
    BY <1>1, <1>7 DEF ChainOK, VerifyChain, EntryHolds, Bound
  <2>2. d[i + 1].parent # d[i].hash
    BY <1>1, <1>2, <1>7, <2>1
  <2>3. ~Bound(d, i + 1)
    BY <1>1, <2>1, <2>2 DEF Bound
  <2> QED
    BY <1>2, <2>1, <2>3 DEF VerifyChain, EntryHolds, d
<1> QED
  BY <1>6, <1>7

\* Without one of its entries, but the last, a chain does not verify.
LEMMA RemovedFails ==
  ASSUME NEW c, ChainOK(c), NEW i \in 1 .. Len(c) - 1 PROVE ~VerifyChain(RemoveAt(c, i))
<1>0. PICK S : c \in Seq(S)
  BY DEF ChainOK
<1> DEFINE a == SubSeq(c, 1, i - 1)
           b == SubSeq(c, i + 1, Len(c))
<1>1. DOMAIN c = 1 .. Len(c) /\ Len(c) \in Nat
  BY <1>0, Indexed
<1>2. a \in Seq(S) /\ Len(a) = i - 1 /\ \A j \in 1 .. i - 1 : a[j] = c[j]
  BY <1>0, <1>1, SubSeqProperties
<1>3. b \in Seq(S) /\ Len(b) = Len(c) - i /\ b[1] = c[i + 1]
  BY <1>0, <1>1, SubSeqProperties
<1> HIDE DEF a, b
<1>4. /\ DOMAIN (a \o b) = 1 .. Len(c) - 1 /\ (a \o b)[i] = c[i + 1]
      /\ i # 1 => (a \o b)[i - 1] = c[i - 1]
  <2>1. /\ a \o b \in Seq(S) /\ Len(a \o b) = Len(a) + Len(b)
        /\ \A k \in 1 .. Len(a) + Len(b) :
             (a \o b)[k] = IF k <= Len(a) THEN a[k] ELSE b[k - Len(a)]
    BY <1>2, <1>3, ConcatProperties
  <2>2. Len(a) = i - 1 /\ Len(b) = Len(c) - i /\ i \in Nat /\ Len(b) >= 1
    BY <1>1, <1>2, <1>3
  <2>3. DOMAIN (a \o b) = 1 .. Len(c) - 1
    <3>1. Len(a \o b) = Len(c) - 1
      BY <1>1, <2>1, <2>2
    <3> QED
      BY <2>1, <3>1, LenProperties
  <2>4. (a \o b)[i] = b[1]
    BY <2>1, <2>2
  <2>5. i # 1 => (a \o b)[i - 1] = a[i - 1] /\ a[i - 1] = c[i - 1]
    BY <1>2, <2>1, <2>2
  <2> QED
    BY <1>3, <2>3, <2>4, <2>5
<1>5. RemoveAt(c, i) = a \o b
  BY DEF RemoveAt, a, b
<1>6. i \in DOMAIN c /\ i + 1 \in DOMAIN c /\ i \in DOMAIN (a \o b)
  <2>1. i \in DOMAIN c /\ i + 1 \in DOMAIN c
    BY <1>1
  <2>2. i \in DOMAIN (a \o b)
    BY <1>4, Zenon
  <2> QED
    BY <2>1, <2>2
<1> QED
  BY <1>4, <1>5, <1>6, OutOfPlace

\* Nor does it with two of them exchanged.
LEMMA SwappedFails ==
  ASSUME NEW c, ChainOK(c), NEW i \in 1 .. Len(c) - 1
  PROVE  ~VerifyChain(Swapped(c, i))
<1>0. PICK S : c \in Seq(S)
  BY DEF ChainOK
<1> DEFINE d == Swapped(c, i)
<1>1. DOMAIN c = 1 .. Len(c) /\ Len(c) \in Nat
  BY <1>0, Indexed
<1>2. DOMAIN d = DOMAIN c /\ d[i] = c[i + 1] /\ (i # 1 => d[i - 1] = c[i - 1])
  BY <1>0, <1>1 DEF Swapped, ReplaceAt
<1> HIDE DEF d
<1>3. i \in DOMAIN c /\ i + 1 \in DOMAIN c /\ i \in DOMAIN d
  BY <1>1, <1>2
<1>4. ~VerifyChain(d)
  BY <1>2, <1>3, OutOfPlace
<1> QED
  BY <1>4 DEF d

\* However long a chain grows, it verifies, and no copy of it does in which an
\* entry before the last is missing, was rewritten or changed places with the
\* next, or the last was rewritten under its old hash (verify of receipt.ts).
THEOREM DamageIsDetected == ReceiptSpec => []OnlyTheChainVerifies
<1>1. ReceiptInit => ChainOK(chain)
  <2> SUFFICES ASSUME chain = <<>> PROVE ChainOK(chain)
    BY DEF ReceiptInit
  <2>1. chain \in Seq({}) /\ DOMAIN chain = {}
    OBVIOUS
  <2>2. Seals(chain) = {}
    BY <2>1 DEF Seals
  <2>3. Cardinality(Seals(chain)) = 0
    BY <2>2, FS_EmptySet
  <2> QED
    BY <2>1, <2>2, <2>3 DEF ChainOK, VerifyChain
<1>2. ChainOK(chain) => OnlyTheChainVerifies
  <2> SUFFICES ASSUME ChainOK(chain), NEW d \in Damaged(chain) PROVE ~VerifyChain(d)
    BY DEF OnlyTheChainVerifies, ChainOK
  <2>0. PICK S : chain \in Seq(S)
    BY DEF ChainOK
  <2>1. DOMAIN chain = 1 .. Len(chain) /\ Len(chain) \in Nat
    BY <2>0, Indexed
  <2>2. ASSUME NEW i \in 1 .. Len(chain) - 1, d = RemoveAt(chain, i) \/ d = Swapped(chain, i)
        PROVE  ~VerifyChain(d)
    BY <2>2, RemovedFails, SwappedFails
  <2>3. ASSUME NEW i \in 1 .. Len(chain), NEW e \in Rewritten(chain[i]), d = ReplaceAt(chain, i, e),
               i \in 1 .. Len(chain) - 1 \/ e.hash = chain[i].hash
        PROVE  ~VerifyChain(d)
    <3>1. i \in DOMAIN chain /\ (e.hash = chain[i].hash \/ i + 1 \in DOMAIN chain)
      BY <2>1, <2>3
    <3> QED
      BY <2>3, <3>1, RewrittenFails
  <2>4. \/ \E i \in 1 .. Len(chain) - 1 :
             \/ d = RemoveAt(chain, i) \/ d = Swapped(chain, i)
             \/ \E e \in Rewritten(chain[i]) : d = ReplaceAt(chain, i, e)
        \/ /\ chain # <<>>
           /\ \E e \in Rewritten(Last(chain)) :
                e.hash = Last(chain).hash /\ d = ReplaceAt(chain, Len(chain), e)
    <3>1. \/ \E i \in 1 .. Len(chain) - 1 : d \in DamagedAt(chain, i)
          \/ d \in DamagedEnd(chain)
      BY DEF Damaged
    <3>2. ASSUME NEW i \in 1 .. Len(chain) - 1, d \in DamagedAt(chain, i)
          PROVE  \/ d = RemoveAt(chain, i) \/ d = Swapped(chain, i)
                 \/ \E e \in Rewritten(chain[i]) : d = ReplaceAt(chain, i, e)
      BY <3>2 DEF DamagedAt
    <3>3. ASSUME d \in DamagedEnd(chain)
          PROVE  /\ chain # <<>>
                 /\ \E e \in Rewritten(Last(chain)) :
                      e.hash = Last(chain).hash /\ d = ReplaceAt(chain, Len(chain), e)
      <4>1. chain # <<>>
        BY <3>3 DEF DamagedEnd
      <4> QED
        BY <3>3, <4>1 DEF DamagedEnd
    <3> QED
      BY <3>1, <3>2, <3>3
  <2>5. \A i \in 1 .. Len(chain) - 1 : i \in 1 .. Len(chain)
    BY <2>1
  <2>6. chain # <<>> => Len(chain) \in 1 .. Len(chain)
    BY <2>0, <2>1, Indexed
  <2> QED
    BY <2>2, <2>3, <2>4, <2>5, <2>6 DEF Last
<1> QED
  BY <1>1, <1>2, ChainPreserved, PTL DEF ReceiptSpec

-----------------------------------------------------------------------------
(* The recorder of a session (OcelRecorder). *)

\* The stages of a launcher.
Stage == {"off", "running", "exited", "logged", "done", "crashed"}
\* A piece of a line: which line, and whether it ends it.
Piece == (Nat \ {0}) \X BOOLEAN

\* The types of its variables.
OcelShape ==
  /\ stage \in [Recorder -> Stage] /\ subject \in [Recorder -> Session]
  /\ sent \in [Recorder -> Seq(Kind)] /\ cut \in [Recorder -> BOOLEAN]
  /\ pipe \in [Recorder -> Seq(Piece)] /\ carry \in [Recorder -> Nat]
  /\ session \in [Recorder -> Session \cup {"none"}] /\ events \in [Recorder -> Seq(Nat)]

\* What is read, carried and still in the pipe are the pieces of the lines the
\* runtime began, one behind the other.
Follows(a, b) == IF a[2] THEN b[1] = a[1] + 1 /\ ~b[2] ELSE b[1] = a[1] /\ b[2]

PiecesTrue(r) ==
  LET p == pipe[r]
      n == Len(sent[r])
  IN  /\ \A j \in 1 .. Len(p) : p[j][1] <= n /\ (j < Len(p) => Follows(p[j], p[j + 1]))
      /\ carry[r] <= n /\ (cut[r] => n # 0)
      /\ p # <<>> => /\ p[Len(p)][1] = n /\ (p[Len(p)][2] <=> ~cut[r])
                     /\ IF carry[r] = 0 THEN ~p[1][2] ELSE p[1][1] = carry[r] /\ p[1][2]
      /\ p = <<>> => carry[r] = IF cut[r] THEN n ELSE 0

\* The first line that was not fed to the recorder.
Unread(r) ==
  IF carry[r] # 0 THEN carry[r] ELSE IF pipe[r] # <<>> THEN pipe[r][1][1] ELSE Len(sent[r]) + 1

\* The recorder has the events of the lines in front of line i.
HasEvents(r, i) ==
  /\ Range(events[r]) = {k \in 1 .. i - 1 : sent[r][k] = "event"}
  /\ Ordered(events[r])

\* What Fed and TailFed make of the events.
LEMMA FedEvents ==
  ASSUME OcelShape, NEW r \in Recorder, NEW i \in 1 .. Len(sent[r]), HasEvents(r, i)
  PROVE  /\ Fed(r, i).events \in Seq(Nat) /\ Fed(r, i).session \in Session \cup {"none"}
         /\ Range(Fed(r, i).events) = {k \in 1 .. i : sent[r][k] = "event"}
         /\ Ordered(Fed(r, i).events)
<1> DEFINE s == events[r]
<1>1. /\ s \in Seq(Nat) /\ Len(s) \in Nat /\ DOMAIN s = 1 .. Len(s) /\ i \in Nat
      /\ Len(sent[r]) \in Nat
  BY LenProperties DEF OcelShape
<1>2. \A k \in 1 .. Len(s) : s[k] \in Nat /\ s[k] < i
  <2>1. \A k \in 1 .. Len(s) : s[k] \in {j \in 1 .. i - 1 : sent[r][j] = "event"}
    BY <1>1 DEF HasEvents, Range
  <2> HIDE DEF s
  <2> QED
    BY <1>1, <2>1
<1>3. Fed(r, i).session \in Session \cup {"none"}
  BY DEF Fed, OcelShape
<1>4. CASE sent[r][i] = "event"
  <2>1. Fed(r, i).events = Append(s, i)
    BY <1>4 DEF Fed
  <2> HIDE DEF s
  <2>2. /\ Append(s, i) \in Seq(Nat) /\ Len(Append(s, i)) = Len(s) + 1
        /\ \A k \in 1 .. Len(s) : Append(s, i)[k] = s[k]
        /\ Append(s, i)[Len(s) + 1] = i
    BY <1>1, AppendProperties
  <2>3. DOMAIN Append(s, i) = 1 .. Len(s) + 1
    BY <2>2, LenProperties
  <2>4. Ordered(Append(s, i))
    BY <1>1, <1>2, <2>2, <2>3 DEF HasEvents, Ordered, s
  <2>5. Range(Append(s, i)) = Range(s) \cup {i}
    BY <1>1, <2>2, <2>3 DEF Range
  <2>6. Range(s) = {k \in 1 .. i - 1 : sent[r][k] = "event"}
    BY DEF HasEvents, s
  <2>7. {k \in 1 .. i : sent[r][k] = "event"} = {k \in 1 .. i - 1 : sent[r][k] = "event"} \cup {i}
    BY <1>1, <1>4
  <2> QED
    BY <1>3, <2>1, <2>2, <2>4, <2>5, <2>6, <2>7
<1>5. CASE sent[r][i] # "event"
  <2>1. Fed(r, i).events = s
    BY <1>5 DEF Fed
  <2>2. {k \in 1 .. i : sent[r][k] = "event"} = {k \in 1 .. i - 1 : sent[r][k] = "event"}
    BY <1>1, <1>5
  <2> QED
    BY <1>1, <1>3, <2>1, <2>2 DEF HasEvents
<1> QED
  BY <1>4, <1>5

\* What holds of one recorder, and that it only speaks of that one.
RecorderTrue(r) ==
  /\ stage[r] \in {"off", "running", "exited"} => PiecesTrue(r) /\ HasEvents(r, Unread(r))
  /\ stage[r] \in {"logged", "done"} => HasEvents(r, Len(sent[r]) + 1)

\* It holds on while nothing is done to the recorder.
LEMMA OthersStay ==
  ASSUME NEW q \in Recorder, RecorderTrue(q), stage'[q] = stage[q], sent'[q] = sent[q],
         cut'[q] = cut[q], pipe'[q] = pipe[q], carry'[q] = carry[q], events'[q] = events[q]
  PROVE  RecorderTrue(q)'
<1>1. (PiecesTrue(q)' <=> PiecesTrue(q)) /\ Unread(q)' = Unread(q)
  BY DEF PiecesTrue, Unread
<1>2. \A i : HasEvents(q, i)' <=> HasEvents(q, i)
  BY DEF HasEvents
<1> QED
  BY <1>1, <1>2 DEF RecorderTrue

\* A piece written into the pipe, and one read out of it.
LEMMA PieceWritten ==
  ASSUME OcelShape, NEW r \in Recorder, PiecesTrue(r), NEW n \in Nat \ {0},
         \/ ~cut[r] /\ n = Len(sent[r]) + 1 /\ cut'[r] = TRUE
         \/ cut[r] /\ n = Len(sent[r]) /\ cut'[r] = FALSE,
         Len(sent'[r]) = n, carry'[r] = carry[r],
         pipe'[r] = Append(pipe[r], <<n, ~cut'[r]>>)
  PROVE  PiecesTrue(r)' /\ Unread(r)' = Unread(r)
<1> DEFINE p == pipe[r]
           m == Len(p)
           e == <<n, ~cut'[r]>>
           d == Append(p, e)
<1>1. p \in Seq(Piece) /\ m \in Nat /\ Len(sent[r]) \in Nat /\ carry[r] \in Nat
      /\ cut[r] \in BOOLEAN /\ (p = <<>> <=> m = 0)
  <2>1. pipe[r] \in Seq(Piece) /\ sent[r] \in Seq(Kind) /\ carry[r] \in Nat /\ cut[r] \in BOOLEAN
    BY DEF OcelShape
  <2> QED
    BY <2>1, Indexed
<1>2. /\ Len(d) = m + 1 /\ d[m + 1] = e /\ \A j \in 1 .. m : d[j] = p[j]
      /\ d # <<>>
  <2>1. p \in Seq(Piece)
    BY <1>1
  <2> HIDE DEF p, e
  <2>2. Len(d) = m + 1 /\ d[m + 1] = e /\ \A j \in 1 .. m : d[j] = p[j]
    BY <2>1, Appended
  <2>3. d # <<>>
    <3>1. Len(d) # 0
      BY <1>1, <2>2
    <3> HIDE DEF d
    <3> QED
      BY <3>1
  <2> QED
    BY <2>2, <2>3
<1>3. /\ \A j \in 1 .. m : p[j][1] <= Len(sent[r]) /\ (j < m => Follows(p[j], p[j + 1]))
      /\ carry[r] <= Len(sent[r]) /\ (cut[r] => Len(sent[r]) # 0)
      /\ p # <<>> => /\ p[m][1] = Len(sent[r]) /\ (p[m][2] <=> ~cut[r])
                     /\ IF carry[r] = 0 THEN ~p[1][2] ELSE p[1][1] = carry[r] /\ p[1][2]
      /\ p = <<>> => carry[r] = IF cut[r] THEN Len(sent[r]) ELSE 0
  BY DEF PiecesTrue
<1>4. \A j \in 1 .. m : p[j] \in Piece
  BY <1>1, ElementOfSeq
<1> HIDE DEF p, m, d
<1>6. e[1] = n /\ (e[2] <=> ~cut'[r]) /\ Len(sent[r]) <= n
  BY <1>1
<1> HIDE DEF e
<1>5. p # <<>> => Follows(p[m], e)
  BY <1>1, <1>3, <1>6 DEF Follows
<1>7. \A j \in 1 .. m + 1 : d[j][1] <= n /\ (j < m + 1 => Follows(d[j], d[j + 1]))
  <2> SUFFICES ASSUME NEW j \in 1 .. m + 1
               PROVE  d[j][1] <= n /\ (j < m + 1 => Follows(d[j], d[j + 1]))
    OBVIOUS
  <2>1. CASE j < m
    <3>1. d[j] = p[j] /\ d[j + 1] = p[j + 1] /\ p[j][1] \in Nat /\ j \in 1 .. m
      BY <1>1, <1>2, <1>4, <2>1 DEF Piece
    <3>2. p[j][1] <= Len(sent[r]) /\ Follows(p[j], p[j + 1])
      BY <1>3, <2>1, <3>1
    <3>3. p[j][1] <= n
      BY <1>1, <1>6, <3>1, <3>2
    <3> QED
      BY <3>1, <3>2, <3>3
  <2>2. CASE j = m
    <3>1. d[j] = p[m] /\ d[j + 1] = e /\ p[m][1] \in Nat /\ m \in 1 .. m /\ p # <<>>
      BY <1>1, <1>2, <1>4, <2>2 DEF Piece
    <3> QED
      BY <1>1, <1>3, <1>5, <1>6, <2>2, <3>1
  <2>3. CASE j = m + 1
    BY <1>1, <1>2, <1>6, <2>3
  <2> QED
    BY <1>1, <2>1, <2>2, <2>3
<1>8. IF carry[r] = 0 THEN ~d[1][2] ELSE d[1][1] = carry[r] /\ d[1][2]
  <2>1. CASE p = <<>>
    BY <1>1, <1>2, <1>3, <1>6, <2>1
  <2>2. CASE p # <<>>
    <3>1. d[1] = p[1]
      BY <1>1, <1>2, <2>2
    <3> QED
      BY <1>3, <2>2, <3>1
  <2> QED
    BY <2>1, <2>2
<1>9. PiecesTrue(r)'
  <2>1. pipe'[r] = d /\ Len(d) = m + 1 /\ d[m + 1] = e /\ d # <<>>
    BY <1>2 DEF d, e, p
  <2>2. carry'[r] <= n /\ n # 0
    BY <1>1, <1>3, <1>6
  <2> QED
    BY <1>6, <1>7, <1>8, <2>1, <2>2 DEF PiecesTrue
<1>10. Unread(r)' = Unread(r)
  <2>1. pipe'[r] = d
    BY DEF d, e, p
  <2>2. CASE p = <<>>
    BY <1>1, <1>2, <1>3, <1>6, <2>1, <2>2 DEF Unread, p
  <2>3. CASE p # <<>>
    <3>1. d[1] = p[1] /\ d # <<>>
      BY <1>1, <1>2, <2>3
    <3>2. pipe'[r] # <<>> /\ pipe'[r][1] = pipe[r][1] /\ pipe[r] # <<>> /\ carry'[r] = carry[r]
      BY <1>1, <2>1, <2>3, <3>1 DEF p
    <3> QED
      BY <3>2 DEF Unread
  <2> QED
    BY <2>2, <2>3
<1> QED
  BY <1>9, <1>10

\* A piece read out of the pipe.
LEMMA PieceRead ==
  ASSUME OcelShape, NEW r \in Recorder, PiecesTrue(r), pipe[r] # <<>>,
         pipe'[r] = Tail(pipe[r]), sent'[r] = sent[r], cut'[r] = cut[r],
         carry'[r] = IF pipe[r][1][2] THEN 0 ELSE pipe[r][1][1]
  PROVE  /\ PiecesTrue(r)' /\ pipe[r][1][1] \in 1 .. Len(sent[r]) /\ pipe[r][1][1] = Unread(r)
         /\ Unread(r)' = IF pipe[r][1][2] THEN Unread(r) + 1 ELSE Unread(r)
<1> DEFINE p == pipe[r]
           m == Len(p)
           d == Tail(p)
           n == Len(sent[r])
<1>1. p \in Seq(Piece) /\ m \in Nat /\ m # 0 /\ n \in Nat /\ p # <<>>
      /\ carry[r] \in Nat /\ cut[r] \in BOOLEAN
  <2>1. pipe[r] \in Seq(Piece) /\ sent[r] \in Seq(Kind) /\ carry[r] \in Nat /\ cut[r] \in BOOLEAN
    BY DEF OcelShape
  <2>2. pipe[r] # <<>>
    OBVIOUS
  <2> HIDE DEF p, m, n
  <2>3. Len(pipe[r]) \in Nat /\ Len(pipe[r]) # 0
    BY <2>1, <2>2, Indexed
  <2>4. Len(sent[r]) \in Nat
    BY <2>1, Indexed
  <2> QED
    BY <2>1, <2>2, <2>3, <2>4 DEF p, m, n
<1>2. \A j \in 1 .. m : p[j] \in Piece /\ p[j][1] \in Nat /\ p[j][1] # 0
  BY <1>1, ElementOfSeq DEF Piece
<1>3. /\ \A j \in 1 .. m : p[j][1] <= n /\ (j < m => Follows(p[j], p[j + 1]))
      /\ carry[r] <= n /\ (cut[r] => n # 0)
      /\ p[m][1] = n /\ (p[m][2] <=> ~cut[r])
      /\ IF carry[r] = 0 THEN ~p[1][2] ELSE p[1][1] = carry[r] /\ p[1][2]
  BY <1>1 DEF PiecesTrue
<1>4. d \in Seq(Piece) /\ Len(d) = m - 1 /\ (d = <<>> <=> m = 1)
      /\ \A j \in 1 .. m - 1 : d[j] = p[j + 1]
  <2>1. d \in Seq(Piece) /\ Len(d) = m - 1 /\ \A j \in 1 .. m - 1 : d[j] = p[j + 1]
    BY <1>1, HeadTailProperties
  <2> HIDE DEF d, m, p
  <2>2. d = <<>> <=> Len(d) = 0
    BY <2>1, Indexed
  <2> QED
    BY <1>1, <2>1, <2>2
<1> HIDE DEF p, m, d, n
<1>5. \A j \in 1 .. m - 1 : d[j][1] <= n /\ (j < m - 1 => Follows(d[j], d[j + 1]))
  <2> SUFFICES ASSUME NEW j \in 1 .. m - 1
               PROVE  d[j][1] <= n /\ (j < m - 1 => Follows(d[j], d[j + 1]))
    OBVIOUS
  <2>1. j + 1 \in 1 .. m /\ d[j] = p[j + 1] /\ (j < m - 1 => d[j + 1] = p[j + 2])
    BY <1>1, <1>4
  <2>2. p[j + 1][1] <= n /\ (j + 1 < m => Follows(p[j + 1], p[j + 1 + 1]))
    BY <1>3, <2>1
  <2>3. j + 1 + 1 = j + 2 /\ (j + 1 < m <=> j < m - 1)
    BY <1>1
  <2> QED
    BY <2>1, <2>2, <2>3
<1>6. m # 1 => d[1] = p[2] /\ Follows(p[1], p[2])
  <2>1. m # 1 => 1 \in 1 .. m - 1 /\ 1 \in 1 .. m /\ 1 < m /\ 1 + 1 = 2
    BY <1>1
  <2> QED
    BY <1>3, <1>4, <2>1
<1>7. m # 1 => d[m - 1] = p[m]
  <2>1. m # 1 => m - 1 \in 1 .. m - 1 /\ (m - 1) + 1 = m
    BY <1>1
  <2> QED
    BY <1>4, <2>1
<1>8. pipe'[r] = d /\ Len(d) = m - 1
  BY <1>4 DEF d, p
<1>9. p[1][1] \in Nat /\ p[1][1] # 0 /\ p[1][1] <= n
  BY <1>1, <1>2, <1>3
<1>10. carry'[r] = IF p[1][2] THEN 0 ELSE p[1][1]
  BY DEF p
<1>11. m = 1 => p[1][1] = n /\ (p[1][2] <=> ~cut[r])
  BY <1>3
<1>12. PiecesTrue(r)'
  <2>1. d # <<>> => /\ d[Len(d)][1] = n /\ (d[Len(d)][2] <=> ~cut[r])
                    /\ IF carry'[r] = 0 THEN ~d[1][2] ELSE d[1][1] = carry'[r] /\ d[1][2]
    <3> SUFFICES ASSUME m # 1
                 PROVE  /\ d[m - 1][1] = n /\ (d[m - 1][2] <=> ~cut[r])
                        /\ IF carry'[r] = 0 THEN ~d[1][2] ELSE d[1][1] = carry'[r] /\ d[1][2]
      BY <1>4
    <3> QED
      BY <1>3, <1>6, <1>7, <1>9, <1>10 DEF Follows
  <2>2. d = <<>> => carry'[r] = IF cut[r] THEN n ELSE 0
    BY <1>4, <1>10, <1>11
  <2>3. carry'[r] <= n
    BY <1>1, <1>9, <1>10
  <2> QED
    BY <1>3, <1>4, <1>5, <1>8, <2>1, <2>2, <2>3 DEF PiecesTrue, n
<1>13. p[1][1] = Unread(r)
  BY <1>1, <1>3 DEF Unread, p
<1>14. Unread(r)' = IF p[1][2] THEN p[1][1] + 1 ELSE p[1][1]
  <2>1. CASE ~p[1][2]
    BY <1>9, <1>10, <2>1 DEF Unread
  <2>2. CASE p[1][2] /\ m # 1
    BY <1>4, <1>6, <1>8, <1>10, <2>2 DEF Unread, Follows
  <2>3. CASE p[1][2] /\ m = 1
    BY <1>4, <1>8, <1>10, <1>11, <2>3 DEF Unread, n
  <2> QED
    BY <2>1, <2>2, <2>3
<1> QED
  BY <1>1, <1>9, <1>12, <1>13, <1>14 DEF p, n

\* The first unread line is one of the lines or the next one, and one of them
\* while the last has no newline.
LEMMA UnreadBound ==
  ASSUME OcelShape, NEW r \in Recorder, PiecesTrue(r)
  PROVE  /\ Len(sent[r]) \in Nat /\ Unread(r) \in 1 .. Len(sent[r]) + 1
         /\ cut[r] => Len(sent[r]) # 0 /\ Unread(r) <= Len(sent[r])
<1>1. /\ pipe[r] \in Seq(Piece) /\ sent[r] \in Seq(Kind) /\ carry[r] \in Nat /\ cut[r] \in BOOLEAN
  BY DEF OcelShape
<1>2. Len(sent[r]) \in Nat /\ Len(pipe[r]) \in Nat /\ (pipe[r] = <<>> <=> Len(pipe[r]) = 0)
  BY <1>1, Indexed
<1>3. pipe[r] # <<>> => pipe[r][1] \in Piece
  <2>1. \A k \in 1 .. Len(pipe[r]) : pipe[r][k] \in Piece
    BY <1>1, ElementOfSeq
  <2> QED
    BY <1>2, <2>1
<1>4. pipe[r] # <<>> => pipe[r][1][1] \in Nat \ {0} /\ pipe[r][1][1] <= Len(sent[r])
  <2>1. pipe[r] # <<>> => 1 \in 1 .. Len(pipe[r])
    BY <1>2
  <2> QED
    BY <1>3, <2>1 DEF PiecesTrue, Piece
<1>5. carry[r] <= Len(sent[r]) /\ (cut[r] => Len(sent[r]) # 0)
      /\ (pipe[r] = <<>> => carry[r] = IF cut[r] THEN Len(sent[r]) ELSE 0)
  BY DEF PiecesTrue
<1> QED
  BY <1>1, <1>2, <1>4, <1>5 DEF Unread

\* Each step keeps the shape of the recorders.
LEMMA ShapeKept ==
  ASSUME OcelShape, \A r \in Recorder : RecorderTrue(r), OcelNext
  PROVE  OcelShape'
<1> PICK r \in Recorder :
      \/ LaunchRun(r) \/ EndLine(r) \/ Write(r) \/ FinishLog(r) \/ FinishReceipt(r) \/ RunKilled(r)
      \/ \E kind \in Kind : BeginLine(r, kind)
      \/ \E truncated \in BOOLEAN : RunExits(r, truncated)
  BY DEF OcelNext
<1>0. /\ sent[r] \in Seq(Kind) /\ pipe[r] \in Seq(Piece) /\ carry[r] \in Nat /\ cut[r] \in BOOLEAN
      /\ Len(sent[r]) \in Nat
  <2>1. sent[r] \in Seq(Kind) /\ pipe[r] \in Seq(Piece) /\ carry[r] \in Nat /\ cut[r] \in BOOLEAN
    BY DEF OcelShape
  <2> QED
    BY <2>1, Indexed
<1>1. CASE LaunchRun(r) \/ RunKilled(r) \/ FinishReceipt(r)
  BY <1>1 DEF LaunchRun, RunKilled, FinishReceipt, OcelShape, Stage
<1>2. ASSUME NEW kind \in Kind, BeginLine(r, kind)
      PROVE  OcelShape'
  <2>1. Append(sent[r], kind) \in Seq(Kind)
    BY <1>0, AppendProperties
  <2>2. <<Len(sent[r]) + 1, FALSE>> \in Piece
    <3>1. Len(sent[r]) + 1 \in Nat \ {0}
      BY <1>0
    <3> QED
      BY <3>1 DEF Piece
  <2>3. Append(pipe[r], <<Len(sent[r]) + 1, FALSE>>) \in Seq(Piece)
    BY <1>0, <2>2, AppendProperties
  <2> QED
    BY <1>2, <2>1, <2>3 DEF BeginLine, OcelShape
<1>3. CASE EndLine(r)
  <2>1. Len(sent[r]) # 0
    BY <1>3 DEF EndLine, RecorderTrue, PiecesTrue
  <2>2. <<Len(sent[r]), TRUE>> \in Piece
    BY <1>0, <2>1 DEF Piece
  <2>3. Append(pipe[r], <<Len(sent[r]), TRUE>>) \in Seq(Piece)
    BY <1>0, <2>2, AppendProperties
  <2> QED
    BY <1>3, <2>3 DEF EndLine, OcelShape
<1>4. ASSUME NEW truncated \in BOOLEAN, RunExits(r, truncated)
      PROVE  OcelShape'
  <2>1. sent' \in [Recorder -> Seq(Kind)]
    <3>1. CASE truncated
      <4>1. Len(sent[r]) # 0
        BY <1>4, <3>1 DEF RunExits, RecorderTrue, PiecesTrue
      <4>2. Len(sent[r]) \in 1 .. Len(sent[r]) /\ "noise" \in Kind
        BY <1>0, <4>1 DEF Kind
      <4>3. [sent[r] EXCEPT ![Len(sent[r])] = "noise"] \in Seq(Kind)
        BY <1>0, <4>2, ExceptSeq
      <4> QED
        BY <1>4, <3>1, <4>3 DEF RunExits, OcelShape
    <3>2. CASE ~truncated
      BY <1>4, <3>2 DEF RunExits, OcelShape
    <3> QED
      BY <3>1, <3>2
  <2> QED
    BY <1>4, <2>1 DEF RunExits, OcelShape, Stage
<1>5. CASE Write(r)
  <2>1. PiecesTrue(r) /\ HasEvents(r, Unread(r)) /\ pipe[r] # <<>>
    BY <1>5 DEF Write, RecorderTrue
  <2>2. Tail(pipe[r]) \in Seq(Piece) /\ Head(pipe[r]) = pipe[r][1]
    BY <1>0, <2>1, HeadTailProperties
  <2> DEFINE i == pipe[r][1][1]
  <2>3. i \in 1 .. Len(sent[r]) /\ i \in Nat /\ i = Unread(r)
    <3>1. 1 \in 1 .. Len(pipe[r]) /\ (pipe[r][1] \in Piece)
      <4>1. Len(pipe[r]) \in Nat /\ Len(pipe[r]) # 0
        BY <1>0, <2>1, Indexed
      <4>2. \A k \in 1 .. Len(pipe[r]) : pipe[r][k] \in Piece
        BY <1>0, ElementOfSeq
      <4> QED
        BY <4>1, <4>2
    <3>2. pipe[r][1][1] \in Nat \ {0} /\ pipe[r][1][1] <= Len(sent[r])
      BY <2>1, <3>1 DEF PiecesTrue, Piece
    <3>3. pipe[r][1][1] = Unread(r)
      BY <2>1 DEF PiecesTrue, Unread
    <3> QED
      BY <1>0, <3>2, <3>3
  <2> HIDE DEF i
  <2>4. Fed(r, i).events \in Seq(Nat) /\ Fed(r, i).session \in Session \cup {"none"}
    BY <2>1, <2>3, FedEvents
  <2>5. pipe' = [pipe EXCEPT ![r] = Tail(pipe[r])]
    BY <1>5 DEF Write
  <2>6. carry' \in [Recorder -> Nat] /\ session' \in [Recorder -> Session \cup {"none"}]
        /\ events' \in [Recorder -> Seq(Nat)]
    <3>1. CASE pipe[r][1][2]
      <4>1. /\ session' = [session EXCEPT ![r] = Fed(r, i).session]
            /\ events' = [events EXCEPT ![r] = Fed(r, i).events]
            /\ carry' = [carry EXCEPT ![r] = 0]
        BY <1>5, <2>2, <3>1 DEF Write, i
      <4> QED
        BY <2>4, <4>1 DEF OcelShape
    <3>2. CASE ~pipe[r][1][2]
      BY <1>5, <2>2, <2>3, <3>2 DEF Write, OcelShape, i
    <3> QED
      BY <3>1, <3>2
  <2> QED
    BY <1>5, <2>2, <2>5, <2>6 DEF Write, OcelShape
<1>6. CASE FinishLog(r)
  <2>1. TailFed(r).events \in Seq(Nat) /\ TailFed(r).session \in Session \cup {"none"}
    <3>1. CASE carry[r] = 0
      BY <3>1 DEF TailFed, OcelShape
    <3>2. CASE carry[r] # 0
      <4>1. PiecesTrue(r) /\ HasEvents(r, Unread(r))
        BY <1>6 DEF FinishLog, RecorderTrue
      <4>2. carry[r] \in 1 .. Len(sent[r]) /\ carry[r] = Unread(r)
        BY <1>0, <3>2, <4>1 DEF PiecesTrue, Unread
      <4>3. Fed(r, carry[r]).events \in Seq(Nat) /\ Fed(r, carry[r]).session \in Session \cup {"none"}
        BY <4>1, <4>2, FedEvents
      <4> QED
        BY <3>2, <4>3 DEF TailFed
    <3> QED
      BY <3>1, <3>2
  <2>2. /\ session' = [session EXCEPT ![r] = TailFed(r).session]
        /\ events' = [events EXCEPT ![r] = TailFed(r).events]
        /\ carry' = [carry EXCEPT ![r] = 0] /\ stage' = [stage EXCEPT ![r] = "logged"]
        /\ UNCHANGED <<subject, sent, cut, pipe>>
    BY <1>6 DEF FinishLog, WriteLog
  <2> QED
    BY <2>1, <2>2 DEF OcelShape, Stage
<1> QED
  BY <1>1, <1>2, <1>3, <1>4, <1>5, <1>6

\* Each step keeps what holds of the recorders.
LEMMA RecordersKept ==
  ASSUME OcelShape, \A r \in Recorder : RecorderTrue(r), OcelNext
  PROVE  \A r \in Recorder : RecorderTrue(r)'
<1> PICK r \in Recorder :
      \/ LaunchRun(r) \/ EndLine(r) \/ Write(r) \/ FinishLog(r) \/ FinishReceipt(r) \/ RunKilled(r)
      \/ \E kind \in Kind : BeginLine(r, kind)
      \/ \E truncated \in BOOLEAN : RunExits(r, truncated)
  BY DEF OcelNext
<1>1. ASSUME NEW q \in Recorder, q # r
      PROVE  RecorderTrue(q)'
  <2>1. /\ stage'[q] = stage[q] /\ sent'[q] = sent[q] /\ cut'[q] = cut[q]
        /\ pipe'[q] = pipe[q] /\ carry'[q] = carry[q] /\ events'[q] = events[q]
    BY <1>1 DEF OcelShape, LaunchRun, EndLine, Write, FinishLog, WriteLog, FinishReceipt,
                RunKilled, BeginLine, RunExits
  <2> QED
    BY <2>1, OthersStay
<1> SUFFICES RecorderTrue(r)'
  BY <1>1
<1>0. /\ sent[r] \in Seq(Kind) /\ pipe[r] \in Seq(Piece) /\ carry[r] \in Nat /\ cut[r] \in BOOLEAN
      /\ Len(sent[r]) \in Nat
  <2>1. sent[r] \in Seq(Kind) /\ pipe[r] \in Seq(Piece) /\ carry[r] \in Nat /\ cut[r] \in BOOLEAN
    BY DEF OcelShape
  <2> QED
    BY <2>1, Indexed
<1> DEFINE n == Len(sent[r])
<1>2. CASE LaunchRun(r) \/ RunKilled(r) \/ FinishReceipt(r)
  <2>1. /\ sent'[r] = sent[r] /\ cut'[r] = cut[r] /\ pipe'[r] = pipe[r] /\ carry'[r] = carry[r]
        /\ events'[r] = events[r]
    BY <1>2 DEF LaunchRun, RunKilled, FinishReceipt
  <2>2. (PiecesTrue(r)' <=> PiecesTrue(r)) /\ Unread(r)' = Unread(r)
        /\ \A i : HasEvents(r, i)' <=> HasEvents(r, i)
    BY <2>1 DEF PiecesTrue, Unread, HasEvents
  <2>3. \/ stage[r] = "off" /\ stage'[r] = "running"
        \/ stage'[r] = "crashed"
        \/ stage[r] = "logged" /\ stage'[r] = "done"
    BY <1>2 DEF LaunchRun, RunKilled, FinishReceipt, OcelShape
  <2> QED
    BY <2>1, <2>2, <2>3 DEF RecorderTrue
<1>3. ASSUME NEW kind \in Kind, BeginLine(r, kind)
      PROVE  RecorderTrue(r)'
  <2>1. /\ PiecesTrue(r) /\ HasEvents(r, Unread(r)) /\ ~cut[r] /\ stage'[r] = "running"
        /\ sent'[r] = Append(sent[r], kind) /\ cut'[r] = TRUE /\ carry'[r] = carry[r]
        /\ pipe'[r] = Append(pipe[r], <<Len(sent[r]) + 1, FALSE>>) /\ events'[r] = events[r]
    BY <1>3 DEF BeginLine, RecorderTrue, OcelShape
  <2>2. Len(sent'[r]) = n + 1 /\ \A k \in 1 .. n : sent'[r][k] = sent[r][k]
    BY <1>0, <2>1, AppendProperties
  <2>3. PiecesTrue(r)' /\ Unread(r)' = Unread(r)
    <3>1. n + 1 \in Nat \ {0} /\ ~cut'[r] = FALSE
      BY <1>0, <2>1
    <3>2. pipe'[r] = Append(pipe[r], <<n + 1, ~cut'[r]>>)
      BY <2>1, <3>1
    <3> QED
      BY <2>1, <2>2, <3>1, <3>2, PieceWritten
  <2>4. Unread(r) \in 1 .. n + 1
    BY <2>1, UnreadBound
  <2> HIDE DEF n
  <2>5. n \in Nat
    BY <1>0 DEF n
  <2>6. {k \in 1 .. Unread(r) - 1 : sent'[r][k] = "event"} = {k \in 1 .. Unread(r) - 1 : sent[r][k] = "event"}
    BY <2>2, <2>4, <2>5
  <2>7. HasEvents(r, Unread(r))'
    BY <2>1, <2>3, <2>6 DEF HasEvents
  <2> QED
    BY <2>1, <2>3, <2>7 DEF RecorderTrue
<1>4. CASE EndLine(r)
  <2>1. /\ PiecesTrue(r) /\ HasEvents(r, Unread(r)) /\ cut[r] /\ stage'[r] = "running"
        /\ sent'[r] = sent[r] /\ cut'[r] = FALSE /\ carry'[r] = carry[r]
        /\ pipe'[r] = Append(pipe[r], <<Len(sent[r]), TRUE>>) /\ events'[r] = events[r]
    BY <1>4 DEF EndLine, RecorderTrue, OcelShape
  <2>2. PiecesTrue(r)' /\ Unread(r)' = Unread(r)
    <3>1. n # 0 /\ n \in Nat \ {0} /\ <<n, ~cut'[r]>> = <<Len(sent[r]), TRUE>>
      BY <1>0, <2>1, UnreadBound
    <3>2. pipe'[r] = Append(pipe[r], <<n, ~cut'[r]>>)
      BY <2>1, <3>1
    <3> QED
      BY <2>1, <3>1, <3>2, PieceWritten
  <2>3. HasEvents(r, Unread(r))'
    BY <2>1, <2>2 DEF HasEvents
  <2> QED
    BY <2>1, <2>2, <2>3 DEF RecorderTrue
<1>5. ASSUME NEW truncated \in BOOLEAN, RunExits(r, truncated)
      PROVE  RecorderTrue(r)'
  <2>1. /\ PiecesTrue(r) /\ HasEvents(r, Unread(r)) /\ (truncated => cut[r]) /\ stage'[r] = "exited"
        /\ cut'[r] = cut[r] /\ carry'[r] = carry[r] /\ pipe'[r] = pipe[r] /\ events'[r] = events[r]
    BY <1>5 DEF RunExits, RecorderTrue, OcelShape
  <2>2. Unread(r) \in 1 .. n + 1 /\ (cut[r] => n # 0 /\ Unread(r) <= n)
    BY <2>1, UnreadBound
  <2>3. Len(sent'[r]) = n /\ \A k \in 1 .. Unread(r) - 1 : sent'[r][k] = sent[r][k]
    <3>1. CASE truncated
      <4>1. sent'[r] = [sent[r] EXCEPT ![n] = "noise"]
        BY <1>5, <3>1 DEF RunExits, OcelShape
      <4>2. n \in 1 .. n /\ "noise" \in Kind
        BY <1>0, <2>1, <2>2, <3>1 DEF Kind
      <4>3. Len(sent'[r]) = n /\ \A k \in 1 .. n : sent'[r][k] = IF k = n THEN "noise" ELSE sent[r][k]
        BY <1>0, <4>1, <4>2, ExceptSeq
      <4> HIDE DEF n
      <4>4. n \in Nat
        BY <1>0 DEF n
      <4> QED
        BY <2>1, <2>2, <3>1, <4>3, <4>4
    <3>2. CASE ~truncated
      BY <1>5, <3>2 DEF RunExits
    <3> QED
      BY <3>1, <3>2
  <2>4. PiecesTrue(r)' /\ Unread(r)' = Unread(r)
    BY <2>1, <2>3 DEF PiecesTrue, Unread
  <2> HIDE DEF n
  <2>5. HasEvents(r, Unread(r))'
    BY <2>1, <2>3, <2>4 DEF HasEvents
  <2> QED
    BY <2>1, <2>4, <2>5 DEF RecorderTrue
<1>6. CASE Write(r)
  <2>1. /\ PiecesTrue(r) /\ HasEvents(r, Unread(r)) /\ pipe[r] # <<>>
        /\ stage'[r] = stage[r] /\ stage[r] \in {"running", "exited"}
        /\ sent'[r] = sent[r] /\ cut'[r] = cut[r] /\ pipe'[r] = Tail(pipe[r])
    BY <1>6 DEF Write, RecorderTrue, OcelShape
  <2>2. Head(pipe[r]) = pipe[r][1]
    BY <1>0, <2>1, HeadTailProperties
  <2>3. /\ carry'[r] = IF pipe[r][1][2] THEN 0 ELSE pipe[r][1][1]
        /\ events'[r] = IF pipe[r][1][2] THEN Fed(r, pipe[r][1][1]).events ELSE events[r]
    BY <1>6, <2>2 DEF Write, OcelShape
  <2>4. /\ PiecesTrue(r)' /\ pipe[r][1][1] \in 1 .. n /\ pipe[r][1][1] = Unread(r)
        /\ Unread(r)' = IF pipe[r][1][2] THEN Unread(r) + 1 ELSE Unread(r)
    BY <2>1, <2>3, PieceRead
  <2>5. HasEvents(r, Unread(r))'
    <3>1. CASE pipe[r][1][2]
      <4>1. /\ Range(Fed(r, Unread(r)).events) = {k \in 1 .. Unread(r) : sent[r][k] = "event"}
            /\ Ordered(Fed(r, Unread(r)).events)
        BY <2>1, <2>4, FedEvents
      <4>2. events'[r] = Fed(r, Unread(r)).events /\ Unread(r)' = Unread(r) + 1
        BY <2>3, <2>4, <3>1
      <4>3. Unread(r)' - 1 = Unread(r)
        BY <1>0, <2>4, <4>2
      <4> QED
        BY <2>1, <4>1, <4>2, <4>3 DEF HasEvents
    <3>2. CASE ~pipe[r][1][2]
      BY <2>1, <2>3, <2>4, <3>2 DEF HasEvents
    <3> QED
      BY <3>1, <3>2
  <2> QED
    BY <2>1, <2>4, <2>5 DEF RecorderTrue
<1>7. CASE FinishLog(r)
  <2>1. /\ PiecesTrue(r) /\ HasEvents(r, Unread(r)) /\ pipe[r] = <<>>
        /\ stage'[r] = "logged" /\ sent'[r] = sent[r] /\ events'[r] = TailFed(r).events
    BY <1>7 DEF FinishLog, WriteLog, RecorderTrue, OcelShape
  <2>2. Range(events'[r]) = {k \in 1 .. n : sent[r][k] = "event"} /\ Ordered(events'[r])
    <3>1. CASE carry[r] = 0
      <4>1. Unread(r) = n + 1 /\ n + 1 - 1 = n
        BY <1>0, <2>1, <3>1 DEF Unread
      <4>2. events'[r] = events[r]
        BY <2>1, <3>1 DEF TailFed
      <4> QED
        BY <2>1, <4>1, <4>2 DEF HasEvents
    <3>2. CASE carry[r] # 0
      <4>1. carry[r] = n /\ Unread(r) = n
        BY <2>1, <3>2 DEF PiecesTrue, Unread
      <4>2. n \in 1 .. n /\ HasEvents(r, n)
        BY <1>0, <2>1, <3>2, <4>1
      <4>3. Range(Fed(r, n).events) = {k \in 1 .. n : sent[r][k] = "event"} /\ Ordered(Fed(r, n).events)
        BY <4>2, FedEvents
      <4>4. events'[r] = Fed(r, n).events
        BY <2>1, <3>2, <4>1 DEF TailFed
      <4> QED
        BY <4>3, <4>4
    <3> QED
      BY <3>1, <3>2
  <2>3. n + 1 - 1 = n
    BY <1>0
  <2>4. HasEvents(r, Len(sent[r]) + 1)'
    BY <2>1, <2>2, <2>3 DEF HasEvents
  <2> QED
    BY <2>1, <2>4 DEF RecorderTrue
<1> QED
  BY <1>2, <1>3, <1>4, <1>5, <1>6, <1>7

\* At first nothing is written or read.
LEMMA RecordersInit ==
  ASSUME OcelInit
  PROVE  OcelShape /\ \A r \in Recorder : RecorderTrue(r)
<1>1. OcelShape
  BY DEF OcelInit, OcelShape, Stage
<1>2. ASSUME NEW r \in Recorder
      PROVE  RecorderTrue(r)
  <2>1. /\ stage[r] = "off" /\ sent[r] = <<>> /\ cut[r] = FALSE /\ pipe[r] = <<>> /\ carry[r] = 0
        /\ events[r] = <<>>
    BY DEF OcelInit
  <2>2. Len(sent[r]) = 0 /\ Len(pipe[r]) = 0 /\ DOMAIN events[r] = {}
    BY <2>1
  <2>3. PiecesTrue(r) /\ Unread(r) = 1
    BY <2>1, <2>2 DEF PiecesTrue, Unread
  <2>4. HasEvents(r, 1)
    BY <2>2 DEF HasEvents, Range, Ordered
  <2> QED
    BY <2>1, <2>3, <2>4 DEF RecorderTrue
<1> QED
  BY <1>1, <1>2

\* A recorder that finished has every event of its runtime, in order and once.
LEMMA FinishedHasAll ==
  ASSUME OcelShape, \A r \in Recorder : RecorderTrue(r)
  PROVE  RecordsEveryEvent
<1> SUFFICES ASSUME NEW r \in Recorder, stage[r] = "done"
             PROVE  /\ Range(events[r]) = {i \in DOMAIN sent[r] : sent[r][i] = "event"}
                    /\ Ordered(events[r])
  BY DEF RecordsEveryEvent
<1>1. sent[r] \in Seq(Kind)
  BY DEF OcelShape
<1>2. DOMAIN sent[r] = 1 .. Len(sent[r]) /\ Len(sent[r]) \in Nat
  BY <1>1, Indexed
<1>3. Len(sent[r]) + 1 - 1 = Len(sent[r])
  BY <1>2
<1>4. HasEvents(r, Len(sent[r]) + 1)
  BY DEF RecorderTrue
<1> QED
  BY <1>2, <1>3, <1>4 DEF HasEvents

\* The recorders that have an open log, or are about to write it.
Busy == {"running", "exited", "logged"}

\* The inductive invariant of the logs and receipts, while no session is run by
\* two launchers at a time.
NamesApart ==
  /\ \A q, r \in Recorder : q # r /\ stage[q] \in Busy /\ stage[r] \in Busy => subject[q] # subject[r]
  /\ \A r \in Recorder : session[r] \in {"none", subject[r]}

\* A log that waits for its receipt is the one its launcher wrote.
LogsTrue ==
  /\ DOMAIN log = Session \cup Recorder /\ DOMAIN receipt = Session \cup Recorder
  /\ \A r \in Recorder : stage[r] = "logged" => log[Name(r)] = [by |-> r, events |-> events[r]]
  /\ ReceiptIsAboutTheLog

\* Launchers of different sessions write to different files.
LEMMA NameIsOwn ==
  ASSUME OcelShape, NEW q \in Recorder, NEW r \in Recorder, q # r, subject[q] # subject[r],
         NEW x \in {"none", subject[q]}, NEW y \in {"none", subject[r]}
  PROVE  /\ (IF x = "none" THEN q ELSE x) # (IF y = "none" THEN r ELSE y)
         /\ (IF x = "none" THEN q ELSE x) \in Session \cup Recorder
BY OcelAssumption DEF OcelShape

\* What is fed gives the session no name but its own.
LEMMA FedSession ==
  ASSUME NEW r \in Recorder, session[r] \in {"none", subject[r]}, NEW i
  PROVE  Fed(r, i).session \in {"none", subject[r]} /\ TailFed(r).session \in {"none", subject[r]}
BY DEF Fed, TailFed

\* Every step keeps the names apart, ...
LEMMA ApartKept ==
  ASSUME OcelShape, NamesApart, ~ConcurrentRuns, OcelNext
  PROVE  NamesApart'
<1> PICK r \in Recorder :
      \/ LaunchRun(r) \/ EndLine(r) \/ Write(r) \/ FinishLog(r) \/ FinishReceipt(r) \/ RunKilled(r)
      \/ \E kind \in Kind : BeginLine(r, kind)
      \/ \E truncated \in BOOLEAN : RunExits(r, truncated)
  BY DEF OcelNext
<1>1. subject' = subject /\ \A q \in Recorder : q # r => stage'[q] = stage[q] /\ session'[q] = session[q]
  BY DEF OcelShape, LaunchRun, EndLine, Write, FinishLog, WriteLog, FinishReceipt, RunKilled,
         BeginLine, RunExits
<1>2. session'[r] \in {"none", subject[r]}
  <2>1. session[r] \in {"none", subject[r]}
    BY DEF NamesApart
  <2>2. \/ session'[r] = session[r] \/ session'[r] = TailFed(r).session
        \/ \E i \in {Head(pipe[r])[1]} : session'[r] = Fed(r, i).session
    <3>1. CASE Write(r)
      BY <3>1 DEF Write, OcelShape
    <3>2. CASE FinishLog(r)
      BY <3>2 DEF FinishLog, WriteLog, OcelShape
    <3>3. CASE ~Write(r) /\ ~FinishLog(r)
      BY <3>3 DEF LaunchRun, EndLine, FinishReceipt, RunKilled, BeginLine, RunExits
    <3> QED
      BY <3>1, <3>2, <3>3
  <2> QED
    BY <2>1, <2>2, FedSession
<1>3. stage'[r] \in Busy =>
        \/ stage[r] \in Busy
        \/ \A q \in Recorder : subject[q] = subject[r] => stage[q] \notin Busy
  <2>1. CASE LaunchRun(r)
    BY <2>1 DEF LaunchRun, Busy
  <2>2. CASE ~LaunchRun(r)
    BY <2>2 DEF OcelShape, EndLine, Write, FinishLog, WriteLog, FinishReceipt, RunKilled,
                BeginLine, RunExits, Busy
  <2> QED
    BY <2>1, <2>2
<1> QED
  BY <1>1, <1>2, <1>3 DEF NamesApart

\* ... and what holds of the logs.
LEMMA LogsKept ==
  ASSUME OcelShape, NamesApart, LogsTrue, OcelNext
  PROVE  LogsTrue'
<1> PICK r \in Recorder :
      \/ LaunchRun(r) \/ EndLine(r) \/ Write(r) \/ FinishLog(r) \/ FinishReceipt(r) \/ RunKilled(r)
      \/ \E kind \in Kind : BeginLine(r, kind)
      \/ \E truncated \in BOOLEAN : RunExits(r, truncated)
  BY DEF OcelNext
<1>1. CASE FinishLog(r)
  <2> DEFINE name == IF TailFed(r).session = "none" THEN r ELSE TailFed(r).session
  <2>1. /\ session' = [session EXCEPT ![r] = TailFed(r).session]
        /\ events' = [events EXCEPT ![r] = TailFed(r).events]
        /\ log' = [log EXCEPT ![name] = [by |-> r, events |-> TailFed(r).events]]
        /\ torn' = torn \cup {name} /\ stage' = [stage EXCEPT ![r] = "logged"]
        /\ receipt' = receipt /\ stage[r] = "exited"
    BY <1>1 DEF FinishLog, WriteLog
  <2>2. TailFed(r).session \in {"none", subject[r]}
    BY FedSession DEF NamesApart
  <2>3. name \in Session \cup Recorder
    BY <2>2 DEF OcelShape
  <2>4. \A q \in Recorder : q # r /\ stage[q] = "logged" => Name(q) # name /\ Name(q) \in Session \cup Recorder
    <3> SUFFICES ASSUME NEW q \in Recorder, q # r, stage[q] = "logged"
                 PROVE  Name(q) # name /\ Name(q) \in Session \cup Recorder
      OBVIOUS
    <3>1. subject[q] # subject[r] /\ session[q] \in {"none", subject[q]}
      BY <2>1 DEF NamesApart, Busy
    <3> QED
      BY <2>2, <3>1, NameIsOwn DEF Name
  <2>5. Name(r)' = name /\ \A q \in Recorder : q # r => Name(q)' = Name(q)
    BY <2>1 DEF Name, OcelShape
  <2> HIDE DEF name
  <2>6. \A q \in Recorder : stage'[q] = "logged" => log'[Name(q)'] = [by |-> q, events |-> events'[q]]
    <3> SUFFICES ASSUME NEW q \in Recorder, stage'[q] = "logged"
                 PROVE  log'[Name(q)'] = [by |-> q, events |-> events'[q]]
      OBVIOUS
    <3>1. CASE q = r
      <4>1. events'[r] = TailFed(r).events /\ log'[name] = [by |-> r, events |-> TailFed(r).events]
        BY <2>1, <2>3 DEF LogsTrue, OcelShape
      <4> QED
        BY <2>5, <3>1, <4>1
    <3>2. CASE q # r
      <4>1. stage[q] = "logged" /\ events'[q] = events[q] /\ Name(q)' = Name(q)
        BY <2>1, <2>5, <3>2 DEF OcelShape
      <4>2. log'[Name(q)] = log[Name(q)]
        BY <2>1, <2>4, <3>2, <4>1 DEF LogsTrue
      <4> QED
        BY <4>1, <4>2 DEF LogsTrue
    <3> QED
      BY <3>1, <3>2
  <2>7. \A s \in Session \cup Recorder : s # name => log'[s] = log[s]
    BY <2>1 DEF LogsTrue
  <2>8. ReceiptIsAboutTheLog'
    BY <2>1, <2>7 DEF LogsTrue, ReceiptIsAboutTheLog
  <2>9. DOMAIN log' = Session \cup Recorder /\ DOMAIN receipt' = Session \cup Recorder
    BY <2>1 DEF LogsTrue
  <2> QED
    BY <2>6, <2>8, <2>9 DEF LogsTrue
<1>2. CASE FinishReceipt(r)
  <2>1. /\ stage[r] = "logged" /\ stage' = [stage EXCEPT ![r] = "done"]
        /\ receipt' = [receipt EXCEPT ![Name(r)] =
             [log |-> [by |-> r, events |-> events[r]],
              standing |-> IF events[r] # <<>> THEN "alive" ELSE "blocked"]]
        /\ torn' = torn \ {Name(r)} /\ session' = session /\ events' = events /\ log' = log
    BY <1>2 DEF FinishReceipt
  <2>2. Name(r) \in Session \cup Recorder
    BY DEF Name, NamesApart, OcelShape
  <2>3. \A q \in Recorder : Name(q)' = Name(q)
    BY <2>1 DEF Name
  <2>4. \A q \in Recorder : stage'[q] = "logged" => stage[q] = "logged"
    BY <2>1 DEF OcelShape
  <2>5. log[Name(r)] = [by |-> r, events |-> events[r]]
    BY <2>1 DEF LogsTrue
  <2>6. ReceiptIsAboutTheLog'
    <3> SUFFICES ASSUME NEW s \in Session \cup Recorder, receipt'[s] # NoReceipt, s \notin torn'
                 PROVE  /\ receipt'[s].log = log'[s]
                        /\ receipt'[s].standing = (IF log'[s].events = <<>> THEN "blocked" ELSE "alive")
      BY DEF ReceiptIsAboutTheLog
    <3>1. CASE s = Name(r)
      <4>1. receipt'[s] = [log |-> [by |-> r, events |-> events[r]],
                           standing |-> IF events[r] # <<>> THEN "alive" ELSE "blocked"]
        BY <2>1, <2>2, <3>1 DEF LogsTrue
      <4> QED
        BY <2>1, <2>5, <3>1, <4>1
    <3>2. CASE s # Name(r)
      <4>1. receipt'[s] = receipt[s] /\ s \notin torn
        BY <2>1, <3>2 DEF LogsTrue
      <4> QED
        BY <2>1, <4>1 DEF LogsTrue, ReceiptIsAboutTheLog
    <3> QED
      BY <3>1, <3>2
  <2>7. DOMAIN log' = Session \cup Recorder /\ DOMAIN receipt' = Session \cup Recorder
    BY <2>1 DEF LogsTrue
  <2> QED
    BY <2>1, <2>3, <2>4, <2>6, <2>7 DEF LogsTrue
<1>3. CASE ~FinishLog(r) /\ ~FinishReceipt(r)
  <2>1. UNCHANGED <<log, receipt, torn>>
    BY <1>3 DEF LaunchRun, EndLine, Write, RunKilled, BeginLine, RunExits
  <2>2. \A q \in Recorder : stage'[q] = "logged" =>
          stage[q] = "logged" /\ session'[q] = session[q] /\ events'[q] = events[q]
    BY <1>3 DEF OcelShape, LaunchRun, EndLine, Write, RunKilled, BeginLine, RunExits
  <2>3. \A q \in Recorder : stage'[q] = "logged" => Name(q)' = Name(q)
    BY <2>2 DEF Name
  <2>4. ReceiptIsAboutTheLog'
    BY <2>1 DEF ReceiptIsAboutTheLog, LogsTrue
  <2> QED
    BY <2>1, <2>2, <2>3, <2>4 DEF LogsTrue
<1> QED
  BY <1>1, <1>2, <1>3

\* It holds at first.
LEMMA LogsInit ==
  ASSUME OcelInit
  PROVE  NamesApart /\ LogsTrue
<1>1. NamesApart
  BY DEF OcelInit, NamesApart, Busy
<1>2. LogsTrue
  BY DEF OcelInit, LogsTrue, ReceiptIsAboutTheLog
<1> QED
  BY <1>1, <1>2

\* The whole of what the recorder keeps while it runs.
OcelInv == OcelShape /\ \A r \in Recorder : RecorderTrue(r)

\* It holds on while nothing happens.
LEMMA OcelUnchanged ==
  ASSUME OcelInv, UNCHANGED ocelVars
  PROVE  OcelInv'
<1>1. OcelShape'
  BY DEF OcelInv, OcelShape, ocelVars, recorders
<1>2. ASSUME NEW r \in Recorder
      PROVE  RecorderTrue(r)'
  <2>1. /\ stage'[r] = stage[r] /\ sent'[r] = sent[r] /\ cut'[r] = cut[r]
        /\ pipe'[r] = pipe[r] /\ carry'[r] = carry[r] /\ events'[r] = events[r]
    BY DEF ocelVars, recorders
  <2> QED
    BY <2>1, OthersStay DEF OcelInv
<1> QED
  BY <1>1, <1>2 DEF OcelInv

\* However the runtime's output is cut into chunks, a recorder that finished has
\* every event of it, in order and once (ocel-tap.ts: write, feedLine, finish).
THEOREM EveryEventIsRecorded == OcelSpec => []RecordsEveryEvent
<1>1. OcelInit => OcelInv
  BY RecordersInit DEF OcelInv
<1>2. OcelInv /\ [OcelNext]_ocelVars => OcelInv'
  BY ShapeKept, RecordersKept, OcelUnchanged DEF OcelInv
<1>3. OcelInv => RecordsEveryEvent
  BY FinishedHasAll DEF OcelInv
<1> QED
  BY <1>1, <1>2, <1>3, PTL DEF OcelSpec

\* With one launcher at a time for a session, a receipt is moreover about the
\* log that lies beside it (launchRecorded).
THEOREM RecordsAreTrue ==
  ASSUME ~ConcurrentRuns
  PROVE  OcelSpec => []RecordIsTrue
<1> DEFINE Inv == OcelInv /\ NamesApart /\ LogsTrue
<1>1. OcelInit => Inv
  BY RecordersInit, LogsInit DEF OcelInv
<1>2. Inv /\ [OcelNext]_ocelVars => Inv'
  <2> SUFFICES ASSUME Inv, [OcelNext]_ocelVars
               PROVE  Inv'
    OBVIOUS
  <2>1. CASE OcelNext
    BY <2>1, ShapeKept, RecordersKept, ApartKept, LogsKept DEF OcelInv
  <2>2. CASE UNCHANGED ocelVars
    <3>1. OcelInv'
      BY <2>2, OcelUnchanged
    <3>2. NamesApart' /\ LogsTrue'
      BY <2>2 DEF ocelVars, recorders, NamesApart, LogsTrue, ReceiptIsAboutTheLog, Name
    <3> QED
      BY <3>1, <3>2
  <2> QED
    BY <2>1, <2>2
<1>3. Inv => RecordIsTrue
  BY FinishedHasAll DEF OcelInv, LogsTrue, RecordIsTrue
<1> QED
  BY <1>1, <1>2, <1>3, PTL DEF OcelSpec

-----------------------------------------------------------------------------
(* The vendored runtime (SyncRuntime). *)

\* The values of the variables.
RuntimeLock    == [app : Nat, platform : Platforms \cup {"none"}, sha : Nat]
RuntimeBundle  == [app : Nat, sha : Nat, patched : BOOLEAN, tui : Nat, extraction : RuntimeLock]
Origin  == [app : Nat, lock : RuntimeLock, sha : Nat]
Steps   == {"idle", "clear", "resolve", "copy", "patch", "tui", "extraction", "package", "lock",
            "remove", "rename", "validate", "prepack", "record"}
Jobs    == [step : Steps, kind : {"none", "sync", "build", "pack"},
            mode : {"none", "latest", "locked", "app"}, source : Origin]

\* The types of its variables.
SyncShape ==
  /\ lock \in {NoLock} \cup Releases /\ nextVendor \in RuntimeBundle /\ job \in Jobs
  /\ tuiSource \in Nat \ {0} /\ tuiBuilt \in Nat

\* What was resolved is an App of its own, or the very bundle a lock names, and
\* for the latest runtime that lock is not older than the one there is.
Working == {"copy", "patch", "tui", "extraction", "package", "lock"}

SourceTrue ==
  /\ job.mode = "app" => job.source.lock = NoLock
  /\ job.mode # "app" => /\ job.source.lock \in Releases
                         /\ job.source.lock.app = job.source.app
                         /\ job.source.lock.sha = job.source.sha
  /\ job.mode = "latest" /\ job.step \in Working /\ job.source.lock.platform = lock.platform =>
       job.source.lock.app >= lock.app

\* The bundle in .vendor-next/ is what was resolved, with all that was done to it
\* so far; the lock is written before vendor/ is replaced.
Making == {"patch", "tui", "extraction", "package", "lock", "remove", "rename"}

NextTrue ==
  /\ job.step \in {"copy"} \cup Making => SourceTrue /\ tuiBuilt # 0
  /\ job.step \in Making => nextVendor.app = job.source.app /\ nextVendor.sha = job.source.sha
  /\ job.step \in Making \ {"patch"} => nextVendor.patched
  /\ job.step \in Making \ {"patch", "tui"} => nextVendor.tui # 0
  /\ job.step \in Making \ {"patch", "tui", "extraction"} => Whole(nextVendor)
  /\ job.step \in {"clear", "resolve"} => tuiBuilt # 0

\* A report is about the last sync: until the runtime is in place a sync has
\* replaced and reported nothing.
ReportTrue ==
  /\ report # "none" => synced = (report = "release_validation")
  /\ job.step \in {"resolve", "copy"} \cup Making => report = "none" /\ synced = FALSE
  /\ job.step = "validate" => report = "none" /\ synced = TRUE

\* What is packed passed the checks.
PackTrue ==
  /\ job.step = "record" => TreeValid(vendor, tuiBuilt)
  /\ released # NoRelease =>
       /\ Whole(released.vendor)
       /\ released.vendor.sha = released.lock.sha /\ released.vendor.app = released.lock.app
       /\ released.app = released.lock.app /\ released.vendor.tui = released.tui

\* What lies in vendor/ has everything done to it.
VendorTrue == vendor # NoFile => Whole(vendor)

\* The inductive invariant.
SyncInv == SyncShape /\ NextTrue /\ ReportTrue /\ PackTrue /\ VendorTrue

\* The values that stand for nothing are of the types.
LEMMA NoLockIsALock == NoLock \in RuntimeLock /\ Releases \subseteq RuntimeLock /\ NoFile \in RuntimeBundle /\ Idle \in Jobs
<1>1. NoLock \in RuntimeLock
  BY DEF NoLock, RuntimeLock
<1>2. Releases \subseteq RuntimeLock
  BY ReleasesAssumption DEF RuntimeLock, Release
<1> QED
  BY <1>1, <1>2 DEF NoFile, RuntimeBundle, Idle, Jobs, NoSource, Origin, Steps

\* It holds before the first sync.
LEMMA InitSyncInv == SyncInit => SyncInv
<1> SUFFICES ASSUME SyncInit PROVE SyncInv
  OBVIOUS
<1> USE DEF SyncInit
<1>1. SyncShape
  BY NoLockIsALock DEF SyncShape
<1>2. NextTrue /\ ReportTrue /\ PackTrue /\ VendorTrue
  BY DEF NextTrue, ReportTrue, PackTrue, VendorTrue, Making, Idle
<1> QED
  BY <1>1, <1>2 DEF SyncInv

\* A script that goes on.
LEMMA GoesOn ==
  ASSUME job \in Jobs, NEW step \in Steps, GoOn(step)
  PROVE  /\ job' \in Jobs /\ job'.step = step
         /\ job'.kind = job.kind /\ job'.mode = job.mode /\ job'.source = job.source
BY DEF GoOn, Jobs

\* A sync that fails leaves no work behind, and reports it.
LEMMA FailKeeps ==
  ASSUME SyncInv, NEW phase, phase \notin {"none", "release_validation"},
         job.step \in {"resolve", "copy"} \cup Making, Fail(phase), UNCHANGED vendor
  PROVE  SyncInv'
<1>1. job' = Idle /\ job'.step = "idle" /\ nextVendor' = NoFile
  BY DEF Fail, Idle
<1>2. SyncShape'
  BY <1>1, NoLockIsALock DEF SyncInv, SyncShape, Fail
<1>3. NextTrue'
  BY <1>1 DEF NextTrue, Making
<1>4. ReportTrue'
  BY <1>1 DEF SyncInv, ReportTrue, Making, Fail
<1>5. PackTrue' /\ VendorTrue'
  BY <1>1 DEF SyncInv, PackTrue, VendorTrue, Fail
<1> QED
  BY <1>2, <1>3, <1>4, <1>5 DEF SyncInv

\* What is resolved is a source, if only for the latest runtime a newer one.
LEMMA ResolvedKeeps ==
  ASSUME SyncInv, job.step = "resolve", NEW source \in Origin, Resolved(source),
         job.mode = "app" => source.lock = NoLock,
         job.mode # "app" => source.lock \in Releases /\ source.lock.app = source.app
                                                     /\ source.lock.sha = source.sha,
         job.mode = "latest" /\ source.lock.platform = lock.platform => source.lock.app >= lock.app
  PROVE  SyncInv'
<1>1. /\ job' \in Jobs /\ job'.step = "copy" /\ job'.source = source
      /\ job'.mode = job.mode /\ job'.kind = job.kind
  BY DEF Resolved, SyncInv, SyncShape, Jobs, Steps
<1>2. UNCHANGED <<lock, package, vendor, nextVendor, tuiSource, tuiBuilt, report, released, synced>>
  BY DEF Resolved
<1>3. SyncShape'
  BY <1>1, <1>2 DEF SyncInv, SyncShape
<1>4. NextTrue'
  <2>1. SourceTrue'
    BY <1>1, <1>2 DEF SourceTrue, Working
  <2> QED
    BY <1>1, <1>2, <2>1 DEF SyncInv, NextTrue, Making
<1>5. ReportTrue' /\ PackTrue' /\ VendorTrue'
  BY <1>1, <1>2 DEF SyncInv, ReportTrue, PackTrue, VendorTrue, Making
<1> QED
  BY <1>3, <1>4, <1>5 DEF SyncInv

\* Looking for a runtime keeps it, ...
LEMMA ResolveKeeps == ASSUME SyncInv, Resolve PROVE SyncInv'
<1>0. job.step = "resolve" /\ lock \in {NoLock} \cup Releases
  BY DEF Resolve, Doing, SyncInv, SyncShape
<1>1. CASE Undiscovered
  BY <1>0, <1>1, FailKeeps DEF Undiscovered
<1>2. ASSUME NEW r \in Releases, job.mode = "app", ResolveApp(r) PROVE SyncInv'
  <2> DEFINE s == [app |-> r.app, lock |-> NoLock, sha |-> r.sha]
  <2>1. s \in Origin
    BY NoLockIsALock, ReleasesAssumption DEF Origin, Release
  <2> QED
    BY <1>0, <1>2, <2>1, ResolvedKeeps DEF ResolveApp
<1>3. ASSUME NEW l \in {NoLock} \cup Releases, NEW r \in Releases, Download(l, r.sha),
             job.mode # "app",
             job.mode = "latest" /\ l.platform = lock.platform => l.app >= lock.app
      PROVE  SyncInv'
  <2>1. CASE l # NoLock /\ r.sha = l.sha
    <3> DEFINE s == [app |-> l.app, lock |-> l, sha |-> r.sha]
    <3>1. s \in Origin /\ l \in Releases
      BY <2>1, NoLockIsALock, ReleasesAssumption DEF Origin, Release
    <3>2. Resolved(s)
      BY <1>3, <2>1 DEF Download
    <3> QED
      BY <1>0, <1>3, <2>1, <3>1, <3>2, ResolvedKeeps
  <2>2. CASE ~(l # NoLock /\ r.sha = l.sha)
    BY <1>0, <1>1, <1>3, <2>2 DEF Download
  <2> QED
    BY <2>1, <2>2
<1>4. ASSUME NEW r \in Releases, job.mode = "locked", Download(lock, r.sha) PROVE SyncInv'
  BY <1>0, <1>3, <1>4
<1>5. ASSUME NEW r \in Releases, job.mode = "latest", NEW candidate \in Releases,
             Download(SelectLock(candidate, lock), r.sha)
      PROVE  SyncInv'
  <2> DEFINE l == SelectLock(candidate, lock)
  <2>1. candidate \in RuntimeLock /\ lock \in RuntimeLock
    BY <1>0, <1>5, NoLockIsALock
  <2>2. l \in {NoLock} \cup Releases
    BY <1>0, <1>5 DEF SelectLock
  <2>3. l.platform = lock.platform => l.app >= lock.app
    BY <2>1 DEF SelectLock, RuntimeLock
  <2> HIDE DEF l
  <2> QED
    BY <1>3, <1>5, <2>2, <2>3 DEF l
<1>6. ASSUME NEW platform \in Platforms, NEW service \in Offers(platform),
             NEW static \in Offers(platform), Candidate(service, static) # NoLock
      PROVE  Candidate(service, static) \in Releases
  BY <1>6 DEF Offers, Candidate
<1> QED
  BY <1>1, <1>2, <1>4, <1>5, <1>6 DEF Resolve

\* The steps from the copy to the lock.
LEMMA MakingKeeps ==
  ASSUME SyncInv, Copy \/ Patch \/ InstallTui \/ WriteExtraction \/ WritePackage \/ WriteLock
  PROVE  SyncInv'
<1>0. job \in Jobs /\ nextVendor \in RuntimeBundle /\ lock \in {NoLock} \cup Releases
  BY DEF SyncInv, SyncShape
<1>1. CASE Fail("runtime_sync") /\ UNCHANGED vendor /\ (Copy \/ WriteExtraction)
  BY <1>1, FailKeeps DEF Copy, WriteExtraction, Doing, Making
<1>2. CASE Fail("runtime_patch") /\ UNCHANGED vendor /\ Patch
  BY <1>2, FailKeeps DEF Patch, Doing, Making
<1>3. ASSUME NEW step \in Making, GoOn(step), job.step \in {"copy"} \cup Making,
             job.step \in Working, nextVendor' \in RuntimeBundle, lock' \in {NoLock} \cup Releases,
             UNCHANGED <<vendor, tuiSource, tuiBuilt, report, released, synced>>,
             step \in Working => UNCHANGED lock,
             nextVendor'.app = job.source.app, nextVendor'.sha = job.source.sha,
             step # "patch" => nextVendor'.patched,
             step \notin {"patch", "tui"} => nextVendor'.tui # 0,
             step \notin {"patch", "tui", "extraction"} => Whole(nextVendor)'
      PROVE  SyncInv'
  <2>1. /\ job' \in Jobs /\ job'.step = step
        /\ job'.kind = job.kind /\ job'.mode = job.mode /\ job'.source = job.source
    BY <1>0, <1>3, GoesOn DEF Making, Steps
  <2>2. SyncShape'
    BY <1>3, <2>1 DEF SyncInv, SyncShape
  <2>3. SourceTrue'
    BY <1>3, <2>1 DEF SyncInv, NextTrue, SourceTrue, Working
  <2>4. NextTrue'
    BY <1>3, <2>1, <2>3 DEF SyncInv, NextTrue, Making
  <2>5. ReportTrue'
    BY <1>3, <2>1 DEF SyncInv, ReportTrue, Making
  <2>6. PackTrue' /\ VendorTrue'
    BY <1>3, <2>1 DEF SyncInv, PackTrue, VendorTrue, Making
  <2> QED
    BY <2>2, <2>4, <2>5, <2>6 DEF SyncInv
<1> USE DEF Doing, Making, Working
<1>4. CASE Copy
  <2>1. CASE /\ nextVendor' = [NoFile EXCEPT !.app = job.source.app, !.sha = job.source.sha]
             /\ GoOn("patch")
    <3>1. nextVendor' \in RuntimeBundle /\ nextVendor'.app = job.source.app
                                 /\ nextVendor'.sha = job.source.sha
      BY <1>0, <2>1, NoLockIsALock DEF RuntimeBundle, NoFile, Jobs, Origin
    <3> QED
      BY <1>0, <1>3, <1>4, <2>1, <3>1 DEF Copy, Fail, Idle, GoOn, Jobs
  <2> QED
    BY <1>1, <1>4, <2>1 DEF Copy
<1>5. CASE Patch
  <2>1. CASE nextVendor' = [nextVendor EXCEPT !.patched = TRUE] /\ GoOn("tui")
    <3>1. /\ nextVendor' \in RuntimeBundle /\ nextVendor'.app = nextVendor.app
          /\ nextVendor'.sha = nextVendor.sha /\ nextVendor'.patched
      BY <1>0, <2>1 DEF RuntimeBundle
    <3> QED
      BY <1>0, <1>3, <1>5, <2>1, <3>1 DEF Patch, Fail, Idle, GoOn, Jobs, SyncInv, NextTrue
  <2> QED
    BY <1>2, <1>5, <2>1 DEF Patch
<1>6. CASE InstallTui
  <2>1. /\ nextVendor' \in RuntimeBundle /\ nextVendor'.app = nextVendor.app
        /\ nextVendor'.sha = nextVendor.sha /\ nextVendor'.patched = nextVendor.patched
        /\ nextVendor'.tui = tuiBuilt
    BY <1>0, <1>6 DEF RuntimeBundle, InstallTui, SyncInv, SyncShape
  <2> QED
    BY <1>0, <1>3, <1>6, <2>1 DEF InstallTui, SyncInv, NextTrue
<1>7. CASE WriteExtraction
  <2> DEFINE e == [job.source.lock EXCEPT !.app = job.source.app]
  <2>1. CASE nextVendor' = [nextVendor EXCEPT !.extraction = e]
             /\ GoOn(IF job.mode = "app" THEN "remove" ELSE "package")
    <3>1. e \in RuntimeLock /\ e.app = job.source.app /\ e.sha = job.source.lock.sha
      BY <1>0 DEF Jobs, Origin, RuntimeLock
    <3>2. SourceTrue /\ job.source.lock.sha \in {0, job.source.sha}
      BY <1>7 DEF WriteExtraction, SyncInv, NextTrue, SourceTrue, NoLock
    <3> HIDE DEF e
    <3>3. /\ nextVendor' \in RuntimeBundle /\ nextVendor'.app = nextVendor.app
          /\ nextVendor'.sha = nextVendor.sha /\ nextVendor'.patched = nextVendor.patched
          /\ nextVendor'.tui = nextVendor.tui /\ nextVendor'.extraction = e
      BY <1>0, <2>1, <3>1 DEF RuntimeBundle
    <3>4. /\ nextVendor.app = job.source.app /\ nextVendor.sha = job.source.sha
          /\ nextVendor.patched /\ nextVendor.tui # 0
      BY <1>7 DEF WriteExtraction, SyncInv, NextTrue
    <3>5. Whole(nextVendor)'
      BY <3>1, <3>2, <3>3, <3>4 DEF Whole
    <3> QED
      BY <1>0, <1>3, <1>7, <2>1, <3>3, <3>4, <3>5 DEF WriteExtraction, Fail, Idle, GoOn, Jobs
  <2> QED
    BY <1>1, <1>7, <2>1 DEF WriteExtraction
<1>8. CASE WritePackage
  BY <1>0, <1>3, <1>8 DEF WritePackage, SyncInv, NextTrue
<1>9. CASE WriteLock
  <2>1. lock' \in {NoLock} \cup Releases
    BY <1>9 DEF WriteLock, SyncInv, NextTrue, SourceTrue
  <2> QED
    BY <1>0, <1>3, <1>9, <2>1 DEF WriteLock, SyncInv, NextTrue
<1> QED
  BY <1>4, <1>5, <1>6, <1>7, <1>8, <1>9

\* A step that leaves no script, or one that makes no bundle.
LEMMA RestKeeps ==
  ASSUME SyncInv, job' \in Jobs, job'.step \in {"idle", "prepack", "record"},
         job'.step = "record" => TreeValid(vendor, tuiBuilt)',
         lock' \in {NoLock} \cup Releases, nextVendor' \in RuntimeBundle,
         tuiSource' \in Nat \ {0}, tuiBuilt' \in Nat, VendorTrue',
         report' # "none" => synced' = (report' = "release_validation"),
         UNCHANGED released \/ released' = NoRelease
  PROVE  SyncInv'
BY DEF SyncInv, SyncShape, NextTrue, Making, ReportTrue, PackTrue

\* Every step of a script, and its end or failure, keeps it.
LEMMA SyncInvPreserved == SyncInv /\ [SyncNext]_syncVars => SyncInv'
<1> SUFFICES ASSUME SyncInv, [SyncNext]_syncVars PROVE SyncInv'
  OBVIOUS
<1>0. SyncShape /\ job \in Jobs /\ Idle \in Jobs /\ NoFile \in RuntimeBundle /\ VendorTrue
  BY NoLockIsALock DEF SyncInv, SyncShape
<1>1. ASSUME NEW kind \in {"sync", "build"}, NEW mode \in {"latest", "locked", "app"},
             StartSync(kind, mode)
      PROVE  SyncInv'
  <2>1. job' \in Jobs /\ job'.step = "clear"
    BY <1>0, <1>1 DEF StartSync, Idle, Jobs, Steps
  <2>2. SyncShape' /\ tuiBuilt' # 0
    BY <1>0, <1>1, <2>1 DEF StartSync, SyncShape
  <2>3. NextTrue' /\ ReportTrue' /\ PackTrue' /\ VendorTrue'
    BY <1>1, <2>1, <2>2
       DEF StartSync, SyncInv, NextTrue, ReportTrue, PackTrue, VendorTrue, Making
  <2> QED
    BY <2>2, <2>3 DEF SyncInv
<1>2. CASE Clear
  <2>1. job' \in Jobs /\ job'.step = "resolve"
    BY <1>0, <1>2, GoesOn DEF Clear, Steps
  <2>2. SyncShape'
    BY <1>0, <1>2, <2>1 DEF Clear, SyncShape
  <2>3. NextTrue' /\ ReportTrue' /\ PackTrue' /\ VendorTrue'
    BY <1>2, <2>1
       DEF Clear, Doing, SyncInv, NextTrue, ReportTrue, PackTrue, VendorTrue, Making
  <2> QED
    BY <2>2, <2>3 DEF SyncInv
<1>3. CASE Resolve
  BY <1>3, ResolveKeeps
<1>4. CASE Copy \/ Patch \/ InstallTui \/ WriteExtraction \/ WritePackage \/ WriteLock
  BY <1>4, MakingKeeps
<1>5. CASE RemoveVendor
  <2>1. /\ job' \in Jobs /\ job'.step = "rename"
        /\ job'.kind = job.kind /\ job'.mode = job.mode /\ job'.source = job.source
    BY <1>0, <1>5, GoesOn DEF RemoveVendor, Steps
  <2>2. SyncShape' /\ VendorTrue'
    BY <1>0, <1>5, <2>1 DEF RemoveVendor, SyncShape, VendorTrue
  <2>3. NextTrue' /\ ReportTrue' /\ PackTrue'
    BY <1>5, <2>1
       DEF RemoveVendor, Doing, SyncInv, NextTrue, SourceTrue, ReportTrue, PackTrue, Making, Working
  <2> QED
    BY <2>2, <2>3 DEF SyncInv
<1>6. CASE Rename
  <2>1. CASE Fail("runtime_sync") /\ UNCHANGED vendor
    BY <1>6, <2>1, FailKeeps DEF Rename, Doing, Making
  <2>2. CASE /\ vendor' = nextVendor /\ nextVendor' = NoFile /\ synced' = TRUE
             /\ job' = IF job.kind = "build" THEN [job EXCEPT !.step = "validate"] ELSE Idle
             /\ UNCHANGED <<lock, package, tuiSource, tuiBuilt, report, released>>
    <3>1. job' \in Jobs /\ job'.step \in {"validate", "idle"}
      BY <1>0, <2>2 DEF Jobs, Idle, Steps
    <3>2. report = "none" /\ Whole(nextVendor)
      BY <1>6 DEF Rename, Doing, SyncInv, NextTrue, ReportTrue, Making
    <3>3. SyncShape' /\ VendorTrue'
      BY <1>0, <2>2, <3>1, <3>2 DEF SyncShape, VendorTrue
    <3>4. NextTrue' /\ ReportTrue' /\ PackTrue'
      BY <2>2, <3>1, <3>2 DEF SyncInv, NextTrue, ReportTrue, PackTrue, Making
    <3> QED
      BY <3>3, <3>4 DEF SyncInv
  <2> QED
    BY <1>6, <2>1, <2>2 DEF Rename
<1>7. CASE Validate
  <2>1. job' = Idle /\ job'.step = "idle" /\ synced = TRUE
    BY <1>7 DEF Validate, Doing, SyncInv, ReportTrue, Idle
  <2>2. report' # "none" => report' = "release_validation"
    BY <1>7 DEF Validate, Doing, SyncInv, ReportTrue
  <2> QED
    BY <1>0, <1>7, <2>1, <2>2, RestKeeps DEF Validate, SyncShape, VendorTrue
<1>8. CASE StartPack
  <2>1. job' \in Jobs /\ job'.step = "prepack"
    BY <1>0, <1>8 DEF StartPack, Idle, Jobs, Steps
  <2> QED
    BY <1>0, <1>8, <2>1, RestKeeps DEF StartPack, SyncShape, VendorTrue
<1>9. CASE Prepack
  <2>1. job' \in Jobs /\ job'.step \in {"record", "idle"}
    BY <1>0, <1>9, GoesOn DEF Prepack, Idle, Steps
  <2>2. job'.step = "record" => TreeValid(vendor, tuiBuilt)'
    BY <1>9, <2>1 DEF Prepack, Idle, TreeValid, TreeOfTheSameApp
  <2>3. report # "none" => synced = (report = "release_validation")
    BY DEF SyncInv, ReportTrue
  <2> QED
    BY <1>0, <1>9, <2>1, <2>2, <2>3, RestKeeps DEF Prepack, SyncShape, VendorTrue
<1>10. CASE Record
  <2>1. job' = Idle /\ job'.step = "idle"
    BY <1>10 DEF Record, Idle
  <2>2. CASE UNCHANGED released
    BY <1>0, <1>10, <2>1, <2>2, RestKeeps DEF Record, SyncShape, VendorTrue, SyncInv, ReportTrue
  <2>3. CASE released' = [app |-> package, lock |-> lock, vendor |-> vendor, tui |-> tuiBuilt]
    <3>1. TreeValid(vendor, tuiBuilt) /\ Whole(vendor)
      BY <1>10 DEF Record, Doing, SyncInv, PackTrue, VendorTrue, TreeValid, TreeOfTheSameApp
    <3>2. lock.sha # 0
      BY <1>0, <3>1, ReleasesAssumption DEF SyncShape, TreeValid, TreeOfTheSameApp, Release
    <3>3. PackTrue'
      BY <2>1, <2>3, <3>1, <3>2 DEF PackTrue, TreeValid, TreeOfTheSameApp, Whole
    <3>4. SyncShape' /\ NextTrue' /\ ReportTrue' /\ VendorTrue'
      BY <1>0, <1>10, <2>1
         DEF Record, SyncInv, SyncShape, NextTrue, ReportTrue, VendorTrue, Making
    <3> QED
      BY <3>3, <3>4 DEF SyncInv
  <2> QED
    BY <1>10, <2>2, <2>3 DEF Record
<1>11. ASSUME EditTui \/ Pull \/ Killed PROVE SyncInv'
  <2>1. job' \in Jobs /\ job'.step = "idle"
    BY <1>0, <1>11 DEF EditTui, Pull, Killed, Doing, Idle
  <2>2. lock' \in {NoLock} \cup Releases /\ tuiSource' \in Nat \ {0}
    BY <1>0, <1>11 DEF EditTui, Pull, Killed, SyncShape
  <2>3. UNCHANGED <<vendor, nextVendor, tuiBuilt, report, released, synced>>
    BY <1>11 DEF EditTui, Pull, Killed
  <2> QED
    BY <1>0, <2>1, <2>2, <2>3, RestKeeps DEF SyncShape, VendorTrue, SyncInv, ReportTrue
<1>12. CASE UNCHANGED syncVars
  BY <1>12 DEF syncVars, SyncInv, SyncShape, NextTrue, SourceTrue, ReportTrue, PackTrue, VendorTrue,
     TreeValid, TreeOfTheSameApp
<1> QED
  BY <1>1, <1>2, <1>3, <1>4, <1>5, <1>6, <1>7, <1>8, <1>9, <1>10, <1>11, <1>12 DEF SyncNext

\* Whatever was synced, killed, pulled, edited or published again in between,
\* what pack-release.ts packs is the bundle its lock names, finished, of the App
\* and with the TUI it says, vendor/ is a finished bundle or none, a report is
\* about the last sync, and --latest never takes the lock back (sync-runtime.ts).
THEOREM OneRuntimeIsShipped == SyncSpec => OneRuntimeShips
<1>1. SyncInv /\ SyncInv' /\ [SyncNext]_syncVars =>
        [/\ released' # NoRelease =>
              /\ Whole(released.vendor)'
              /\ released'.vendor.sha = released'.lock.sha
              /\ released'.vendor.app = released'.lock.app
              /\ released'.app = released'.lock.app
              /\ released'.vendor.tui = released'.tui
         /\ vendor' # NoFile => Whole(vendor)'
         /\ report' # "none" => synced' = (report' = "release_validation")
         /\ Doing("lock") /\ job.mode = "latest" /\ lock'.platform = lock.platform
              => lock'.app >= lock.app]_syncVars
  <2> SUFFICES ASSUME SyncInv, SyncInv', SyncNext, Doing("lock"), job.mode = "latest",
                      lock'.platform = lock.platform
               PROVE  lock'.app >= lock.app
    BY DEF SyncInv, PackTrue, VendorTrue, ReportTrue
  <2>1. SourceTrue /\ lock \in RuntimeLock
    BY NoLockIsALock DEF SyncInv, SyncShape, NextTrue, Making, Doing
  <2>2. CASE WriteLock
    BY <2>1, <2>2 DEF WriteLock, SourceTrue, Working, Doing
  <2>3. CASE UNCHANGED lock
    BY <2>1, <2>3 DEF RuntimeLock
  <2>4. WriteLock \/ UNCHANGED lock
    BY DEF SyncNext, Doing, StartSync, Clear, Resolve, Undiscovered, ResolveApp, Download, Resolved,
       Fail, Copy, Patch, InstallTui, WriteExtraction, WritePackage, RemoveVendor, Rename, Validate,
       StartPack, Prepack, Record, EditTui, Pull, Killed
  <2> QED
    BY <2>2, <2>3, <2>4
<1> QED
  BY <1>1, InitSyncInv, SyncInvPreserved, PTL DEF SyncSpec, OneRuntimeShips

-----------------------------------------------------------------------------
(* How the patches change the runtime (RuntimePatches). *)

\* The bundle as the patches see it.
Texts == [Places -> {"shipped", "doubled", "gone", "native", "patched", "half"}]

\* Everything a patch may be called.
Ids == DOMAIN Writes

\* What a patch gave is a text, and only its own places are different.
Keeps(t, r, own) ==
  /\ r.text \in Texts
  /\ \A p \in Places \ own : r.text[p] = t[p]

\* Every place a patch writes belongs to it alone.
Owner(p) ==
  IF p \in {"modes", "getter", "setter", "update", "result"} THEN "tui-execution-state"
  ELSE IF p \in {"settingsFile", "validation", "main"} THEN "shared-config"
  ELSE IF p \in {"facade", "restore", "boundary"} THEN "session-model-recovery"
  ELSE IF p = "mcpRecord" THEN "official-mcp"
  ELSE IF p \in {"loginGate", "startedTurn", "steer", "transcript", "userIds", "agentIds",
                 "agentModel", "rewind", "sessionContext", "methods", "fields"} THEN "tui-bridge"
  ELSE IF p \in {"modelHelp", "reload"} THEN "model-catalog-reload"
  ELSE IF p = "goalStatus" THEN "goal-failure-pause"
  ELSE IF p \in {"completed", "failed"} THEN "terminal-tool-projection"
  ELSE IF p = "detachedRunner" THEN "detached-agent"
  ELSE IF p = "autoBackground" THEN "agent-auto-background"
  ELSE IF p \in {"providerLookup", "modelLookup", "selection", "registryBuilder"} THEN "builtin-aliases"
  ELSE IF p = "response" THEN "http-no-content"
  ELSE IF p \in {"retryDecision", "networkBranch", "staleStream"} THEN "network-retry"
  ELSE IF p \in {"generator", "completionTail"} THEN "stream-eof"
  ELSE IF p = "attach" THEN "attach-metadata"
  ELSE IF p = "metadataTurn" THEN "metadata-turn"
  ELSE IF p \in {"syncOpen", "startupOpen"} THEN "sqlite-busy"
  ELSE IF p \in {"oauthParser", "decoder"} THEN "oauth-errors"
  ELSE IF p = "credential" THEN "desktop-oauth"
  ELSE IF p = "loopHead" THEN "max-turns"
  ELSE IF p = "spawnDefault" THEN "subagent-max-turns"
  ELSE IF p = "strategy" THEN "expert-strategy"
  ELSE IF p = "ledger" THEN "ledger-forwarding"
  ELSE IF p \in {"initialSelection", "modelSwitch"} THEN "login-defaults"
  ELSE "cli-help"

\* When a patch has its turn.
Turn(id) ==
  IF id = "tui-execution-state" THEN 1 ELSE IF id = "shared-config" THEN 2
  ELSE IF id = "session-model-recovery" THEN 3 ELSE IF id = "official-mcp" THEN 4
  ELSE IF id = "tui-bridge" THEN 5 ELSE IF id = "model-catalog-reload" THEN 6
  ELSE IF id = "goal-failure-pause" THEN 7 ELSE IF id = "terminal-tool-projection" THEN 8
  ELSE IF id = "detached-agent" THEN 9 ELSE IF id = "agent-auto-background" THEN 10
  ELSE IF id = "builtin-aliases" THEN 11 ELSE IF id = "http-no-content" THEN 12
  ELSE IF id = "network-retry" THEN 13 ELSE IF id = "stream-eof" THEN 14
  ELSE IF id = "attach-metadata" THEN 15 ELSE IF id = "metadata-turn" THEN 16
  ELSE IF id = "sqlite-busy" THEN 17 ELSE IF id = "oauth-errors" THEN 18
  ELSE IF id = "desktop-oauth" THEN 19 ELSE IF id = "max-turns" THEN 20
  ELSE IF id = "subagent-max-turns" THEN 21 ELSE IF id = "expert-strategy" THEN 22
  ELSE IF id = "ledger-forwarding" THEN 23 ELSE IF id = "login-defaults" THEN 24 ELSE 25

\* The patches by their names.
LEMMA AllIds ==
  Ids = {"tui-execution-state", "shared-config", "session-model-recovery", "official-mcp",
         "tui-bridge", "model-catalog-reload", "goal-failure-pause", "terminal-tool-projection",
         "detached-agent", "agent-auto-background", "builtin-aliases", "http-no-content",
         "network-retry", "stream-eof", "attach-metadata", "metadata-turn", "sqlite-busy",
         "oauth-errors", "desktop-oauth", "max-turns", "subagent-max-turns", "expert-strategy",
         "ledger-forwarding", "login-defaults", "cli-help"}
BY DEF Ids, Writes

\* What each of them writes.
LEMMA AllWrites ==
  /\ Writes["tui-execution-state"] = {"modes", "getter", "setter", "update", "result"}
  /\ Writes["shared-config"] = {"settingsFile", "validation", "main"}
  /\ Writes["session-model-recovery"] = {"facade", "restore", "boundary"}
  /\ Writes["official-mcp"] = {"mcpRecord"}
  /\ Writes["tui-bridge"] = {"loginGate", "startedTurn", "steer", "transcript", "userIds", "agentIds",
                             "agentModel", "rewind", "sessionContext", "methods", "fields"}
  /\ Writes["model-catalog-reload"] = {"modelHelp", "reload"}
  /\ Writes["goal-failure-pause"] = {"goalStatus"}
  /\ Writes["terminal-tool-projection"] = {"completed", "failed"}
  /\ Writes["detached-agent"] = {"detachedRunner"}
  /\ Writes["agent-auto-background"] = {"autoBackground"}
  /\ Writes["builtin-aliases"] = {"providerLookup", "modelLookup", "selection", "registryBuilder"}
  /\ Writes["http-no-content"] = {"response"}
  /\ Writes["network-retry"] = {"retryDecision", "networkBranch", "staleStream"}
  /\ Writes["stream-eof"] = {"generator", "completionTail"}
  /\ Writes["attach-metadata"] = {"attach"}
  /\ Writes["metadata-turn"] = {"metadataTurn"}
  /\ Writes["sqlite-busy"] = {"syncOpen", "startupOpen"}
  /\ Writes["oauth-errors"] = {"oauthParser", "decoder"}
  /\ Writes["desktop-oauth"] = {"credential"}
  /\ Writes["max-turns"] = {"loopHead"}
  /\ Writes["subagent-max-turns"] = {"spawnDefault"}
  /\ Writes["expert-strategy"] = {"strategy"}
  /\ Writes["ledger-forwarding"] = {"ledger"}
  /\ Writes["login-defaults"] = {"initialSelection", "modelSwitch"}
  /\ Writes["cli-help"] = {"helpLines"}
BY DEF Writes

\* A place is written by one patch only.
LEMMA OneOwner ==
  \A id \in Ids : Writes[id] \subseteq Places /\ \A p \in Writes[id] : Owner(p) = id
<1>1. ASSUME NEW id \in Ids PROVE Writes[id] \subseteq Places
  BY DEF Ids, Places
<1>2. ASSUME NEW id \in Ids, NEW p \in Writes[id] PROVE Owner(p) = id
  BY <1>2, AllIds, AllWrites DEF Owner
<1> QED
  BY <1>1, <1>2

\* Every patch has one turn.
LEMMA OneTurn ==
  /\ Len(runtimePatchPlan) = 25
  /\ \A n \in 1 .. 25 : runtimePatchPlan[n] \in Ids /\ Turn(runtimePatchPlan[n]) = n
<1>1. Len(runtimePatchPlan) = 25
  BY DEF runtimePatchPlan
<1>2. ASSUME NEW n \in 1 .. 25
      PROVE  runtimePatchPlan[n] \in Ids /\ Turn(runtimePatchPlan[n]) = n
  BY <1>2, AllIds DEF runtimePatchPlan, Turn
<1> QED
  BY <1>1, <1>2

-----------------------------------------------------------------------------
(* Looking and replacing. *)

\* Nothing done.
LEMMA UnchangedKeeps ==
  \A t \in Texts : \A own :
    Keeps(t, Unchanged(t), own) /\ Keeps(t, Refused(t), own) /\ Unchanged(t).ok /\ ~Refused(t).ok
BY DEF Keeps, Unchanged, Refused

\* What replacing the first place does.
LEMMA PutKeeps ==
  \A t \in Texts : \A ps : \A own :
    ps \subseteq own =>
      /\ Keeps(t, Put(t, ps), own) /\ Put(t, ps).ok
      /\ \A p \in Places \cap ps : Marked(Put(t, ps).text, p) /\ (~Found(t, p) => Put(t, ps).text[p] = "patched")
<1> SUFFICES ASSUME NEW t \in Texts, NEW ps, NEW own, ps \subseteq own
             PROVE  /\ Keeps(t, Put(t, ps), own) /\ Put(t, ps).ok
                    /\ \A p \in Places \cap ps :
                         Marked(Put(t, ps).text, p) /\ (~Found(t, p) => Put(t, ps).text[p] = "patched")
  OBVIOUS
<1> DEFINE u == [p \in Places |-> IF p \notin ps THEN t[p]
                                  ELSE IF t[p] = "doubled" THEN "half" ELSE "patched"]
<1>1. Put(t, ps).ok /\ Put(t, ps).text = u
  BY DEF Put, Unchanged
<1>2. u \in Texts
  BY DEF Texts
<1>3. \A p \in Places : u[p] = IF p \notin ps THEN t[p] ELSE IF t[p] = "doubled" THEN "half" ELSE "patched"
  OBVIOUS
<1> HIDE DEF u
<1> QED
  BY <1>1, <1>2, <1>3 DEF Keeps, Marked, Found

\* What replacing all places does.
LEMMA PutAllKeeps ==
  \A t \in Texts : \A p \in Places : \A own :
    p \in own =>
      /\ Keeps(t, PutAll(t, p), own) /\ PutAll(t, p).ok /\ ~Found(PutAll(t, p).text, p)
      /\ Found(t, p) => PutAll(t, p).text[p] = "patched"
      /\ ~Found(t, p) => PutAll(t, p).text = t
<1> SUFFICES ASSUME NEW t \in Texts, NEW p \in Places, NEW own, p \in own
             PROVE  /\ Keeps(t, PutAll(t, p), own) /\ PutAll(t, p).ok /\ ~Found(PutAll(t, p).text, p)
                    /\ Found(t, p) => PutAll(t, p).text[p] = "patched"
                    /\ ~Found(t, p) => PutAll(t, p).text = t
  OBVIOUS
<1>1. CASE Found(t, p)
  <2> DEFINE u == [t EXCEPT ![p] = "patched"]
  <2>1. PutAll(t, p).ok /\ PutAll(t, p).text = u
    BY <1>1 DEF PutAll, Unchanged
  <2>2. u \in Texts /\ u[p] = "patched" /\ \A q \in Places \ {p} : u[q] = t[q]
    BY DEF Texts
  <2> HIDE DEF u
  <2> QED
    BY <1>1, <2>1, <2>2 DEF Keeps, Found
<1>2. CASE ~Found(t, p)
  BY <1>2 DEF PutAll, Unchanged, Keeps
<1> QED
  BY <1>1, <1>2

\* What a patch that looks for its marks first does.
LEMMA UnlessKeeps ==
  \A t \in Texts : \A marks : \A r : \A own :
    /\ Keeps(t, r, own) => Keeps(t, Unless(t, marks, r), own)
    /\ Unless(t, marks, r).ok =>
         \/ (\A p \in marks : Marked(t, p)) /\ Unless(t, marks, r).text = t
         \/ ~(\A p \in marks : Marked(t, p)) /\ r.ok /\ Unless(t, marks, r).text = r.text
BY DEF Unless, Unchanged, Keeps

\* What a patch that needs its anchors does.
LEMMA AnchoredKeeps ==
  \A t \in Texts : \A found : \A sole : \A ps : \A own :
    ps \subseteq own =>
      /\ Keeps(t, Anchored(t, found, sole, ps), own)
      /\ Anchored(t, found, sole, ps).ok =>
           \A p \in Places \cap ps : Marked(Anchored(t, found, sole, ps).text, p)
<1> SUFFICES ASSUME NEW t \in Texts, NEW found, NEW sole, NEW ps, NEW own, ps \subseteq own
             PROVE  /\ Keeps(t, Anchored(t, found, sole, ps), own)
                    /\ Anchored(t, found, sole, ps).ok =>
                         \A p \in Places \cap ps : Marked(Anchored(t, found, sole, ps).text, p)
  OBVIOUS
<1>1. Anchored(t, found, sole, ps) \in {Put(t, ps), Refused(t)}
  BY DEF Anchored
<1>2. Keeps(t, Refused(t), own) /\ ~Refused(t).ok
  BY UnchangedKeeps
<1>3. Keeps(t, Put(t, ps), own) /\ \A p \in Places \cap ps : Marked(Put(t, ps).text, p)
  BY PutKeeps
<1> QED
  BY <1>1, <1>2, <1>3

\* The usual patch.
LEMMA PatchKeeps ==
  \A t \in Texts : \A marks : \A found : \A sole : \A ps : \A own :
    ps \subseteq own =>
      /\ Keeps(t, Unless(t, marks, Anchored(t, found, sole, ps)), own)
      /\ Unless(t, marks, Anchored(t, found, sole, ps)).ok =>
           \/ /\ \A p \in marks : Marked(t, p)
              /\ Unless(t, marks, Anchored(t, found, sole, ps)).text = t
           \/ \A p \in Places \cap ps : Marked(Unless(t, marks, Anchored(t, found, sole, ps)).text, p)
<1> SUFFICES ASSUME NEW t \in Texts, NEW marks, NEW found, NEW sole, NEW ps, NEW own, ps \subseteq own
             PROVE  /\ Keeps(t, Unless(t, marks, Anchored(t, found, sole, ps)), own)
                    /\ Unless(t, marks, Anchored(t, found, sole, ps)).ok =>
                         \/ /\ \A p \in marks : Marked(t, p)
                            /\ Unless(t, marks, Anchored(t, found, sole, ps)).text = t
                         \/ \A p \in Places \cap ps :
                              Marked(Unless(t, marks, Anchored(t, found, sole, ps)).text, p)
  OBVIOUS
<1> DEFINE r == Anchored(t, found, sole, ps)
<1>1. Keeps(t, r, own) /\ (r.ok => \A p \in Places \cap ps : Marked(r.text, p))
  BY AnchoredKeeps
<1> HIDE DEF r
<1>2. /\ Keeps(t, r, own) => Keeps(t, Unless(t, marks, r), own)
      /\ Unless(t, marks, r).ok =>
           \/ (\A p \in marks : Marked(t, p)) /\ Unless(t, marks, r).text = t
           \/ ~(\A p \in marks : Marked(t, p)) /\ r.ok /\ Unless(t, marks, r).text = r.text
  BY UnlessKeeps
<1>3. /\ Keeps(t, Unless(t, marks, r), own)
      /\ Unless(t, marks, r).ok =>
           \/ (\A p \in marks : Marked(t, p)) /\ Unless(t, marks, r).text = t
           \/ \A p \in Places \cap ps : Marked(Unless(t, marks, r).text, p)
  BY <1>1, <1>2
<1> QED
  BY <1>3 DEF r

\* A patch of one place.
LEMMA PutOneKeeps ==
  \A t \in Texts : \A p \in Places : \A own :
    p \in own => /\ Keeps(t, PutOne(t, p), own)
                 /\ PutOne(t, p).ok => Marked(PutOne(t, p).text, p)
<1> SUFFICES ASSUME NEW t \in Texts, NEW p \in Places, NEW own, p \in own
             PROVE  Keeps(t, PutOne(t, p), own) /\ (PutOne(t, p).ok => Marked(PutOne(t, p).text, p))
  OBVIOUS
<1>1. PutOne(t, p) = Unless(t, {p}, Anchored(t, {p}, {}, {p}))
  BY DEF PutOne
<1>2. /\ Keeps(t, Unless(t, {p}, Anchored(t, {p}, {}, {p})), own)
      /\ Unless(t, {p}, Anchored(t, {p}, {}, {p})).ok =>
           \/ /\ \A q \in {p} : Marked(t, q)
              /\ Unless(t, {p}, Anchored(t, {p}, {}, {p})).text = t
           \/ \A q \in Places \cap {p} : Marked(Unless(t, {p}, Anchored(t, {p}, {}, {p})).text, q)
  <2>1. {p} \subseteq own
    OBVIOUS
  <2> QED
    BY <2>1, PatchKeeps, Zenon
<1> QED
  BY <1>1, <1>2

\* One patch after another.
LEMMA KeepsOn ==
  \A t, r, q, own : Keeps(t, r, own) /\ Keeps(r.text, q, own) => Keeps(t, q, own)
BY DEF Keeps

\* A patch that does not mind.
LEMMA PutAnyKeeps ==
  \A t \in Texts : \A p \in Places : \A own :
    p \in own => Keeps(t, PutAny(t, p), own)
<1> SUFFICES ASSUME NEW t \in Texts, NEW p \in Places, NEW own, p \in own
             PROVE  Keeps(t, PutAny(t, p), own)
  OBVIOUS
<1>1. PutAny(t, p) \in {Put(t, {p}), Unchanged(t)}
  BY DEF PutAny
<1>2. Keeps(t, Unchanged(t), own)
  BY UnchangedKeeps
<1>3. Keeps(t, Put(t, {p}), own)
  BY PutKeeps
<1> QED
  BY <1>1, <1>2, <1>3

-----------------------------------------------------------------------------
(* The patches of several steps. *)

\* The places the steps below look for.
LEMMA SomePlaces ==
  /\ \A id \in Ids : Writes[id] \subseteq Places
  /\ {"loginGate", "startedTurn", "steer", "transcript", "userIds", "agentIds",
      "agentModel", "rewind", "sessionContext", "methods", "fields"} \subseteq Places
  /\ {"modelHelp", "reload", "completed", "failed", "detachedRunner", "response", "ledger",
      "initialSelection", "modelSwitch", "helpLines", "goalStatus", "autoBackground"} \subseteq Places
<1>1. \A id \in Ids : Writes[id] \subseteq Places
  BY DEF Ids, Places
<1>2. /\ Writes["tui-bridge"] \subseteq Places /\ Writes["model-catalog-reload"] \subseteq Places
      /\ Writes["terminal-tool-projection"] \subseteq Places /\ Writes["detached-agent"] \subseteq Places
      /\ Writes["http-no-content"] \subseteq Places /\ Writes["ledger-forwarding"] \subseteq Places
      /\ Writes["login-defaults"] \subseteq Places /\ Writes["cli-help"] \subseteq Places
      /\ Writes["goal-failure-pause"] \subseteq Places /\ Writes["agent-auto-background"] \subseteq Places
  BY <1>1, AllIds
<1> QED
  BY <1>1, <1>2, AllWrites

\* The records of agents.
LEMMA AgentRecordsKeeps ==
  \A t \in Texts :
    /\ Keeps(t, AgentRecords(t), {"agentIds", "agentModel"})
    /\ AgentRecords(t).ok => Marked(AgentRecords(t).text, "agentIds") /\ Marked(AgentRecords(t).text, "agentModel")
<1> SUFFICES ASSUME NEW t \in Texts
             PROVE  /\ Keeps(t, AgentRecords(t), {"agentIds", "agentModel"})
                    /\ AgentRecords(t).ok => /\ Marked(AgentRecords(t).text, "agentIds")
                                             /\ Marked(AgentRecords(t).text, "agentModel")
  OBVIOUS
<1>0. "agentIds" \in Places /\ "agentModel" \in Places
  BY SomePlaces
<1>1. CASE Marked(t, "agentIds")
  <2>1. AgentRecords(t) = PutOne(t, "agentModel")
    BY <1>1 DEF AgentRecords
  <2>2. /\ Keeps(t, PutOne(t, "agentModel"), {"agentModel"})
        /\ PutOne(t, "agentModel").ok => Marked(PutOne(t, "agentModel").text, "agentModel")
    BY <1>0, PutOneKeeps
  <2> QED
    BY <1>0, <1>1, <2>1, <2>2 DEF Keeps, Marked
<1>2. CASE ~Marked(t, "agentIds")
  <2> DEFINE r == Anchored(t, {"agentIds"}, {}, {"agentIds", "agentModel"})
  <2>1. AgentRecords(t) = r
    BY <1>2 DEF AgentRecords
  <2>2. /\ Keeps(t, r, {"agentIds", "agentModel"})
        /\ r.ok => \A p \in Places \cap {"agentIds", "agentModel"} : Marked(r.text, p)
    BY AnchoredKeeps
  <2> QED
    BY <1>0, <2>1, <2>2
<1> QED
  BY <1>1, <1>2

\* The bridge's own places.
LEMMA BridgeKeeps ==
  \A t \in Texts :
    /\ Keeps(t, Bridge(t), {"methods", "fields"})
    /\ Bridge(t).ok => Marked(Bridge(t).text, "methods") /\ Marked(Bridge(t).text, "fields")
<1> SUFFICES ASSUME NEW t \in Texts
             PROVE  /\ Keeps(t, Bridge(t), {"methods", "fields"})
                    /\ Bridge(t).ok => Marked(Bridge(t).text, "methods") /\ Marked(Bridge(t).text, "fields")
  OBVIOUS
<1> DEFINE r == BridgeMethods(t)
           q == Unless(r.text, {"fields"}, Anchored(r.text, {"options"}, {}, {"fields"}))
<1>0. "methods" \in Places /\ "fields" \in Places
  BY SomePlaces
<1>1. Bridge(t) = IF Found(t, "adapter") THEN IF r.ok THEN q ELSE r ELSE Refused(t)
  BY DEF Bridge, Then
<1>2. r = Unless(t, {"methods"}, Anchored(t, {"skills"}, {}, {"methods"}))
  BY DEF BridgeMethods
<1>3. Keeps(t, r, {"methods"}) /\ (r.ok => Marked(r.text, "methods"))
  <2>1. /\ Keeps(t, Unless(t, {"methods"}, Anchored(t, {"skills"}, {}, {"methods"})), {"methods"})
        /\ Unless(t, {"methods"}, Anchored(t, {"skills"}, {}, {"methods"})).ok =>
             \/ /\ \A p \in {"methods"} : Marked(t, p)
                /\ Unless(t, {"methods"}, Anchored(t, {"skills"}, {}, {"methods"})).text = t
             \/ \A p \in Places \cap {"methods"} :
                  Marked(Unless(t, {"methods"}, Anchored(t, {"skills"}, {}, {"methods"})).text, p)
    BY PatchKeeps
  <2> QED
    BY <1>0, <1>2, <2>1
<1> HIDE DEF r
<1>4. r.text \in Texts
  BY <1>3 DEF Keeps
<1>5. Keeps(r.text, q, {"fields"}) /\ (q.ok => Marked(q.text, "fields"))
  <2>1. /\ Keeps(r.text, q, {"fields"})
        /\ q.ok =>
             \/ (\A p \in {"fields"} : Marked(r.text, p)) /\ q.text = r.text
             \/ \A p \in Places \cap {"fields"} : Marked(q.text, p)
    BY <1>4, PatchKeeps
  <2> QED
    BY <1>0, <2>1
<1> HIDE DEF q
<1>6. Keeps(t, q, {"methods", "fields"}) /\ Keeps(t, r, {"methods", "fields"})
      /\ (r.ok => q.text["methods"] = r.text["methods"])
  BY <1>0, <1>3, <1>5 DEF Keeps
<1>7. Keeps(t, Refused(t), {"methods", "fields"}) /\ ~Refused(t).ok
  BY UnchangedKeeps
<1> QED
  BY <1>1, <1>3, <1>5, <1>6, <1>7 DEF Marked

\* All steps of the bridge.
LEMMA BridgeStepsKeeps ==
  \A t \in Texts :
    /\ Keeps(t, BridgeSteps(t), Writes["tui-bridge"])
    /\ BridgeSteps(t).ok =>
         /\ ~Found(BridgeSteps(t).text, "startedTurn")
         /\ \A p \in Writes["tui-bridge"] \ {"loginGate", "startedTurn"} : Marked(BridgeSteps(t).text, p)
<1> SUFFICES ASSUME NEW t \in Texts
             PROVE  /\ Keeps(t, BridgeSteps(t), Writes["tui-bridge"])
                    /\ BridgeSteps(t).ok =>
                         /\ ~Found(BridgeSteps(t).text, "startedTurn")
                         /\ \A p \in Writes["tui-bridge"] \ {"loginGate", "startedTurn"} :
                              Marked(BridgeSteps(t).text, p)
  OBVIOUS
<1> DEFINE a == PutAll(t, "startedTurn")
           b == PutOne(a.text, "steer")
           c == PutOne(b.text, "transcript")
           e == PutOne(c.text, "userIds")
           f == AgentRecords(e.text)
           g == PutOne(f.text, "rewind")
           h == PutOne(g.text, "sessionContext")
           k == Bridge(h.text)
<1>0. Writes["tui-bridge"] = {"loginGate", "startedTurn", "steer", "transcript", "userIds", "agentIds",
                              "agentModel", "rewind", "sessionContext", "methods", "fields"}
      /\ Writes["tui-bridge"] \subseteq Places
  BY AllWrites, SomePlaces
<1>1. BridgeSteps(t) =
        IF a.ok THEN IF b.ok THEN IF c.ok THEN IF e.ok THEN IF f.ok THEN IF g.ok THEN IF h.ok
        THEN k ELSE h ELSE g ELSE f ELSE e ELSE c ELSE b ELSE a
  BY DEF BridgeSteps, Then
<1>2. Keeps(t, a, {"startedTurn"}) /\ a.text \in Texts /\ ~Found(a.text, "startedTurn")
  <2>1. Keeps(t, a, {"startedTurn"}) /\ ~Found(a.text, "startedTurn")
    BY <1>0, PutAllKeeps
  <2> QED
    BY <2>1 DEF Keeps
<1> HIDE DEF a
<1>3. Keeps(a.text, b, {"steer"}) /\ b.text \in Texts /\ (b.ok => Marked(b.text, "steer"))
  <2>1. Keeps(a.text, b, {"steer"}) /\ (b.ok => Marked(b.text, "steer"))
    BY <1>0, <1>2, PutOneKeeps
  <2> QED
    BY <2>1 DEF Keeps
<1> HIDE DEF b
<1>4. Keeps(b.text, c, {"transcript"}) /\ c.text \in Texts /\ (c.ok => Marked(c.text, "transcript"))
  <2>1. Keeps(b.text, c, {"transcript"}) /\ (c.ok => Marked(c.text, "transcript"))
    BY <1>0, <1>3, PutOneKeeps
  <2> QED
    BY <2>1 DEF Keeps
<1> HIDE DEF c
<1>5. Keeps(c.text, e, {"userIds"}) /\ e.text \in Texts /\ (e.ok => Marked(e.text, "userIds"))
  <2>1. Keeps(c.text, e, {"userIds"}) /\ (e.ok => Marked(e.text, "userIds"))
    BY <1>0, <1>4, PutOneKeeps
  <2> QED
    BY <2>1 DEF Keeps
<1> HIDE DEF e
<1>6. /\ Keeps(e.text, f, {"agentIds", "agentModel"}) /\ f.text \in Texts
      /\ f.ok => Marked(f.text, "agentIds") /\ Marked(f.text, "agentModel")
  BY <1>5, AgentRecordsKeeps DEF Keeps
<1> HIDE DEF f
<1>7. Keeps(f.text, g, {"rewind"}) /\ g.text \in Texts /\ (g.ok => Marked(g.text, "rewind"))
  <2>1. Keeps(f.text, g, {"rewind"}) /\ (g.ok => Marked(g.text, "rewind"))
    BY <1>0, <1>6, PutOneKeeps
  <2> QED
    BY <2>1 DEF Keeps
<1> HIDE DEF g
<1>8. Keeps(g.text, h, {"sessionContext"}) /\ h.text \in Texts /\ (h.ok => Marked(h.text, "sessionContext"))
  <2>1. Keeps(g.text, h, {"sessionContext"}) /\ (h.ok => Marked(h.text, "sessionContext"))
    BY <1>0, <1>7, PutOneKeeps
  <2> QED
    BY <2>1 DEF Keeps
<1> HIDE DEF h
<1>9. /\ Keeps(h.text, k, {"methods", "fields"}) /\ k.text \in Texts
      /\ k.ok => Marked(k.text, "methods") /\ Marked(k.text, "fields")
  BY <1>8, BridgeKeeps DEF Keeps
<1> HIDE DEF k
<1>10. /\ Keeps(t, a, Writes["tui-bridge"]) /\ Keeps(t, b, Writes["tui-bridge"])
       /\ Keeps(t, c, Writes["tui-bridge"]) /\ Keeps(t, e, Writes["tui-bridge"])
  BY <1>0, <1>2, <1>3, <1>4, <1>5 DEF Keeps
<1>11. Keeps(t, f, Writes["tui-bridge"]) /\ Keeps(t, g, Writes["tui-bridge"])
  BY <1>0, <1>10, <1>6, <1>7 DEF Keeps
<1>12. Keeps(t, h, Writes["tui-bridge"]) /\ Keeps(t, k, Writes["tui-bridge"])
  BY <1>0, <1>11, <1>8, <1>9 DEF Keeps
<1>13. Keeps(t, BridgeSteps(t), Writes["tui-bridge"])
  BY <1>1, <1>10, <1>11, <1>12
<1>14. ASSUME BridgeSteps(t).ok
       PROVE  /\ ~Found(BridgeSteps(t).text, "startedTurn")
              /\ \A p \in Writes["tui-bridge"] \ {"loginGate", "startedTurn"} :
                   Marked(BridgeSteps(t).text, p)
  <2>1. a.ok /\ b.ok /\ c.ok /\ e.ok /\ f.ok /\ g.ok /\ h.ok /\ k.ok /\ BridgeSteps(t) = k
    BY <1>1, <1>14
  <2>2. k.text["startedTurn"] = a.text["startedTurn"]
    BY <1>0, <1>3, <1>4, <1>5, <1>6, <1>7, <1>8, <1>9 DEF Keeps
  <2>3. k.text["steer"] = b.text["steer"] /\ k.text["transcript"] = c.text["transcript"]
    BY <1>0, <1>4, <1>5, <1>6, <1>7, <1>8, <1>9 DEF Keeps
  <2>4. /\ k.text["userIds"] = e.text["userIds"] /\ k.text["agentIds"] = f.text["agentIds"]
        /\ k.text["agentModel"] = f.text["agentModel"]
    BY <1>0, <1>6, <1>7, <1>8, <1>9 DEF Keeps
  <2>5. k.text["rewind"] = g.text["rewind"] /\ k.text["sessionContext"] = h.text["sessionContext"]
    BY <1>0, <1>8, <1>9 DEF Keeps
  <2>6. ~Found(k.text, "startedTurn")
    BY <1>2, <2>2 DEF Found
  <2>7. /\ Marked(k.text, "steer") /\ Marked(k.text, "transcript") /\ Marked(k.text, "userIds")
        /\ Marked(k.text, "agentIds") /\ Marked(k.text, "agentModel") /\ Marked(k.text, "rewind")
        /\ Marked(k.text, "sessionContext") /\ Marked(k.text, "methods") /\ Marked(k.text, "fields")
    BY <2>1, <2>3, <2>4, <2>5, <1>3, <1>4, <1>5, <1>6, <1>7, <1>8, <1>9 DEF Marked
  <2> QED
    BY <1>0, <2>1, <2>6, <2>7
<1> QED
  BY <1>13, <1>14

-----------------------------------------------------------------------------
(* Every patch. *)

\* What the plan applies.
LEMMA AllApplied ==
  \A t :
    /\ Apply("tui-execution-state", t) = TuiExecutionState(t)
    /\ Apply("shared-config", t) = SharedConfig(t)
    /\ Apply("session-model-recovery", t) = SessionModelRecovery(t)
    /\ Apply("official-mcp", t) = OfficialMcp(t)
    /\ Apply("tui-bridge", t) = TuiBridge(t)
    /\ Apply("model-catalog-reload", t) = ModelCatalogReload(t)
    /\ Apply("goal-failure-pause", t) = GoalFailurePause(t)
    /\ Apply("terminal-tool-projection", t) = TerminalToolProjection(t)
    /\ Apply("detached-agent", t) = DetachedAgentLifecycle(t)
    /\ Apply("agent-auto-background", t) = AgentAutoBackground(t)
    /\ Apply("builtin-aliases", t) = BuiltinProviderAliases(t)
    /\ Apply("http-no-content", t) = HttpNoContent(t)
    /\ Apply("network-retry", t) = NetworkRetry(t)
    /\ Apply("stream-eof", t) = StreamEofFinishGuard(t)
    /\ Apply("attach-metadata", t) = AttachSessionMetadata(t)
    /\ Apply("metadata-turn", t) = TuiMetadataTurn(t)
    /\ Apply("sqlite-busy", t) = SqliteBusyTimeout(t)
    /\ Apply("oauth-errors", t) = OAuthHttpErrors(t)
    /\ Apply("desktop-oauth", t) = ZaiDesktopOAuth(t)
    /\ Apply("max-turns", t) = MaxTurnsEnforcement(t)
    /\ Apply("subagent-max-turns", t) = SubagentMaxTurns(t)
    /\ Apply("expert-strategy", t) = ExpertStrategyConfig(t)
    /\ Apply("ledger-forwarding", t) = StreamingLedgerForwarding(t)
    /\ Apply("login-defaults", t) = LoginModelDefaults(t)
    /\ Apply("cli-help", t) = CliHelpContract(t)
BY DEF Apply

\* The bridge, its steps or nothing, after the login gate.
LEMMA TuiBridgeKeeps ==
  \A t \in Texts :
    /\ Keeps(t, TuiBridge(t), Writes["tui-bridge"])
    /\ ~Marked(t, "methods") /\ TuiBridge(t).ok =>
         /\ ~Found(TuiBridge(t).text, "startedTurn")
         /\ \A p \in Writes["tui-bridge"] \ {"loginGate", "startedTurn"} : Marked(TuiBridge(t).text, p)
<1> SUFFICES ASSUME NEW t \in Texts
             PROVE  /\ Keeps(t, TuiBridge(t), Writes["tui-bridge"])
                    /\ ~Marked(t, "methods") /\ TuiBridge(t).ok =>
                         /\ ~Found(TuiBridge(t).text, "startedTurn")
                         /\ \A p \in Writes["tui-bridge"] \ {"loginGate", "startedTurn"} :
                              Marked(TuiBridge(t).text, p)
  OBVIOUS
<1> DEFINE r == PutAny(t, "loginGate")
           q == BridgeSteps(r.text)
<1>0. {"loginGate", "methods"} \subseteq Places /\ "loginGate" \in Writes["tui-bridge"]
  BY SomePlaces, AllWrites
<1>1. TuiBridge(t) = IF r.ok THEN IF BridgeDone(r.text) THEN Unchanged(r.text) ELSE q ELSE r
  BY DEF TuiBridge, Then
<1>2. r.ok
  BY DEF PutAny, Put, Unchanged
<1>3. Keeps(t, r, {"loginGate"}) /\ Keeps(t, r, Writes["tui-bridge"])
  BY <1>0, PutAnyKeeps
<1> HIDE DEF r
<1>4. r.text \in Texts /\ r.text["methods"] = t["methods"]
  BY <1>0, <1>3 DEF Keeps
<1>5. /\ Keeps(r.text, q, Writes["tui-bridge"])
      /\ q.ok =>
           /\ ~Found(q.text, "startedTurn")
           /\ \A p \in Writes["tui-bridge"] \ {"loginGate", "startedTurn"} : Marked(q.text, p)
  BY <1>4, BridgeStepsKeeps
<1> HIDE DEF q
<1>6. Keeps(t, q, Writes["tui-bridge"])
  BY <1>3, <1>5, KeepsOn
<1>7. Keeps(t, Unchanged(r.text), Writes["tui-bridge"])
  BY <1>3 DEF Keeps, Unchanged
<1>8. ~Marked(t, "methods") => ~BridgeDone(r.text)
  BY <1>4 DEF BridgeDone, Marked
<1> QED
  BY <1>1, <1>2, <1>5, <1>6, <1>7, <1>8

\* The reload of the catalogue.
LEMMA ModelCatalogReloadKeeps ==
  \A t \in Texts :
    /\ Keeps(t, ModelCatalogReload(t), Writes["model-catalog-reload"])
    /\ ~Marked(t, "reload") /\ ModelCatalogReload(t).ok =>
         Marked(ModelCatalogReload(t).text, "reload") /\ Marked(ModelCatalogReload(t).text, "fields")
<1> SUFFICES ASSUME NEW t \in Texts
             PROVE  /\ Keeps(t, ModelCatalogReload(t), Writes["model-catalog-reload"])
                    /\ ~Marked(t, "reload") /\ ModelCatalogReload(t).ok =>
                         /\ Marked(ModelCatalogReload(t).text, "reload")
                         /\ Marked(ModelCatalogReload(t).text, "fields")
  OBVIOUS
<1> DEFINE found == {"modelList", "registryList", "registryService", "refresh"}
           r == PutAny(t, "modelHelp")
           c == CatalogReload(r.text)
           q == Unless(r.text, {"reload"}, c)
<1>0. {"modelHelp", "reload", "fields"} \subseteq Places /\ Writes["model-catalog-reload"] = {"modelHelp", "reload"}
  BY SomePlaces, AllWrites
<1>1. ModelCatalogReload(t) = IF r.ok THEN q ELSE r
  BY DEF ModelCatalogReload, Then
<1>2. r.ok
  BY DEF PutAny, Put, Unchanged
<1>3. Keeps(t, r, {"modelHelp"})
  BY <1>0, PutAnyKeeps
<1> HIDE DEF r
<1>4. r.text \in Texts /\ r.text["reload"] = t["reload"]
  BY <1>0, <1>3 DEF Keeps
<1>5. /\ c = IF ReadsRegistry(r.text) /\ Marked(r.text, "fields") THEN Anchored(r.text, found, {}, {"reload"})
             ELSE Refused(r.text)
  BY DEF CatalogReload
<1>6. /\ Keeps(r.text, Anchored(r.text, found, {}, {"reload"}), {"reload"})
      /\ Anchored(r.text, found, {}, {"reload"}).ok =>
           \A p \in Places \cap {"reload"} : Marked(Anchored(r.text, found, {}, {"reload"}).text, p)
  BY <1>4, AnchoredKeeps
<1>7. Keeps(r.text, Refused(r.text), {"reload"}) /\ ~Refused(r.text).ok
  BY <1>4, UnchangedKeeps
<1>8. /\ Keeps(r.text, c, {"reload"})
      /\ c.ok => Marked(c.text, "reload") /\ Marked(r.text, "fields")
  BY <1>0, <1>5, <1>6, <1>7
<1> HIDE DEF c
<1>9. /\ Keeps(r.text, q, {"reload"})
      /\ q.ok => \/ Marked(r.text, "reload")
                 \/ c.ok /\ q.text = c.text
  <2> DEFINE v == r.text
  <2>0. v \in Texts
    BY <1>4
  <2> HIDE DEF v
  <2>1. /\ Keeps(v, c, {"reload"}) => Keeps(v, Unless(v, {"reload"}, c), {"reload"})
        /\ Unless(v, {"reload"}, c).ok =>
             \/ (\A p \in {"reload"} : Marked(v, p)) /\ Unless(v, {"reload"}, c).text = v
             \/ ~(\A p \in {"reload"} : Marked(v, p)) /\ c.ok /\ Unless(v, {"reload"}, c).text = c.text
    BY <2>0, UnlessKeeps
  <2> QED
    BY <1>8, <2>1 DEF v
<1> HIDE DEF q
<1>10. Keeps(t, q, Writes["model-catalog-reload"])
  BY <1>0, <1>3, <1>9 DEF Keeps
<1>11. ~Marked(t, "reload") /\ q.ok => Marked(q.text, "reload") /\ Marked(q.text, "fields")
  BY <1>0, <1>4, <1>8, <1>9 DEF Marked, Keeps
<1> QED
  BY <1>1, <1>2, <1>10, <1>11

\* One place after another.
LEMMA TerminalToolProjectionKeeps ==
  \A t \in Texts :
    /\ Keeps(t, TerminalToolProjection(t), {"completed", "failed"})
    /\ TerminalToolProjection(t).ok => Marked(TerminalToolProjection(t).text, "completed") /\ Marked(TerminalToolProjection(t).text, "failed")
<1> SUFFICES ASSUME NEW t \in Texts
             PROVE  /\ Keeps(t, TerminalToolProjection(t), {"completed", "failed"})
                    /\ TerminalToolProjection(t).ok => /\ Marked(TerminalToolProjection(t).text, "completed")
                                     /\ Marked(TerminalToolProjection(t).text, "failed")
  OBVIOUS
<1> DEFINE r == PutOne(t, "completed")
           q == PutOne(r.text, "failed")
<1>0. {"completed", "failed"} \subseteq Places
  BY SomePlaces
<1>1. TerminalToolProjection(t) = IF r.ok THEN q ELSE r
  BY DEF TerminalToolProjection, Then
<1>2. Keeps(t, r, {"completed"}) /\ r.text \in Texts /\ (r.ok => Marked(r.text, "completed"))
  BY <1>0, PutOneKeeps DEF Keeps
<1> HIDE DEF r
<1>3. Keeps(r.text, q, {"failed"}) /\ (q.ok => Marked(q.text, "failed"))
  BY <1>0, <1>2, PutOneKeeps
<1> HIDE DEF q
<1>4. Keeps(t, r, {"completed", "failed"}) /\ Keeps(t, q, {"completed", "failed"}) /\ q.text["completed"] = r.text["completed"]
  BY <1>0, <1>2, <1>3 DEF Keeps
<1>5. Keeps(t, Refused(t), {"completed", "failed"}) /\ ~Refused(t).ok
  BY UnchangedKeeps
<1> QED
  BY <1>1, <1>2, <1>3, <1>4, <1>5 DEF Marked

\* One place after another.
LEMMA LoginModelDefaultsKeeps ==
  \A t \in Texts :
    /\ Keeps(t, LoginModelDefaults(t), {"initialSelection", "modelSwitch"})
    /\ LoginModelDefaults(t).ok => Marked(LoginModelDefaults(t).text, "initialSelection") /\ Marked(LoginModelDefaults(t).text, "modelSwitch")
<1> SUFFICES ASSUME NEW t \in Texts
             PROVE  /\ Keeps(t, LoginModelDefaults(t), {"initialSelection", "modelSwitch"})
                    /\ LoginModelDefaults(t).ok => /\ Marked(LoginModelDefaults(t).text, "initialSelection")
                                     /\ Marked(LoginModelDefaults(t).text, "modelSwitch")
  OBVIOUS
<1> DEFINE r == PutOne(t, "initialSelection")
           q == PutOne(r.text, "modelSwitch")
<1>0. {"initialSelection", "modelSwitch"} \subseteq Places
  BY SomePlaces
<1>1. LoginModelDefaults(t) = IF Found(t, "registryLogin") /\ Found(t, "initialLabel") THEN IF r.ok THEN q ELSE r ELSE Refused(t)
  BY DEF LoginModelDefaults, Then
<1>2. Keeps(t, r, {"initialSelection"}) /\ r.text \in Texts /\ (r.ok => Marked(r.text, "initialSelection"))
  BY <1>0, PutOneKeeps DEF Keeps
<1> HIDE DEF r
<1>3. Keeps(r.text, q, {"modelSwitch"}) /\ (q.ok => Marked(q.text, "modelSwitch"))
  BY <1>0, <1>2, PutOneKeeps
<1> HIDE DEF q
<1>4. Keeps(t, r, {"initialSelection", "modelSwitch"}) /\ Keeps(t, q, {"initialSelection", "modelSwitch"}) /\ q.text["initialSelection"] = r.text["initialSelection"]
  BY <1>0, <1>2, <1>3 DEF Keeps
<1>5. Keeps(t, Refused(t), {"initialSelection", "modelSwitch"}) /\ ~Refused(t).ok
  BY UnchangedKeeps
<1> QED
  BY <1>1, <1>2, <1>3, <1>4, <1>5 DEF Marked

\* The two shapes of the registry.
LEMMA BuiltinProviderAliasesKeeps ==
  \A t \in Texts :
    /\ Keeps(t, BuiltinProviderAliases(t), Writes["builtin-aliases"])
    /\ ~Marked(t, "providerLookup") /\ BuiltinProviderAliases(t).ok =>
         \/ Marked(BuiltinProviderAliases(t).text, "registryBuilder")
         \/ \A p \in Writes["builtin-aliases"] \ {"registryBuilder"} : Marked(BuiltinProviderAliases(t).text, p)
<1> SUFFICES ASSUME NEW t \in Texts
             PROVE  /\ Keeps(t, BuiltinProviderAliases(t), Writes["builtin-aliases"])
                    /\ ~Marked(t, "providerLookup") /\ BuiltinProviderAliases(t).ok =>
                         \/ Marked(BuiltinProviderAliases(t).text, "registryBuilder")
                         \/ \A p \in Writes["builtin-aliases"] \ {"registryBuilder"} :
                              Marked(BuiltinProviderAliases(t).text, p)
  OBVIOUS
<1> DEFINE W == Writes["builtin-aliases"]
           three == {"providerLookup", "modelLookup", "selection"}
           r == RegistryAliases(t)
           q == Unless(t, {"registryBuilder"}, r)
           s == Unless(t, {"providerLookup"}, q)
<1>0. W = {"providerLookup", "modelLookup", "selection", "registryBuilder"} /\ W \subseteq Places
  BY AllIds, AllWrites, SomePlaces
<1> HIDE DEF W
<1>1. BuiltinProviderAliases(t) = s
  BY DEF BuiltinProviderAliases
<1>2. r \in {Anchored(t, {"selection"}, {}, three), Anchored(t, {"registryBuilder"}, {}, {"registryBuilder"})}
  BY DEF RegistryAliases
<1>3. /\ Keeps(t, Anchored(t, {"selection"}, {}, three), W)
      /\ Anchored(t, {"selection"}, {}, three).ok =>
           \A p \in Places \cap three : Marked(Anchored(t, {"selection"}, {}, three).text, p)
  <2>1. three \subseteq W
    BY <1>0
  <2> HIDE DEF three
  <2> QED
    BY <2>1, AnchoredKeeps
<1>4. /\ Keeps(t, Anchored(t, {"registryBuilder"}, {}, {"registryBuilder"}), W)
      /\ Anchored(t, {"registryBuilder"}, {}, {"registryBuilder"}).ok =>
           \A p \in Places \cap {"registryBuilder"} :
             Marked(Anchored(t, {"registryBuilder"}, {}, {"registryBuilder"}).text, p)
  BY <1>0, AnchoredKeeps
<1>5. /\ Keeps(t, r, W)
      /\ r.ok => Marked(r.text, "registryBuilder") \/ \A p \in three : Marked(r.text, p)
  BY <1>0, <1>2, <1>3, <1>4
<1> HIDE DEF r
<1>6. /\ Keeps(t, q, W)
      /\ q.ok => \/ Marked(t, "registryBuilder") /\ q.text = t
                 \/ r.ok /\ q.text = r.text
  <2>1. /\ Keeps(t, r, W) => Keeps(t, q, W)
        /\ q.ok => \/ (\A p \in {"registryBuilder"} : Marked(t, p)) /\ q.text = t
                   \/ ~(\A p \in {"registryBuilder"} : Marked(t, p)) /\ r.ok /\ q.text = r.text
    BY ZenonT(40), UnlessKeeps
  <2> QED
    BY <1>5, <2>1
<1> HIDE DEF q
<1>7. /\ Keeps(t, s, W)
      /\ s.ok => Marked(t, "providerLookup") \/ (q.ok /\ s.text = q.text)
  <2>1. /\ Keeps(t, q, W) => Keeps(t, s, W)
        /\ s.ok => \/ (\A p \in {"providerLookup"} : Marked(t, p)) /\ s.text = t
                   \/ ~(\A p \in {"providerLookup"} : Marked(t, p)) /\ q.ok /\ s.text = q.text
    BY ZenonT(40), UnlessKeeps
  <2> QED
    BY <1>6, <2>1
<1> HIDE DEF s
<1>8. ~Marked(t, "providerLookup") /\ s.ok =>
        Marked(s.text, "registryBuilder") \/ \A p \in W \ {"registryBuilder"} : Marked(s.text, p)
  BY <1>0, <1>5, <1>6, <1>7
<1> QED
  BY <1>1, <1>7, <1>8 DEF W

\* A patch leaves the places of the others as they were.
LEMMA ApplyKeeps ==
  \A t \in Texts : \A id \in Ids : Keeps(t, Apply(id, t), Writes[id])
<1> SUFFICES ASSUME NEW t \in Texts, NEW id \in Ids
             PROVE  Keeps(t, Apply(id, t), Writes[id])
  OBVIOUS
<1>a. Keeps(t, Unchanged(t), Writes[id]) /\ Keeps(t, Refused(t), Writes[id])
  BY UnchangedKeeps
<1>1. CASE id = "tui-execution-state"
  <2>1. Apply(id, t) = TuiExecutionState(t)
    BY <1>1, AllApplied
  <2> QED
    BY <1>1, <2>1, PatchKeeps DEF TuiExecutionState
<1>2. CASE id = "shared-config"
  <2>1. Apply(id, t) = SharedConfig(t)
    BY <1>2, AllApplied
  <2> QED
    BY <1>2, <2>1, PatchKeeps DEF SharedConfig
<1>3. CASE id = "session-model-recovery"
  <2>1. Apply(id, t) = SessionModelRecovery(t)
    BY <1>3, AllApplied
  <2> QED
    BY <1>3, <2>1, PatchKeeps DEF SessionModelRecovery
<1>4. CASE id = "official-mcp"
  <2>1. Apply(id, t) = OfficialMcp(t)
    BY <1>4, AllApplied
  <2>2. {"mcpRecord"} \subseteq Writes[id]
    BY <1>4, AllWrites
  <2> QED
    BY <2>1, <2>2, PatchKeeps DEF OfficialMcp
<1>5. CASE id = "stream-eof"
  <2>1. Apply(id, t) = StreamEofFinishGuard(t)
    BY <1>5, AllApplied
  <2> QED
    BY <1>5, <2>1, PatchKeeps DEF StreamEofFinishGuard
<1>6. CASE id = "attach-metadata"
  <2>1. Apply(id, t) = AttachSessionMetadata(t)
    BY <1>6, AllApplied
  <2>2. {"attach"} \subseteq Writes[id]
    BY <1>6, AllWrites
  <2> QED
    BY <2>1, <2>2, PatchKeeps DEF AttachSessionMetadata
<1>7. CASE id = "metadata-turn"
  <2>1. Apply(id, t) = TuiMetadataTurn(t)
    BY <1>7, AllApplied
  <2>2. {"metadataTurn"} \subseteq Writes[id]
    BY <1>7, AllWrites
  <2> QED
    BY <2>1, <2>2, PatchKeeps DEF TuiMetadataTurn
<1>8. CASE id = "sqlite-busy"
  <2>1. Apply(id, t) = SqliteBusyTimeout(t)
    BY <1>8, AllApplied
  <2> QED
    BY <1>8, <2>1, PatchKeeps DEF SqliteBusyTimeout
<1>9. CASE id = "desktop-oauth"
  <2>1. Apply(id, t) = ZaiDesktopOAuth(t)
    BY <1>9, AllApplied
  <2>2. {"credential"} \subseteq Writes[id]
    BY <1>9, AllWrites
  <2> QED
    BY <2>1, <2>2, PatchKeeps DEF ZaiDesktopOAuth
<1>10. CASE id = "max-turns"
  <2>1. Apply(id, t) = MaxTurnsEnforcement(t)
    BY <1>10, AllApplied
  <2>2. {"loopHead"} \subseteq Writes[id]
    BY <1>10, AllWrites
  <2> QED
    BY <2>1, <2>2, PatchKeeps DEF MaxTurnsEnforcement
<1>11. CASE id = "subagent-max-turns"
  <2>1. Apply(id, t) = SubagentMaxTurns(t)
    BY <1>11, AllApplied
  <2>2. {"spawnDefault"} \subseteq Writes[id]
    BY <1>11, AllWrites
  <2> QED
    BY <2>1, <2>2, PatchKeeps DEF SubagentMaxTurns
<1>12. CASE id = "expert-strategy"
  <2>1. Apply(id, t) = ExpertStrategyConfig(t)
    BY <1>12, AllApplied
  <2>2. {"strategy"} \subseteq Writes[id]
    BY <1>12, AllWrites
  <2> QED
    BY <2>1, <2>2, PatchKeeps DEF ExpertStrategyConfig
<1>13. CASE id = "tui-bridge"
  <2>1. Apply(id, t) = TuiBridge(t)
    BY <1>13, AllApplied
  <2> QED
    BY <1>13, <2>1, TuiBridgeKeeps
<1>14. CASE id = "model-catalog-reload"
  <2>1. Apply(id, t) = ModelCatalogReload(t)
    BY <1>14, AllApplied
  <2> QED
    BY <1>14, <2>1, ModelCatalogReloadKeeps
<1>15. CASE id = "builtin-aliases"
  <2>1. Apply(id, t) = BuiltinProviderAliases(t)
    BY <1>15, AllApplied
  <2> QED
    BY <1>15, <2>1, BuiltinProviderAliasesKeeps
<1>16. CASE id = "terminal-tool-projection"
  <2>1. Apply(id, t) = TerminalToolProjection(t) /\ Writes[id] = {"completed", "failed"}
    BY <1>16, AllApplied, AllWrites
  <2> QED
    BY <2>1, TerminalToolProjectionKeeps
<1>17. CASE id = "login-defaults"
  <2>1. Apply(id, t) = LoginModelDefaults(t) /\ Writes[id] = {"initialSelection", "modelSwitch"}
    BY <1>17, AllApplied, AllWrites
  <2> QED
    BY <2>1, LoginModelDefaultsKeeps
<1>18. CASE id = "goal-failure-pause"
  <2>1. Apply(id, t) = GoalFailurePause(t) /\ "goalStatus" \in Writes[id] /\ "goalStatus" \in Places
    BY <1>18, AllApplied, AllWrites, SomePlaces
  <2> QED
    BY <2>1, PutOneKeeps DEF GoalFailurePause
<1>19. CASE id = "agent-auto-background"
  <2>1. Apply(id, t) = AgentAutoBackground(t) /\ "autoBackground" \in Writes[id] /\ "autoBackground" \in Places
    BY <1>19, AllApplied, AllWrites, SomePlaces
  <2> QED
    BY <2>1, PutOneKeeps DEF AgentAutoBackground
<1>20. CASE id = "detached-agent"
  <2>1. Apply(id, t) = DetachedAgentLifecycle(t) /\ "detachedRunner" \in Writes[id] /\ "detachedRunner" \in Places
    BY <1>20, AllApplied, AllWrites, SomePlaces
  <2>2. DetachedAgentLifecycle(t) \in {PutAll(t, "detachedRunner"), Unless(t, {"detachedRunner"}, Refused(t))}
    BY <2>1 DEF DetachedAgentLifecycle
  <2>3. Keeps(t, PutAll(t, "detachedRunner"), Writes[id])
    BY <2>1, PutAllKeeps
  <2>4. Keeps(t, Unless(t, {"detachedRunner"}, Refused(t)), Writes[id])
    BY <1>a, UnlessKeeps
  <2> QED
    BY <1>a, <2>1, <2>2, <2>3, <2>4
<1>21. CASE id = "http-no-content"
  <2>1. Apply(id, t) = HttpNoContent(t) /\ "response" \in Writes[id] /\ "response" \in Places
    BY <1>21, AllApplied, AllWrites, SomePlaces
  <2>2. HttpNoContent(t) \in {PutAll(t, "response")}
    BY <2>1 DEF HttpNoContent
  <2>3. Keeps(t, PutAll(t, "response"), Writes[id])
    BY <2>1, PutAllKeeps
  <2> QED
    BY <1>a, <2>1, <2>2, <2>3
<1>22. CASE id = "network-retry"
  <2>1. Apply(id, t) = NetworkRetry(t) /\ Writes["network-retry"] = Writes[id]
    BY <1>22, AllApplied, AllWrites, SomePlaces
  <2>2. NetworkRetry(t) \in {Unchanged(t), Refused(t),
       Anchored(t, {}, {"whitelist", "extractor", "classifier", "streamGate"} \cup Writes[id], Writes[id])}
    BY <2>1 DEF NetworkRetry
  <2>3. Keeps(t, Anchored(t, {}, {"whitelist", "extractor", "classifier", "streamGate"} \cup Writes[id], Writes[id]), Writes[id])
    BY AnchoredKeeps
  <2> QED
    BY <1>a, <2>1, <2>2, <2>3
<1>23. CASE id = "oauth-errors"
  <2>1. Apply(id, t) = OAuthHttpErrors(t) /\ Writes["oauth-errors"] = Writes[id]
    BY <1>23, AllApplied, AllWrites, SomePlaces
  <2>2. OAuthHttpErrors(t) \in {Unchanged(t), Unless(t, {"oauthParser"}, Anchored(t, {"decoder"}, {}, Writes[id]))}
    BY <2>1 DEF OAuthHttpErrors
  <2>3. Keeps(t, Unless(t, {"oauthParser"}, Anchored(t, {"decoder"}, {}, Writes[id])), Writes[id])
    BY PatchKeeps
  <2> QED
    BY <1>a, <2>1, <2>2, <2>3
<1>24. CASE id = "ledger-forwarding"
  <2>1. Apply(id, t) = StreamingLedgerForwarding(t) /\ {"ledger"} \subseteq Writes[id]
    BY <1>24, AllApplied, AllWrites, SomePlaces
  <2>2. StreamingLedgerForwarding(t) \in {Put(t, {"ledger"}), Unless(t, {"ledger"}, Refused(t))}
    BY <2>1 DEF StreamingLedgerForwarding
  <2>3. Keeps(t, Put(t, {"ledger"}), Writes[id])
    BY <2>1, PutKeeps
  <2>4. Keeps(t, Unless(t, {"ledger"}, Refused(t)), Writes[id])
    BY <1>a, UnlessKeeps
  <2> QED
    BY <1>a, <2>1, <2>2, <2>3, <2>4
<1>25. CASE id = "cli-help"
  <2>1. Apply(id, t) = CliHelpContract(t) /\ "helpLines" \in Writes[id] /\ "helpLines" \in Places
    BY <1>25, AllApplied, AllWrites, SomePlaces
  <2>2. CliHelpContract(t) \in {PutAll(t, "helpLines"), Refused(t)}
    BY <2>1 DEF CliHelpContract
  <2>3. Keeps(t, PutAll(t, "helpLines"), Writes[id])
    BY <2>1, PutAllKeeps
  <2> QED
    BY <1>a, <2>1, <2>2, <2>3
<1> QED
  BY AllIds, <1>1, <1>2, <1>3, <1>4, <1>5, <1>6, <1>7, <1>8, <1>9, <1>10, <1>11, <1>12, <1>13, <1>14, <1>15, <1>16, <1>17, <1>18, <1>19, <1>20, <1>21, <1>22, <1>23, <1>24, <1>25

\* A place no patch has been at.
Fresh(id, t) ==
  \A p \in Writes[id] : /\ t[p] \in {"shipped", "doubled", "gone", "native"}
                        /\ t[p] = "native" => p \in NativeForms

\* What most patches are for.
LEMMA UsuallyFulfilled ==
  \A id \in Ids : \A t :
    /\ id \notin {"cli-help", "oauth-errors", "http-no-content", "tui-bridge", "model-catalog-reload",
                  "builtin-aliases"} => (Fulfilled(id, t) <=> \A p \in Writes[id] : Marked(t, p))
    /\ id = "cli-help" => (Fulfilled(id, t) <=> ~Found(t, "helpLines"))
    /\ id = "oauth-errors" => (Fulfilled(id, t) <=> ~Found(t, "oauthParser"))
    /\ id = "http-no-content" => (Fulfilled(id, t) <=> t["response"] \in {"patched", "native"})
    /\ id = "tui-bridge" =>
         (Fulfilled(id, t) <=> /\ ~Found(t, "startedTurn")
                              /\ \A p \in Writes[id] \ {"loginGate", "startedTurn"} : Marked(t, p))
    /\ id = "model-catalog-reload" => (Fulfilled(id, t) <=> Marked(t, "reload") /\ Marked(t, "fields"))
    /\ id = "builtin-aliases" =>
         (Fulfilled(id, t) <=> \/ Marked(t, "registryBuilder")
                              \/ \A p \in Writes[id] \ {"registryBuilder"} : Marked(t, p))
BY AllIds DEF Fulfilled

\* What is verified.
LEMMA VerifiedMarks ==
  \A id \in Ids : \A t :
    /\ id \in {"goal-failure-pause", "terminal-tool-projection", "detached-agent", "stream-eof",
               "agent-auto-background", "http-no-content", "network-retry", "attach-metadata",
               "metadata-turn", "sqlite-busy", "desktop-oauth", "subagent-max-turns", "expert-strategy"}
         => (Verify(id, t) => \A p \in Writes[id] : Marked(t, p))
    /\ id = "oauth-errors" => (Verify(id, t) => ~Found(t, "oauthParser"))
    /\ id = "cli-help" => (Verify(id, t) => ~Found(t, "helpLines"))
BY AllIds DEF Verified, Verify, Ids

\* A patch that is applied to what upstream shipped and verified is all it is for.
LEMMA ApplyDone ==
  \A t \in Texts : \A id \in Ids :
    Fresh(id, t) /\ Apply(id, t).ok /\ Verify(id, Apply(id, t).text) => Fulfilled(id, Apply(id, t).text)
<1> SUFFICES ASSUME NEW t \in Texts, NEW id \in Ids,
                    Fresh(id, t), Apply(id, t).ok, Verify(id, Apply(id, t).text)
             PROVE  Fulfilled(id, Apply(id, t).text)
  OBVIOUS
<1> DEFINE u == Apply(id, t).text
<1>a. CASE id \in {"goal-failure-pause", "terminal-tool-projection", "detached-agent", "stream-eof",
                   "agent-auto-background", "network-retry", "attach-metadata",
                   "metadata-turn", "sqlite-busy", "desktop-oauth", "subagent-max-turns",
                   "expert-strategy"}
  <2>1. \A p \in Writes[id] : Marked(u, p)
    BY <1>a, VerifiedMarks
  <2> QED
    BY <1>a, <2>1, UsuallyFulfilled
<1>b. CASE id \in {"oauth-errors", "cli-help"}
  <2>1. /\ id = "oauth-errors" => ~Found(u, "oauthParser")
        /\ id = "cli-help" => ~Found(u, "helpLines")
    BY VerifiedMarks
  <2> QED
    BY <1>b, <2>1, UsuallyFulfilled
<1>c. CASE id = "http-no-content"
  <2>1. Apply(id, t) = PutAll(t, "response") /\ "response" \in Places /\ "response" \in Writes[id]
    BY <1>c, AllApplied, SomePlaces, AllWrites DEF HttpNoContent
  <2>2. Marked(u, "response")
    BY <1>c, <2>1, VerifiedMarks
  <2>3. ~Found(PutAll(t, "response").text, "response")
    BY <2>1, PutAllKeeps
  <2>4. u["response"] \in {"patched", "native"}
    BY <2>1, <2>2, <2>3 DEF Marked, Found
  <2> QED
    BY <1>c, <2>4, UsuallyFulfilled
<1>1. CASE id = "tui-execution-state"
  <2> DEFINE r == Unless(t, {"getter"}, Anchored(t, {"planEnabled"} \cup Writes["tui-execution-state"], {}, Writes["tui-execution-state"]))
  <2>1. Apply(id, t) = r
    BY <1>1, AllApplied DEF TuiExecutionState
  <2>2. Writes["tui-execution-state"] = Writes[id] /\ "getter" \in Writes[id] /\ Writes[id] \subseteq Places
    BY <1>1, AllWrites, SomePlaces
  <2>3. ~Marked(t, "getter")
    BY <2>2 DEF Fresh, Marked, NativeForms
  <2>4. r.ok => \/ (\A p \in {"getter"} : Marked(t, p)) /\ r.text = t
               \/ \A p \in Places \cap Writes["tui-execution-state"] : Marked(r.text, p)
    BY PatchKeeps
  <2> HIDE DEF r
  <2>5. \A p \in Writes[id] : Marked(u, p)
    BY <2>1, <2>2, <2>3, <2>4
  <2> QED
    BY <1>1, <2>5, UsuallyFulfilled
<1>2. CASE id = "shared-config"
  <2> DEFINE r == Unless(t, {"main"}, Anchored(t, {"importer", "repositoryClass", "loader"} \cup Writes["shared-config"], {}, Writes["shared-config"]))
  <2>1. Apply(id, t) = r
    BY <1>2, AllApplied DEF SharedConfig
  <2>2. Writes["shared-config"] = Writes[id] /\ "main" \in Writes[id] /\ Writes[id] \subseteq Places
    BY <1>2, AllWrites, SomePlaces
  <2>3. ~Marked(t, "main")
    BY <2>2 DEF Fresh, Marked, NativeForms
  <2>4. r.ok => \/ (\A p \in {"main"} : Marked(t, p)) /\ r.text = t
               \/ \A p \in Places \cap Writes["shared-config"] : Marked(r.text, p)
    BY PatchKeeps
  <2> HIDE DEF r
  <2>5. \A p \in Writes[id] : Marked(u, p)
    BY <2>1, <2>2, <2>3, <2>4
  <2> QED
    BY <1>2, <2>5, UsuallyFulfilled
<1>3. CASE id = "session-model-recovery"
  <2> DEFINE r == Unless(t, {"facade", "restore"}, Anchored(t, Writes["session-model-recovery"], {}, Writes["session-model-recovery"]))
  <2>1. Apply(id, t) = r
    BY <1>3, AllApplied DEF SessionModelRecovery
  <2>2. Writes["session-model-recovery"] = Writes[id] /\ "facade" \in Writes[id] /\ Writes[id] \subseteq Places
    BY <1>3, AllWrites, SomePlaces
  <2>3. ~Marked(t, "facade")
    BY <2>2 DEF Fresh, Marked, NativeForms
  <2>4. r.ok => \/ (\A p \in {"facade", "restore"} : Marked(t, p)) /\ r.text = t
               \/ \A p \in Places \cap Writes["session-model-recovery"] : Marked(r.text, p)
    BY PatchKeeps
  <2> HIDE DEF r
  <2>5. \A p \in Writes[id] : Marked(u, p)
    BY <2>1, <2>2, <2>3, <2>4
  <2> QED
    BY <1>3, <2>5, UsuallyFulfilled
<1>4. CASE id = "official-mcp"
  <2> DEFINE r == Unless(t, {"mcpRecord"}, Anchored(t, {}, {"mcpRecord"}, {"mcpRecord"}))
  <2>1. Apply(id, t) = r
    BY <1>4, AllApplied DEF OfficialMcp
  <2>2. {"mcpRecord"} = Writes[id] /\ "mcpRecord" \in Writes[id] /\ Writes[id] \subseteq Places
    BY <1>4, AllWrites, SomePlaces
  <2>3. ~Marked(t, "mcpRecord")
    BY <2>2 DEF Fresh, Marked, NativeForms
  <2>4. r.ok => \/ (\A p \in {"mcpRecord"} : Marked(t, p)) /\ r.text = t
               \/ \A p \in Places \cap {"mcpRecord"} : Marked(r.text, p)
    BY PatchKeeps
  <2> HIDE DEF r
  <2>5. \A p \in Writes[id] : Marked(u, p)
    BY <2>1, <2>2, <2>3, <2>4
  <2> QED
    BY <1>4, <2>5, UsuallyFulfilled
<1>5. CASE id = "max-turns"
  <2> DEFINE r == Unless(t, {"loopHead"}, Anchored(t, {"loopLabel", "errorFactory"}, {"loopHead"}, {"loopHead"}))
  <2>1. Apply(id, t) = r
    BY <1>5, AllApplied DEF MaxTurnsEnforcement
  <2>2. {"loopHead"} = Writes[id] /\ "loopHead" \in Writes[id] /\ Writes[id] \subseteq Places
    BY <1>5, AllWrites, SomePlaces
  <2>3. ~Marked(t, "loopHead")
    BY <2>2 DEF Fresh, Marked, NativeForms
  <2>4. r.ok => \/ (\A p \in {"loopHead"} : Marked(t, p)) /\ r.text = t
               \/ \A p \in Places \cap {"loopHead"} : Marked(r.text, p)
    BY PatchKeeps
  <2> HIDE DEF r
  <2>5. \A p \in Writes[id] : Marked(u, p)
    BY <2>1, <2>2, <2>3, <2>4
  <2> QED
    BY <1>5, <2>5, UsuallyFulfilled
<1>6. CASE id = "tui-bridge"
  <2>1. Apply(id, t) = TuiBridge(t) /\ "methods" \in Writes[id]
    BY <1>6, AllApplied, AllWrites
  <2>2. ~Marked(t, "methods")
    BY <2>1 DEF Fresh, Marked, NativeForms
  <2> QED
    BY <1>6, <2>1, <2>2, TuiBridgeKeeps, UsuallyFulfilled
<1>7. CASE id = "model-catalog-reload"
  <2>1. Apply(id, t) = ModelCatalogReload(t) /\ "reload" \in Writes[id]
    BY <1>7, AllApplied, AllWrites
  <2>2. ~Marked(t, "reload")
    BY <2>1 DEF Fresh, Marked, NativeForms
  <2> QED
    BY <1>7, <2>1, <2>2, ModelCatalogReloadKeeps, UsuallyFulfilled
<1>8. CASE id = "builtin-aliases"
  <2>1. Apply(id, t) = BuiltinProviderAliases(t) /\ "providerLookup" \in Writes[id]
    BY <1>8, AllApplied, AllWrites
  <2>2. ~Marked(t, "providerLookup")
    BY <2>1 DEF Fresh, Marked, NativeForms
  <2> QED
    BY <1>8, <2>1, <2>2, BuiltinProviderAliasesKeeps, UsuallyFulfilled
<1>9. CASE id = "ledger-forwarding"
  <2>1. Apply(id, t) = StreamingLedgerForwarding(t) /\ Writes[id] = {"ledger"} /\ "ledger" \in Places
    BY <1>9, AllApplied, AllWrites, SomePlaces
  <2>2. StreamingLedgerForwarding(t) \in {Put(t, {"ledger"}), Unless(t, {"ledger"}, Refused(t))}
    BY DEF StreamingLedgerForwarding
  <2>3. Marked(Put(t, {"ledger"}).text, "ledger")
    BY <2>1, PutKeeps
  <2>4. Unless(t, {"ledger"}, Refused(t)).ok => Marked(Unless(t, {"ledger"}, Refused(t)).text, "ledger")
    BY DEF Unless, Refused, Unchanged
  <2>5. \A p \in Writes[id] : Marked(u, p)
    BY <2>1, <2>2, <2>3, <2>4
  <2> QED
    BY <1>9, <2>5, UsuallyFulfilled
<1>10. CASE id = "login-defaults"
  <2>1. Apply(id, t) = LoginModelDefaults(t) /\ Writes[id] = {"initialSelection", "modelSwitch"}
    BY <1>10, AllApplied, AllWrites
  <2>2. LoginModelDefaults(t).ok => /\ Marked(LoginModelDefaults(t).text, "initialSelection")
                                   /\ Marked(LoginModelDefaults(t).text, "modelSwitch")
    BY LoginModelDefaultsKeeps
  <2>3. \A p \in Writes[id] : Marked(u, p)
    BY <2>1, <2>2
  <2> QED
    BY <1>10, <2>3, UsuallyFulfilled
<1> QED
  BY AllIds, <1>a, <1>b, <1>c, <1>1, <1>2, <1>3, <1>4, <1>5, <1>6, <1>7, <1>8, <1>9, <1>10

-----------------------------------------------------------------------------
(* The plan as a whole. *)

\* The reports of patches.
Reports == [id : Ids, status : {"already_present", "applied", "skipped", "failed"}]

\* The places of a patch that is still to come are as upstream shipped them.
Untouched ==
  \A id \in Ids : Turn(id) > Len(patchReports) => \A p \in Writes[id] : text[p] = Upstream(drift)[p]

\* The patches are applied in the order of the plan, one report each.
PatchInv ==
  /\ drift \in Drifts
  /\ PatchesTypeOK
  /\ patchReports \in Seq(Reports)
  /\ \A n \in 1 .. Len(patchReports) : patchReports[n].id = runtimePatchPlan[n]
  /\ Untouched
  /\ PatchedRuntimeIsTrue

\* How a bundle may differ.
LEMMA UpstreamForms ==
  \A d \in Drifts :
    /\ Upstream(d) \in Texts
    /\ \A p \in Places : /\ Upstream(d)[p] \in {"shipped", "doubled", "gone", "native"}
                         /\ Upstream(d)[p] = "native" => p \in NativeForms
<1> SUFFICES ASSUME NEW d \in Drifts
             PROVE  /\ Upstream(d) \in Texts
                    /\ \A p \in Places : /\ Upstream(d)[p] \in {"shipped", "doubled", "gone", "native"}
                                         /\ Upstream(d)[p] = "native" => p \in NativeForms
  OBVIOUS
<1> DEFINE f(p) == IF p \in DOMAIN d THEN d[p] ELSE Shipped[p]
<1>1. ASSUME NEW p \in Places
      PROVE  f(p) \in {"shipped", "doubled", "gone", "native"} /\ (f(p) = "native" => p \in NativeForms)
  <2>1. Shipped[p] \in {"shipped", "gone"}
    BY DEF Shipped
  <2>2. CASE p \in DOMAIN d
    <3>1. d[p] \in Forms(p)
      BY <2>2, DriftsAssumption
    <3> QED
      BY <2>2, <3>1 DEF Forms
  <2> QED
    BY <2>1, <2>2
<1>2. Upstream(d) = [p \in Places |-> f(p)]
  BY DEF Upstream
<1> HIDE DEF f
<1> QED
  BY <1>1, <1>2 DEF Texts

\* What a patch is for depends on its own places and, for the reload of the
\* catalogue, on what the bridge put before.
LEMMA StaysFulfilled ==
  \A t, u : \A id \in Ids :
    /\ Fulfilled(id, t)
    /\ \A p \in Writes[id] : u[p] = t[p]
    /\ id = "model-catalog-reload" => u["fields"] = t["fields"]
    => Fulfilled(id, u)
<1> SUFFICES ASSUME NEW t, NEW u, NEW id \in Ids, Fulfilled(id, t), \A p \in Writes[id] : u[p] = t[p],
                    id = "model-catalog-reload" => u["fields"] = t["fields"]
             PROVE  Fulfilled(id, u)
  OBVIOUS
<1>1. CASE id \notin {"cli-help", "oauth-errors", "http-no-content", "tui-bridge", "model-catalog-reload",
                      "builtin-aliases"}
  <2>1. Fulfilled(id, t) <=> \A p \in Writes[id] : Marked(t, p)
    BY <1>1, UsuallyFulfilled
  <2>2. Fulfilled(id, u) <=> \A p \in Writes[id] : Marked(u, p)
    BY <1>1, UsuallyFulfilled
  <2> QED
    BY <2>1, <2>2 DEF Marked
<1>2. CASE id = "cli-help"
  BY <1>2, AllWrites DEF Fulfilled, Found
<1>3. CASE id = "oauth-errors"
  BY <1>3, AllWrites DEF Fulfilled, Found
<1>4. CASE id = "http-no-content"
  BY <1>4, AllWrites DEF Fulfilled
<1>5. CASE id = "tui-bridge"
  BY <1>5, AllWrites DEF Fulfilled, Found, Marked
<1>6. CASE id = "model-catalog-reload"
  BY <1>6, AllWrites DEF Fulfilled, Marked
<1>7. CASE id = "builtin-aliases"
  BY <1>7, AllWrites DEF Fulfilled, Marked
<1> QED
  BY <1>1, <1>2, <1>3, <1>4, <1>5, <1>6, <1>7

\* The vendored runtime before the first patch.
LEMMA PatchesBegin == PatchesInit => PatchInv
<1> SUFFICES ASSUME PatchesInit PROVE PatchInv
  OBVIOUS
<1>1. drift \in Drifts /\ text = Upstream(drift) /\ patchReports = <<>>
  BY DEF PatchesInit
<1>2. text \in Texts
  BY <1>1, UpstreamForms
<1>3. patchReports \in Seq(Reports) /\ Len(patchReports) = 0 /\ DOMAIN patchReports = {}
  BY <1>1, EmptySeq
<1>4. PatchesTypeOK
  BY <1>2, <1>3, OneTurn DEF PatchesTypeOK, Texts
<1>5. Untouched
  BY <1>1 DEF Untouched
<1>6. PatchedRuntimeIsTrue
  BY <1>3 DEF PatchedRuntimeIsTrue
<1> QED
  BY <1>1, <1>3, <1>4, <1>5, <1>6 DEF PatchInv

\* Counting them.
LEMMA NextTurn ==
  \A k \in Nat : k < 25 => k + 1 \in 1 .. 25 /\ k + 1 > k /\ 1 .. k \subseteq 1 .. 25
OBVIOUS

\* A step runs the next patch of the plan and leaves the places of the others.
LEMMA OnePatch ==
  ASSUME PatchInv, RunPatch
  PROVE  \E id \in Ids, status \in {"already_present", "applied", "skipped", "failed"} :
           /\ Len(patchReports) < 25 /\ id = runtimePatchPlan[Len(patchReports) + 1]
           /\ \A n \in DOMAIN patchReports : patchReports[n].status # "failed"
           /\ patchReports' = Append(patchReports, [id |-> id, status |-> status])
           /\ text' \in Texts /\ \A p \in Places \ Writes[id] : text'[p] = text[p]
           /\ status \in {"applied", "already_present"} => Fulfilled(id, text')
           /\ status \in {"already_present", "skipped", "failed"} => text' = text
           /\ status = "skipped" => id \in Optional
<1>1. Len(patchReports) < Len(runtimePatchPlan)
      /\ \A n \in DOMAIN patchReports : patchReports[n].status # "failed"
  BY DEF RunPatch, PatchesGoOn
<1>2. PICK id \in {runtimePatchPlan[Len(patchReports) + 1]} :
        \E once \in {Apply(id, text)} : \E again \in {Apply(id, once.text)} :
          /\ patchReports' = Append(patchReports, [id |-> id, status |-> Outcome(id, once, again)])
          /\ text' = Kept(id, once, again)
  BY DEF RunPatch
<1> DEFINE once == Apply(id, text)
           again == Apply(id, once.text)
           status == Outcome(id, once, again)
<1>3. /\ patchReports' = Append(patchReports, [id |-> id, status |-> status])
      /\ text' = Kept(id, once, again)
  BY <1>2
<1>4. Len(patchReports) \in Nat /\ Len(patchReports) < 25 /\ text \in Texts
  BY <1>1, OneTurn, LenProperties DEF PatchInv, PatchesTypeOK, Texts
<1>5. id = runtimePatchPlan[Len(patchReports) + 1] /\ id \in Ids /\ Turn(id) > Len(patchReports)
  <2> DEFINE m == Len(patchReports) + 1
  <2>1. m \in 1 .. 25 /\ m > Len(patchReports)
    BY <1>4, NextTurn
  <2>2. id = runtimePatchPlan[m]
    OBVIOUS
  <2> HIDE DEF m
  <2>3. id \in Ids /\ Turn(id) = m
    BY <2>1, <2>2, OneTurn
  <2> QED
    BY <2>1, <2>2, <2>3 DEF m
<1>6. Keeps(text, once, Writes[id])
  BY <1>4, <1>5, ApplyKeeps
<1>7. Fresh(id, text)
  <2>1. Writes[id] \subseteq Places /\ \A p \in Writes[id] : text[p] = Upstream(drift)[p]
    BY <1>5, OneOwner DEF PatchInv, Untouched
  <2>2. drift \in Drifts
    BY DEF PatchInv
  <2> QED
    BY <2>1, <2>2, UpstreamForms DEF Fresh
<1>8. Fresh(id, text) /\ once.ok /\ Verify(id, once.text) => Fulfilled(id, once.text)
  BY <1>4, <1>5, ApplyDone
<1> HIDE DEF once, again
<1>9. Holds(id, once, again) => Fulfilled(id, once.text)
  BY <1>7, <1>8 DEF Holds
<1>10. /\ status \in {"already_present", "applied", "skipped", "failed"}
       /\ status \in {"applied", "already_present"} => Holds(id, once, again)
       /\ status \in {"skipped", "failed"} => ~Holds(id, once, again)
       /\ status = "already_present" => once.text = text
       /\ status = "skipped" => id \in Optional
  BY DEF Outcome
<1> HIDE DEF status
<1>11. text' = IF Holds(id, once, again) THEN once.text ELSE text
  BY <1>3 DEF Kept
<1>12. text' \in Texts /\ \A p \in Places \ Writes[id] : text'[p] = text[p]
  BY <1>4, <1>6, <1>11 DEF Keeps
<1>13. /\ status \in {"applied", "already_present"} => Fulfilled(id, text')
       /\ status \in {"already_present", "skipped", "failed"} => text' = text
  BY <1>9, <1>10, <1>11
<1> QED
  BY <1>1, <1>3, <1>4, <1>5, <1>10, <1>12, <1>13

\* Every patch keeps the reports true.
LEMMA PatchesGoOnTrue == PatchInv /\ [RunPatch]_patchVars => PatchInv'
<1>1. ASSUME PatchInv, RunPatch PROVE PatchInv'
  <2>1. PICK id \in Ids, status \in {"already_present", "applied", "skipped", "failed"} :
           /\ Len(patchReports) < 25 /\ id = runtimePatchPlan[Len(patchReports) + 1]
           /\ \A n \in DOMAIN patchReports : patchReports[n].status # "failed"
           /\ patchReports' = Append(patchReports, [id |-> id, status |-> status])
           /\ text' \in Texts /\ \A p \in Places \ Writes[id] : text'[p] = text[p]
           /\ status \in {"applied", "already_present"} => Fulfilled(id, text')
           /\ status \in {"already_present", "skipped", "failed"} => text' = text
           /\ status = "skipped" => id \in Optional
    BY <1>1, OnePatch
  <2> DEFINE last == [id |-> id, status |-> status]
             m == Len(patchReports) + 1
  <2>2. drift' = drift /\ drift \in Drifts
    BY <1>1 DEF PatchInv, RunPatch
  <2>3. /\ patchReports \in Seq(Reports) /\ last \in Reports
        /\ Len(patchReports) \in Nat /\ DOMAIN patchReports = 1 .. Len(patchReports)
    BY <1>1, LenProperties DEF PatchInv, Reports
  <2>4. /\ patchReports' \in Seq(Reports) /\ Len(patchReports') = m /\ DOMAIN patchReports' = 1 .. m
        /\ patchReports'[m] = last /\ \A n \in 1 .. Len(patchReports) : patchReports'[n] = patchReports[n]
    BY <2>1, <2>3, AppendProperties, LenProperties
  <2>5. m \in 1 .. 25 /\ Turn(id) = m
    <3>1. m \in 1 .. 25
      BY <2>1, <2>3, NextTurn
    <3>2. id = runtimePatchPlan[m]
      BY <2>1
    <3>3. \A k \in 1 .. 25 : Turn(runtimePatchPlan[k]) = k
      BY OneTurn
    <3> HIDE DEF m
    <3>4. Turn(id) = m
      BY <3>1, <3>2, <3>3, Zenon
    <3> QED
      BY <3>1, <3>4, Zenon
  <2>6. PatchesTypeOK'
    <3>1. text' \in Texts
      BY <2>1
    <3>2. Len(patchReports') <= Len(runtimePatchPlan)
      <4>1. Len(runtimePatchPlan) = 25
        BY OneTurn
      <4>2. Len(patchReports') = m
        BY <2>4, Zenon
      <4>3. m \in 1 .. 25
        BY <2>5, Zenon
      <4> HIDE DEF m
      <4>4. m <= 25
        BY <4>3
      <4> QED
        BY <4>1, <4>2, <4>4, Zenon
    <3> QED
      BY <3>1, <3>2 DEF PatchesTypeOK, Texts
  <2>7. \A n \in 1 .. Len(patchReports) : patchReports[n].id = runtimePatchPlan[n]
    BY <1>1 DEF PatchInv
  <2>8. (\A n \in 1 .. Len(patchReports) : patchReports[n].id = runtimePatchPlan[n])'
    BY <2>1, <2>3, <2>4, <2>7
  <2>9. \A other \in Ids \ {id} : \A p \in Writes[other] : text'[p] = text[p]
    <3> SUFFICES ASSUME NEW other \in Ids \ {id}, NEW p \in Writes[other] PROVE text'[p] = text[p]
      OBVIOUS
    <3>1. p \in Places /\ Owner(p) = other
      BY OneOwner
    <3>2. p \notin Writes[id]
      BY <3>1, OneOwner
    <3> QED
      BY <2>1, <3>1, <3>2
  <2>10. Untouched'
    <3> SUFFICES ASSUME NEW other \in Ids, Turn(other) > m, NEW p \in Writes[other]
                 PROVE  text'[p] = Upstream(drift)[p]
      BY <2>2, <2>4 DEF Untouched
    <3>1. other # id /\ Turn(other) > Len(patchReports)
      <4>1. Turn(id) = m /\ m > Len(patchReports) /\ Turn(other) \in Int
        BY <2>3, <2>5 DEF Turn
      <4> QED
        BY <2>3, <4>1
    <3>2. text[p] = Upstream(drift)[p]
      BY <1>1, <3>1 DEF PatchInv, Untouched
    <3> QED
      BY <2>9, <3>1, <3>2
  <2>11. PatchedRuntimeIsTrue'
    <3> SUFFICES ASSUME NEW n \in 1 .. m
                 PROVE  LET r == patchReports'[n] IN
                        /\ r.status \in {"applied", "already_present"} => Fulfilled(r.id, text')
                        /\ r.status \in {"already_present", "skipped", "failed"} =>
                             \A p \in Writes[r.id] : text'[p] = Upstream(drift)[p]
                        /\ r.status = "skipped" => r.id \in Optional
                        /\ r.status = "failed" => n = m
      BY <2>2, <2>4 DEF PatchedRuntimeIsTrue
    <3>1. CASE n = m
      <4>1. patchReports'[n].id = id /\ patchReports'[n].status = status
        BY <2>4, <3>1
      <4>2. \A p \in Writes[id] : text[p] = Upstream(drift)[p]
        BY <1>1, <2>3, <2>5 DEF PatchInv, Untouched
      <4> QED
        BY <2>1, <3>1, <4>1, <4>2
    <3>2. CASE n # m
      <4>1. n \in 1 .. Len(patchReports) /\ patchReports'[n] = patchReports[n] /\ n < m
        BY <2>3, <2>4, <3>2
      <4> DEFINE r == patchReports[n]
      <4>2. /\ r.status \in {"applied", "already_present"} => Fulfilled(r.id, text)
            /\ r.status \in {"already_present", "skipped", "failed"} =>
                 \A p \in Writes[r.id] : text[p] = Upstream(drift)[p]
            /\ r.status = "skipped" => r.id \in Optional
        BY <1>1, <2>3, <4>1 DEF PatchInv, PatchedRuntimeIsTrue
      <4>3. r.status # "failed"
        BY <2>1, <2>3, <4>1
      <4>4. r.id \in Ids /\ Turn(r.id) = n
        <5>1. 1 .. Len(patchReports) \subseteq 1 .. 25
          BY <2>1, <2>3, NextTurn
        <5>2. n \in 1 .. 25 /\ r.id = runtimePatchPlan[n]
          BY <2>7, <4>1, <5>1
        <5> QED
          BY <5>2, OneTurn
      <4>5. r.id # id
        BY <2>3, <2>5, <4>1, <4>4
      <4>6. \A p \in Writes[r.id] : text'[p] = text[p]
        BY <2>9, <4>4, <4>5
      <4>7. r.id = "model-catalog-reload" => text'["fields"] = text["fields"]
        <5> SUFFICES ASSUME r.id = "model-catalog-reload" PROVE text'["fields"] = text["fields"]
          OBVIOUS
        <5>1. n = 6 /\ id # "tui-bridge"
          BY <2>3, <2>5, <4>1, <4>4 DEF Turn
        <5>2. "fields" \in Writes["tui-bridge"] /\ "tui-bridge" \in Ids
          BY AllIds, AllWrites
        <5> QED
          BY <2>9, <5>1, <5>2
      <4> HIDE DEF r
      <4>8. r.status \in {"applied", "already_present"} => Fulfilled(r.id, text')
        BY <4>2, <4>4, <4>6, <4>7, StaysFulfilled
      <4>9. patchReports'[n] = r
        BY <4>1 DEF r
      <4> QED
        BY <4>2, <4>3, <4>6, <4>8, <4>9
    <3> QED
      BY <3>1, <3>2
  <2> QED
    BY <2>2, <2>4, <2>6, <2>8, <2>10, <2>11 DEF PatchInv
<1>2. ASSUME PatchInv, UNCHANGED patchVars PROVE PatchInv'
  BY <1>2 DEF PatchInv, patchVars, PatchesTypeOK, Untouched, PatchedRuntimeIsTrue
<1> QED
  BY <1>1, <1>2

(* A vendored runtime is what its patch reports say, whatever places of     *)
(* the upstream bundle differ from the supported one, and however many.    *)
THEOREM PatchReportsAreTrue == PatchesSpec => []PatchedRuntimeIsTrue
<1>1. PatchInv => PatchedRuntimeIsTrue
  BY DEF PatchInv
<1> QED
  BY <1>1, PatchesBegin, PatchesGoOnTrue, PTL DEF PatchesSpec
=============================================================================
