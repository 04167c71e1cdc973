---------------------------- MODULE OAuthHandler ----------------------------
(***************************************************************************)
(* Z.AI logins on macOS (src/src/darwin-oauth-callback.ts and              *)
(* src/src/zai-oauth.ts): a login makes an application of its own the      *)
(* default handler of the zcode scheme, waits for the browser to call it,  *)
(* and gives the scheme back.  A recovery file says whom to give it back   *)
(* to when a login was killed.  A step runs to the next await.             *)
(***************************************************************************)
EXTENDS Integers, FiniteSets

CONSTANTS
  Login,        \* the login processes; each names its bundle and its state
  NoLogin,      \* none of them
  UserHandler,  \* the handlers that are not of this program
  Overlap,      \* may a login begin while another one is still starting?
  QuietFailure, \* may a restoration fail that cleanup does not report?
  MaxFailures,  \* failures of a system command, in all
  MaxCrashes,   \* logins that are killed, in all
  MaxChoices    \* times the user chooses a handler meanwhile

ASSUME OAuthAssumption ==
  /\ UserHandler # {} /\ UserHandler \cap Login = {} /\ NoLogin \notin Login \cup UserHandler
  /\ Overlap \in BOOLEAN /\ QuietFailure \in BOOLEAN
  /\ MaxFailures \in Nat /\ MaxCrashes \in Nat /\ MaxChoices \in Nat

VARIABLES
  handler,   \* the default handler of the scheme
  record,    \* the recovery file: whose, and the handler it has to restore; a
             \* file that does not parse counts as none
  app,       \* the logins whose application is on disk
  callback,  \* the callback file of each login: whose authorization came in
  pc,        \* the await each login is at
  previous,  \* previousHandler of each login
  changed,   \* handlerChanged of each login
  stale,     \* the recovery record a login found
  accepted,  \* whether the authorization came in
  failures, crashes, choices

files   == <<handler, record, app, callback>>
locals  == <<previous, changed, stale, accepted>>
budgets == <<failures, crashes, choices>>
oauthVars == <<files, pc, locals, budgets>>

NoRecord  == [owner |-> NoLogin, previous |-> NoLogin]
HasRecord == record # NoRecord

Starting == {"check", "discard", "staleRead", "staleRestore", "staleRemove",
             "staleForget", "prepare", "build", "record"}
Ended    == {"new", "crashed", "ended"}

Alive(l) == pc[l] \notin Ended
Go(l, step) == pc' = [pc EXCEPT ![l] = step]

\* A system command fails.
Fail == failures < MaxFailures /\ failures' = failures + 1
Works == UNCHANGED failures
-----------------------------------------------------------------------------
OAuthInit ==
  /\ handler \in UserHandler
  /\ record = NoRecord /\ app = {}
  /\ callback = [l \in Login |-> NoLogin]
  /\ pc = [l \in Login |-> "new"]
  /\ previous = [l \in Login |-> NoLogin]
  /\ changed = [l \in Login |-> FALSE]
  /\ stale = [l \in Login |-> NoRecord]
  /\ accepted = [l \in Login |-> FALSE]
  /\ failures = 0 /\ crashes = 0 /\ choices = 0

\* Nothing is left of an earlier login of the name l: a bundle's nonce is new.
Unused(l) ==
  /\ ~Alive(l) /\ l \notin app
  /\ l \notin {handler, record.owner, record.previous}
  /\ \A k \in Login \ {l} : l \notin {previous[k], stale[k].owner, stale[k].previous}

\* zcode login
Begin(l) ==
  /\ Unused(l)
  /\ Overlap \/ \A k \in Login : pc[k] \notin Starting
  /\ Go(l, "check")
  /\ previous' = [previous EXCEPT ![l] = NoLogin]
  /\ changed' = [changed EXCEPT ![l] = FALSE]
  /\ stale' = [stale EXCEPT ![l] = NoRecord]
  /\ accepted' = [accepted EXCEPT ![l] = FALSE]
  /\ UNCHANGED <<files, budgets>>

\* recoverStaleDarwinOAuthHandler reads the recovery file.  A file that does
\* not parse counts as none and is removed.
CheckRecord(l) ==
  /\ pc[l] = "check"
  /\ \/ ~HasRecord /\ Go(l, "discard") /\ UNCHANGED stale
     \/ HasRecord /\ Alive(record.owner) /\ Go(l, "ended") /\ UNCHANGED stale
     \/ /\ HasRecord /\ ~Alive(record.owner)
        /\ stale' = [stale EXCEPT ![l] = record]
        /\ Go(l, "staleRead")
  /\ UNCHANGED <<files, previous, changed, accepted, budgets>>

Discard(l) ==
  /\ pc[l] = "discard"
  /\ record' = NoRecord
  /\ Go(l, "prepare")
  /\ UNCHANGED <<handler, app, callback, locals, budgets>>

\* The handler of the killed login is only replaced while it is the default.
StaleRead(l) ==
  /\ pc[l] = "staleRead"
  /\ \/ Works /\ Go(l, IF handler = stale[l].owner THEN "staleRestore" ELSE "staleRemove")
     \/ QuietFailure /\ Fail /\ Go(l, "staleRemove")
  /\ UNCHANGED <<files, locals, crashes, choices>>

StaleRestore(l) ==
  /\ pc[l] = "staleRestore"
  /\ \/ Works /\ handler' = stale[l].previous /\ Go(l, "staleRemove")
     \/ Fail /\ UNCHANGED handler /\ Go(l, "ended")
  /\ UNCHANGED <<record, app, callback, locals, crashes, choices>>

StaleRemove(l) ==
  /\ pc[l] = "staleRemove"
  /\ app' = app \ {stale[l].owner}
  /\ Go(l, "staleForget")
  /\ UNCHANGED <<handler, record, callback, locals, budgets>>

StaleForget(l) ==
  /\ pc[l] = "staleForget"
  /\ record' = NoRecord
  /\ Go(l, "prepare")
  /\ UNCHANGED <<handler, app, callback, locals, budgets>>

\* createDarwinUrlCallbackReceiver asks for the handler it has to restore.
Prepare(l) ==
  /\ pc[l] = "prepare"
  /\ \/ Works /\ previous' = [previous EXCEPT ![l] = handler] /\ Go(l, "build")
     \/ Fail /\ Go(l, "cleanRead") /\ UNCHANGED previous
  /\ UNCHANGED <<files, changed, stale, accepted, crashes, choices>>

\* Compile, sign and register the application; it knows whom to restore.
Build(l) ==
  /\ pc[l] = "build"
  /\ app' = app \cup {l}
  /\ \/ Works /\ Go(l, "record")
     \/ Fail /\ Go(l, "cleanRead")
  /\ UNCHANGED <<handler, record, callback, locals, crashes, choices>>

\* (mutant) the recovery file is written once the handler is in place
WriteRecordLater(l) ==
  /\ pc[l] = "record"
  /\ handler' = l /\ changed' = [changed EXCEPT ![l] = TRUE]
  /\ Go(l, "install")
  /\ UNCHANGED <<record, app, callback, previous, stale, accepted, budgets>>

WriteRecord(l) ==
  /\ pc[l] = "record"
  /\ record' = [owner |-> l, previous |-> previous[l]]
  /\ Go(l, "install")
  /\ UNCHANGED <<handler, app, callback, locals, budgets>>

Install(l) ==
  /\ pc[l] = "install"
  /\ \/ /\ Works
        /\ handler' = l /\ changed' = [changed EXCEPT ![l] = TRUE]
        /\ Go(l, "verify")
     \/ Fail /\ Go(l, "cleanRead") /\ UNCHANGED <<handler, changed>>
  /\ UNCHANGED <<record, app, callback, previous, stale, accepted, crashes, choices>>

Verify(l) ==
  /\ pc[l] = "verify"
  /\ \/ Works /\ Go(l, IF handler = l THEN "waiting" ELSE "cleanRead")
     \/ Fail /\ Go(l, "cleanRead")
  /\ UNCHANGED <<files, locals, crashes, choices>>

\* The browser answers the authorization of login s: the system opens the
\* default handler, whose script notes the address and gives the scheme back.
OpenUrl(s) ==
  /\ pc[s] = "waiting"
  /\ handler \in app
  /\ callback' = [callback EXCEPT ![handler] = s]
  /\ \/ Works /\ handler' = previous[handler]
     \/ Fail /\ UNCHANGED handler
  /\ UNCHANGED <<record, app, pc, locals, crashes, choices>>

\* waitForCallback finds an address; parseZaiOAuthCallback accepts it when it
\* answers the authorization of this login.
Receive(l) ==
  /\ pc[l] = "waiting" /\ callback[l] # NoLogin
  /\ accepted' = [accepted EXCEPT ![l] = callback[l] = l]
  /\ Go(l, "cleanRead")
  /\ UNCHANGED <<files, previous, changed, stale, budgets>>

\* It is aborted, or five minutes are over.
GiveUp(l) ==
  /\ pc[l] = "waiting"
  /\ Go(l, "cleanRead")
  /\ UNCHANGED <<files, locals, budgets>>

CleanRead(l) ==
  /\ pc[l] = "cleanRead"
  /\ \/ Works /\ Go(l, IF changed[l] /\ handler = l THEN "cleanSet" ELSE "cleanRemove")
     \/ QuietFailure /\ Fail /\ Go(l, "cleanRemove")
  /\ UNCHANGED <<files, locals, crashes, choices>>

CleanSet(l) ==
  /\ pc[l] = "cleanSet"
  /\ \/ Works /\ handler' = previous[l]
     \/ QuietFailure /\ Fail /\ UNCHANGED handler
  /\ Go(l, "cleanRemove")
  /\ UNCHANGED <<record, app, callback, locals, crashes, choices>>

CleanRemove(l) ==
  /\ pc[l] = "cleanRemove"
  /\ app' = app \ {l}
  /\ callback' = [callback EXCEPT ![l] = NoLogin]
  /\ Go(l, "cleanForget")
  /\ UNCHANGED <<handler, record, locals, budgets>>

\* The recovery file is only removed when it is this login's.  After dispose
\* an accepted login goes on to completeOfficialZaiLogin.
AfterCleanup(l) == IF accepted[l] THEN "complete" ELSE "ended"

CleanForget(l) ==
  /\ pc[l] = "cleanForget"
  /\ Go(l, IF record.owner = l THEN "cleanUnlink" ELSE AfterCleanup(l))
  /\ UNCHANGED <<files, locals, budgets>>

CleanUnlink(l) ==
  /\ pc[l] = "cleanUnlink"
  /\ record' = NoRecord
  /\ Go(l, AfterCleanup(l))
  /\ UNCHANGED <<handler, app, callback, locals, budgets>>

Complete(l) ==
  /\ pc[l] = "complete"
  /\ Go(l, "ended")
  /\ UNCHANGED <<files, locals, budgets>>

\* A login is killed; in the middle of the write of the recovery file it
\* leaves one that does not parse.
Crash(l) ==
  /\ Alive(l) /\ crashes < MaxCrashes
  /\ crashes' = crashes + 1
  /\ Go(l, "crashed")
  /\ \/ UNCHANGED record
     \/ pc[l] = "record" /\ record' = NoRecord
  /\ UNCHANGED <<handler, app, callback, locals, failures, choices>>

\* The user, or an application that is installed, takes the scheme.
Choose(u) ==
  /\ choices < MaxChoices
  /\ choices' = choices + 1
  /\ handler' = u
  /\ UNCHANGED <<record, app, callback, pc, locals, failures, crashes>>

Step(l) ==
  \/ CheckRecord(l) \/ Discard(l) \/ StaleRead(l) \/ StaleRestore(l)
  \/ StaleRemove(l) \/ StaleForget(l) \/ Prepare(l) \/ Build(l) \/ WriteRecord(l)
  \/ Install(l) \/ Verify(l) \/ Receive(l) \/ GiveUp(l)
  \/ CleanRead(l) \/ CleanSet(l) \/ CleanRemove(l) \/ CleanForget(l)
  \/ CleanUnlink(l) \/ Complete(l)

OAuthNext ==
  \/ \E l \in Login : Begin(l) \/ Step(l) \/ Crash(l) \/ OpenUrl(l)
  \/ \E u \in UserHandler : Choose(u)

OAuthSpec == OAuthInit /\ [][OAuthNext]_oauthVars

\* Commands end and the wait has a deadline; users do log in again.
OAuthFairness ==
  \A l \in Login : WF_oauthVars(Step(l)) /\ WF_oauthVars(Begin(l))

OAuthFairSpec == OAuthSpec /\ OAuthFairness
-----------------------------------------------------------------------------
(* Properties *)

\* As long as people log in, the scheme does not stay with this program: every
\* login gives it back in the end, or the next one does; it never stays for good
\* with a login that is gone and that no recovery file names.
HandlerComesBack == handler \in Login ~> handler \in UserHandler
=============================================================================
