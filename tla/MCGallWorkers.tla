--------------------------- MODULE MCGallWorkers ---------------------------
(***************************************************************************)
(* The two dispatches of MCGallWork on shared lease files, run by the      *)
(* dispatcher at the same time, or one after the other (`alone').  The     *)
(* bounds differ: a worker is killed only when alone, and of two at the    *)
(* same time a call fails only before the clock's second tick.             *)
(***************************************************************************)
EXTENDS MCGallWork

VARIABLE alone

workersVars == <<vars, alone>>

NobodyActive == \A w \in Worker : ~Active(w)

WorkersInit == Init /\ alone \in BOOLEAN

WorkersNext ==
  /\ Next /\ alone' = alone
  /\ alone => \A v, w \in Worker : Active(v)' /\ Active(w)' => v = w
  /\ ~alone => crashes' = 0 /\ (failures' = 0 \/ clock' < 2)

\* Processes are scheduled, calls return or time out, turns end (the deadline
\* kills one that does not), and the dispatcher starts what it has queued.
WorkersFair ==
  \A w \in Worker : /\ WF_vars(Run(w))
                    /\ WF_vars((alone => NobodyActive) /\ Dispatch(w))

WorkersSpec == WorkersInit /\ [][WorkersNext]_workersVars /\ WorkersFair

\* Workers dispatched one after the other find the gate armed with their own
\* lease for the whole turn, whatever the one before left in the files.
ArmedWhenAlone == alone => ArmedWhileConstructing
=============================================================================
