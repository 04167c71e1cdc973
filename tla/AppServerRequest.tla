-------------------------- MODULE AppServerRequest --------------------------
(***************************************************************************)
(* requestAppServer of src/src/app-server-client.ts: a plugin command      *)
(* starts the runtime as an app server, writes one request to it and waits *)
(* for the process and its two outputs to end.  The request has no         *)
(* deadline of its own; what ends it is the answer, an abort or the        *)
(* process.                                                                *)
(***************************************************************************)
EXTENDS Integers

CONSTANTS
  Stubborn,  \* may the process ignore the signal it is asked to end with?
  Lingers    \* may a descendant of the process keep its outputs open?

ASSUME AppServerAssumption == Stubborn \in BOOLEAN /\ Lingers \in BOOLEAN

VARIABLES
  request,   \* "new", "waiting", or what it came to
  child,     \* "none", "failed" to start, "running", "exited" with status 0
             \* or "killed": any other status, or a signal
  output,    \* what the process has written: nothing, an answer, too much
  read,      \* whether the answer has been read
  stdin,     \* "open" or "ended"
  pipes,     \* whether somebody still holds the outputs
  aborted,   \* request.signal.aborted
  signalled, \* whether the process was asked to end
  timer      \* forceTerminationTimer

requestVars == <<request, child, output, read, stdin, pipes, aborted, signalled, timer>>

Answer == {"result", "error"}
Settled == request \notin {"new", "waiting"}
-----------------------------------------------------------------------------
RequestInit ==
  /\ request = "new" /\ child = "none" /\ output = "nothing" /\ read = FALSE
  /\ stdin = "open" /\ pipes = FALSE
  /\ aborted \in BOOLEAN /\ signalled = FALSE /\ timer = "none"

\* The process is started and the request written, unless it came too late.
Start ==
  /\ request = "new"
  /\ \/ aborted /\ request' = "cancelled" /\ UNCHANGED <<child, pipes>>
     \/ ~aborted /\ request' = "waiting" /\ child' = "running" /\ pipes' = TRUE
     \/ ~aborted /\ request' = "waiting" /\ child' = "failed" /\ UNCHANGED pipes
  /\ UNCHANGED <<output, read, stdin, aborted, signalled, timer>>

\* The runtime answers, or writes more than maximumOutputBytes.
Respond(answer) ==
  /\ child = "running" /\ output = "nothing"
  /\ output' = answer
  /\ UNCHANGED <<request, child, read, stdin, pipes, aborted, signalled, timer>>

Flood ==
  /\ child = "running" /\ output # "flood"
  /\ output' = "flood"
  /\ UNCHANGED <<request, child, read, stdin, pipes, aborted, signalled, timer>>

\* (mutant) the transport stays open after the response
ReadResponseOnly ==
  /\ request = "waiting" /\ output \in Answer /\ ~read
  /\ read' = TRUE
  /\ UNCHANGED <<request, child, output, stdin, pipes, aborted, signalled, timer>>

\* The line with the response is read and stdin ended.
ReadResponse ==
  /\ request = "waiting" /\ output \in Answer /\ ~read
  /\ read' = TRUE /\ stdin' = "ended"
  /\ UNCHANGED <<request, child, output, pipes, aborted, signalled, timer>>

\* readBounded throws: the process is killed and the request fails at once.
ReadFlood ==
  /\ request = "waiting" /\ output = "flood"
  /\ child' = IF child = "running" THEN "killed" ELSE child
  /\ request' = "overflow" /\ timer' = "none"
  /\ UNCHANGED <<output, read, stdin, pipes, aborted, signalled>>

\* onAbort asks the process to end and gives it half a second.
Abort ==
  /\ ~aborted /\ ~Settled
  /\ aborted' = TRUE
  /\ IF child = "running"
     THEN signalled' = TRUE /\ timer' = "armed"
     ELSE UNCHANGED <<signalled, timer>>
  /\ UNCHANGED <<request, child, output, read, stdin, pipes>>

ForceTermination ==
  /\ timer = "armed"
  /\ timer' = "fired"
  /\ child' = IF child = "running" THEN "killed" ELSE child
  /\ UNCHANGED <<request, output, read, stdin, pipes, aborted, signalled>>

\* The process ends by itself, after the end of its input or by the signal.
Exit(code) ==
  /\ child = "running"
  /\ child' = code
  /\ UNCHANGED <<request, output, read, stdin, pipes, aborted, signalled, timer>>

\* With the process and its descendants gone the outputs close.
Close ==
  /\ child \in {"exited", "killed"} /\ pipes
  /\ pipes' = FALSE
  /\ UNCHANGED <<request, child, output, read, stdin, aborted, signalled, timer>>

\* What Promise.all makes of it, in the order of the tests of the code.
Outcome ==
  IF aborted THEN "cancelled"
  ELSE IF child = "failed" THEN "launch error"
  ELSE IF output = "error" THEN "request error"
  ELSE IF child = "killed" THEN "process error"
  ELSE IF output = "result" THEN "result"
  ELSE "no response"

Settle ==
  /\ request = "waiting" /\ child # "running" /\ ~pipes
  /\ output # "flood"
  /\ output \in Answer => read
  /\ request' = Outcome /\ timer' = "none"
  /\ UNCHANGED <<child, output, read, stdin, pipes, aborted, signalled>>

RequestNext ==
  \/ Start \/ (\E a \in Answer : Respond(a)) \/ Flood
  \/ ReadResponse \/ ReadFlood \/ Abort \/ ForceTermination
  \/ (\E code \in {"exited", "killed"} : Exit(code)) \/ Close \/ Settle

RequestSpec == RequestInit /\ [][RequestNext]_requestVars

\* Streams are read and timers fire.  The runtime ends when its input does, and
\* at the signal unless it is stubborn; its outputs close with it unless a
\* descendant lingers.  That it answers at all is not assumed.
RequestFairness ==
  /\ WF_requestVars(Start) /\ WF_requestVars(ReadResponse)
  /\ WF_requestVars(ReadFlood) /\ WF_requestVars(ForceTermination)
  /\ WF_requestVars(Settle)
  /\ WF_requestVars(stdin = "ended" /\ Exit("exited"))
  /\ ~Stubborn => WF_requestVars(signalled /\ Exit("killed"))
  /\ ~Lingers => WF_requestVars(Close)

RequestFairSpec == RequestSpec /\ RequestFairness
-----------------------------------------------------------------------------
(* Properties *)

\* A request that was answered, or that its caller gave up, settles: whatever
\* the runtime does about the signal and about what it has written.
AnsweredOrAbortedSettles ==
  request = "waiting" /\ (output \in Answer \/ aborted) ~> Settled
=============================================================================
