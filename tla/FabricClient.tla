---------------------------- MODULE FabricClient ----------------------------
(***************************************************************************)
(* The calls one process makes to the work fabric: fabricCall of           *)
(* src/src/gall-work.ts under the ConcurrencyCap and the bounded backoff   *)
(* of src/src/provider-backoff.ts.  A step runs to the next await; a       *)
(* promise that is resolved wakes its waiter in a later step.              *)
(***************************************************************************)
EXTENDS Integers, Sequences, FiniteSets

CONSTANTS
  Call,         \* the calls of this process
  Limit,        \* ConcurrencyCap.limit
  MaxAttempts,  \* BackoffPolicy.maxAttempts
  Barging       \* may a call begin between a release and the resumption of the
                \* waiter it woke? acquire allows it; whether it happens is up
                \* to the callers

ASSUME FabricAssumption ==
  /\ IsFiniteSet(Call)
  /\ Limit \in Nat \ {0} /\ MaxAttempts \in Nat \ {0} /\ Barging \in BOOLEAN

VARIABLES
  inFlight,  \* ConcurrencyCap.inFlight
  queue,     \* ConcurrencyCap.queue
  callAt,        \* where each call is
  attempt    \* the attempt each call is at

fabricVars == <<inFlight, queue, callAt, attempt>>

At(step)  == {c \in Call : callAt[c] = step}
Woken     == At("woken")
Executing == At("sending") \cup At("sleeping")
-----------------------------------------------------------------------------
FabricInit ==
  /\ inFlight = 0
  /\ queue = <<>>
  /\ callAt = [c \in Call |-> "new"]
  /\ attempt = [c \in Call |-> 0]

\* The rest of acquire, and the first attempt.
Enter(c) ==
  /\ inFlight' = inFlight + 1
  /\ callAt' = [callAt EXCEPT ![c] = "sending"]
  /\ attempt' = [attempt EXCEPT ![c] = 1]

\* (mutant) the bound is compared with <= for <
AcquireOffByOne(c) ==
  /\ callAt[c] = "new"
  /\ Barging \/ Woken = {}
  /\ \/ inFlight <= Limit /\ Enter(c) /\ UNCHANGED queue
     \/ /\ inFlight > Limit
        /\ queue' = Append(queue, c)
        /\ callAt' = [callAt EXCEPT ![c] = "waiting"]
        /\ UNCHANGED <<inFlight, attempt>>

\* A call begins: acquire goes ahead below the bound and waits at it.
Acquire(c) ==
  /\ callAt[c] = "new"
  /\ Barging \/ Woken = {}
  /\ \/ inFlight < Limit /\ Enter(c) /\ UNCHANGED queue
     \/ /\ inFlight >= Limit
        /\ queue' = Append(queue, c)
        /\ callAt' = [callAt EXCEPT ![c] = "waiting"]
        /\ UNCHANGED <<inFlight, attempt>>

\* The waiter goes on after its await; it does not look at the bound again.
Resume(c) ==
  /\ callAt[c] = "woken"
  /\ Enter(c)
  /\ UNCHANGED queue

\* (mutant) release only wakes a waiter once nothing is in flight
ReleaseWhenIdle(c) ==
  /\ inFlight' = inFlight - 1
  /\ IF queue = <<>> \/ inFlight > 1
     THEN callAt' = [callAt EXCEPT ![c] = "ended"] /\ UNCHANGED queue
     ELSE /\ callAt' = [callAt EXCEPT ![c] = "ended", ![Head(queue)] = "woken"]
          /\ queue' = Tail(queue)

\* (mutant) release gives the slot back and wakes nobody
ReleaseSilently(c) ==
  /\ inFlight' = inFlight - 1
  /\ callAt' = [callAt EXCEPT ![c] = "ended"]
  /\ UNCHANGED queue

\* run's finally: give the slot back and wake the first waiter.
Release(c) ==
  /\ inFlight' = inFlight - 1
  /\ IF queue = <<>>
     THEN callAt' = [callAt EXCEPT ![c] = "ended"] /\ UNCHANGED queue
     ELSE /\ callAt' = [callAt EXCEPT ![c] = "ended", ![Head(queue)] = "woken"]
          /\ queue' = Tail(queue)

\* The fabric answers with anything but a capacity signal: a result, an error,
\* no connection, the 15 s timeout.
Answered(c) ==
  /\ callAt[c] = "sending"
  /\ Release(c)
  /\ UNCHANGED attempt

\* The fabric answers 429 or 1302: sleep and try again, or refuse.
Saturated(c) ==
  /\ callAt[c] = "sending"
  /\ \/ attempt[c] < MaxAttempts /\ callAt' = [callAt EXCEPT ![c] = "sleeping"]
        /\ UNCHANGED <<inFlight, queue>>
     \/ attempt[c] = MaxAttempts /\ Release(c)
  /\ UNCHANGED attempt

\* The delay is over; the call kept its slot through it.
Retry(c) ==
  /\ callAt[c] = "sleeping"
  /\ callAt' = [callAt EXCEPT ![c] = "sending"]
  /\ attempt' = [attempt EXCEPT ![c] = @ + 1]
  /\ UNCHANGED <<inFlight, queue>>

FabricNext ==
  \E c \in Call : Acquire(c) \/ Resume(c) \/ Answered(c) \/ Saturated(c) \/ Retry(c)

FabricSpec == FabricInit /\ [][FabricNext]_fabricVars

\* A resolved promise resumes, a timer fires, and every request ends because
\* it carries AbortSignal.timeout.
CallGoesOn(c) == Resume(c) \/ Answered(c) \/ Saturated(c) \/ Retry(c)

Fairness == \A c \in Call : WF_fabricVars(CallGoesOn(c))

FairFabric == FabricSpec /\ Fairness
-----------------------------------------------------------------------------
(* Properties *)

\* Types: the bound counts the calls that hold a slot, the queue holds each
\* waiting call once, and a call that sleeps has an attempt left.
FabricTypeOK ==
  /\ inFlight \in Nat
  /\ queue \in Seq(Call)
  /\ callAt \in [Call -> {"new", "waiting", "woken", "sending", "sleeping", "ended"}]
  /\ attempt \in [Call -> 0..MaxAttempts]
  /\ \A c \in At("sleeping") : attempt[c] < MaxAttempts
  /\ inFlight = Cardinality(Executing)
  /\ \A c \in Call : callAt[c] = "waiting" <=> \E i \in DOMAIN queue : queue[i] = c
  /\ \A i, j \in DOMAIN queue : queue[i] = queue[j] => i = j

\* No lost wakeup: while a call waits in ConcurrencyCap.queue, every slot is
\* taken or promised to a waiter that has been woken.
NoIdleSlot == queue # <<>> => inFlight + Cardinality(Woken) >= Limit

\* The cap's own promise: no more than `limit` calls execute at once, those
\* that sleep between two attempts included.
WithinLimit == inFlight <= Limit

\* FIFO: a call that has just begun never goes ahead of one that waits in
\* ConcurrencyCap.queue or has been woken from it.
NoOvertaking ==
  [][\A c \in Call : callAt[c] = "new" /\ callAt'[c] = "sending" =>
                      queue = <<>> /\ Woken = {}]_fabricVars

\* Nothing is dropped: a call that waits in the cap is answered or refused in
\* the end, whatever the fabric answers to it and to the calls before it.
EveryCallEnds == \A c \in Call : callAt[c] = "waiting" ~> callAt[c] = "ended"
=============================================================================
