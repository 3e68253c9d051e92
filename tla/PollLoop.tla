------------------------------ MODULE PollLoop ------------------------------
(***************************************************************************)
(* The long-poll loop of internal/bot/poll.go: it asks Telegram for        *)
(* updates, advances its offset and starts one handler per update, bounded *)
(* by a semaphore, and drains the handlers before it returns.              *)
(*                                                                         *)
(* Telegram keeps an update until a getUpdates call passes a higher offset.*)
(* The process may be cancelled by a signal or killed at any moment; a new *)
(* one starts without an offset.                                           *)
(***************************************************************************)
EXTENDS Integers, FiniteSets

CONSTANTS
  NumUpdates,   \* bound: how many updates users send
  Workers,      \* the capacity of the semaphore (updateWorkers)
  BatchLimit,   \* the most updates Telegram returns at once
  BackoffCap    \* maxPollBackoff in steps of pollBackoffStep

ASSUME PollAssumption ==
  /\ NumUpdates \in Nat
  /\ Workers \in Nat \ {0}
  /\ BatchLimit \in Nat \ {0}
  /\ BackoffCap \in Nat \ {0}

Updates == 1..NumUpdates

VARIABLES
  arrived,    \* Telegram: the last update users have sent
  confirmed,  \* Telegram: every update below this offset is forgotten
  pc,         \* where Run is
  offset,     \* 0 until the first update was seen
  next,       \* the next update of the batch to dispatch
  last,       \* the last update of the batch
  failures,   \* pollFailures, which only matters up to BackoffCap
  inFlight,   \* the updates whose handler is running
  cancelled,  \* ctx.Done
  taken,      \* ghost: the updates this process has dispatched
  started     \* ghost: the updates some process has dispatched

telegram == <<arrived, confirmed>>
vars == <<arrived, confirmed, pc, offset, next, last, failures, inFlight,
          cancelled, taken, started>>

PCs == {"head", "poll", "backoff", "dispatch", "drain", "returned", "down"}

TypeOK ==
  /\ arrived \in 0..NumUpdates
  /\ confirmed \in 1..(NumUpdates + 1)
  /\ pc \in PCs
  /\ offset \in 0..(NumUpdates + 1)
  /\ next \in 1..(NumUpdates + 1)
  /\ last \in 0..NumUpdates
  /\ failures \in 0..BackoffCap
  /\ inFlight \subseteq Updates
  /\ cancelled \in BOOLEAN
  /\ taken \subseteq Updates
  /\ started \subseteq Updates

Init ==
  /\ arrived = 0 /\ confirmed = 1
  /\ pc = "head"
  /\ offset = 0 /\ next = 1 /\ last = 0 /\ failures = 0
  /\ inFlight = {} /\ taken = {} /\ started = {}
  /\ cancelled = FALSE

-----------------------------------------------------------------------------
(* Telegram                                                                *)

\* A user sends an update.
Arrive ==
  /\ arrived < NumUpdates
  /\ arrived' = arrived + 1
  /\ UNCHANGED <<confirmed, pc, offset, next, last, failures, inFlight,
                 cancelled, taken, started>>

Larger(a, b) == IF a > b THEN a ELSE b
Smaller(a, b) == IF a < b THEN a ELSE b

\* getUpdates forgets what lies below the offset it is given.
Confirmed == Larger(confirmed, offset)

-----------------------------------------------------------------------------
(* The loop                                                                *)

\* The loop's condition, ctx.Err() == nil, lets the next GetUpdates go out.
Poll ==
  /\ pc = "head"
  /\ ~cancelled
  /\ pc' = "poll"
  /\ UNCHANGED <<telegram, offset, next, last, failures, inFlight, cancelled,
                 taken, started>>

\* MUTANT of LeaveLoop: the loop's condition does not look at the context.
BugLeaveLoop ==
  /\ pc = "head"
  /\ cancelled
  /\ pc' = "poll"
  /\ UNCHANGED <<telegram, offset, next, last, failures, inFlight, cancelled,
                 taken, started>>

LeaveLoop ==
  /\ pc = "head"
  /\ cancelled
  /\ pc' = "drain"
  /\ UNCHANGED <<telegram, offset, next, last, failures, inFlight, cancelled,
                 taken, started>>

\* GetUpdates answers with the oldest updates Telegram still keeps, or none.
PollAnswered ==
  /\ pc = "poll"
  /\ confirmed' = Confirmed
  /\ next' = Confirmed
  /\ last' = Smaller(arrived, Confirmed + BatchLimit - 1)
  /\ failures' = 0
  /\ pc' = "dispatch"
  /\ UNCHANGED <<arrived, offset, inFlight, cancelled, taken, started>>

\* MUTANT of PollFailed: the delay grows without its cap.
BugPollFailed ==
  /\ pc = "poll"
  /\ confirmed' \in {confirmed, Confirmed}
  /\ IF cancelled
     THEN pc' = "drain" /\ UNCHANGED failures
     ELSE pc' = "backoff" /\ failures' = failures + 1
  /\ UNCHANGED <<arrived, offset, next, last, inFlight, cancelled, taken, started>>

\* GetUpdates fails, with or without having reached Telegram.
PollFailed ==
  /\ pc = "poll"
  /\ confirmed' \in {confirmed, Confirmed}
  /\ IF cancelled
     THEN pc' = "drain" /\ UNCHANGED failures
     ELSE pc' = "backoff" /\ failures' = Smaller(failures + 1, BackoffCap)
  /\ UNCHANGED <<arrived, offset, next, last, inFlight, cancelled, taken, started>>

\* The delay passes, or the context ends it.
Backoff ==
  /\ pc = "backoff"
  /\ \/ pc' = "head"
     \/ cancelled /\ pc' = "drain"
  /\ UNCHANGED <<telegram, offset, next, last, failures, inFlight, cancelled,
                 taken, started>>

\* MUTANT of Dispatch: an update that finds no free slot is dropped.
BugDispatch ==
  /\ pc = "dispatch"
  /\ next <= last
  /\ offset' = next + 1
  /\ next' = next + 1
  /\ IF Cardinality(inFlight) < Workers
     THEN /\ inFlight' = inFlight \cup {next}
          /\ taken' = taken \cup {next}
          /\ started' = started \cup {next}
     ELSE UNCHANGED <<inFlight, taken, started>>
  /\ UNCHANGED <<telegram, pc, last, failures, cancelled>>

\* MUTANT of Dispatch: the offset stays at the update.
BugOffset ==
  /\ pc = "dispatch"
  /\ next <= last
  /\ Cardinality(inFlight) < Workers
  /\ offset' = next
  /\ next' = next + 1
  /\ inFlight' = inFlight \cup {next}
  /\ taken' = taken \cup {next}
  /\ started' = started \cup {next}
  /\ UNCHANGED <<telegram, pc, last, failures, cancelled>>

\* A slot is free: the offset moves past the update and its handler starts.
Dispatch ==
  /\ pc = "dispatch"
  /\ next <= last
  /\ Cardinality(inFlight) < Workers
  /\ offset' = next + 1
  /\ next' = next + 1
  /\ inFlight' = inFlight \cup {next}
  /\ taken' = taken \cup {next}
  /\ started' = started \cup {next}
  /\ UNCHANGED <<telegram, pc, last, failures, cancelled>>

\* MUTANT of Abandon: only the batch is left, not the loop.
BugAbandon ==
  /\ pc = "dispatch"
  /\ next <= last
  /\ cancelled
  /\ offset' = next + 1
  /\ pc' = "head"
  /\ UNCHANGED <<telegram, next, last, failures, inFlight, cancelled, taken, started>>

\* The context is cancelled while the update waits for a slot: the offset has
\* moved past it already, but is never sent to Telegram.
Abandon ==
  /\ pc = "dispatch"
  /\ next <= last
  /\ cancelled
  /\ offset' = next + 1
  /\ pc' = "drain"
  /\ UNCHANGED <<telegram, next, last, failures, inFlight, cancelled, taken, started>>

BatchDone ==
  /\ pc = "dispatch"
  /\ next > last
  /\ pc' = "head"
  /\ UNCHANGED <<telegram, offset, next, last, failures, inFlight, cancelled,
                 taken, started>>

\* Route returns and frees its slot.
HandlerDone(u) ==
  /\ u \in inFlight
  /\ inFlight' = inFlight \ {u}
  /\ UNCHANGED <<telegram, pc, offset, next, last, failures, cancelled, taken, started>>

\* The deferred inFlight.Wait: Run returns when its handlers have.
Return ==
  /\ pc = "drain"
  /\ inFlight = {}
  /\ pc' = "returned"
  /\ UNCHANGED <<telegram, offset, next, last, failures, inFlight, cancelled,
                 taken, started>>

-----------------------------------------------------------------------------
(* The process                                                             *)

Cancel ==
  /\ pc \notin {"returned", "down"}
  /\ ~cancelled
  /\ cancelled' = TRUE
  /\ UNCHANGED <<telegram, pc, offset, next, last, failures, inFlight, taken, started>>

\* The process exits, or is killed with handlers running.
Die ==
  /\ pc # "down"
  /\ pc' = "down"
  /\ inFlight' = {}
  /\ UNCHANGED <<telegram, offset, next, last, failures, cancelled, taken, started>>

Start ==
  /\ pc = "down"
  /\ pc' = "head"
  /\ offset' = 0 /\ next' = 1 /\ last' = 0 /\ failures' = 0
  /\ cancelled' = FALSE
  /\ taken' = {}
  /\ UNCHANGED <<telegram, inFlight, started>>

-----------------------------------------------------------------------------

Loop ==
  Poll \/ LeaveLoop \/ PollAnswered \/ PollFailed \/ Backoff \/ Dispatch \/ Abandon
  \/ BatchDone \/ Return

Next ==
  \/ Arrive
  \/ Loop
  \/ \E u \in Updates : HandlerDone(u)
  \/ Cancel \/ Die \/ Start

Spec == Init /\ [][Next]_vars

\* The loop takes its steps, a poll repeated for ever is answered at last, a
\* handler returns (its calls have timeouts), a process that has returned exits
\* and a new one is started; signals and kills come finitely often.
Fairness ==
  /\ WF_vars(Loop)
  /\ SF_vars(PollAnswered)
  /\ \A u \in Updates : WF_vars(HandlerDone(u))
  /\ WF_vars(pc = "returned" /\ Die)
  /\ WF_vars(Start)
  /\ <>[][~Cancel /\ (Die => pc = "returned")]_vars

FairSpec == Spec /\ Fairness

-----------------------------------------------------------------------------
(* Properties                                                              *)

\* Telegram forgets an update only after a handler was started for it: a full
\* semaphore, a signal in the middle of a batch or a failed poll loses none.
ForgottenWasStarted == \A u \in Updates : u < confirmed => u \in started

\* One process handles an update once, however often the poll is repeated.
OncePerProcess == [][\A u \in Updates : u \in inFlight' \ inFlight => u \notin taken]_vars

\* Every update reaches a handler, over any failed polls and restarts.
EveryUpdateStarted == \A u \in Updates : arrived >= u ~> u \in started

\* A cancelled loop comes to its end: no slot, delay or handler keeps it.
CancelledReturns == cancelled ~> pc \in {"returned", "down"}
=============================================================================
