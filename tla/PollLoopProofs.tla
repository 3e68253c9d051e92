--------------------------- MODULE PollLoopProofs ---------------------------
(***************************************************************************)
(* Theorems about PollLoop, for every number of updates, slots and batch   *)
(* size.                                                                   *)
(***************************************************************************)
EXTENDS PollLoop, TLAPS

USE PollAssumption DEF PollAssumption

\* Where the loop may still poll with the offset it has.
Polling == {"head", "poll", "backoff", "dispatch"}

\* What lies below the offset has a handler, as long as the offset may still
\* be sent: an abandoned update is passed only on the way out.
OffsetOK == pc \in Polling => \A u \in Updates : u < offset => u \in started

\* So does what lies before the update to dispatch.
NextOK == pc = "dispatch" => offset <= next /\ \A u \in Updates : u < next => u \in started

\* This process has dispatched nothing at or above its offset.
TakenOK == \A u \in taken : u < offset

PollInv == TypeOK /\ ForgottenWasStarted /\ OffsetOK /\ NextOK /\ TakenOK

\* What a process starts with is in range.
LEMMA StartRanges ==
  /\ 0 \in 0..NumUpdates
  /\ 0 \in 0..(NumUpdates + 1)
  /\ 1 \in 1..(NumUpdates + 1)
  /\ 0 \in 0..BackoffCap
  OBVIOUS

LEMMA InitPoll == Init => PollInv
  <1> SUFFICES ASSUME Init PROVE PollInv
    OBVIOUS
  <1>1. TypeOK
    BY StartRanges DEF Init, TypeOK, PCs
  <1>2. ForgottenWasStarted /\ OffsetOK /\ NextOK /\ TakenOK
    BY DEF Init, ForgottenWasStarted, OffsetOK, NextOK, TakenOK, Updates
  <1>3. QED
    BY <1>1, <1>2 DEF PollInv

-----------------------------------------------------------------------------

\* The offset getUpdates is given is in range and above what was taken, and
\* what it makes Telegram forget was started.
LEMMA ConfirmedFacts ==
  ASSUME PollInv
  PROVE  /\ Confirmed \in 1..(NumUpdates + 1)
         /\ offset <= Confirmed
         /\ pc \in Polling => \A u \in Updates : u < Confirmed => u \in started
  BY DEF PollInv, TypeOK, Confirmed, Larger, ForgottenWasStarted, OffsetOK, Updates

LEMMA PollAnsweredStep == PollInv /\ PollAnswered => PollInv'
  <1> SUFFICES ASSUME PollInv, PollAnswered PROVE PollInv'
    OBVIOUS
  <1>1. last' \in 0..NumUpdates
    BY ConfirmedFacts DEF PollAnswered, PollInv, TypeOK, Smaller
  <1>2. TypeOK'
    BY <1>1, ConfirmedFacts DEF PollAnswered, PollInv, TypeOK, PCs
  <1>3. ForgottenWasStarted' /\ OffsetOK' /\ NextOK'
    BY ConfirmedFacts DEF PollAnswered, PollInv, ForgottenWasStarted, OffsetOK, NextOK, Polling
  <1>4. QED
    BY <1>2, <1>3 DEF PollAnswered, PollInv, TakenOK

LEMMA PollFailedStep == PollInv /\ PollFailed => PollInv'
  <1> SUFFICES ASSUME PollInv, PollFailed PROVE PollInv'
    OBVIOUS
  <1>1. confirmed' \in 1..(NumUpdates + 1) /\ failures' \in 0..BackoffCap
    BY ConfirmedFacts DEF PollFailed, PollInv, TypeOK, Smaller
  <1>2. TypeOK'
    BY <1>1 DEF PollFailed, PollInv, TypeOK, PCs
  <1>3. ForgottenWasStarted'
    BY ConfirmedFacts DEF PollFailed, PollInv, ForgottenWasStarted, Polling
  <1>4. QED
    BY <1>2, <1>3 DEF PollFailed, PollInv, OffsetOK, NextOK, TakenOK, Polling

LEMMA DispatchStep == PollInv /\ Dispatch => PollInv'
  <1> SUFFICES ASSUME PollInv, Dispatch PROVE PollInv'
    OBVIOUS
  <1>1. next \in Updates /\ next + 1 \in 1..(NumUpdates + 1)
    BY DEF Dispatch, telegram, PollInv, TypeOK, Updates
  <1>2. TypeOK'
    BY <1>1 DEF Dispatch, telegram, PollInv, TypeOK
  <1>3. \A u \in Updates : u < next + 1 => u \in started'
    BY <1>1 DEF Dispatch, telegram, PollInv, NextOK, Updates
  <1>4. ForgottenWasStarted' /\ OffsetOK' /\ NextOK'
    BY <1>1, <1>3 DEF Dispatch, telegram, PollInv, ForgottenWasStarted, OffsetOK, NextOK, Updates
  <1>5. TakenOK'
    BY <1>1 DEF Dispatch, telegram, PollInv, TypeOK, NextOK, TakenOK, Updates
  <1>6. QED
    BY <1>2, <1>4, <1>5 DEF PollInv

LEMMA AbandonStep == PollInv /\ Abandon => PollInv'
  <1> SUFFICES ASSUME PollInv, Abandon PROVE PollInv'
    OBVIOUS
  <1>1. next \in Updates /\ next + 1 \in 1..(NumUpdates + 1)
    BY DEF Abandon, telegram, PollInv, TypeOK, Updates
  <1>2. TypeOK'
    BY <1>1 DEF Abandon, telegram, PollInv, TypeOK, PCs
  <1>3. TakenOK'
    BY <1>1 DEF Abandon, telegram, PollInv, TypeOK, NextOK, TakenOK, Updates
  <1>4. QED
    BY <1>2, <1>3 DEF Abandon, telegram, PollInv, ForgottenWasStarted, OffsetOK, NextOK, Polling

LEMMA PollStep == PollInv /\ [Next]_vars => PollInv'
  <1> SUFFICES ASSUME PollInv, [Next]_vars PROVE PollInv'
    OBVIOUS
  <1> USE DEF PollInv, TypeOK, PCs, ForgottenWasStarted, OffsetOK, NextOK, TakenOK, Polling
  <1>1. CASE Arrive
    BY <1>1 DEF Arrive
  <1>2. CASE Poll \/ LeaveLoop \/ Backoff \/ BatchDone \/ Return
    BY <1>2 DEF Poll, LeaveLoop, Backoff, BatchDone, Return, telegram
  <1>3. ASSUME NEW u \in Updates, HandlerDone(u) PROVE PollInv'
    BY <1>3 DEF HandlerDone, telegram
  <1>4. CASE Cancel \/ Die
    BY <1>4 DEF Cancel, Die, telegram
  <1>5. CASE Start
    <2>1. TypeOK'
      BY <1>5, StartRanges DEF Start, telegram
    <2>2. ForgottenWasStarted' /\ OffsetOK' /\ NextOK' /\ TakenOK'
      BY <1>5 DEF Start, telegram, Updates
    <2>3. QED
      BY <2>1, <2>2
  <1>6. CASE UNCHANGED vars
    BY <1>6 DEF vars
  <1>7. QED
    BY <1>1, <1>2, <1>3, <1>4, <1>5, <1>6, PollAnsweredStep, PollFailedStep, DispatchStep,
       AbandonStep DEF Next, Loop

-----------------------------------------------------------------------------

\* The inductive invariant of the loop holds in every behaviour (poll.go, Run).
THEOREM PollInvariant == Spec => []PollInv
  BY InitPoll, PollStep, PTL DEF Spec

\* The loop's variables keep their types: the offset never passes the end.
THEOREM PollTypes == Spec => []TypeOK
  <1>1. PollInv => TypeOK
    BY DEF PollInv
  <1>2. QED
    BY <1>1, PollInvariant, PTL

\* Telegram never forgets an update that no handler was started for, whatever
\* polls fail, signals arrive and processes die.
THEOREM NoUpdateLost == Spec => []ForgottenWasStarted
  <1>1. PollInv => ForgottenWasStarted
    BY DEF PollInv
  <1>2. QED
    BY <1>1, PollInvariant, PTL

\* A process never starts a second handler for an update.
THEOREM StartedOnce == Spec => OncePerProcess
  <1> DEFINE Once == \A u \in Updates : u \in inFlight' \ inFlight => u \notin taken
  <1>1. PollInv /\ [Next]_vars => [Once]_vars
    <2> SUFFICES ASSUME PollInv, Next, NEW u \in Updates, u \in inFlight' \ inFlight
                 PROVE  u \notin taken
      OBVIOUS
    <2>1. Dispatch
      BY DEF Next, Loop, Arrive, Poll, LeaveLoop, PollAnswered, PollFailed, Backoff, Abandon,
         BatchDone, HandlerDone, Return, Cancel, Die, Start
    <2>2. u = next
      BY <2>1 DEF Dispatch
    <2>3. QED
      BY <2>1, <2>2 DEF Dispatch, telegram, PollInv, TypeOK, NextOK, TakenOK, Updates
  <1>2. QED
    BY <1>1, PollInvariant, PTL DEF Spec, OncePerProcess
=============================================================================
