------------------------------ MODULE Delivery ------------------------------
(***************************************************************************)
(* The Vido delivery worker of Searchy: internal/bot/delivery.go and the   *)
(* bridge client it calls, internal/vido/client.go.                        *)
(*                                                                         *)
(* A worker claims a delivery plan from Core under a lease, records every  *)
(* operation of the plan as "sending" before it calls Telegram, sends it,  *)
(* acknowledges it, and finally commits the plan as delivered.  Core (the  *)
(* vido.* functions of its Postgres) and Telegram are outside src/: they   *)
(* are modelled from how the client uses them, with the weakest contract   *)
(* under which that use makes sense, and are marked external.              *)
(*                                                                         *)
(* Requests to Core and to Telegram may be lost, may be carried out with   *)
(* the reply lost, and may be carried out long after the caller gave up.   *)
(* A process may be cancelled, may die between any two steps, and starts   *)
(* again under the same worker id (hostname:pid).                          *)
(***************************************************************************)
EXTENDS Integers, FiniteSets

CONSTANTS
  Workers,      \* the ids of the delivery workers (hostname:pid)
  Jobs,         \* the ids of the jobs Core has a plan for
  NoJob,        \* "no job" in a worker's state
  NoWorker,     \* "nobody" as the holder of a lease
  NumOps,       \* the number of operations of a plan
  FileIdOps,    \* the operations whose source is a telegram_file_id
  MaxDelayed    \* bound: requests to Core that are carried out late, at once

ASSUME ConstantAssumption ==
  /\ NoJob \notin Jobs
  /\ NoWorker \notin Workers
  /\ NumOps \in Nat \ {0}
  /\ FileIdOps \subseteq 1..NumOps
  /\ MaxDelayed \in Nat

Ops == 1..NumOps

\* A commit is tried once and then once after each of its two delays.
MaxRetries == 2

VARIABLES
  plan,       \* what the plan of a job is worth: fixed when Vido stored it
  status,     \* Core: the state of each job
  holder,     \* Core: the worker that holds the lease of each job
  opState,    \* Core: the state of each operation of each job
  fileRefs,   \* Core: the <<job, op>> whose Telegram file_id is on record
  delayed,    \* requests to Core whose caller gave up on them
  wire,       \* requests on their way to Telegram
  accepted,   \* how many messages Telegram posted for each operation
  proc,       \* the volatile state of each worker
  stopping    \* the workers whose context is cancelled

core == <<status, holder, opState, fileRefs>>
vars == <<plan, status, holder, opState, fileRefs, delayed, wire, accepted,
          proc, stopping>>

-----------------------------------------------------------------------------
(* Types                                                                   *)

Terminal == {"delivered", "failed", "delivery_unknown"}
JobStatus == {"ready", "leased"} \cup Terminal
OpStates == {"none", "sending", "delivered", "failed", "unknown"}
Plans == {"valid", "invalid", "undecodable"}

\* The calls to Core that change a job, the "fail" and "unknown" ones being
\* FailOperation with unknown = false and unknown = true.
OpKinds == {"begin", "ack", "fail", "unknown"}
JobKinds == {"finish", "reject"}
Requests ==
  [kind : OpKinds, worker : Workers, job : Jobs, op : Ops] \cup
  [kind : JobKinds, worker : Workers, job : Jobs, op : 1..(NumOps + 1)]
Messages == [worker : Workers, job : Jobs, op : Ops]

\* "poll": between two claims.  "loop": at the head of the loop over the
\* operations.  The others are named for the call the worker is about to make
\* or, for "await", is waiting for.
PCs == {"down", "poll", "reject", "loop", "send", "await", "invalidate",
        "fail", "unknown", "ack"}

Procs == [pc    : PCs,
          job   : Jobs \cup {NoJob},
          op    : 1..(NumOps + 1),   \* the loop's position in the plan
          seen  : SUBSET Ops,        \* DeliveredOps, as they were at the claim
          tries : 0..MaxRetries,     \* failed attempts of the current commit
          beat  : BOOLEAN]           \* the heartbeat goroutine is running

Idle == [pc |-> "poll", job |-> NoJob, op |-> 1, seen |-> {}, tries |-> 0,
         beat |-> FALSE]
Down == [pc |-> "down", job |-> NoJob, op |-> 1, seen |-> {}, tries |-> 0,
         beat |-> FALSE]

TypeOK ==
  /\ plan \in [Jobs -> Plans]
  /\ status \in [Jobs -> JobStatus]
  /\ holder \in [Jobs -> Workers \cup {NoWorker}]
  /\ opState \in [Jobs -> [Ops -> OpStates]]
  /\ fileRefs \subseteq Jobs \X Ops
  /\ delayed \subseteq Requests
  /\ wire \subseteq Messages
  /\ accepted \in [Jobs -> [Ops -> Nat]]
  /\ proc \in [Workers -> Procs]
  /\ stopping \subseteq Workers

-----------------------------------------------------------------------------
(* Initial states: Vido has stored the plans, no worker has claimed one.   *)

Init ==
  /\ plan \in [Jobs -> Plans]
  /\ status = [j \in Jobs |-> "ready"]
  /\ holder = [j \in Jobs |-> NoWorker]
  /\ opState = [j \in Jobs |-> [o \in Ops |-> "none"]]
  /\ fileRefs = Jobs \X FileIdOps
  /\ delayed = {}
  /\ wire = {}
  /\ accepted = [j \in Jobs |-> [o \in Ops |-> 0]]
  /\ proc = [w \in Workers |-> Idle]
  /\ stopping = {}

-----------------------------------------------------------------------------
(* Core: one transaction per bridge function.  Each is for the holder of   *)
(* the lease alone; anyone else gets ok = false, "vido delivery lease      *)
(* lost".  An operation that is acknowledged stays so (docs/architecture.md*)
(* "A confirmed ACK is monotonic").                                        *)

SetOp(r, s) == opState' = [opState EXCEPT ![r.job][r.op] = s]

EndJob(j, s) ==
  /\ status' = [status EXCEPT ![j] = s]
  /\ holder' = [holder EXCEPT ![j] = NoWorker]

\* When a bridge function answers true.
Granted(r) ==
  /\ holder[r.job] = r.worker
  /\ r.kind = "begin" => opState[r.job][r.op] \in {"none", "sending"}
  /\ r.kind = "ack" => opState[r.job][r.op] \in {"sending", "delivered"}
  /\ r.kind \in {"fail", "unknown"} => opState[r.job][r.op] # "delivered"

\* vido.begin_searchy_operation
CommitBegin(r) == SetOp(r, "sending") /\ UNCHANGED <<status, holder, fileRefs>>

\* The references an acknowledgement may carry: none for what was sent by its
\* file_id; for a local file that of the message, unless the source has no
\* content or variant key or Telegram's message no file_id.
FileRefsOf(r) ==
  IF r.op \in FileIdOps THEN {{}} ELSE {{}, {<<r.job, r.op>>}}

\* vido.ack_searchy_operation; it also stores the references.
CommitAck(r) ==
  /\ SetOp(r, "delivered")
  /\ \E refs \in FileRefsOf(r) : fileRefs' = fileRefs \cup refs
  /\ UNCHANGED <<status, holder>>

\* vido.fail_searchy_operation
CommitFail(r) ==
  /\ \/ r.kind = "unknown" /\ SetOp(r, "unknown") /\ EndJob(r.job, "delivery_unknown")
     \/ r.kind = "fail" /\ SetOp(r, "failed") /\ EndJob(r.job, "failed")
  /\ UNCHANGED fileRefs

\* vido.finish_searchy_delivery and vido.reject_searchy_delivery
CommitEnd(r) ==
  /\ EndJob(r.job, IF r.kind = "finish" THEN "delivered" ELSE "failed")
  /\ UNCHANGED <<opState, fileRefs>>

Commit(r) ==
  /\ Granted(r)
  /\ \/ r.kind = "begin" /\ CommitBegin(r)
     \/ r.kind = "ack" /\ CommitAck(r)
     \/ r.kind \in {"fail", "unknown"} /\ CommitFail(r)
     \/ r.kind \in {"finish", "reject"} /\ CommitEnd(r)

\* What a caller sees: ok; "lease lost"; or an error, after which the request
\* was either never received or is still to be carried out.
Confirmed(r) == Commit(r) /\ UNCHANGED delayed

Refused(r) == ~Granted(r) /\ UNCHANGED <<core, delayed>>

Unanswered(r) ==
  /\ \/ UNCHANGED delayed
     \/ /\ Cardinality(delayed) < MaxDelayed
        /\ delayed' = delayed \cup {r}
  /\ UNCHANGED core

\* Core carries out a request whose caller no longer waits for it.
LateCommit(r) ==
  /\ Commit(r)
  /\ delayed' = delayed \ {r}
  /\ UNCHANGED <<plan, wire, accepted, proc, stopping>>

\* Lease recovery.  The heartbeat renews a 15-minute lease every minute, so a
\* lease runs out only when nobody renews it.  An operation that was begun and
\* not acknowledged may have been posted: the job ends as delivery_unknown.
Renewed(j) == \E w \in Workers : proc[w].beat /\ proc[w].job = j

\* MUTANT of RecoverLease: an operation in doubt does not stop a new claim.
BugRecoverLease(j) ==
  /\ status[j] = "leased"
  /\ ~Renewed(j)
  /\ EndJob(j, "ready")
  /\ UNCHANGED <<plan, opState, fileRefs, delayed, wire, accepted, proc, stopping>>

RecoverLease(j) ==
  /\ status[j] = "leased"
  /\ ~Renewed(j)
  /\ IF \E o \in Ops : opState[j][o] = "sending"
     THEN EndJob(j, "delivery_unknown")
     ELSE EndJob(j, "ready")
  /\ UNCHANGED <<plan, opState, fileRefs, delayed, wire, accepted, proc, stopping>>

-----------------------------------------------------------------------------
(* The worker                                                              *)

Request(w, kind) ==
  [kind |-> kind, worker |-> w, job |-> proc[w].job, op |-> proc[w].op]

Goto(w, pc) == proc' = [proc EXCEPT ![w].pc = pc]

\* On to the next operation of the plan.
Advance(w) ==
  proc' = [proc EXCEPT ![w] = [pc |-> "loop", job |-> @.job, op |-> @.op + 1,
                               seen |-> @.seen, tries |-> 0, beat |-> @.beat]]

\* deliverPlan returns: the heartbeat stops and the worker polls again.
Return(w) == proc' = [proc EXCEPT ![w] = Idle]

\* A worker with a job: a plan that decodes and that ValidatePlan accepts is
\* worked on under a heartbeat, any other is rejected.
Claimed(j) ==
  [pc    |-> IF plan[j] = "valid" THEN "loop" ELSE "reject",
   job   |-> j,
   op    |-> 1,
   seen  |-> {o \in Ops : opState[j][o] = "delivered"},
   tries |-> 0,
   beat  |-> plan[j] = "valid"]

\* MUTANT of Claim: DeliveredOps are not looked at.
BugClaim(w, j) ==
  /\ proc[w].pc = "poll"
  /\ w \notin stopping
  /\ status[j] = "ready"
  /\ status' = [status EXCEPT ![j] = "leased"]
  /\ holder' = [holder EXCEPT ![j] = w]
  /\ \/ proc' = [proc EXCEPT ![w] =
          [Idle EXCEPT !.pc = IF plan[j] = "valid" THEN "loop" ELSE "reject",
                       !.job = j, !.beat = plan[j] = "valid"]]
     \/ UNCHANGED proc
  /\ UNCHANGED <<plan, opState, fileRefs, delayed, wire, accepted, stopping>>

\* ClaimDelivery, and deliverPlan up to its loop.  A claim whose reply is lost leaves a lease nobody works under.
Claim(w, j) ==
  /\ proc[w].pc = "poll"
  /\ w \notin stopping
  /\ status[j] = "ready"
  /\ status' = [status EXCEPT ![j] = "leased"]
  /\ holder' = [holder EXCEPT ![j] = w]
  /\ proc' = [proc EXCEPT ![w] = Claimed(j)] \/ UNCHANGED proc
  /\ UNCHANGED <<plan, opState, fileRefs, delayed, wire, accepted, stopping>>

\* RejectDelivery, for a plan that does not decode (on a context of its own)
\* or does not validate (on the worker's).
Reject(w) ==
  /\ proc[w].pc = "reject"
  /\ LET r == Request(w, "reject") IN
       \/ /\ w \notin stopping \/ plan[proc[w].job] = "undecodable"
          /\ Confirmed(r) \/ Refused(r)
       \/ Unanswered(r)
  /\ Return(w)
  /\ UNCHANGED <<plan, wire, accepted, stopping>>

\* The loop passes over what the claim reported as delivered.
Skip(w) ==
  /\ proc[w].pc = "loop"
  /\ proc[w].op \in proc[w].seen
  /\ Advance(w)
  /\ UNCHANGED <<plan, core, delayed, wire, accepted, stopping>>

\* MUTANT of Begin: an error of BeginOperation is only logged.
BugBegin(w) ==
  /\ proc[w].pc = "loop"
  /\ proc[w].op \in Ops \ proc[w].seen
  /\ LET r == Request(w, "begin") IN
       \/ w \notin stopping /\ Confirmed(r) /\ Goto(w, "send")
       \/ w \notin stopping /\ Refused(r) /\ Return(w)
       \/ Unanswered(r) /\ Goto(w, "send")
  /\ UNCHANGED <<plan, wire, accepted, stopping>>

\* BeginOperation: no send without it.
Begin(w) ==
  /\ proc[w].pc = "loop"
  /\ proc[w].op \in Ops \ proc[w].seen
  /\ LET r == Request(w, "begin") IN
       \/ w \notin stopping /\ Confirmed(r) /\ Goto(w, "send")
       \/ w \notin stopping /\ Refused(r) /\ Return(w)
       \/ Unanswered(r) /\ Return(w)
  /\ UNCHANGED <<plan, wire, accepted, stopping>>

\* sendOperation's request goes out; on a cancelled context it fails at once.
Send(w) ==
  /\ proc[w].pc = "send"
  /\ \/ /\ w \notin stopping
        /\ wire' = wire \cup {[worker |-> w, job |-> proc[w].job, op |-> proc[w].op]}
        /\ Goto(w, "await")
     \/ w \in stopping /\ Goto(w, "unknown") /\ UNCHANGED wire
  /\ UNCHANGED <<plan, core, delayed, accepted, stopping>>

\* MUTANT of NoAnswer: no answer is taken for a bad file identifier.
BugNoAnswerInvalid(w) ==
  /\ proc[w].pc = "await"
  /\ Goto(w, IF proc[w].op \in FileIdOps THEN "invalidate" ELSE "unknown")
  /\ UNCHANGED <<plan, core, delayed, wire, accepted, stopping>>

\* MUTANT of NoAnswer: no answer is taken for a definite failure.
BugNoAnswerFails(w) ==
  /\ proc[w].pc = "await"
  /\ Goto(w, "fail")
  /\ UNCHANGED <<plan, core, delayed, wire, accepted, stopping>>

\* The call ends with no answer from Telegram (a timeout, a dropped connection,
\* a 5xx, a cancelled context): no definite failure, whatever became of it.
NoAnswer(w) ==
  /\ proc[w].pc = "await"
  /\ Goto(w, "unknown")
  /\ UNCHANGED <<plan, core, delayed, wire, accepted, stopping>>

\* InvalidateFileRef for every telegram_file_id of the operation, its errors
\* ignored, after Telegram called the identifier wrong.
Invalidate(w) ==
  /\ proc[w].pc = "invalidate"
  /\ \/ w \notin stopping /\ fileRefs' = fileRefs \ {<<proc[w].job, proc[w].op>>}
     \/ UNCHANGED fileRefs
  /\ Goto(w, "fail")
  /\ UNCHANGED <<plan, status, holder, opState, delayed, wire, accepted, stopping>>

\* MUTANT of Fail: the loop goes on after a failure Core did not record.
BugFail(w) ==
  /\ proc[w].pc \in {"fail", "unknown"}
  /\ LET r == Request(w, proc[w].pc) IN
       \/ w \notin stopping /\ (Confirmed(r) \/ Refused(r)) /\ Return(w)
       \/ Unanswered(r) /\ Advance(w)
  /\ UNCHANGED <<plan, wire, accepted, stopping>>

\* FailOperation, on the worker's context; whatever it answers, the plan is left.
Fail(w) ==
  /\ proc[w].pc \in {"fail", "unknown"}
  /\ LET r == Request(w, proc[w].pc) IN
       \/ w \notin stopping /\ (Confirmed(r) \/ Refused(r))
       \/ Unanswered(r)
  /\ Return(w)
  /\ UNCHANGED <<plan, wire, accepted, stopping>>

\* MUTANT of Retry: no last attempt.
BugRetry(w) ==
  IF w \notin stopping
  THEN proc' = [proc EXCEPT ![w].tries = @ + 1]
  ELSE Return(w)

\* retryBridgeCommit after a failed attempt: wait and try again, unless this
\* was the last attempt or the context is cancelled.
Retry(w) ==
  IF proc[w].tries < MaxRetries /\ w \notin stopping
  THEN proc' = [proc EXCEPT ![w].tries = @ + 1]
  ELSE Return(w)

\* MUTANT of Ack: the loop goes on when the acknowledgement was given up.
BugAck(w) ==
  /\ proc[w].pc = "ack"
  /\ LET r == Request(w, "ack") IN
       \/ Confirmed(r) /\ Advance(w)
       \/ /\ Refused(r) \/ Unanswered(r)
          /\ IF proc[w].tries < MaxRetries
             THEN Retry(w)
             ELSE Advance(w)
  /\ UNCHANGED <<plan, wire, accepted, stopping>>

\* AckOperation, on a context of its own; then the next operation.
Ack(w) ==
  /\ proc[w].pc = "ack"
  /\ LET r == Request(w, "ack") IN
       \/ Confirmed(r) /\ Advance(w)
       \/ (Refused(r) \/ Unanswered(r)) /\ Retry(w)
  /\ UNCHANGED <<plan, wire, accepted, stopping>>

\* FinishDelivery, once the loop has passed the last operation.
Finish(w) ==
  /\ proc[w].pc = "loop"
  /\ proc[w].op = NumOps + 1
  /\ LET r == Request(w, "finish") IN
       \/ Confirmed(r) /\ Return(w)
       \/ (Refused(r) \/ Unanswered(r)) /\ Retry(w)
  /\ UNCHANGED <<plan, wire, accepted, stopping>>

\* A cancelled context ends the wait between two attempts.
Abandon(w) ==
  /\ proc[w].tries > 0
  /\ w \in stopping
  /\ Return(w)
  /\ UNCHANGED <<plan, core, delayed, wire, accepted, stopping>>

\* renewDeliveryLease meets an error and stops for good; deliverPlan goes on.
StopHeartbeat(w) ==
  /\ proc[w].beat
  /\ proc' = [proc EXCEPT ![w].beat = FALSE]
  /\ UNCHANGED <<plan, core, delayed, wire, accepted, stopping>>

-----------------------------------------------------------------------------
(* The process: cancelled by a signal, gone at any moment, started again.  *)

Cancel(w) ==
  /\ proc[w].pc # "down"
  /\ w \notin stopping
  /\ stopping' = stopping \cup {w}
  /\ UNCHANGED <<plan, core, delayed, wire, accepted, proc>>

Die(w) ==
  /\ proc[w].pc # "down"
  /\ proc' = [proc EXCEPT ![w] = Down]
  /\ stopping' = stopping \ {w}
  /\ UNCHANGED <<plan, core, delayed, wire, accepted>>

Start(w) ==
  /\ proc[w].pc = "down"
  /\ proc' = [proc EXCEPT ![w] = Idle]
  /\ UNCHANGED <<plan, core, delayed, wire, accepted, stopping>>

-----------------------------------------------------------------------------
(* Telegram: it answers a request whose sender may have given up by then.  *)

Awaits(m) ==
  /\ proc[m.worker].pc = "await"
  /\ proc[m.worker].job = m.job
  /\ proc[m.worker].op = m.op

\* The sender, if it still waits, gets the answer or does not.
Answer(m, pc) == (Awaits(m) /\ Goto(m.worker, pc)) \/ UNCHANGED proc

Post(m) ==
  /\ accepted' = [accepted EXCEPT ![m.job][m.op] = @ + 1]
  /\ Answer(m, "ack")

\* 400, 401, 403 or 404; a 400 about the file identifier of an operation sent
\* by telegram_file_id is told apart; 429: wait for retry_after and send again.
Decline(m) ==
  /\ \/ Answer(m, "fail")
     \/ m.op \in FileIdOps /\ Answer(m, "invalidate")
     \/ Answer(m, "send")
  /\ UNCHANGED accepted

Telegram(m) ==
  /\ Post(m) \/ Decline(m)
  /\ wire' = wire \ {m}
  /\ UNCHANGED <<plan, core, delayed, stopping>>

-----------------------------------------------------------------------------

Worker(w) ==
  \/ \E j \in Jobs : Claim(w, j)
  \/ Reject(w) \/ Skip(w) \/ Begin(w) \/ Send(w) \/ NoAnswer(w)
  \/ Invalidate(w) \/ Fail(w) \/ Ack(w) \/ Finish(w) \/ Abandon(w)
  \/ StopHeartbeat(w)

Process(w) == Cancel(w) \/ Die(w) \/ Start(w)

Next ==
  \/ \E w \in Workers : Worker(w) \/ Process(w)
  \/ \E m \in wire : Telegram(m)
  \/ \E r \in delayed : LateCommit(r)
  \/ \E j \in Jobs : RecoverLease(j)

Spec == Init /\ [][Next]_vars

-----------------------------------------------------------------------------
(* Fairness: no step of the program waits for ever (every call has a       *)
(* timeout), a stopped process is started again and Core's lease recovery  *)
(* runs.  Calls may fail again and again, but one made infinitely often is *)
(* answered in the end: Core answers it, and Telegram says something else  *)
(* than "too many requests".  Processes are cancelled or killed, and lose   *)
(* their heartbeat, only finitely often: a worker that is stopped before   *)
(* it ever begins an operation delivers nothing.                           *)

Proceed(w) ==
  \/ Reject(w) \/ Skip(w) \/ Begin(w) \/ Send(w) \/ NoAnswer(w)
  \/ Invalidate(w) \/ Fail(w) \/ Ack(w) \/ Finish(w) \/ Abandon(w)
  \/ w \in stopping /\ Die(w)
  \/ Start(w)

ClaimAnswered(w) == \E j \in Jobs : Claim(w, j) /\ proc'[w].pc # "poll"

CallAnswered(w) == (Reject(w) \/ Begin(w) \/ Finish(w)) /\ core' # core

SendAnswered(w) ==
  \E m \in wire : m.worker = w /\ Awaits(m) /\ Telegram(m) /\ proc'[w].pc \notin {"await", "send"}

Interrupted(w) ==
  StopHeartbeat(w) \/ (w \notin stopping /\ (Cancel(w) \/ Die(w)))

Fairness ==
  /\ \A w \in Workers :
       /\ WF_vars(Proceed(w))
       /\ SF_vars(ClaimAnswered(w))
       /\ SF_vars(CallAnswered(w))
       /\ SF_vars(SendAnswered(w))
  /\ \A j \in Jobs : WF_vars(RecoverLease(j))
  /\ <>[][\A w \in Workers : ~Interrupted(w)]_vars

FairSpec == Spec /\ Fairness

-----------------------------------------------------------------------------
(* Safety                                                                  *)

OnWire(j, o) == \E m \in wire : m.job = j /\ m.op = o

\* "A send that may have landed is never silently retried": whatever is lost,
\* late or crashes, no operation of a job is posted twice.
NoDuplicate == \A j \in Jobs, o \in Ops : accepted[j][o] <= 1

\* Telegram sees an operation only after Core durably knows that it might.
RecordedBeforeSend ==
  \A j \in Jobs, o \in Ops :
    accepted[j][o] > 0 \/ OnWire(j, o) => opState[j][o] # "none"

\* A job reported as failed is one whose unacknowledged operations were not
\* posted and cannot be any more: what may have landed is "delivery_unknown".
FailureIsDefinite ==
  \A j \in Jobs, o \in Ops :
    status[j] = "failed" /\ opState[j][o] # "delivered" =>
      accepted[j][o] = 0 /\ ~OnWire(j, o)

\* A job reported as delivered was posted whole.
DeliveredIsWhole ==
  \A j \in Jobs, o \in Ops :
    status[j] = "delivered" \/ opState[j][o] = "delivered" => accepted[j][o] = 1

\* An operation is begun only when everything before it in the plan is posted
\* and acknowledged.
InPlanOrder ==
  \A j \in Jobs : \A o \in Ops :
    opState[j][o] # "none" => \A p \in 1..(o - 1) : opState[j][p] = "delivered"

\* What Vido is told about file_ids is true: one is given up only for an
\* operation Telegram refused and will never post, whoever asks late, and one
\* is put on record only for a file that was posted.
RefsTrue ==
  \A j \in Jobs, o \in Ops :
    /\ o \in FileIdOps /\ <<j, o>> \notin fileRefs => accepted[j][o] = 0 /\ ~OnWire(j, o)
    /\ o \notin FileIdOps /\ <<j, o>> \in fileRefs => accepted[j][o] = 1

\* The worker, Core and Telegram together keep the promise made to the owner.
Promise == INSTANCE DeliveryPromise WITH
  outcome <- [j \in Jobs |-> IF status[j] \in Terminal THEN status[j] ELSE "open"],
  copies <- accepted

KeepsPromise == Promise!Spec

\* Every plan comes to an end: no job is lost by a worker that died, lost its
\* lease or gave up on an acknowledgement.
EveryPlanEnds == \A j \in Jobs : <>(status[j] \in Terminal)

-----------------------------------------------------------------------------
(* The inductive invariant behind NoDuplicate and RecordedBeforeSend.      *)

SendPCs == {"send", "await", "invalidate", "fail", "unknown", "ack"}

\* w is between the begin and the acknowledgement of operation o of job j.
Sending(w, j, o) ==
  proc[w].pc \in SendPCs /\ proc[w].job = j /\ proc[w].op = o

\* Nothing of the operation has reached Telegram or is on its way there.
Clean(j, o) == accepted[j][o] = 0 /\ ~OnWire(j, o)

Fresh(j, o) == Clean(j, o) /\ \A w \in Workers : ~Sending(w, j, o)

\* w works on j under a valid lease and has o still to begin.
Ahead(w, j, o) ==
  /\ proc[w].pc \in SendPCs \cup {"loop"}
  /\ proc[w].job = j
  /\ holder[j] = w
  /\ o \notin proc[w].seen
  /\ o > proc[w].op \/ (o = proc[w].op /\ proc[w].pc = "loop")

\* A worker that is not polling has a job, and sends an operation of its plan.
ProcOK ==
  \A w \in Workers :
    /\ proc[w].pc \notin {"poll", "down"} => proc[w].job \in Jobs
    /\ proc[w].pc \in SendPCs => proc[w].op \in Ops

\* Only a leased job has a holder, and its operations carry no verdict yet; one
\* that may be claimed has no operation in doubt.
LeaseOK ==
  \A j \in Jobs :
    /\ holder[j] # NoWorker => status[j] = "leased"
    /\ status[j] = "leased" => \A o \in Ops : opState[j][o] \in {"none", "sending", "delivered"}
    /\ status[j] = "ready" => \A o \in Ops : opState[j][o] \in {"none", "delivered"}

\* What Core has no record of, and what a leaseholder has yet to begin, is fresh.
FreshOK ==
  \A j \in Jobs, o \in Ops :
    opState[j][o] = "none" \/ (\E w \in Workers : Ahead(w, j, o)) => Fresh(j, o)

\* Nobody else is sending the operation, and whoever is about to has not yet.
SenderOK ==
  \A w \in Workers, j \in Jobs, o \in Ops :
    Sending(w, j, o) =>
      /\ \A v \in Workers : Sending(v, j, o) => v = w
      /\ proc[w].pc = "send" => Clean(j, o)

\* A request on the wire is the only one for its operation, and the first.
WireOK ==
  \A m \in wire :
    /\ accepted[m.job][m.op] = 0
    /\ \A n \in wire : n.job = m.job /\ n.op = m.op => n = m

SendInv ==
  TypeOK /\ ProcOK /\ LeaseOK /\ FreshOK /\ SenderOK /\ WireOK /\ NoDuplicate
=============================================================================
