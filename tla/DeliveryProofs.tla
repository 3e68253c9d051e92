--------------------------- MODULE DeliveryProofs ---------------------------
(***************************************************************************)
(* Theorems about Delivery, for every set of workers and jobs and every    *)
(* length of a plan.                                                       *)
(***************************************************************************)
EXTENDS Delivery, TLAPS

USE ConstantAssumption

TypeInv == TypeOK /\ ProcOK

-----------------------------------------------------------------------------
(* Types                                                                   *)

LEMMA InitType == Init => TypeInv
  <1> SUFFICES ASSUME Init PROVE TypeInv
    OBVIOUS
  <1>1. Idle \in Procs
    BY DEF Idle, Procs, PCs, MaxRetries
  <1>2. fileRefs \subseteq Jobs \X Ops
    BY DEF Init, Ops
  <1>3. TypeOK
    BY <1>1, <1>2 DEF Init, TypeOK, JobStatus, OpStates
  <1>4. ProcOK
    BY DEF Init, ProcOK, Idle, SendPCs
  <1>5. QED
    BY <1>3, <1>4 DEF TypeInv

\* The request a worker makes is a request, if it has a job to make it about.
LEMMA RequestType ==
  ASSUME TypeOK, NEW w \in Workers, NEW kind, proc[w].job \in Jobs,
         (kind \in OpKinds /\ proc[w].op \in Ops) \/ kind \in JobKinds
  PROVE  Request(w, kind) \in Requests
  <1>1. proc[w].op \in 1..(NumOps + 1)
    BY DEF TypeOK, Procs
  <1>2. QED
    BY <1>1 DEF Request, Requests

\* A transaction of Core on a request keeps the types of its tables.
LEMMA CommitType ==
  ASSUME TypeOK, NEW r \in Requests, Commit(r)
  PROVE  /\ status' \in [Jobs -> JobStatus]
         /\ holder' \in [Jobs -> Workers \cup {NoWorker}]
         /\ opState' \in [Jobs -> [Ops -> OpStates]]
         /\ fileRefs' \subseteq Jobs \X Ops
  <1>1. r.job \in Jobs
    BY DEF Requests
  <1>2. r.kind \in OpKinds => r.op \in Ops
    BY DEF Requests, OpKinds, JobKinds
  <1>3. CASE r.kind = "begin" /\ CommitBegin(r)
    BY <1>1, <1>2, <1>3 DEF CommitBegin, SetOp, TypeOK, OpStates, OpKinds
  <1>4. CASE r.kind = "ack" /\ CommitAck(r)
    <2>1. r.op \in Ops
      BY <1>2, <1>4 DEF OpKinds
    <2>2. PICK refs \in FileRefsOf(r) : fileRefs' = fileRefs \cup refs
      BY <1>4 DEF CommitAck
    <2>3. refs \subseteq Jobs \X Ops
      BY <1>1, <2>1, <2>2 DEF FileRefsOf
    <2>4. fileRefs' \subseteq Jobs \X Ops
      BY <2>2, <2>3 DEF TypeOK
    <2>5. opState' \in [Jobs -> [Ops -> OpStates]]
      BY <1>1, <1>4, <2>1 DEF CommitAck, SetOp, TypeOK, OpStates
    <2>6. QED
      BY <1>4, <2>4, <2>5 DEF CommitAck, TypeOK
  <1>5. CASE r.kind \in {"fail", "unknown"} /\ CommitFail(r)
    <2>1. PICK s \in OpStates : SetOp(r, s)
      BY <1>5 DEF CommitFail, OpStates
    <2>a. r.op \in Ops
      BY <1>2, <1>5 DEF OpKinds
    <2>b. opState' \in [Jobs -> [Ops -> OpStates]]
      BY <1>1, <2>1, <2>a DEF SetOp, TypeOK
    <2>2. /\ status' \in [Jobs -> JobStatus]
          /\ holder' \in [Jobs -> Workers \cup {NoWorker}]
      BY <1>1, <1>5 DEF CommitFail, EndJob, TypeOK, JobStatus, Terminal
    <2>3. QED
      BY <1>5, <2>b, <2>2 DEF CommitFail, TypeOK
  <1>6. CASE r.kind \in {"finish", "reject"} /\ CommitEnd(r)
    BY <1>1, <1>6 DEF CommitEnd, EndJob, TypeOK, JobStatus, Terminal
  <1>7. QED
    BY <1>3, <1>4, <1>5, <1>6 DEF Commit

\* So does whatever a caller sees of it.
LEMMA CallType ==
  ASSUME TypeOK, NEW r \in Requests, Confirmed(r) \/ Refused(r) \/ Unanswered(r)
  PROVE  /\ status' \in [Jobs -> JobStatus]
         /\ holder' \in [Jobs -> Workers \cup {NoWorker}]
         /\ opState' \in [Jobs -> [Ops -> OpStates]]
         /\ fileRefs' \subseteq Jobs \X Ops
         /\ delayed' \subseteq Requests
  <1>1. CASE Confirmed(r)
    BY <1>1, CommitType DEF Confirmed, TypeOK
  <1>2. CASE Refused(r)
    BY <1>2 DEF Refused, core, TypeOK
  <1>3. CASE Unanswered(r)
    BY <1>3 DEF Unanswered, core, TypeOK
  <1>4. QED
    BY <1>1, <1>2, <1>3

\* The steps of a worker's own state, and what they keep.
LEMMA ReturnType ==
  ASSUME TypeInv, NEW w \in Workers, Return(w)
  PROVE  proc' \in [Workers -> Procs] /\ ProcOK'
  <1>1. Idle \in Procs
    BY DEF Idle, Procs, PCs, MaxRetries
  <1>2. QED
    BY <1>1 DEF TypeInv, TypeOK, ProcOK, Return, Idle, SendPCs

LEMMA GotoType ==
  ASSUME TypeInv, NEW w \in Workers, NEW pc \in PCs, Goto(w, pc),
         pc \notin {"poll", "down"} => proc[w].job \in Jobs,
         pc \in SendPCs => proc[w].op \in Ops
  PROVE  proc' \in [Workers -> Procs] /\ ProcOK'
  <1> DEFINE p == proc[w]
  <1>a. p \in Procs
    BY DEF TypeInv, TypeOK
  <1>b. [p EXCEPT !.pc = pc] =
        [pc |-> pc, job |-> p.job, op |-> p.op, seen |-> p.seen, tries |-> p.tries, beat |-> p.beat]
    BY <1>a DEF Procs
  <1>1. [p EXCEPT !.pc = pc] \in Procs
    BY <1>a, <1>b DEF Procs
  <1>2. proc' = [proc EXCEPT ![w] = [proc[w] EXCEPT !.pc = pc]]
    BY DEF Goto
  <1>3. proc' \in [Workers -> Procs]
    BY <1>1, <1>2 DEF TypeInv, TypeOK
  <1>4. ProcOK'
    BY <1>2, <1>3 DEF TypeInv, TypeOK, ProcOK, Procs
  <1>5. QED
    BY <1>3, <1>4

LEMMA RetryType ==
  ASSUME TypeInv, NEW w \in Workers, Retry(w)
  PROVE  proc' \in [Workers -> Procs] /\ ProcOK'
  <1>1. CASE proc[w].tries < MaxRetries /\ w \notin stopping
    <2> DEFINE p == [proc[w] EXCEPT !.tries = @ + 1]
    <2>a. proc[w] \in Procs
      BY DEF TypeInv, TypeOK
    <2>b. proc[w].tries + 1 \in 0..MaxRetries
      BY <1>1, <2>a DEF Procs, MaxRetries
    <2>1. p \in Procs
      BY <2>a, <2>b DEF Procs
    <2>2. proc' = [proc EXCEPT ![w] = p]
      BY <1>1 DEF Retry
    <2>3. p.pc = proc[w].pc /\ p.job = proc[w].job /\ p.op = proc[w].op
      BY DEF TypeInv, TypeOK, Procs
    <2>4. proc' \in [Workers -> Procs]
      BY <2>1, <2>2 DEF TypeInv, TypeOK
    <2>5. ProcOK'
      BY <2>2, <2>3 DEF TypeInv, TypeOK, ProcOK
    <2>6. QED
      BY <2>4, <2>5
  <1>2. CASE ~(proc[w].tries < MaxRetries /\ w \notin stopping)
    BY <1>2, ReturnType DEF Retry
  <1>3. QED
    BY <1>1, <1>2

\* The loop moves on to the next operation of the plan.
LEMMA AdvanceType ==
  ASSUME TypeInv, NEW w \in Workers, proc[w].op \in Ops, proc[w].job \in Jobs, Advance(w)
  PROVE  proc' \in [Workers -> Procs] /\ ProcOK'
  <1> DEFINE q == proc[w]
             p == [pc |-> "loop", job |-> q.job, op |-> q.op + 1, seen |-> q.seen,
                   tries |-> 0, beat |-> q.beat]
  <1>1. q \in Procs
    BY DEF TypeInv, TypeOK
  <1>2. q.op + 1 \in 1..(NumOps + 1)
    BY DEF Ops
  <1>3. p \in Procs
    BY <1>1, <1>2 DEF Procs, PCs, MaxRetries
  <1>4. proc' = [proc EXCEPT ![w] = p]
    BY DEF Advance
  <1>5. proc' \in [Workers -> Procs]
    BY <1>3, <1>4 DEF TypeInv, TypeOK
  <1>6. ProcOK'
    BY <1>3, <1>4 DEF TypeInv, TypeOK, ProcOK, SendPCs
  <1>7. QED
    BY <1>5, <1>6

LEMMA WorkerType ==
  ASSUME TypeInv, NEW w \in Workers, Worker(w)
  PROVE  TypeInv'
  <1> USE DEF TypeInv
  <1>1. ASSUME NEW j \in Jobs, Claim(w, j)
        PROVE  TypeInv'
    <2>1. /\ status' \in [Jobs -> JobStatus]
          /\ holder' \in [Jobs -> Workers \cup {NoWorker}]
      BY <1>1 DEF Claim, TypeOK, JobStatus
    <2>2. proc' \in [Workers -> Procs] /\ ProcOK'
      <3>1. CASE UNCHANGED proc
        BY <3>1 DEF TypeOK, ProcOK
      <3>2. CASE ~UNCHANGED proc
        <4> DEFINE p == [pc |-> IF plan[j] = "valid" THEN "loop" ELSE "reject",
                         job |-> j, op |-> 1,
                         seen |-> {o \in Ops : opState[j][o] = "delivered"},
                         tries |-> 0, beat |-> plan[j] = "valid"]
        <4>1. proc' = [proc EXCEPT ![w] = p]
          BY <1>1, <3>2 DEF Claim, Claimed
        <4>2. p \in Procs /\ p.pc \in {"loop", "reject"} /\ p.job = j
          BY DEF Procs, PCs, MaxRetries
        <4>3. proc' \in [Workers -> Procs]
          BY <4>1, <4>2 DEF TypeOK
        <4>4. ProcOK'
          BY <4>1, <4>2 DEF TypeOK, ProcOK, SendPCs
        <4>5. QED
          BY <4>3, <4>4
      <3>3. QED
        BY <3>1, <3>2
    <2>3. QED
      BY <1>1, <2>1, <2>2 DEF Claim, TypeOK
  <1>2. CASE Reject(w)
    <2>1. Request(w, "reject") \in Requests
      BY <1>2, RequestType DEF Reject, ProcOK, JobKinds
    <2>2. QED
      BY <1>2, <2>1, CallType, ReturnType DEF Reject, TypeOK
  <1>3. CASE Skip(w)
    <2>1. proc[w].op \in Ops /\ proc[w].job \in Jobs
      BY <1>3 DEF Skip, TypeOK, Procs, ProcOK
    <2>2. proc' \in [Workers -> Procs] /\ ProcOK'
      BY <1>3, <2>1, AdvanceType DEF Skip
    <2>3. QED
      BY <1>3, <2>2 DEF Skip, core, TypeOK
  <1>4. CASE Begin(w)
    <2>1. proc[w].op \in Ops /\ proc[w].job \in Jobs
      BY <1>4 DEF Begin, ProcOK
    <2>2. Request(w, "begin") \in Requests
      BY <2>1, RequestType DEF OpKinds
    <2>3. proc' \in [Workers -> Procs] /\ ProcOK'
      BY <1>4, <2>1, GotoType, ReturnType DEF Begin, PCs
    <2>4. QED
      BY <1>4, <2>2, <2>3, CallType DEF Begin, TypeOK
  <1>5. CASE Send(w)
    <2>1. proc[w].op \in Ops /\ proc[w].job \in Jobs
      BY <1>5 DEF Send, ProcOK, SendPCs
    <2>2. proc' \in [Workers -> Procs] /\ ProcOK'
      BY <1>5, <2>1, GotoType DEF Send, PCs
    <2>3. wire' \subseteq Messages
      BY <1>5, <2>1 DEF Send, TypeOK, Messages
    <2>4. QED
      BY <1>5, <2>2, <2>3 DEF Send, core, TypeOK
  <1>6. CASE NoAnswer(w)
    <2>1. proc[w].op \in Ops /\ proc[w].job \in Jobs
      BY <1>6 DEF NoAnswer, ProcOK, SendPCs
    <2>2. proc' \in [Workers -> Procs] /\ ProcOK'
      BY <1>6, <2>1, GotoType DEF NoAnswer, PCs
    <2>3. QED
      BY <1>6, <2>2 DEF NoAnswer, core, TypeOK
  <1>7. CASE Invalidate(w)
    <2>1. proc[w].op \in Ops /\ proc[w].job \in Jobs
      BY <1>7 DEF Invalidate, ProcOK, SendPCs
    <2>2. proc' \in [Workers -> Procs] /\ ProcOK'
      BY <1>7, <2>1, GotoType DEF Invalidate, PCs
    <2>3. QED
      BY <1>7, <2>2 DEF Invalidate, TypeOK
  <1>8. CASE Fail(w)
    <2>1. Request(w, proc[w].pc) \in Requests
      BY <1>8, RequestType DEF Fail, ProcOK, SendPCs, OpKinds
    <2>2. QED
      BY <1>8, <2>1, CallType, ReturnType DEF Fail, TypeOK
  <1>9. CASE Ack(w)
    <2>1. proc[w].op \in Ops /\ proc[w].job \in Jobs
      BY <1>9 DEF Ack, ProcOK, SendPCs
    <2>2. Request(w, "ack") \in Requests
      BY <2>1, RequestType DEF OpKinds
    <2>3. proc' \in [Workers -> Procs] /\ ProcOK'
      BY <1>9, <2>1, AdvanceType, RetryType DEF Ack
    <2>4. QED
      BY <1>9, <2>2, <2>3, CallType DEF Ack, TypeOK
  <1>10. CASE Finish(w)
    <2>1. Request(w, "finish") \in Requests
      BY <1>10, RequestType DEF Finish, ProcOK, JobKinds
    <2>2. proc' \in [Workers -> Procs] /\ ProcOK'
      BY <1>10, ReturnType, RetryType DEF Finish
    <2>3. QED
      BY <1>10, <2>1, <2>2, CallType DEF Finish, TypeOK
  <1>11. CASE Abandon(w)
    BY <1>11, ReturnType DEF Abandon, core, TypeOK
  <1>12. CASE StopHeartbeat(w)
    <2>1. proc' \in [Workers -> Procs]
      <3>1. proc[w] \in Procs
        BY DEF TypeOK
      <3>2. [proc[w] EXCEPT !.beat = FALSE] \in Procs
        BY <3>1 DEF Procs
      <3>3. QED
        BY <1>12, <3>2 DEF StopHeartbeat, TypeOK
    <2>2. ProcOK'
      BY <1>12 DEF StopHeartbeat, ProcOK, TypeOK, Procs
    <2>3. QED
      BY <1>12, <2>1, <2>2 DEF StopHeartbeat, core, TypeOK
  <1>13. QED
    BY <1>1, <1>2, <1>3, <1>4, <1>5, <1>6, <1>7, <1>8, <1>9, <1>10, <1>11, <1>12
       DEF Worker

LEMMA ProcessType ==
  ASSUME TypeInv, NEW w \in Workers, Process(w)
  PROVE  TypeInv'
  <1> USE DEF TypeInv
  <1>1. Idle \in Procs /\ Down \in Procs /\ Down.pc = "down"
    BY DEF Idle, Down, Procs, PCs, MaxRetries
  <1>2. CASE Cancel(w)
    BY <1>2 DEF Cancel, core, TypeOK, ProcOK
  <1>3. CASE Die(w)
    BY <1>1, <1>3 DEF Die, core, TypeOK, ProcOK, SendPCs
  <1>4. CASE Start(w)
    BY <1>1, <1>4 DEF Start, core, TypeOK, ProcOK, SendPCs, Idle
  <1>5. QED
    BY <1>2, <1>3, <1>4 DEF Process

LEMMA TelegramType ==
  ASSUME TypeInv, NEW m \in wire, Telegram(m)
  PROVE  TypeInv'
  <1> USE DEF TypeInv
  <1>1. m \in Messages /\ m.worker \in Workers /\ m.job \in Jobs /\ m.op \in Ops
    BY DEF TypeOK, Messages
  <1>2. ASSUME NEW pc \in SendPCs, Answer(m, pc)
        PROVE  proc' \in [Workers -> Procs] /\ ProcOK'
    <2>1. CASE UNCHANGED proc
      BY <2>1 DEF TypeOK, ProcOK
    <2>2. CASE Awaits(m) /\ Goto(m.worker, pc)
      BY <1>1, <2>2, GotoType DEF Awaits, PCs, SendPCs
    <2>3. QED
      BY <1>2, <2>1, <2>2 DEF Answer
  <1>3. proc' \in [Workers -> Procs] /\ ProcOK'
    BY <1>2 DEF Telegram, Post, Decline, SendPCs
  <1>4. accepted' \in [Jobs -> [Ops -> Nat]]
    <2>1. CASE Post(m)
      BY <1>1, <2>1 DEF Post, TypeOK
    <2>2. CASE Decline(m)
      BY <2>2 DEF Decline, TypeOK
    <2>3. QED
      BY <2>1, <2>2 DEF Telegram
  <1>5. QED
    BY <1>3, <1>4 DEF Telegram, core, TypeOK

LEMMA TypeStep == TypeInv /\ [Next]_vars => TypeInv'
  <1> SUFFICES ASSUME TypeInv, [Next]_vars PROVE TypeInv'
    OBVIOUS
  <1>1. ASSUME NEW w \in Workers, Worker(w) \/ Process(w)
        PROVE  TypeInv'
    BY <1>1, WorkerType, ProcessType
  <1>2. ASSUME NEW m \in wire, Telegram(m)
        PROVE  TypeInv'
    BY <1>2, TelegramType
  <1>3. ASSUME NEW r \in delayed, LateCommit(r)
        PROVE  TypeInv'
    BY <1>3, CommitType DEF LateCommit, TypeInv, TypeOK, ProcOK
  <1>4. ASSUME NEW j \in Jobs, RecoverLease(j)
        PROVE  TypeInv'
    BY <1>4 DEF RecoverLease, EndJob, TypeInv, TypeOK, ProcOK, JobStatus, Terminal
  <1>5. CASE UNCHANGED vars
    BY <1>5 DEF vars, TypeInv, TypeOK, ProcOK
  <1>6. QED
    BY <1>1, <1>2, <1>3, <1>4, <1>5 DEF Next

\* Every variable keeps its type, whatever is lost, late or crashes.
THEOREM TypeCorrect == Spec => []TypeOK
  <1>1. TypeInv => TypeOK
    BY DEF TypeInv
  <1>2. QED
    BY <1>1, InitType, TypeStep, PTL DEF Spec

-----------------------------------------------------------------------------
(* What a step can do to the place of one worker.                          *)

SamePlan(w) == proc'[w].job = proc[w].job /\ proc'[w].seen = proc[w].seen
SamePlace(w) == SamePlan(w) /\ proc'[w].pc = proc[w].pc /\ proc'[w].op = proc[w].op

\* Away from any plan, but for one that is to be rejected.
Leaves(w) ==
  \/ proc'[w].pc \in {"poll", "down"}
  \/ proc'[w].pc = "reject" /\ plan[proc'[w].job] # "valid"

Takes(w) ==
  \E j \in Jobs :
    /\ Claim(w, j)
    /\ proc'[w].pc = "loop"
    /\ proc'[w].job = j
    /\ proc'[w].op = 1
    /\ proc'[w].seen = {o \in Ops : opState[j][o] = "delivered"}
    /\ plan[j] = "valid"

Advances(w) ==
  /\ SamePlan(w)
  /\ \/ proc[w].pc = "loop" /\ proc[w].op \in proc[w].seen
     \/ proc[w].pc = "ack" /\ opState'[proc[w].job][proc[w].op] = "delivered"
  /\ proc'[w].pc = "loop"
  /\ proc'[w].op = proc[w].op + 1

Begins(w) ==
  /\ SamePlan(w)
  /\ Begin(w)
  /\ Granted(Request(w, "begin"))
  /\ opState' = [opState EXCEPT ![proc[w].job][proc[w].op] = "sending"]
  /\ UNCHANGED holder
  /\ \A v \in Workers \ {w} : proc'[v] = proc[v]
  /\ proc'[w].pc = "send"
  /\ proc'[w].op = proc[w].op

\* After Telegram refused an operation, nobody sends it again.
Refusing == {"invalidate", "fail"}

\* A request for the operation of w was declined.
Declined(w) ==
  \E m \in wire :
    /\ m.job = proc[w].job
    /\ m.op = proc[w].op
    /\ wire' = wire \ {m}
    /\ UNCHANGED accepted

Works(w) ==
  /\ SamePlan(w)
  /\ proc[w].pc \in SendPCs
  /\ proc'[w].pc \in SendPCs
  /\ proc'[w].op = proc[w].op
  /\ proc'[w].pc = "send" => Declined(w)
  /\ proc'[w].pc \in Refusing => proc[w].pc \in Refusing \/ Declined(w)
  /\ proc[w].pc \in Refusing => proc'[w].pc \in Refusing

Place(w) ==
  SamePlace(w) \/ Leaves(w) \/ Takes(w) \/ Advances(w) \/ Begins(w) \/ Works(w)

LEMMA OwnPlace ==
  ASSUME TypeInv, NEW w \in Workers, Worker(w)
  PROVE  Place(w)
  <1> USE DEF TypeInv
  <1>0. proc \in [Workers -> Procs]
    BY DEF TypeOK
  <1>1. ASSUME NEW j \in Jobs, Claim(w, j)
        PROVE  Place(w)
    <2>1. CASE UNCHANGED proc
      BY <2>1 DEF Place, SamePlace, SamePlan
    <2>2. CASE ~UNCHANGED proc
      <3>1. /\ proc'[w].pc = IF plan[j] = "valid" THEN "loop" ELSE "reject"
            /\ proc'[w].job = j
            /\ proc'[w].op = 1
            /\ proc'[w].seen = {o \in Ops : opState[j][o] = "delivered"}
        BY <1>0, <1>1, <2>2 DEF Claim, Claimed
      <3>2. QED
        BY <1>1, <3>1 DEF Place, Takes, Leaves
    <2>3. QED
      BY <2>1, <2>2
  <1>2. ASSUME Return(w)
        PROVE  Leaves(w)
    BY <1>0, <1>2 DEF Return, Leaves, Idle
  <1>3. ASSUME NEW pc \in SendPCs \ {"send"}, proc[w].pc \in SendPCs, Goto(w, pc),
               pc \in Refusing <=> proc[w].pc \in Refusing
        PROVE  Works(w)
    BY <1>0, <1>3 DEF Goto, Works, SamePlan, Procs
  <1>4. ASSUME Retry(w)
        PROVE  SamePlace(w) \/ Leaves(w)
    BY <1>0, <1>2, <1>4 DEF Retry, SamePlace, SamePlan, Procs
  <1>5. CASE Reject(w)
    BY <1>2, <1>5 DEF Reject, Place
  <1>6. CASE Skip(w)
    BY <1>0, <1>6 DEF Skip, Advance, Place, Advances, SamePlan
  <1>7. CASE Begin(w)
    <2>1. CASE Return(w)
      BY <1>2, <2>1 DEF Place
    <2>2. CASE Confirmed(Request(w, "begin")) /\ Goto(w, "send")
      <3>1. CommitBegin(Request(w, "begin")) /\ Granted(Request(w, "begin"))
        BY <2>2 DEF Confirmed, Commit, Request
      <3>2. /\ opState' = [opState EXCEPT ![proc[w].job][proc[w].op] = "sending"]
            /\ UNCHANGED holder
        BY <3>1 DEF CommitBegin, SetOp, Request
      <3>3. /\ SamePlan(w)
            /\ \A v \in Workers \ {w} : proc'[v] = proc[v]
            /\ proc'[w].pc = "send"
            /\ proc'[w].op = proc[w].op
        BY <1>0, <2>2 DEF Goto, SamePlan, Procs
      <3>4. QED
        BY <1>7, <3>1, <3>2, <3>3 DEF Begins, Place
    <2>3. QED
      BY <1>7, <2>1, <2>2 DEF Begin
  <1>8. CASE Send(w)
    BY <1>3, <1>8 DEF Send, Place, SendPCs, Refusing
  <1>9. CASE NoAnswer(w)
    BY <1>3, <1>9 DEF NoAnswer, Place, SendPCs, Refusing
  <1>10. CASE Invalidate(w)
    BY <1>3, <1>10 DEF Invalidate, Place, SendPCs, Refusing
  <1>11. CASE Fail(w)
    BY <1>2, <1>11 DEF Fail, Place
  <1>12. CASE Ack(w)
    <2>1. CASE Advance(w)
      <3>1. ~Retry(w)
        BY <1>0, <1>12, <2>1 DEF Advance, Retry, Return, Idle, Ack, Procs
      <3>2. CommitAck(Request(w, "ack"))
        BY <1>12, <3>1 DEF Ack, Confirmed, Commit, Request
      <3>3. opState'[proc[w].job][proc[w].op] = "delivered"
        BY <1>12, <3>2 DEF CommitAck, SetOp, Request, Ack, TypeOK, ProcOK, SendPCs
      <3>4. QED
        BY <1>0, <1>12, <2>1, <3>3 DEF Ack, Advance, Place, Advances, SamePlan
    <2>2. QED
      BY <1>4, <1>12, <2>1 DEF Ack, Place
  <1>13. CASE Finish(w)
    BY <1>2, <1>4, <1>13 DEF Finish, Place
  <1>14. CASE Abandon(w)
    BY <1>2, <1>14 DEF Abandon, Place
  <1>15. CASE StopHeartbeat(w)
    BY <1>0, <1>15 DEF StopHeartbeat, Place, SamePlace, SamePlan, Procs
  <1>16. QED
    BY <1>1, <1>5, <1>6, <1>7, <1>8, <1>9, <1>10, <1>11, <1>12, <1>13, <1>14, <1>15
       DEF Worker

LEMMA OthersPlace ==
  ASSUME TypeInv, NEW w \in Workers, NEW v \in Workers \ {w}, Worker(v) \/ Process(v)
  PROVE  proc'[w] = proc[w]
  <1> USE DEF TypeInv, TypeOK
  <1>1. ASSUME Retry(v) PROVE proc'[w] = proc[w]
    BY <1>1 DEF Retry, Return
  <1>2. CASE Process(v)
    BY <1>2 DEF Process, Cancel, Die, Start
  <1>3. CASE Worker(v)
    BY <1>1, <1>3 DEF Worker, Claim, Claimed, Reject, Skip, Begin, Send, NoAnswer, Invalidate,
       Fail, Ack, Finish, Abandon, StopHeartbeat, Return, Goto, Advance
  <1>4. QED
    BY <1>2, <1>3

LEMMA PlaceStep ==
  ASSUME TypeInv, [Next]_vars, NEW w \in Workers
  PROVE  Place(w)
  <1>1. ASSUME proc'[w] = proc[w] PROVE Place(w)
    BY <1>1 DEF Place, SamePlace, SamePlan
  <1>2. ASSUME NEW v \in Workers, Worker(v) \/ Process(v)
        PROVE  Place(w)
    <2>1. CASE v # w
      BY <1>1, <1>2, <2>1, OthersPlace
    <2>2. CASE v = w /\ Worker(w)
      BY <2>2, OwnPlace
    <2>3. CASE v = w /\ Process(w)
      BY <1>1, <2>3 DEF Process, Cancel, Die, Start, Place, Leaves, Down, Idle, TypeInv, TypeOK
    <2>4. QED
      BY <1>2, <2>1, <2>2, <2>3
  <1>3. ASSUME NEW m \in wire, Telegram(m)
        PROVE  Place(w)
    <2>1. CASE UNCHANGED proc
      BY <1>1, <2>1
    <2>2. ASSUME NEW pc \in SendPCs, Awaits(m), Goto(m.worker, pc),
                 pc \in Refusing \cup {"send"} => UNCHANGED accepted
          PROVE  Place(w)
      <3>1. m.worker \in Workers
        BY DEF TypeInv, TypeOK, Messages
      <3>2. CASE m.worker # w
        BY <1>1, <2>2, <3>1, <3>2 DEF Goto, TypeInv, TypeOK
      <3>3. CASE m.worker = w
        <4>1. SamePlan(w) /\ proc'[w].op = proc[w].op /\ proc'[w].pc = pc
          BY <2>2, <3>3 DEF Goto, SamePlan, TypeInv, TypeOK, Procs
        <4>2. pc \in Refusing \cup {"send"} => Declined(w)
          BY <1>3, <2>2, <3>3 DEF Declined, Awaits, Telegram
        <4>3. QED
          BY <2>2, <3>3, <4>1, <4>2 DEF Place, Works, Awaits, SendPCs, Refusing
      <3>4. QED
        BY <3>2, <3>3
    <2>3. QED
      BY <1>3, <2>1, <2>2 DEF Telegram, Post, Decline, Answer, SendPCs, Refusing
  <1>4. CASE UNCHANGED proc
    BY <1>1, <1>4
  <1>5. QED
    BY <1>2, <1>3, <1>4 DEF Next, LateCommit, RecoverLease, vars

-----------------------------------------------------------------------------
(* Leases                                                                  *)

LEMMA CommitLease ==
  ASSUME TypeOK, LeaseOK, NEW r \in Requests, Commit(r)
  PROVE  LeaseOK'
  <1>1. r.job \in Jobs /\ r.worker \in Workers /\ (r.kind \in OpKinds => r.op \in Ops)
    BY DEF Requests, OpKinds, JobKinds
  <1>2. status[r.job] = "leased"
    BY <1>1 DEF Commit, Granted, LeaseOK
  <1>3. ASSUME NEW s \in {"sending", "delivered"}, SetOp(r, s), r.kind \in OpKinds,
               UNCHANGED <<status, holder>>
        PROVE  LeaseOK'
    BY <1>1, <1>2, <1>3 DEF SetOp, LeaseOK, TypeOK
  <1>4. ASSUME NEW s \in Terminal, EndJob(r.job, s),
               \A j \in Jobs \ {r.job} : opState'[j] = opState[j]
        PROVE  LeaseOK'
    BY <1>1, <1>4 DEF EndJob, LeaseOK, TypeOK, Terminal
  <1>5. CASE r.kind \in {"begin", "ack"}
    BY <1>3, <1>5 DEF Commit, CommitBegin, CommitAck, OpKinds
  <1>6. CASE r.kind \in {"fail", "unknown"}
    BY <1>1, <1>4, <1>6 DEF Commit, CommitFail, SetOp, OpKinds, TypeOK, Terminal
  <1>7. CASE r.kind \in {"finish", "reject"}
    BY <1>4, <1>7 DEF Commit, CommitEnd, Terminal
  <1>8. QED
    BY <1>5, <1>6, <1>7 DEF Commit

\* A request is one that a caller gave up on, or one that a worker makes now.
Asked(r) ==
  \/ r \in delayed
  \/ \E w \in Workers :
       /\ r.job = proc[w].job
       /\ r.op = proc[w].op
       /\ r.kind = "begin" => proc[w].pc = "loop"
       /\ r.kind \in OpKinds \ {"begin"} => proc[w].pc = r.kind
       /\ r.kind = "finish" => proc[w].pc = "loop" /\ proc[w].op = NumOps + 1
       /\ r.kind = "reject" => proc[w].pc = "reject"

\* Every step is one of these to Core's tables.
Stored ==
  \/ UNCHANGED <<status, holder, opState>>
  \/ \E r \in Requests : Asked(r) /\ Commit(r)
  \/ \E w \in Workers, j \in Jobs : Claim(w, j)
  \/ \E j \in Jobs : RecoverLease(j)

\* Whatever still waits to be carried out was asked for.
Waits == \A r \in delayed' : Asked(r)

LEMMA StoredStep ==
  ASSUME TypeInv, [Next]_vars
  PROVE  Stored /\ Waits
  <1> USE DEF TypeInv
  <1>0. ASSUME UNCHANGED delayed
        PROVE  Waits
    BY <1>0 DEF Waits, Asked
  <1>1. ASSUME NEW r \in Requests, Asked(r), Confirmed(r) \/ Refused(r) \/ Unanswered(r)
        PROVE  Stored /\ Waits
    BY <1>1, <1>0 DEF Stored, Waits, Asked, Confirmed, Refused, Unanswered, core
  <1>a. ASSUME NEW w \in Workers, NEW kind,
               kind = "begin" => proc[w].pc = "loop",
               kind \in OpKinds \ {"begin"} => proc[w].pc = kind,
               kind = "finish" => proc[w].pc = "loop" /\ proc[w].op = NumOps + 1,
               kind = "reject" => proc[w].pc = "reject"
        PROVE  Asked(Request(w, kind))
    BY <1>a DEF Asked, Request
  <1>2. ASSUME NEW w \in Workers, Worker(w)
        PROVE  Stored /\ Waits
    <2>1. CASE Reject(w)
      <3>1. Request(w, "reject") \in Requests
        BY <2>1, RequestType DEF Reject, ProcOK, JobKinds
      <3>2. QED
        BY <1>1, <1>a, <2>1, <3>1 DEF Reject, OpKinds
    <2>2. CASE Begin(w)
      <3>1. Request(w, "begin") \in Requests
        BY <2>2, RequestType DEF Begin, ProcOK, OpKinds
      <3>2. QED
        BY <1>1, <1>a, <2>2, <3>1 DEF Begin
    <2>3. CASE Fail(w)
      <3>1. Request(w, proc[w].pc) \in Requests
        BY <2>3, RequestType DEF Fail, ProcOK, SendPCs, OpKinds
      <3>2. QED
        BY <1>1, <1>a, <2>3, <3>1 DEF Fail
    <2>4. CASE Ack(w)
      <3>1. Request(w, "ack") \in Requests
        BY <2>4, RequestType DEF Ack, ProcOK, SendPCs, OpKinds
      <3>2. QED
        BY <1>1, <1>a, <2>4, <3>1 DEF Ack
    <2>5. CASE Finish(w)
      <3>1. Request(w, "finish") \in Requests
        BY <2>5, RequestType DEF Finish, ProcOK, JobKinds
      <3>2. QED
        BY <1>1, <1>a, <2>5, <3>1 DEF Finish, OpKinds
    <2>6. CASE \E j \in Jobs : Claim(w, j)
      BY <1>0, <2>6 DEF Stored, Claim
    <2>7. QED
      BY <1>0, <1>2, <2>1, <2>2, <2>3, <2>4, <2>5, <2>6
         DEF Worker, Skip, Send, NoAnswer, Invalidate, Abandon, StopHeartbeat, Stored, core
  <1>3. ASSUME NEW r \in delayed, LateCommit(r)
        PROVE  Stored /\ Waits
    BY <1>3 DEF LateCommit, Stored, Waits, Asked, TypeOK
  <1>4. QED
    BY <1>0, <1>2, <1>3 DEF Next, RecoverLease, Process, Cancel, Die, Start, Telegram, Stored,
       core, vars

LEMMA LeaseStep ==
  ASSUME TypeInv, LeaseOK, [Next]_vars
  PROVE  LeaseOK'
  <1> USE DEF TypeInv
  <1>1. CASE UNCHANGED <<status, holder, opState>>
    BY <1>1 DEF LeaseOK
  <1>2. ASSUME NEW r \in Requests, Commit(r) PROVE LeaseOK'
    BY <1>2, CommitLease
  <1>3. ASSUME NEW w \in Workers, NEW j \in Jobs, Claim(w, j) PROVE LeaseOK'
    BY <1>3 DEF Claim, LeaseOK, TypeOK
  <1>4. ASSUME NEW j \in Jobs, RecoverLease(j) PROVE LeaseOK'
    BY <1>4 DEF RecoverLease, EndJob, LeaseOK, TypeOK
  <1>5. QED
    BY <1>1, <1>2, <1>3, <1>4, StoredStep DEF Stored

\* A lease is given by a claim and by nothing else, and no step makes Core
\* forget that an operation was begun.
LEMMA StoredFacts ==
  ASSUME TypeInv, [Next]_vars, NEW j \in Jobs
  PROVE  /\ \A w \in Workers : holder'[j] = w => holder[j] = w \/ Claim(w, j)
         /\ \A o \in Ops : opState'[j][o] = "none" => opState[j][o] = "none"
  <1> DEFINE Facts == /\ \A w \in Workers : holder'[j] = w => holder[j] = w \/ Claim(w, j)
                      /\ \A o \in Ops : opState'[j][o] = "none" => opState[j][o] = "none"
  <1> USE DEF TypeInv
  <1>1. CASE UNCHANGED <<status, holder, opState>>
    BY <1>1
  <1>2. ASSUME NEW r \in Requests, Commit(r) PROVE Facts
    <2>1. r.job \in Jobs /\ (r.kind \in OpKinds => r.op \in Ops)
      BY DEF Requests, OpKinds, JobKinds
    <2>2. \A w \in Workers : holder'[j] = w => holder[j] = w
      BY <1>2, <2>1 DEF Commit, CommitBegin, CommitAck, CommitFail, CommitEnd, EndJob, TypeOK
    <2>3. \/ UNCHANGED opState
          \/ r.kind \in OpKinds /\ \E s \in OpStates \ {"none"} : SetOp(r, s)
      BY <1>2 DEF Commit, CommitBegin, CommitAck, CommitFail, CommitEnd, OpKinds, OpStates
    <2>4. \A o \in Ops : opState'[j][o] = "none" => opState[j][o] = "none"
      <3>1. CASE UNCHANGED opState
        BY <3>1
      <3>2. ASSUME NEW s \in OpStates \ {"none"}, SetOp(r, s), r.kind \in OpKinds
            PROVE  \A o \in Ops : opState'[j][o] = "none" => opState[j][o] = "none"
        BY <2>1, <3>2 DEF SetOp, TypeOK
      <3>3. QED
        BY <2>3, <3>1, <3>2
    <2>5. QED
      BY <2>2, <2>4
  <1>3. ASSUME NEW w \in Workers, NEW k \in Jobs, Claim(w, k) PROVE Facts
    <2>1. \A v \in Workers : holder'[j] = v => holder[j] = v \/ Claim(v, j)
      <3> SUFFICES ASSUME NEW v \in Workers, holder'[j] = v, holder[j] # v
                   PROVE  Claim(v, j)
        OBVIOUS
      <3>1. holder' = [holder EXCEPT ![k] = w]
        BY <1>3 DEF Claim, Claimed
      <3>2. j = k /\ v = w
        BY <3>1 DEF TypeOK
      <3>3. QED
        BY <1>3, <3>2
    <2>2. UNCHANGED opState
      BY <1>3 DEF Claim
    <2>3. QED
      BY <2>1, <2>2
  <1>4. ASSUME NEW k \in Jobs, RecoverLease(k) PROVE Facts
    BY <1>4 DEF RecoverLease, EndJob, TypeOK
  <1>5. QED
    BY <1>1, <1>2, <1>3, <1>4, StoredStep DEF Stored

-----------------------------------------------------------------------------
(* Requests to Telegram                                                    *)

\* Only the send of its operation puts a request on the wire.
LEMMA WireStep ==
  ASSUME TypeInv, [Next]_vars
  PROVE  \/ UNCHANGED <<wire, accepted>>
         \/ \E m \in wire : wire' = wire \ {m} /\ (Post(m) \/ UNCHANGED accepted)
         \/ \E w \in Workers :
              /\ proc[w].pc = "send"
              /\ proc'[w].pc = "await"
              /\ wire' = wire \cup {[worker |-> w, job |-> proc[w].job, op |-> proc[w].op]}
              /\ UNCHANGED accepted
  <1> DEFINE Added == \E w \in Workers :
              /\ proc[w].pc = "send"
              /\ proc'[w].pc = "await"
              /\ wire' = wire \cup {[worker |-> w, job |-> proc[w].job, op |-> proc[w].op]}
              /\ UNCHANGED accepted
  <1>1. ASSUME NEW w \in Workers, Worker(w)
        PROVE  UNCHANGED <<wire, accepted>> \/ Added
    <2>1. CASE Send(w)
      BY <2>1 DEF Send, Goto, TypeInv, TypeOK, Procs
    <2>2. QED
      BY <1>1, <2>1 DEF Worker, Claim, Claimed, Reject, Skip, Begin, NoAnswer, Invalidate, Fail,
         Ack, Finish, Abandon, StopHeartbeat
  <1>2. ASSUME NEW m \in wire, Telegram(m)
        PROVE  wire' = wire \ {m} /\ (Post(m) \/ UNCHANGED accepted)
    BY <1>2 DEF Telegram, Decline
  <1>3. QED
    BY <1>1, <1>2 DEF Next, Process, Cancel, Die, Start, LateCommit, RecoverLease, vars

LEMMA CleanKept ==
  ASSUME TypeInv, [Next]_vars, NEW j \in Jobs, NEW o \in Ops, Clean(j, o), ~Clean(j, o)'
  PROVE  \E w \in Workers :
           /\ proc[w].pc = "send" /\ proc[w].job = j /\ proc[w].op = o
           /\ proc'[w].pc = "await"
  <1>1. CASE UNCHANGED <<wire, accepted>>
    BY <1>1 DEF Clean, OnWire
  <1>2. ASSUME NEW m \in wire, wire' = wire \ {m}, Post(m) \/ UNCHANGED accepted
        PROVE  FALSE
    <2>1. m.job # j \/ m.op # o
      BY DEF Clean, OnWire
    <2>2. accepted'[j][o] = accepted[j][o]
      BY <1>2, <2>1 DEF Post, TypeInv, TypeOK, Messages
    <2>3. QED
      BY <1>2, <2>2 DEF Clean, OnWire
  <1>3. ASSUME NEW w \in Workers, proc[w].pc = "send", proc'[w].pc = "await",
               wire' = wire \cup {[worker |-> w, job |-> proc[w].job, op |-> proc[w].op]},
               UNCHANGED accepted
        PROVE  proc[w].job = j /\ proc[w].op = o
    BY <1>3 DEF Clean, OnWire
  <1>4. QED
    BY <1>1, <1>2, <1>3, WireStep

\* Whoever sends an operation it did not send before has just begun it, ahead
\* of which it was.
LEMMA NewSender ==
  ASSUME TypeInv, [Next]_vars, NEW w \in Workers, NEW j \in Jobs, NEW o \in Ops,
         Sending(w, j, o)', ~Sending(w, j, o)
  PROVE  Begins(w) /\ Ahead(w, j, o)
  <1>1. Begins(w)
    BY PlaceStep DEF Place, SamePlace, SamePlan, Leaves, Takes, Advances, Works, Sending, SendPCs
  <1>2. proc[w].pc = "loop" /\ proc[w].job = j /\ proc[w].op = o /\ o \notin proc[w].seen
    BY <1>1 DEF Begins, SamePlan, Begin, Sending
  <1>3. holder[j] = w
    BY <1>1, <1>2 DEF Begins, Granted, Request
  <1>4. QED
    BY <1>1, <1>2, <1>3 DEF Ahead

\* What a worker is ahead of after a step, it was ahead of before, or it has
\* just claimed the job and nobody has begun the operation.
LEMMA AheadBefore ==
  ASSUME TypeInv, LeaseOK, [Next]_vars, NEW w \in Workers, NEW j \in Jobs, NEW o \in Ops,
         Ahead(w, j, o)'
  PROVE  Ahead(w, j, o) \/ opState[j][o] = "none"
  <1> USE DEF TypeInv
  <1>1. CASE Claim(w, j)
    <2>1. proc[w].pc = "poll"
      BY <1>1 DEF Claim, Claimed
    <2>2. proc'[w].seen = {p \in Ops : opState[j][p] = "delivered"}
      <3>1. ~UNCHANGED proc
        BY <2>1 DEF Ahead, SendPCs
      <3>2. QED
        BY <1>1, <3>1 DEF Claim, Claimed, TypeOK
    <2>3. opState[j][o] # "delivered"
      BY <2>2 DEF Ahead
    <2>4. QED
      BY <1>1, <2>3 DEF Claim, LeaseOK
  <1>2. CASE ~Claim(w, j)
    <2>1. holder[j] = w
      BY <1>2, StoredFacts DEF Ahead
    <2>2. ~Takes(w)
      BY <1>2 DEF Takes, Ahead
    <2>3. proc[w].op \in Int /\ proc'[w].op \in Int /\ o \in Int
      <3>1. TypeOK'
        BY TypeStep
      <3>2. QED
        BY <3>1 DEF TypeOK, Procs, Ops
    <2>4. CASE Advances(w)
      BY <2>1, <2>3, <2>4 DEF Advances, SamePlan, Ahead, SendPCs
    <2>5. CASE SamePlace(w) \/ Begins(w) \/ Works(w)
      BY <2>1, <2>5 DEF SamePlace, SamePlan, Begins, Begin, Works, Ahead, SendPCs
    <2>6. ~Leaves(w)
      BY DEF Leaves, Ahead, SendPCs
    <2>7. QED
      BY <2>2, <2>4, <2>5, <2>6, PlaceStep DEF Place
  <1>3. QED
    BY <1>1, <1>2

-----------------------------------------------------------------------------
(* The inductive invariant                                                 *)

\* An operation that is fresh stays so until somebody begins it.
LEMMA FreshKept ==
  ASSUME TypeInv, [Next]_vars, NEW j \in Jobs, NEW o \in Ops, Fresh(j, o)
  PROVE  /\ Clean(j, o)'
         /\ \A w \in Workers : Sending(w, j, o)' => Begins(w) /\ Ahead(w, j, o)
  <1>1. \A w \in Workers : ~Sending(w, j, o)
    BY DEF Fresh
  <1>2. Clean(j, o)'
    BY <1>1, CleanKept DEF Fresh, Sending, SendPCs
  <1>3. QED
    BY <1>1, <1>2, NewSender

LEMMA FreshStep ==
  ASSUME TypeInv, LeaseOK, FreshOK, [Next]_vars
  PROVE  FreshOK'
  <1> SUFFICES ASSUME NEW j \in Jobs, NEW o \in Ops,
                      opState'[j][o] = "none" \/ \E w \in Workers : Ahead(w, j, o)'
               PROVE  Fresh(j, o)'
    BY DEF FreshOK
  <1>1. Fresh(j, o)
    BY StoredFacts, AheadBefore DEF FreshOK
  <1>2. ASSUME NEW v \in Workers, Sending(v, j, o)'
        PROVE  FALSE
    <2>1. Begins(v) /\ Ahead(v, j, o)
      BY <1>1, <1>2, FreshKept
    <2>2. proc[v].job = j /\ proc[v].op = o
      BY <1>2, <2>1 DEF Begins, SamePlan, Sending
    <2>3. opState'[j][o] = "sending"
      BY <2>1, <2>2 DEF Begins, TypeInv, TypeOK
    <2>4. PICK w \in Workers : Ahead(w, j, o)'
      BY <2>3
    <2>5. w = v
      BY <2>1, <2>4 DEF Begins, Ahead
    <2>6. o \in Int
      BY DEF Ops
    <2>7. QED
      BY <1>2, <2>4, <2>5, <2>6 DEF Ahead, Sending, SendPCs
  <1>3. QED
    BY <1>1, <1>2, FreshKept DEF Fresh

LEMMA SenderStep ==
  ASSUME TypeInv, LeaseOK, FreshOK, SenderOK, WireOK, [Next]_vars
  PROVE  SenderOK'
  <1> SUFFICES ASSUME NEW w \in Workers, NEW j \in Jobs, NEW o \in Ops, Sending(w, j, o)'
               PROVE  /\ \A v \in Workers : Sending(v, j, o)' => v = w
                      /\ proc'[w].pc = "send" => Clean(j, o)'
    BY DEF SenderOK
  <1>1. CASE ~Sending(w, j, o)
    <2>1. Begins(w) /\ Ahead(w, j, o)
      BY <1>1, NewSender
    <2>2. Fresh(j, o)
      BY <2>1 DEF FreshOK
    <2>3. ASSUME NEW v \in Workers, Sending(v, j, o)' PROVE v = w
      <3>1. Ahead(v, j, o)
        BY <2>2, <2>3, FreshKept
      <3>2. QED
        BY <2>1, <3>1 DEF Ahead
    <2>4. QED
      BY <2>2, <2>3, FreshKept
  <1>2. CASE Sending(w, j, o)
    <2>1. ~Fresh(j, o)
      BY <1>2 DEF Fresh
    <2>2. ASSUME NEW v \in Workers, Sending(v, j, o)' PROVE v = w
      <3>1. Sending(v, j, o)
        <4>1. ~Ahead(v, j, o)
          BY <2>1 DEF FreshOK
        <4>2. QED
          BY <2>2, <4>1, NewSender
      <3>2. QED
        BY <1>2, <3>1 DEF SenderOK
    <2>3. ASSUME proc'[w].pc = "send" PROVE Clean(j, o)'
      <3>1. CASE SamePlace(w)
        <4>1. Clean(j, o)
          BY <1>2, <2>3, <3>1 DEF SamePlace, SenderOK
        <4>2. ASSUME NEW v \in Workers, proc[v].pc = "send", proc[v].job = j, proc[v].op = o,
                     proc'[v].pc = "await"
              PROVE  FALSE
          <5>1. v = w
            BY <1>2, <4>2 DEF SenderOK, Sending, SendPCs
          <5>2. QED
            BY <2>3, <4>2, <5>1
        <4>3. QED
          BY <4>1, <4>2, CleanKept
      <3>2. CASE Works(w)
        <4>1. PICK m \in wire : m.job = j /\ m.op = o /\ wire' = wire \ {m} /\ UNCHANGED accepted
          BY <1>2, <2>3, <3>2 DEF Works, Declined, Sending
        <4>2. accepted'[j][o] = 0
          BY <4>1 DEF WireOK
        <4>3. ~OnWire(j, o)'
          BY <4>1 DEF WireOK, OnWire
        <4>4. QED
          BY <4>2, <4>3 DEF Clean
      <3>3. ~Begins(w) /\ ~Takes(w) /\ ~Advances(w) /\ ~Leaves(w)
        BY <1>2, <2>3 DEF Begins, Begin, Takes, Advances, Leaves, Sending, SendPCs
      <3>4. QED
        BY <3>1, <3>2, <3>3, PlaceStep DEF Place
    <2>4. QED
      BY <2>2, <2>3
  <1>3. QED
    BY <1>1, <1>2

LEMMA WireOKStep ==
  ASSUME TypeInv, ProcOK, SenderOK, WireOK, NoDuplicate, [Next]_vars
  PROVE  WireOK' /\ NoDuplicate'
  <1>1. CASE UNCHANGED <<wire, accepted>>
    BY <1>1 DEF WireOK, NoDuplicate
  <1>2. ASSUME NEW m \in wire, wire' = wire \ {m}, Post(m) \/ UNCHANGED accepted
        PROVE  WireOK' /\ NoDuplicate'
    <2>1. CASE UNCHANGED accepted
      BY <1>2, <2>1 DEF WireOK, NoDuplicate
    <2>2. CASE Post(m)
      <3>1. m.job \in Jobs /\ m.op \in Ops
        BY DEF TypeInv, TypeOK, Messages
      <3>2. accepted[m.job][m.op] = 0
        BY DEF WireOK
      <3>3. accepted' = [accepted EXCEPT ![m.job][m.op] = 1]
        BY <2>2, <3>1, <3>2 DEF Post, TypeInv, TypeOK
      <3>4. NoDuplicate'
        BY <3>1, <3>3 DEF NoDuplicate, TypeInv, TypeOK
      <3>5. \A n \in wire' : n.job # m.job \/ n.op # m.op
        BY <1>2 DEF WireOK
      <3>6. \A n \in wire' : accepted'[n.job][n.op] = accepted[n.job][n.op]
        BY <1>2, <3>3, <3>5 DEF TypeInv, TypeOK, Messages
      <3>7. QED
        BY <1>2, <3>4, <3>6 DEF WireOK
    <2>3. QED
      BY <1>2, <2>1, <2>2
  <1>3. ASSUME NEW w \in Workers, proc[w].pc = "send",
               wire' = wire \cup {[worker |-> w, job |-> proc[w].job, op |-> proc[w].op]},
               UNCHANGED accepted
        PROVE  WireOK' /\ NoDuplicate'
    <2>1. Sending(w, proc[w].job, proc[w].op) /\ proc[w].job \in Jobs /\ proc[w].op \in Ops
      BY <1>3 DEF Sending, SendPCs, ProcOK
    <2>2. Clean(proc[w].job, proc[w].op)
      BY <1>3, <2>1 DEF SenderOK
    <2>3. QED
      BY <1>3, <2>2 DEF WireOK, Clean, OnWire, NoDuplicate
  <1>4. QED
    BY <1>1, <1>2, <1>3, WireStep

LEMMA InitSendInv == Init => SendInv
  <1> SUFFICES ASSUME Init PROVE SendInv
    OBVIOUS
  <1>1. TypeOK /\ ProcOK
    BY InitType DEF TypeInv
  <1>2. LeaseOK /\ WireOK /\ NoDuplicate
    BY DEF Init, LeaseOK, WireOK, NoDuplicate
  <1>3. \A w \in Workers, j \in Jobs, o \in Ops : ~Sending(w, j, o)
    BY DEF Init, Sending, Idle, SendPCs
  <1>4. SenderOK
    BY <1>3 DEF SenderOK
  <1>5. FreshOK
    BY <1>3 DEF Init, FreshOK, Fresh, Clean, OnWire
  <1>6. QED
    BY <1>1, <1>2, <1>4, <1>5 DEF SendInv

LEMMA SendInvStep == SendInv /\ [Next]_vars => SendInv'
  BY TypeStep, LeaseStep, FreshStep, SenderStep, WireOKStep DEF SendInv, TypeInv

\* The inductive invariant behind the next two: who may send what, under which
\* lease, with nothing of it on the wire yet.
THEOREM SendInvariant == Spec => []SendInv
  BY InitSendInv, SendInvStep, PTL DEF Spec

\* No operation of a job is posted twice by the bridge, for any number of
\* workers and jobs and any plan, whatever is lost, late or crashes.
THEOREM NeverDuplicated == Spec => []NoDuplicate
  <1>1. SendInv => NoDuplicate
    BY DEF SendInv
  <1>2. QED
    BY <1>1, SendInvariant, PTL

\* Core has recorded every operation that Telegram has, or may still get.
THEOREM AlwaysRecorded == Spec => []RecordedBeforeSend
  <1>1. SendInv => RecordedBeforeSend
    BY DEF SendInv, FreshOK, Fresh, Clean, RecordedBeforeSend, TypeOK
  <1>2. QED
    BY <1>1, SendInvariant, PTL
-----------------------------------------------------------------------------
(* What Core has confirmed                                                 *)

Stays ==
  \A j \in Jobs :
    /\ status[j] \in Terminal => status'[j] = status[j]
    /\ \A o \in Ops : opState[j][o] = "delivered" => opState'[j][o] = "delivered"

\* Core grants a request to the holder of a lease alone, so on a job that is
\* still open, and none that would undo an acknowledgement.
LEMMA CommitStays ==
  ASSUME TypeOK, LeaseOK, NEW r \in Requests, Commit(r)
  PROVE  Stays
  <1>1. r.job \in Jobs /\ r.worker \in Workers /\ (r.kind \in OpKinds => r.op \in Ops)
    BY DEF Requests, OpKinds, JobKinds
  <1>2. status[r.job] = "leased" /\ "leased" \notin Terminal
    BY <1>1 DEF Commit, Granted, LeaseOK, Terminal
  <1>3. \A j \in Jobs : status[j] \in Terminal => status'[j] = status[j]
    BY <1>1, <1>2 DEF Commit, CommitBegin, CommitAck, CommitFail, CommitEnd, EndJob, TypeOK
  <1>4. \/ UNCHANGED opState
        \/ r.kind = "ack" /\ SetOp(r, "delivered")
        \/ /\ r.kind \in OpKinds
           /\ opState[r.job][r.op] # "delivered"
           /\ \E s \in OpStates : SetOp(r, s)
    BY DEF Commit, Granted, CommitBegin, CommitAck, CommitFail, CommitEnd, OpKinds, OpStates
  <1>5. \A j \in Jobs, o \in Ops : opState[j][o] = "delivered" => opState'[j][o] = "delivered"
    <2>1. CASE UNCHANGED opState
      BY <2>1
    <2>2. CASE r.kind = "ack" /\ SetOp(r, "delivered")
      BY <1>1, <2>2 DEF SetOp, TypeOK, OpKinds
    <2>3. ASSUME r.kind \in OpKinds, opState[r.job][r.op] # "delivered",
                 NEW s \in OpStates, SetOp(r, s)
          PROVE  \A j \in Jobs, o \in Ops :
                   opState[j][o] = "delivered" => opState'[j][o] = "delivered"
      BY <1>1, <2>3 DEF SetOp, TypeOK
    <2>4. QED
      BY <1>4, <2>1, <2>2, <2>3
  <1>6. QED
    BY <1>3, <1>5 DEF Stays

LEMMA StaysStep ==
  ASSUME TypeInv, LeaseOK, [Next]_vars
  PROVE  Stays
  <1> USE DEF TypeInv
  <1>1. CASE UNCHANGED <<status, holder, opState>>
    BY <1>1 DEF Stays
  <1>2. ASSUME NEW r \in Requests, Commit(r) PROVE Stays
    BY <1>2, CommitStays
  <1>3. ASSUME NEW w \in Workers, NEW j \in Jobs, Claim(w, j) PROVE Stays
    BY <1>3 DEF Claim, Stays, Terminal, TypeOK
  <1>4. ASSUME NEW j \in Jobs, RecoverLease(j) PROVE Stays
    BY <1>4 DEF RecoverLease, EndJob, Stays, Terminal, TypeOK
  <1>5. QED
    BY <1>1, <1>2, <1>3, <1>4, StoredStep DEF Stored

-----------------------------------------------------------------------------
(* What is reported as delivered was posted                                *)

Posted(j, o) == accepted[j][o] = 1

\* w has operation p of its plan behind it.
Behind(w, p) ==
  /\ proc[w].pc \in SendPCs \cup {"loop"}
  /\ \/ p < proc[w].op
     \/ p \in proc[w].seen
     \/ p = proc[w].op /\ proc[w].pc = "ack"

\* What a worker has behind it is posted, and so is what still waits to be
\* acknowledged or finished.
WholeOK ==
  /\ \A w \in Workers, p \in Ops : Behind(w, p) => Posted(proc[w].job, p)
  /\ \A r \in delayed :
       /\ r.kind = "ack" => Posted(r.job, r.op)
       /\ r.kind = "finish" => \A o \in Ops : Posted(r.job, o)
  /\ DeliveredIsWhole

LEMMA PostedKept ==
  ASSUME TypeInv, WireOK, [Next]_vars, NEW j \in Jobs, NEW o \in Ops, Posted(j, o)
  PROVE  Posted(j, o)'
  <1>1. ASSUME NEW m \in wire, Post(m)
        PROVE  Posted(j, o)'
    <2>1. m.job # j \/ m.op # o
      BY DEF WireOK, Posted
    <2>2. QED
      BY <1>1, <2>1 DEF Post, Posted, TypeInv, TypeOK, Messages
  <1>2. QED
    BY <1>1, WireStep DEF Posted

\* Only Telegram's confirmation sends a worker to acknowledge.
LEMMA AckStep ==
  ASSUME TypeInv, WireOK, [Next]_vars, NEW w \in Workers,
         proc'[w].pc = "ack", proc[w].pc # "ack"
  PROVE  Posted(proc[w].job, proc[w].op)'
  <1>1. ASSUME NEW v \in Workers, Worker(v) \/ Process(v)
        PROVE  FALSE
    <2>1. v = w
      BY <1>1, OthersPlace
    <2>2. proc \in [Workers -> Procs]
      BY DEF TypeInv, TypeOK
    <2>3. ASSUME NEW pc \in PCs \ {"ack"}, Goto(w, pc) PROVE FALSE
      BY <2>2, <2>3 DEF Goto, Procs
    <2>4. ASSUME Return(w) PROVE FALSE
      BY <2>2, <2>4 DEF Return, Idle
    <2>5. ASSUME Retry(w) PROVE FALSE
      BY <2>2, <2>4, <2>5 DEF Retry, Procs
    <2>6. ASSUME Advance(w) PROVE FALSE
      BY <2>2, <2>6 DEF Advance
    <2>7. ASSUME NEW j \in Jobs, Claim(w, j) PROVE FALSE
      BY <2>2, <2>7 DEF Claim, Claimed
    <2>8. ~StopHeartbeat(w)
      BY <2>2 DEF StopHeartbeat, Procs
    <2>9. ~Process(w)
      BY <2>2 DEF Process, Cancel, Die, Start, Idle, Down
    <2>10. ~Reject(w) /\ ~Skip(w) /\ ~Fail(w) /\ ~Ack(w) /\ ~Finish(w) /\ ~Abandon(w)
      BY <2>4, <2>5, <2>6 DEF Reject, Skip, Fail, Ack, Finish, Abandon
    <2>11. ~Begin(w) /\ ~Send(w) /\ ~NoAnswer(w) /\ ~Invalidate(w)
      BY <2>3, <2>4 DEF Begin, Send, NoAnswer, Invalidate, PCs
    <2>12. QED
      BY <1>1, <2>1, <2>7, <2>8, <2>9, <2>10, <2>11 DEF Worker
  <1>2. ASSUME NEW m \in wire, Telegram(m)
        PROVE  Posted(proc[w].job, proc[w].op)'
    <2>1. m.worker \in Workers /\ m.job \in Jobs /\ m.op \in Ops
      BY DEF TypeInv, TypeOK, Messages
    <2>a. ASSUME NEW pc \in PCs \ {"ack"}, Answer(m, pc) PROVE FALSE
      BY <2>1, <2>a DEF Answer, Goto, TypeInv, TypeOK, Procs
    <2>2. ~Decline(m)
      BY <2>a DEF Decline, PCs
    <2>3. Post(m) /\ Awaits(m) /\ Goto(m.worker, "ack")
      BY <1>2, <2>2 DEF Telegram, Post, Answer
    <2>4. m.worker = w
      BY <2>1, <2>3 DEF Goto, TypeInv, TypeOK
    <2>5. proc[w].job = m.job /\ proc[w].op = m.op
      BY <2>3, <2>4 DEF Awaits
    <2>7. accepted'[m.job][m.op] = 1
      BY <2>1, <2>3 DEF Post, WireOK, TypeInv, TypeOK
    <2>8. proc'[w].job = m.job /\ proc'[w].op = m.op
      BY <2>1, <2>3, <2>4, <2>5 DEF Goto, TypeInv, TypeOK, Procs
    <2>9. QED
      BY <2>5, <2>7, <2>8 DEF Posted
  <1>3. QED
    BY <1>1, <1>2 DEF Next, LateCommit, RecoverLease, vars

LEMMA PlaceWhole ==
  ASSUME TypeInv, WireOK, WholeOK, [Next]_vars, NEW w \in Workers, NEW p \in Ops, Behind(w, p)'
  PROVE  Posted(proc[w].job, p)'
  <1>a. proc[w].op \in Int /\ proc'[w].op \in Int /\ p \in Int
    <2>1. TypeOK'
      BY TypeStep DEF TypeInv
    <2>2. QED
      BY <2>1 DEF TypeInv, TypeOK, Procs, Ops
  <1>b. proc[w].pc \in SendPCs \cup {"loop"} => proc[w].job \in Jobs
    BY DEF TypeInv, ProcOK, SendPCs
  <1>c. ASSUME proc[w].pc \in SendPCs \cup {"loop"}, proc'[w].job = proc[w].job,
               Posted(proc[w].job, p)
        PROVE  Posted(proc[w].job, p)'
    <2>1. accepted'[proc[w].job][p] = 1
      BY <1>b, <1>c, PostedKept DEF Posted
    <2>2. QED
      BY <1>c, <2>1 DEF Posted
  <1>1. CASE SamePlace(w)
    BY <1>1, <1>c DEF SamePlace, SamePlan, WholeOK, Behind
  <1>2. CASE Takes(w)
    <2>1. PICK j \in Jobs : Claim(w, j) /\ proc'[w].pc = "loop" /\ proc'[w].job = j
                            /\ proc'[w].seen = {o \in Ops : opState[j][o] = "delivered"}
      BY <1>2 DEF Takes
    <2>2. proc'[w].op = 1
      BY <2>1 DEF Claim, Claimed, TypeInv, TypeOK
    <2>3. opState[j][p] = "delivered"
      BY <2>1, <2>2 DEF Ops, Behind
    <2>4. accepted'[j][p] = 1
      BY <2>3, PostedKept DEF WholeOK, DeliveredIsWhole, Posted
    <2>5. QED
      BY <2>1, <2>4 DEF Posted
  <1>3. CASE Advances(w)
    BY <1>3, <1>a, <1>c DEF Advances, SamePlan, WholeOK, Behind, SendPCs
  <1>4. CASE Begins(w)
    BY <1>4, <1>c DEF Begins, Begin, SamePlan, WholeOK, Behind
  <1>5. CASE Works(w)
    <2>1. CASE proc'[w].pc = "ack" /\ proc[w].pc # "ack" /\ p = proc[w].op
      BY <1>5, <2>1, AckStep DEF Works, SamePlan
    <2>2. CASE ~(proc'[w].pc = "ack" /\ proc[w].pc # "ack" /\ p = proc[w].op)
      BY <1>5, <1>c, <2>2 DEF Works, SamePlan, WholeOK, Behind
    <2>3. QED
      BY <2>1, <2>2
  <1>6. ~Leaves(w)
    BY DEF Leaves, Behind, SendPCs
  <1>7. QED
    BY <1>1, <1>2, <1>3, <1>4, <1>5, <1>6, PlaceStep DEF Place

\* A worker acknowledges, and finishes, only what is posted.
LEMMA AskedPosted ==
  ASSUME TypeInv, WholeOK, NEW r \in Requests, Asked(r)
  PROVE  /\ r.kind = "ack" => Posted(r.job, r.op)
         /\ r.kind = "finish" => \A o \in Ops : Posted(r.job, o)
  <1>1. r.kind = "ack" => r.op \in Ops
    BY DEF Requests, OpKinds, JobKinds
  <1>2. \A o \in Ops : o < NumOps + 1
    BY DEF Ops
  <1>3. QED
    BY <1>1, <1>2 DEF Asked, WholeOK, Behind, SendPCs, OpKinds

LEMMA WholeStep ==
  ASSUME SendInv, WholeOK, [Next]_vars
  PROVE  WholeOK'
  <1> USE DEF SendInv
  <1>a. TypeInv
    BY DEF TypeInv
  <1>b. TypeInv'
    BY <1>a, TypeStep
  <1>1. \A w \in Workers, p \in Ops : Behind(w, p)' => Posted(proc[w].job, p)'
    BY <1>a, PlaceWhole
  <1>2. ASSUME NEW r, r \in delayed'
        PROVE  /\ r.kind = "ack" => accepted'[r.job][r.op] = 1
               /\ r.kind = "finish" => \A o \in Ops : accepted'[r.job][o] = 1
    <2>1. r \in Requests /\ Asked(r)
      BY <1>2, <1>a, <1>b, StoredStep DEF Waits, TypeInv, TypeOK
    <2>2. r.job \in Jobs /\ (r.kind = "ack" => r.op \in Ops)
      BY <2>1 DEF Requests, OpKinds, JobKinds
    <2>3. QED
      BY <1>a, <2>1, <2>2, AskedPosted, PostedKept DEF Posted
  <1>3. DeliveredIsWhole'
    <2>1. \A j \in Jobs, o \in Ops : Posted(j, o) => Posted(j, o)'
      BY <1>a, PostedKept
    <2>2. CASE UNCHANGED <<status, holder, opState>>
      BY <2>1, <2>2 DEF DeliveredIsWhole, WholeOK, Posted
    <2>3. ASSUME NEW r \in Requests, Asked(r), Commit(r)
          PROVE  DeliveredIsWhole'
      <3>1. r.job \in Jobs /\ (r.kind \in OpKinds => r.op \in Ops)
        BY DEF Requests, OpKinds, JobKinds
      <3>2. /\ r.kind = "ack" => Posted(r.job, r.op)
            /\ r.kind = "finish" => \A o \in Ops : Posted(r.job, o)
        BY <1>a, <2>3, AskedPosted
      <3>3. ASSUME NEW j \in Jobs, status'[j] = "delivered"
            PROVE  status[j] = "delivered" \/ (j = r.job /\ r.kind = "finish")
        BY <2>3, <3>1, <3>3 DEF Commit, CommitBegin, CommitAck, CommitFail, CommitEnd, EndJob,
           TypeOK
      <3>4. ASSUME NEW j \in Jobs, NEW o \in Ops, opState'[j][o] = "delivered"
            PROVE  opState[j][o] = "delivered" \/ (j = r.job /\ o = r.op /\ r.kind = "ack")
        <4>1. \/ UNCHANGED opState
              \/ r.kind = "ack" /\ SetOp(r, "delivered")
              \/ r.kind \in OpKinds /\ \E s \in OpStates \ {"delivered"} : SetOp(r, s)
          BY <2>3 DEF Commit, CommitBegin, CommitAck, CommitFail, CommitEnd, OpKinds, OpStates
        <4>2. CASE UNCHANGED opState
          BY <3>4, <4>2
        <4>3. ASSUME NEW s \in OpStates, SetOp(r, s), r.kind \in OpKinds
              PROVE  opState[j][o] = "delivered" \/ (j = r.job /\ o = r.op /\ s = "delivered")
          BY <3>1, <3>4, <4>3 DEF SetOp, TypeOK
        <4>4. QED
          BY <4>1, <4>2, <4>3 DEF OpKinds, OpStates
      <3>5. QED
        BY <2>1, <3>2, <3>3, <3>4 DEF DeliveredIsWhole, WholeOK, Posted
    <2>4. ASSUME NEW w \in Workers, NEW j \in Jobs, Claim(w, j)
          PROVE  DeliveredIsWhole'
      BY <2>1, <2>4 DEF Claim, DeliveredIsWhole, WholeOK, Posted, TypeOK
    <2>5. ASSUME NEW j \in Jobs, RecoverLease(j)
          PROVE  DeliveredIsWhole'
      BY <2>1, <2>5 DEF RecoverLease, EndJob, DeliveredIsWhole, WholeOK, Posted, TypeOK
    <2>6. QED
      BY <1>a, <2>2, <2>3, <2>4, <2>5, StoredStep DEF Stored
  <1>4. QED
    BY <1>1, <1>2, <1>3 DEF WholeOK, Posted

\* A job that is reported as delivered, and an operation that is acknowledged,
\* was posted, exactly once.
THEOREM DeliveredWhole == Spec => []DeliveredIsWhole
  <1>1. Init => WholeOK
    BY DEF Init, WholeOK, Behind, DeliveredIsWhole, Idle, SendPCs
  <1>2. SendInv /\ WholeOK /\ [Next]_vars => WholeOK'
    BY WholeStep
  <1>3. WholeOK => DeliveredIsWhole
    BY DEF WholeOK
  <1>4. QED
    BY <1>1, <1>2, <1>3, SendInvariant, PTL DEF Spec
-----------------------------------------------------------------------------
(* The order of the plan, and what a failure means                         *)

\* What a worker, or a request that still waits, has before it in the plan is
\* acknowledged.
OrderOK ==
  /\ \A w \in Workers, p \in Ops :
       proc[w].pc \in SendPCs \cup {"loop"} /\ (p < proc[w].op \/ p \in proc[w].seen) =>
         opState[proc[w].job][p] = "delivered"
  /\ \A r \in delayed, p \in Ops :
       r.kind \in OpKinds /\ p < r.op => opState[r.job][p] = "delivered"
  /\ InPlanOrder

\* Only a valid plan is worked on, and only one that is not is rejected.
PlanOK ==
  /\ \A w \in Workers :
       /\ proc[w].pc \in SendPCs \cup {"loop"} => plan[proc[w].job] = "valid"
       /\ proc[w].pc = "reject" => plan[proc[w].job] # "valid"
  /\ \A r \in delayed :
       /\ r.kind \in OpKinds => plan[r.job] = "valid"
       /\ r.kind = "reject" => plan[r.job] # "valid"
  /\ \A j \in Jobs, o \in Ops : opState[j][o] # "none" => plan[j] = "valid"

\* Nothing of the operation is or will be posted: whoever is at it was refused.
Settled(j, o) ==
  Clean(j, o) /\ \A w \in Workers : Sending(w, j, o) => proc[w].pc \in Refusing

\* The operation was begun, Telegram refused it, and nobody will begin it again.
Doomed(j, o) ==
  /\ Settled(j, o)
  /\ opState[j][o] \notin {"none", "delivered"}
  /\ \A w \in Workers : ~Ahead(w, j, o)

\* Whoever reports a failure reports one of an operation that is doomed; a job
\* that has failed has nothing but refused operations beside the acknowledged.
FailOK ==
  /\ \A w \in Workers, j \in Jobs, o \in Ops :
       Sending(w, j, o) /\ proc[w].pc \in Refusing => Doomed(j, o)
  /\ \A r \in delayed : r.kind = "fail" => Doomed(r.job, r.op)
  /\ \A j \in Jobs, o \in Ops :
       status[j] = "failed" /\ opState[j][o] # "delivered" => Settled(j, o)

PromiseInv == SendInv /\ WholeOK /\ OrderOK /\ PlanOK /\ FailOK

\* What a request of a step is about: the place of a worker, if nobody gave up
\* on it before.
LEMMA AskedPlace ==
  ASSUME TypeInv, NEW r \in Requests, Asked(r), r \notin delayed
  PROVE  \E w \in Workers :
           /\ r.job = proc[w].job
           /\ r.op = proc[w].op
           /\ r.kind \in OpKinds => proc[w].pc \in SendPCs \cup {"loop"}
           /\ r.kind = "fail" => proc[w].pc = "fail"
           /\ r.kind = "reject" => proc[w].pc = "reject"
  BY DEF Asked, OpKinds, SendPCs

\* A commit to the tables changes one operation, to what its request asks for.
LEMMA CommitOp ==
  ASSUME TypeInv, NEW r \in Requests, Commit(r), NEW j \in Jobs, NEW o \in Ops,
         opState'[j][o] # opState[j][o]
  PROVE  /\ r.kind \in OpKinds /\ r.job = j /\ r.op = o
         /\ opState[j][o] # "delivered"
         /\ opState'[j][o] = "delivered" => r.kind = "ack"
  <1>1. r.job \in Jobs /\ (r.kind \in OpKinds => r.op \in Ops)
    BY DEF Requests, OpKinds, JobKinds
  <1>2. PICK s \in OpStates : /\ r.kind \in OpKinds /\ SetOp(r, s)
                              /\ s = "delivered" => r.kind = "ack"
    BY DEF Commit, CommitBegin, CommitAck, CommitFail, CommitEnd, OpKinds, OpStates
  <1>3. r.job = j /\ r.op = o /\ opState'[j][o] = s
    BY <1>1, <1>2 DEF SetOp, TypeInv, TypeOK
  <1>4. opState[j][o] # "delivered"
    <2>1. CASE r.kind = "ack"
      BY <1>2, <1>3, <2>1 DEF Commit, CommitAck, SetOp, TypeInv, TypeOK
    <2>2. CASE r.kind # "ack"
      BY <1>2, <1>3, <2>2 DEF Commit, Granted, OpKinds
    <2>3. QED
      BY <2>1, <2>2
  <1>5. QED
    BY <1>2, <1>3, <1>4

LEMMA OrderStep ==
  ASSUME TypeInv, LeaseOK, OrderOK, [Next]_vars
  PROVE  OrderOK'
  <1> DEFINE Done(j, o) == opState[j][o] = "delivered"
  <1>a. \A j \in Jobs, o \in Ops : Done(j, o) => Done(j, o)'
    BY StaysStep DEF Stays
  <1>b. TypeInv'
    BY TypeStep
  <1>1. ASSUME NEW w \in Workers, NEW p \in Ops, proc'[w].pc \in SendPCs \cup {"loop"},
               p < proc'[w].op \/ p \in proc'[w].seen
        PROVE  opState'[proc'[w].job][p] = "delivered"
    <2>a. proc[w].op \in Int /\ proc'[w].op \in Int /\ p \in Int
      BY <1>b DEF TypeInv, TypeOK, Procs, Ops
    <2>b. ASSUME proc[w].pc \in SendPCs \cup {"loop"}, proc'[w].job = proc[w].job,
                 p < proc[w].op \/ p \in proc[w].seen
          PROVE  opState'[proc'[w].job][p] = "delivered"
      <3>1. proc[w].job \in Jobs /\ Done(proc[w].job, p)
        BY <2>b DEF OrderOK, TypeInv, ProcOK, SendPCs
      <3>2. QED
        BY <1>a, <2>b, <3>1
    <2>1. CASE SamePlace(w)
      BY <1>1, <2>1, <2>b DEF SamePlace, SamePlan
    <2>2. CASE Takes(w)
      BY <1>1, <1>a, <2>2, <2>a DEF Takes, Ops
    <2>3. CASE Advances(w)
      <3>1. CASE p < proc[w].op \/ p \in proc[w].seen
        BY <1>1, <2>3, <2>b, <3>1 DEF Advances, SamePlan, SendPCs
      <3>2. CASE p = proc[w].op /\ p \notin proc[w].seen
        BY <2>3, <3>2 DEF Advances, SamePlan
      <3>3. QED
        BY <1>1, <2>3, <2>a, <3>1, <3>2 DEF Advances, SamePlan
    <2>4. CASE Begins(w)
      BY <1>1, <2>4, <2>b DEF Begins, Begin, SamePlan
    <2>5. CASE Works(w)
      BY <1>1, <2>5, <2>b DEF Works, SamePlan
    <2>6. ~Leaves(w)
      BY <1>1 DEF Leaves, SendPCs
    <2>7. QED
      BY <2>1, <2>2, <2>3, <2>4, <2>5, <2>6, PlaceStep DEF Place
  <1>2. ASSUME NEW r \in Requests, Asked(r), NEW p \in Ops, r.kind \in OpKinds, p < r.op
        PROVE  Done(r.job, p)
    BY <1>2, AskedPlace DEF OrderOK
  <1>3. ASSUME NEW r, r \in delayed', NEW p \in Ops, r.kind \in OpKinds, p < r.op
        PROVE  opState'[r.job][p] = "delivered"
    <2>1. r \in Requests /\ Asked(r) /\ r.job \in Jobs
      BY <1>3, <1>b, StoredStep DEF Waits, TypeInv, TypeOK, Requests
    <2>2. QED
      BY <1>2, <1>3, <1>a, <2>1
  <1>4. ASSUME NEW j \in Jobs, NEW o \in Ops, opState'[j][o] # "none", NEW p \in 1..(o - 1)
        PROVE  opState'[j][p] = "delivered"
    <2>1. p \in Ops /\ p < o
      BY DEF Ops
    <2>2. CASE opState[j][o] # "none"
      BY <1>a, <2>1, <2>2 DEF OrderOK, InPlanOrder
    <2>3. CASE opState[j][o] = "none"
      <3>1. PICK r \in Requests : Asked(r) /\ Commit(r)
        BY <1>4, <2>3, StoredStep DEF Stored, Claim, RecoverLease
      <3>2. r.kind \in OpKinds /\ r.job = j /\ r.op = o
        BY <1>4, <2>3, <3>1, CommitOp
      <3>3. QED
        BY <1>2, <1>a, <2>1, <3>1, <3>2
    <2>4. QED
      BY <2>2, <2>3
  <1>5. QED
    BY <1>1, <1>3, <1>4 DEF OrderOK, InPlanOrder

LEMMA PlanStep ==
  ASSUME TypeInv, PlanOK, [Next]_vars
  PROVE  PlanOK'
  <1>a. plan' = plan
    BY DEF Next, Worker, Process, Telegram, LateCommit, RecoverLease, Claim, Reject, Skip, Begin,
       Send, NoAnswer, Invalidate, Fail, Ack, Finish, Abandon, StopHeartbeat, Cancel, Die, Start,
       vars
  <1>b. TypeInv'
    BY TypeStep
  <1>1. ASSUME NEW w \in Workers
        PROVE  /\ proc'[w].pc \in SendPCs \cup {"loop"} => plan[proc'[w].job] = "valid"
               /\ proc'[w].pc = "reject" => plan[proc'[w].job] # "valid"
    BY PlaceStep DEF Place, SamePlace, SamePlan, Leaves, Takes, Advances, Begins, Begin, Works,
       PlanOK, SendPCs
  <1>2. ASSUME NEW r \in Requests, Asked(r)
        PROVE  /\ r.kind \in OpKinds => plan[r.job] = "valid"
               /\ r.kind = "reject" => plan[r.job] # "valid"
    BY <1>2, AskedPlace DEF PlanOK
  <1>3. ASSUME NEW r, r \in delayed'
        PROVE  /\ r.kind \in OpKinds => plan[r.job] = "valid"
               /\ r.kind = "reject" => plan[r.job] # "valid"
    <2>1. r \in Requests /\ Asked(r)
      BY <1>3, <1>b, StoredStep DEF Waits, TypeInv, TypeOK
    <2>2. QED
      BY <1>2, <2>1
  <1>4. ASSUME NEW j \in Jobs, NEW o \in Ops, opState'[j][o] # "none"
        PROVE  plan[j] = "valid"
    <2>1. CASE opState'[j][o] = opState[j][o]
      BY <1>4, <2>1 DEF PlanOK
    <2>2. CASE opState'[j][o] # opState[j][o]
      <3>1. PICK r \in Requests : Asked(r) /\ Commit(r)
        BY <2>2, StoredStep DEF Stored, Claim, RecoverLease
      <3>2. QED
        BY <1>2, <2>2, <3>1, CommitOp
    <2>3. QED
      BY <2>1, <2>2
  <1>5. QED
    BY <1>a, <1>1, <1>3, <1>4 DEF PlanOK

\* What is settled stays so, unless a worker that is ahead of it begins it.
LEMMA SettledKept ==
  ASSUME TypeInv, [Next]_vars, NEW j \in Jobs, NEW o \in Ops, Settled(j, o),
         \A w \in Workers : ~(Begins(w) /\ Ahead(w, j, o))
  PROVE  Settled(j, o)'
  <1>1. Clean(j, o)'
    <2>1. ASSUME NEW w \in Workers, proc[w].pc = "send", proc[w].job = j, proc[w].op = o
          PROVE  FALSE
      BY <2>1 DEF Settled, Sending, SendPCs, Refusing
    <2>2. QED
      BY <2>1, CleanKept DEF Settled
  <1>2. ASSUME NEW w \in Workers, Sending(w, j, o)'
        PROVE  proc'[w].pc \in Refusing
    <2>1. Sending(w, j, o) /\ proc[w].pc \in Refusing
      BY <1>2, NewSender DEF Settled
    <2>2. QED
      BY <1>2, <2>1, PlaceStep
         DEF Place, SamePlace, Leaves, Takes, Advances, Begins, Begin, Works, Sending, SendPCs,
             Refusing
  <1>3. QED
    BY <1>1, <1>2 DEF Settled

LEMMA DoomedKept ==
  ASSUME SendInv, WholeOK', [Next]_vars, NEW j \in Jobs, NEW o \in Ops, Doomed(j, o)
  PROVE  Doomed(j, o)'
  <1>a. TypeInv /\ LeaseOK
    BY DEF SendInv, TypeInv
  <1>1. Settled(j, o)'
    BY <1>a, SettledKept DEF Doomed
  <1>2. opState'[j][o] # "none"
    BY <1>a, StoredFacts DEF Doomed
  <1>3. opState'[j][o] # "delivered"
    BY <1>1 DEF WholeOK, DeliveredIsWhole, Settled, Clean
  <1>4. \A w \in Workers : ~Ahead(w, j, o)'
    BY <1>a, AheadBefore DEF Doomed
  <1>5. QED
    BY <1>1, <1>2, <1>3, <1>4 DEF Doomed

\* What Telegram declines is doomed: the request was the only one, and nobody
\* else is at the operation.
LEMMA NewDoomed ==
  ASSUME SendInv, WholeOK', [Next]_vars, NEW w \in Workers, NEW j \in Jobs, NEW o \in Ops,
         proc[w].pc \notin Refusing, proc'[w].pc \in Refusing, proc'[w].job = j, proc'[w].op = o
  PROVE  Doomed(j, o)'
  <1>a. TypeInv /\ LeaseOK
    BY DEF SendInv, TypeInv
  <1>1. Works(w)
    BY <1>a, PlaceStep DEF Place, SamePlace, Leaves, Takes, Advances, Begins, Refusing
  <1>2. Sending(w, j, o) /\ Declined(w)
    BY <1>1 DEF Works, SamePlan, Sending
  <1>3. PICK m \in wire : m.job = j /\ m.op = o /\ wire' = wire \ {m} /\ UNCHANGED accepted
    BY <1>2 DEF Declined, Sending
  <1>4. Clean(j, o)'
    BY <1>3 DEF SendInv, WireOK, Clean, OnWire
  <1>5. ~Fresh(j, o)
    BY <1>2 DEF Fresh
  <1>6. opState[j][o] # "none" /\ \A v \in Workers : ~Ahead(v, j, o)
    BY <1>5 DEF SendInv, FreshOK
  <1>7. ASSUME NEW v \in Workers, Sending(v, j, o)'
        PROVE  v = w
    <2>1. Sending(v, j, o)
      BY <1>a, <1>6, <1>7, NewSender
    <2>2. QED
      BY <1>2, <2>1 DEF SendInv, SenderOK
  <1>8. opState'[j][o] # "none"
    BY <1>a, <1>6, StoredFacts
  <1>9. opState'[j][o] # "delivered"
    BY <1>4 DEF WholeOK, DeliveredIsWhole, Clean
  <1>10. \A v \in Workers : ~Ahead(v, j, o)'
    BY <1>a, <1>6, AheadBefore
  <1>11. QED
    BY <1>4, <1>7, <1>8, <1>9, <1>10 DEF Doomed, Settled

LEMMA FailStep ==
  ASSUME PromiseInv, WholeOK', [Next]_vars
  PROVE  FailOK'
  <1>a. TypeInv /\ LeaseOK /\ SendInv /\ WholeOK
    BY DEF PromiseInv, SendInv, TypeInv
  <1>b. TypeInv'
    BY <1>a, TypeStep
  <1>c. FailOK /\ OrderOK /\ PlanOK
    BY DEF PromiseInv
  <1>1. ASSUME NEW w \in Workers, NEW j \in Jobs, NEW o \in Ops,
               Sending(w, j, o)', proc'[w].pc \in Refusing
        PROVE  Doomed(j, o)'
    <2>1. proc'[w].job = j /\ proc'[w].op = o
      BY <1>1 DEF Sending
    <2>2. CASE proc[w].pc \in Refusing
      <3>1. Sending(w, j, o)
        BY <1>1, <1>a, <2>1, <2>2, PlaceStep
           DEF Place, SamePlace, SamePlan, Leaves, Takes, Advances, Begins, Begin, Works,
               Refusing, Sending, SendPCs
      <3>2. Doomed(j, o)
        BY <1>c, <2>2, <3>1 DEF FailOK
      <3>3. QED
        BY <1>a, <3>2, DoomedKept
    <2>3. CASE proc[w].pc \notin Refusing
      BY <1>1, <1>a, <2>1, <2>3, NewDoomed
    <2>4. QED
      BY <2>2, <2>3
  <1>2. ASSUME NEW r \in Requests, Asked(r), r.kind = "fail"
        PROVE  r.job \in Jobs /\ r.op \in Ops /\ Doomed(r.job, r.op)
    <2>1. r.job \in Jobs /\ r.op \in Ops
      BY <1>2 DEF Requests, JobKinds
    <2>2. Doomed(r.job, r.op)
      BY <1>2, <1>a, <1>c, <2>1, AskedPlace DEF FailOK, Refusing, Sending, SendPCs
    <2>3. QED
      BY <2>1, <2>2
  <1>3. ASSUME NEW r, r \in delayed', r.kind = "fail"
        PROVE  Doomed(r.job, r.op)'
    <2>1. r \in Requests /\ Asked(r)
      BY <1>3, <1>a, <1>b, StoredStep DEF Waits, TypeInv, TypeOK
    <2>2. QED
      BY <1>2, <1>3, <1>a, <2>1, DoomedKept
  <1>4. ASSUME NEW j \in Jobs, NEW o \in Ops, status'[j] = "failed", opState'[j][o] # "delivered"
        PROVE  Settled(j, o)'
    <2>a. opState[j][o] # "delivered"
      BY <1>4, <1>a, StaysStep DEF Stays
    <2>1. CASE status[j] = "failed"
      <3>1. Settled(j, o)
        BY <1>c, <2>1, <2>a DEF FailOK
      <3>2. ASSUME NEW w \in Workers, Ahead(w, j, o)
            PROVE  FALSE
        <4>1. holder[j] = w /\ w # NoWorker
          BY <3>2 DEF Ahead
        <4>2. QED
          BY <1>a, <2>1, <4>1 DEF LeaseOK
      <3>3. QED
        BY <1>a, <3>1, <3>2, SettledKept
    <2>2. CASE status[j] # "failed"
      <3>1. PICK r \in Requests : Asked(r) /\ Commit(r)
        BY <1>4, <1>a, <2>2, StoredStep DEF Stored, Claim, RecoverLease, EndJob, TypeInv, TypeOK
      <3>2. r.job = j /\ r.kind \in {"fail", "reject"} /\ holder' # holder
        <4>1. r.job \in Jobs /\ r.worker \in Workers /\ holder[r.job] = r.worker
          BY <3>1 DEF Requests, Commit, Granted
        <4>2. EndJob(r.job, "failed") /\ r.kind \in {"fail", "reject"}
          BY <1>4, <1>a, <2>2, <3>1, <4>1
             DEF Commit, CommitBegin, CommitAck, CommitFail, CommitEnd, EndJob, TypeInv, TypeOK
        <4>3. r.job = j
          BY <1>4, <1>a, <2>2, <4>1, <4>2 DEF EndJob, TypeInv, TypeOK
        <4>4. holder'[r.job] = NoWorker
          BY <1>a, <4>1, <4>2 DEF EndJob, TypeInv, TypeOK
        <4>5. QED
          BY <4>1, <4>2, <4>3, <4>4
      <3>3. ASSUME opState[j][o] = "none"
            PROVE  Settled(j, o)'
        <4>1. Fresh(j, o)
          BY <1>a, <3>3 DEF SendInv, FreshOK
        <4>2. Settled(j, o)
          BY <4>1 DEF Fresh, Settled
        <4>3. \A w \in Workers : ~Begins(w)
          BY <3>2 DEF Begins
        <4>4. QED
          BY <1>a, <4>2, <4>3, SettledKept
      <3>4. CASE r.kind = "reject"
        <4>1. plan[j] # "valid"
          BY <1>a, <1>c, <3>1, <3>2, <3>4, AskedPlace DEF PlanOK
        <4>2. QED
          BY <1>c, <3>3, <4>1 DEF PlanOK
      <3>5. CASE r.kind = "fail"
        <4>1. r.op \in Ops /\ Doomed(j, r.op)
          BY <1>2, <3>1, <3>2, <3>5
        <4>2. o \in Int /\ r.op \in Int /\ 1 <= r.op
          BY <4>1 DEF Ops
        <4>3. CASE o = r.op
          BY <1>a, <4>1, <4>3, DoomedKept DEF Doomed
        <4>4. ~(o < r.op)
          BY <1>a, <1>c, <2>a, <3>1, <3>2, <3>5, AskedPlace DEF OrderOK, OpKinds, SendPCs
        <4>5. CASE r.op < o
          <5>1. r.op \in 1..(o - 1)
            BY <4>2, <4>5
          <5>2. opState[j][o] = "none"
            BY <1>c, <4>1, <5>1 DEF OrderOK, InPlanOrder, Doomed
          <5>3. QED
            BY <3>3, <5>2
        <4>6. QED
          BY <4>2, <4>3, <4>4, <4>5
      <3>6. QED
        BY <3>2, <3>4, <3>5
    <2>3. QED
      BY <2>1, <2>2
  <1>5. QED
    BY <1>1, <1>3, <1>4 DEF FailOK

LEMMA InitPromiseInv == Init => PromiseInv
  <1> SUFFICES ASSUME Init PROVE PromiseInv
    OBVIOUS
  <1>1. SendInv
    BY InitSendInv
  <1>2. WholeOK /\ OrderOK /\ PlanOK /\ FailOK
    BY DEF Init, WholeOK, Behind, DeliveredIsWhole, OrderOK, InPlanOrder, PlanOK, FailOK, Idle,
       SendPCs, Refusing
  <1>3. QED
    BY <1>1, <1>2 DEF PromiseInv

LEMMA PromiseInvStep == PromiseInv /\ [Next]_vars => PromiseInv'
  <1> SUFFICES ASSUME PromiseInv, [Next]_vars PROVE PromiseInv'
    OBVIOUS
  <1>1. TypeInv /\ LeaseOK
    BY DEF PromiseInv, SendInv, TypeInv
  <1>2. SendInv' /\ WholeOK'
    BY SendInvStep, WholeStep DEF PromiseInv
  <1>3. QED
    BY <1>1, <1>2, OrderStep, PlanStep, FailStep DEF PromiseInv

\* The inductive invariant of order, failures and the promise: who is past which
\* operation, what a plan that ended has, and who may report a failure.
THEOREM PromiseInvariant == Spec => []PromiseInv
  BY InitPromiseInv, PromiseInvStep, PTL DEF Spec

\* An operation is begun only after everything before it in its plan is posted
\* and acknowledged, whichever worker's requests are carried out late.
THEOREM PlansInOrder == Spec => []InPlanOrder
  <1>1. PromiseInv => InPlanOrder
    BY DEF PromiseInv, OrderOK
  <1>2. QED
    BY <1>1, PromiseInvariant, PTL

\* Nothing of a job that is reported as failed is posted, or will be, beyond
\* what was acknowledged.
THEOREM FailedIsFailed == Spec => []FailureIsDefinite
  <1>1. PromiseInv => FailureIsDefinite
    BY DEF PromiseInv, FailOK, Settled, Clean, FailureIsDefinite
  <1>2. QED
    BY <1>1, PromiseInvariant, PTL

-----------------------------------------------------------------------------
(* The references of Vido                                                  *)

\* A reference is gone only for an operation nobody will post, and there for
\* one whose file was posted.
RefsOK ==
  \A j \in Jobs, o \in Ops :
    /\ o \in FileIdOps /\ <<j, o>> \notin fileRefs => Doomed(j, o)
    /\ o \notin FileIdOps /\ <<j, o>> \in fileRefs => Posted(j, o)

\* A commit puts at most the reference of what it acknowledges on record.
LEMMA CommitRefs ==
  ASSUME TypeInv, NEW r \in Requests, Commit(r)
  PROVE  \/ UNCHANGED fileRefs
         \/ /\ r.kind = "ack" /\ r.op \notin FileIdOps
            /\ r.job \in Jobs /\ r.op \in Ops
            /\ opState'[r.job][r.op] = "delivered"
            /\ fileRefs' = fileRefs \cup {<<r.job, r.op>>}
  <1>1. CASE r.kind # "ack"
    BY <1>1 DEF Commit, CommitBegin, CommitFail, CommitEnd
  <1>2. CASE r.kind = "ack"
    <2>1. r.job \in Jobs /\ r.op \in Ops
      BY <1>2 DEF Requests, OpKinds, JobKinds
    <2>2. CommitAck(r)
      BY <1>2 DEF Commit
    <2>3. opState'[r.job][r.op] = "delivered"
      BY <2>1, <2>2 DEF CommitAck, SetOp, TypeInv, TypeOK
    <2>4. PICK refs \in FileRefsOf(r) : fileRefs' = fileRefs \cup refs
      BY <2>2 DEF CommitAck
    <2>5. refs = {} \/ (r.op \notin FileIdOps /\ refs = {<<r.job, r.op>>})
      BY <2>4 DEF FileRefsOf
    <2>6. QED
      BY <1>2, <2>1, <2>3, <2>4, <2>5
  <1>3. QED
    BY <1>1, <1>2

\* Only a worker that was told so gives a reference up.
LEMMA RefStep ==
  ASSUME TypeInv, [Next]_vars
  PROVE  \/ UNCHANGED fileRefs
         \/ \E r \in Requests : Commit(r)
         \/ \E w \in Workers : /\ proc[w].pc = "invalidate"
                               /\ fileRefs' = fileRefs \ {<<proc[w].job, proc[w].op>>}
  <1> USE DEF TypeInv
  <1>1. ASSUME NEW r \in Requests, Confirmed(r) \/ Refused(r) \/ Unanswered(r)
        PROVE  UNCHANGED fileRefs \/ Commit(r)
    BY <1>1 DEF Confirmed, Refused, Unanswered, core
  <1>2. ASSUME NEW w \in Workers, Reject(w) \/ Begin(w) \/ Fail(w) \/ Ack(w) \/ Finish(w)
        PROVE  UNCHANGED fileRefs \/ \E r \in Requests : Commit(r)
    <2>1. CASE Reject(w)
      <3>1. Request(w, "reject") \in Requests
        BY <2>1, RequestType DEF Reject, ProcOK, JobKinds
      <3>2. QED
        BY <1>1, <2>1, <3>1 DEF Reject
    <2>2. CASE Begin(w)
      <3>1. Request(w, "begin") \in Requests
        BY <2>2, RequestType DEF Begin, ProcOK, OpKinds
      <3>2. QED
        BY <1>1, <2>2, <3>1 DEF Begin
    <2>3. CASE Fail(w)
      <3>1. Request(w, proc[w].pc) \in Requests
        BY <2>3, RequestType DEF Fail, ProcOK, SendPCs, OpKinds
      <3>2. QED
        BY <1>1, <2>3, <3>1 DEF Fail
    <2>4. CASE Ack(w)
      <3>1. Request(w, "ack") \in Requests
        BY <2>4, RequestType DEF Ack, ProcOK, SendPCs, OpKinds
      <3>2. QED
        BY <1>1, <2>4, <3>1 DEF Ack
    <2>5. CASE Finish(w)
      <3>1. Request(w, "finish") \in Requests
        BY <2>5, RequestType DEF Finish, ProcOK, JobKinds
      <3>2. QED
        BY <1>1, <2>5, <3>1 DEF Finish
    <2>6. QED
      BY <1>2, <2>1, <2>2, <2>3, <2>4, <2>5
  <1>3. ASSUME NEW w \in Workers, Worker(w),
               ~(Reject(w) \/ Begin(w) \/ Fail(w) \/ Ack(w) \/ Finish(w)), ~Invalidate(w)
        PROVE  UNCHANGED fileRefs
    BY <1>3 DEF Worker, Claim, Skip, Send, NoAnswer, Abandon, StopHeartbeat, core
  <1>4. ASSUME NEW r \in delayed, LateCommit(r)
        PROVE  \E q \in Requests : Commit(q)
    BY <1>4 DEF LateCommit, TypeOK
  <1>5. CASE UNCHANGED vars
    BY <1>5 DEF vars
  <1>6. ASSUME NEW w \in Workers, Invalidate(w)
        PROVE  \/ UNCHANGED fileRefs
               \/ /\ proc[w].pc = "invalidate"
                  /\ fileRefs' = fileRefs \ {<<proc[w].job, proc[w].op>>}
    BY <1>6 DEF Invalidate
  <1> HIDE DEF TypeInv
  <1>7. ASSUME NEW w \in Workers, Worker(w)
        PROVE  \/ UNCHANGED fileRefs
               \/ \E r \in Requests : Commit(r)
               \/ /\ proc[w].pc = "invalidate"
                  /\ fileRefs' = fileRefs \ {<<proc[w].job, proc[w].op>>}
    BY <1>2, <1>3, <1>6, <1>7
  <1>8. CASE \E w \in Workers : Process(w)
    BY <1>8 DEF Process, Cancel, Die, Start, core
  <1>9. CASE \E m \in wire : Telegram(m)
    BY <1>9 DEF Telegram, core
  <1>10. CASE \E j \in Jobs : RecoverLease(j)
    BY <1>10 DEF RecoverLease
  <1>11. CASE \E w \in Workers : Worker(w)
    BY <1>7, <1>11
  <1>12. QED
    BY <1>4, <1>5, <1>8, <1>9, <1>10, <1>11 DEF Next

LEMMA RefsStep ==
  ASSUME PromiseInv, PromiseInv', RefsOK, [Next]_vars
  PROVE  RefsOK'
  <1>a. TypeInv /\ SendInv /\ WireOK /\ FailOK /\ WholeOK'
    BY DEF PromiseInv, SendInv, TypeInv
  <1>1. \A j \in Jobs, o \in Ops : Doomed(j, o) => Doomed(j, o)'
    BY <1>a, DoomedKept
  <1>2. \A j \in Jobs, o \in Ops : Posted(j, o) => Posted(j, o)'
    BY <1>a, PostedKept
  <1>3. CASE UNCHANGED fileRefs
    BY <1>1, <1>2, <1>3 DEF RefsOK
  <1>4. ASSUME NEW r \in Requests, Commit(r)
        PROVE  RefsOK'
    <2>1. CASE UNCHANGED fileRefs
      BY <1>3, <2>1
    <2>2. CASE ~UNCHANGED fileRefs
      <3>1. /\ r.op \notin FileIdOps /\ r.job \in Jobs /\ r.op \in Ops
            /\ opState'[r.job][r.op] = "delivered"
            /\ fileRefs' = fileRefs \cup {<<r.job, r.op>>}
        BY <1>4, <1>a, <2>2, CommitRefs
      <3>2. Posted(r.job, r.op)'
        BY <1>a, <3>1 DEF WholeOK, DeliveredIsWhole, Posted
      <3>3. QED
        BY <1>1, <1>2, <3>1, <3>2 DEF RefsOK
    <2>3. QED
      BY <2>1, <2>2
  <1>5. ASSUME NEW w \in Workers, proc[w].pc = "invalidate",
               fileRefs' = fileRefs \ {<<proc[w].job, proc[w].op>>}
        PROVE  RefsOK'
    <2>1. proc[w].job \in Jobs /\ proc[w].op \in Ops
      BY <1>5, <1>a DEF TypeInv, ProcOK, SendPCs
    <2>2. Doomed(proc[w].job, proc[w].op)
      BY <1>5, <1>a, <2>1 DEF FailOK, Sending, SendPCs, Refusing
    <2>3. QED
      BY <1>1, <1>2, <1>5, <2>1, <2>2 DEF RefsOK
  <1>6. QED
    BY <1>3, <1>4, <1>5, <1>a, RefStep

LEMMA InitRefs == Init => RefsOK
  BY DEF Init, RefsOK

\* Vido hears of a bad file_id, and of a new one, only what Telegram bears out,
\* however late a refused or confirmed operation is told to Core.
THEOREM RefsAreTrue == Spec => []RefsTrue
  <1>1. PromiseInv /\ PromiseInv' /\ RefsOK /\ [Next]_vars => RefsOK'
    BY RefsStep
  <1>2. PromiseInv /\ RefsOK => RefsTrue
    BY DEF RefsOK, RefsTrue, Doomed, Settled, Clean, Posted
  <1>3. QED
    BY <1>1, <1>2, InitRefs, PromiseInvariant, PTL DEF Spec

-----------------------------------------------------------------------------
(* The promise                                                             *)

LEMMA PromiseStep ==
  ASSUME PromiseInv, PromiseInv', [Next]_vars
  PROVE  [Promise!Next]_<<[j \in Jobs |-> IF status[j] \in Terminal THEN status[j] ELSE "open"],
                          accepted>>
  <1> DEFINE Outcome == [j \in Jobs |-> IF status[j] \in Terminal THEN status[j] ELSE "open"]
  <1>a. TypeInv /\ LeaseOK /\ SendInv /\ WireOK /\ TypeOK
    BY DEF PromiseInv, SendInv, TypeInv
  <1>1. ASSUME NEW m \in wire, Telegram(m), Post(m)
        PROVE  Promise!Next
    <2> DEFINE j == m.job
               o == m.op
    <2>1. j \in Jobs /\ o \in Ops
      BY <1>a DEF TypeOK, Messages
    <2>2. accepted[j][o] = 0 /\ OnWire(j, o)
      BY <1>a DEF WireOK, OnWire
    <2>3. opState[j][o] # "none" /\ opState[j][o] # "delivered" /\ status[j] # "delivered"
      BY <2>1, <2>2
         DEF PromiseInv, SendInv, FreshOK, Fresh, Clean, WholeOK, DeliveredIsWhole
    <2>4. status[j] # "failed"
      BY <2>1, <2>2, <2>3 DEF PromiseInv, FailOK, Settled, Clean
    <2>5. \A p \in 1..(o - 1) : accepted[j][p] = 1
      <3>1. \A p \in 1..(o - 1) : p \in Ops
        BY <2>1 DEF Ops
      <3>2. QED
        BY <2>1, <2>3, <3>1 DEF PromiseInv, OrderOK, InPlanOrder, WholeOK, DeliveredIsWhole
    <2>6. accepted' = [accepted EXCEPT ![j][o] = 1]
      BY <1>1, <1>a, <2>1, <2>2 DEF Post, TypeOK
    <2>7. UNCHANGED status
      BY <1>1 DEF Telegram, core
    <2>8. Promise!Appear(j, o)
      BY <2>1, <2>2, <2>3, <2>4, <2>5, <2>6, <2>7 DEF Promise!Appear, Terminal
    <2>9. QED
      BY <2>1, <2>8 DEF Promise!Next, Ops
  <1>2. ASSUME NEW j \in Jobs, NEW s, s # status[j], status' = [status EXCEPT ![j] = s],
               UNCHANGED accepted
        PROVE  Promise!Next \/ UNCHANGED Outcome
    <2>1. status'[j] = s /\ status[j] \notin Terminal
      BY <1>2, <1>a, StaysStep DEF Stays, TypeOK
    <2>2. CASE s \notin Terminal
      BY <1>2, <1>a, <2>1, <2>2 DEF TypeOK
    <2>3. CASE s \in Terminal
      <3>1. Outcome' = [Outcome EXCEPT ![j] = s]
        <4>1. \A k \in Jobs : Outcome'[k] = IF k = j THEN s ELSE Outcome[k]
          BY <1>2, <1>a, <2>1, <2>3 DEF TypeOK
        <4>2. QED
          BY <4>1
      <3>2. s = "delivered" => \A o \in Ops : accepted[j][o] = 1
        BY <1>2, <2>1 DEF PromiseInv, WholeOK, DeliveredIsWhole
      <3>3. Promise!End(j, s)
        BY <1>2, <2>1, <3>1, <3>2 DEF Promise!End, Ops
      <3>4. s \in Promise!Outcomes \ {"open"}
        BY <2>3 DEF Terminal, Promise!Outcomes
      <3>5. QED
        BY <3>3, <3>4 DEF Promise!Next
    <2>4. QED
      BY <2>2, <2>3
  <1>3. CASE UNCHANGED accepted
    <2>1. CASE UNCHANGED status
      BY <1>3, <2>1
    <2>2. CASE ~UNCHANGED status
      <3>1. PICK j \in Jobs, s \in JobStatus : status' = [status EXCEPT ![j] = s]
        <4>1. ASSUME NEW r \in Requests, Commit(r)
              PROVE  \E j \in Jobs, s \in JobStatus : status' = [status EXCEPT ![j] = s]
          <5>1. r.job \in Jobs
            BY DEF Requests
          <5>2. \E s \in Terminal : EndJob(r.job, s)
            BY <2>2, <4>1 DEF Commit, CommitBegin, CommitAck, CommitFail, CommitEnd, Terminal
          <5>3. QED
            BY <5>1, <5>2 DEF EndJob, JobStatus
        <4>2. QED
          BY <1>a, <2>2, <4>1, StoredStep
             DEF Stored, Claim, RecoverLease, EndJob, JobStatus, Terminal
      <3>2. s # status[j]
        BY <1>a, <2>2, <3>1 DEF TypeOK
      <3>3. QED
        BY <1>2, <1>3, <3>1, <3>2
    <2>3. QED
      BY <2>1, <2>2
  <1>4. CASE ~UNCHANGED accepted
    <2>1. PICK m \in wire : Telegram(m) /\ Post(m)
      BY <1>4 DEF Next, Worker, Process, Telegram, Decline, LateCommit, RecoverLease, Claim,
         Reject, Skip, Begin, Send, NoAnswer, Invalidate, Fail, Ack, Finish, Abandon,
         StopHeartbeat, Cancel, Die, Start, vars
    <2>2. QED
      BY <1>1, <2>1
  <1>5. QED
    BY <1>3, <1>4

\* The workers, Core and Telegram together implement the promise made to the
\* owner of a card.
THEOREM PromiseKept == Spec => KeepsPromise
  <1>1. Init => Promise!Init
    BY DEF Init, Promise!Init, Terminal, Ops
  <1>2. PromiseInv /\ PromiseInv' /\ [Next]_vars =>
          [Promise!Next]_<<[j \in Jobs |-> IF status[j] \in Terminal THEN status[j] ELSE "open"],
                           accepted>>
    BY PromiseStep
  <1>3. QED
    BY <1>1, <1>2, PromiseInvariant, PTL DEF Spec, KeepsPromise, Promise!Spec
=============================================================================
