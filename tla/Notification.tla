---------------------------- MODULE Notification ----------------------------
(***************************************************************************)
(* The worker that tells users how their downloads ended                   *)
(* (RunNotificationWorker of internal/bot/delivery.go): it claims a notice *)
(* under a lease, posts it, and acknowledges it in up to three attempts.   *)
(* A failed job's notice is a message; that of a job of unknown delivery   *)
(* puts a Retry button on the card.                                        *)
(***************************************************************************)
EXTENDS Bridge

CONSTANTS MaxPosts  \* bound: how often a notice is counted as posted

ASSUME NotificationAssumption == MaxPosts \in Nat \ {0}

MaxAcks == 3  \* the attempts of ackNotificationWithRetry

VARIABLES
  worker,  \* the notification worker
  notice,  \* the notices of the jobs, in Core
  posts,   \* ghost: how often each notice was posted
  again    \* ghost: the notices whose post or acknowledgement went wrong

noticeVars == <<worker, notice, posts, again>>

Idle == [pc |-> "poll", job |-> 0, acks |-> 0]
Down == [pc |-> "down", job |-> 0, acks |-> 0]

NotificationTypeOK ==
  /\ worker \in [pc : {"down", "poll", "deliver", "ack"}, job : 0..MaxJobs, acks : 0..MaxAcks]
  /\ notice \in [Jobs -> {"open", "leased", "acked"}]
  /\ posts \in [Jobs -> 0..MaxPosts]
  /\ again \subseteq Jobs

NotificationInit ==
  /\ worker = Idle
  /\ notice = [j \in Jobs |-> "open"]
  /\ posts = [j \in Jobs |-> 0]
  /\ again = {}

\* ClaimNotification; on a cancelled context the worker returns.
Claim(j) ==
  /\ worker.pc = "poll" /\ ~stopping
  /\ status[j] \in Noticed /\ notice[j] = "open"
  /\ notice' = [notice EXCEPT ![j] = "leased"]
  /\ worker' = [pc |-> "deliver", job |-> j, acks |-> 0]
  /\ UNCHANGED <<shared, posts, again>>

\* The claim's reply is lost: the notice is leased to a worker unaware of it.
ClaimReplyLost(j) ==
  /\ worker.pc = "poll"
  /\ status[j] \in Noticed /\ notice[j] = "open"
  /\ notice' = [notice EXCEPT ![j] = "leased"]
  /\ UNCHANGED <<shared, worker, posts, again>>

Return ==
  /\ worker.pc = "poll" /\ stopping
  /\ worker' = Down
  /\ UNCHANGED <<shared, notice, posts, again>>

\* MUTANT of Post: the notice of a failure takes the keyboard off the card.
BugPost(j) ==
  /\ posts' = [posts EXCEPT ![j] = IF @ < MaxPosts THEN @ + 1 ELSE @]
  /\ card' = [card EXCEPT !.button = IF status[j] = "delivery_unknown" THEN j ELSE NoButton]

\* Telegram carries out the post of j's notice.
Post(j) ==
  /\ posts' = [posts EXCEPT ![j] = IF @ < MaxPosts THEN @ + 1 ELSE @]
  /\ card' = IF status[j] = "delivery_unknown" THEN [card EXCEPT !.button = j] ELSE card

Sendable(j) == status[j] = "delivery_unknown" => j \in retryable

DeliverNotice ==
  /\ worker.pc = "deliver" /\ ~stopping
  /\ Sendable(worker.job)
  /\ Post(worker.job)
  /\ worker' = [worker EXCEPT !.pc = "ack"]
  /\ UNCHANGED <<bound, status, retryable, misnamed, stopping, notice, again>>

\* MUTANT of DeliverFails: the error does not keep the notice open.
BugDeliverFails ==
  /\ worker.pc = "deliver"
  /\ worker' = [worker EXCEPT !.pc = "ack"]
  /\ UNCHANGED <<shared, notice, posts, again>>

\* The retry context is missing, or Telegram refuses or does not answer.
DeliverFails ==
  /\ worker.pc = "deliver"
  /\ worker' = Idle
  /\ UNCHANGED <<shared, notice, posts, again>>

DeliverReplyLost ==
  /\ worker.pc = "deliver"
  /\ Sendable(worker.job)
  /\ Post(worker.job)
  /\ again' = again \cup {worker.job}
  /\ worker' = Idle
  /\ UNCHANGED <<bound, status, retryable, misnamed, stopping, notice>>

\* MUTANT of Ack: the post is not acknowledged.
BugAck ==
  /\ worker.pc = "ack"
  /\ worker' = Idle
  /\ UNCHANGED <<shared, notice, posts, again>>

\* AckNotification, on a context of its own.  Only the lease's holder may.
Ack ==
  /\ worker.pc = "ack"
  /\ notice[worker.job] = "leased"
  /\ notice' = [notice EXCEPT ![worker.job] = "acked"]
  /\ worker' = Idle
  /\ UNCHANGED <<shared, posts, again>>

\* MUTANT of AckFails: the attempts are not counted.
BugAckFails ==
  /\ worker.pc = "ack"
  /\ notice' \in {notice} \cup
       (IF notice[worker.job] = "leased" THEN {[notice EXCEPT ![worker.job] = "acked"]} ELSE {})
  /\ again' = again \cup {worker.job}
  /\ worker' = IF stopping THEN Idle ELSE [worker EXCEPT !.acks = @ + 1]
  /\ UNCHANGED <<shared, posts>>

\* An attempt fails, done or not.  The next one waits, unless the context is
\* cancelled; after the last the notice is left to its lease.
AckFails ==
  /\ worker.pc = "ack"
  /\ notice' \in {notice} \cup
       (IF notice[worker.job] = "leased" THEN {[notice EXCEPT ![worker.job] = "acked"]} ELSE {})
  /\ again' = again \cup {worker.job}
  /\ worker' = IF worker.acks + 1 = MaxAcks \/ stopping THEN Idle
               ELSE [worker EXCEPT !.acks = @ + 1]
  /\ UNCHANGED <<shared, posts>>

\* The lease of a notice the worker is done with, or slow with, runs out.
ExpireLease(j) ==
  /\ notice[j] = "leased"
  /\ notice' = [notice EXCEPT ![j] = "open"]
  /\ again' = IF worker.job = j THEN again \cup {j} ELSE again
  /\ UNCHANGED <<shared, worker, posts>>

NotificationCrash ==
  /\ worker' = Down
  /\ again' = IF worker.pc = "down" \/ worker.job = 0 THEN again ELSE again \cup {worker.job}
  /\ UNCHANGED <<notice, posts>>

NotificationStart ==
  /\ worker.pc = "down" /\ ~stopping
  /\ worker' = Idle
  /\ UNCHANGED <<notice, posts, again>>

NotificationNext ==
  \/ \E j \in Jobs : Claim(j) \/ ClaimReplyLost(j) \/ ExpireLease(j)
  \/ Return \/ DeliverNotice \/ DeliverFails \/ DeliverReplyLost
  \/ Ack \/ AckFails
=============================================================================
