------------------------------ MODULE Download ------------------------------
(***************************************************************************)
(* A video card from the pick to the last notice: the handlers of Intent,  *)
(* the worker of Notification and, in between, Core, Vido and Telegram     *)
(* (Bridge).  The process may be stopped or die between any two steps; it  *)
(* loses its handlers and the notice it was about to post, and starts      *)
(* again.                                                                  *)
(***************************************************************************)
EXTENDS Intent, Notification

CONSTANTS MaxStops  \* bound: how often the process is stopped or dies

ASSUME DownloadAssumption == MaxStops \in Nat

VARIABLES stops

vars == <<shared, intentVars, noticeVars, stops>>

TypeOK ==
  /\ BridgeTypeOK /\ IntentTypeOK /\ NotificationTypeOK
  /\ stops \in 0..MaxStops

Init ==
  /\ BridgeInit /\ IntentInit /\ NotificationInit
  /\ stops = 0

Environment ==
  /\ \E j \in Jobs : Deliver(j)
  /\ UNCHANGED <<intentVars, noticeVars, stops>>

Handlers == IntentNext /\ UNCHANGED <<noticeVars, stops>>

NotificationWorker == NotificationNext /\ UNCHANGED <<intentVars, stops>>

\* SIGTERM cancels the context of every handler and worker.
Cancel ==
  /\ stops < MaxStops
  /\ stops' = stops + 1
  /\ Stop
  /\ UNCHANGED <<intentVars, noticeVars>>

\* The process ends: on its own at any time, or as it was told to.  The
\* notification worker is not waited for.
Exit ==
  /\ stops < MaxStops \/ stopping
  /\ stops' = IF stopping THEN stops ELSE stops + 1
  /\ stopping' = FALSE
  /\ IntentCrash /\ NotificationCrash
  /\ UNCHANGED <<bound, card, status, retryable, misnamed>>

Start == NotificationStart /\ UNCHANGED <<shared, intentVars, stops>>

Next == Environment \/ Handlers \/ NotificationWorker \/ Cancel \/ Exit \/ Start

Spec == Init /\ [][Next]_vars

\* The process goes on: its worker with the notice it has claimed, and when
\* stopped it ends, and is started again.
Progress ==
  \/ NotificationWorker /\ worker.pc \in {"deliver", "ack"} /\ worker' # worker
  \/ Exit /\ stopping
  \/ Start

\* Core hands out every notice that stays open and lets leases run out, and
\* Telegram, asked again and again, carries out the post of a notice.
Fairness ==
  /\ WF_vars(Progress)
  /\ \A j \in Jobs :
       /\ SF_vars(NotificationWorker /\ Claim(j))
       /\ WF_vars(NotificationWorker /\ ExpireLease(j))
       /\ SF_vars(NotificationWorker /\ DeliverNotice /\ worker.job = j)

FairSpec == Spec /\ Fairness

-----------------------------------------------------------------------------
\* "An unbound token is only chat-bound and must not remain on the card"
\* (sendGridPick).  Once the pick's handler is gone, a Download button stands
\* on a card its token is not bound to only when the handler could not help
\* it: it died, was cancelled, was told the card had not been sent, or was
\* refused the removal.
UnboundNeedsExcuse ==
  pick.pc = "done" /\ card.button = Download /\ ~bound =>
    excuses \ {"bind failed"} # {}

\* A notice Core takes for settled was posted, and none is posted twice but
\* for a post or an acknowledgement that went wrong.
NoticesKept ==
  \A j \in Jobs :
    /\ notice[j] = "acked" => posts[j] > 0
    /\ posts[j] > 1 => j \in again

\* The card offers the retry of the newest job whose settled notice says its
\* delivery is unknown, whatever late edits of other handlers and of older
\* notices come after it.  Two may take it away: the removal after a failed
\* bind, and an older notice posted again.
RetryOffered ==
  \A j \in Jobs :
    status[j] = "delivery_unknown" /\ notice[j] = "acked" =>
      \/ card.button >= j
      \/ "bind failed" \in excuses
      \/ \E i \in again : i < j

\* "The local Bot API then sees the same canonical cache path" (validateSource):
\* no job is delivered with a file asked for by another path than the one that
\* was validated.
ValidatedPathSent == misnamed = {}

\* A download that failed, and one of unknown delivery that can be retried, is
\* told to the user, through any stop, crash and lost reply.
FailureIsTold ==
  \A j \in Jobs : (status[j] = "failed" \/ j \in retryable) ~> posts[j] > 0
=============================================================================
