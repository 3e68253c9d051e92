------------------------------- MODULE Bridge -------------------------------
(***************************************************************************)
(* What the download flow shares: Core's intents, jobs and notices, and    *)
(* the video card in the Telegram chat.  Core, Vido and Telegram are not   *)
(* under src/; they are modelled from how internal/vido/client.go uses     *)
(* them and from client_integration_test.go.                               *)
(*                                                                         *)
(* There is one card.  Job 1 is the one its Download button queues, job    *)
(* n + 1 the one that retries job n.                                       *)
(***************************************************************************)
EXTENDS PlanRules

CONSTANTS
  SamplePlans,  \* the delivery plans Vido may store for a job
  MaxJobs       \* bound: the first download and its retries

ASSUME BridgeAssumption ==
  /\ MaxJobs \in Nat \ {0}
  /\ \A plan \in SamplePlans : \A op \in ToSet(plan.operations) :
       op.media \in Seq(ToSet(op.media))

Jobs == 1..MaxJobs

\* The button of the card: none, Download, or the Retry of a job.
NoButton == -1
Download == 0
Buttons == NoButton..MaxJobs

VARIABLES
  bound,       \* the intent behind Download is bound to the card's message
  card,        \* the card in the chat: posted, and its button
  status,      \* the state of each job
  retryable,   \* the unknown jobs whose notice carries a retry context
  misnamed,    \* ghost: the delivered jobs sent by a path not validated
  stopping     \* the process's context is cancelled

shared == <<bound, card, status, retryable, misnamed, stopping>>

Statuses == {"none", "queued", "delivered", "failed", "delivery_unknown"}
Terminal == {"delivered", "failed", "delivery_unknown"}
Noticed == {"failed", "delivery_unknown"}

BridgeTypeOK ==
  /\ bound \in BOOLEAN
  /\ card \in [posted : BOOLEAN, button : Buttons]
  /\ status \in [Jobs -> Statuses]
  /\ retryable \subseteq {j \in Jobs : status[j] = "delivery_unknown"}
  /\ misnamed \subseteq Jobs
  /\ stopping \in BOOLEAN

BridgeInit ==
  /\ bound = FALSE
  /\ card = [posted |-> FALSE, button |-> NoButton]
  /\ status = [j \in Jobs |-> "none"]
  /\ retryable = {}
  /\ misnamed = {}
  /\ stopping = FALSE

\* Who may tap a button: Core takes Download and Retry from the owner alone
\* (docs/architecture.md, "Vido bridge").  That an intent lasts six hours is
\* left out: Core's refusal is one more of the calls that fail.
Accepts(user, owner) == user = owner

\* The job a button stands for is queued, once however often it is tapped.
Queue(button) ==
  /\ status' = [status EXCEPT ![button + 1] = IF @ = "none" THEN "queued" ELSE @]
  /\ UNCHANGED <<bound, card, retryable, misnamed, stopping>>

\* The plans the delivery worker does not reject.
ValidPlans == {plan \in SamplePlans : ValidatePlan(plan, 1)}

\* Whether a plan is sent by the paths it was validated by.
SentByPaths == {\A op \in ToSet(plan.operations) : SentAsValidated(op) : plan \in ValidPlans}

\* Vido downloads the medium of job j and stores a plan, and the delivery
\* worker, modelled in Delivery, sends its operations; or Vido fails, or the
\* worker rejects the plan.
Deliver(j) ==
  /\ status[j] = "queued"
  /\ \E s \in Terminal, asValidated \in SentByPaths, context \in BOOLEAN :
       /\ status' = [status EXCEPT ![j] = s]
       /\ misnamed' = IF s = "delivered" /\ ~asValidated THEN misnamed \cup {j} ELSE misnamed
       /\ retryable' = IF s = "delivery_unknown" /\ context THEN retryable \cup {j} ELSE retryable
  /\ UNCHANGED <<bound, card, stopping>>

\* SIGTERM
Stop ==
  /\ ~stopping
  /\ stopping' = TRUE
  /\ UNCHANGED <<bound, card, status, retryable, misnamed>>
=============================================================================
