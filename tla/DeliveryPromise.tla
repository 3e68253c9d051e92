-------------------------- MODULE DeliveryPromise --------------------------
(***************************************************************************)
(* What the delivery bridge promises the owner of a card, with no worker,  *)
(* lease, request or crash in sight: the messages of a plan appear in the  *)
(* chat one after another, each at most once; the job then ends, once.  A  *)
(* job is delivered only with all of its messages posted, nothing appears  *)
(* after a job was reported failed, and only "delivery_unknown" leaves the *)
(* owner in doubt.                                                         *)
(***************************************************************************)
EXTENDS Integers

CONSTANTS Jobs, NumOps

VARIABLES
  outcome,   \* "open", or how the job ended
  copies     \* how many times each message of the plan was posted

Outcomes == {"open", "delivered", "failed", "delivery_unknown"}

Init ==
  /\ outcome = [j \in Jobs |-> "open"]
  /\ copies = [j \in Jobs |-> [o \in 1..NumOps |-> 0]]

\* A message appears; one in doubt may appear after the job has ended.
Appear(j, o) ==
  /\ outcome[j] \in {"open", "delivery_unknown"}
  /\ copies[j][o] = 0
  /\ \A p \in 1..(o - 1) : copies[j][p] = 1
  /\ copies' = [copies EXCEPT ![j][o] = 1]
  /\ UNCHANGED outcome

End(j, how) ==
  /\ outcome[j] = "open"
  /\ how = "delivered" => \A o \in 1..NumOps : copies[j][o] = 1
  /\ outcome' = [outcome EXCEPT ![j] = how]
  /\ UNCHANGED copies

Next ==
  \E j \in Jobs :
    \/ \E o \in 1..NumOps : Appear(j, o)
    \/ \E how \in Outcomes \ {"open"} : End(j, how)

Spec == Init /\ [][Next]_<<outcome, copies>>
=============================================================================
