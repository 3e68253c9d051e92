------------------------------- MODULE Intent -------------------------------
(***************************************************************************)
(* A picked video becomes a card with a Download button (sendGridPick,     *)
(* internal/bot/grid.go), and a tap on the button a job                    *)
(* (onDownloadCallback, internal/bot/vido.go).  The card is posted before  *)
(* its intent can be bound to it.                                          *)
(*                                                                         *)
(* Every call may fail, and may fail with its work done; on a cancelled    *)
(* context every call fails.                                               *)
(***************************************************************************)
EXTENDS Bridge

CONSTANTS
  Users,  \* who may tap
  Owner,  \* who picked the video
  Taps    \* bound: taps handled at once

ASSUME IntentAssumption == Owner \in Users

VARIABLES
  pick,    \* the handler of the pick
  tap,     \* the handlers of the taps
  excuses  \* ghost: why a button may be on the card, or off it, regardless

intentVars == <<pick, tap, excuses>>

PickPCs == {"mint", "send", "bind", "strip", "done"}
TapStates == [pc : {"idle", "enqueue"}, user : Users, button : Buttons]
IdleTap == [pc |-> "idle", user |-> Owner, button |-> NoButton]

Excuses == {"crash", "stopping", "send reply lost", "strip refused", "bind failed"}

IntentTypeOK ==
  /\ pick \in [pc : PickPCs, minted : BOOLEAN]
  /\ tap \in [Taps -> TapStates]
  /\ excuses \subseteq Excuses

IntentInit ==
  /\ pick = [pc |-> "mint", minted |-> FALSE]
  /\ tap = [t \in Taps |-> IdleTap]
  /\ excuses = {}

PickAt(pc) == pick' = [pc |-> pc, minted |-> pick.minted /\ pc # "done"]

-----------------------------------------------------------------------------
(* sendGridPick                                                            *)

\* downloadImage has no cover for the card: "load failed".
NoCover ==
  /\ pick.pc = "mint"
  /\ PickAt("done")
  /\ UNCHANGED <<shared, tap, excuses>>

\* mintChatDownload.  Without a token the card has no Download button; one
\* minted with the reply lost stays unknown to all but Core.
Mint ==
  /\ pick.pc = "mint"
  /\ \E ok \in BOOLEAN :
       /\ ok => ~stopping
       /\ pick' = [pc |-> "send", minted |-> ok]
  /\ UNCHANGED <<shared, tap, excuses>>

\* SendPhoto: "load failed" when it errs, though the card may be there.
SendCard ==
  /\ pick.pc = "send"
  /\ \E posted \in BOOLEAN, ok \in BOOLEAN :
       /\ ok => posted /\ ~stopping
       /\ card' = [posted |-> posted,
                   button |-> IF posted /\ pick.minted THEN Download ELSE NoButton]
       /\ PickAt(IF ok /\ pick.minted THEN "bind" ELSE "done")
       /\ excuses' = IF posted /\ ~ok THEN excuses \cup {"send reply lost"} ELSE excuses
  /\ UNCHANGED <<bound, status, retryable, misnamed, stopping, tap>>

\* MUTANT of Bind: a failure is only logged.
BugBind ==
  /\ pick.pc = "bind"
  /\ \E executed \in BOOLEAN, ok \in BOOLEAN :
       /\ ok => executed /\ ~stopping
       /\ bound' = executed
       /\ PickAt("done")
       /\ excuses' = IF ok THEN excuses ELSE excuses \cup {"bind failed"}
  /\ UNCHANGED <<card, status, retryable, misnamed, stopping, tap>>

\* BindIntentMessage
Bind ==
  /\ pick.pc = "bind"
  /\ \E executed \in BOOLEAN, ok \in BOOLEAN :
       /\ ok => executed /\ ~stopping
       /\ bound' = executed
       /\ PickAt(IF ok THEN "done" ELSE "strip")
       /\ excuses' = IF ok THEN excuses ELSE excuses \cup {"bind failed"}
  /\ UNCHANGED <<card, status, retryable, misnamed, stopping, tap>>

\* EditMessageReplyMarkup: the keyboard without the Download button replaces
\* whatever keyboard the card has by now.
Strip ==
  /\ pick.pc = "strip"
  /\ \E done \in BOOLEAN :
       /\ card' = IF done THEN [card EXCEPT !.button = NoButton] ELSE card
       /\ excuses' = IF done THEN excuses
                     ELSE excuses \cup {IF stopping THEN "stopping" ELSE "strip refused"}
  /\ PickAt("done")
  /\ UNCHANGED <<bound, status, retryable, misnamed, stopping, tap>>

-----------------------------------------------------------------------------
(* onDownloadCallback                                                      *)

Answer(t) == tap' = [tap EXCEPT ![t] = IdleTap]

\* A user taps the button the card shows.
Tap(t) ==
  /\ tap[t].pc = "idle" /\ ~stopping
  /\ card.posted /\ card.button \in Download..(MaxJobs - 1)
  /\ \E u \in Users : tap' = [tap EXCEPT ![t] =
                                [pc |-> "enqueue", user |-> u, button |-> card.button]]
  /\ UNCHANGED <<shared, pick, excuses>>

\* Enqueue or EnqueueRetry goes through; or its reply is lost, and the user
\* is told the bridge is unavailable.  A job that had ended is asked for its
\* stage before the tap is answered, which changes nothing.
Enqueue(t) ==
  /\ tap[t].pc = "enqueue"
  /\ Accepts(tap[t].user, Owner)
  /\ Queue(tap[t].button)
  /\ Answer(t)
  /\ UNCHANGED <<pick, excuses>>

\* It does not get to Core, or the intent has expired; or it is not the
\* owner's, who is answered with a link of their own (MintSharedDMIntent,
\* which makes an intent that is none of the card's) or with a refusal.
EnqueueFails(t) ==
  /\ tap[t].pc = "enqueue"
  /\ Answer(t)
  /\ UNCHANGED <<shared, pick, excuses>>

-----------------------------------------------------------------------------
\* The process dies: its handlers go.
IntentCrash ==
  /\ PickAt("done")
  /\ tap' = [t \in Taps |-> IdleTap]
  /\ excuses' = IF pick.pc \in {"bind", "strip"} THEN excuses \cup {"crash"} ELSE excuses

IntentNext ==
  \/ NoCover \/ Mint \/ SendCard \/ Bind \/ Strip
  \/ \E t \in Taps : Tap(t) \/ Enqueue(t) \/ EnqueueFails(t)
=============================================================================
