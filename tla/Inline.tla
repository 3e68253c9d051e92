------------------------------- MODULE Inline -------------------------------
(***************************************************************************)
(* Inline queries: onInline of internal/bot/handlers.go and the debouncer  *)
(* of internal/bot/debounce.go.                                            *)
(*                                                                         *)
(* Every keystroke is a query with a handler of its own (poll.go).  A      *)
(* handler looks the language up, registers with the debouncer, which      *)
(* cancels the user's query registered before, waits for the window,       *)
(* searches and answers.  A goroutine per query removes its entry from the *)
(* debouncer's map.                                                        *)
(***************************************************************************)
EXTENDS Integers, FiniteSets

CONSTANTS
  NumQueries,   \* bound: how many queries arrive
  Users

ASSUME InlineAssumption == NumQueries \in Nat

\* In the order they arrive.  A query stands for its generation, too: the
\* debouncer compares generations only to tell entries apart.
Queries == 1..NumQueries
None == 0

VARIABLES
  user,       \* who sends a query
  pc,         \* where the handler of a query is
  calls,      \* debouncer.calls: the query registered for each user
  cancelled,  \* the queries whose context is cancelled
  pruner,     \* the queries whose pruning goroutine is running
  stopped,    \* the parent context is cancelled: the bot shuts down
  by          \* ghost: the query that superseded a query

vars == <<user, pc, calls, cancelled, pruner, stopped, by>>

Ended == {"answered", "abandoned"}
PCs == {"none", "resolve", "window", "search", "links"} \cup Ended

TypeOK ==
  /\ user \in [Queries -> Users]
  /\ pc \in [Queries -> PCs]
  /\ \A u \in Users : calls[u] \in {q \in Queries : user[q] = u} \cup {None}
  /\ cancelled \subseteq Queries
  /\ pruner \subseteq Queries
  /\ stopped \in BOOLEAN
  /\ by \in [Queries -> Queries \cup {None}]

Init ==
  /\ user \in [Queries -> Users]
  /\ pc = [q \in Queries |-> "none"]
  /\ calls = [u \in Users |-> None]
  /\ cancelled = {} /\ pruner = {}
  /\ stopped = FALSE
  /\ by = [q \in Queries |-> None]

Done(q) == stopped \/ q \in cancelled

Goto(q, l) == pc' = [pc EXCEPT ![q] = l]

\* The handler returns, and the deferred dcancel runs.
End(q, how) == Goto(q, how) /\ cancelled' = cancelled \cup {q}

-----------------------------------------------------------------------------

\* The next query of all is dispatched.
Arrive(q) ==
  /\ pc[q] = "none"
  /\ \A p \in 1..(q - 1) : pc[p] # "none"
  /\ ~stopped
  /\ Goto(q, "resolve")
  /\ UNCHANGED <<user, calls, cancelled, pruner, stopped, by>>

\* An empty query is answered with the prompt, past the debouncer.
Blank(q) ==
  /\ pc[q] = "resolve"
  /\ Goto(q, "answered")
  /\ UNCHANGED <<user, calls, cancelled, pruner, stopped, by>>

\* MUTANT of Register: one entry for all users.
BugRegister(q) ==
  /\ pc[q] = "resolve"
  /\ Goto(q, "window")
  /\ cancelled' = cancelled \cup ({calls[u] : u \in Users} \ {None})
  /\ calls' = [u \in Users |-> q]
  /\ pruner' = pruner \cup {q}
  /\ by' = IF calls[user[q]] = None THEN by ELSE [by EXCEPT ![calls[user[q]]] = q]
  /\ UNCHANGED <<user, stopped>>

\* The language is known, however long that took, and gate takes the user's
\* entry over.
Register(q) ==
  /\ pc[q] = "resolve"
  /\ Goto(q, "window")
  /\ LET prev == calls[user[q]] IN
       /\ cancelled' = IF prev = None THEN cancelled ELSE cancelled \cup {prev}
       /\ by' = IF prev = None THEN by ELSE [by EXCEPT ![prev] = q]
  /\ calls' = [calls EXCEPT ![user[q]] = q]
  /\ pruner' = pruner \cup {q}
  /\ UNCHANGED <<user, stopped>>

\* The window passes; with the context done by then, either branch is taken.
PassWindow(q) ==
  /\ pc[q] = "window"
  /\ Goto(q, "search")
  /\ UNCHANGED <<user, calls, cancelled, pruner, stopped, by>>

LeaveWindow(q) ==
  /\ pc[q] = "window"
  /\ Done(q)
  /\ End(q, "abandoned")
  /\ UNCHANGED <<user, calls, pruner, stopped, by>>

\* A query of prefixes alone is answered with the prompt.
Bare(q) ==
  /\ pc[q] = "search"
  /\ End(q, "answered")
  /\ UNCHANGED <<user, calls, pruner, stopped, by>>

\* The search returns, which no cancellation hastens; a query superseded by then
\* is left.
Searched(q) ==
  /\ pc[q] = "search"
  /\ \/ Done(q) /\ End(q, "abandoned")
     \/ ~Done(q) /\ Goto(q, "links") /\ UNCHANGED cancelled
  /\ UNCHANGED <<user, calls, pruner, stopped, by>>

\* MUTANT of Answer: the context is not released.
BugAnswer(q) ==
  /\ pc[q] = "links"
  /\ Goto(q, "answered")
  /\ UNCHANGED <<user, calls, cancelled, pruner, stopped, by>>

\* The download links are minted or not, and the query is answered.
Answer(q) ==
  /\ pc[q] = "links"
  /\ End(q, "answered")
  /\ UNCHANGED <<user, calls, pruner, stopped, by>>

\* MUTANT of Prune: the entry is removed whosever it is.
BugPrune(q) ==
  /\ q \in pruner
  /\ Done(q)
  /\ calls' = [calls EXCEPT ![user[q]] = None]
  /\ pruner' = pruner \ {q}
  /\ UNCHANGED <<user, pc, cancelled, stopped, by>>

Prune(q) ==
  /\ q \in pruner
  /\ Done(q)
  /\ calls' = IF calls[user[q]] = q THEN [calls EXCEPT ![user[q]] = None] ELSE calls
  /\ pruner' = pruner \ {q}
  /\ UNCHANGED <<user, pc, cancelled, stopped, by>>

Stop ==
  /\ ~stopped
  /\ stopped' = TRUE
  /\ UNCHANGED <<user, pc, calls, cancelled, pruner, by>>

-----------------------------------------------------------------------------

Handle(q) ==
  \/ Blank(q) \/ Register(q) \/ PassWindow(q) \/ LeaveWindow(q)
  \/ Bare(q) \/ Searched(q) \/ Answer(q)

Next ==
  \/ \E q \in Queries : Arrive(q) \/ Handle(q) \/ Prune(q)
  \/ Stop

Spec == Init /\ [][Next]_vars

\* Handlers take their steps (Core, the search and the answer have timeouts),
\* and so do the pruning goroutines.
Fairness == \A q \in Queries : WF_vars(Handle(q)) /\ WF_vars(Prune(q))

FairSpec == Spec /\ Fairness

-----------------------------------------------------------------------------
(* Properties                                                              *)

Live(q) == pc[q] \in {"window", "search", "links"} /\ ~Done(q)

\* However queries and pruning goroutines interleave, the debouncer loses sight
\* of no query: at most one query of a user is under way and not cancelled.
OneLive == \A p, q \in Queries : user[p] = user[q] /\ Live(p) /\ Live(q) => p = q

\* A query that is given up was superseded by another of the same user.
OnlySupersededAbandoned ==
  \A q \in Queries :
    pc[q] = "abandoned" /\ ~stopped => by[q] # None /\ user[by[q]] = user[q]

\* ... and by a newer one, as onInline's comments say.
AbandonedForNewer == \A q \in Queries : pc[q] = "abandoned" /\ ~stopped => by[q] > q

\* The map does not grow: every query that registers ends, and its entry goes.
EntriesGo == \A q \in Queries : pc[q] = "window" ~> calls[user[q]] # q
=============================================================================
