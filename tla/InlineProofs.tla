---------------------------- MODULE InlineProofs ----------------------------
(***************************************************************************)
(* Theorems about Inline, for every number of queries and every set of     *)
(* users.                                                                  *)
(***************************************************************************)
EXTENDS Inline, TLAPS

USE InlineAssumption

\* The debouncer's map has an entry, or none, for every user.
TypeInv == TypeOK /\ calls \in [Users -> Queries \cup {None}]

\* A query that may still be answered is the one its user's entry names.
LiveIsRegistered == \A q \in Queries : Live(q) => calls[user[q]] = q

\* A query that was cancelled before its end was superseded by its own user.
CancelledWasSuperseded ==
  \A q \in Queries :
    ~stopped /\ pc[q] # "answered" /\ (q \in cancelled \/ pc[q] = "abandoned") =>
      by[q] # None /\ user[by[q]] = user[q]

InlineInv == TypeInv /\ LiveIsRegistered /\ CancelledWasSuperseded

LEMMA InitInline == Init => InlineInv
  BY DEF Init, InlineInv, TypeInv, TypeOK, PCs, Ended, LiveIsRegistered, Live,
     CancelledWasSuperseded, Queries

-----------------------------------------------------------------------------

\* What the steps of q's handler after its registration have in common: they
\* move q on, and cancel nobody but q.
Moves(q) ==
  \E l \in PCs \ {"none", "resolve"} :
    /\ pc[q] \notin Ended \cup {"none"}
    /\ Goto(q, l)
    /\ l = "abandoned" => Done(q)
    /\ l \in {"search", "links"} => pc[q] \in {"window", "search"}
    /\ l # "window"
    /\ \/ UNCHANGED cancelled
       \/ l \in Ended /\ cancelled' = cancelled \cup {q}
    /\ UNCHANGED <<user, calls, pruner, stopped, by>>

LEMMA HandleMoves ==
  ASSUME NEW q \in Queries, Handle(q)
  PROVE  Register(q) \/ Moves(q)
  BY DEF Handle, Moves, Blank, PassWindow, LeaveWindow, Bare, Searched, Answer, End, Goto, PCs,
     Ended

LEMMA MovesStep ==
  ASSUME InlineInv, NEW q \in Queries, Moves(q)
  PROVE  InlineInv'
  <1>1. PICK l \in PCs \ {"none", "resolve"} :
          /\ pc[q] \notin Ended
          /\ pc' = [pc EXCEPT ![q] = l]
          /\ l = "abandoned" => Done(q)
          /\ l \in {"search", "links"} => pc[q] \in {"window", "search"}
          /\ l # "window"
          /\ \/ UNCHANGED cancelled
             \/ l \in Ended /\ cancelled' = cancelled \cup {q}
          /\ UNCHANGED <<user, calls, pruner, stopped, by>>
    BY DEF Moves, Goto
  <1>2. TypeInv'
    BY <1>1 DEF InlineInv, TypeInv, TypeOK
  <1>3. LiveIsRegistered'
    <2>1. ASSUME NEW p \in Queries, Live(p)' PROVE Live(p)
      BY <1>1, <2>1 DEF Live, Done, Ended, InlineInv, TypeInv, TypeOK
    <2>2. QED
      BY <1>1, <2>1 DEF LiveIsRegistered, InlineInv
  <1>4. CancelledWasSuperseded'
    BY <1>1 DEF CancelledWasSuperseded, Done, Ended, InlineInv, TypeInv, TypeOK
  <1>5. QED
    BY <1>2, <1>3, <1>4 DEF InlineInv

\* The query whose entry q takes over is cancelled in the same step.
LEMMA RegisterStep ==
  ASSUME InlineInv, NEW q \in Queries, Register(q)
  PROVE  InlineInv'
  <1> DEFINE u == user[q]
             prev == calls[u]
  <1>a. u \in Users /\ prev \in Queries \cup {None} /\ q # None
    BY DEF InlineInv, TypeInv, TypeOK, Queries, None
  <1>b. prev # None => user[prev] = u
    BY <1>a DEF InlineInv, TypeInv, TypeOK
  <1>1. /\ pc' = [pc EXCEPT ![q] = "window"]
        /\ cancelled' = IF prev = None THEN cancelled ELSE cancelled \cup {prev}
        /\ by' = IF prev = None THEN by ELSE [by EXCEPT ![prev] = q]
        /\ calls' = [calls EXCEPT ![u] = q]
        /\ pruner' = pruner \cup {q}
        /\ UNCHANGED <<user, stopped>>
        /\ pc[q] = "resolve"
    BY DEF Register, Goto
  <1>2. TypeInv'
    <2>1. /\ pc' \in [Queries -> PCs]
          /\ cancelled' \subseteq Queries
          /\ pruner' \subseteq Queries
          /\ by' \in [Queries -> Queries \cup {None}]
          /\ calls' \in [Users -> Queries \cup {None}]
      BY <1>a, <1>1 DEF InlineInv, TypeInv, TypeOK, PCs
    <2>2. \A v \in Users : calls'[v] \in {p \in Queries : user'[p] = v} \cup {None}
      BY <1>a, <1>1 DEF InlineInv, TypeInv, TypeOK
    <2>3. QED
      BY <1>1, <2>1, <2>2 DEF InlineInv, TypeInv, TypeOK
  <1>3. LiveIsRegistered'
    <2> SUFFICES ASSUME NEW p \in Queries, Live(p)'
                 PROVE  calls'[user'[p]] = p
      BY DEF LiveIsRegistered
    <2>1. CASE p = q
      BY <1>a, <1>1, <2>1 DEF InlineInv, TypeInv
    <2>2. CASE p # q
      <3>1. Live(p)
        BY <1>1, <2>2 DEF Live, Done, InlineInv, TypeInv, TypeOK
      <3>2. calls[user[p]] = p
        BY <3>1 DEF InlineInv, LiveIsRegistered
      <3>3. user[p] # u
        <4>1. prev # p
          BY <1>1, <1>a DEF Live, Done, Queries, None
        <4>2. QED
          BY <3>2, <4>1
      <3>4. QED
        BY <1>a, <1>1, <3>2, <3>3 DEF InlineInv, TypeInv, TypeOK
    <2>3. QED
      BY <2>1, <2>2
  <1>4. CancelledWasSuperseded'
    <2> SUFFICES ASSUME NEW p \in Queries, ~stopped', pc'[p] # "answered",
                        p \in cancelled' \/ pc'[p] = "abandoned"
                 PROVE  by'[p] # None /\ user'[by'[p]] = user'[p]
      BY DEF CancelledWasSuperseded
    <2>1. CASE prev # None /\ p = prev
      BY <1>a, <1>b, <1>1, <2>1 DEF InlineInv, TypeInv, TypeOK
    <2>2. CASE ~(prev # None /\ p = prev)
      <3>1. by'[p] = by[p] /\ (p \in cancelled' => p \in cancelled)
        BY <1>a, <1>1, <2>2 DEF InlineInv, TypeInv, TypeOK
      <3>2. pc[p] # "answered" /\ (p \in cancelled \/ pc[p] = "abandoned")
        BY <1>1, <3>1 DEF InlineInv, TypeInv, TypeOK
      <3>3. QED
        BY <1>1, <3>1, <3>2 DEF InlineInv, CancelledWasSuperseded
    <2>3. QED
      BY <2>1, <2>2
  <1>5. QED
    BY <1>2, <1>3, <1>4 DEF InlineInv

\* A goroutine removes its own entry only, and only once its query is done.
LEMMA PruneStep ==
  ASSUME InlineInv, NEW q \in Queries, Prune(q)
  PROVE  InlineInv'
  <1>a. user[q] \in Users
    BY DEF InlineInv, TypeInv, TypeOK
  <1>1. TypeInv'
    BY <1>a DEF Prune, InlineInv, TypeInv, TypeOK
  <1>2. LiveIsRegistered'
    <2> SUFFICES ASSUME NEW p \in Queries, Live(p)'
                 PROVE  calls'[user'[p]] = p
      BY DEF LiveIsRegistered
    <2>1. Live(p) /\ calls[user[p]] = p /\ p # q
      BY DEF Prune, Live, Done, InlineInv, LiveIsRegistered
    <2>2. QED
      BY <1>a, <2>1 DEF Prune, InlineInv, TypeInv, TypeOK
  <1>3. CancelledWasSuperseded'
    BY DEF Prune, InlineInv, CancelledWasSuperseded
  <1>4. QED
    BY <1>1, <1>2, <1>3 DEF InlineInv

LEMMA InlineStep == InlineInv /\ [Next]_vars => InlineInv'
  <1> SUFFICES ASSUME InlineInv, [Next]_vars PROVE InlineInv'
    OBVIOUS
  <1>1. ASSUME NEW q \in Queries, Arrive(q) PROVE InlineInv'
    <2>1. TypeInv'
      BY <1>1 DEF Arrive, Goto, InlineInv, TypeInv, TypeOK, PCs
    <2>2. LiveIsRegistered'
      BY <1>1 DEF Arrive, Goto, InlineInv, TypeInv, TypeOK, LiveIsRegistered, Live, Done
    <2>3. CancelledWasSuperseded'
      BY <1>1 DEF Arrive, Goto, InlineInv, TypeInv, TypeOK, CancelledWasSuperseded
    <2>4. QED
      BY <2>1, <2>2, <2>3 DEF InlineInv
  <1>2. CASE Stop
    BY <1>2 DEF Stop, InlineInv, TypeInv, TypeOK, LiveIsRegistered, Live, Done,
       CancelledWasSuperseded
  <1>3. CASE UNCHANGED vars
    BY <1>3 DEF vars, InlineInv, TypeInv, TypeOK, LiveIsRegistered, Live, Done,
       CancelledWasSuperseded
  <1>4. QED
    BY <1>1, <1>2, <1>3, HandleMoves, MovesStep, RegisterStep, PruneStep DEF Next

-----------------------------------------------------------------------------

\* The inductive invariant holds of every behaviour (debounce.go and onInline).
THEOREM InlineInvariant == Spec => []InlineInv
  BY InitInline, InlineStep, PTL DEF Spec

\* The debouncer's tables keep their types: an entry names a query of its user.
THEOREM InlineTypes == Spec => []TypeOK
  <1>1. InlineInv => TypeOK
    BY DEF InlineInv, TypeInv
  <1>2. QED
    BY <1>1, InlineInvariant, PTL

\* For any number of users and keystrokes, the debouncer never has two queries
\* of one user under way that nobody cancelled.
THEOREM AtMostOneLive == Spec => []OneLive
  <1>1. InlineInv => OneLive
    BY DEF InlineInv, LiveIsRegistered, OneLive
  <1>2. QED
    BY <1>1, InlineInvariant, PTL

\* A query is given up only for another one of the same user.
THEOREM AbandonedOnlyWhenSuperseded == Spec => []OnlySupersededAbandoned
  <1>1. InlineInv => OnlySupersededAbandoned
    BY DEF InlineInv, CancelledWasSuperseded, OnlySupersededAbandoned
  <1>2. QED
    BY <1>1, InlineInvariant, PTL
=============================================================================
