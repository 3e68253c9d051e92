----------------------------- MODULE Aggregator -----------------------------
(***************************************************************************)
(* Search of internal/search/aggregate.go: a cache, one shared flight per  *)
(* key (singleflight), two backend pools asked in parallel and a fallback  *)
(* pool for weak results in another language than English.                 *)
(*                                                                         *)
(* A result set is the set of pools that contributed to it; how they are   *)
(* merged and ranked is not modelled here.  A caller's context may be      *)
(* cancelled at any time; the flight has a context of its own, with only   *)
(* a timeout.                                                              *)
(***************************************************************************)
EXTENDS Integers

CONSTANTS
  Callers,   \* bound: as many searches are under way at once
  Keys,      \* cache keys: query, categories, page and language
  English    \* the keys whose language is English

ASSUME AggregatorAssumption == English \subseteq Keys

Pools == {"core", "discovery", "fallback"}
Primary == {"core", "discovery"}

VARIABLES
  cache,      \* the entry of each key
  flight,     \* the singleflight call of each key
  caller,     \* the callers of Search
  cancelled,  \* the callers whose context is cancelled
  fetched     \* ghost: results cached for a key since it was last evicted

vars == <<cache, flight, caller, cancelled, fetched>>

\* results: the pools that answered.  The rest is ghost: the pools that were
\* asked, and those that failed or were not in time.
Entries == [results : SUBSET Pools, asked : SUBSET Pools, failed : SUBSET Pools]
Nothing == [results |-> {}, asked |-> {}, failed |-> {}]
Miss == Nothing  \* no entry: every real one has asked some pool

\* "recheck": the second look at the cache.  "primary", "fallback": waiting for
\* these pools.  "ranked": the results are ready.  "added": what is to be
\* cached has been.
Flights == [pc      : {"none", "recheck", "primary", "fallback", "ranked", "added"},
            leader  : Callers \cup {"nobody"},  \* whose Search runs the flight
            waiting : SUBSET Pools,             \* asked, not answered yet
            entry   : Entries,
            errs    : SUBSET Pools,             \* the calls that returned an error
            expired : BOOLEAN]                  \* the timeout has passed

NoFlight == [pc |-> "none", leader |-> "nobody", waiting |-> {},
             entry |-> Nothing, errs |-> {}, expired |-> FALSE]

\* Nobody has an answer who waits for one, and nobody is done without.
CallerStates ==
  [pc : {"idle", "lookup", "do", "wait"}, key : Keys, answer : {Nothing}]
    \cup [pc : {"done"}, key : Keys, answer : Entries \ {Nothing}]

TypeOK ==
  /\ cache \in [Keys -> Entries]
  /\ flight \in [Keys -> Flights]
  /\ caller \in [Callers -> CallerStates]
  /\ cancelled \subseteq Callers
  /\ fetched \in [Keys -> 0..2]

Init ==
  /\ cache = [k \in Keys |-> Miss]
  /\ flight = [k \in Keys |-> NoFlight]
  /\ caller \in [Callers -> [pc : {"idle"}, key : Keys, answer : {Nothing}]]
  /\ cancelled = {}
  /\ fetched = [k \in Keys |-> 0]

-----------------------------------------------------------------------------
(* Search, up to the shared call                                           *)

Call(c) ==
  /\ caller[c].pc \in {"idle", "done"}
  /\ \E k \in Keys :
       caller' = [caller EXCEPT ![c] = [pc |-> "lookup", key |-> k, answer |-> Nothing]]
  /\ cancelled' = cancelled \ {c}
  /\ UNCHANGED <<cache, flight, fetched>>

Cancel(c) ==
  /\ caller[c].pc \in {"lookup", "do", "wait"}
  /\ c \notin cancelled
  /\ cancelled' = cancelled \cup {c}
  /\ UNCHANGED <<cache, flight, caller, fetched>>

Answered(c, e) == [pc |-> "done", key |-> caller[c].key, answer |-> e]

\* The first look at the cache.
Lookup(c) ==
  /\ caller[c].pc = "lookup"
  /\ LET e == cache[caller[c].key] IN
       caller' = [caller EXCEPT ![c] =
         IF e # Miss THEN Answered(c, e) ELSE [@ EXCEPT !.pc = "do"]]
  /\ UNCHANGED <<cache, flight, cancelled, fetched>>

\* singleflight's Do: the first caller of a key runs the flight, the others wait.
Do(c) ==
  /\ caller[c].pc = "do"
  /\ LET k == caller[c].key IN
       flight' = IF flight[k].pc # "none" THEN flight
                 ELSE [flight EXCEPT ![k] = [NoFlight EXCEPT !.pc = "recheck", !.leader = c]]
  /\ caller' = [caller EXCEPT ![c].pc = "wait"]
  /\ UNCHANGED <<cache, cancelled, fetched>>

-----------------------------------------------------------------------------
(* The flight                                                              *)

Ask(k, pc, pools) ==
  flight' = [flight EXCEPT ![k].pc = pc, ![k].waiting = pools,
                           ![k].entry.asked = @ \cup pools]

\* MUTANT of Recheck: the flight does not look at the cache again.
BugRecheck(k) ==
  /\ flight[k].pc = "recheck"
  /\ Ask(k, "primary", Primary)
  /\ UNCHANGED <<cache, caller, cancelled, fetched>>

Recheck(k) ==
  /\ flight[k].pc = "recheck"
  /\ IF cache[k] # Miss
     THEN flight' = [flight EXCEPT ![k].entry = cache[k], ![k].pc = "added"]
     ELSE Ask(k, "primary", Primary)
  /\ UNCHANGED <<cache, caller, cancelled, fetched>>

\* MUTANT of ContextDone: the flight runs on the context of its leader.
BugContextDone(k) == flight[k].expired \/ flight[k].leader \in cancelled

\* The flight's context: detached from every caller.
ContextDone(k) == flight[k].expired

\* MUTANT of Expire: the flight's context has no timeout.
BugExpire(k) == FALSE /\ UNCHANGED vars

Expire(k) ==
  /\ flight[k].pc \in {"primary", "fallback"}
  /\ ~flight[k].expired
  /\ flight' = [flight EXCEPT ![k].expired = TRUE,
                              ![k].entry.failed = @ \cup flight[k].waiting]
  /\ UNCHANGED <<cache, caller, cancelled, fetched>>

Succeed(k, p) ==
  /\ p \in flight[k].waiting
  /\ ~ContextDone(k)
  /\ flight' = [flight EXCEPT ![k].waiting = @ \ {p}, ![k].entry.results = @ \cup {p}]
  /\ UNCHANGED <<cache, caller, cancelled, fetched>>

\* The backend answers with an error, or with nothing that can be read.
BackendFails(k, p) ==
  /\ p \in flight[k].waiting
  /\ ~ContextDone(k)
  /\ flight' = [flight EXCEPT ![k].waiting = @ \ {p}, ![k].errs = @ \cup {p},
                              ![k].entry.failed = @ \cup {p}]
  /\ UNCHANGED <<cache, caller, cancelled, fetched>>

\* The call returns because its context is done.
GiveUp(k, p) ==
  /\ p \in flight[k].waiting
  /\ ContextDone(k)
  /\ flight' = [flight EXCEPT ![k].waiting = @ \ {p}, ![k].errs = @ \cup {p}]
  /\ UNCHANGED <<cache, caller, cancelled, fetched>>

\* Both primary pools have returned.  Without any result of the core pool the
\* results are weak; otherwise they may be.  A fallback asked for after the
\* timeout fails, too.
Weigh(k) ==
  /\ flight[k].pc = "primary"
  /\ flight[k].waiting = {}
  /\ \E weak \in (IF "core" \in flight[k].errs THEN {TRUE} ELSE BOOLEAN) :
       IF weak /\ k \notin English /\ ~(Primary \subseteq flight[k].errs)
       THEN flight' = [flight EXCEPT ![k].pc = "fallback",
                         ![k].waiting = {"fallback"},
                         ![k].entry.asked = @ \cup {"fallback"},
                         ![k].entry.failed = IF flight[k].expired THEN @ \cup {"fallback"} ELSE @]
       ELSE flight' = [flight EXCEPT ![k].pc = "ranked"]
  /\ UNCHANGED <<cache, caller, cancelled, fetched>>

FallbackDone(k) ==
  /\ flight[k].pc = "fallback"
  /\ flight[k].waiting = {}
  /\ flight' = [flight EXCEPT ![k].pc = "ranked"]
  /\ UNCHANGED <<cache, caller, cancelled, fetched>>

\* MUTANT of Add: an error of the fallback does not keep the results out.
BugAdd(k) ==
  /\ flight[k].pc = "ranked"
  /\ IF flight[k].errs \cap Primary = {}
     THEN /\ cache' = [cache EXCEPT ![k] = flight[k].entry]
          /\ fetched' = [fetched EXCEPT ![k] = @ + 1]
     ELSE UNCHANGED <<cache, fetched>>
  /\ flight' = [flight EXCEPT ![k].pc = "added"]
  /\ UNCHANGED <<caller, cancelled>>

\* Only results without an error are cached.
Add(k) ==
  /\ flight[k].pc = "ranked"
  /\ IF flight[k].errs = {}
     THEN /\ cache' = [cache EXCEPT ![k] = flight[k].entry]
          /\ fetched' = [fetched EXCEPT ![k] = @ + 1]
     ELSE UNCHANGED <<cache, fetched>>
  /\ flight' = [flight EXCEPT ![k].pc = "added"]
  /\ UNCHANGED <<caller, cancelled>>

Waiters(k) == {c \in Callers : caller[c].pc = "wait" /\ caller[c].key = k}

\* MUTANT of Land: the callers get what is in the cache.
BugLand(k) ==
  /\ flight[k].pc = "added"
  /\ caller' = [c \in Callers |->
       IF c \in Waiters(k) THEN Answered(c, cache[k]) ELSE caller[c]]
  /\ flight' = [flight EXCEPT ![k] = NoFlight]
  /\ UNCHANGED <<cache, cancelled, fetched>>

\* The flight is over: everyone who waits for it gets its result.
Land(k) ==
  /\ flight[k].pc = "added"
  /\ caller' = [c \in Callers |->
       IF c \in Waiters(k) THEN Answered(c, flight[k].entry) ELSE caller[c]]
  /\ flight' = [flight EXCEPT ![k] = NoFlight]
  /\ UNCHANGED <<cache, cancelled, fetched>>

\* The entry's TTL runs out, or the LRU needs its place.
Evict(k) ==
  /\ cache[k] # Miss
  /\ cache' = [cache EXCEPT ![k] = Miss]
  /\ fetched' = [fetched EXCEPT ![k] = 0]
  /\ UNCHANGED <<flight, caller, cancelled>>

-----------------------------------------------------------------------------

Search(c) == Lookup(c) \/ Do(c)

Fly(k) ==
  \/ Recheck(k) \/ Weigh(k) \/ FallbackDone(k) \/ Add(k) \/ Land(k)
  \/ \E p \in Pools : GiveUp(k, p)

Next ==
  \/ \E c \in Callers : Call(c) \/ Cancel(c) \/ Search(c)
  \/ \E k \in Keys :
       \/ Fly(k) \/ Expire(k) \/ Evict(k)
       \/ \E p \in Pools : Succeed(k, p) \/ BackendFails(k, p)

Spec == Init /\ [][Next]_vars

\* The program takes its steps and its timeouts fire; no backend owes an answer.
Fairness ==
  /\ \A c \in Callers : WF_vars(Search(c))
  /\ \A k \in Keys : WF_vars(Fly(k)) /\ WF_vars(Expire(k))

FairSpec == Spec /\ Fairness

-----------------------------------------------------------------------------
(* Properties                                                              *)

\* What is cached is the answer of every pool that was asked: a failed or late
\* pool, the fallback included, is asked again by the next search.
OnlyWholeCached ==
  \A k \in Keys : cache[k] # Miss =>
    /\ Primary \subseteq cache[k].results
    /\ cache[k].results = cache[k].asked

\* A caller misses results only of pools that failed or ran into the timeout:
\* nobody's cancelled context takes results from anyone.
CancelIsPrivate ==
  \A c \in Callers :
    caller[c].pc = "done" =>
      /\ Primary \subseteq caller[c].answer.asked
      /\ caller[c].answer.asked \ caller[c].answer.results \subseteq caller[c].answer.failed

\* The backend is asked for a whole result once until it leaves the cache,
\* however many callers miss it at once and however late they join.
FetchedOnce == \A k \in Keys : fetched[k] <= 1

\* Every search returns, whatever the backend does.
EverySearchReturns == \A c \in Callers : caller[c].pc = "lookup" ~> caller[c].pc = "done"

-----------------------------------------------------------------------------
(* The promise                                                             *)

\* A search as its caller sees it.
Seen(s) == [open   |-> s.pc \in {"lookup", "do", "wait"},
            key    |-> s.key,
            answer |-> s.answer]

Searches == [c \in Callers |-> Seen(caller[c])]

Promise == INSTANCE SearchPromise WITH store <- cache, search <- Searches

\* Flights, errors, timeouts and cancelled contexts implement the promise: a
\* search is answered once, with an answer that owns up to what it misses; an
\* entry is whole and is not replaced before it leaves the cache.
HonestSearch == Promise!Spec
=============================================================================
