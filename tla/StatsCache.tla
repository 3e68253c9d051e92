----------------------------- MODULE StatsCache -----------------------------
(***************************************************************************)
(* The snapshots behind /stats: internal/bot/statscache.go and statsView,  *)
(* refreshStatsAsync and fetchStats of handlers.go.  A snapshot is served  *)
(* after it has expired while one background refresh renews it; only the   *)
(* first view of a key waits for the database.                             *)
(*                                                                         *)
(* Time is a counter.  What a snapshot holds is the time its query read    *)
(* the database; a query that fails (its error is dropped) leaves Empty.   *)
(***************************************************************************)
EXTENDS Integers

CONSTANTS
  Viewers,    \* bound: as many views are under way at once
  StatsKeys,  \* a user, or 0 for the global statistics
  EnvTTL,     \* STATS_CACHE_TTL
  TTLFloor,   \* the least TTL config.Load lets through: ten seconds
  FetchTime,  \* the timeout of a query: four seconds, five for a refresh
  MaxClock    \* bound: how long time is counted

ASSUME StatsAssumption ==
  /\ {EnvTTL, TTLFloor, FetchTime, MaxClock} \subseteq Nat
  /\ 2 * FetchTime <= TTLFloor
  /\ 0 \in StatsKeys

\* MUTANT of TTL: no floor.
BugTTL == EnvTTL

\* config.Load
TTL == IF EnvTTL < TTLFloor THEN TTLFloor ELSE EnvTTL

VARIABLES
  clock,
  snaps,      \* the snapshot of each key
  inflight,   \* the keys whose refresh is claimed
  viewer,     \* the callers of statsView
  refresher   \* the goroutine refreshing each key

statsVars == <<clock, snaps, inflight, viewer, refresher>>

Empty == -1
Times == Empty..MaxClock

NoSnap == [by |-> "nobody", data |-> Empty, updatedAt |-> 0, expiresAt |-> 0]
Snaps == [by : {"nobody", "view", "refresh"}, data : Times, updatedAt : 0..MaxClock,
          expiresAt : 0..(MaxClock + TTL)]

\* since: when the fetch under way began.  got: what it has read.
Fetches == [pc : {"idle", "stale", "fetch", "put", "end"}, key : StatsKeys,
            since : 0..MaxClock, got : Times]
NoFetch == [pc |-> "idle", key |-> 0, since |-> 0, got |-> Empty]

StatsTypeOK ==
  /\ clock \in 0..MaxClock
  /\ snaps \in [StatsKeys -> Snaps]
  /\ inflight \subseteq StatsKeys
  /\ viewer \in [Viewers -> Fetches]
  /\ refresher \in [StatsKeys -> Fetches]

StatsInit ==
  /\ clock = 0
  /\ snaps = [k \in StatsKeys |-> NoSnap]
  /\ inflight = {}
  /\ viewer = [v \in Viewers |-> NoFetch]
  /\ refresher = [k \in StatsKeys |-> NoFetch]

Expired(k) == snaps[k] # NoSnap /\ clock > snaps[k].expiresAt

\* put: its time is the clock's for a refresh, that of the call for a view.
Put(k, by, data, now) ==
  snaps' = [snaps EXCEPT ![k] = [by |-> by, data |-> data, updatedAt |-> now,
                                 expiresAt |-> now + TTL]]

-----------------------------------------------------------------------------
(* statsView                                                               *)

\* A snapshot that has not expired ends the view.
View(v) ==
  /\ viewer[v].pc = "idle"
  /\ \E k \in StatsKeys :
       /\ snaps[k] = NoSnap \/ Expired(k)
       /\ viewer' = [viewer EXCEPT ![v] =
            [pc |-> IF snaps[k] = NoSnap THEN "fetch" ELSE "stale", key |-> k,
             since |-> clock, got |-> Empty]]
  /\ UNCHANGED <<clock, snaps, inflight, refresher>>

\* refreshStatsAsync
BeginRefresh(v) ==
  LET k == viewer[v].key
  IN  /\ viewer[v].pc = "stale"
      /\ viewer' = [viewer EXCEPT ![v] = NoFetch]
      /\ IF k \in inflight THEN UNCHANGED <<inflight, refresher>>
         ELSE /\ inflight' = inflight \cup {k}
              /\ refresher' = [refresher EXCEPT ![k] =
                   [pc |-> "fetch", key |-> k, since |-> clock, got |-> Empty]]
      /\ UNCHANGED <<clock, snaps>>

\* fetchStats
ViewFetches(v) ==
  /\ viewer[v].pc = "fetch"
  /\ \E got \in {clock, Empty} :
       viewer' = [viewer EXCEPT ![v].pc = "put", ![v].got = got]
  /\ UNCHANGED <<clock, snaps, inflight, refresher>>

ViewPuts(v) ==
  /\ viewer[v].pc = "put"
  /\ Put(viewer[v].key, "view", viewer[v].got, viewer[v].since)
  /\ viewer' = [viewer EXCEPT ![v] = NoFetch]
  /\ UNCHANGED <<clock, inflight, refresher>>

-----------------------------------------------------------------------------
(* The goroutine of refreshStatsAsync                                      *)

RefreshFetches(k) ==
  /\ refresher[k].pc = "fetch"
  /\ \E got \in {clock, Empty} :
       refresher' = [refresher EXCEPT ![k].pc = "put", ![k].got = got]
  /\ UNCHANGED <<clock, snaps, inflight, viewer>>

RefreshPuts(k) ==
  /\ refresher[k].pc = "put"
  /\ Put(k, "refresh", refresher[k].got, clock)
  /\ refresher' = [refresher EXCEPT ![k].pc = "end"]
  /\ UNCHANGED <<clock, inflight, viewer>>

\* MUTANT of EndRefresh: a failed refresh keeps its claim.
BugEndRefresh(k) ==
  /\ refresher[k].pc = "end"
  /\ inflight' = IF refresher[k].got = Empty THEN inflight ELSE inflight \ {k}
  /\ refresher' = [refresher EXCEPT ![k] = NoFetch]
  /\ UNCHANGED <<clock, snaps, viewer>>

EndRefresh(k) ==
  /\ refresher[k].pc = "end"
  /\ inflight' = inflight \ {k}
  /\ refresher' = [refresher EXCEPT ![k] = NoFetch]
  /\ UNCHANGED <<clock, snaps, viewer>>

-----------------------------------------------------------------------------
\* A fetch is over, and its snapshot put, before its timeout.
InTime(fetch) == fetch.pc = "idle" \/ clock < fetch.since + FetchTime

Tick ==
  /\ clock < MaxClock
  /\ \A v \in Viewers : InTime(viewer[v])
  /\ \A k \in StatsKeys : InTime(refresher[k])
  /\ clock' = clock + 1
  /\ UNCHANGED <<snaps, inflight, viewer, refresher>>

Viewing(v) == BeginRefresh(v) \/ ViewFetches(v) \/ ViewPuts(v)
Refreshing(k) == RefreshFetches(k) \/ RefreshPuts(k) \/ EndRefresh(k)

StatsNext ==
  \/ \E v \in Viewers : View(v) \/ Viewing(v)
  \/ \E k \in StatsKeys : Refreshing(k)
  \/ Tick
=============================================================================
