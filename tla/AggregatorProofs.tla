-------------------------- MODULE AggregatorProofs --------------------------
(***************************************************************************)
(* Theorems about Aggregator, for every set of callers and keys.           *)
(***************************************************************************)
EXTENDS Aggregator, TLAPS

Whole(e) == Primary \subseteq e.results /\ e.results = e.asked

\* An entry that owns up to what it misses.
Honest(e) == Primary \subseteq e.asked /\ e.asked \ e.results \subseteq e.failed

Busy == {"primary", "fallback", "ranked"}

\* Every pool a flight has asked has answered, returned an error or is still
\* waited for, and what returned an error, or will, counts as failed.
FlightOK(f) ==
  /\ f.pc \notin {"primary", "fallback"} => f.waiting = {}
  /\ f.pc \in {"none", "recheck"} => f.entry = Nothing /\ f.errs = {} /\ ~f.expired
  /\ f.pc \in Busy =>
       /\ Primary \subseteq f.entry.asked
       /\ f.entry.asked = f.entry.results \cup f.errs \cup f.waiting
       /\ f.errs \subseteq f.entry.failed
       /\ f.expired => f.waiting \subseteq f.entry.failed
  /\ f.pc = "added" => Honest(f.entry)

FlightsOK == \A k \in Keys : FlightOK(flight[k])

\* The flight of a key is the only one that fills its entry, and it has seen it
\* empty.
CacheOK ==
  \A k \in Keys :
    /\ cache[k] # Miss => Whole(cache[k])
    /\ cache[k] = Miss => fetched[k] = 0
    /\ fetched[k] <= 1
    /\ flight[k].pc \in Busy => cache[k] = Miss

AnswersOK == \A c \in Callers : caller[c].pc = "done" => Honest(caller[c].answer)

SearchInv == TypeOK /\ FlightsOK /\ CacheOK /\ AnswersOK

LEMMA InitSearch == Init => SearchInv
  <1> SUFFICES ASSUME Init PROVE SearchInv
    OBVIOUS
  <1>1. Nothing \in Entries
    BY DEF Nothing, Entries
  <1>2. NoFlight \in Flights
    BY <1>1 DEF NoFlight, Flights
  <1>3. FlightOK(NoFlight)
    BY DEF FlightOK, NoFlight, Busy
  <1>4. TypeOK
    BY <1>1, <1>2 DEF Init, TypeOK, CallerStates, Miss
  <1>5. FlightsOK
    BY <1>3 DEF Init, FlightsOK
  <1>6. CacheOK /\ AnswersOK
    BY DEF Init, CacheOK, AnswersOK, NoFlight, Busy
  <1>7. QED
    BY <1>4, <1>5, <1>6 DEF SearchInv

-----------------------------------------------------------------------------
(* The callers                                                             *)

\* What is in the cache misses nothing.
LEMMA WholeIsHonest == \A e \in Entries : Whole(e) => Honest(e)
  BY DEF Whole, Honest

\* To be answered is to get an answer.
LEMMA AnsweredState ==
  ASSUME NEW s \in CallerStates, NEW e \in Entries, Honest(e)
  PROVE  [pc |-> "done", key |-> s.key, answer |-> e] \in CallerStates
  <1>1. s.key \in Keys
    BY DEF CallerStates
  <1>2. e # Nothing
    BY DEF Honest, Nothing, Primary
  <1>3. QED
    BY <1>1, <1>2 DEF CallerStates

\* An unanswered caller moves on.
LEMMA MovedState ==
  ASSUME NEW s \in CallerStates, s.pc # "done", NEW pc \in {"do", "wait"}
  PROVE  [s EXCEPT !.pc = pc] \in CallerStates
  BY DEF CallerStates

LEMMA CallerStep ==
  ASSUME SearchInv, NEW c \in Callers, Call(c) \/ Cancel(c) \/ Lookup(c)
  PROVE  SearchInv'
  <1> USE DEF SearchInv
  <1>1. caller[c] \in CallerStates
    BY DEF TypeOK
  <1>2. UNCHANGED <<cache, flight, fetched>>
    BY DEF Call, Cancel, Lookup
  <1>3. CASE Call(c)
    <2>1. PICK k \in Keys :
            caller' = [caller EXCEPT ![c] = [pc |-> "lookup", key |-> k, answer |-> Nothing]]
      BY <1>3 DEF Call
    <2>2. [pc |-> "lookup", key |-> k, answer |-> Nothing] \in CallerStates
      BY DEF CallerStates, Nothing, Entries
    <2>3. TypeOK'
      BY <1>2, <1>3, <2>1, <2>2 DEF Call, TypeOK
    <2>4. QED
      BY <1>2, <2>1, <2>3 DEF FlightsOK, CacheOK, AnswersOK, TypeOK
  <1>4. CASE Cancel(c)
    BY <1>2, <1>4 DEF Cancel, FlightsOK, CacheOK, AnswersOK, TypeOK
  <1>5. CASE Lookup(c)
    <2> DEFINE e == cache[caller[c].key]
    <2>1. e \in Entries /\ caller[c].key \in Keys
      BY <1>1 DEF TypeOK, CallerStates
    <2>2. CASE e # Miss
      <3>1. caller' = [caller EXCEPT ![c] = Answered(c, e)]
        BY <1>5, <2>2 DEF Lookup
      <3>2. Honest(e)
        BY <2>1, <2>2, WholeIsHonest DEF CacheOK
      <3>3. Answered(c, e) \in CallerStates
        BY <1>1, <2>1, <3>2, AnsweredState DEF Answered
      <3>4. TypeOK'
        BY <1>2, <1>5, <3>1, <3>3 DEF Lookup, TypeOK
      <3>5. AnswersOK'
        BY <3>1, <3>2 DEF AnswersOK, Answered, TypeOK
      <3>6. QED
        BY <1>2, <3>4, <3>5 DEF FlightsOK, CacheOK
    <2>3. CASE e = Miss
      <3> DEFINE s == [caller[c] EXCEPT !.pc = "do"]
      <3>1. caller' = [caller EXCEPT ![c] = s]
        BY <1>5, <2>3 DEF Lookup
      <3>2. s \in CallerStates
        BY <1>1, <1>5, MovedState DEF Lookup
      <3>3. TypeOK'
        BY <1>2, <1>5, <3>1, <3>2 DEF Lookup, TypeOK
      <3>4. AnswersOK'
        BY <1>1, <3>1 DEF AnswersOK, TypeOK, CallerStates
      <3>5. QED
        BY <1>2, <3>3, <3>4 DEF FlightsOK, CacheOK
    <2>4. QED
      BY <2>2, <2>3
  <1>6. QED
    BY <1>3, <1>4, <1>5

-----------------------------------------------------------------------------
(* The flights                                                             *)

\* A step that changes one flight alone.
LEMMA FlightStep ==
  ASSUME SearchInv, NEW k \in Keys, NEW g \in Flights, FlightOK(g),
         flight' = [flight EXCEPT ![k] = g],
         g.pc \in Busy => cache[k] = Miss,
         UNCHANGED <<cache, caller, cancelled, fetched>>
  PROVE  SearchInv'
  <1>1. TypeOK'
    BY DEF SearchInv, TypeOK
  <1>2. \A l \in Keys : flight'[l] = IF l = k THEN g ELSE flight[l]
    BY DEF SearchInv, TypeOK
  <1>3. FlightsOK'
    BY <1>2 DEF SearchInv, FlightsOK
  <1>4. CacheOK'
    BY <1>2 DEF SearchInv, CacheOK
  <1>5. QED
    BY <1>1, <1>3, <1>4 DEF SearchInv, AnswersOK

LEMMA DoStep ==
  ASSUME SearchInv, NEW c \in Callers, Do(c)
  PROVE  SearchInv'
  <1> DEFINE k == caller[c].key
             g == [NoFlight EXCEPT !.pc = "recheck", !.leader = c]
  <1>1. k \in Keys /\ caller[c] \in CallerStates
    BY DEF SearchInv, TypeOK, CallerStates
  <1>2. g \in Flights /\ FlightOK(g)
    BY DEF NoFlight, Flights, FlightOK, Busy, Nothing, Entries
  <1>3. flight' = flight \/ flight' = [flight EXCEPT ![k] = g]
    BY DEF Do
  <1>4. \A l \in Keys : flight'[l] = flight[l] \/ (flight'[l] = g /\ g.pc \notin Busy)
    BY <1>1, <1>3 DEF SearchInv, TypeOK, Busy, NoFlight
  <1>5. flight' \in [Keys -> Flights]
    BY <1>1, <1>2, <1>3 DEF SearchInv, TypeOK
  <1>6. caller' \in [Callers -> CallerStates] /\ AnswersOK'
    <2> DEFINE s == [caller[c] EXCEPT !.pc = "wait"]
    <2>1. caller' = [caller EXCEPT ![c] = s]
      BY DEF Do, SearchInv, TypeOK
    <2>2. s \in CallerStates
      BY <1>1, MovedState DEF Do
    <2>3. QED
      BY <1>1, <2>1, <2>2 DEF SearchInv, TypeOK, AnswersOK, CallerStates
  <1>7. TypeOK' /\ FlightsOK' /\ CacheOK'
    BY <1>2, <1>4, <1>5, <1>6 DEF Do, SearchInv, TypeOK, FlightsOK, CacheOK
  <1>8. QED
    BY <1>6, <1>7 DEF SearchInv

LEMMA RecheckStep ==
  ASSUME SearchInv, NEW k \in Keys, Recheck(k)
  PROVE  SearchInv'
  <1> DEFINE f == flight[k]
  <1>1. f \in Flights /\ FlightOK(f) /\ f.pc = "recheck" /\ cache[k] \in Entries
    BY DEF SearchInv, TypeOK, FlightsOK, Recheck
  <1>2. CASE cache[k] # Miss
    <2> DEFINE g == [f EXCEPT !.entry = cache[k], !.pc = "added"]
    <2>1. flight' = [flight EXCEPT ![k] = g]
      BY <1>2 DEF Recheck, SearchInv, TypeOK
    <2>2. g \in Flights
      BY <1>1 DEF Flights
    <2>3. Honest(cache[k])
      BY <1>1, <1>2, WholeIsHonest DEF SearchInv, CacheOK
    <2>4. FlightOK(g)
      BY <1>1, <2>3 DEF FlightOK, Busy, Flights
    <2>5. g.pc \notin Busy
      BY <1>1 DEF Busy, Flights
    <2>6. QED
      BY <2>1, <2>2, <2>4, <2>5, FlightStep DEF Recheck
  <1>3. CASE cache[k] = Miss
    <2> DEFINE g == [f EXCEPT !.pc = "primary", !.waiting = Primary,
                              !.entry.asked = @ \cup Primary]
    <2>1. flight' = [flight EXCEPT ![k] = g]
      BY <1>3 DEF Recheck, Ask, SearchInv, TypeOK
    <2>2. g \in Flights
      BY <1>1 DEF Flights, Entries, Pools, Primary
    <2>3. FlightOK(g)
      BY <1>1 DEF FlightOK, Busy, Nothing, Flights, Entries, Primary
    <2>4. QED
      BY <1>3, <2>1, <2>2, <2>3, FlightStep DEF Recheck
  <1>4. QED
    BY <1>2, <1>3

\* A flight whose pools are being asked, with one of them settled.
LEMMA AskingStep ==
  ASSUME SearchInv, NEW k \in Keys, NEW g \in Flights,
         flight[k].pc \in {"primary", "fallback"},
         flight' = [flight EXCEPT ![k] = g],
         UNCHANGED <<cache, caller, cancelled, fetched>>,
         g.pc = flight[k].pc, g.entry.asked = flight[k].entry.asked,
         g.entry.asked = g.entry.results \cup g.errs \cup g.waiting,
         g.errs \subseteq g.entry.failed,
         g.expired => g.waiting \subseteq g.entry.failed
  PROVE  SearchInv'
  <1>1. FlightOK(flight[k])
    BY DEF SearchInv, FlightsOK
  <1>2. FlightOK(g)
    BY <1>1 DEF FlightOK, Busy
  <1>3. cache[k] = Miss
    BY DEF SearchInv, CacheOK, Busy
  <1>4. QED
    BY <1>2, <1>3, FlightStep

\* A pool answers or fails, or the timeout passes.
LEMMA PoolStep ==
  ASSUME SearchInv, NEW k \in Keys,
         Expire(k) \/ \E p \in Pools : Succeed(k, p) \/ BackendFails(k, p) \/ GiveUp(k, p)
  PROVE  SearchInv'
  <1> DEFINE f == flight[k]
  <1>1. f \in Flights /\ f.entry \in Entries /\ FlightOK(f)
    BY DEF SearchInv, TypeOK, FlightsOK, Flights
  <1>2. f.pc \in {"primary", "fallback"}
    BY <1>1 DEF Expire, Succeed, BackendFails, GiveUp, FlightOK
  <1>3. /\ f.entry.asked = f.entry.results \cup f.errs \cup f.waiting
        /\ f.errs \subseteq f.entry.failed
        /\ f.expired => f.waiting \subseteq f.entry.failed
    BY <1>1, <1>2 DEF FlightOK, Busy
  <1>4. CASE Expire(k)
    <2> DEFINE g == [f EXCEPT !.expired = TRUE, !.entry.failed = @ \cup f.waiting]
    <2>1. flight' = [flight EXCEPT ![k] = g]
      BY <1>4 DEF Expire, SearchInv, TypeOK
    <2>2. g \in Flights
      BY <1>1 DEF Flights, Entries
    <2>3. /\ g.pc = f.pc /\ g.waiting = f.waiting /\ g.errs = f.errs
          /\ g.entry.asked = f.entry.asked /\ g.entry.results = f.entry.results
          /\ g.entry.failed = f.entry.failed \cup f.waiting
      BY <1>1 DEF Flights, Entries
    <2> HIDE DEF g
    <2>4. QED
      BY <1>2, <1>3, <1>4, <2>1, <2>2, <2>3, AskingStep DEF Expire
  <1>5. ASSUME NEW p \in Pools, Succeed(k, p) PROVE SearchInv'
    <2> DEFINE g == [f EXCEPT !.waiting = @ \ {p}, !.entry.results = @ \cup {p}]
    <2>1. flight' = [flight EXCEPT ![k] = g]
      BY <1>5 DEF Succeed, SearchInv, TypeOK
    <2>2. g \in Flights
      BY <1>1 DEF Flights, Entries
    <2>3. /\ g.pc = f.pc /\ g.waiting = f.waiting \ {p} /\ g.errs = f.errs
          /\ g.entry.asked = f.entry.asked /\ g.entry.results = f.entry.results \cup {p}
          /\ g.entry.failed = f.entry.failed /\ g.expired = f.expired
      BY <1>1 DEF Flights, Entries
    <2>4. p \in f.waiting /\ UNCHANGED <<cache, caller, cancelled, fetched>>
      BY <1>5 DEF Succeed
    <2> HIDE DEF g
    <2>5. QED
      BY <1>2, <1>3, <2>1, <2>2, <2>3, <2>4, AskingStep
  <1>6. ASSUME NEW p \in Pools, BackendFails(k, p) PROVE SearchInv'
    <2> DEFINE g == [f EXCEPT !.waiting = @ \ {p}, !.errs = @ \cup {p},
                              !.entry.failed = @ \cup {p}]
    <2>1. flight' = [flight EXCEPT ![k] = g]
      BY <1>6 DEF BackendFails, SearchInv, TypeOK
    <2>2. g \in Flights
      BY <1>1 DEF Flights, Entries
    <2>3. /\ g.pc = f.pc /\ g.waiting = f.waiting \ {p} /\ g.errs = f.errs \cup {p}
          /\ g.entry.asked = f.entry.asked /\ g.entry.results = f.entry.results
          /\ g.entry.failed = f.entry.failed \cup {p} /\ g.expired = f.expired
      BY <1>1 DEF Flights, Entries
    <2>4. p \in f.waiting /\ UNCHANGED <<cache, caller, cancelled, fetched>>
      BY <1>6 DEF BackendFails
    <2> HIDE DEF g
    <2>5. QED
      BY <1>2, <1>3, <2>1, <2>2, <2>3, <2>4, AskingStep
  <1>7. ASSUME NEW p \in Pools, GiveUp(k, p) PROVE SearchInv'
    <2> DEFINE g == [f EXCEPT !.waiting = @ \ {p}, !.errs = @ \cup {p}]
    <2>1. flight' = [flight EXCEPT ![k] = g]
      BY <1>7 DEF GiveUp, SearchInv, TypeOK
    <2>2. g \in Flights
      BY <1>1 DEF Flights
    <2>3. /\ g.pc = f.pc /\ g.waiting = f.waiting \ {p} /\ g.errs = f.errs \cup {p}
          /\ g.entry = f.entry /\ g.expired = f.expired
      BY <1>1 DEF Flights
    <2>4. f.expired /\ p \in f.waiting /\ UNCHANGED <<cache, caller, cancelled, fetched>>
      BY <1>7 DEF GiveUp, ContextDone
    <2> HIDE DEF g
    <2>5. QED
      BY <1>2, <1>3, <2>1, <2>2, <2>3, <2>4, AskingStep
  <1>8. QED
    BY <1>4, <1>5, <1>6, <1>7

LEMMA WeighStep ==
  ASSUME SearchInv, NEW k \in Keys, Weigh(k)
  PROVE  SearchInv'
  <1> DEFINE f == flight[k]
  <1>1. f \in Flights /\ f.entry \in Entries /\ FlightOK(f) /\ f.pc = "primary" /\ f.waiting = {}
    BY DEF SearchInv, TypeOK, FlightsOK, Flights, Weigh
  <1>2. cache[k] = Miss /\ UNCHANGED <<cache, caller, cancelled, fetched>>
    BY <1>1 DEF SearchInv, CacheOK, Busy, Weigh
  <1>3. CASE flight' = [flight EXCEPT ![k].pc = "ranked"]
    <2> DEFINE g == [f EXCEPT !.pc = "ranked"]
    <2>1. flight' = [flight EXCEPT ![k] = g]
      BY <1>3 DEF SearchInv, TypeOK
    <2>2. g \in Flights
      BY <1>1 DEF Flights
    <2>3. FlightOK(g)
      BY <1>1 DEF FlightOK, Flights, Busy
    <2>4. QED
      BY <1>2, <2>1, <2>2, <2>3, FlightStep
  <1>4. CASE flight' = [flight EXCEPT ![k].pc = "fallback",
                          ![k].waiting = {"fallback"},
                          ![k].entry.asked = @ \cup {"fallback"},
                          ![k].entry.failed = IF flight[k].expired THEN @ \cup {"fallback"} ELSE @]
    <2> DEFINE g == [f EXCEPT !.pc = "fallback", !.waiting = {"fallback"},
                              !.entry.asked = @ \cup {"fallback"},
                              !.entry.failed = IF f.expired THEN @ \cup {"fallback"} ELSE @]
    <2>1. flight' = [flight EXCEPT ![k] = g]
      BY <1>4 DEF SearchInv, TypeOK
    <2>2. g \in Flights
      BY <1>1 DEF Flights, Entries, Pools
    <2>3. /\ g.pc = "fallback" /\ g.waiting = {"fallback"} /\ g.errs = f.errs
          /\ g.entry.asked = f.entry.asked \cup {"fallback"}
          /\ g.entry.results = f.entry.results /\ g.expired = f.expired
          /\ g.entry.failed = IF f.expired THEN f.entry.failed \cup {"fallback"}
                              ELSE f.entry.failed
      BY <1>1 DEF Flights, Entries
    <2> HIDE DEF g
    <2>4. FlightOK(g)
      BY <1>1, <2>3 DEF FlightOK, Busy
    <2>5. QED
      BY <1>2, <2>1, <2>2, <2>4, FlightStep
  <1>5. QED
    BY <1>3, <1>4 DEF Weigh

LEMMA FallbackDoneStep ==
  ASSUME SearchInv, NEW k \in Keys, FallbackDone(k)
  PROVE  SearchInv'
  <1> DEFINE f == flight[k]
             g == [f EXCEPT !.pc = "ranked"]
  <1>1. f \in Flights /\ FlightOK(f) /\ f.pc = "fallback" /\ f.waiting = {}
    BY DEF SearchInv, TypeOK, FlightsOK, FallbackDone
  <1>2. cache[k] = Miss
    BY <1>1 DEF SearchInv, CacheOK, Busy
  <1>3. flight' = [flight EXCEPT ![k] = g]
    BY DEF FallbackDone, SearchInv, TypeOK
  <1>4. g \in Flights
    BY <1>1 DEF Flights
  <1>5. FlightOK(g)
    BY <1>1 DEF FlightOK, Flights, Busy
  <1>6. QED
    BY <1>2, <1>3, <1>4, <1>5, FlightStep DEF FallbackDone

\* Nobody else can have filled the entry, and what goes into it is whole.
LEMMA AddStep ==
  ASSUME SearchInv, NEW k \in Keys, Add(k)
  PROVE  SearchInv'
  <1> DEFINE f == flight[k]
             g == [f EXCEPT !.pc = "added"]
  <1>1. f \in Flights /\ f.entry \in Entries /\ FlightOK(f) /\ f.pc = "ranked"
    BY DEF SearchInv, TypeOK, FlightsOK, Flights, Add
  <1>2. /\ Primary \subseteq f.entry.asked
        /\ f.entry.asked = f.entry.results \cup f.errs
        /\ f.errs \subseteq f.entry.failed
    BY <1>1 DEF FlightOK, Busy
  <1>3. cache[k] = Miss /\ fetched[k] = 0
    BY <1>1 DEF SearchInv, CacheOK, Busy
  <1>4. flight' = [flight EXCEPT ![k] = g] /\ UNCHANGED <<caller, cancelled>>
    BY DEF Add, SearchInv, TypeOK
  <1>5. g \in Flights /\ g.pc = "added" /\ g.entry = f.entry /\ g.waiting = f.waiting
    BY <1>1 DEF Flights
  <1> HIDE DEF g
  <1>6. FlightOK(g)
    BY <1>1, <1>2, <1>5 DEF FlightOK, Busy, Honest
  <1>7. \A l \in Keys : flight'[l] = IF l = k THEN g ELSE flight[l]
    BY <1>4 DEF SearchInv, TypeOK
  <1>8. flight' \in [Keys -> Flights] /\ FlightsOK'
    BY <1>4, <1>5, <1>6, <1>7 DEF SearchInv, TypeOK, FlightsOK
  <1>9. CASE f.errs = {}
    <2>1. cache' = [cache EXCEPT ![k] = f.entry] /\ fetched' = [fetched EXCEPT ![k] = @ + 1]
      BY <1>9 DEF Add
    <2>2. Whole(f.entry) /\ f.entry # Miss
      BY <1>2, <1>9 DEF Whole, Miss, Nothing, Primary
    <2>3. TypeOK'
      BY <1>1, <1>3, <1>4, <1>8, <2>1 DEF SearchInv, TypeOK
    <2>4. \A l \in Keys : /\ cache'[l] = IF l = k THEN f.entry ELSE cache[l]
                          /\ fetched'[l] = IF l = k THEN 1 ELSE fetched[l]
      BY <1>3, <2>1 DEF SearchInv, TypeOK
    <2>5. CacheOK'
      BY <1>5, <1>7, <2>2, <2>4 DEF SearchInv, CacheOK, Busy
    <2>6. QED
      BY <1>4, <1>8, <2>3, <2>5 DEF SearchInv, AnswersOK
  <1>10. CASE f.errs # {}
    <2>1. UNCHANGED <<cache, fetched>>
      BY <1>10 DEF Add
    <2>2. CacheOK'
      BY <1>5, <1>7, <2>1 DEF SearchInv, CacheOK, Busy
    <2>3. QED
      BY <1>4, <1>8, <2>1, <2>2 DEF SearchInv, TypeOK, AnswersOK
  <1>11. QED
    BY <1>9, <1>10

LEMMA LandStep ==
  ASSUME SearchInv, NEW k \in Keys, Land(k)
  PROVE  SearchInv'
  <1> DEFINE e == flight[k].entry
  <1>1. e \in Entries /\ Honest(e)
    BY DEF SearchInv, TypeOK, FlightsOK, Flights, FlightOK, Land
  <1>2. UNCHANGED <<cache, cancelled, fetched>> /\ flight' = [flight EXCEPT ![k] = NoFlight]
    BY DEF Land
  <1>3. NoFlight \in Flights /\ FlightOK(NoFlight) /\ NoFlight.pc \notin Busy
    BY DEF NoFlight, Nothing, Flights, Entries, FlightOK, Busy
  <1>4. \A l \in Keys : flight'[l] = IF l = k THEN NoFlight ELSE flight[l]
    BY <1>2 DEF SearchInv, TypeOK
  <1>5. \A c \in Callers : Answered(c, e) \in CallerStates
    BY <1>1, AnsweredState DEF SearchInv, TypeOK, Answered
  <1>6. caller' = [c \in Callers |-> IF c \in Waiters(k) THEN Answered(c, e) ELSE caller[c]]
    BY DEF Land
  <1>7. \A c \in Callers : caller'[c].answer = e \/ caller'[c] = caller[c]
    BY <1>6 DEF Answered
  <1>8. TypeOK'
    BY <1>2, <1>3, <1>5, <1>6 DEF SearchInv, TypeOK
  <1>9. AnswersOK'
    <2> HIDE DEF e
    <2> QED BY <1>1, <1>7 DEF SearchInv, AnswersOK
  <1>10. FlightsOK' /\ CacheOK'
    BY <1>2, <1>3, <1>4 DEF SearchInv, FlightsOK, CacheOK
  <1>11. QED
    BY <1>8, <1>9, <1>10 DEF SearchInv

LEMMA EvictStep ==
  ASSUME SearchInv, NEW k \in Keys, Evict(k)
  PROVE  SearchInv'
  <1>1. UNCHANGED <<flight, caller, cancelled>>
    BY DEF Evict
  <1>2. \A l \in Keys : /\ cache'[l] = IF l = k THEN Miss ELSE cache[l]
                        /\ fetched'[l] = IF l = k THEN 0 ELSE fetched[l]
    BY DEF Evict, SearchInv, TypeOK
  <1>3. TypeOK'
    BY <1>1 DEF Evict, SearchInv, TypeOK, Miss, Nothing, Entries
  <1>4. CacheOK'
    BY <1>1, <1>2 DEF SearchInv, CacheOK
  <1>5. QED
    BY <1>1, <1>3, <1>4 DEF SearchInv, FlightsOK, AnswersOK

LEMMA SearchStep == SearchInv /\ [Next]_vars => SearchInv'
  <1> SUFFICES ASSUME SearchInv, [Next]_vars PROVE SearchInv'
    OBVIOUS
  <1>1. ASSUME NEW c \in Callers, Call(c) \/ Cancel(c) \/ Search(c) PROVE SearchInv'
    BY <1>1, CallerStep, DoStep DEF Search
  <1>2. ASSUME NEW k \in Keys, Fly(k) PROVE SearchInv'
    BY <1>2, RecheckStep, WeighStep, FallbackDoneStep, AddStep, LandStep, PoolStep DEF Fly
  <1>3. ASSUME NEW k \in Keys,
               Expire(k) \/ Evict(k) \/ \E p \in Pools : Succeed(k, p) \/ BackendFails(k, p)
        PROVE  SearchInv'
    BY <1>3, PoolStep, EvictStep
  <1>4. CASE UNCHANGED vars
    BY <1>4 DEF vars, SearchInv, TypeOK, FlightsOK, CacheOK, AnswersOK
  <1>5. QED
    BY <1>1, <1>2, <1>3, <1>4 DEF Next

\* The inductive invariant: what a flight still owes, what the cache holds and
\* what the callers were told agree, whatever the backend and the clock do.
THEOREM SearchInvariant == Spec => []SearchInv
  BY InitSearch, SearchStep, PTL DEF Spec

-----------------------------------------------------------------------------
(* The properties                                                          *)

\* Caches, flights and callers keep to their types.
THEOREM SearchTypes == Spec => []TypeOK
  <1>1. SearchInv => TypeOK
    BY DEF SearchInv
  <1>2. QED
    BY <1>1, SearchInvariant, PTL

\* A result that a failed or late pool, the fallback included, is missing from
\* is never cached.
THEOREM WholeCache == Spec => []OnlyWholeCached
  <1>1. SearchInv => OnlyWholeCached
    BY DEF SearchInv, CacheOK, Whole, OnlyWholeCached
  <1>2. QED
    BY <1>1, SearchInvariant, PTL

\* A caller misses the results of no pool but those that failed or were late,
\* however many callers share its flight and whoever of them is cancelled.
THEOREM CancelStaysPrivate == Spec => []CancelIsPrivate
  <1>1. SearchInv => CancelIsPrivate
    BY DEF SearchInv, AnswersOK, Honest, CancelIsPrivate
  <1>2. QED
    BY <1>1, SearchInvariant, PTL

\* However many callers miss a key at once, and however late they join, a whole
\* result is fetched once until it leaves the cache.
THEOREM OneFetch == Spec => []FetchedOnce
  <1>1. SearchInv => FetchedOnce
    BY DEF SearchInv, CacheOK, FetchedOnce
  <1>2. QED
    BY <1>1, SearchInvariant, PTL

-----------------------------------------------------------------------------
(* The promise                                                             *)

\* A search is open until it is answered.
LEMMA SeenOpen ==
  ASSUME NEW s, s.pc \in {"lookup", "do", "wait"}
  PROVE  Seen(s) = [open |-> TRUE, key |-> s.key, answer |-> s.answer]
  <1>1. (s.pc \in {"lookup", "do", "wait"}) = TRUE
    OBVIOUS
  <1>2. QED
    BY <1>1, Zenon DEF Seen

LEMMA SeenClosed ==
  ASSUME NEW s, s.pc \in {"idle", "done"}
  PROVE  Seen(s) = [open |-> FALSE, key |-> s.key, answer |-> s.answer]
  <1>1. (s.pc \in {"lookup", "do", "wait"}) = FALSE
    OBVIOUS
  <1>2. QED
    BY <1>1, Zenon DEF Seen

LEMMA SeenAnswered ==
  ASSUME NEW c, NEW e
  PROVE  Seen(Answered(c, e)) = [open |-> FALSE, key |-> caller[c].key, answer |-> e]
  <1>1. Answered(c, e).pc \in {"idle", "done"}
    BY DEF Answered
  <1>2. Answered(c, e).key = caller[c].key /\ Answered(c, e).answer = e
    BY DEF Answered
  <1>3. QED
    BY <1>1, <1>2, SeenClosed

\* Nobody sees a search that has not been answered move on.
LEMMA SeenMove ==
  ASSUME NEW s \in CallerStates, NEW pc \in {"do", "wait"}, s.pc \in {"lookup", "do"}
  PROVE  Seen([s EXCEPT !.pc = pc]) = Seen(s)
  <1> DEFINE t == [s EXCEPT !.pc = pc]
  <1>1. t.pc = pc /\ t.key = s.key /\ t.answer = s.answer
    BY DEF CallerStates
  <1>2. t.pc \in {"lookup", "do", "wait"}
    BY <1>1
  <1> HIDE DEF t
  <1>3. Seen(t) = [open |-> TRUE, key |-> s.key, answer |-> s.answer]
    BY <1>1, <1>2, SeenOpen
  <1>4. Seen(s) = [open |-> TRUE, key |-> s.key, answer |-> s.answer]
    BY SeenOpen
  <1>5. QED
    BY <1>3, <1>4 DEF t

\* A caller alone: it asks, it is answered from the cache, or nobody sees what
\* it does.
LEMMA CallerPromise ==
  ASSUME SearchInv, NEW c \in Callers, Call(c) \/ Cancel(c) \/ Search(c)
  PROVE  Promise!Next \/ UNCHANGED <<cache, Searches>>
  <1>1. caller \in [Callers -> CallerStates] /\ UNCHANGED cache
    BY DEF SearchInv, TypeOK, Call, Cancel, Search, Lookup, Do
  <1>2. CASE Call(c)
    <2>1. PICK k \in Keys :
            caller' = [caller EXCEPT ![c] = [pc |-> "lookup", key |-> k, answer |-> Nothing]]
      BY <1>2 DEF Call
    <2> DEFINE s == [pc |-> "lookup", key |-> k, answer |-> Nothing]
    <2>2. ~Searches[c].open
      BY <1>2, SeenClosed DEF Call, Searches
    <2>3. Searches' = [Searches EXCEPT ![c] = [open |-> TRUE, key |-> k, answer |-> Nothing]]
      <3>1. Seen(s) = [open |-> TRUE, key |-> k, answer |-> Nothing]
        <4>1. s.pc \in {"lookup", "do", "wait"} /\ s.key = k /\ s.answer = Nothing
          OBVIOUS
        <4> HIDE DEF s
        <4>2. QED
          BY <4>1, SeenOpen
      <3>2. QED
        BY <1>1, <2>1, <3>1 DEF Searches
    <2>4. Promise!Open(c, k)
      BY <1>1, <2>2, <2>3 DEF Promise!Open
    <2>5. QED
      BY <2>4 DEF Promise!Next
  <1>3. CASE Cancel(c)
    BY <1>1, <1>3 DEF Cancel, Searches
  <1>4. CASE Lookup(c)
    <2> DEFINE k == caller[c].key
               e == cache[k]
    <2>1. k \in Keys /\ e \in Entries /\ caller[c].pc = "lookup"
      BY <1>1, <1>4 DEF SearchInv, TypeOK, CallerStates, Lookup
    <2>2. CASE e # Miss
      <3>1. caller' = [caller EXCEPT ![c] = Answered(c, e)]
        BY <1>4, <2>2 DEF Lookup
      <3>2. e \in Promise!Answers
        BY <2>1, <2>2, WholeIsHonest
           DEF SearchInv, CacheOK, Honest, Entries, Promise!Answers, Promise!Entries
      <3>3. {c} \subseteq Promise!Asking(k)
        BY <2>1, SeenOpen DEF Promise!Asking, Searches
      <3>4. \A d \in Callers : Searches'[d] =
              IF d \in {c} THEN [open |-> FALSE, key |-> k, answer |-> e] ELSE Searches[d]
        BY <1>1, <3>1, SeenAnswered DEF Searches
      <3>5. Promise!Answer(k, {c}, e)
        BY <1>1, <3>3, <3>4 DEF Promise!Answer, Searches
      <3>6. {c} \in SUBSET Callers
        OBVIOUS
      <3>7. QED
        BY <2>1, <3>2, <3>3, <3>5 DEF Promise!Next
    <2>3. CASE e = Miss
      <3>1. caller' = [caller EXCEPT ![c] = [@ EXCEPT !.pc = "do"]]
        BY <1>4, <2>3 DEF Lookup
      <3>2. Seen([caller[c] EXCEPT !.pc = "do"]) = Seen(caller[c])
        BY <1>1, <2>1, SeenMove
      <3>3. QED
        BY <1>1, <3>1, <3>2 DEF Searches
    <2>4. QED
      BY <2>2, <2>3
  <1>5. CASE Do(c)
    <2>1. caller' = [caller EXCEPT ![c].pc = "wait"] /\ caller[c].pc = "do"
      BY <1>5 DEF Do
    <2>2. Seen([caller[c] EXCEPT !.pc = "wait"]) = Seen(caller[c])
      BY <1>1, <2>1, SeenMove
    <2>3. caller' = [caller EXCEPT ![c] = [caller[c] EXCEPT !.pc = "wait"]]
      BY <1>1, <2>1
    <2>4. QED
      BY <1>1, <2>2, <2>3 DEF Searches
  <1>6. QED
    BY <1>2, <1>3, <1>4, <1>5 DEF Search

\* A flight fills an empty entry with a whole result, or keeps it for itself.
LEMMA AddPromise ==
  ASSUME SearchInv, NEW k \in Keys, Add(k)
  PROVE  Promise!Next \/ UNCHANGED <<cache, Searches>>
  <1> DEFINE f == flight[k]
  <1>1. f.entry \in Entries /\ FlightOK(f) /\ f.pc = "ranked" /\ cache[k] = Miss
    BY DEF SearchInv, TypeOK, FlightsOK, CacheOK, Flights, Busy, Add
  <1>2. UNCHANGED Searches
    BY DEF Add, Searches
  <1>3. CASE f.errs = {}
    <2>1. cache' = [cache EXCEPT ![k] = f.entry]
      BY <1>3 DEF Add
    <2>2. f.entry.asked = f.entry.results /\ Primary \subseteq f.entry.asked
      BY <1>1, <1>3 DEF FlightOK, Busy
    <2>3. f.entry \in Promise!Whole
      BY <1>1, <2>2 DEF Entries, Promise!Whole, Promise!Answers, Promise!Entries
    <2>4. Promise!Remember(k, f.entry)
      BY <1>1, <1>2, <2>1 DEF Promise!Remember, Miss
    <2>5. QED
      BY <2>3, <2>4 DEF Promise!Next
  <1>4. CASE f.errs # {}
    BY <1>2, <1>4 DEF Add
  <1>5. QED
    BY <1>3, <1>4

\* A flight answers all who wait for it, and nobody else.
LEMMA LandPromise ==
  ASSUME SearchInv, NEW k \in Keys, Land(k)
  PROVE  Promise!Next
  <1> DEFINE e == flight[k].entry
             cs == Waiters(k)
  <1>1. e \in Entries /\ Honest(e)
    BY DEF SearchInv, TypeOK, FlightsOK, Flights, FlightOK, Land
  <1>2. e \in Promise!Answers
    BY <1>1 DEF Honest, Entries, Promise!Answers, Promise!Entries
  <1>3. cs \subseteq Promise!Asking(k)
    BY SeenOpen DEF Waiters, Promise!Asking, Searches
  <1>4. caller' = [c \in Callers |-> IF c \in cs THEN Answered(c, e) ELSE caller[c]]
    BY DEF Land
  <1>5. \A c \in cs : caller[c].key = k
    BY DEF Waiters
  <1>6. UNCHANGED cache
    BY DEF Land
  <1> HIDE DEF cs, e
  <1>7. Searches' = [c \in Callers |->
          IF c \in cs THEN [open |-> FALSE, key |-> k, answer |-> e] ELSE Searches[c]]
    BY <1>4, <1>5, SeenAnswered DEF Searches
  <1>8. Promise!Answer(k, cs, e)
    BY <1>3, <1>6, <1>7 DEF Promise!Answer
  <1>9. QED
    BY <1>2, <1>3, <1>8 DEF Promise!Next

LEMMA PromiseStep ==
  SearchInv /\ [Next]_vars => [Promise!Next]_<<cache, Searches>>
  <1> SUFFICES ASSUME SearchInv, [Next]_vars
               PROVE  Promise!Next \/ UNCHANGED <<cache, Searches>>
    OBVIOUS
  <1>1. ASSUME NEW k \in Keys, Evict(k) PROVE Promise!Next
    <2>1. UNCHANGED Searches /\ cache' = [cache EXCEPT ![k] = Nothing]
      BY <1>1 DEF Evict, Searches, Miss
    <2>2. Promise!Forget(k)
      BY <2>1 DEF Promise!Forget
    <2>3. QED
      BY <2>2 DEF Promise!Next
  <1>2. ASSUME NEW k \in Keys,
               \/ Recheck(k) \/ Weigh(k) \/ FallbackDone(k) \/ Expire(k)
               \/ \E p \in Pools : GiveUp(k, p) \/ Succeed(k, p) \/ BackendFails(k, p)
        PROVE  UNCHANGED <<cache, Searches>>
    <2>1. UNCHANGED <<cache, caller>>
      BY <1>2 DEF Recheck, Weigh, FallbackDone, Expire, GiveUp, Succeed, BackendFails
    <2>2. QED
      BY <2>1 DEF Searches
  <1>3. CASE UNCHANGED vars
    BY <1>3 DEF vars, Searches
  <1>4. QED
    BY <1>1, <1>2, <1>3, CallerPromise, AddPromise, LandPromise DEF Next, Fly

\* Cache, flights and backends together implement what a search promises its
\* caller: one answer, honest about what it misses, and no entry that is less
\* than whole or replaced while it is there.
THEOREM SearchPromiseKept == Spec => HonestSearch
  <1>1. Init => Promise!Init
    <2> SUFFICES ASSUME Init PROVE Promise!Init
      OBVIOUS
    <2>1. Searches \in [Callers -> [open : {FALSE}, key : Keys, answer : {Nothing}]]
      <3>1. ASSUME NEW c \in Callers
            PROVE  Seen(caller[c]) \in [open : {FALSE}, key : Keys, answer : {Nothing}]
        <4>1. caller[c].pc = "idle" /\ caller[c].key \in Keys /\ caller[c].answer = Nothing
          BY DEF Init
        <4>2. caller[c].pc \in {"idle", "done"}
          BY <4>1
        <4>3. Seen(caller[c]) = [open |-> FALSE, key |-> caller[c].key, answer |-> caller[c].answer]
          <5> DEFINE s == caller[c]
          <5>1. s.pc \in {"idle", "done"}
            BY <4>2
          <5> HIDE DEF s
          <5>2. Seen(s) = [open |-> FALSE, key |-> s.key, answer |-> s.answer]
            BY <5>1, SeenClosed
          <5>3. QED
            BY <5>2 DEF s
        <4>4. QED
          BY <4>1, <4>3
      <3>2. QED
        BY <3>1 DEF Searches
    <2>2. QED
      BY <2>1 DEF Init, Promise!Init, Miss
  <1>2. SearchInv /\ [Next]_vars => [Promise!Next]_<<cache, Searches>>
    BY PromiseStep
  <1>3. QED
    BY <1>1, <1>2, SearchInvariant, PTL DEF Spec, HonestSearch, Promise!Spec
=============================================================================
