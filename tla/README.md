# Searchy in TLA+

Searchy is a Telegram bot: inline and chat search over SearXNG, language and
statistics menus, and a bridge through which another bot, Vido, has Searchy post
the media it downloaded. This directory holds TLA+ modules that model the parts
of it with real control, TLC configurations that check them on small instances,
and TLAPS proofs of what matters most for all instances.

Paths below are relative to the repository root; `core` is the shared Postgres.

## 1. Inventory

| component | code | state | operations |
|---|---|---|---|
| delivery worker | `internal/bot/delivery.go`, `internal/vido/client.go` | the claimed plan, position, set of delivered operations, retry counter, heartbeat | claim, reject, begin, send, acknowledge, fail, invalidate, finish, renew |
| notification worker | `internal/bot/delivery.go:57-119` | the claimed notification | claim, post or edit, acknowledge |
| download intents | `internal/bot/vido.go`, `internal/bot/grid.go:205-271` | tokens in core, `jobWatch` | mint, bind, enqueue, retry, shared intent, watch |
| plan validation | `internal/vido/plan.go` | none | `ValidatePlan` |
| poll loop | `internal/bot/poll.go` | offset, failures, semaphore, running handlers | poll, back off, dispatch, drain |
| inline search | `internal/bot/handlers.go:137-223`, `debounce.go` | one generation per user, result metadata | gate, search, answer, record |
| language | `internal/bot/handlers.go:410-504`, `internal/core/core.go` | `langCache` (no expiry), claim in core | look up, detect, pick, clear |
| statistics | `internal/bot/handlers.go:506-558`, `statscache.go` | snapshots, running refreshes | view, refresh |
| result grids | `internal/bot/grid.go`, `fetch.go` | sessions, rendered pages | search, page, pick, close |
| aggregator | `internal/search/aggregate.go` | LRU cache, one flight per key | search, ask pools, fall back, rank, cache |
| SearXNG provider | `internal/search/searxng/searxng.go` | none | one request per pool |
| the rest | menus, rendering, i18n, collage, HTTP, db, config, `cmd/` | configuration, tables | formatting and I/O |

How they interact. `cmd/bot/main.go` starts the two bridge workers as goroutines
and then blocks in the poll loop, which starts a goroutine per update. Handlers
share the aggregator, the debouncer and the caches; the aggregator asks the
provider. The workers share nothing with the handlers but core: an intent minted
by a handler becomes a job of Vido, whose plan a worker claims. On a signal the
shared context is cancelled, the poll loop drains its handlers and `main` exits
without waiting for the workers.

What is hard. The bridge has three parties that fail separately: a call to core
or Telegram may be lost, carried out with its reply lost, or carried out after
its caller gave up, and the process may die between any two of them. Everything
else hard is concurrency inside the process: handlers of one user run in
parallel over caches that are checked and filled in separate steps, one caller
leads a search others wait for, an update's offset is confirmed before its
handler is done. PROJECT.json lists each hazard at its line.

What makes each part correct: no message posted twice, honest verdicts, every
job ends (delivery); a notification posted at least once (notifications); a
token used only in the chat, by the owner and on the card it was bound to
(intents); no update lost or repeated by the loop (polling); the answer of the
newest query and none of an older one (inline); what the user chose last
(language); a snapshot no older than what was shown before, one refresh at a time
(statistics); the page that was tapped last (grids); only whole results cached,
one fetch, no caller hurt by another's cancellation, a ranking that keeps its
quotas (aggregator).

## 2. Modules

### Delivery, DeliveryPromise, MCDelivery, DeliveryProofs

`Delivery` models the delivery worker with core's delivery functions and
Telegram as external actors. An action is one call of the worker with everything
up to the next call: `Claim` is `ClaimDelivery` with the head of `deliverPlan`,
`Skip` and `Begin` are the head of the loop, `Send` / `NoAnswer` / `Telegram` a
send and what becomes of it, `Invalidate` and `Fail` the error branch, `Ack` and
`Finish` one attempt of a retried commit, `StopHeartbeat` the end of
`renewDeliveryLease`. `proc[w].pc` names the call the worker is about to make.

A call to core is `Confirmed` (true), `Refused` (false: "lease lost") or
`Unanswered` (an error; the request goes lost or joins `delayed`, from where
`LateCommit` carries it out at any later time). Calls on the worker's context
fail once it is cancelled (`stopping`); those the code makes on a context of
their own, the acknowledgement, the final commit and the rejection of an
undecodable plan, do not. A send goes onto `wire`, which Telegram serves later,
whether or not the sender still waits. `Die` loses everything volatile. `Start`
begins again with the same worker id, which is `hostname:pid`: in a container
that id is easily the predecessor's.

The functions `vido.*` are not part of this repository. Their contract is taken
from the way the client uses it and from `docs/architecture.md`: only the holder
of the lease changes a job; a confirmed operation stays confirmed and is not
begun again; an expired lease whose plan has an operation in doubt ends as
`delivery_unknown`, otherwise the job may be claimed again; a lease does not run
out while its heartbeat runs (15 minutes, renewed every minute). Calls that do
change nothing for these properties are left out: captions, keyboards, the
content of the plan, which `PlanRules` has. Whether a plan decodes and validates
is fixed in `Init`.

`DeliveryPromise` is the abstract specification: messages appear in order, each
at most once, and a job ends once, as `delivered` only when whole, with nothing
appearing after `failed`. `Promise` in `Delivery` instantiates it over the job's
status and the count of posted messages, and `KeepsPromise` is checked as a
property.

### PollLoop, MCPollLoop, PollLoopProofs

`Run` of `poll.go`: the offset moves past an update in `Dispatch` (a slot was
free) or `Abandon` (the context ended first); `PollFailed` repeats with the same
offset; `Return` is the deferred wait. Telegram forgets updates below the offset
it was last given, also in a poll whose answer was lost. `taken` and `started`
are ghosts.

### Language, MCLanguage, LanguageProofs

The handlers of one user over `langCache` and core. A lookup is `Load`, `Read`
(core commits the read) and `Store`; a pick and the auto-detection of `/start`
cache at once and leave a request in `pending`; a clear is `Delete`, which waits
for core, then `Drop` of the cache entry, then another lookup to draw the panel.
`Restart` empties the cache. The ghosts `calm`, `quiet`, `removed` and `picked`
say what else was going on. What other bots claim for the user is left out, and
whether core lets an auto-detected language replace a manual one is left open.

### Inline, MCInline, InlineProofs

`onInline` and the debouncer. `Register` is the critical section of `gate`,
`PassWindow` and `LeaveWindow` the two branches of its `select` (either is taken
when both are ready), `Searched` the search and the check after it, `Answer` what
follows, `Prune` the goroutine that removes the entry. A query stands for its
generation, which the code compares only to tell entries apart. The search is
one step that returns some time, as `EverySearchReturns` of `Aggregator` says.

### Aggregator, SearchPromise, MCAggregator, AggregatorProofs

`Search` as callers (`Lookup`, `Do`) and flights (`Recheck`, the pools, `Weigh`,
the fallback, `Add`, `Land`). Results are the set of pools that contributed, so
that "whole" can be stated. Whether results are weak is a free choice except when
the core pool failed, when there are none to be strong. `ContextDone` is the
context of a flight: only its timeout ends it, whichever caller is cancelled.

`SearchPromise` is the abstract specification: a search is answered once, searches
for one key that are under way together may share an answer, an answer owns up to
what it misses, and what is remembered is whole and stays until it is forgotten.
`Promise` in `Aggregator` instantiates it over the cache and `Searches`, the
searches as their callers see them; `HonestSearch` is checked as a property, and
implies `OnlyWholeCached`.

### Provider, Config, Ranking, MCRanking, RankingProofs

What the aggregator makes of the answers. `Provider` is the SearXNG client as
operators: which engines a request names, when it fails, and what `normalize`
keeps of a raw result, its links chosen and upgraded to https as the code does.
`Config` has the clamps of the settings involved. `Ranking` is `search` and
`postprocess`: `Weigh`, `Fallback` and `Postprocess` are its stages, `Schedule`
one turn of the loop of `scheduleResults` and `Diversify` one of
`applyDomainDiversity`. The counters of these loops are not kept but read off
the sequence built so far; the properties are stated over the finished sequences.
URLs are records of what the code tells apart (name, host, how it is written),
titles are sequences of words. Scores are integers: `titleCoverage` and
`mediaQuality` are percentages and a rank score counts in millionths, so that
scores whose difference is below that are ties here and not in the code. `LanesRanked`,
a part of the module's `TypeOK`, is what merging and ranking owe the schedule:
a lane has results of its pool and category, in a discovery lane the strong ones
first.

The loops of the code that collect are folds (`Keep`, `Absorb`, `MergeDuplicates`);
the sort of `rankGroup` is `RankGroup`, which puts a result after as many as come
before it. `RawOK` is what a decoded reply is made of. `BackendAssumption` says
that the replies are such and one thing more: results with one ID are of one
category. An ID is a hash of a link, and `mergeDuplicates` compares nothing else;
a backend that gave one link as an image and as the page of a video would have
the two merged into one of whichever came first, and nothing in the code prevents it.

### PlanRules, Bridge, Intent, Notification, Download, MCDownload, DownloadProofs

One video card, from the pick to the notice of how its download ended.
`PlanRules` has `ValidatePlan` and what `sendOperation` makes of an operation, two
lists of cases that have to agree; `Taken` is the loop that puts a media group
together and passes over what is none of its types. A local URI is kept as it is
written: `URLPath` and `Clean` are what `validateSource` makes of it, `InputFile`
what is sent. `Bridge` holds what the others share: the
card in the chat, core's intent, jobs and notices; core, Vido and Telegram are
external. `Deliver` stands for Vido and the delivery worker of `Delivery`.
`Intent` is the handlers: the pick (`Mint`, `SendCard`, `Bind`, `Strip`, one call
each) and the taps. `Notification` is the notification worker: `Claim`,
`DeliverNotice`, up to three `Ack`s, each with its failures. `Download` composes
them and adds what ends the process: `Cancel` is the signal, `Exit` the end, in
which handlers and worker lose all they know, `Start` the next process. A call
may fail undone or done, and fails on a cancelled context; acknowledgements have
a context of their own. The ghosts `excuses` and `again` record which calls went
wrong, for the properties that hold unless they do. That an intent expires after
six hours is part of the calls that fail.

### StatsCache, Grid, Panels, MCPanels, PanelsProofs

`StatsCache` is `statsView` and the goroutines of `refreshStatsAsync` over the
snapshots, with a clock; what a snapshot holds is the time its query read the
database, so that "older" can be stated. `Grid` is one grid message: `Lookup`,
`Render` and `Show` are the two critical sections of `renderGrid` and the post or
edit after it, taken by any number of taps at once. A tap remembers the picture
its user saw. `Panels` runs one or the other: they share no state.

## 3. Runs

| run | instance | shows |
|---|---|---|
| `delivery` | 2 workers, 1 job, 2 operations, the second sent by file id, at most 1 late request at once | no duplicates, order, honest verdicts and file references, the refinement, every plan ends |
| `poll` | 4 updates, batches of 2, 1 slot, backoff capped at 2 steps | safety and liveness of the loop |
| `language` | 2 handlers, 3 languages | picks and clears hold under concurrent handlers |
| `language_lookups` | 2 handlers, 2 languages | **violation**, see below |
| `inline` | 3 queries of 2 users | debounce, pruning and release of contexts |
| `inline_newer` | 3 queries of 1 user | **violation**, see below |
| `aggregator` | 2 callers, 2 keys, one of them English | cancellation, single fetch, every search returns, the refinement |
| `ranking` | any part of 4 images and 4 videos of core, 2 and 3 of discovery, 2 of the fallback; image, video and mixed searches; 4 configurations | nothing lost or doubled, quotas in every prefix, lanes kept but for exact videos |
| `ranking_lanes` | the same | **violation**, see below |
| `download` | 1 card, 1 tap at a time, 1 retry, 1 stop or crash, posts counted to 2; some hundred plans | unbound tokens, notices, retries, failures told |
| `download_paths` | the same with plans whose local file is spelled in seven ways | **violation**, see below |
| `panels` | 3 viewers of one key, a TTL of 4, queries of 2 and 11 ticks; grids of 1, 2, 3 or 5 results in pages of 2, 2 tappers | statistics never go back and are renewed; grids tell the truth |

Why the bounds are enough. Two workers are what it takes to hold and to steal a
lease, or to be predecessor and successor; jobs share no state, so one is
enough; two operations are the least with an order and a partial delivery, one
of each source kind. One late request at a time is what a liveness check can
afford; it meets any number of newer requests that are answered in time, and the
theorems hold for any number of late ones. In the
poll loop four updates are two batches, each larger than the semaphore. Two
callers are a leader and one who waits, or who missed the cache but joins only
after the flight has landed; two keys keep flights apart, and only one of them
has a fallback. Three inline queries are one whose entry is being
pruned, its successor and the one that must be able to cancel the successor. Two
handlers are every pair of racing callbacks,
and each handler goes on with new updates for ever.

In `ranking` the constants of the first page are scaled so that a catalogue that
small has results beyond it: `FirstPage` 4 for 10, `WeakBelow` 3 for 10,
`MinRelevant` 2 for 3, `DegradedBelow` 4 for 20. The catalogue has three strong
videos of one host, copies of a result across pools and languages, ties, weak
discovery results and unusable links; a mixed search is short of at most two of
core's eight results (`MixedLacks`). The configurations are out of range on both
sides, all discovery and none, a limit below the results, and a pool without
engines. In `download` two jobs are a notice that an older one can overtake, one
stop is enough to lose each step once, and the plans lie on both sides of every
limit of `ValidatePlan`. In `panels` the clock passes two full lives of a
snapshot, which is what it takes for a failed refresh to be followed by another;
five results in pages of two have a first, a middle and a short last page.

Each property has a mutant of a modelled operation (the `Bug...` definitions,
written before the operation they change) under which TLC finds it violated.

`CHECK_DEADLOCK FALSE` is set where the bounded inputs run out (`Inline`: every
query has ended and the bot has stopped; `Ranking`: the answer is ready;
`Download`: every notice is settled and no stop is left; `Panels`: the clock has
run out or the message is closed).

### The disagreements

`clearLanguage` drops the cached value after core's delete because, its comment
says, dropping it earlier "would let a concurrent lookup re-cache the very choice
we are removing". `language_lookups` shows that the order is not enough: on a
cold cache a lookup that read core before the delete stores its answer after the
drop, and the choice just removed is cached until the process restarts. With
nothing under way at the start of the clear, the order does what the comment
says: that is `ClearForgets`, which holds.

`docs/architecture.md` says the debouncer cancels a superseded query "so only the
latest keystroke reaches the backend". `inline_newer` shows that "latest" is the
latest to register: handlers of one user run concurrently and look the language
up first, so an older query with a slow lookup cancels a newer one and is itself
answered. What does hold is that of the queries of one user at most one is live
(`OneLive`), and that none is given up for nothing.

`applyDomainDiversity` says that spreading the hosts "must not pull a postponed
discovery item or the other media category into the first page", and that
swapping the blocked head "preserves the scheduler's pool/category sequence".
`ranking_lanes` shows that the relaxation for exact videos in between does not
keep to the head's lane: with a host at its cap an image, or a discovery result,
gives its place on the first page to a core video. The schedule itself keeps the
quotas (`QuotasMet`), which is also what `docs/search.md` describes, and these
exchanges are the only ones that move a place to another lane
(`LanesMoveForVideos`).

The host cap itself has no property of its own, because its two descriptions
cannot both be kept. A comment of the loop says the cap is relaxed "only when every
remaining result violates the cap" (`aggregate.go:424`), and `docs/search.md:79-82`
that it is relaxed when "the only alternative" is noise, or "only when needed". The
code relaxes it as soon as no result *of the head's lane* is under its cap,
whatever the other lanes still have, and on the first page for an exact video
also where a peer that matches less than half is admissible. To look further than
the lane would be what the comment of lines 400-402 forbids.

`validateSource` says that, the cache being read-only, "the local Bot API then sees
the same canonical cache path". `download_paths` shows that this depends on how
Vido writes the URI: what is validated is the path `url.Parse` finds, unescaped and
cleaned, and what is sent is the URI less a leading `file://` (`inputFile`). The two
are the same for `file://` before a clean path, as in all tests, and differ for
an escape, a dot segment, a query or another spelling of the scheme, all of which are
accepted. `AcceptedIsSent` proves that these are the only cases.

## 4. Fairness

`Delivery`: no call blocks for ever (each has a timeout), a stopped process is
started again and core recovers leases: weak fairness. A call made again and
again is answered at last, and Telegram at last says something other than 429:
strong fairness of the answers, since the code itself repeats them. Signals,
kills and lost heartbeats come finitely often, because nothing can be delivered
by a process that is always killed first. `PollLoop`: the loop and the handlers
take their steps (handlers call with timeouts), a poll repeated for ever succeeds
at last. `Aggregator`: the program's own steps and its timeout; nothing is
assumed of the backends, which may never answer. `Inline`: handlers and pruning
goroutines take their steps; core, the search and the answer have timeouts.
`Download`: the worker goes on with the notice it holds, a stopped process ends
and is started again, leases run out (weak fairness); core hands out a notice
that is open again and again, and Telegram, asked again and again, carries out
its post (strong fairness: the code repeats both without a limit). Taps and picks
owe nothing. `Panels`: a view and a refresh, once begun, go on to their end,
which their timeouts enforce; for the same reason the clock does not pass a
query's timeout.

## 5. Proofs

Each theorem holds for every value of the constants that the module's named
`ASSUME` allows, and rests on nothing else.
`Spec =>` is left out below; a safety property is proved of every state.

| module | assumes | theorem: property |
|---|---|---|
| `DeliveryProofs` | `ConstantAssumption`: the plan is not empty, the absent job and worker are none | `TypeCorrect`: `TypeOK`; `NeverDuplicated`: `NoDuplicate`; `AlwaysRecorded`: `RecordedBeforeSend`; `DeliveredWhole`: `DeliveredIsWhole`; `PlansInOrder`: `InPlanOrder`; `FailedIsFailed`: `FailureIsDefinite`; `RefsAreTrue`: `RefsTrue`; `PromiseKept`: `KeepsPromise` |
| `PollLoopProofs` | `PollAssumption`: at least one slot, batches not empty | `PollTypes`: `TypeOK`; `NoUpdateLost`: `ForgottenWasStarted`; `StartedOnce`: `OncePerProcess` |
| `InlineProofs` | `InlineAssumption`: a number of queries | `InlineTypes`: `TypeOK`; `AtMostOneLive`: `OneLive`; `AbandonedOnlyWhenSuperseded`: `OnlySupersededAbandoned` |
| `LanguageProofs` | `LanguageAssumption`: the hint is a language | `LanguageTypes`: `TypeOK`; `ClearedIsForgotten`: `ClearForgets`; `PickedStays`: `PickStays` |
| `AggregatorProofs` | `AggregatorAssumption`: the English keys are keys | `SearchTypes`: `TypeOK`; `WholeCache`: `OnlyWholeCached`; `CancelStaysPrivate`: `CancelIsPrivate`; `OneFetch`: `FetchedOnce`; `SearchPromiseKept`: `HonestSearch` |
| `DownloadProofs` | those of `Bridge`, `Intent`, `Notification`, `Download`: the bounds are numbers, the owner is a user, media are sequences | `DownloadTypes`: `TypeOK`; `UnboundIsExcused`: `UnboundNeedsExcuse`; `NoticesAreKept`: `NoticesKept`; `RetryStaysOffered`: `RetryOffered`; `AcceptedIsSent`: what is sent of an accepted plan |
| `PanelsProofs` | `GridAssumption`: a page has tiles, a grid results; `StatsAssumption`: the floor of the TTL is at least two timeouts of a query (ten seconds, and four or five, in the code) | `PanelsTypes`: `TypeOK`; `GridIsTrue`: `GridTells`; `RefreshOutlasts`: `RefreshStands` |
| `RankingProofs` | `RankingAssumption`: positive limits, integer settings, a query with words, the three category lists of `parseQuery`; `BackendAssumption`: replies are sequences of raw results with finitely many positions, and no link is both that of an image and the page of a video | `TypesKept`: `TypeOK`; `AnswerComplete`: `AnswerIsComplete`; `QuotasAreMet`: `QuotasMet`; `LanesKeptButForVideos`: `LanesMoveForVideos` |

Each module also states its inductive invariant as a theorem (`SendInvariant`,
`PromiseInvariant`, `PollInvariant`, ...): the initial states satisfy it, one
lemma per action or group of actions shows that a step keeps it, and the
properties follow from it. TLC has checked each of these invariants on the
instance of the module's run.

### Delivery

`NoDuplicate` is not inductive: a worker in front of its send, or a request on
the wire, may be about to break it. `SendInv` adds what keeps them from it.
`LeaseOK`: only a leased job has a holder and none of its operations has a
verdict, and a job that may be claimed has none in doubt. `FreshOK`: an
operation core has no record of, or that the leaseholder has still to begin, has
nothing on the wire, nothing posted and nobody in the middle of sending it.
`SenderOK`: at most one worker is between begin and acknowledgement of an
operation, and it is clean until the worker has sent. `WireOK`: what is on the
wire is the only request for its operation, and the first.

The argument. Only `Begin` makes a sender, and only of an operation that was
fresh: it was ahead of the holder of the lease, or a later holder could not be
there, since lease recovery does not give a job back with an operation in doubt.
A sender puts at most one request on the wire while clean, and is in front of
another send only after Telegram declined the first. A sender whose lease has
gone may go on, but nobody else can begin its operation any more. The lemmas
follow this: where each worker may move (`PlaceStep`), what the lease and the
stored states may do (`LeaseStep`, `StoredStep`), then one lemma per conjunct
(`FreshStep`, `SenderStep`, `WireOKStep`) and `SendInvStep` to put them together.

`DeliveredIsWhole` is not inductive either, as an
acknowledgement or a finish may be carried out long after its worker is gone.
`WholeOK` adds that everything a worker has behind it in its plan is posted, and
so is whatever a request still waiting at Core acknowledges or finishes.
`AckStep` is the heart of it: only Telegram's confirmation takes a worker to its
acknowledgement.

`PromiseInv` adds what order, verdicts and the refinement need. `OrderOK`: what a
worker, or a request still waiting at Core, has before it in its plan is
acknowledged, so that the next operation to be begun is the next one of the plan.
`PlanOK`: only a valid plan is worked on and only another is rejected, so a
rejection never ends a job that has messages. `FailOK`: a worker on the way to
reporting a failure, or its report still waiting at Core, is about an operation
that is `Doomed`: refused by Telegram, begun, with nothing of it on the wire and
nobody who will begin it again. With these each step of `Delivery` is, for each
job, a step of `DeliveryPromise` or none: a post of Telegram is the message that
is due, a finish, a failure, a rejection and a lease recovery each end the job in
the state the promise allows, and nothing else changes what the owner sees.

`RefsOK` is about the file references, which `Invalidate` takes away without
showing a lease. A worker gets there only from Telegram's refusal, so its
operation is `Doomed` (`FailOK`), and a doomed operation is never posted, by
whomever (`DoomedKept`); a new reference comes with an acknowledgement, which is
of an operation that is posted (`WholeOK`) and stays so (`PostedKept`).

### Polling, inline search, language

`PollInv`. That Telegram has forgotten only updates with a handler is kept by
the offset: as long as the loop may still poll with it, everything below has a
handler (`OffsetOK`), and so has everything before the update to dispatch
(`NextOK`). `Abandon` moves the offset past an update without a handler, but then
the loop is on its way out and the offset is not sent again. `TakenOK`: this
process has dispatched nothing at or above its offset, hence nothing twice.

The debouncer's `OneLive` follows from `LiveIsRegistered`: a query that may still
be answered is the one its user's entry names. Registration keeps it, since the
query it displaces is cancelled in the same critical section; pruning keeps it,
since a goroutine removes an entry only if it is its own and done. Likewise
`CancelledWasSuperseded` records who is to blame for a cancellation.

`LanguageInv`. `AloneOK`: while a handler clears alone the cached value keeps
every lookup from core, and nobody else writes; after core's delete there is no
claim. `ForgottenOK`: from the end of such a clear on, neither cache, core,
request nor lookup has the removed choice. `PickedOK`: with a pick cached no
lookup begins.

### Aggregator

`SearchInv`. Every pool a flight has asked has answered, returned an error or is
waited for, and every error, also that of a pool given up at the timeout, is
counted as failed (`FlightOK`); so what is added is whole or owns up to what it
misses. `CacheOK`: the flight of a key is the only one that fills its entry, and
has seen it empty, by the second look at the cache that
`Recheck` takes. No conjunct mentions who is cancelled: cancelling a caller
changes nothing of a flight.

The refinement needs nothing more. `Add` is the abstract `Remember` or nothing,
since the entry was empty and, without an error, what goes into it is whole;
`Land` answers at once all who wait for its key, and they are open and of that key;
a hit answers one. No other step is seen by a caller.

### Downloads and notifications

`CardInv`. `JobsOK`: a retry is a button that came with the notice of its job, so
by the time a job exists the notices of all earlier ones were posted; this is
what makes "newer" mean "posted later", and with `OffersOK` the newest retry
stays. `NoticesOK`: a notice is settled only after a post, and is in the worker's
hands a second time only if an acknowledgement or a post went wrong. `CardOK`:
until the card is there nothing can be tapped.

`AcceptedIsSent` is about operators alone, for any plan at all. Each type that
`ValidatePlan` lets through has its case in `sendOperation`, and the loop over a
group takes all of its items (`TakesAll`), so the message has all the files in
order. They are asked for as they were validated exactly when every local URI is
`Canonical`; captions and buttons go out but for those of a group, which are
dropped; and a `telegram_file_id` that Telegram calls bad is one that
`invalidFileIDSources` names.

### Panels

For a grid: wherever a picture is kept, rendered or shown, it is that of its page
and goes with that page's buttons (`MemoOK`, `TappersOK`, `MessageOK`); pages
join up by arithmetic, for every page size.

For the statistics: a refresh may only ever be overtaken by a first view that is
late. A first view that is under way when there is a snapshot began at most a
timeout after the one that put it (`FirstOK`) and lasts no longer than a timeout
(`ViewOK`); a refresh begins when the snapshot has expired, and because the TTL
is at least two timeouts no first view is under way by then (`RenewOK`). The
floor of the TTL is what the proof needs, and is what the configuration enforces.

### Ranking

`SearchInv` has three parts, and is inductive only as a whole.

`RankInv` is about the diversity pass: what is placed and what remains make up
the schedule, and the answer stays within its limit. One turn is an exchange of
two places of the sequence of both, of one lane or for an exact video of the
first page (`PickFacts`). `SlotsOK` therefore says of what remains, too, that it is
of the lanes its places were scheduled for, or that a video placed was
(`KeepsLane`); an exchange keeps that (`SlotsStep`), and `LanesMoveForVideos` is
the part about what is placed.

`QuotaInv` states the quotas over the schedule built so far and the set of what
the lanes still have (`Left`), and `Chosen` what one turn of the loop says of the
result it takes. `QuotaStep` shows that any schedule with the quotas, extended by
any result so chosen, has them: what the lanes have only shrinks, so whatever
excused an earlier place still does. It needs the lanes to be ranked.

`CompleteInv` says what a search has in hand. `AnswerInv`: the answers are lists
of results that some raw result of the backend becomes (`Made`), each with the
links a card needs. `LaneInv`: the lanes are ranked, and empty before they are
made. `EachOnce`, from then on: every wanted medium is in the schedule or in
`Left`, once, in one place, as a result that is `Whole`, which is `Merged` from
the set of all its copies and of core if one of them is; nothing is placed and
remaining at once. The diversity pass and the loop of the schedule move one
result at a time (`TailDistinct`, `WithoutDistinct`), and two lanes share no
medium, as a whole result's copies fix its pool and category (`OneLane`). At the
end the schedule is all of `Wanted`, so its length is the number of media
(`CountDistinct`), and the answer is that or the limit.

The work is in the one step that makes the lanes. `MergeOf` states what
`mergeDuplicates` makes of a list: each medium once, merged from the set of its
copies, whatever the order they came in; `Absorbed` what merging one pool into
another does; `Pooled` what `postprocess` has after both. `RankGroupFacts`:
ranking rearranges a list. It holds because the order of `RankGroup` is strict
and total on a list without duplicates, so the numbers of results before each are
the places of the list (`RankPlaces`). `KeepFacts` and `PrioritizeFacts` do the
rest.

These are facts about folds. The library's theorems about folds and induction
take operators as parameters, which the provers cannot instantiate, so the proofs
go a way around: `Least`, the least-number principle, from the library's theorem
on well-founded relations over a set; `Induct`, induction over a set of numbers;
`FoldExists` and `ListFoldExists`, that there is a function with the values of a
fold. By these, each fold is the last of a sequence of values, one per place of
the list (`KeepRuns`, `AbsorbRuns`, `MergeRuns`), and what such a sequence has at
its end follows by `Induct`.

### Only model-checked

- Liveness: `EveryPlanEnds`, `EveryUpdateStarted`, `CancelledReturns`, `EntriesGo`,
  `EverySearchReturns`, `FailureIsTold`, `StaleIsRefreshed`. The prover does
  neither fairness nor ENABLED.
- The four disagreements, which are counterexamples.

## 6. Not modelled

Formatting, menus, translations, image composition, HTTP plumbing and the
analytics store have no control worth checking. The benchmark command is no part
of the bot. Of the configuration only the clamps that matter to a modelled
property are there. `watchDownload` shows chat actions and ends by itself; the
links of inline results are handed to Vido and never come back. A path is the
sequence of its components, and an escape stands for one component. Callback data
is that of the buttons the bot drew: a negative page, which no button has, is
not modelled. Core's database functions are modelled from
the client and its integration test.

A few things are left open because nothing in the repository decides them: a
notification of unknown delivery without a retry context is refused on every
claim, for ever (`FailureIsTold` leaves it out); a failed query replaces a
snapshot by zeros until it expires; a media group may have a caption and buttons,
which are not sent; a view that read a stale snapshot may start a
refresh right after another has ended; a page counts as having more whenever
the backend sent raw results, usable or not.

## 7. Plan

All of it is done: delivery with its promise, polling, language, the aggregator
with its promise, with provider and ranking, inline search, downloads and
notifications, the panels; every invariant and every action property of the runs,
and both refinements, proved.
