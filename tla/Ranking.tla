------------------------------ MODULE Ranking -------------------------------
(***************************************************************************)
(* What a search makes of its pools' answers (aggregate.go): it merges the *)
(* copies of one result, weighs each category, asks in English when one is *)
(* weak, ranks each pool's results of each category in a lane, schedules   *)
(* the lanes and spreads the hosts.  One iteration of each loop is a step, *)
(* so that the quotas can be read off every prefix.                        *)
(*                                                                         *)
(* Shares, coverage and quality are percentages; a rank score counts in    *)
(* millionths.  The categories of a search are distinct, as parseQuery's   *)
(* are.  Which replies a backend gives is a CONSTANT.                      *)
(***************************************************************************)
EXTENDS Provider, Config, FiniteSetsExt

CONSTANTS
  Query,         \* the words of the query
  Environments,  \* the environments Load may read
  Replies,       \* Replies[request][list]: the replies to "core", "discovery" and, in English,
                 \* "fallback" that the backend may give for a list of categories
  CategoryLists, \* the lists of categories a query may ask for: one or both
  FirstPage,     \* 10 in the code
  WeakBelow,     \* 10: a category with fewer results is weak
  MinRelevant,   \* 3: so is one with fewer relevant titles in its top
  DegradedBelow  \* 20: or, when an engine is unresponsive, fewer results

Categories == {"image", "video"}
Pools == {"core", "discovery"}
Lists == {<<"image">>, <<"video">>, <<"image", "video">>}

ASSUME RankingAssumption ==
  /\ {FirstPage, WeakBelow, MinRelevant, DegradedBelow} \subseteq Nat \ {0}
  /\ Query # <<>> /\ Query \in Seq(ToSet(Query))
  /\ CategoryLists \subseteq Lists
  /\ \A env \in Environments : {env.maxResults, env.percent, env.weakPercent} \subseteq Int

\* All the backend may ever return.
AllReplies == UNION {Replies[request][list] : request \in Pools \cup {"fallback"}, list \in Lists}
Raws == UNION {ToSet(reply.raw) : reply \in AllReplies}

\* Results with one ID are of one kind: no link is that of an image and the page
\* of a video.
ASSUME BackendAssumption ==
  /\ \A reply \in AllReplies : reply.raw \in Seq(ToSet(reply.raw))
  /\ \A raw \in Raws : RawOK(raw)
  /\ \A r, s \in Raws :
       LET m == Normalize(r, "core", 0)
           n == Normalize(s, "core", 0)
       IN  Unusable \notin {m, n} /\ m.id = n.id => m.category = n.category

VARIABLES
  pc,        \* the phase of search
  settings,  \* what Load and NewAggregator made of the environment
  cats,      \* the categories asked for
  english,   \* the search's language is English
  answer,    \* the response of each pool, the fallback's added to core's
  failed,    \* some scheduled request failed: the entry is not cached
  weak,      \* the weak categories
  lane,      \* lane[pool][category]: ranked, not scheduled yet
  scheduled, \* the out of scheduleResults
  remaining, \* scheduled, not placed yet
  out        \* the out of applyDomainDiversity

vars == <<pc, settings, cats, english, answer, failed, weak, lane, scheduled,
          remaining, out>>

-----------------------------------------------------------------------------
(* What a result is worth                                                  *)

\* titleCoverage: the query's words in the title, and its pairs of words.
Occurs(words, title) ==
  \E i \in 1..(Len(title) - Len(words) + 1) :
    SubSeq(title, i, i + Len(words) - 1) = words

TitleCoverage(title) ==
  LET matched == Cardinality(ToSet(Query) \cap ToSet(title))
      pairs == Cardinality({i \in 1..(Len(Query) - 1) : Occurs(<<Query[i], Query[i + 1]>>, title)})
      percent == (100 * matched) \div Len(Query)
                 + (IF Len(Query) > 1 THEN (25 * pairs) \div (Len(Query) - 1) ELSE 0)
  IN  IF Occurs(Query, title) THEN 100 ELSE Min({percent, 100})

Coverage(r) == TitleCoverage(r.title)

MediaQuality(r) ==
  CASE r.size = "unknown" /\ r.category = "video" -> 60
    [] r.size = "unknown" /\ r.category = "image" -> 50
    [] r.size = "large" -> 100
    [] r.size = "medium" -> 75
    [] r.size = "small" -> 25

ResultHost(r) == FirstOf(r.page, FirstOf(r.media, r.thumb)).host

DiscoveryThreshold(cat) == IF cat = "video" THEN 75 ELSE 25
Strong(r) == Coverage(r) >= DiscoveryThreshold(r.category)

-----------------------------------------------------------------------------
(* Merging the copies of a result                                          *)

\* MUTANT of MergeMedia: the better copy replaces the other.
BugMergeMedia(dst, src) == IF src.score > dst.score THEN src ELSE dst

MergeMedia(dst, src) ==
  LET best == IF MediaQuality(src) > MediaQuality(dst) THEN src ELSE dst
  IN  [dst EXCEPT !.engines = @ \cup src.engines, !.positions = @ \cup src.positions,
                  !.score = Larger(@, src.score), !.order = Min({@, src.order}),
                  !.media = best.media, !.thumb = best.thumb, !.page = best.page,
                  !.size = best.size]

\* The results of into, each merged with those of from of the same ID.
Absorb(into, from) ==
  FoldLeft(LAMBDA acc, r : [i \in DOMAIN acc |->
             IF acc[i].id = r.id THEN MergeMedia(acc[i], r) ELSE acc[i]], into, from)

MergeDuplicates(in) ==
  FoldLeft(LAMBDA acc, r : IF \E i \in DOMAIN acc : acc[i].id = r.id
                           THEN Absorb(acc, <<r>>) ELSE Append(acc, r), <<>>, in)

FilterCategory(in, cat) == Keep(in, {r \in ToSet(in) : r.category = cat})

-----------------------------------------------------------------------------
(* Ranking the results of one pool and one category                        *)

\* rrfK = 60
ReciprocalRank(positions) ==
  MapThenSumSet(LAMBDA p : 1000000 \div (60 + p), {p \in positions : p > 0})

Normalized(value, maximum) ==
  IF maximum <= 0 \/ value <= 0 THEN 0 ELSE (10000 * value) \div maximum

RankScore(r, maxScore, maxRRF) ==
  LET backend == Larger(Normalized(r.score, maxScore),
                        Normalized(ReciprocalRank(r.positions), maxRRF))
  IN  55 * backend + 25 * 100 * Coverage(r)
      + 5 * 10000 * Min({Cardinality(r.engines), 3}) + 5 * 100 * MediaQuality(r)

\* The rank score decides, then the place in the reply, then the ID.
RankGroup(in) ==
  LET maxScore == Max({0} \cup {r.score : r \in ToSet(in)})
      maxRRF   == Max({0} \cup {ReciprocalRank(r.positions) : r \in ToSet(in)})
      Score(r) == RankScore(r, maxScore, maxRRF)
      Before(r, s) ==
        \/ Score(r) > Score(s)
        \/ /\ Score(r) = Score(s)
           /\ \/ r.order < s.order
              \/ r.order = s.order /\ r.id < s.id
      Earlier(i) == {j \in DOMAIN in : Before(in[j], in[i])}
      places == {<<1 + Cardinality(Earlier(i)), in[i]>> : i \in DOMAIN in}
  IN  [n \in DOMAIN in |-> (CHOOSE p \in places : p[1] = n)[2]]

WeakCategory(ranked, degraded) ==
  LET top == SubSeq(ranked, 1, Min({WeakBelow, Len(ranked)}))
      Of(h) == Cardinality({i \in DOMAIN top : ResultHost(top[i]) = h})
  IN  \/ Len(ranked) < WeakBelow
      \/ Cardinality({i \in DOMAIN top : Coverage(top[i]) >= 50}) < MinRelevant
      \/ \E h \in {ResultHost(r) : r \in ToSet(top)} \ {""} : 10 * Of(h) > 6 * Len(top)
      \/ degraded /\ Len(ranked) < DegradedBelow

PrioritizeDiscovery(in) ==
  LET strong == {r \in ToSet(in) : Strong(r)}
  IN  Keep(in, strong) \o Keep(in, ToSet(in) \ strong)

-----------------------------------------------------------------------------
(* search: the pools' answers                                              *)

Ask(pool, categories, reply) == SearchPool(settings.engines, pool, categories, reply)

\* Both primary pools have answered: the search ends here if both failed.
Weigh ==
  /\ pc = "ask"
  /\ \E c \in Replies["core"][cats], d \in Replies["discovery"][cats] :
       LET core == Ask("core", cats, c)
           discovery == Ask("discovery", cats, d)
           unique == MergeDuplicates(core.results)
       IN  /\ answer' = [core |-> core, discovery |-> discovery]
           /\ failed' = (~core.ok \/ ~discovery.ok)
           /\ IF ~core.ok /\ ~discovery.ok
              THEN weak' = {} /\ pc' = "done"
              ELSE /\ weak' = {cat \in ToSet(cats) :
                        WeakCategory(RankGroup(FilterCategory(unique, cat)), core.degraded)}
                   /\ pc' = IF english \/ weak' = {} THEN "merge" ELSE "fallback"
  /\ UNCHANGED <<settings, cats, english, lane, scheduled, remaining, out>>

\* The core pool is asked in English for the weak categories.
Fallback ==
  /\ pc = "fallback"
  /\ LET weakCats == Keep(cats, weak)
     IN  \E reply \in Replies["fallback"][weakCats] :
           LET more == Ask("core", weakCats, reply)
           IN  /\ answer' = [answer EXCEPT !.core =
                    [ok       |-> @.ok,
                     results  |-> @.results \o more.results,
                     hasMore  |-> @.hasMore \/ more.hasMore,
                     degraded |-> @.degraded \/ more.degraded]]
               /\ failed' = (failed \/ ~more.ok)
  /\ pc' = "merge"
  /\ UNCHANGED <<settings, cats, english, weak, lane, scheduled, remaining, out>>

\* A result both pools have is core's, with what discovery knows of it.
Postprocess ==
  /\ pc = "merge"
  /\ LET first == MergeDuplicates(answer.core.results)
         second == MergeDuplicates(answer.discovery.results)
         core == Absorb(first, second)
         discovery == Keep(second, {r \in ToSet(second) : \A i \in DOMAIN core : core[i].id # r.id})
     IN  lane' = [pool \in Pools |-> [cat \in Categories |->
                    IF cat \notin ToSet(cats) THEN <<>>
                    ELSE IF pool = "core" THEN RankGroup(FilterCategory(core, cat))
                    ELSE PrioritizeDiscovery(RankGroup(FilterCategory(discovery, cat)))]]
  /\ pc' = "schedule"
  /\ UNCHANGED <<settings, cats, english, answer, failed, weak, scheduled, remaining, out>>

-----------------------------------------------------------------------------
(* scheduleResults.  Its counters are read off what it has scheduled.      *)

Available(cat) == lane["core"][cat] # <<>> \/ lane["discovery"][cat] # <<>>

CategoryUsed(s, cat) == Cardinality({i \in DOMAIN s : s[i].category = cat})
DiscoveryUsed(s) == Cardinality({i \in DOMAIN s : s[i].pool = "discovery"})

Share(cat) == IF cat \in weak THEN settings.weakPercent ELSE settings.percent

\* The second category is due when it has less than half of the next prefix.
NextCategory ==
  LET due == IF Len(cats) > 1 /\ CategoryUsed(scheduled, cats[2]) < (Len(scheduled) + 1) \div 2
             THEN cats[2] ELSE cats[1]
  IN  IF Available(due) THEN due ELSE CHOOSE cat \in ToSet(cats) : Available(cat)

\* How many discovery results the categories used in s are due.
TargetDiscovery(s) ==
  (CategoryUsed(s, "image") * Share("image") + CategoryUsed(s, "video") * Share("video")) \div 100

\* MUTANT of TakesDiscovery: the target is off by one.
BugTakesDiscovery(cat) ==
  \/ lane["core"][cat] = <<>>
  \/ /\ lane["discovery"][cat] # <<>>
     /\ DiscoveryUsed(scheduled) <= TargetDiscovery(Append(scheduled, Head(lane["core"][cat])))
     /\ Len(scheduled) < FirstPage => Strong(Head(lane["discovery"][cat]))

TakesDiscovery(cat) ==
  \/ lane["core"][cat] = <<>>
  \/ /\ lane["discovery"][cat] # <<>>
     /\ DiscoveryUsed(scheduled) < TargetDiscovery(Append(scheduled, Head(lane["core"][cat])))
     /\ Len(scheduled) < FirstPage => Strong(Head(lane["discovery"][cat]))

Schedule ==
  /\ pc = "schedule"
  /\ \E cat \in ToSet(cats) : Available(cat)
  /\ LET cat  == NextCategory
         pool == IF TakesDiscovery(cat) THEN "discovery" ELSE "core"
     IN  /\ scheduled' = Append(scheduled, Head(lane[pool][cat]))
         /\ lane' = [lane EXCEPT ![pool][cat] = Tail(@)]
  /\ UNCHANGED <<pc, settings, cats, english, answer, failed, weak, remaining, out>>

Scheduled ==
  /\ pc = "schedule"
  /\ ~\E cat \in ToSet(cats) : Available(cat)
  /\ remaining' = scheduled
  /\ pc' = "diversify"
  /\ UNCHANGED <<settings, cats, english, answer, failed, weak, lane, scheduled, out>>

-----------------------------------------------------------------------------
(* applyDomainDiversity                                                    *)

HostLimit(position) ==
  IF position > FirstPage THEN Larger(2, (4 * position) \div 10) ELSE 2

\* The host of r may take one more place after those of the sequence placed.
Admissible(r, placed) ==
  LET h == ResultHost(r)
  IN  h = "" \/ Cardinality({i \in DOMAIN placed : ResultHost(placed[i]) = h})
                < HostLimit(Len(placed) + 1)

SameLane(r, s) == r.pool = s.pool /\ r.category = s.category

ExactVideo(r) == r.category = "video" /\ Coverage(r) >= 75

\* MUTANT of Peer: a result of any lane will do.
BugPeer == SelectInSeq(remaining, LAMBDA r : Admissible(r, out))
\* The place in remaining of the result to put next; 0 stands for none.
Peer == SelectInSeq(remaining, LAMBDA r : SameLane(r, remaining[1]) /\ Admissible(r, out))

Pick ==
  LET video == SelectInSeq(remaining, ExactVideo)
      relax == /\ Len(out) + 1 <= FirstPage
               /\ Peer = 0 \/ Coverage(remaining[Peer]) < 50
      pick  == IF relax /\ video # 0 THEN video ELSE Peer
  IN  IF pick = 0 THEN 1 ELSE pick

\* MUTANT of Without: the head is dropped instead of the result that was put.
BugWithout(seq, i) == Tail(seq)

\* The head moves into the place of the result that was put before it.
Without(seq, i) == Tail(ReplaceAt(seq, i, seq[1]))

Diversify ==
  /\ pc = "diversify"
  /\ remaining # <<>> /\ Len(out) < settings.maxResults
  /\ out' = Append(out, remaining[Pick])
  /\ remaining' = Without(remaining, Pick)
  /\ UNCHANGED <<pc, settings, cats, english, answer, failed, weak, lane, scheduled>>

Return ==
  /\ pc = "diversify"
  /\ remaining = <<>> \/ Len(out) = settings.maxResults
  /\ pc' = "done"
  /\ UNCHANGED <<settings, cats, english, answer, failed, weak, lane, scheduled, remaining, out>>

-----------------------------------------------------------------------------
Init ==
  /\ pc = "ask"
  /\ settings \in {Load(env) : env \in Environments}
  /\ cats \in CategoryLists
  /\ english \in BOOLEAN
  /\ answer = [pool \in Pools |-> Failure]
  /\ failed = FALSE
  /\ weak = {}
  /\ lane = [pool \in Pools |-> [cat \in Categories |-> <<>>]]
  /\ scheduled = <<>> /\ remaining = <<>> /\ out = <<>>

Next ==
  \/ Weigh \/ Fallback \/ Postprocess
  \/ Schedule \/ Scheduled
  \/ Diversify \/ Return

Spec == Init /\ [][Next]_vars

-----------------------------------------------------------------------------
Media == UNION {ToSet(answer[pool].results) : pool \in Pools}
Copies(id) == {m \in Media : m.id = id}

\* A lane has results of its pool and category, in a discovery lane the strong
\* ones first.
LanesRanked ==
  \A pool \in Pools, cat \in Categories :
    LET ranked == lane[pool][cat]
    IN  /\ ranked \in Seq(ToSet(ranked))
        /\ \A r \in ToSet(ranked) : r.pool = pool /\ r.category = cat /\ r.id \in Nat
        /\ pool = "discovery" =>
             \A i, j \in DOMAIN ranked : i < j /\ Strong(ranked[j]) => Strong(ranked[i])

\* Every variable stays in its type; an answer never exceeds its limit.
TypeOK ==
  /\ pc \in {"ask", "fallback", "merge", "schedule", "diversify", "done"}
  /\ settings.maxResults \in 1..50
  /\ 0 <= settings.percent /\ settings.percent <= settings.weakPercent
  /\ settings.weakPercent <= 100
  /\ weak \subseteq ToSet(cats)
  /\ LanesRanked
  /\ Len(out) <= settings.maxResults

\* The answer has as many of the usable results of the wanted categories as
\* fit, each once and each with what a card needs to show and send it.
NothingLost ==
  LET wanted == {m.id : m \in {n \in Media : n.category \in ToSet(cats)}}
  IN  /\ Len(out) = Min({settings.maxResults, Cardinality(wanted)})
      /\ \A i, j \in DOMAIN out : out[i].id = out[j].id => i = j
      /\ \A r \in ToSet(out) :
           /\ r.id \in wanted
           /\ r.thumb.form = "https"
           /\ (IF r.category = "video" THEN r.page ELSE r.media).form = "https"

\* A result several engines, pools or languages returned counts for all of
\* them, wherever its copies were merged, and is core's if core has it.
ConsensusKept ==
  \A r \in ToSet(scheduled) :
    /\ r.engines = UNION {m.engines : m \in Copies(r.id)}
    /\ r.positions = UNION {m.positions : m \in Copies(r.id)}
    /\ \A m \in Copies(r.id) : r.score >= m.score /\ r.order <= m.order
    /\ r.pool = "core" <=> \E m \in Copies(r.id) : m.pool = "core"

\* Through merging, lanes, scheduling and the exchanges of the diversity pass
\* no result is lost, doubled or made up, and no copy's evidence either.
AnswerIsComplete == pc = "done" => NothingLost /\ ConsensusKept

Later(seq, n) == ToSet(SubSeq(seq, n + 1, Len(seq)))

\* "Mixed search keeps a 50/50 image/video balance while results exist in both
\* categories": in every prefix of the schedule, off by one or exhausted.
Balanced(n, prefix, later) ==
  Len(cats) = 2 =>
    /\ CategoryUsed(prefix, cats[2]) < n \div 2 => \A r \in later : r.category # cats[2]
    /\ CategoryUsed(prefix, cats[2]) > n \div 2 => \A r \in later : r.category # cats[1]

\* The discovery target is exceeded only once a category has no core result
\* left, and missed only for want of a (strong, on the first page) discovery
\* result; a weak one is on the first page only where core has run out.
DiscoveryOnTarget(n, prefix, later) ==
  LET last == prefix[n]
      CoreLeft(cat, i) == \E r \in Later(scheduled, i) : r.pool = "core" /\ r.category = cat
  IN  /\ DiscoveryUsed(prefix) > TargetDiscovery(prefix) =>
           \E i \in 1..n : prefix[i].pool = "discovery" /\ ~CoreLeft(prefix[i].category, i)
      /\ last.pool = "core" /\ DiscoveryUsed(prefix) < TargetDiscovery(prefix) =>
           \A r \in later : r.pool = "discovery" /\ r.category = last.category =>
             n <= FirstPage /\ ~Strong(r)
      /\ last.pool = "discovery" /\ ~Strong(last) /\ n <= FirstPage =>
           ~CoreLeft(last.category, n)

\* What scheduleResults promises, stated over the finished schedule and not
\* over the loop's counters.
QuotasMet ==
  pc = "done" =>
    \A n \in DOMAIN scheduled :
      LET prefix == SubSeq(scheduled, 1, n)
      IN  /\ Balanced(n, prefix, Later(scheduled, n))
          /\ DiscoveryOnTarget(n, prefix, Later(scheduled, n))

\* The scheduler's sequence of lanes is kept wherever no exact video interferes:
\* a place of another lane than was scheduled has an exact video that the first
\* page let through, or has lost to one the result that was due ("This preserves
\* the scheduler's pool/category sequence", applyDomainDiversity).
LanesMoveForVideos ==
  \A i \in DOMAIN out : ~SameLane(out[i], scheduled[i]) =>
    \E n \in 1..i : /\ n <= FirstPage /\ ExactVideo(out[n])
                    /\ n = i \/ SameLane(out[n], scheduled[i])

\* "Host diversity may reorder peers, but must not pull a postponed discovery
\* item or the other media category into the first page" (applyDomainDiversity).
\* It does: relaxing the cap takes the first exact video of any lane.
LanesKept ==
  \A i \in DOMAIN out : i <= FirstPage => SameLane(out[i], scheduled[i])
=============================================================================
