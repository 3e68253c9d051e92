----------------------------- MODULE MCRanking ------------------------------
(* Small instances of Ranking for TLC: a backend with a catalogue of a few *)
(* results, any of which it may return.                                    *)
EXTENDS Ranking

Fox == <<"red", "fox">>
Half == <<"red", "car">>
Noise == <<"car">>

Https(name, host) == [name |-> name, host |-> host, form |-> "https"]

Video(n, host, title, score, positions) ==
  [template |-> "videos.html", url |-> Https(n, host), iframeSrc |-> NoURL,
   imgSrc |-> NoURL, thumbnailSrc |-> NoURL, thumbnail |-> Https(100 + n, host),
   engines |-> <<"youtube">>, engine |-> "youtube", title |-> title,
   score |-> score, positions |-> positions, size |-> "unknown"]

Image(n, host, title, score, positions) ==
  [template |-> "images.html", url |-> Https(200 + n, host), iframeSrc |-> NoURL,
   imgSrc |-> Https(n, host), thumbnailSrc |-> Https(100 + n, "thumbs.example"),
   thumbnail |-> NoURL, engines |-> <<>>, engine |-> "bing images", title |-> title,
   score |-> score, positions |-> positions, size |-> "medium"]

\* Three strong videos of one host, a strong one and a half match elsewhere.
CoreVideos ==
  {Video(1, "tube", Fox, 4, {1}), Video(2, "tube", Fox, 2, {2}),
   Video(3, "tube", Fox, 0, {}), Video(4, "other", Half, 0, {})}

\* The last one has no usable link.
CoreImages ==
  {Image(11, "pics", Fox, 4, {1}), Image(12, "pics", Noise, 2, {}),
   [Image(13, "cdn", Half, 4, {3}) EXCEPT !.size = "large"],
   [Image(14, "cdn", Fox, 4, {3}) EXCEPT !.imgSrc.form = "http", !.thumbnailSrc = NoURL]}

\* Another engine's copy of video 1, over http from a host that serves https.
DiscoveryVideos ==
  {[Video(1, "tube", Fox, 2, {3}) EXCEPT !.url.form = "//", !.engines = <<"peertube">>,
                                         !.size = "large"],
   [Video(5, "bili", Fox, 2, {1}) EXCEPT !.url.form = "http", !.engines = <<"bilibili">>],
   [Video(6, "bili", Half, 4, {2}) EXCEPT !.url.form = "http", !.engines = <<"bilibili">>]}

DiscoveryImages ==
  {[Image(15, "giphy", Half, 2, {1}) EXCEPT !.engine = "flickr", !.thumbnailSrc.form = "http"],
   Image(16, "meme", Noise, 2, {2})}

\* The order of the backend's reply: by score, then in the order of the names.
Name(raw) == IF raw.template = "videos.html" THEN raw.url.name ELSE raw.imgSrc.name
Before(r, s) == r.score > s.score \/ (r.score = s.score /\ Name(r) < Name(s))
InOrder(raws) ==
  [i \in 1..Cardinality(raws) |->
     CHOOSE r \in raws : Cardinality({s \in raws : Before(s, r)}) = i - 1]

\* What English adds: a copy of video 2 from another engine, and a video.
FallbackVideos ==
  {[Video(2, "tube", Fox, 4, {1}) EXCEPT !.engines = <<"dailymotion", "youtube">>],
   Video(7, "other", Fox, 2, {2})}

Catalogue(pool, cat) ==
  CASE pool = "core" /\ cat = "image" -> CoreImages
    [] pool = "core" /\ cat = "video" -> CoreVideos
    [] pool = "fallback" /\ cat = "image" -> {}
    [] pool = "fallback" /\ cat = "video" -> FallbackVideos
    [] pool = "discovery" /\ cat = "image" -> DiscoveryImages
    [] pool = "discovery" /\ cat = "video" -> DiscoveryVideos

Error == [ok |-> FALSE, raw |-> <<>>, unresponsive |-> FALSE]
Reply(raws) == [ok |-> TRUE, raw |-> InOrder(raws), unresponsive |-> Cardinality(raws) = 3]

\* Any part of the catalogue; for a mixed search, which has most of them, any
\* part that lacks at most MixedLacks of core's results.
MixedLacks == 2
SomeReplies ==
  [pool \in {"core", "discovery", "fallback"} |-> [list \in Lists |->
     LET all == UNION {Catalogue(pool, cat) : cat \in ToSet(list)}
         enough == IF pool = "core" /\ Len(list) = 2 THEN Cardinality(all) - MixedLacks ELSE 0
     IN  {Error} \cup {Reply(raws) : raws \in {r \in SUBSET all : Cardinality(r) >= enough}}]]

AllEngines == [pool \in Pools |-> [cat \in Categories |-> {pool}]]
NoDiscoveryVideos == [AllEngines EXCEPT !["discovery"]["video"] = {}]

SomeEnvironments ==
  {[maxResults |-> 60, percent |-> -1, weakPercent |-> 101, engines |-> AllEngines],
   [maxResults |-> 5, percent |-> 100, weakPercent |-> 50, engines |-> NoDiscoveryVideos],
   [maxResults |-> 0, percent |-> 0, weakPercent |-> 0, engines |-> AllEngines],
   [maxResults |-> 50, percent |-> 0, weakPercent |-> 0, engines |-> AllEngines]}
=============================================================================
