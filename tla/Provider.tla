------------------------------ MODULE Provider ------------------------------
(***************************************************************************)
(* The SearXNG client of internal/search/searxng: which engines a pool's   *)
(* request names, and what it makes of the raw results that come back.     *)
(*                                                                         *)
(* A URL is a record [name, host, form]: name stands for the text after    *)
(* the scheme (and, hashed, for a result's ID, which is ordered by it),    *)
(* form for how it is written.  A title is the sequence of its words.      *)
(***************************************************************************)
EXTENDS Integers, SequencesExt

CONSTANTS
  TrustedOrigin,     \* the engines whose original image Telegram may fetch
  HttpsUpgradeHosts  \* the hosts known to serve https where they announce http

\* What seq has of S, in its order.
Keep(seq, S) ==
  FoldLeft(LAMBDA acc, x : IF x \in S THEN Append(acc, x) ELSE acc, <<>>, seq)

NoURL == [name |-> 0, host |-> "", form |-> "absent"]

NormalizeHTTPS(u) ==
  IF \/ u.form \in {"https", "//"}
     \/ u.form = "http" /\ u.host \in HttpsUpgradeHosts
  THEN [u EXCEPT !.form = "https"]
  ELSE NoURL

FirstValidURL(urls) ==
  LET i == SelectInSeq(urls, LAMBDA u : NormalizeHTTPS(u) # NoURL)
  IN  IF i = 0 THEN NoURL ELSE NormalizeHTTPS(urls[i])

FirstOf(u, v) == IF u = NoURL THEN v ELSE u

\* engine is "" when the answer names none.
EnginesOf(raw) == IF raw.engines # <<>> THEN ToSet(raw.engines)
                  ELSE {raw.engine} \ {""}
EngineOf(raw) == IF raw.engines # <<>> THEN raw.engines[1] ELSE raw.engine

\* What Normalize returns for a result it drops.
Unusable == [id |-> 0]

\* A result, but for the fields that depend on the kind of the medium.
Medium(raw, pool, order, category, id, media, thumb, page) ==
  [id |-> id, category |-> category, pool |-> pool, order |-> order,
   media |-> media, thumb |-> thumb, page |-> page, title |-> raw.title,
   engines |-> EnginesOf(raw) , positions |-> raw.positions,
   score |-> raw.score, size |-> raw.size]

NormalizeImage(raw, pool, order) ==
  LET origin == FirstValidURL(<<raw.imgSrc>>)
      thumb  == FirstValidURL(<<raw.thumbnailSrc, raw.thumbnail, origin>>)
      photo  == IF EngineOf(raw) \in TrustedOrigin THEN FirstOf(origin, thumb)
                ELSE FirstOf(thumb, origin)
  IN  IF photo = NoURL THEN Unusable
      ELSE Medium(raw, pool, order, "image", FirstOf(origin, photo).name,
                  photo, FirstOf(thumb, photo), FirstValidURL(<<raw.url>>))

NormalizeVideo(raw, pool, order) ==
  LET thumb == FirstValidURL(<<raw.thumbnail, raw.thumbnailSrc, raw.imgSrc>>)
      page  == FirstValidURL(<<raw.url, raw.iframeSrc>>)
  IN  IF NoURL \in {thumb, page} THEN Unusable
      ELSE Medium(raw, pool, order, "video", page.name, NoURL, thumb, page)

Normalize(raw, pool, order) ==
  CASE raw.template = "images.html" -> NormalizeImage(raw, pool, order)
    [] raw.template = "videos.html" -> NormalizeVideo(raw, pool, order)
    [] OTHER -> Unusable

\* The engines configured for a pool, for all the categories of a request.
EnginesFor(configured, pool, categories) ==
  UNION {configured[pool][c] : c \in ToSet(categories)}

\* What a reply is made of.  A link of another scheme is of the form "other".
Forms == {"https", "http", "//", "other", "absent"}
Sizes == {"unknown", "small", "medium", "large"}
Links(raw) == {raw.url, raw.iframeSrc, raw.imgSrc, raw.thumbnailSrc, raw.thumbnail}
RawOK(raw) ==
  /\ \A u \in Links(raw) : u \in [name : Nat, host : {u.host}, form : Forms]
  /\ raw.engines \in Seq(ToSet(raw.engines))
  /\ IsFiniteSet(raw.positions) /\ raw.positions \subseteq Int
  /\ raw.score \in Int /\ raw.size \in Sizes

Failure == [ok |-> FALSE, results |-> <<>>, hasMore |-> FALSE, degraded |-> FALSE]

\* Search: a pool with no engine fails before the backend is asked, and a
\* reply that is not a decodable 200 fails too.  hasMore counts raw results.
SearchPool(configured, pool, categories, reply) ==
  IF EnginesFor(configured, pool, categories) = {} \/ ~reply.ok THEN Failure
  ELSE LET results == [i \in 1..Len(reply.raw) |-> Normalize(reply.raw[i], pool, i - 1)]
       IN  [ok |-> TRUE,
            results |-> Keep(results, ToSet(results) \ {Unusable}),
            hasMore |-> reply.raw # <<>>,
            degraded |-> reply.unresponsive]
=============================================================================
