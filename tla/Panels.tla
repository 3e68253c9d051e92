------------------------------- MODULE Panels -------------------------------
(***************************************************************************)
(* The two kinds of message whose buttons onCallback serves from memory:   *)
(* the statistics panel and the grid of results.  They share no state, so  *)
(* a behaviour exercises one of them.                                      *)
(***************************************************************************)
EXTENDS StatsCache, Grid

VARIABLE kind  \* which of them

vars == <<statsVars, gridVars, kind>>

TypeOK == StatsTypeOK /\ GridTypeOK /\ kind \in {"stats", "grid"}

\* A behaviour of the statistics leaves the grid alone: any one will do.
Init ==
  /\ StatsInit /\ GridInit
  /\ kind \in {"stats", "grid"}
  /\ kind = "stats" => \A n \in Totals : total <= n

Next ==
  \/ kind = "stats" /\ StatsNext /\ UNCHANGED <<gridVars, kind>>
  \/ kind = "grid" /\ GridNext /\ UNCHANGED <<statsVars, kind>>

Spec == Init /\ [][Next]_vars

\* A query returns, or its context's timeout makes it.
Fairness ==
  /\ \A v \in Viewers : WF_vars(kind = "stats" /\ Viewing(v) /\ UNCHANGED <<gridVars, kind>>)
  /\ \A k \in StatsKeys : WF_vars(kind = "stats" /\ Refreshing(k) /\ UNCHANGED <<gridVars, kind>>)

FairSpec == Spec /\ Fairness

-----------------------------------------------------------------------------
\* What a background refresh stored is never replaced by older statistics, by
\* a slow first view that began before it in particular: the floor config.Load
\* puts under the TTL outlasts any query.
RefreshStands ==
  [][\A k \in StatsKeys : snaps[k].by = "refresh" /\ snaps'[k] # snaps[k] =>
       snaps'[k].data = Empty \/ snaps'[k].data >= snaps[k].data]_vars

\* A stale snapshot someone has looked at is renewed, by their refresh or by
\* the one under way, whatever became of earlier ones.
StaleIsRefreshed ==
  \A k \in StatsKeys :
    (\E v \in Viewers : viewer[v].pc = "stale" /\ viewer[v].key = k)
      ~> clock <= snaps[k].expiresAt

\* A tap on a number sends the result of the tile with that number, even if
\* the message shows another page by the time the tap is handled.
PickIsWhatWasSeen == \A p \in picks : p[1] = p[2]

\* The pictures number all results without a gap: a page that does not end
\* with the last one offers the page that goes on, and one that does not begin
\* with the first the page before; every tile has its button.
PagesJoin ==
  message.shown =>
    LET picture == message.picture
        Offered(n) == \E p \in message.keyboard.nav : n \in {Picture(p)[i] : i \in 1..PageLen(p)}
    IN  /\ picture # <<>> /\ Len(message.keyboard.items) = Len(picture)
        /\ picture[Len(picture)] < total => Offered(picture[Len(picture)] + 1)
        /\ picture[1] > 1 => Offered(picture[1] - 1)

\* Both, with edits of the same message by several handlers landing in any
\* order.
GridTells == PickIsWhatWasSeen /\ PagesJoin
=============================================================================
