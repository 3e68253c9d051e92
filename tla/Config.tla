------------------------------- MODULE Config -------------------------------
(***************************************************************************)
(* How config.Load and NewAggregator turn the environment into the limits  *)
(* of the ranking.                                                         *)
(***************************************************************************)
EXTENDS Integers

Larger(a, b) == IF a > b THEN a ELSE b

\* MUTANT of ClampMaxResults: no upper bound.
BugClampMaxResults(n) == IF n < 1 THEN 1 ELSE n
ClampMaxResults(n) == CASE n > 50 -> 50 [] n < 1 -> 1 [] OTHER -> n

ClampDiscovery(percent) == IF percent \in 0..100 THEN percent ELSE 30

\* The share of a weak category is never below that of a strong one.
ClampDiscoveryWeak(percent, weakPercent) ==
  IF weakPercent \in percent..100 THEN weakPercent ELSE Larger(50, percent)

ClampPercent(n) == CASE n < 0 -> 0 [] n > 100 -> 100 [] OTHER -> n

\* env: the values of MAX_RESULTS, DISCOVERY_PERCENT and DISCOVERY_WEAK_PERCENT
\* and the engines of each pool.
Load(env) ==
  LET percent == ClampDiscovery(env.percent)
  IN  [maxResults  |-> ClampMaxResults(env.maxResults),
       percent     |-> ClampPercent(percent),
       weakPercent |-> ClampPercent(ClampDiscoveryWeak(percent, env.weakPercent)),
       engines     |-> env.engines]
=============================================================================
