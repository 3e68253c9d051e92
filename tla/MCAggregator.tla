---------------------------- MODULE MCAggregator ----------------------------
(* A small instance of Aggregator for TLC; en is English.                   *)
EXTENDS Aggregator

CONSTANTS c1, c2, de, en
=============================================================================
