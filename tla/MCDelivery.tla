----------------------------- MODULE MCDelivery -----------------------------
(* A small instance of Delivery for TLC.                                   *)
EXTENDS Delivery

CONSTANTS w1, w2

TwoWorkers == {w1, w2}
=============================================================================
