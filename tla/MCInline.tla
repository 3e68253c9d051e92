------------------------------ MODULE MCInline ------------------------------
(* A small instance of Inline for TLC.                                     *)
EXTENDS Inline
=============================================================================
