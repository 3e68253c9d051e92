------------------------------ MODULE MCPanels ------------------------------
(* A small instance of Panels for TLC.                                     *)
EXTENDS Panels, TLC

CONSTANTS v1, v2, v3
=============================================================================
