----------------------------- MODULE MCLanguage -----------------------------
(* A small instance of Language for TLC.  The handlers are interchangeable, *)
(* and so are the languages other than the hint.                            *)
EXTENDS Language, TLC

CONSTANTS h1, h2, en, de, ja

Symmetry == Permutations(Handlers) \cup Permutations(Langs \ {Hint})
=============================================================================
