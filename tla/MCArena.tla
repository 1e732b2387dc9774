------------------------------- MODULE MCArena -------------------------------
(* TLC instance of Arena: sizes that share a word, fill a first chunk, fit *)
(* only a second one and fit none but their own.                           *)
EXTENDS Arena, TLC

Symmetry == Permutations(Ids)
=============================================================================
