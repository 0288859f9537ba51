------------------------------ MODULE MCTokens ------------------------------
(* Tokens with workers and links as model values.                          *)
EXTENDS Tokens, TLC

Symmetry == Permutations(Workers) \cup Permutations(Links)
=============================================================================
