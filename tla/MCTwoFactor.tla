---------------------------- MODULE MCTwoFactor ----------------------------
(* TwoFactor with workers, tokens and challenges as model values.          *)
EXTENDS TwoFactor, TLC

Symmetry == Permutations(Workers) \cup Permutations(Tokens)
            \cup Permutations(Challenges)
=============================================================================
