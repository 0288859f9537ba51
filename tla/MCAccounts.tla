----------------------------- MODULE MCAccounts -----------------------------
(* Accounts with workers, owners and links as model values.                *)
EXTENDS Accounts, TLC

Symmetry == Permutations(Workers) \cup Permutations(Owners) \cup Permutations(Links)
=============================================================================
