-------------------------- MODULE MCGroupRequests --------------------------
(* GroupRequests with users and handlers as model values.                  *)
EXTENDS GroupRequests, TLC

Symmetry == Permutations(Users) \cup Permutations(Handlers)
=============================================================================
