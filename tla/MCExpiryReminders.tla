------------------------- MODULE MCExpiryReminders -------------------------
(* ExpiryReminders with replicas as model values.                          *)
EXTENDS ExpiryReminders, TLC

Symmetry == Permutations(Replicas)
=============================================================================
