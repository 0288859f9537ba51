----------------------------- MODULE MCWebhooks -----------------------------
(* Webhooks with loggers as model values.                                  *)
EXTENDS Webhooks, TLC

Symmetry == Permutations(Loggers)
=============================================================================
