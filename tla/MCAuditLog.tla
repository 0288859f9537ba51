----------------------------- MODULE MCAuditLog -----------------------------
(* AuditLog with writers as model values.                                  *)
EXTENDS AuditLog, TLC

Symmetry == Permutations(Writers)
=============================================================================
