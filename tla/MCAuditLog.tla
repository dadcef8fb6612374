----------------------------- MODULE MCAuditLog -----------------------------
(* The instance of AuditLog that TLC checks. *)
EXTENDS AuditLog, TLC

\* Writers are interchangeable.
MCSymmetry == Permutations(Writers)
=============================================================================
