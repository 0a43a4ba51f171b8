------------------------------ MODULE MCAuditLog ------------------------------
(***************************************************************************)
(* Small logs for TLC: handlers and residents are interchangeable.         *)
(***************************************************************************)
EXTENDS AuditLog, TLC

Interchangeable == Permutations(Writer) \cup Permutations(Subject)

=============================================================================
