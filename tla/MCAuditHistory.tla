--------------------------- MODULE MCAuditHistory ---------------------------
(* Instances of AuditHistory for TLC. *)
EXTENDS AuditHistory

CONSTANTS e1, v1, b1
=============================================================================
