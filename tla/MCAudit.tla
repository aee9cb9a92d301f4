------------------------------- MODULE MCAudit ------------------------------
(* Four rows in two lanes for TLC.                                         *)
EXTENDS AuditLog, TLC

CONSTANTS t1, t2, t3, l1, l2

Symmetry == Permutations({t1, t2, t3}) \cup Permutations({l1, l2})
=============================================================================
