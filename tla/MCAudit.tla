------------------------------ MODULE MCAudit -------------------------------
(* Instances of AuditSessions for TLC. *)
EXTENDS AuditSessions, TLC

AuditSymmetry ==
    Permutations(Sessions) \cup Permutations(Places) \cup Permutations(Workers)
=============================================================================
