---------------------------- MODULE MCAccessAudit ----------------------------
(***************************************************************************)
(* Small instances of AccessAudit.                                         *)
(***************************************************************************)
EXTENDS AuditRefinement
=============================================================================
