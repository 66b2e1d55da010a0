------------------------------ MODULE MCCursors ------------------------------
(* Small instances of the cursors that write, and of the audit log, for TLC:   *)
(* the SDK's insert cursor, one task or two; an insert cursor of honua_gp; the  *)
(* writer of its audit records.  They share no state, and a run checks one.     *)
EXTENDS EditCursor, DaCursor, AuditWriter, TLC

VARIABLE part   \* "edit", "da" or "audit"

MCSymmetry == Permutations(Rows) \cup Permutations(DaRows) \cup Permutations(Writers)

PartsInit ==
  /\ Init /\ DaInit /\ AuditInit
  /\ \/ part = "edit"
     \/ part \in {"da", "audit"} /\ autoFlush /\ rollback

PartsNext ==
  \/ part = "edit" /\ Next /\ UNCHANGED <<daVars, auditVars, part>>
  \/ part = "da" /\ DaNext /\ UNCHANGED <<vars, auditVars, part>>
  \/ part = "audit" /\ AuditNext /\ UNCHANGED <<vars, daVars, part>>

PartsSpec == PartsInit /\ [][PartsNext]_<<vars, daVars, auditVars, part>>
=============================================================================
