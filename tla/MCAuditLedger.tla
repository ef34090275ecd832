--------------------------- MODULE MCAuditLedger ---------------------------
(* Instances of AuditLedger for TLC. *)
EXTENDS AuditLedger, TLC

Record(id, type) == [record_id |-> id, record_type |-> type, schema_version |-> "v0.1"]

(* Two that the ledger takes and one of an unknown type. *)
MCRecords ==
  {Record("r1", "admission_decision"), Record("r2", "operator_review"), Record("r3", "payload")}

Interchangeable == Permutations(Writers)
=============================================================================
