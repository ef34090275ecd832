-------------------------- MODULE GovernanceRequest --------------------------
(***************************************************************************)
(* The canonical input of one governance transaction                       *)
(* (govengine/governance.py) and the approval attestation bound to it      *)
(* (govengine/approvals.py): which requests are accepted at all.           *)
(*                                                                         *)
(* A digest is the kind and the content it was taken of, so two digests    *)
(* are equal exactly when both are.  A request carries the digests its     *)
(* sender claims; validation compares them with the content.  The pair     *)
(* (operation_id, step_id) is one field, operation.                        *)
(***************************************************************************)
EXTENDS PolicyCompiler, ScopeCapability

Digest(kind, content) == [kind |-> kind, content |-> content]

NoApproval == [approval_id |-> "none"]
NoDigest == Digest("none", "none")

(* _subject_record: what an approver approves.  The approval itself is not *)
(* part of it.                                                             *)
SubjectRecord(q) ==
  [transaction_id |-> q.transaction_id, operation |-> q.operation,
   attempt_id |-> q.attempt_id, policy_pack |-> q.digests.policy_pack,
   policy_epoch |-> q.policy_epoch, execution_facts |-> q.digests.execution_facts,
   execution_spec |-> q.execution_spec, payload |-> q.payload,
   requested_scope |-> q.digests.requested_scope,
   scope_policy |-> q.digests.scope_policy,
   requirements |-> q.digests.requirements, inventory |-> q.digests.inventory,
   side_effect_class |-> q.side_effect_class,
   runtime_instance_id |-> q.runtime_instance_id, lease_id |-> q.lease_id,
   lease_epoch |-> q.lease_epoch, fencing_token |-> q.fencing_token]

(* A plausible regression: approvals are bound to the operation and the    *)
(* attempt only, as before subject digests existed.                        *)
ApprovalBoundTo_OperationOnly(a, q) ==
  /\ a.operation = q.operation
  /\ a.attempt_id = q.attempt_id

(* _validate_request_binding of approvals.py. *)
ApprovalBoundTo(a, q) ==
  /\ a.subject = SubjectRecord(q)
  /\ a.operation = q.operation
  /\ a.attempt_id = q.attempt_id
  /\ a.execution_spec = q.execution_spec
  /\ a.execution_facts = q.digests.execution_facts
  /\ a.target_scope = q.digests.requested_scope
  /\ a.policy_pack = q.digests.policy_pack
  /\ a.approved_side_effect_class = q.side_effect_class
  /\ a.policy_epoch = q.policy_epoch

(* _validate_approval_attestation_shape: the part that is not its type. *)
ValidApprovalShape(a) ==
  /\ a.issued_at < a.expires_at
  /\ a.not_before < a.expires_at
  /\ a.approved_side_effect_class \in SideEffectClasses

ClaimedDigests(q) ==
  [policy_pack |-> Digest("policy_pack", q.policy_pack),
   execution_facts |-> Digest("execution_facts", q.execution_facts),
   requested_scope |-> Digest("requested_scope", q.requested_scope),
   scope_policy |-> Digest("scope_policy", q.scope_policy),
   requirements |-> Digest("requirements", q.requirements),
   inventory |-> Digest("inventory", q.inventory),
   approval |-> IF q.approval = NoApproval THEN NoDigest ELSE Digest("approval", q.approval)]

(* _validate_scope_capability_bindings. *)
ScopeCapabilityBound(q) ==
  /\ q.scope_policy.policy_pack = q.digests.policy_pack
  /\ q.scope_policy.policy_epoch = q.policy_epoch
  /\ q.requirements.operation = q.operation
  /\ q.requirements.execution_spec = q.execution_spec
  /\ q.requirements.side_effect_class = q.side_effect_class
  /\ q.inventory.runtime_instance_id = q.runtime_instance_id

(* validate_governance_request and the validators it calls. *)
ValidRequest(q) ==
  /\ q.side_effect_class \in SideEffectClasses
  /\ ValidSnapshot(q.policy_pack.rules)
  /\ ~q.requested_scope.claims_authority
  /\ q.digests = ClaimedDigests(q)
  /\ q.policy_pack.schema_version = "v1" =>
       /\ q.policy_pack.not_before < q.policy_pack.expires_at
       /\ q.policy_pack.policy_epoch = q.policy_epoch
  /\ ValidScopePolicy(q.scope_policy)
  /\ ValidRequirements(q.requirements)
  /\ ValidInventory(q.inventory)
  /\ ScopeCapabilityBound(q)
  /\ q.approval # NoApproval =>
       ValidApprovalShape(q.approval) /\ ApprovalBoundTo(q.approval, q)

(* _policy_request_from_execution_facts: the facts name this transaction   *)
(* and this attempt.                                                       *)
FactsNameRequest(q) ==
  /\ q.execution_facts.request_id = q.transaction_id
  /\ q.execution_facts.subject_ref = <<q.operation, q.attempt_id>>
=============================================================================
