-------------------------- MODULE GovernedExecution --------------------------
(***************************************************************************)
(* The life of a governance decision after it was made: it is signed       *)
(* (govengine/governance_decision_signing.py), the runtime verifies it,    *)
(* claims it once through the DecisionClaimPort, performs the I/O, and     *)
(* hands back a receipt that is compared with the decision                 *)
(* (govengine/receipt_conformance.py).                                     *)
(*                                                                         *)
(* Decisions and signed artifacts travel separately, so an artifact may    *)
(* reach the runtime with another decision, or with the header of one      *)
(* record and the envelope of another.                                     *)
(*                                                                         *)
(* The runtime (RExecOp) is not part of the repository.  Its workers do    *)
(* what the port contracts and the integration order ask of them; they     *)
(* crash, lose their leases, race each other and retry.                    *)
(***************************************************************************)
EXTENDS GovernanceDecision, RecordTrust

CONSTANTS
  Workers,          \* runtime processes
  RuntimeOf,        \* the runtime instance each belongs to
  Signers,          \* who signs records
  Verifiers,        \* what runtimes verify with: allowed_signer_ids, trusted_status
  MaxArtifacts,     \* bound: signed artifacts
  DigestShaped,     \* the lease ids that have the form of a SHA-256 digest
  OutputSizes,      \* bytes a piece of I/O may produce
  MaxLeaseEpoch     \* bound: times the lease moves

ASSUME LeaseAssumption == MaxLeaseEpoch \in Nat
ASSUME SignerAssumption == RequiredSigners \subseteq Signers
ASSUME OutputAssumption == OutputSizes \subseteq Nat

VARIABLES
  artifacts,   \* signed decision records
  leaseEpoch,  \* the epoch of the lease in force
  claims,      \* the durable records of the claim port
  worker,      \* the runtime processes
  ios,         \* the I/O performed, in order
  receipts     \* receipts built by the runtime

runtimeVars == <<artifacts, leaseEpoch, claims, worker, ios, receipts>>
evars == <<now, binding, retiredAt, revokedAt, call,
           artifacts, leaseEpoch, claims, worker, ios, receipts>>

IdleWorker == [stage |-> "idle", decision |-> NoDecision, result |-> "none"]

EInit ==
  /\ Init
  /\ artifacts = {} /\ leaseEpoch = 0 /\ claims = {}
  /\ worker = [w \in Workers |-> IdleWorker]
  /\ ios = <<>> /\ receipts = {}

Decisions == {call[c].decision : c \in {d \in Calls : call[d].stage = "decided"}}
-----------------------------------------------------------------------------
(* sign_governance_decision: any finished decision may be signed. *)
Sign(c, s) ==
  /\ call[c].stage = "decided"
  /\ Cardinality(artifacts) < MaxArtifacts
  /\ artifacts' = artifacts \cup {SignedDecision(call[c].decision, s)}
  /\ UNCHANGED <<vars, leaseEpoch, claims, worker, ios, receipts>>

(* The record of a decision is signed as a record of another type, say for *)
(* an archive.                                                             *)
SignElsewhere(c, s, type) ==
  /\ call[c].stage = "decided"
  /\ Cardinality(artifacts) < MaxArtifacts
  /\ artifacts' = artifacts \cup {SignedRecord(type, call[c].decision, s)}
  /\ UNCHANGED <<vars, leaseEpoch, claims, worker, ios, receipts>>

(* The envelopes at hand, as signed or joined with the digest of another   *)
(* record and the name of another signer.                                  *)
Relabelled(envelope, digest, s) ==
  [envelope EXCEPT !.binds_digest = digest, !.signer_id = s]

Envelopes(d) ==
  {Relabelled(a.signature, digest, s) :
     a \in artifacts, s \in Signers,
     digest \in {{RecordDigest(DecisionRecordType, d)}} \cup {b.signature.binds_digest : b \in artifacts}}

(* What a runtime may be handed along with a decision. *)
Presented(d) ==
  artifacts \cup
  {SignedArtifact(DecisionRecordType, d, e, AuthorityPurpose) : e \in Envelopes(d)}

(* The runtime's own checks before the claim: status, bindings, expiry. *)
RuntimeBound(w, d) ==
  /\ Request[d.request].runtime_instance_id = RuntimeOf[w]
  /\ Request[d.request].lease_epoch = leaseEpoch
  /\ now < d.grant.expires_at

Verify(w, d, artifact, verifier) ==
  /\ worker[w].stage = "idle"
  /\ d.status = "allowed"
  /\ RuntimeBound(w, d)
  /\ TrustedGovernanceDecision(d, artifact, verifier)
  /\ worker' = [worker EXCEPT ![w] = [IdleWorker EXCEPT !.stage = "verified", !.decision = d]]
  /\ UNCHANGED <<vars, artifacts, leaseEpoch, claims, ios, receipts>>

(* A plausible regression of an adapter: only the digest is unique. *)
Unclaimed_DigestOnly(d) == \A k \in claims : k.decision # d

(* The contract of claim_governance_decision_once. *)
Unclaimed(d) == \A k \in claims : k.decision # d /\ k.decision.grant.nonce # d.grant.nonce

Claim(w) ==
  LET d == worker[w].decision
  IN  /\ worker[w].stage = "verified"
      /\ IF Unclaimed(d)
         THEN /\ claims' = claims \cup {[decision |-> d, owner |-> RuntimeOf[w]]}
              /\ worker' = [worker EXCEPT ![w].stage = "claimed"]
         ELSE /\ claims' = claims
              /\ worker' = [worker EXCEPT ![w] = IdleWorker]
      /\ UNCHANGED <<vars, artifacts, leaseEpoch, ios, receipts>>

(* The permit is checked again immediately before the I/O. *)
Perform(w) ==
  /\ worker[w].stage = "claimed"
  /\ RuntimeBound(w, worker[w].decision)
  /\ ios' = Append(ios, [decision |-> worker[w].decision, worker |-> w, at |-> now])
  /\ worker' = [worker EXCEPT ![w].stage = "performed"]
  /\ UNCHANGED <<vars, artifacts, leaseEpoch, claims, receipts>>

GiveUp(w) ==
  /\ worker[w].stage = "claimed"
  /\ ~RuntimeBound(w, worker[w].decision)
  /\ worker' = [worker EXCEPT ![w] = IdleWorker]
  /\ UNCHANGED <<vars, artifacts, leaseEpoch, claims, ios, receipts>>

(* A worker dies and restarts with nothing but what is durable. *)
Crash(w) ==
  /\ worker[w].stage # "idle"
  /\ worker' = [worker EXCEPT ![w] = IdleWorker]
  /\ UNCHANGED <<vars, artifacts, leaseEpoch, claims, ios, receipts>>

MoveLease ==
  /\ leaseEpoch < MaxLeaseEpoch
  /\ leaseEpoch' = leaseEpoch + 1
  /\ UNCHANGED <<vars, artifacts, claims, worker, ios, receipts>>
-----------------------------------------------------------------------------
(* Receipts. *)

(* The fields of GovernanceAuthorization and RuntimeReceiptBinding that    *)
(* are taken from the request.                                             *)
RuntimeFacts(q) ==
  [operation |-> q.operation, attempt_id |-> q.attempt_id,
   runtime_instance_id |-> q.runtime_instance_id, lease_id |-> q.lease_id,
   lease_epoch |-> q.lease_epoch, fencing_token |-> q.fencing_token,
   execution_spec |-> q.execution_spec, payload |-> q.payload,
   requested_scope |-> q.digests.requested_scope, inventory |-> q.digests.inventory,
   inventory_epoch |-> q.inventory.inventory_epoch,
   policy_pack |-> q.digests.policy_pack, policy_epoch |-> q.policy_epoch]

(* build_runtime_receipt_binding refuses what is not digest shaped. *)
ReceiptShapeOk(facts) == facts.lease_id \in DigestShaped

(* The permit of a worker, opaque to GovEngine. *)
Permit(w) == w

(* A plausible regression: the decision digest is not compared. *)
ConformanceFailures_AnyDecision(d, receipt, permit) ==
  {f \in {"permit", "facts", "output_digest", "output_limit"} :
     CASE f = "permit" -> receipt.permit # permit
       [] f = "facts" -> receipt.facts # RuntimeFacts(Request[d.request])
       [] f = "output_digest" -> d.controls.output_digest_required /\ ~receipt.has_output_digests
       [] OTHER -> /\ d.controls.max_output_bytes > 0
                   /\ receipt.output_bytes > d.controls.max_output_bytes}

(* evaluate_receipt_conformance: the failures; none is "conformant". *)
ConformanceFailures(d, receipt, permit) ==
  {f \in {"not_allowed", "decision", "permit", "facts", "output_digest", "output_limit"} :
     CASE f = "not_allowed" -> d.status # "allowed"
       [] f = "decision" -> d.status = "allowed" /\ receipt.decision # d
       [] f = "permit" -> d.status = "allowed" /\ receipt.permit # permit
       [] f = "facts" -> d.status = "allowed" /\ receipt.facts # RuntimeFacts(Request[d.request])
       [] f = "output_digest" -> d.controls.output_digest_required /\ ~receipt.has_output_digests
       [] OTHER -> /\ d.controls.max_output_bytes > 0
                   /\ receipt.output_bytes > d.controls.max_output_bytes}

(* The worker reports what it did: build_runtime_receipt_binding, then     *)
(* evaluate_receipt_conformance with its own decision and permit.          *)
Report(w, bytes, digests) ==
  LET d == worker[w].decision
      facts == RuntimeFacts(Request[d.request])
      receipt == [decision |-> d, permit |-> Permit(w), facts |-> facts,
                  has_output_digests |-> digests, output_bytes |-> bytes]
  IN  /\ worker[w].stage = "performed"
      /\ IF ReceiptShapeOk(facts)
         THEN /\ receipts' = receipts \cup {receipt}
              /\ worker' = [worker EXCEPT ![w].stage = "reported", ![w].result =
                    IF ConformanceFailures(d, receipt, Permit(w)) = {}
                    THEN "conformant" ELSE "nonconformant"]
         ELSE /\ receipts' = receipts
              /\ worker' = [worker EXCEPT ![w].stage = "reported", ![w].result = "raised"]
      /\ UNCHANGED <<vars, artifacts, leaseEpoch, claims, ios>>
-----------------------------------------------------------------------------
Runtime(w) ==
  \/ \E d \in Decisions, verifier \in Verifiers :
       \E artifact \in Presented(d) : Verify(w, d, artifact, verifier)
  \/ Claim(w)
  \/ Perform(w)
  \/ GiveUp(w)
  \/ \E bytes \in OutputSizes, digests \in BOOLEAN : Report(w, bytes, digests)
  \/ Crash(w)

ENext ==
  \/ Next /\ UNCHANGED runtimeVars
  \/ \E c \in Calls, s \in Signers : Sign(c, s)
  \/ \E c \in Calls, s \in Signers, type \in RecordTypes \ {DecisionRecordType} :
       SignElsewhere(c, s, type)
  \/ \E w \in Workers : Runtime(w)
  \/ MoveLease

ESpec == EInit /\ [][ENext]_evars
-----------------------------------------------------------------------------
(* However workers race, crash and retry, every I/O has a grant of its     *)
(* own: a trusted signer signed its decision, and no other I/O runs under  *)
(* that decision or its nonce (require_trusted_governance_decision,        *)
(* claim_governance_decision_once).                                        *)
OneTrustedGrantPerIo ==
  \A i \in DOMAIN ios :
    /\ ios[i].decision.status = "allowed"
    /\ \E s \in RequiredSigners : SignedDecision(ios[i].decision, s) \in artifacts
    /\ \A j \in DOMAIN ios : i # j =>
         /\ ios[i].decision # ios[j].decision
         /\ ios[i].decision.grant.nonce # ios[j].decision.grant.nonce

(* A runtime trusts a decision exactly with the artifact that a required   *)
(* signer, whom its verifier trusts, made of this very decision: no        *)
(* signature of another decision, type or signer passes for it, and no     *)
(* honest one is refused.  What it trusts, the artifact transition allows  *)
(* too (require_trusted_governance_decision, signature_transition_decision). *)
TrustedExactlyWhenSigned ==
  \A d \in Decisions, verifier \in Verifiers : \A a \in Presented(d) :
    LET verification == VerifySignedRecord(d, a, verifier)
        trusted == TrustedGovernanceDecision(d, a, verifier)
    IN  /\ trusted <=> /\ \E s \in RequiredSigners : a = SignedDecision(d, s)
                        /\ a \in artifacts
                        /\ verifier.trusted_status = "trusted"
        /\ trusted => TransitionBlockers(a.record_digest, a.signature, {verification}) = {}

(* I/O is over before the approval and the activation it rests on expire,  *)
(* though both were checked against the time the evaluation began          *)
(* (_authorization refuses a grant that outlives them).                    *)
IoBeforeEvidenceExpires ==
  \A i \in DOMAIN ios :
    LET q == Request[ios[i].decision.request]
    IN  /\ \A b \in ActiveBindings(q) : InForce(b) => ios[i].at < Binding[b].expires_at
        /\ q.approval # NoApproval => ios[i].at < q.approval.expires_at

(* A withdrawn policy or a revoked approval is honoured within one         *)
(* authorization lifetime: a decision made just before the withdrawal is   *)
(* the last that can still lead to I/O.                                    *)
WithdrawalTakesEffectWithinLifetime ==
  \A i \in DOMAIN ios :
    LET q == Request[ios[i].decision.request]
    IN  /\ \A b \in ActiveBindings(q) : ios[i].at < retiredAt[b] + MaxLifetime
        /\ q.approval # NoApproval =>
             ios[i].at < revokedAt[q.approval.approval_id] + MaxLifetime

Conforms(d, receipt, w) == ConformanceFailures(d, receipt, Permit(w)) = {}

(* A receipt conforms to a decision only if its worker performed I/O under *)
(* that very decision: neither a repeated evaluation of the same request   *)
(* nor another worker's permit can pass it off (evaluate_receipt_conformance). *)
ConformantReceiptProvesIo ==
  \A receipt \in receipts, d \in Decisions, w \in Workers :
    Conforms(d, receipt, w) =>
      \E i \in DOMAIN ios : ios[i].decision = d /\ ios[i].worker = w

(* A conformant receipt keeps every output limit and digest obligation of  *)
(* the policy rule that allowed the request, through the projection into   *)
(* controls and the decision record.                                       *)
ConformantReceiptKeepsPolicyLimits ==
  \A receipt \in receipts, d \in Decisions, w \in Workers :
    LET verdict == GatesOf[d.request].initial
    IN  Conforms(d, receipt, w) =>
          /\ \A i \in DOMAIN verdict.constraints :
               verdict.constraints[i].kind = "output_limit" =>
                 receipt.output_bytes <= verdict.constraints[i].value.num
          /\ HasObligation(verdict, {"output_digest_required"}) => receipt.has_output_digests
-----------------------------------------------------------------------------
AuthorizationOf(d) == [id |-> d, nonce |-> d.grant.nonce, expires_at |-> d.grant.expires_at]

Abstract == INSTANCE SingleUseAuthorization WITH
  clock <- now,
  issued <- {AuthorizationOf(d) : d \in {e \in Decisions : e.status = "allowed"}},
  consumed <- {AuthorizationOf(k.decision) : k \in claims},
  performed <- [i \in DOMAIN ios |-> AuthorizationOf(ios[i].decision)]

(* The pipeline implements the abstract single-use authorization. *)
ImplementsSingleUse == Abstract!ASpec
-----------------------------------------------------------------------------
(* The inductive invariant behind OneTrustedGrantPerIo,                    *)
(* WithdrawalTakesEffectWithinLifetime and ImplementsSingleUse.            *)

IoRecords == [decision : DecisionRecords, worker : Workers, at : Times]

ExecutionTyped ==
  /\ worker \in [Workers -> [stage : {"idle", "verified", "claimed", "performed", "reported"},
                             decision : DecisionRecords \cup {NoDecision},
                             result : {"none", "conformant", "nonconformant", "raised"}]]
  /\ ios \in Seq(IoRecords)

(* Only signers make artifacts, and they sign what was decided. *)
ArtifactsAreSigned ==
  \A a \in artifacts : \E d \in Decisions, s \in Signers :
    \/ a = SignedDecision(d, s)
    \/ \E type \in RecordTypes \ {DecisionRecordType} : a = SignedRecord(type, d, s)

(* A decision that may be acted on. *)
Granted(d) ==
  /\ d \in Decisions /\ d.status = "allowed"
  /\ \E s \in Signers :
       /\ SignedDecision(d, s) \in artifacts
       /\ RequiredSigners # {} => s \in RequiredSigners

WorkersAreGranted == \A w \in Workers : worker[w].stage # "idle" => Granted(worker[w].decision)
ClaimsAreGranted == \A k \in claims : Granted(k.decision)

IsClaimed(d) == \E k \in claims : k.decision = d

ClaimsDiffer ==
  \A k, l \in claims :
    k # l => k.decision # l.decision /\ k.decision.grant.nonce # l.decision.grant.nonce

(* Who may still act on a decision is alone with it, and nobody acted. *)
ClaimIsExclusive ==
  \A w \in Workers : worker[w].stage = "claimed" =>
    /\ IsClaimed(worker[w].decision)
    /\ \A i \in DOMAIN ios : ios[i].decision # worker[w].decision
    /\ \A v \in Workers \ {w} :
         worker[v].stage = "claimed" => worker[v].decision # worker[w].decision

IoIsClaimed ==
  \A i \in DOMAIN ios :
    /\ IsClaimed(ios[i].decision)
    /\ ios[i].at < ios[i].decision.grant.expires_at
    /\ \A j \in DOMAIN ios : i # j => ios[i].decision # ios[j].decision

ExecutionInv ==
  /\ EvidenceInv
  /\ ExecutionTyped
  /\ ArtifactsAreSigned
  /\ WorkersAreGranted
  /\ ClaimsAreGranted
  /\ ClaimsDiffer
  /\ ClaimIsExclusive
  /\ IoIsClaimed

(* A worker that says it performed, and a receipt it built, have their I/O. *)
Performed(d, w) == \E i \in DOMAIN ios : ios[i].decision = d /\ ios[i].worker = w

ReceiptsRestOnIo ==
  /\ \A w \in Workers : worker[w].stage = "performed" => Performed(worker[w].decision, w)
  /\ \A receipt \in receipts :
       /\ Performed(receipt.decision, receipt.permit)
       /\ receipt.output_bytes \in OutputSizes
=============================================================================
