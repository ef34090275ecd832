----------------------------- MODULE RecordTrust -----------------------------
(***************************************************************************)
(* govengine/signing.py and the two functions built on it                  *)
(* (govengine/governance_decision_signing.py): what a signature on a       *)
(* GovEngine record binds, and when a signed record is trusted.  All of it *)
(* is pure; keys and signers belong to the host.                           *)
(*                                                                         *)
(* An optional text is a set of at most one element.  The value of a       *)
(* signature is what was signed, by whom and what for.  The signer of the  *)
(* package is a demonstration and keeps no keys; here, as with the real    *)
(* ones that hosts bring, only the signers make values.                    *)
(***************************************************************************)
CONSTANTS
  RecordTypes,           \* the govengine.* record types that are signed
  DecisionRecordType,    \* SIGNED_GOVERNANCE_DECISION_RECORD_TYPE
  RequiredSigners,       \* SigningPolicy.required_signer_ids
  AllowedModes,          \* SigningPolicy.allowed_modes
  AllowedTrustStatuses   \* TrustPolicy.allowed_trust_statuses

ASSUME RecordTypeAssumption == DecisionRecordType \in RecordTypes

IntegrityOnlyModes == {"integrity_only", "not_signed_integrity_only"}
DemoMode == "detached_demo_digest"
AuthorityPurpose == "governance_decision_authority"
RecordPurpose == "govengine_record"
-----------------------------------------------------------------------------
(* Records, envelopes and signed artifacts. *)

(* canonical_govengine_record: the type is part of what is digested. *)
CanonicalRecord(type, record) == [record_type |-> type, record |-> record]

(* govengine_record_digest: a digest stands for what it is taken of. *)
RecordDigest(type, record) == CanonicalRecord(type, record)

SignatureValue(digest, signer, purpose) ==
  [digest |-> digest, signer |-> signer, purpose |-> purpose]

(* DemoDigestSigner.sign *)
DemoSign(signer, digest, purpose) ==
  [mode |-> DemoMode, signer_id |-> signer, binds_digest |-> {digest},
   signature |-> {SignatureValue(digest, signer, purpose)}, purpose |-> purpose]

Signed(envelope) == envelope.mode \notin IntegrityOnlyModes /\ envelope.signature # {}

(* SignedArtifact: it cannot be built without a signature that names the   *)
(* digest of its record.                                                   *)
ValidArtifact(a) ==
  /\ a.record_type \in RecordTypes
  /\ Signed(a.signature)
  /\ a.signature.binds_digest = {a.record_digest}

(* signed_artifact_from_record, with the metadata its caller gives. *)
SignedArtifact(type, record, envelope, purpose) ==
  [record_type |-> type, record_digest |-> RecordDigest(type, record),
   signature |-> envelope, purpose |-> purpose, decision_digest |-> record]

(* sign_governance_decision, of a signer that answers "signed". *)
SignedDecision(d, signer) ==
  LET digest == RecordDigest(DecisionRecordType, d)
  IN  SignedArtifact(DecisionRecordType, d,
                     DemoSign(signer, digest, AuthorityPurpose), AuthorityPurpose)

(* demo_sign_govengine_record: the same record under a type of its own. *)
SignedRecord(type, record, signer) ==
  SignedArtifact(type, record,
                 DemoSign(signer, RecordDigest(type, record), RecordPurpose), RecordPurpose)
-----------------------------------------------------------------------------
(* Verification. *)

Denied == [status |-> "failed", trust_status |-> "denied"]

(* A plausible regression: the value of the signature is not computed      *)
(* again, only what the envelope says of itself.                           *)
DemoVerify_EnvelopeOnly(verifier, digest, envelope) ==
  IF /\ envelope.mode = DemoMode
     /\ envelope.binds_digest = {digest}
     /\ verifier.allowed_signer_ids = {} \/ envelope.signer_id \in verifier.allowed_signer_ids
  THEN [status |-> "passed", trust_status |-> verifier.trusted_status]
  ELSE Denied

(* DemoDigestVerifier.verify *)
DemoVerify(verifier, digest, envelope) ==
  IF /\ envelope.mode = DemoMode
     /\ envelope.binds_digest = {digest}
     /\ verifier.allowed_signer_ids = {} \/ envelope.signer_id \in verifier.allowed_signer_ids
     /\ envelope.signature =
          {SignatureValue(digest, envelope.signer_id, envelope.purpose)}
  THEN [status |-> "passed", trust_status |-> verifier.trusted_status]
  ELSE Denied

(* VerificationResult.trusted *)
Trusted(verification) ==
  /\ verification.status \in {"passed", "ok"}
  /\ verification.trust_status \in {"trusted", "passed", "ok"}

(* verify_signed_govengine_record: the digest is taken again, of the       *)
(* record at hand under the type the artifact claims.                      *)
VerifySignedRecord(record, a, verifier) ==
  IF RecordDigest(a.record_type, record) # a.record_digest THEN Denied
  ELSE DemoVerify(verifier, a.record_digest, a.signature)

(* A plausible regression: the artifact must verify, but it is not         *)
(* compared with the decision that is presented with it.                   *)
TrustedGovernanceDecision_AnyRecord(d, a, verifier) ==
  /\ a.record_type = DecisionRecordType
  /\ a.signature.signer_id \in RequiredSigners
  /\ Trusted(DemoVerify(verifier, a.record_digest, a.signature))

(* require_trusted_governance_decision *)
TrustedGovernanceDecision(d, a, verifier) ==
  LET verification == VerifySignedRecord(d, a, verifier)
  IN  /\ ValidArtifact(a)
      /\ a.record_type = DecisionRecordType
      /\ a.purpose = AuthorityPurpose
      /\ a.decision_digest = d
      /\ a.signature.mode \in AllowedModes
      /\ RequiredSigners # {} => a.signature.signer_id \in RequiredSigners
      /\ Trusted(verification)
      /\ verification.trust_status \in AllowedTrustStatuses

(* signature_transition_decision of a policy that requires a signature;    *)
(* the verification is optional.                                           *)
TransitionBlockers(digest, envelope, verification) ==
  {b \in {"signature_mode_not_allowed", "signature_required", "signer_not_allowed",
          "signature_digest_mismatch", "signature_missing_digest_binding",
          "trust_decision_required", "verification_status_not_passed",
          "trust_status_not_allowed"} :
     CASE b = "signature_mode_not_allowed" -> envelope.mode \notin AllowedModes
       [] b = "signature_required" -> ~Signed(envelope)
       [] b = "signer_not_allowed" ->
            RequiredSigners # {} /\ envelope.signer_id \notin RequiredSigners
       [] b = "signature_digest_mismatch" -> \E x \in envelope.binds_digest : x # digest
       [] b = "signature_missing_digest_binding" ->
            Signed(envelope) /\ envelope.binds_digest = {}
       [] b = "trust_decision_required" -> Signed(envelope) /\ verification = {}
       [] b = "verification_status_not_passed" ->
            \E v \in verification : v.status \notin {"passed", "ok"}
       [] OTHER -> \E v \in verification : v.trust_status \notin AllowedTrustStatuses}
=============================================================================
