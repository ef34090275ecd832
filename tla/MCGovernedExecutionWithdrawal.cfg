SPECIFICATION ESpec
CONSTANTS
  MaxRules = 5
  MaxConditions = 2
  MaxTotal = 9
  MaxControls = 3
  Calls = {c1}
  Requests = {"read", "write_approved"}
  Request <- MCRequest
  Bindings = {"b1", "b2", "b3"}
  Binding <- MCBindingLate
  FirstBinding = "b1"
  TrustPolicy <- MCTrustPolicy
  SignedApprovals = {"ap1"}
  Nonces = {n1}
  NoNonce = NoNonce
  NoRequest = "no_request"
  NoBinding = "no_binding"
  Lifetimes = {1, 2, 3}
  Revocable = {"ap1"}
  MaxLifetime = 2
  MaxTime = 3
  Workers = {w1}
  RuntimeOf <- MCRuntimeOf
  Signers = {"gov", "other"}
  RecordTypes = {"decision", "archive"}
  DecisionRecordType = "decision"
  RequiredSigners = {"gov"}
  AllowedModes = {"detached_demo_digest"}
  AllowedTrustStatuses = {"trusted", "provisional"}
  Verifiers <- MCVerifiers
  MaxArtifacts = 2
  DigestShaped <- MCDigestShaped
  OutputSizes = {1, 2}
  MaxLeaseEpoch = 1
INVARIANTS
  IoBeforeEvidenceExpires
  WithdrawalTakesEffectWithinLifetime
CHECK_DEADLOCK FALSE
