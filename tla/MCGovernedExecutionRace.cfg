SPECIFICATION ESpec
CONSTANTS
  MaxRules = 5
  MaxConditions = 2
  MaxTotal = 9
  MaxControls = 3
  Calls = {c1, c2}
  Requests = {"read"}
  Request <- MCRequest
  Bindings = {"b1"}
  Binding <- MCBindingLate
  FirstBinding = "b1"
  TrustPolicy <- MCTrustPolicy
  SignedApprovals = {}
  Nonces = {n1}
  NoNonce = NoNonce
  NoRequest = "no_request"
  NoBinding = "no_binding"
  Lifetimes = {1, 2}
  Revocable = {}
  MaxLifetime = 2
  MaxTime = 2
  Workers = {w1, w2}
  RuntimeOf <- MCRuntimeOf
  Signers = {"gov", "other"}
  RecordTypes = {"decision", "archive"}
  DecisionRecordType = "decision"
  RequiredSigners = {"gov"}
  AllowedModes = {"detached_demo_digest"}
  AllowedTrustStatuses = {"trusted", "provisional"}
  Verifiers <- MCVerifiers
  MaxArtifacts = 2
  DigestShaped <- MCDigestShaped
  OutputSizes = {1, 2}
  MaxLeaseEpoch = 1
SYMMETRY Interchangeable
INVARIANTS
  OneTrustedGrantPerIo
  ConformantReceiptProvesIo
  ConformantReceiptKeepsPolicyLimits
  TrustedExactlyWhenSigned
PROPERTY
  ImplementsSingleUse
CHECK_DEADLOCK FALSE
