SPECIFICATION TSpec
CONSTANTS
  MaxRules = 3
  MaxConditions = 1
  MaxTotal = 3
  MaxControls = 3
  Calls = {c1, c2}
  Requests = {"put", "recover", "put_plain", "put_no_secret", "put_open", "plug", "plug_wide", "plug_shell"}
  Request <- MCRequest
  Typeds = {"put", "put_ref", "put_no_secret", "put_open", "put_silent", "put_drift", "look", "plug", "plug_secret", "plug_shell"}
  Typed <- MCTyped
  Delays = {0, 1}
  Bindings = {"b1"}
  Binding <- TypedBinding
  FirstBinding = "b1"
  TrustPolicy <- MCTrustPolicy
  SignedApprovals = {"ap1", "ap2", "ap3"}
  Nonces = {n1}
  NoNonce = NoNonce
  NoRequest = "no_request"
  NoBinding = "no_binding"
  Lifetimes = {1, 2}
  Revocable = {}
  MaxLifetime = 2
  MaxTime = 2
SYMMETRY Symmetry
INVARIANTS
  AcceptedAdmissionIsExact
  ApprovedAsTyped
  OnlyApprovalIsLifted
  ValidUntilGrantExpires
CHECK_DEADLOCK FALSE
