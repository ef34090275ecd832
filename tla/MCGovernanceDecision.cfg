SPECIFICATION Spec
CONSTANTS
  MaxRules = 5
  MaxConditions = 2
  MaxTotal = 9
  MaxControls = 3
  Calls = {c1}
  Requests = {"read", "write", "write_approved", "tune", "tune_approved", "odd_approved", "frozen_approved", "wiping_approved", "unsigned", "borrowed", "private", "starved", "classless", "unbound", "second", "drifted", "mismatch"}
  Request <- GateRequests
  Bindings = {"b1", "b2", "b3"}
  Binding <- MCBinding
  FirstBinding = "b1"
  TrustPolicy <- MCTrustPolicy
  SignedApprovals = {"ap1", "ap2", "ap3", "ap4", "ap5", "ap7"}
  Nonces = {n1}
  NoNonce = NoNonce
  NoRequest = "no_request"
  NoBinding = "no_binding"
  Lifetimes = {1, 2, 3}
  Revocable = {"ap1"}
  MaxLifetime = 2
  MaxTime = 2
INVARIANTS
  NoAllowAfterWithdrawal
  MutationNeedsExactApproval
  AllowedWithinScopeAndCapabilities
  ApprovalNeverLiftsDeny
CHECK_DEADLOCK FALSE
